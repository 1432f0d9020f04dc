----------------------------- MODULE ExprParser -----------------------------
(***************************************************************************)
(* The expression parser (parse_expr, parse_binary, parse_unary,           *)
(* parse_postfix, build_splat, parse_primary, parse_for): precedence       *)
(* climbing over recursive descent, as hcl2_eval and hcl2_expr_span use it.*)
(*                                                                         *)
(* The C stack is the sequence calls, and ret says what happens next: the  *)
(* function on top goes on ("run"), an operand is parsed ("unary"), or the *)
(* function that just returned did so with the node val ("ok") or with NULL*)
(* ("fail").  Nodes and the strings they own are cells of the heap, in the *)
(* order of their allocation; node_free adds to freed.  A cell allocated   *)
(* and freed within one step is not shown.                                 *)
(***************************************************************************)
EXTENDS Naturals, Sequences, FiniteSets

CONSTANTS
    Sources,    \* the token sequences that are parsed
    MaxFaults   \* bound on the allocations that fail

LBrace == "{"
RBrace == "}"
NoOp == ""      \* of the nodes without an operator

Keywords == {"for", "in", "if"}     \* names to the lexer
Names == {"id"} \cup Keywords

\* "num" is any literal, "str" any quoted string, "err" a byte sequence the
\* lexer answers with T_ERR.
Kinds == Names \cup {"num", "str", "err", "eof",
                     "(", ")", "[", "]", LBrace, RBrace, ",", ".", "...", "?", ":", "=", "=>",
                     "!", "-", "+", "*", "<", "==", "&&", "||"}

ASSUME SourcesAreTokens == \A s \in Sources : s \in Seq(Kinds \ {"eof"})
ASSUME FaultsAreCounted == MaxFaults \in Nat

VARIABLES
    src,        \* the tokens
    pos,        \* index of the current token
    calls,      \* activations of the parser's functions, outermost first
    ret,        \* "unary", "run", "ok", "fail"; "accepted" or "rejected" at the end
    val,        \* the node returned
    heap,       \* every node and string ever allocated
    freed,      \* the cells given back
    faults      \* allocation failures to come

vars == <<src, pos, calls, ret, val, heap, freed, faults>>

At(s, i) == IF i \in DOMAIN s THEN s[i] ELSE "eof"
Tok(i) == At(src, i)
T == Tok(pos)

\* lex stays at the end of the input.
After(i) == IF i \in DOMAIN src THEN i + 1 ELSE i
Next1 == After(pos)
Next2 == After(Next1)

\* Binding powers of the binary operators; 0 for every other token.
Bp(t) == CASE t = "||" -> 1
           [] t = "&&" -> 2
           [] t = "==" -> 3
           [] t = "<" -> 4
           [] t \in {"+", "-"} -> 5
           [] t = "*" -> 6
           [] OTHER -> 0

------------------------------------------------------------------------------
\* Cells.  paren is a history variable: a closing ')' was read for this node.
\* first and last are the tokens its span starts and ends at; 0 is unknown.

Node(kind, op, kids, first, last) ==
    [kind |-> kind, op |-> op, kids |-> kids, first |-> first, last |-> last, paren |-> FALSE]

Text == Node("text", NoOp, <<>>, 0, 0)
LitValue == Node("value", NoOp, <<>>, 0, 0)

Fresh(i) == Len(heap) + i       \* the i-th cell allocated by this step

\* What node_free visits: the nodes ns, their kids, the kids of these.
Kids(h, n) == {h[n].kids[i] : i \in DOMAIN h[n].kids}
Near(h, ns) == ns \cup UNION {Kids(h, n) : n \in ns}
Visited(h, ns) ==
    LET Within[k \in Nat] == IF k = 0 THEN ns ELSE Near(h, Within[k - 1])
    IN  Within
Reach(ns) == Visited(heap, ns)[Len(heap)]

\* Adopting a kid; the end of the span is where the node's parser stands.
Adopt(n, kids) == [heap EXCEPT ![n].kids = @ \o kids]
AdoptLast(n, kids, op, last) ==
    [heap EXCEPT ![n].kids = @ \o kids, ![n].op = op, ![n].last = last]

------------------------------------------------------------------------------
\* Activations.  own holds the cells a function's local variables own.

Frame(fn, at, bp, tok, own) == [fn |-> fn, at |-> at, bp |-> bp, tok |-> tok, own |-> own]

Depth == Len(calls)
Top == calls[Depth]
Below == SubSeq(calls, 1, Depth - 1)
In(fn) == calls # <<>> /\ Top.fn = fn
Runs(fn) == ret = "run" /\ In(fn)
Returned(fn, at) == ret = "ok" /\ In(fn) /\ Top.at = at

Here(at, own) == [Top EXCEPT !.at = at, !.own = own]

\* parse_binary(minbp) begins with an operand; parse_expr with parse_binary(1).
BinaryFrame(minbp) == Frame("binary", "left", minbp, 0, <<>>)
ExprFrames == <<Frame("expr", "cond", 0, 0, <<>>), BinaryFrame(1)>>

Operand(stack, i) ==
    /\ calls' = stack
    /\ ret' = "unary"
    /\ val' = 0
    /\ pos' = i
    /\ UNCHANGED src

Expr(stack, i) == Operand(stack \o ExprFrames, i)

GoOn(stack, i) ==
    /\ calls' = stack
    /\ ret' = "run"
    /\ val' = 0
    /\ pos' = i
    /\ UNCHANGED src

Return(n, i) ==
    /\ calls' = Below
    /\ ret' = "ok"
    /\ val' = n
    /\ pos' = i
    /\ UNCHANGED src

\* NULL after node_free (or free) of the cells ns.
Fails(ns) ==
    /\ calls' = Below
    /\ ret' = "fail"
    /\ val' = 0
    /\ freed' = freed \cup Reach(ns)
    /\ UNCHANGED <<src, pos, heap>>

Allocates(cells) == heap' = heap \o cells /\ UNCHANGED <<freed, faults>>
Same == UNCHANGED <<heap, freed, faults>>

\* An allocation returns NULL.
Fault == faults > 0 /\ faults' = faults - 1

Owned(f) == {f.own[i] : i \in DOMAIN f.own}

Init ==
    /\ src \in Sources
    /\ pos = 1
    /\ calls = ExprFrames
    /\ ret = "unary"
    /\ val = 0
    /\ heap = <<>>
    /\ freed = {}
    /\ faults = MaxFaults

------------------------------------------------------------------------------
\* parse_expr: the conditional.

CondBegins ==
    /\ Returned("expr", "cond")
    /\ T = "?"
    /\ Expr(Append(Below, Here("then", <<val>>)), Next1)
    /\ Same

\* Mutant: the last branch stops short of another conditional.
CondElseBinary ==
    /\ Returned("expr", "then")
    /\ T = ":"
    /\ Operand(Append(Append(Below, Here("else", Append(Top.own, val))), BinaryFrame(1)), Next1)
    /\ Same

CondElse ==
    /\ Returned("expr", "then")
    /\ T = ":"
    /\ Expr(Append(Below, Here("else", Append(Top.own, val))), Next1)
    /\ Same

CondWithoutElse ==
    /\ Returned("expr", "then")
    /\ T # ":"
    /\ Fails(Owned(Top) \cup {val})
    /\ UNCHANGED faults

CondDone ==
    /\ Returned("expr", "else")
    /\ LET e == Top.own[1]
       IN  Allocates(<<Node("cond", NoOp, Append(Top.own, val), heap[e].first, heap[val].last)>>)
    /\ Return(Fresh(1), pos)

CondLost ==
    /\ Returned("expr", "else")
    /\ Fault
    /\ Fails(Owned(Top) \cup {val})

ExprDone ==
    /\ Returned("expr", "cond")
    /\ T # "?"
    /\ Return(val, pos)
    /\ Same

------------------------------------------------------------------------------
\* parse_binary(minbp), whose right operands bind tighter than their operator.

BinaryOperator ==
    /\ Returned("binary", "left")
    /\ Bp(T) > 0 /\ Bp(T) >= Top.bp
    /\ Operand(Below \o <<[Here("right", <<val>>) EXCEPT !.tok = pos], BinaryFrame(Bp(T) + 1)>>,
               Next1)
    /\ Same

\* Mutant: the span ends with the left operand.
BinaryBuiltEndsLeft ==
    /\ Returned("binary", "right")
    /\ LET left == Top.own[1]
       IN  Allocates(<<Node("binary", Tok(Top.tok), <<left, val>>, Top.tok, heap[left].last)>>)
    /\ calls' = Append(Below, Here("left", <<>>))
    /\ val' = Fresh(1)
    /\ UNCHANGED <<src, ret, pos>>

BinaryBuilt ==
    /\ Returned("binary", "right")
    /\ LET left == Top.own[1]
       IN  Allocates(<<Node("binary", Tok(Top.tok), <<left, val>>, Top.tok, heap[val].last)>>)
    /\ calls' = Append(Below, Here("left", <<>>))
    /\ val' = Fresh(1)
    /\ UNCHANGED <<src, ret, pos>>

BinaryLost ==
    /\ Returned("binary", "right")
    /\ Fault
    /\ Fails(Owned(Top) \cup {val})

BinaryDone ==
    /\ Returned("binary", "left")
    /\ Bp(T) = 0 \/ Bp(T) < Top.bp
    /\ Return(val, pos)
    /\ Same

------------------------------------------------------------------------------
\* parse_unary.

Prefixed ==
    /\ ret = "unary"
    /\ T \in {"-", "!"}
    /\ Operand(Append(calls, Frame("unary", "operand", 0, pos, <<>>)), Next1)
    /\ Same

UnaryBuilt ==
    /\ Returned("unary", "operand")
    /\ Allocates(<<Node("unary", Tok(Top.tok), <<val>>, Top.tok, heap[val].last)>>)
    /\ Return(Fresh(1), pos)

UnaryLost ==
    /\ Returned("unary", "operand")
    /\ Fault
    /\ Fails({val})

------------------------------------------------------------------------------
\* parse_primary.  parse_postfix goes on with the primary n.

PrimaryBegins == ret = "unary" /\ T \notin {"-", "!"}

PostfixOf(stack, n, i) == GoOn(Append(stack, Frame("postfix", "rel", 0, 0, <<n>>)), i)

Literal ==
    /\ PrimaryBegins
    /\ T = "num"
    /\ Allocates(<<LitValue, Node("lit", NoOp, <<Fresh(1)>>, pos, pos)>>)
    /\ PostfixOf(calls, Fresh(2), Next1)

\* The value of a literal is not checked: the node stays without one.
LiteralHollow ==
    /\ PrimaryBegins
    /\ T = "num"
    /\ Fault
    /\ heap' = Append(heap, Node("lit", NoOp, <<>>, pos, pos))
    /\ PostfixOf(calls, Fresh(1), Next1)
    /\ UNCHANGED freed

\* A string or a variable reference.
NamedLeaf ==
    /\ PrimaryBegins
    /\ T = "str" \/ (T \in Names /\ Tok(Next1) # "(")
    /\ Allocates(<<Text, Node(IF T = "str" THEN "template" ELSE "var", NoOp, <<Fresh(1)>>, pos, pos)>>)
    /\ PostfixOf(calls, Fresh(2), Next1)

CallBegins ==
    /\ PrimaryBegins
    /\ T \in Names /\ Tok(Next1) = "("
    /\ Allocates(<<Text, Node("call", NoOp, <<Fresh(1)>>, pos, 0)>>)
    /\ GoOn(Append(calls, Frame("call", "item", 0, 0, <<Fresh(2)>>)), Next2)

ParenBegins ==
    /\ PrimaryBegins
    /\ T = "("
    /\ Expr(Append(calls, Frame("paren", "inner", 0, 0, <<>>)), Next1)
    /\ Same

\* '[' or '{' without a for behind it: a tuple or an object.
BracketBegins ==
    LET fn == IF T = "[" THEN "tuple" ELSE "object"
    IN  /\ PrimaryBegins
        /\ T \in {"[", LBrace} /\ Tok(Next1) # "for"
        /\ Allocates(<<Node(fn, NoOp, <<>>, pos, 0)>>)
        /\ GoOn(Append(calls, Frame(fn, "item", 0, 0, <<Fresh(1)>>)), Next1)

StartsPrimary == {"num", "str", "(", "[", LBrace} \cup Names

\* Nothing is held by parse_primary yet: no expression starts here, or its
\* first allocations fail.
PrimaryFails ==
    /\ PrimaryBegins
    /\ \/ T \notin StartsPrimary /\ UNCHANGED faults
       \/ T \in StartsPrimary \ {"("} /\ Fault
    /\ ret' = "fail"
    /\ UNCHANGED <<src, pos, calls, val, heap, freed>>

ParenCloses ==
    /\ Returned("paren", "inner")
    /\ T = ")"
    /\ heap' = [heap EXCEPT ![val].paren = TRUE]
    /\ PostfixOf(Below, val, Next1)
    /\ UNCHANGED <<freed, faults>>

ParenUnclosed ==
    /\ Returned("paren", "inner")
    /\ T # ")"
    /\ Fails({val})
    /\ UNCHANGED faults

------------------------------------------------------------------------------
\* The arguments of a call and the elements of a tuple: one loop each, which
\* goes on ("item") after a comma and otherwise wants its bracket ("close").

ListFns == {"call", "tuple"}
InList == calls # <<>> /\ Top.fn \in ListFns
Closer == CASE Top.fn = "call" -> ")" [] Top.fn = "tuple" -> "]" [] OTHER -> RBrace
List == Top.own[1]

ListItem ==
    /\ ret = "run" /\ InList
    /\ Top.at = "item" /\ T # Closer
    /\ Expr(calls, pos)
    /\ Same

ListItemDone ==
    /\ ret = "ok" /\ InList
    /\ T # "..." \/ Top.fn = "tuple"
    /\ heap' = Adopt(List, <<val>>)
    /\ IF T = "," THEN GoOn(Append(Below, Here("item", Top.own)), Next1)
                  ELSE GoOn(Append(Below, Here("close", Top.own)), pos)
    /\ UNCHANGED <<freed, faults>>

\* A spread argument is the last one.
ArgSpread ==
    /\ ret = "ok" /\ In("call")
    /\ T = "..."
    /\ heap' = AdoptLast(List, <<val>>, "...", 0)
    /\ GoOn(Append(Below, Here("close", Top.own)), Next1)
    /\ UNCHANGED <<freed, faults>>

ListItemLost ==
    /\ ret = "ok" /\ InList
    /\ Fault
    /\ Fails({List, val})

\* The closing bracket, of an object too.
ListCloses ==
    /\ (ret = "run" /\ InList) \/ Runs("object")
    /\ T = Closer
    /\ heap' = [heap EXCEPT ![List].last = pos]
    /\ PostfixOf(Below, List, Next1)
    /\ UNCHANGED <<freed, faults>>

ListUnclosed ==
    /\ ret = "run" /\ InList
    /\ Top.at = "close" /\ T # Closer
    /\ Fails({List})
    /\ UNCHANGED faults

------------------------------------------------------------------------------
\* The items of an object, with or without commas between them.

ObjectItem ==
    /\ Runs("object")
    /\ T \in Names \cup {"str"}
    /\ Tok(Next1) \in {"=", ":"}
    /\ Allocates(<<Text>>)
    /\ Expr(Append(Below, Here("item", <<List, Fresh(1)>>)), Next2)

ObjectItemDone ==
    /\ ret = "ok" /\ In("object")
    /\ heap' = Adopt(List, <<Top.own[2], val>>)
    /\ GoOn(Append(Below, Here("item", <<List>>)), IF T = "," THEN Next1 ELSE pos)
    /\ UNCHANGED <<freed, faults>>

ObjectItemLost ==
    /\ ret = "ok" /\ In("object")
    /\ Fault
    /\ Fails(Owned(Top) \cup {val})

\* No key, no '=' after it, or no memory for it.
ObjectFails ==
    /\ Runs("object")
    /\ T # RBrace
    /\ \/ ~(T \in Names \cup {"str"} /\ Tok(Next1) \in {"=", ":"}) /\ UNCHANGED faults
       \/ T \in Names \cup {"str"} /\ Fault
    /\ Fails({List})

------------------------------------------------------------------------------
\* parse_for, behind '[' or '{'.  The frame's bp field is 1 for an object and
\* its tok the keyword; own holds the variables until the node takes them.

ForBegins == PrimaryBegins /\ T \in {"[", LBrace} /\ Tok(Next1) = "for"

OneVar == Tok(pos + 2) \in Names /\ Tok(pos + 3) = "in"
TwoVars == Tok(pos + 2) \in Names /\ Tok(pos + 3) = "," /\ Tok(pos + 4) \in Names
           /\ Tok(pos + 5) = "in"

ForFrame(own) == Frame("for", "coll", IF T = LBrace THEN 1 ELSE 0, Next1, own)

ForOneVar ==
    /\ ForBegins /\ OneVar
    /\ Allocates(<<Text>>)
    /\ Expr(Append(calls, ForFrame(<<Fresh(1)>>)), pos + 4)

ForTwoVars ==
    /\ ForBegins /\ TwoVars
    /\ Allocates(<<Text, Text>>)
    /\ Expr(Append(calls, ForFrame(<<Fresh(1), Fresh(2)>>)), pos + 6)

ForHeaderFails ==
    /\ ForBegins
    /\ ~OneVar /\ ~TwoVars
    /\ ret' = "fail"
    /\ UNCHANGED <<src, pos, calls, val, heap, freed, faults>>

ForCollection ==
    /\ Returned("for", "coll")
    /\ T = ":"
    /\ Allocates(<<Node(IF Top.bp = 1 THEN "forobject" ELSE "fortuple", NoOp,
                        Append(Top.own, val), Top.tok, 0)>>)
    /\ Expr(Append(Below, Here(IF Top.bp = 1 THEN "key" ELSE "value", <<Fresh(1)>>)), Next1)

\* Mutant: the variables' names are not freed.
ForCollectionForgetsNames ==
    /\ Returned("for", "coll")
    /\ \/ T # ":" /\ UNCHANGED faults
       \/ T = ":" /\ Fault
    /\ Fails({val})

\* No ':' behind the collection, or no memory for the node.
ForCollectionFails ==
    /\ Returned("for", "coll")
    /\ \/ T # ":" /\ UNCHANGED faults
       \/ T = ":" /\ Fault
    /\ Fails(Owned(Top) \cup {val})

ForKey ==
    /\ Returned("for", "key")
    /\ T = "=>"
    /\ heap' = Adopt(List, <<val>>)
    /\ Expr(Append(Below, Here("value", <<List>>)), Next1)
    /\ UNCHANGED <<freed, faults>>

ForWithoutValue ==
    /\ Returned("for", "key")
    /\ T # "=>"
    /\ Fails({List, val})
    /\ UNCHANGED faults

\* The closing bracket at i, behind the last part val.
ForCloser == IF Top.bp = 1 THEN RBrace ELSE "]"
ForEnds(op, i) ==
    \/ /\ Tok(i) = ForCloser
       /\ heap' = AdoptLast(List, <<val>>, op, i)
       /\ PostfixOf(Below, List, After(i))
       /\ UNCHANGED freed
    \/ /\ Tok(i) # ForCloser
       /\ Fails({List, val})

Grouping == Top.bp = 1 /\ T = "..."
Behind == IF Grouping THEN Next1 ELSE pos       \* the value, and its '...'
Mode == IF Grouping THEN "..." ELSE NoOp

ForFilter ==
    /\ Returned("for", "value")
    /\ Tok(Behind) = "if"
    /\ heap' = AdoptLast(List, <<val>>, Mode, 0)
    /\ Expr(Append(Below, Here("filter", <<List>>)), After(Behind))
    /\ UNCHANGED <<freed, faults>>

ForWithoutFilter ==
    /\ Returned("for", "value")
    /\ Tok(Behind) # "if"
    /\ ForEnds(Mode, Behind)
    /\ UNCHANGED faults

ForFiltered ==
    /\ Returned("for", "filter")
    /\ ForEnds(heap[List].op, pos)
    /\ UNCHANGED faults

------------------------------------------------------------------------------
\* parse_postfix and build_splat walk a traversal the same way.  The last cell
\* they own is what has been built of it; a splat also owns its collection, and
\* does not stamp the nodes of its body.

Traversing == ret = "run" /\ calls # <<>> /\ Top.fn \in {"postfix", "splat"}
Base == Top.own[Len(Top.own)]
Stamp(i) == IF Top.fn = "postfix" THEN i ELSE 0

Rebased(n) == Append(Below, Here("rel", [Top.own EXCEPT ![Len(Top.own)] = n]))

Attribute ==
    /\ Traversing
    /\ T = "." /\ Tok(Next1) \in Names
    /\ Allocates(<<Text, Node("attr", NoOp, <<Fresh(1), Base>>, Stamp(pos), Stamp(Next1))>>)
    /\ GoOn(Rebased(Fresh(2)), Next2)

IndexBegins ==
    /\ Traversing
    /\ T = "[" /\ Tok(Next1) # "*"
    /\ Expr(Append(Below, [Here("index", Top.own) EXCEPT !.tok = pos]), Next1)
    /\ Same

IndexDone ==
    /\ ret = "ok" /\ calls # <<>> /\ Top.at = "index"
    /\ T = "]"
    /\ Allocates(<<Node("index", NoOp, <<Base, val>>, Stamp(Top.tok), Stamp(pos))>>)
    /\ GoOn(Rebased(Fresh(1)), Next1)

\* No ']', or no memory for the node.
IndexFails ==
    /\ ret = "ok" /\ calls # <<>> /\ Top.at = "index"
    /\ \/ T # "]" /\ UNCHANGED faults
       \/ T = "]" /\ Fault
    /\ Fails(Owned(Top) \cup {val})

StarDot == T = "." /\ Tok(Next1) = "*"
StarIndex == T = "[" /\ Tok(Next1) = "*" /\ Tok(Next2) = "]"

\* build_splat takes the collection over and begins with the variable $splat.
SplatBegins ==
    /\ Traversing
    /\ StarDot \/ StarIndex
    /\ Allocates(<<Text, Node("element", NoOp, <<Fresh(1)>>, 0, 0)>>)
    /\ GoOn(Append(Append(Below, Here("inner", SubSeq(Top.own, 1, Len(Top.own) - 1))),
                   Frame("splat", "rel", 0, 0, <<Base, Fresh(2)>>)),
            IF StarDot THEN Next2 ELSE After(Next2))

\* Neither a name, a star nor an index, or no memory for the next node.
TraversalFails ==
    /\ Traversing
    /\ \/ T = "." /\ Tok(Next1) \notin Names \cup {"*"} /\ UNCHANGED faults
       \/ T = "[" /\ Tok(Next1) = "*" /\ Tok(Next2) # "]" /\ UNCHANGED faults
       \/ T = "." /\ Tok(Next1) \in Names /\ Fault
       \/ (StarDot \/ StarIndex) /\ Fault
       \/ In("splat") /\ T \notin {".", "["} /\ Fault
    /\ Fails(Owned(Top))

SplatDone ==
    /\ Traversing /\ In("splat")
    /\ T \notin {".", "["}
    /\ LET coll == Top.own[1]
       IN  Allocates(<<Text, Node("splat", NoOp, <<Fresh(1), coll, Base>>,
                                  heap[coll].first, pos - 1)>>)
    /\ Return(Fresh(2), pos)

SplatTaken ==
    /\ ret = "ok" /\ calls # <<>> /\ Top.at = "inner"
    /\ Top.fn \in {"postfix", "splat"}
    /\ GoOn(Append(Below, Here("rel", Append(Top.own, val))), pos)
    /\ Same

PostfixDone ==
    /\ Traversing /\ In("postfix")
    /\ T \notin {".", "["}
    /\ Return(Base, pos)
    /\ Same

------------------------------------------------------------------------------
\* A NULL from below: each function frees what it owns and returns NULL too.
Unwind ==
    /\ ret = "fail" /\ calls # <<>>
    /\ Fails(Owned(Top))
    /\ UNCHANGED faults

\* hcl2_eval and hcl2_expr_span want the end of the input behind the expression.
Accept ==
    /\ calls = <<>>
    /\ ret = "ok" /\ T = "eof"
    /\ ret' = "accepted"
    /\ UNCHANGED <<src, pos, calls, val, heap, freed, faults>>

Reject ==
    /\ calls = <<>>
    /\ \/ ret = "ok" /\ T # "eof" /\ freed' = freed \cup Reach({val})
       \/ ret = "fail" /\ UNCHANGED freed
    /\ ret' = "rejected"
    /\ val' = 0
    /\ UNCHANGED <<src, pos, calls, heap, faults>>

Over == ret \in {"accepted", "rejected"}

Done == Over /\ UNCHANGED vars

ExprStep == CondBegins \/ CondElse \/ CondWithoutElse \/ CondDone \/ CondLost \/ ExprDone

BinaryStep == BinaryOperator \/ BinaryBuilt \/ BinaryLost \/ BinaryDone

UnaryStep == Prefixed \/ UnaryBuilt \/ UnaryLost

PrimaryStep ==
    \/ Literal \/ LiteralHollow \/ NamedLeaf \/ PrimaryFails
    \/ CallBegins \/ BracketBegins
    \/ ParenBegins \/ ParenCloses \/ ParenUnclosed

ListStep ==
    \/ ListItem \/ ListItemDone \/ ArgSpread \/ ListItemLost \/ ListCloses \/ ListUnclosed
    \/ ObjectItem \/ ObjectItemDone \/ ObjectItemLost \/ ObjectFails

ForStep ==
    \/ ForOneVar \/ ForTwoVars \/ ForHeaderFails
    \/ ForCollection \/ ForCollectionFails \/ ForKey \/ ForWithoutValue
    \/ ForFilter \/ ForWithoutFilter \/ ForFiltered

TraversalStep ==
    \/ Attribute \/ IndexBegins \/ IndexDone \/ IndexFails
    \/ SplatBegins \/ SplatDone \/ SplatTaken \/ PostfixDone \/ TraversalFails

Next == \/ ExprStep \/ BinaryStep \/ UnaryStep \/ PrimaryStep \/ ListStep \/ ForStep
        \/ TraversalStep \/ Unwind \/ Accept \/ Reject \/ Done

Spec == Init /\ [][Next]_vars

------------------------------------------------------------------------------
\* The shape of the parser's state.  Binds is the binding power a node has as an
\* operand of a binary operator.
Binds(n) == IF n.kind = "binary" /\ ~n.paren THEN Bp(n.op) ELSE 7

NodeKinds == {"text", "value", "lit", "template", "var", "call", "tuple", "object", "unary",
              "binary", "cond", "fortuple", "forobject", "attr", "index", "element", "splat"}
ListKinds == {"call", "tuple", "object", "fortuple", "forobject"}

Nodes == [kind : NodeKinds, op : Kinds \cup {NoOp}, kids : Seq(Nat), first : Nat, last : Nat,
          paren : BOOLEAN]

Fns == {"expr", "binary", "unary", "paren", "call", "tuple", "object", "for", "postfix", "splat"}
Ats == {"cond", "then", "else", "left", "right", "operand", "inner", "item", "close", "coll", "key",
        "value", "filter", "rel", "index"}
Frames == [fn : Fns, at : Ats, bp : 0 .. 7, tok : Nat, own : Seq(Nat)]

\* How many cells an activation owns, by where it stands; s is the source.
FrameOK(s, f) ==
    /\ f.fn = "expr" => \/ f.at = "cond" /\ Len(f.own) = 0
                        \/ f.at = "then" /\ Len(f.own) = 1
                        \/ f.at = "else" /\ Len(f.own) = 2
    /\ f.fn = "binary" => /\ f.bp >= 1
                          /\ \/ f.at = "left" /\ Len(f.own) = 0
                             \/ f.at = "right" /\ Len(f.own) = 1 /\ Bp(At(s, f.tok)) >= f.bp
    /\ f.fn = "unary" => f.at = "operand" /\ Len(f.own) = 0
    /\ f.fn = "paren" => f.at = "inner" /\ Len(f.own) = 0
    /\ f.fn \in ListFns => f.at \in {"item", "close"} /\ Len(f.own) = 1
    /\ f.fn = "object" => f.at = "item" /\ Len(f.own) \in {1, 2}
    /\ f.fn = "for" => \/ f.at = "coll" /\ Len(f.own) \in {1, 2}
                       \/ f.at \in {"key", "value", "filter"} /\ Len(f.own) = 1
    /\ f.fn = "postfix" => \/ f.at \in {"rel", "index"} /\ Len(f.own) = 1
                           \/ f.at = "inner" /\ Len(f.own) = 0
    /\ f.fn = "splat" => \/ f.at \in {"rel", "index"} /\ Len(f.own) = 2
                         \/ f.at = "inner" /\ Len(f.own) = 1

\* What waits for a call to return, and what goes on by itself.
Waiting(f) == f.at \notin {"rel", "close"} /\ (f.fn = "object" => Len(f.own) = 2)
Running(f) == \/ f.at \in {"rel", "close"}
              \/ f.fn \in ListFns /\ f.at = "item"
              \/ f.fn = "object" /\ Len(f.own) = 1

\* Who calls whom: f waits for g, and a right operand for what binds tighter.
WantsUnary(f) == f.at \in {"left", "operand"}
Hosts(f) == \/ f.at \in {"then", "else", "coll", "key", "value", "filter", "index", "item"}
            \/ f.fn = "paren"
CallsOn(s, f, g) ==
    CASE g.fn = "expr" -> Hosts(f)
      [] g.fn = "binary" -> \/ f.at = "cond" /\ g.bp = 1
                            \/ f.at = "right" /\ g.bp = Bp(At(s, f.tok)) + 1
      [] g.fn = "splat" -> f.fn \in {"postfix", "splat"} /\ f.at = "inner"
      [] OTHER -> WantsUnary(f)

StackOK(s, cs) ==
    /\ cs \in Seq(Frames)
    /\ \A k \in DOMAIN cs : FrameOK(s, cs[k])
    /\ cs # <<>> => cs[1].fn = "expr"
    /\ \A k \in DOMAIN cs : k > 1 => Waiting(cs[k - 1]) /\ CallsOn(s, cs[k - 1], cs[k])

Cells == 1 .. Len(heap)

\* The functions on the C stack call one another as the code does, each with the
\* cells its local variables hold at that point; nodes only refer to cells, and
\* a node is returned, and a live one, exactly when no error is.
TypeOK ==
    /\ src \in Sources /\ pos \in 1 .. Len(src) + 1
    /\ StackOK(src, calls)
    /\ ret \in {"unary", "run", "ok", "fail", "accepted", "rejected"}
    /\ ret = "unary" => calls # <<>> /\ WantsUnary(Top)
    /\ ret = "run" => calls # <<>> /\ Running(Top)
    /\ ret \in {"ok", "fail"} /\ calls # <<>> => Waiting(Top)
    /\ Over => calls = <<>>
    /\ heap \in Seq(Nodes)
    /\ \A n \in Cells : Kids(heap, n) \subseteq Cells
    /\ freed \subseteq Cells
    /\ IF ret \in {"ok", "accepted"} THEN val \in Cells \ freed ELSE val = 0
    /\ \A k \in DOMAIN calls : Owned(calls[k]) \subseteq Cells \ freed
    /\ faults \in 0 .. MaxFaults

NodeOwners(c) == {p \in UNION {{n} \X DOMAIN heap[n].kids : n \in Cells \ freed} :
                     heap[p[1]].kids[p[2]] = c}
CallOwners(c) == {p \in UNION {{k} \X DOMAIN calls[k].own : k \in DOMAIN calls} :
                     calls[p[1]].own[p[2]] = c}

\* Every string and node has exactly one owner - a live node, a local variable
\* of an activation or the value being returned - until it is freed, and none
\* after; and all that is left in the end is the tree returned, if any: no error
\* exit of the parser leaks or frees twice, whichever allocation fails
\* (ROADMAP.md on the out-of-memory paths).
OwnedOnce ==
    /\ \A c \in Cells :
           Cardinality(NodeOwners(c)) + Cardinality(CallOwners(c)) + (IF val = c THEN 1 ELSE 0)
               = IF c \in freed THEN 0 ELSE 1
    /\ Over => Cells \ freed = Reach({val} \ {0})

\* Every binary node groups by the binding powers, from the moment it is built:
\* its left operand binds at least as tight as its operator, its right operand
\* tighter (GRAMMAR.md 2, the precedence table; all operators associate left).
Grouped ==
    \A n \in Cells :
        heap[n].kind = "binary" =>
            /\ Binds(heap[heap[n].kids[1]]) >= Bp(heap[n].op)
            /\ Binds(heap[heap[n].kids[2]]) > Bp(heap[n].op)

(***************************************************************************)
(* Spans: hcl2.h promises of hcl2_expr_span that "the start is the first   *)
(* token and the end is exclusive (the position just past the last token)".*)
(***************************************************************************)
\* The part of it the code keeps: without parentheses the span ends at the
\* last token, however the expression is put together.
SpanEndsRight == ret = "accepted" /\ src[Len(src)] # ")" => heap[val].last = Len(src)
=============================================================================
