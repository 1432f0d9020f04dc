----------------------------- MODULE BodyParser -----------------------------
(***************************************************************************)
(* The recursive-descent parser of document bodies (parse_body, parse_attr,*)
(* parse_block, and the part of parse_expr they lean on) with its two      *)
(* modes: hcl2_parse stops at the first error, hcl2_parse_diags records it *)
(* and goes on at the next line.  A behaviour parses one document twice,   *)
(* first strictly, then for diagnostics.                                   *)
(*                                                                         *)
(* The C stack is the sequence calls; ret is what the function that has    *)
(* just returned said.  A token is its kind and its line.  Expressions are *)
(* names, numbers and objects; operators, tuples and calls add nothing to  *)
(* the way a body recovers.                                                *)
(***************************************************************************)
EXTENDS Naturals, Sequences

CONSTANTS
    Documents,  \* the token sequences that are parsed
    MaxFaults   \* bound on the allocations that fail

(***************************************************************************)
(* "id", "num", "=", "{" and "}" are what they look like.  Of the tokens   *)
(* the lexer answers with T_ERR, "err" is one it complains about and "lost"*)
(* one whose text it could not allocate, about which it says nothing.      *)
(***************************************************************************)
Kinds == {"id", "num", "=", "{", "}", "err", "lost"}

Tokens == [kind : Kinds, line : Nat]

\* Lines only grow, as in a source text.
ASSUME DocumentsAreTokens ==
    \A d \in Documents :
        /\ d \in Seq(Tokens)
        /\ \A i, j \in DOMAIN d : i < j => d[i].line <= d[j].line
ASSUME FaultsAreCounted == MaxFaults \in Nat

VARIABLES
    doc,        \* the document
    mode,       \* "strict", then "diags", then "over"
    pos,        \* index of the current token; Len(doc) + 1 is the end of input
    err,        \* the lexer's error buffer
    calls,      \* activations of the parser's functions, outermost first
    ret,        \* "run", "ok", "fail", or "resync" while parse_body skips tokens
    skipped,    \* the line that resync leaves
    diags,      \* the diagnostics list
    root,       \* what the document returned holds: positions of its names
    faults,     \* allocation failures to come
    strict,     \* history: what hcl2_parse returned
    parsed,     \* history: names of the items completed in this mode
    noticed     \* history: where the parser called lx_err in this mode

state == <<doc, mode, pos, err, calls, ret, skipped, diags, root, faults,
           strict, parsed, noticed>>

NoError == [at |-> 0, msg |-> ""]

End == Len(doc) + 1

Tok(i) == IF i < End THEN doc[i].kind ELSE "eof"

Line(i) == CASE i < End -> doc[i].line
             [] i = End /\ doc # <<>> -> doc[Len(doc)].line + 1
             [] OTHER -> 1

\* Mutant: an offending byte that is not consumed.
AfterStuck(i) == IF i = End \/ Tok(i) = "err" THEN i ELSE i + 1

\* lex moves on by one token and stays at the end of the input.
After(i) == IF i = End THEN i ELSE i + 1

\* lx_err keeps the first message until the buffer is cleared.
LxErr(e, i, msg) == IF e = NoError THEN [at |-> i, msg |-> msg] ELSE e

\* What lexing token i leaves in the error buffer.
Lexed(e, i) == IF Tok(i) = "err" THEN LxErr(e, i, "lexical") ELSE e

Frame(fn, at) == [fn |-> fn, at |-> at, items |-> {}]

Depth == Len(calls)
Top == calls[Depth]
In(fn) == calls # <<>> /\ Top.fn = fn
Running(fn) == In(fn) /\ ret = "run"
TopLevel == Depth = 1

Parsing == mode \in {"strict", "diags"}

------------------------------------------------------------------------------
\* Building blocks of the actions.

Keep == UNCHANGED <<doc, mode, skipped, diags, root, faults, strict, parsed, noticed>>

Stay == UNCHANGED <<pos, err>>

LexOnce == /\ pos' = After(pos)
           /\ err' = Lexed(err, pos')

LexTwice == /\ pos' = After(After(pos))
            /\ err' = Lexed(Lexed(err, After(pos)), pos')

\* One allocation returns NULL.
Fault == faults > 0 /\ faults' = faults - 1

Call(fn, at) == calls' = Append(calls, Frame(fn, at)) /\ ret' = "run"

\* The function on top returns how, handing the items it completed to its
\* caller.
Return(how, items) ==
    /\ ret' = how
    /\ calls' = [i \in 1 .. Depth - 1 |->
                   IF i = Depth - 1 THEN [calls[i] EXCEPT !.items = @ \cup items]
                                    ELSE calls[i]]
    /\ root' = IF TopLevel THEN items ELSE root

\* Everything below parse_body fails by freeing what it holds.
Fails == Return("fail", {})

Notices(i, msg) == noticed' = Append(noticed, [at |-> i, msg |-> msg])

\* diags_add: an empty message is no diagnostic, and one that cannot be
\* allocated is dropped.
DiagsAdd(e) ==
    \/ diags' = (IF e = NoError THEN diags ELSE Append(diags, e)) /\ UNCHANGED faults
    \/ e # NoError /\ Fault /\ UNCHANGED diags

\* Entry of resync at token i: at the end or at a '}' there is nothing to skip.
Resync(i) ==
    /\ ret' = IF Tok(i) \in {"eof", "}"} THEN "run" ELSE "resync"
    /\ skipped' = Line(i)

------------------------------------------------------------------------------
Begin(d) ==
    /\ pos = 1
    /\ err = IF d # <<>> /\ d[1].kind = "err"
             THEN [at |-> 1, msg |-> "lexical"] ELSE NoError
    /\ calls = <<Frame("body", 0)>>
    /\ ret = "run"

Init ==
    /\ doc \in Documents
    /\ mode = "strict"
    /\ Begin(doc)
    /\ skipped = 0
    /\ diags = <<>>
    /\ root = {}
    /\ faults = MaxFaults
    /\ strict = [ok |-> FALSE, err |-> NoError, root |-> {}, parsed |-> {}]
    /\ parsed = {}
    /\ noticed = <<>>

\* hcl2_parse is over; the same text goes to hcl2_parse_diags.
StrictReturns ==
    /\ mode = "strict" /\ calls = <<>>
    /\ strict' = [ok |-> ret = "ok", err |-> err, root |-> root, parsed |-> parsed]
    /\ mode' = "diags"
    /\ pos' = 1
    /\ err' = Lexed(NoError, 1)
    /\ calls' = <<Frame("body", 0)>>
    /\ ret' = "run"
    /\ root' = {}
    /\ parsed' = {}
    /\ noticed' = <<>>
    /\ UNCHANGED <<doc, skipped, diags, faults>>

\* The diagnostics list itself cannot be allocated.
DiagsLost ==
    /\ mode = "strict" /\ calls = <<>>
    /\ Fault
    /\ strict' = [ok |-> ret = "ok", err |-> err, root |-> root, parsed |-> parsed]
    /\ mode' = "over"
    /\ ret' = "fail"
    /\ root' = {}
    /\ UNCHANGED <<doc, pos, err, calls, skipped, diags, parsed, noticed>>

\* The hcl2_doc around a parsed body cannot be allocated.
DocLost ==
    /\ Parsing /\ calls = <<>> /\ ret = "ok"
    /\ Fault
    /\ ret' = "fail"
    /\ root' = {}
    /\ UNCHANGED <<doc, mode, pos, err, calls, skipped, diags, strict, parsed, noticed>>

DiagsReturns ==
    /\ mode = "diags" /\ calls = <<>>
    /\ mode' = "over"
    /\ UNCHANGED <<doc, pos, err, calls, ret, skipped, diags, root, faults,
                   strict, parsed, noticed>>

\* The calloc of the document's own body.
NoRoot ==
    /\ Running("body") /\ TopLevel /\ pos = 1 /\ Top.items = {} /\ noticed = <<>>
    /\ Fault /\ Fails
    /\ Stay
    /\ UNCHANGED <<doc, mode, skipped, diags, strict, parsed, noticed>>

------------------------------------------------------------------------------
\* parse_body

BodyEnds ==
    /\ Running("body") /\ TopLevel /\ Tok(pos) = "eof"
    /\ Return("ok", Top.items)
    /\ Stay
    /\ UNCHANGED <<doc, mode, skipped, diags, faults, strict, parsed, noticed>>

\* Mutant: the closing '}' is consumed here and again by parse_block.
BodyClosesEarly ==
    /\ Running("body") /\ ~TopLevel /\ Tok(pos) = "}"
    /\ Return("ok", Top.items)
    /\ LexOnce
    /\ UNCHANGED <<doc, mode, skipped, diags, faults, strict, parsed, noticed>>

\* The '}' is left to parse_block.
BodyCloses ==
    /\ Running("body") /\ ~TopLevel /\ Tok(pos) = "}"
    /\ Return("ok", Top.items)
    /\ Stay
    /\ UNCHANGED <<doc, mode, skipped, diags, faults, strict, parsed, noticed>>

\* Mutant: a block cut short is freed when diagnostics are collected too.
CutOffFrees ==
    /\ Running("body") /\ ~TopLevel /\ Tok(pos) = "eof"
    /\ Notices(pos, "eof")
    /\ err' = LxErr(err, pos, "eof")
    /\ DiagsAdd(err')
    /\ Fails
    /\ UNCHANGED <<doc, mode, pos, skipped, strict, parsed>>

\* Mutant: the block is kept but the missing '}' is not recorded.
CutOffSilent ==
    /\ Running("body") /\ ~TopLevel /\ Tok(pos) = "eof"
    /\ Notices(pos, "eof")
    /\ err' = LxErr(err, pos, "eof")
    /\ IF mode = "diags" THEN Return("ok", Top.items) ELSE Fails
    /\ UNCHANGED <<doc, mode, pos, skipped, diags, faults, strict, parsed>>

\* The input ends inside a block.  The diagnosing parser keeps the block and,
\* here only, leaves the message in the buffer.
CutOff ==
    /\ Running("body") /\ ~TopLevel /\ Tok(pos) = "eof"
    /\ Notices(pos, "eof")
    /\ err' = LxErr(err, pos, "eof")
    /\ IF mode = "diags" THEN DiagsAdd(err') /\ Return("ok", Top.items)
                         ELSE UNCHANGED <<diags, faults>> /\ Fails
    /\ UNCHANGED <<doc, mode, pos, skipped, strict, parsed>>

\* A '}' that closes nothing: the diagnosing parser steps over it.
StrayBrace ==
    /\ Running("body") /\ TopLevel /\ Tok(pos) = "}"
    /\ Notices(pos, "brace")
    /\ LET e == LxErr(err, pos, "brace") IN
         IF mode = "diags"
         THEN /\ DiagsAdd(e)
              /\ pos' = After(pos)
              /\ err' = Lexed(NoError, pos')
              /\ UNCHANGED <<calls, ret, root>>
         ELSE err' = e /\ Fails /\ UNCHANGED <<pos, diags, faults>>
    /\ UNCHANGED <<doc, mode, skipped, strict, parsed>>

\* Something that starts neither an attribute nor a block.
NotAName ==
    /\ Running("body") /\ Tok(pos) \notin {"eof", "}", "id"}
    /\ Notices(pos, "name")
    /\ LET e == LxErr(err, pos, "name") IN
         IF mode = "diags"
         THEN DiagsAdd(e) /\ err' = NoError /\ Resync(pos) /\ UNCHANGED <<calls, root>>
         ELSE err' = e /\ Fails /\ UNCHANGED <<diags, skipped, faults>>
    /\ UNCHANGED <<doc, mode, pos, strict, parsed>>

\* The name cannot be copied: the diagnosing parser returns what it has.
NameLost ==
    /\ Running("body") /\ Tok(pos) = "id"
    /\ Fault
    /\ IF mode = "diags" THEN Return("ok", Top.items) ELSE Fails
    /\ Stay
    /\ UNCHANGED <<doc, mode, skipped, diags, strict, parsed, noticed>>

\* name = ...: parse_attr consumes the '=' and parses an expression.
AttrBegins ==
    /\ Running("body") /\ Tok(pos) = "id" /\ Tok(After(pos)) = "="
    /\ LexTwice
    /\ calls' = calls \o <<Frame("attr", pos), Frame("expr", 0)>>
    /\ UNCHANGED ret
    /\ Keep

\* name ...: whatever follows the name, it is a block.
BlockBegins ==
    /\ Running("body") /\ Tok(pos) = "id" /\ Tok(After(pos)) # "="
    /\ LexOnce
    /\ Call("block", pos)
    /\ Keep

ItemDone ==
    /\ In("body") /\ ret = "ok"
    /\ ret' = "run"
    /\ Stay
    /\ UNCHANGED calls
    /\ Keep

\* Mutant: the buffer is not cleared before the next item.
ItemFailsKeepsMessage ==
    /\ In("body") /\ ret = "fail"
    /\ IF mode = "diags"
       THEN DiagsAdd(err) /\ Resync(pos) /\ UNCHANGED <<err, calls, root>>
       ELSE Fails /\ UNCHANGED <<err, diags, skipped, faults>>
    /\ UNCHANGED <<doc, mode, pos, strict, parsed, noticed>>

\* An attribute or block failed: abort, or record the message and recover.
ItemFails ==
    /\ In("body") /\ ret = "fail"
    /\ IF mode = "diags"
       THEN DiagsAdd(err) /\ err' = NoError /\ Resync(pos) /\ UNCHANGED <<calls, root>>
       ELSE Fails /\ UNCHANGED <<err, diags, skipped, faults>>
    /\ UNCHANGED <<doc, mode, pos, strict, parsed, noticed>>

\* The loop of resync: stop at the end, at any '}' and on a later line.
SkipToken ==
    /\ In("body") /\ ret = "resync"
    /\ LexOnce
    /\ ret' = IF Tok(pos') \in {"eof", "}"} \/ Line(pos') > skipped
              THEN "run" ELSE "resync"
    /\ UNCHANGED calls
    /\ Keep

------------------------------------------------------------------------------
\* parse_attr and parse_block

AttrDone ==
    /\ In("attr") /\ ret = "ok"
    /\ Return("ok", {Top.at})
    /\ parsed' = parsed \cup {Top.at}
    /\ Stay
    /\ UNCHANGED <<doc, mode, skipped, diags, faults, strict, noticed>>

\* The attribute or the body's array cannot be allocated.
AttrLost ==
    /\ In("attr") /\ ret = "ok"
    /\ Fault /\ Fails
    /\ Stay
    /\ UNCHANGED <<doc, mode, skipped, diags, strict, parsed, noticed>>

BlockLabel ==
    /\ Running("block") /\ Tok(pos) = "id"
    /\ LexOnce
    /\ UNCHANGED <<calls, ret>>
    /\ Keep

\* The block or a label cannot be allocated.
BlockLost ==
    /\ Running("block") /\ (Tok(pos) = "id" \/ pos = After(Top.at))
    /\ Fault /\ Fails
    /\ Stay
    /\ UNCHANGED <<doc, mode, skipped, diags, strict, parsed, noticed>>

BlockWithoutBody ==
    /\ Running("block") /\ Tok(pos) \notin {"id", "{"}
    /\ Notices(pos, "block")
    /\ err' = LxErr(err, pos, "block")
    /\ Fails
    /\ UNCHANGED <<doc, mode, pos, skipped, diags, faults, strict, parsed>>

BlockOpens ==
    /\ Running("block") /\ Tok(pos) = "{"
    /\ LexOnce
    /\ Call("body", 0)
    /\ Keep

\* The calloc of the block's body.
BodyLost ==
    /\ Running("block") /\ Tok(pos) = "{"
    /\ LexOnce
    /\ Fault /\ Fails
    /\ UNCHANGED <<doc, mode, skipped, diags, strict, parsed, noticed>>

\* The body returned: the token it returned at is consumed, whatever it is.
BlockDone ==
    /\ In("block") /\ ret = "ok"
    /\ LexOnce
    /\ Return("ok", Top.items \cup {Top.at})
    /\ parsed' = parsed \cup {Top.at}
    /\ UNCHANGED <<doc, mode, skipped, diags, faults, strict, noticed>>

\* The body's array of blocks cannot grow: the whole block is freed.
BlockDropped ==
    /\ In("block") /\ ret = "ok"
    /\ LexOnce
    /\ Fault /\ Fails
    /\ UNCHANGED <<doc, mode, skipped, diags, strict, parsed, noticed>>

------------------------------------------------------------------------------
\* parse_expr: a name, a number, or an object of name = expr.

ExprAtom ==
    /\ Running("expr") /\ Tok(pos) \in {"id", "num"}
    /\ LexOnce
    /\ Return("ok", {})
    /\ UNCHANGED <<doc, mode, skipped, diags, faults, strict, parsed, noticed>>

ExprObject ==
    /\ Running("expr") /\ Tok(pos) = "{"
    /\ LexOnce
    /\ calls' = [calls EXCEPT ![Depth] = Frame("object", 0)]
    /\ UNCHANGED ret
    /\ Keep

ExprMissing ==
    /\ Running("expr") /\ Tok(pos) \notin {"id", "num", "{"}
    /\ Notices(pos, "expr")
    /\ err' = LxErr(err, pos, "expr")
    /\ Fails
    /\ UNCHANGED <<doc, mode, pos, skipped, diags, faults, strict, parsed>>

\* A node cannot be allocated: before a number or a name is consumed, or after
\* a name or the '{' of an object.
ExprLost ==
    /\ Running("expr") /\ Tok(pos) \in {"id", "num", "{"}
    /\ \/ Tok(pos) \in {"id", "num"} /\ Stay
       \/ Tok(pos) \in {"id", "{"} /\ LexOnce
    /\ Fault /\ Fails
    /\ UNCHANGED <<doc, mode, skipped, diags, strict, parsed, noticed>>

\* Mutant: an object that also ends where the input does.
ObjectEndsAtEof ==
    /\ Running("object") /\ Tok(pos) \in {"}", "eof"}
    /\ LexOnce
    /\ Return("ok", {})
    /\ UNCHANGED <<doc, mode, skipped, diags, faults, strict, parsed, noticed>>

ObjectEnds ==
    /\ Running("object") /\ Tok(pos) = "}"
    /\ LexOnce
    /\ Return("ok", {})
    /\ UNCHANGED <<doc, mode, skipped, diags, faults, strict, parsed, noticed>>

ObjectItem ==
    /\ Running("object") /\ Tok(pos) = "id" /\ Tok(After(pos)) = "="
    /\ LexTwice
    /\ Call("expr", 0)
    /\ Keep

ObjectItemDone ==
    /\ In("object") /\ ret = "ok"
    /\ ret' = "run"
    /\ Stay
    /\ UNCHANGED calls
    /\ Keep

ObjectBadKey ==
    /\ Running("object") /\ Tok(pos) \notin {"id", "}"}
    /\ Notices(pos, "key")
    /\ err' = LxErr(err, pos, "key")
    /\ Fails
    /\ UNCHANGED <<doc, mode, pos, skipped, diags, faults, strict, parsed>>

ObjectNoAssign ==
    /\ Running("object") /\ Tok(pos) = "id" /\ Tok(After(pos)) # "="
    /\ pos' = After(pos)
    /\ Notices(pos', "assign")
    /\ err' = LxErr(Lexed(err, pos'), pos', "assign")
    /\ Fails
    /\ UNCHANGED <<doc, mode, skipped, diags, faults, strict, parsed>>

\* The key cannot be copied, or the arrays cannot grow for a value.
ObjectLost ==
    /\ In("object")
    /\ ret = "ok" \/ (ret = "run" /\ Tok(pos) = "id")
    /\ Fault /\ Fails
    /\ Stay
    /\ UNCHANGED <<doc, mode, skipped, diags, strict, parsed, noticed>>

\* attr, block and object fail when what they called failed.
Propagate ==
    /\ (In("attr") \/ In("block") \/ In("object")) /\ ret = "fail"
    /\ Fails
    /\ Stay
    /\ UNCHANGED <<doc, mode, skipped, diags, faults, strict, parsed, noticed>>

\* Nothing is left to do.
Done == mode = "over" /\ UNCHANGED state

Next ==
    \/ StrictReturns \/ DiagsLost \/ DocLost \/ DiagsReturns \/ NoRoot
    \/ BodyEnds \/ BodyCloses \/ CutOff \/ StrayBrace \/ NotAName \/ NameLost
    \/ AttrBegins \/ BlockBegins \/ ItemDone \/ ItemFails \/ SkipToken
    \/ AttrDone \/ AttrLost
    \/ BlockLabel \/ BlockLost \/ BlockWithoutBody \/ BlockOpens \/ BodyLost
    \/ BlockDone \/ BlockDropped
    \/ ExprAtom \/ ExprObject \/ ExprMissing \/ ExprLost
    \/ ObjectEnds \/ ObjectItem \/ ObjectItemDone \/ ObjectBadKey
    \/ ObjectNoAssign \/ ObjectLost
    \/ Propagate
    \/ Done

\* The parser runs to its end in the caller's thread: as long as it can take a
\* step it takes one.
Spec == Init /\ [][Next]_state /\ WF_state(Next)

------------------------------------------------------------------------------
Positions == 1 .. End

Functions == {"body", "attr", "block", "expr", "object"}
Texts == {"", "lexical", "eof", "brace", "name", "block", "expr", "key", "assign"}
Messages == [at : Nat, msg : Texts]

\* The functions that call fn, but for hcl2_parse and hcl2_parse_diags.
CallersOf(fn) == CASE fn = "body" -> {"block"}
                   [] fn \in {"attr", "block"} -> {"body"}
                   [] OTHER -> {"attr", "object"}

\* The type invariant: types, and the activations call each other as the
\* functions of the parser do.
TypeOK ==
    /\ doc \in Documents
    /\ mode \in {"strict", "diags", "over"}
    /\ pos \in Positions
    /\ err \in Messages
    /\ calls \in Seq([fn : Functions, at : Nat, items : SUBSET Nat])
    /\ ret \in {"run", "ok", "fail", "resync"}
    /\ skipped \in Nat
    /\ diags \in Seq(Messages)
    /\ root \subseteq Nat
    /\ faults \in 0 .. MaxFaults
    /\ strict \in [ok : BOOLEAN, err : Messages, root : SUBSET Nat, parsed : SUBSET Nat]
    /\ parsed \subseteq Nat
    /\ noticed \in Seq(Messages)
    /\ calls # <<>> => calls[1].fn = "body"
    /\ \A i \in 2 .. Depth : calls[i - 1].fn \in CallersOf(calls[i].fn)

Over == mode = "over"
NoFault == faults = MaxFaults

\* The two entry points agree (hcl2.h: a successful parse yields no diagnostic):
\* the diagnosing parser finds no error exactly when the strict one finds none,
\* its first diagnostic is then the strict one's message, and for a correct
\* document they return the same items.
SameVerdict ==
    Over /\ NoFault =>
        /\ strict.ok <=> diags = <<>>
        /\ strict.ok => root = strict.root
        /\ ~strict.ok => diags[1] = strict.err

\* What was parsed before the first error is in the partial document, however
\* deep inside unfinished blocks the error lies and whatever recovery skips.
NothingLost == Over /\ NoFault => strict.parsed \subseteq root

\* parse_block consumes one token after its body.  It is the '}' of the body
\* ("parse_body(false) returns with the current token at '}'"), or there is
\* nothing left to consume.
ClosedByBraceOrEnd ==
    In("block") /\ ret = "ok" => Tok(pos) \in {"}", "eof"}

\* As long as memory lasts, it is.
BlocksClosed == NoFault => ClosedByBraceOrEnd

\* "collects *all* body-level errors" (hcl2.h): wherever the diagnosing parser
\* detects an error, the list has a diagnostic for that place.
AllErrorsCollected ==
    Over /\ NoFault =>
        \A i \in DOMAIN noticed :
            \E j \in DOMAIN diags : diags[j].at = noticed[i].at

\* It does for texts the lexer has nothing to complain about.  For every text the
\* list has one diagnostic for each error detected, in the order of the text, and
\* repeats a message only at the end of the input: there the message last left
\* in the buffer is recorded again for every block that is still open.
DiagsCollected ==
    /\ (\A i \in DOMAIN doc : doc[i].kind \notin {"err", "lost"}) => AllErrorsCollected
    /\ Over /\ NoFault => Len(diags) = Len(noticed)
    /\ NoFault => \A i, j \in DOMAIN diags : i < j =>
          /\ diags[i].at <= diags[j].at
          /\ diags[i] = diags[j] => noticed[j].msg = "eof"

(***************************************************************************)
(* The language of bodies, independently of how it is parsed: a table of   *)
(* which stretch of tokens i .. j - 1 is a body, an item, an expression,   *)
(* or the inside of an object.                                             *)
(***************************************************************************)
Word(i, kind) == i < End /\ Tok(i) = kind

Derives[nt \in {"body", "item", "expr", "object"}, i \in Positions, j \in Positions] ==
    CASE nt = "body" ->
           i = j \/ \E k \in i + 1 .. j : Derives["item", i, k] /\ Derives["body", k, j]
      [] nt = "item" ->
           /\ Word(i, "id")
           /\ \/ i + 2 < j /\ Word(i + 1, "=") /\ Derives["expr", i + 2, j]
              \/ \E k \in i + 1 .. j - 2 :
                    /\ \A n \in i + 1 .. k - 1 : Word(n, "id")
                    /\ Word(k, "{") /\ Word(j - 1, "}")
                    /\ Derives["body", k + 1, j - 1]
      [] nt = "expr" ->
           \/ j = i + 1 /\ (Word(i, "id") \/ Word(i, "num"))
           \/ i + 1 < j /\ Word(i, "{") /\ Word(j - 1, "}")
              /\ Derives["object", i + 1, j - 1]
      [] nt = "object" ->
           \/ i = j
           \/ /\ i + 2 < j /\ Word(i, "id") /\ Word(i + 1, "=")
              /\ \E k \in i + 3 .. j : Derives["expr", i + 2, k] /\ Derives["object", k, j]

\* hcl2_parse accepts the sentences of the grammar and nothing else; running
\* out of memory never makes it accept more (no truncated document passes).
AcceptsGrammar ==
    Over => /\ strict.ok => Derives["body", 1, End]
            /\ NoFault /\ Derives["body", 1, End] => strict.ok

\* Recovery always makes progress: both parsers return (the regression tests
\* of hcl2_test.c on tokens that were never consumed).
Terminates == <>Over
=============================================================================
