---------------------------- MODULE ExprGrammar ----------------------------
(***************************************************************************)
(* The grammar of expressions as a definition, not as a parser: the set of *)
(* trees that derive the tokens i .. j of s.  A binary operator may stand  *)
(* anywhere between two operands as long as the tree groups by the binding *)
(* powers; a splat takes all of the traversal behind it.                   *)
(***************************************************************************)
EXTENDS ExprParser, SequencesExt

Tree(kind, op, kids) == [kind |-> kind, op |-> op, paren |-> FALSE, kids |-> kids]
Leaf(kind) == Tree(kind, "", <<>>)

Only(cond, set) == IF cond THEN set ELSE {}

RECURSIVE Exprs(_, _, _), Binaries(_, _, _), Unaries(_, _, _), Primaries(_, _, _)
RECURSIVE Lists(_, _, _), Items(_, _, _), Traversals(_, _, _, _)

Ends(s, i, a, j, z) == i < j /\ s[i] = a /\ s[j] = z

\* One or more expressions with commas between them.
Lists(s, i, j) ==
    {<<e>> : e \in Exprs(s, i, j)} \cup
    UNION {{<<e>> \o rest : e \in Exprs(s, i, m - 1), rest \in Lists(s, m + 1, j)} :
              m \in {n \in i + 1 .. j - 1 : s[n] = ","}}

\* None, or a list that may end with a comma.
Elements(s, i, j) ==
    Only(i > j, {<<>>}) \cup Lists(s, i, j)
        \cup Only(i < j /\ s[j] = ",", Lists(s, i, j - 1))

\* key = value or key : value, with or without commas.
Items(s, i, j) ==
    Only(i > j, {<<>>}) \cup
    Only(i + 1 < j /\ s[i] \in Names \cup {"str"} /\ s[i + 1] \in {"=", ":"},
         UNION {{<<v>> \o rest : v \in Exprs(s, i + 2, m),
                                 rest \in Items(s, m + 1, j)
                                     \cup Only(m < j /\ s[m + 1] = ",", Items(s, m + 2, j))} :
                   m \in i + 2 .. j})

\* [for v in c : e if d], {for k, v in c : k => v... if d} between i and j.
Loops(s, i, j) ==
    LET at(k) == IF k \in i .. j THEN s[k] ELSE "eof"
        two == at(i + 3) = ","
        c == IF two THEN i + 6 ELSE i + 4       \* the collection
        header == /\ at(i + 1) = "for" /\ at(i + 2) \in Names /\ at(c - 1) = "in"
                  /\ two => at(i + 4) \in Names
        colons == {m \in c + 1 .. j : s[m] = ":"}
        \* what follows the result: nothing, or a filter
        filtered(kind, op, e, kids) ==
            Only(e = j - 1, {Tree(kind, op, kids)}) \cup
            Only(at(e + 1) = "if", {Tree(kind, op, Append(kids, d)) : d \in Exprs(s, e + 2, j - 1)})
        tuples == UNION {UNION {filtered("fortuple", "", e, <<coll, v>>) :
                                   coll \in Exprs(s, c, m - 1), v \in Exprs(s, m + 1, e)} :
                            m \in colons, e \in c + 2 .. j - 1}
        objects == UNION {UNION {filtered("forobject", "", e, <<coll, k, v>>)
                                     \cup Only(at(e + 1) = "...",
                                               filtered("forobject", "...", e + 1, <<coll, k, v>>)) :
                                    coll \in Exprs(s, c, m - 1), k \in Exprs(s, m + 1, a - 1),
                                    v \in Exprs(s, a + 1, e)} :
                             m \in colons, a \in {n \in c + 3 .. j : s[n] = "=>"}, e \in c + 4 .. j - 1}
    IN  Only(header /\ Ends(s, i, "[", j, "]"), tuples)
            \cup Only(header /\ Ends(s, i, "{", j, "}"), objects)

Primaries(s, i, j) ==
    Only(i = j /\ s[i] = "num", {Leaf("lit")})
        \cup Only(i = j /\ s[i] = "str", {Leaf("template")})
        \cup Only(i = j /\ s[i] \in Names, {Leaf("var")})
        \cup Only(Ends(s, i, "(", j, ")"),
                  {[t EXCEPT !.paren = TRUE] : t \in Exprs(s, i + 1, j - 1)})
        \cup Only(Ends(s, i + 1, "(", j, ")") /\ s[i] \in Names,
                  {Tree("call", "", args) : args \in Elements(s, i + 2, j - 1)} \cup
                  Only(s[j - 1] = "...",
                       {Tree("call", "...", args) : args \in Lists(s, i + 2, j - 2)}))
        \cup Only(Ends(s, i, "[", j, "]") /\ s[i + 1] # "for",
                  {Tree("tuple", "", es) : es \in Elements(s, i + 1, j - 1)})
        \cup Only(Ends(s, i, "{", j, "}") /\ s[i + 1] # "for",
                  {Tree("object", "", vs) : vs \in Items(s, i + 1, j - 1)})
        \cup Loops(s, i, j)

\* What the traversal i .. j makes of base.
Traversals(s, base, i, j) ==
    LET splat(k) == {Tree("splat", "", <<base, b>>) : b \in Traversals(s, Leaf("element"), k, j)}
    IN  Only(i > j, {base})
            \cup Only(i < j /\ s[i] = "." /\ s[i + 1] \in Names,
                      Traversals(s, Tree("attr", "", <<base>>), i + 2, j))
            \cup Only(i < j /\ s[i] = "." /\ s[i + 1] = "*", splat(i + 2))
            \cup Only(i + 1 < j /\ s[i] = "[" /\ s[i + 1] = "*" /\ s[i + 2] = "]", splat(i + 3))
            \cup Only(i < j /\ s[i] = "[",
                      UNION {UNION {Traversals(s, Tree("index", "", <<base, e>>), m + 1, j) :
                                       e \in Exprs(s, i + 1, m - 1)} :
                                m \in {n \in i + 2 .. j : s[n] = "]"}})

Unaries(s, i, j) ==
    Only(i < j /\ s[i] \in {"-", "!"}, {Tree("unary", s[i], <<t>>) : t \in Unaries(s, i + 1, j)})
        \cup UNION {UNION {Traversals(s, p, k + 1, j) : p \in Primaries(s, i, k)} : k \in i .. j}

Binaries(s, i, j) ==
    Unaries(s, i, j) \cup
    UNION {{Tree("binary", s[m], <<l, r>>) :
                l \in {t \in Binaries(s, i, m - 1) : Binds(t) >= Bp(s[m])},
                r \in {t \in Binaries(s, m + 1, j) : Binds(t) > Bp(s[m])}} :
              m \in {n \in i + 1 .. j - 1 : Bp(s[n]) > 0}}

Exprs(s, i, j) ==
    Binaries(s, i, j) \cup
    UNION {{Tree("cond", "", <<a, b, c>>) : a \in Binaries(s, i, q - 1), b \in Exprs(s, q + 1, m - 1),
                                            c \in Exprs(s, m + 1, j)} :
              q \in {n \in i .. j : s[n] = "?"}, m \in {n \in i .. j : s[n] = ":"}}

\* The tree below cell n, without strings and values.
RECURSIVE TreeOf(_)
TreeOf(n) ==
    LET shown == SelectSeq(heap[n].kids, LAMBDA k : heap[k].kind \notin {"text", "value"})
    IN  [kind |-> heap[n].kind, op |-> heap[n].op, paren |-> heap[n].paren,
         kids |-> [i \in DOMAIN shown |-> TreeOf(shown[i])]]

\* The parser accepts exactly the sentences of the grammar, and what it returns
\* is their only derivation (GRAMMAR.md 2 and 3; chained splats nest).
ParsesGrammar ==
    LET derivations == Exprs(src, 1, Len(src))
    IN  /\ ret = "accepted" => derivations = {TreeOf(val)}
        /\ ret = "rejected" /\ faults = MaxFaults => derivations = {}
=============================================================================
