----------------------------- MODULE MCTemplate -----------------------------
(* Small instances of Template: every template of a few pieces, and what    *)
(* they mean.                                                               *)
EXTENDS Template, TLC

CONSTANT MaxPieces

\* Pieces by short names: the marker's kind, its expression, its strip marks.
Mark(k, e) == [k |-> k, e |-> e, l |-> FALSE, r |-> FALSE]
MarkL(k, e) == [k |-> k, e |-> e, l |-> TRUE, r |-> FALSE]
MarkR(k, e) == [k |-> k, e |-> e, l |-> FALSE, r |-> TRUE]

\* Structure and values, without strip marks.
Plain == {Mark("char", "-"), Mark("interp", "var"), Mark("interp", "unk"),
          Mark("interp", "err"),
          Mark("if", "true"), Mark("if", "false"), Mark("if", "unk"), Mark("if", "first"),
          Mark("else", "-"), Mark("endif", "-"),
          Mark("for", "none"), Mark("for", "two"), Mark("for", "unk"), Mark("endfor", "-"),
          Mark("bad", "-"), Mark("escape", "-")}

\* Strip marks on everything that can have them.
Stripping == {Mark("char", "-"), Mark("char", "blank"), Mark("space", "-"), MarkL("interp", "blank"),
              MarkR("interp", "text"), MarkR("if", "true"), Mark("if", "false"), MarkL("for", "none"),
              MarkL("else", "-"), MarkL("endif", "-"), Mark("endif", "-"),
              MarkR("for", "two"), MarkL("endfor", "-")}

Words(alphabet) == UNION {[1 .. n -> alphabet] : n \in 0 .. MaxPieces}

\* Complete directives only, nested as deep as the length allows.
Leaves == {<<Mark("interp", "var")>>, <<Mark("space", "-")>>}
IfMarks == {Mark("if", "first"), Mark("if", "false"), Mark("if", "unk"), MarkL("if", "true")}
ForMarks == {Mark("for", "two"), MarkR("for", "two"), Mark("for", "none")}
ElseMarks == {Mark("else", "-"), MarkL("else", "-")}
EndForMarks == {Mark("endfor", "-"), MarkL("endfor", "-")}

\* shorter[m + 1] holds the sources of m pieces; one length more.
Longer(shorter) ==
    LET n == Len(shorter)
        directives(m) ==      \* a directive of m pieces
            UNION {{<<a>> \o b \o <<z>> :
                       a \in ForMarks, b \in shorter[m - 1], z \in EndForMarks},
                   {<<a>> \o b \o <<Mark("endif", "-")>> :
                       a \in IfMarks, b \in shorter[m - 1]},
                   UNION {{<<a>> \o b \o <<e>> \o c \o <<Mark("endif", "-")>> :
                              a \in IfMarks, b \in shorter[i + 1], e \in ElseMarks,
                              c \in shorter[m - 2 - i]} : i \in 0 .. m - 3}}
    IN  Append(shorter,
            UNION {IF m = 1 THEN {leaf \o rest : leaf \in Leaves, rest \in shorter[n]}
                   ELSE {d \o rest : d \in directives(m), rest \in shorter[n - m + 1]} :
                   m \in 1 .. n})

UpTo2 == Longer(Longer(<< {<<>>} >>))
UpTo4 == Longer(Longer(UpTo2))
UpTo6 == Longer(Longer(UpTo4))

SmallSources == Words(Plain) \cup Words(Stripping) \cup UpTo6[7]

(***************************************************************************)
(* What a template means, by its structure: the reference the renderer is  *)
(* compared with.  No cursor, no flag that is switched on and off; a span  *)
(* of pieces i .. j - 1 is text, or a directive with its branches.         *)
(***************************************************************************)
\* White space that a ~} before it strips.
Dropped(t, n) ==
    /\ t[n].k = "space"
    /\ \E m \in 1 .. n - 1 : t[m].r /\ \A b \in m + 1 .. n - 1 : t[b].k = "space"

Kept(t) == LET left[n \in 0 .. Len(t)] ==
                 IF n = 0 THEN <<>>
                 ELSE IF Dropped(t, n) THEN left[n - 1] ELSE Append(left[n - 1], t[n])
           IN  left[Len(t)]

Is(t, n, k) == n \in DOMAIN t /\ t[n].k = k

\* i .. j - 1 is a sequence of text, interpolations and complete directives;
\* or a complete directive.
RECURSIVE WellFormed(_, _, _), Directive(_, _, _)

WellFormed(t, i, j) ==
    \/ i = j
    \/ i < j /\ t[i].k \in {"char", "space", "interp"} /\ WellFormed(t, i + 1, j)
    \/ \E k \in i + 2 .. j : Directive(t, i, k) /\ WellFormed(t, k, j)

ElseOf(t, i, k) == {m \in i + 1 .. k - 2 : /\ t[m].k = "else"
                                           /\ WellFormed(t, i + 1, m)
                                           /\ WellFormed(t, m + 1, k - 1)}

Directive(t, i, k) ==
    \/ Is(t, i, "for") /\ Is(t, k - 1, "endfor") /\ WellFormed(t, i + 1, k - 1)
    \/ /\ Is(t, i, "if") /\ Is(t, k - 1, "endif")
       /\ WellFormed(t, i + 1, k - 1) \/ ElseOf(t, i, k) # {}

Failed == [out |-> <<>>, unk |-> FALSE, bad |-> TRUE]

NoBlanks(o) == LET inked == {n \in DOMAIN o : o[n] # <<"blank">>}
               IN  SubSeq(o, 1, CHOOSE n \in inked \cup {0} : \A m \in inked : m <= n)

\* The {~ of a marker strips the white space the output ends in.
Strip(acc, mark) == IF mark.l THEN [acc EXCEPT !.out = NoBlanks(@)] ELSE acc

\* The value of an expression for the loop element item (-1 outside a loop).
Value(e, inLoop, item) ==
    CASE e = "var" -> IF inLoop THEN <<"item", item>> ELSE <<"err">>
      [] e = "first" -> IF inLoop THEN <<IF item = 0 THEN "true" ELSE "false">> ELSE <<"err">>
      [] OTHER -> <<e>>

\* The meaning of i .. j - 1 after acc, for a loop element.
RECURSIVE Means(_, _, _, _, _, _)
RECURSIVE Repeat(_, _, _, _, _, _)

\* The body i + 1 .. k - 2 of a loop for the elements from n on.
Repeat(t, i, k, n, count, acc) ==
    IF n = count THEN acc
    ELSE Repeat(t, i, k, n + 1, count,
                Strip(Means(t, i + 1, k - 1, TRUE, n, acc), t[k - 1]))

Chosen(t, i, k, c, inLoop, item, acc) ==
    LET middle == ElseOf(t, i, k)
        m == IF middle = {} THEN k - 1 ELSE CHOOSE x \in middle : TRUE
    IN  CASE c = "true" -> Strip(Means(t, i + 1, m, inLoop, item, acc), t[m])
          [] c = "false" /\ m < k - 1 ->
                 Strip(Means(t, m + 1, k - 1, inLoop, item, acc), t[k - 1])
          [] c = "false" /\ m = k - 1 -> acc
          [] c = "unk" -> [acc EXCEPT !.unk = TRUE]
          [] OTHER -> Failed

Means(t, i, j, inLoop, item, acc) ==
    IF i = j \/ acc.bad THEN acc
    ELSE LET pre == Strip(acc, t[i])
             v == Value(t[i].e, inLoop, item)
             k == CHOOSE x \in i + 2 .. j : Directive(t, i, x) /\ WellFormed(t, x, j)
         IN CASE t[i].k = "char" ->
                   Means(t, i + 1, j, inLoop, item, [acc EXCEPT !.out = Append(@, <<IF t[i].e = "blank" THEN "blank" ELSE "text">>)])
              [] t[i].k = "space" ->
                   Means(t, i + 1, j, inLoop, item, [acc EXCEPT !.out = Append(@, <<"blank">>)])
              [] t[i].k = "interp" ->
                   Means(t, i + 1, j, inLoop, item,
                         CASE v[1] = "unk" -> [pre EXCEPT !.unk = TRUE]
                           [] v[1] = "err" -> Failed
                           [] OTHER -> [pre EXCEPT !.out = Append(@, v)])
              [] t[i].k = "if" ->
                   Means(t, k, j, inLoop, item, Chosen(t, i, k, v[1], inLoop, item, pre))
              [] t[i].k = "for" ->
                   Means(t, k, j, inLoop, item,
                         CASE v[1] = "unk" -> [pre EXCEPT !.unk = TRUE]
                           [] v[1] = "none" -> pre
                           [] v[1] = "one" -> Repeat(t, i, k, 0, 1, pre)
                           [] v[1] = "two" -> Repeat(t, i, k, 0, 2, pre)
                           [] OTHER -> Failed)

Meaning(source) ==
    LET t == Kept(source)
        end == Len(t) + 1
        m == Means(t, 1, end, FALSE, 0, [out |-> <<>>, unk |-> FALSE, bad |-> FALSE])
    IN  IF ~WellFormed(t, 1, end) THEN <<"error">>
        ELSE IF m.bad THEN <<"error">>
        ELSE IF m.unk THEN <<"unknown">> ELSE <<"string", m.out>>

\* The one-pass renderer computes what the structure of the template means,
\* errors and unknowns included (README.md and GRAMMAR.md on directives).
RendersMeaning == run = "over" => result = Meaning(src)
=============================================================================
