---------------------------- MODULE LexerMeaning ----------------------------
(***************************************************************************)
(* What the tokens of a text are, by GRAMMAR.md section 1: lexemes as sets *)
(* of words, the longest one at every place, and no word that is not a     *)
(* lexeme, a space or a comment.  And the renderer's reading of a quoted   *)
(* string (eval.c), which has to find the markers that the lexer found.    *)
(***************************************************************************)
EXTENDS Lexer
LOCAL INSTANCE SequencesExt
LOCAL INSTANCE FiniteSetsExt

Part(t, i, j) == SubSeq(t, i, j - 1)
Ends(t, i) == (i + 1) .. (Len(t) + 1)

------------------------------------------------------------------------------
(* Words *)

IsNumber(w) ==
    /\ w # <<>> /\ w[1] \in Digits
    /\ \A k \in 2 .. Len(w) : \/ w[k] \in Digits \cup {".", "e", "E"}
                              \/ w[k] \in {"+", "-"} /\ w[k - 1] \in {"e", "E"}

IsName(w) == w # <<>> /\ w[1] \in Letters \cup {"_"} /\ \A k \in DOMAIN w : w[k] \in Name

IsChar(w) == (Len(w) = 1 /\ w[1] \notin {"\"", "\\"}) \/ (Len(w) = 2 /\ w[1] = "\\")

\* w is a concatenation of pieces, of which Piece knows the one-level ones.
RECURSIVE Chars(_)
Chars(w) == w = <<>> \/ \E k \in 1 .. Len(w) : IsChar(SubSeq(w, 1, k)) /\ Chars(SubSeq(w, k + 1, Len(w)))

IsNested(w) == Len(w) > 1 /\ w[1] = "\"" /\ w[Len(w)] = "\"" /\ Chars(SubSeq(w, 2, Len(w) - 1))

\* What stands between the braces of a marker: characters, strings and, in
\* braces, more of the same.
RECURSIVE Inside(_)
Inside(w) ==
    \/ w = <<>>
    \/ \E k \in 1 .. Len(w) :
          LET x == SubSeq(w, 1, k)
          IN  /\ \/ IsChar(x) /\ x[1] \notin {"{", "}"}
                 \/ IsNested(x)
                 \/ x[1] = "{" /\ x[k] = "}" /\ k > 1 /\ Inside(SubSeq(x, 2, k - 1))
              /\ Inside(SubSeq(w, k + 1, Len(w)))

IsMarker(w) ==
    /\ Len(w) > 2 /\ w[1] \in {"$", "%"} /\ w[2] = "{" /\ w[Len(w)] = "}"
    /\ Inside(SubSeq(w, 3, Len(w) - 1))

RECURSIVE StringBody(_)
StringBody(w) ==
    \/ w = <<>>
    \/ \E k \in 1 .. Len(w) :
          LET x == SubSeq(w, 1, k)
          IN  /\ \/ IsChar(x) /\ ~(x[1] \in {"$", "%"} /\ Has(w, 2, <<"{">>))
                 \/ IsMarker(x)
              /\ StringBody(SubSeq(w, k + 1, Len(w)))

IsString(w) == Len(w) > 1 /\ w[1] = "\"" /\ w[Len(w)] = "\"" /\ StringBody(SubSeq(w, 2, Len(w) - 1))

RECURSIVE Split(_)
Split(w) ==
    LET at == {k \in DOMAIN w : w[k] = Newline}
    IN  IF at = {} THEN <<w>> ELSE <<SubSeq(w, 1, Min(at) - 1)>> \o Split(SubSeq(w, Min(at) + 1, Len(w)))

Trimmed(w, chars) ==
    LET at == {k \in DOMAIN w : w[k] \notin chars} IN IF at = {} THEN <<>> ELSE SubSeq(w, Min(at), Max(at))

AllIn(w, chars) == \A k \in DOMAIN w : w[k] \in chars

\* The lines of a heredoc: its head, its body, and the delimiter on a line.
IsHeredoc(w, next) ==
    LET lines == Split(w)
        head == Trimmed(lines[1], Blanks \cup {"\r"})
        indented == Has(head, 3, <<"-">>)
        delim == SubSeq(head, IF indented THEN 4 ELSE 3, Len(head))
        ends(l) ==
            \E i \in 0 .. Len(l) - Len(delim) :
               /\ AllIn(SubSeq(l, 1, i), IF indented THEN Blanks ELSE {})
               /\ SubSeq(l, i + 1, i + Len(delim)) = delim
               /\ AllIn(SubSeq(l, i + Len(delim) + 1, Len(l)), Blanks \cup {"\r"})
        last == IF w[Len(w)] = Newline THEN Len(lines) - 1 ELSE Len(lines)
    IN  /\ Has(w, 1, <<"<", "<">>)
        /\ Len(delim) \in 1 .. MaxDelimiter /\ AllIn(delim, Word)
        /\ last > 1 /\ ends(lines[last]) /\ \A i \in 2 .. (last - 1) : ~ends(lines[i])
        /\ w[Len(w)] = Newline \/ next = <<>>

------------------------------------------------------------------------------
(* The text of a token *)

\* The common indentation of the lines that are not blank is removed from all.
Unindented(lines) ==
    LET lead(l) == Max({0} \cup {n \in DOMAIN l : AllIn(SubSeq(l, 1, n), Blanks)})
        full == {i \in DOMAIN lines : ~AllIn(lines[i], Blanks)}
        margin == IF full = {} THEN 0 ELSE Min({lead(lines[i]) : i \in full})
        cut(l) == SubSeq(l, Min({margin, lead(l)}) + 1, Len(l))
    IN  [i \in DOMAIN lines |-> cut(lines[i])]

HeredocText(w) ==
    LET lines == Split(w)
        last == IF w[Len(w)] = Newline THEN Len(lines) - 1 ELSE Len(lines)
        body == SubSeq(lines, 2, last - 1)
        kept == IF Has(w, 3, <<"-">>) THEN Unindented(body) ELSE body
    IN  FlattenSeq([i \in DOMAIN kept |-> Append(kept[i], Newline)])

Content(kind, w) ==
    CASE kind = "string" -> SubSeq(w, 2, Len(w) - 1)
      [] kind = "heredoc" -> HeredocText(w)
      [] OTHER -> w

------------------------------------------------------------------------------
(* Texts *)

\* The comments and spaces that can stand at i: where they end.
GapsAt(t, i) ==
    {j \in Ends(t, i) :
        LET w == Part(t, i, j)
            closes == {k \in 3 .. Len(w) - 1 : Has(w, k, <<"*", "/">>)}
        IN  \/ Len(w) = 1 /\ w[1] \in Spaces
            \/ /\ w[1] = "#" \/ Has(w, 1, <<"/", "/">>)
               /\ \A k \in DOMAIN w : w[k] # Newline
               /\ AtLineEnd(t, j)
            \/ Has(w, 1, <<"/", "*">>) /\ closes = {Len(w) - 1}}

RECURSIVE GapEnd(_, _)
GapEnd(t, i) == IF GapsAt(t, i) = {} THEN i ELSE GapEnd(t, Max(GapsAt(t, i)))

\* The lexemes at i, as kinds and ends.  A dot that another one follows is no
\* part of a number.
LexemesAt(t, i) ==
    LET rest(j) == SubSeq(t, j, Len(t))
        of(kind, ends) == {<<kind, j>> : j \in ends}
        numbers == {j \in Ends(t, i) : /\ IsNumber(Part(t, i, j))
                                       /\ \A k \in i .. (j - 1) : ~Has(t, k, <<".", ".">>)}
    IN  of("number", numbers)
        \cup of("name", {j \in Ends(t, i) : IsName(Part(t, i, j))})
        \cup of("string", {j \in Ends(t, i) : IsString(Part(t, i, j))})
        \cup (IF Has(t, i, <<"<", "<">>)
              THEN of("heredoc", {j \in Ends(t, i) : IsHeredoc(Part(t, i, j), rest(j))})
              ELSE of("symbol", {j \in Ends(t, i) : Part(t, i, j) \in Symbols}))

\* The tokens from i on, up to the first place where there is none.  An open
\* comment is such a place.
RECURSIVE TokensFrom(_, _)
TokensFrom(t, i) ==
    LET from == GapEnd(t, i)
        lexemes == LexemesAt(t, from)
        best == CHOOSE l \in lexemes : \A m \in lexemes : m[2] <= l[2]
    IN  IF from > Len(t) THEN <<<<"eof", from, from, <<>> >>>>
        ELSE IF Has(t, from, <<"/", "*">>) \/ lexemes = {} THEN <<>>
        ELSE <<<<best[1], from, best[2], Content(best[1], Part(t, from, best[2]))>>>>
             \o TokensFrom(t, best[2])

------------------------------------------------------------------------------
(* The renderer's reading of a string (trender, brace_match) *)

Braces(w, q, r, c) == Cardinality({k \in q .. r : w[k] = c})

\* brace_match: 0 when there is no brace that matches.
BraceMatch(w, q) ==
    LET closing == {r \in q .. Len(w) : /\ w[r] = "}"
                                        /\ Braces(w, q, r, "}") = Braces(w, q, r, "{") + 1}
    IN  IF closing = {} THEN 0 ELSE Min(closing)

\* The markers from q on; a marker that does not end is the last one.
RECURSIVE MarkersFrom(_, _)
MarkersFrom(w, q) ==
    CASE q > Len(w) -> <<>>
      [] Has(w, q, <<"$", "$", "{">>) \/ Has(w, q, <<"%", "%", "{">>) -> MarkersFrom(w, q + 3)
      [] Has(w, q, <<"$", "{">>) \/ Has(w, q, <<"%", "{">>) ->
             LET close == BraceMatch(w, q + 2)
             IN  <<<<q, close>>>> \o (IF close = 0 THEN <<>> ELSE MarkersFrom(w, close + 1))
      [] w[q] = "\\" /\ q < Len(w) -> MarkersFrom(w, q + 2)
      [] OTHER -> MarkersFrom(w, q + 1)

\* The two readings part at escaped markers, which only the renderer knows, and
\* in the nested strings and escapes of a marker, which only the lexer knows.
Plain(w, found) ==
    /\ \A q \in DOMAIN w : ~Has(w, q, <<"$", "$", "{">>) /\ ~Has(w, q, <<"%", "%", "{">>)
    /\ \A i \in DOMAIN found : \A q \in found[i][1] .. found[i][2] :
          /\ w[q] # "\\"
          /\ w[q] \in {"{", "}"} => Braces(w, found[i][1], q, "\"") % 2 = 0

==============================================================================
