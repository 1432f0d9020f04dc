------------------------------ MODULE Strings ------------------------------
(***************************************************************************)
(* Texts as the character-level builtins go through them.  A text is a     *)
(* TLA+ string; a character is a string of length 1.  Characters that TLA+ *)
(* has no notation for have stand-ins: "@" for NUL, which ends a C string, *)
(* "^" for a control character, "_" for a backspace; a byte above 127 is   *)
(* written as its number in angle brackets.                                *)
(***************************************************************************)
EXTENDS Values
LOCAL INSTANCE SequencesExt
LOCAL INSTANCE FiniteSetsExt

\* The character at i, "" beyond the end (the NUL a C string ends with).
Char(s, i) == IF i \in 1 .. Len(s) THEN SubSeq(s, i, i) ELSE ""

From(s, i) == SubSeq(s, i, Len(s))

Chars(s) == [i \in 1 .. Len(s) |-> SubSeq(s, i, i)]

Occurs(c, s) == \E i \in 1 .. Len(s) : SubSeq(s, i, i) = c

\* The first place from i on whose character is in stops, or the end.
Find(s, i, stops) ==
    LET hits == {j \in i .. Len(s) : SubSeq(s, j, j) \in stops}
    IN  IF hits = {} THEN Max({i, Len(s) + 1}) ELSE Min(hits)

\* The first place from i on whose character is not in skipped.
Skip(s, i, skipped) ==
    LET hits == {j \in i .. Len(s) : SubSeq(s, j, j) \notin skipped}
    IN  IF hits = {} THEN Max({i, Len(s) + 1}) ELSE Min(hits)

\* The place where the run of trimmed characters at the end begins.
TrimmedEnd(s, trimmed) ==
    Max({0} \cup {j \in 1 .. Len(s) : SubSeq(s, j, j) \notin trimmed}) + 1

TrimRight(s, trimmed) == SubSeq(s, 1, TrimmedEnd(s, trimmed) - 1)
TrimLeft(s, trimmed) == From(s, Skip(s, 1, trimmed))
Trim(s, trimmed) == TrimRight(TrimLeft(s, trimmed), trimmed)

RECURSIVE Join(_, _)
Join(pieces, sep) ==
    CASE Len(pieces) = 0 -> ""
      [] Len(pieces) = 1 -> pieces[1]
      [] OTHER -> pieces[1] \o sep \o Join(Tail(pieces), sep)

Repeat(s, n) == IF n <= 0 THEN "" ELSE Join([i \in 1 .. n |-> s], "")

\* Whether part is at place i of s.
IsAt(s, i, part) == SubSeq(s, i, Min({Len(s), i + Len(part) - 1})) = part /\ i >= 1

\* The pieces of s between the separators, cut at each one in turn.
RECURSIVE Pieces(_, _)
Pieces(s, sep) ==
    LET hits == {i \in 1 .. Len(s) : IsAt(s, i, sep)}
        first == Min(hits)
    IN  IF hits = {} THEN <<s>>
        ELSE <<SubSeq(s, 1, first - 1)>> \o Pieces(From(s, first + Len(sep)), sep)

\* A C string ends at the first NUL.
CString(s) == SubSeq(s, 1, Find(s, 1, {"@"}) - 1)

------------------------------------------------------------------------------
Digits == "0123456789"
Lowers == "abcdefghijklmnopqrstuvwxyz"
Uppers == "ABCDEFGHIJKLMNOPQRSTUVWXYZ"

PlaceIn(c, alphabet) == CHOOSE i \in 1 .. Len(alphabet) : SubSeq(alphabet, i, i) = c

IsDigit(c) == Occurs(c, Digits)
AllDigits(s) == s # "" /\ \A i \in 1 .. Len(s) : IsDigit(Char(s, i))

RECURSIVE Natural(_)
Natural(s) ==
    IF s = "" THEN 0
    ELSE 10 * Natural(SubSeq(s, 1, Len(s) - 1)) + PlaceIn(Char(s, Len(s)), Digits) - 1

\* strtod on all of s, for the integers it can spell: a sign, digits and an
\* exponent.
Strtod(s) ==
    LET sign == IF Char(s, 1) \in {"-", "+"} THEN 1 ELSE 0
        e == Find(s, 1, {"e", "E"})
        mantissa == SubSeq(s, sign + 1, e - 1)
        plus == IF Char(s, e + 1) = "+" THEN 1 ELSE 0
        exponent == From(s, e + 1 + plus)
        size == Natural(mantissa) * (IF exponent = "" THEN 1 ELSE 10 ^ Natural(exponent))
    IN  IF AllDigits(mantissa) /\ (e > Len(s) \/ AllDigits(exponent))
        THEN Number(IF Char(s, 1) = "-" THEN -size ELSE size)
        ELSE Error

\* strcmp as an order, on the characters the sorted texts have.
Before(s, t) ==
    LET order == " !#,-./0123456789:ABCDEFGHIJKLMNOPQRSTUVWXYZabcdefghijklmnopqrstuvwxyz"
        rank(x, i) == IF i > Len(x) THEN 0 ELSE PlaceIn(Char(x, i), order)
        differ == {i \in 1 .. Max({Len(s), Len(t)}) : Char(s, i) # Char(t, i)}
    IN  differ # {} /\ rank(s, Min(differ)) < rank(t, Min(differ))
=============================================================================
