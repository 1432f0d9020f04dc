------------------------------- MODULE Bytes -------------------------------
(***************************************************************************)
(* Texts as bytes: base64 (crypto.c) and the check of what a file holds    *)
(* (utf8_valid).  Bytes are numbers here.                                  *)
(***************************************************************************)
EXTENDS JsonText
LOCAL INSTANCE SequencesExt
LOCAL INSTANCE FiniteSetsExt

CONSTANT
    Files       \* what is on disk below the working directory, external: a
                \* sequence of records of a path, whether it is a regular file,
                \* and its bytes

\* The code of a character that texts may have.
Code(c) == CHOOSE n \in 0 .. 127 : Byte(n) = c

TextOf(bytes) == FoldLeft(LAMBDA text, n : text \o Byte(n), "", bytes)

Base64Digits == Uppers \o Lowers \o Digits \o "+/"

\* hc_base64_encode: groups of three bytes, the last one filled up with zeros
\* whose digits become padding.
Base64Encode(bytes) ==
    LET n == Len(bytes)
        at(i) == IF i <= n THEN bytes[i] ELSE 0
        groups == (n + 2) \div 3
        group(g) == at(3 * g - 2) * 65536 + at(3 * g - 1) * 256 + at(3 * g)
        digit(k) == (group((k - 1) \div 4 + 1) \div 64 ^ (3 - ((k - 1) % 4))) % 64
        pad == (3 - (n % 3)) % 3
    IN  Join([k \in 1 .. 4 * groups |->
                IF k > 4 * groups - pad THEN "=" ELSE Char(Base64Digits, digit(k) + 1)], "")

\* Mutant: a digit that fills a byte up leaves its own bits in front of the next.
PutDigitWhole(z, v) ==
    LET acc == z.acc * 64 + v
    IN  IF z.bits + 6 < 8 THEN [z EXCEPT !.acc = acc, !.bits = z.bits + 6]
        ELSE [acc |-> acc \div 2 ^ (z.bits - 2), bits |-> z.bits - 2,
              out |-> Append(z.out, (acc \div 2 ^ (z.bits - 2)) % 256)]

\* One more digit for the decoder; acc holds the bits that fill no byte yet.
PutDigit(z, v) ==
    LET acc == z.acc * 64 + v
    IN  IF z.bits + 6 < 8 THEN [z EXCEPT !.acc = acc, !.bits = z.bits + 6]
        ELSE [acc |-> acc % 2 ^ (z.bits - 2), bits |-> z.bits - 2,
              out |-> Append(z.out, (acc \div 2 ^ (z.bits - 2)) % 256)]

\* hc_base64_decode: padding and line ends may be anywhere.
Base64Decode(s) ==
    LET digits == SelectSeq(Chars(s), LAMBDA c : c \notin {"=", "\n", "\r"})
    IN  IF \E i \in DOMAIN digits : ~Occurs(digits[i], Base64Digits) THEN Error
        ELSE Str(CString(TextOf(
                 FoldLeft(LAMBDA z, c : PutDigit(z, PlaceIn(c, Base64Digits) - 1),
                          [acc |-> 0, bits |-> 0, out |-> <<>>], digits).out)))

------------------------------------------------------------------------------
\* The bytes that follow a first byte, 4 when none can.
Extra(c) ==
    CASE c < 128 -> 0
      [] c \in 192 .. 223 -> 1
      [] c \in 224 .. 239 -> 2
      [] c \in 240 .. 247 -> 3
      [] OTHER -> 4

\* Mutant: the second half of a surrogate pair passes.
CharacterHalf(cp, extra) ==
    /\ cp >= CASE extra = 0 -> 0 [] extra = 1 -> 128 [] extra = 2 -> 2048 [] OTHER -> 65536
    /\ cp \notin 55296 .. 56319
    /\ cp <= 1114111

\* A code written with the number of bytes it needs, not half of a pair, in range.
Character(cp, extra) ==
    /\ cp >= CASE extra = 0 -> 0 [] extra = 1 -> 128 [] extra = 2 -> 2048 [] OTHER -> 65536
    /\ cp \notin 55296 .. 57343
    /\ cp <= 1114111

\* utf8_valid from i on.
RECURSIVE ValidFrom(_, _)
ValidFrom(bytes, i) ==
    LET extra == Extra(bytes[i])
        first == bytes[i] % (CASE extra = 0 -> 128 [] OTHER -> 2 ^ (6 - extra))
        cp == FoldLeft(LAMBDA n, b : 64 * n + (b % 64), first, SubSeq(bytes, i + 1, i + extra))
    IN  i > Len(bytes)
        \/ ( /\ extra < 4 /\ i + extra <= Len(bytes)
             /\ \A k \in i + 1 .. i + extra : bytes[k] \in 128 .. 191
             /\ Character(cp, extra)
             /\ ValidFrom(bytes, i + extra + 1) )

\* file(), on a path written as it is in Files.
FileText(path) ==
    LET hits == {i \in DOMAIN Files : Files[i].path = path}
        file == Files[CHOOSE i \in hits : TRUE]
    IN  CASE hits = {} -> Error
          [] ~ValidFrom(file.bytes, 1) -> Error
          [] OTHER -> Str(CString(TextOf(file.bytes)))
=============================================================================
