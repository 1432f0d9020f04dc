------------------------------ MODULE JsonText ------------------------------
(***************************************************************************)
(* JSON as text: the parser of json.c (jsondecode and hcl2_parse_json, the *)
(* strings taken literally) and the writer behind jsonencode (json_emit).  *)
(* A parser returns what it has read and the place behind it.              *)
(***************************************************************************)
EXTENDS Strings
LOCAL INSTANCE SequencesExt

Got(v, at) == [v |-> v, at |-> at]
Bad == Got(Error, 0)
IsBad(r) == r.at = 0

Space == {" ", "\n", "\t", "\r", "\f"}
Jws(s, i) == Skip(s, i, Space)

------------------------------------------------------------------------------
(* Strings *)

\* What stands behind a backslash, and what it stands for.
Escapes == [c \in {"\"", "\\", "/"} |-> c] @@
           ("b" :> "_" @@ "f" :> "\f" @@ "n" :> "\n" @@ "r" :> "\r" @@ "t" :> "\t")

HexValue(c) ==
    CASE IsDigit(c) -> PlaceIn(c, Digits) - 1
      [] c \in {"a", "b", "c", "d", "e", "f"} -> PlaceIn(c, Lowers) + 9
      [] c \in {"A", "B", "C", "D", "E", "F"} -> PlaceIn(c, Uppers) + 9
      [] OTHER -> -1

IsHex(s) == Len(s) = 4 /\ \A i \in 1 .. 4 : HexValue(Char(s, i)) >= 0
Hex(s) == FoldLeft(LAMBDA n, c : 16 * n + HexValue(c), 0, Chars(s))

\* The character of a code below 128, the byte of one above.
Byte(n) ==
    CASE n = 0 -> "@"
      [] n = 8 -> "_"
      [] n \in {9, 10, 12, 13} -> SubSeq("\t\n \f\r", n - 8, n - 8)
      [] n < 32 -> "^"
      [] n \in 32 .. 47 -> SubSeq(" !\"#$%&'()*+,-./", n - 31, n - 31)
      [] n \in 48 .. 57 -> SubSeq(Digits, n - 47, n - 47)
      [] n \in 65 .. 90 -> SubSeq(Uppers, n - 64, n - 64)
      [] n \in 97 .. 122 -> SubSeq(Lowers, n - 96, n - 96)
      [] OTHER -> "<" \o ToString(n) \o ">"

\* Mutant: the bytes of a character are not cut to their six bits.
Utf8Whole(cp) ==
    CASE cp < 128 -> Byte(cp)
      [] cp < 2048 -> Byte(192 + (cp \div 64)) \o Byte(128 + cp)
      [] OTHER -> Byte(224 + (cp \div 4096)) \o Byte(128 + (cp \div 64)) \o Byte(128 + cp)

\* utf8_encode: each half of a surrogate pair is taken for a character.
Utf8(cp) ==
    CASE cp < 128 -> Byte(cp)
      [] cp < 2048 -> Byte(192 + (cp \div 64)) \o Byte(128 + (cp % 64))
      [] OTHER -> Byte(224 + (cp \div 4096)) \o Byte(128 + ((cp \div 64) % 64)) \o Byte(128 + (cp % 64))

\* jstring_raw from i on, behind the quote; out is decoded.  A NUL in it ends
\* the C string that it becomes.
RECURSIVE StringFrom(_, _, _)
StringFrom(s, i, out) ==
    LET c == Char(s, i)
        e == Char(s, i + 1)
        hex == SubSeq(s, i + 2, i + 5)
    IN  CASE c = "" -> Bad
          [] c = "\"" -> Got(CString(out), i + 1)
          [] c # "\\" -> StringFrom(s, i + 1, out \o c)
          [] e \in DOMAIN Escapes -> StringFrom(s, i + 2, out \o Escapes[e])
          [] e = "u" /\ i + 5 <= Len(s) /\ IsHex(hex) -> StringFrom(s, i + 6, out \o Utf8(Hex(hex)))
          [] OTHER -> Bad

RawString(s, i) == IF Char(s, i) = "\"" THEN StringFrom(s, i + 1, "") ELSE Bad

------------------------------------------------------------------------------
(* Values *)

\* jnumber: the run of characters that numbers are made of, all of it a number
\* that fits into the buffer of 64.
JNumber(s, i) ==
    LET end == Skip(s, i, {"-", "+", ".", "e", "E"} \cup {SubSeq(Digits, d, d) : d \in 1 .. 10})
        n == Strtod(SubSeq(s, i, end - 1))
    IN  IF end - i >= 64 THEN Bad ELSE IF n = Error THEN Bad ELSE Got(n, end)

Literals == "true" :> Bool(TRUE) @@ "false" :> Bool(FALSE) @@ "null" :> Null

\* jlit: the literal that begins with the character at i.
JLiteral(s, i) ==
    LET those == {w \in DOMAIN Literals : IsAt(s, i, w)}
    IN  IF those = {} THEN Bad ELSE LET w == CHOOSE x \in those : TRUE IN Got(Literals[w], i + Len(w))

\* Behind an element: another one, the end, or an error.  at is the place.
AfterElement(s, at, close) ==
    CASE Char(s, at) = "," -> "more"
      [] Char(s, at) = close -> "end"
      [] OTHER -> "bad"

RECURSIVE JValue(_, _), ArrayFrom(_, _, _), ObjectMembers(_, _, _)

\* jarray: an element at i, items before it.
ArrayFrom(s, i, items) ==
    LET el == JValue(s, i)
        at == Jws(s, el.at)
        after == AfterElement(s, at, "]")
    IN  CASE IsBad(el) -> Bad
          [] after = "more" -> ArrayFrom(s, at + 1, Append(items, el.v))
          [] after = "end" -> Got(Tuple(Append(items, el.v)), at + 1)
          [] OTHER -> Bad

\* jobject: a member at i; a key that comes again takes the new value.
ObjectMembers(s, i, object) ==
    LET key == RawString(s, Jws(s, i))
        colon == Jws(s, key.at)
        val == JValue(s, colon + 1)
        at == Jws(s, val.at)
        after == AfterElement(s, at, "}")
        with == ObjectSet(object, key.v, val.v)
    IN  CASE IsBad(key) -> Bad
          [] Char(s, colon) # ":" -> Bad
          [] IsBad(val) -> Bad
          [] after = "more" -> ObjectMembers(s, at + 1, with)
          [] after = "end" -> Got(with, at + 1)
          [] OTHER -> Bad

JValue(s, at) ==
    LET i == Jws(s, at)
        c == Char(s, i)
        inside == Jws(s, i + 1)
    IN  CASE c = "[" -> IF Char(s, inside) = "]" THEN Got(Tuple(<<>>), inside + 1)
                        ELSE ArrayFrom(s, i + 1, <<>>)
          [] c = "{" -> IF Char(s, inside) = "}" THEN Got(Object(<<>>), inside + 1)
                        ELSE ObjectMembers(s, i + 1, Object(<<>>))
          [] c = "\"" -> LET str == RawString(s, i)
                         IN  IF IsBad(str) THEN Bad ELSE Got(Str(str.v), str.at)
          [] c \in {"t", "f", "n"} -> JLiteral(s, i)
          [] c = "-" \/ IsDigit(c) -> JNumber(s, i)
          [] OTHER -> Bad

\* json_run: nothing but space behind the value.
JsonDecode(s) ==
    LET r == JValue(s, 1)
    IN  IF ~IsBad(r) /\ Jws(s, r.at) = Len(s) + 1 THEN r.v ELSE Error

------------------------------------------------------------------------------
(* json_emit *)

\* How a character is written in a string.
Escaped(c) ==
    CASE c \in {"\"", "\\"} -> "\\" \o c
      [] c = "\n" -> "\\n"
      [] c = "\r" -> "\\r"
      [] c = "\t" -> "\\t"
      [] c = "_" -> "\\b"
      [] c = "\f" -> "\\f"
      [] c = "^" -> "\\u0001"
      [] OTHER -> c

EmitString(s) == "\"" \o Join([i \in 1 .. Len(s) |-> Escaped(Char(s, i))], "") \o "\""

\* An unknown inside is written as null.
RECURSIVE JsonEmit(_)
JsonEmit(v) ==
    CASE Kind(v) \in {"null", "unknown"} -> "null"
      [] Kind(v) \in {"bool", "number"} -> Text(v)
      [] Kind(v) = "string" -> EmitString(v[2])
      [] IsSeq(v) -> "[" \o Join([i \in DOMAIN v[2] |-> JsonEmit(v[2][i])], ",") \o "]"
      [] IsKeyed(v) -> "{" \o Join([i \in DOMAIN v[2] |->
                                      EmitString(v[2][i][1]) \o ":" \o JsonEmit(v[2][i][2])], ",") \o "}"
=============================================================================
