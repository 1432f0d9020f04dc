------------------------------- MODULE Texts -------------------------------
(***************************************************************************)
(* The builtins on texts (builtin/<name>.c) and csvdecode, each a function *)
(* of its argument list.  A text is a sequence of characters: that the     *)
(* code finds them by their first bytes is left out.                       *)
(***************************************************************************)
EXTENDS Yaml
LOCAL INSTANCE SequencesExt
LOCAL INSTANCE FiniteSetsExt

\* Whether the arguments have the kinds a builtin asks for.
Takes(args, kinds) ==
    /\ Len(args) = Len(kinds)
    /\ \A i \in DOMAIN args : \/ Kind(args[i]) = kinds[i]
                              \/ kinds[i] = "any"
                              \/ kinds[i] = "sequence" /\ IsSeq(args[i])
                              \/ kinds[i] = "keyed" /\ IsKeyed(args[i])

AllTexts(items) == \A i \in DOMAIN items : Kind(items[i]) = "string"

CharSet(s) == {Char(s, i) : i \in 1 .. Len(s)}
SpaceChars == Space
StartsWith(s, part) == SubSeq(s, 1, Min({Len(part), Len(s)})) = part
EndsWith(s, part) == From(s, Max({1, Len(s) - Len(part) + 1})) = part
Mapped(s, F(_)) == Join([i \in 1 .. Len(s) |-> F(Char(s, i))], "")

Upper(c) == IF Occurs(c, Lowers) THEN Char(Uppers, PlaceIn(c, Lowers)) ELSE c
Lower(c) == IF Occurs(c, Uppers) THEN Char(Lowers, PlaceIn(c, Uppers)) ELSE c
IsLetter(c) == Occurs(c, Lowers) \/ Occurs(c, Uppers)

------------------------------------------------------------------------------
(* Cutting and putting together *)

\* bi_split: an empty separator cuts nothing.
Split(sep, s) ==
    LET pieces == IF sep = "" THEN <<s>> ELSE Pieces(s, sep)
    IN  Tuple([i \in DOMAIN pieces |-> Str(pieces[i])])

JoinTexts(sep, items) ==
    IF AllTexts(items) THEN Str(Join([i \in DOMAIN items |-> items[i][2]], sep)) ELSE Error

\* bi_replace without a pattern: an empty text is found before every character
\* and at the end.
Replace(s, old, new) ==
    IF old = "" THEN Str(new \o Mapped(s, LAMBDA c : c \o new))
    ELSE Str(Join(Pieces(s, old), new))

\* Mutant: an end before the offset is not looked for.
SubstrUnclamped(s, offset, length) ==
    LET R == Len(s)
        off == IF offset < 0 THEN offset + R ELSE offset
        end == IF length < 0 THEN R ELSE Min({R, off + length})
    IN  Str(SubSeq(s, Max({0, off}) + 1, end))

\* bi_substr: an offset below 0 counts from the end and stops at the start, a
\* length below 0 takes the rest.
Substr(s, offset, length) ==
    LET R == Len(s)
        off == Min({R, Max({0, IF offset < 0 THEN offset + R ELSE offset})})
        end == IF length < 0 THEN R ELSE Min({R, off + length})
    IN  Str(SubSeq(s, off + 1, Max({off, end})))

\* bi_indent: a margin behind every newline, also the last.
IndentText(n, s) == Str(Mapped(s, LAMBDA c : IF c = "\n" THEN c \o Repeat(" ", Max({0, n})) ELSE c))

\* bi_title: a letter that no letter precedes.
Title(s) ==
    Str(Join([i \in 1 .. Len(s) |-> IF IsLetter(Char(s, i - 1)) THEN Char(s, i) ELSE Upper(Char(s, i))], ""))

\* parseint_digit: above base 36 capital letters are digits of their own.
IntDigit(c, base) ==
    LET d == CASE IsDigit(c) -> PlaceIn(c, Digits) - 1
               [] Occurs(c, Lowers) -> PlaceIn(c, Lowers) + 9
               [] Occurs(c, Uppers) -> PlaceIn(c, Uppers) + IF base <= 36 THEN 9 ELSE 35
               [] OTHER -> base
    IN  IF d < base THEN d ELSE -1

ParseInt(s, base) ==
    LET sign == IF Char(s, 1) \in {"+", "-"} THEN 1 ELSE 0
        digits == Chars(From(s, sign + 1))
        size == FoldLeft(LAMBDA n, c : n * base + IntDigit(c, base), 0, digits)
    IN  IF base \notin 2 .. 62 \/ digits = <<>> \/ \E i \in DOMAIN digits : IntDigit(digits[i], base) < 0
        THEN Error ELSE Number(IF Char(s, 1) = "-" THEN -size ELSE size)

------------------------------------------------------------------------------
(* Lists of texts *)

SortTexts(items) == SortSeq(items, LAMBDA x, y : Before(x[2], y[2]))

\* bi_transpose: the list of a text gets the key, unless it has it.
WithKey(out, key, text) ==
    LET bucket == Get(out, text)
    IN  CASE bucket = Error -> ObjectSet(out, text, Tuple(<<Str(key)>>))
          [] Str(key) \in Range(bucket[2]) -> out
          [] OTHER -> ObjectSet(out, text, TuplePush(bucket, Str(key)))

Transpose(v) ==
    LET filled == FoldLeft(LAMBDA out, field :
                               FoldLeft(LAMBDA o, el : WithKey(o, field[1], el[2]), out, field[2][2]),
                           Object(<<>>), v[2])
    IN  IF \E i \in DOMAIN v[2] : ~IsSeq(v[2][i][2]) \/ ~AllTexts(v[2][i][2][2]) THEN Error
        ELSE Object([i \in DOMAIN filled[2] |-> <<filled[2][i][1], Tuple(SortTexts(filled[2][i][2][2]))>>])

------------------------------------------------------------------------------
(* csvdecode *)

\* What the scanner has: the field it is in, the row, the rows before it, and
\* whether it is within quotes and something of this row has been seen.
CsvStart == [field |-> "", row |-> <<>>, rows |-> <<>>, quoted |-> FALSE, open |-> FALSE]

EmitField(st) == [st EXCEPT !.row = Append(@, Str(st.field)), !.field = ""]

\* The end of a row: a line with nothing on it is none.
EmitRow(st) ==
    IF st.open \/ st.field # "" \/ st.row # <<>>
    THEN LET full == EmitField(st)
         IN  [full EXCEPT !.rows = Append(@, full.row), !.row = <<>>, !.open = FALSE]
    ELSE st

RECURSIVE CsvFrom(_, _, _)
CsvFrom(s, i, st) ==
    LET c == Char(s, i)
        pair == c \o Char(s, i + 1)
        add(d) == [st EXCEPT !.field = @ \o d, !.open = TRUE]
    IN  CASE c = "" -> EmitRow(st)
          [] st.quoted /\ pair = "\"\"" -> CsvFrom(s, i + 2, add("\""))
          [] st.quoted /\ c = "\"" -> CsvFrom(s, i + 1, [st EXCEPT !.quoted = FALSE])
          [] st.quoted -> CsvFrom(s, i + 1, add(c))
          [] c = "\"" -> CsvFrom(s, i + 1, [st EXCEPT !.quoted = TRUE, !.open = TRUE])
          [] c = "," -> CsvFrom(s, i + 1, [EmitField(st) EXCEPT !.open = TRUE])
          [] c \in {"\n", "\r"} -> CsvFrom(s, i + (IF pair = "\r\n" THEN 2 ELSE 1), EmitRow(st))
          [] OTHER -> CsvFrom(s, i + 1, add(c))

\* The first row names the fields of the others.
CsvDecode(s) ==
    LET rows == CsvFrom(s, 1, CsvStart).rows
        record(row) == FoldLeft(LAMBDA o, i : ObjectSet(o, rows[1][i][2], row[i]),
                                Object(<<>>), [i \in DOMAIN row |-> i])
    IN  IF rows = <<>> THEN Tuple(<<>>)
        ELSE IF \E r \in DOMAIN rows : Len(rows[r]) # Len(rows[1]) THEN Error
        ELSE Tuple([r \in 1 .. Len(rows) - 1 |-> record(rows[r + 1])])

------------------------------------------------------------------------------
(* format: %[index] flags width .precision verb *)

FlagChars == {"-", "+", " ", "0", "#"}
DigitChars == CharSet(Digits)

\* fmt_default
DefaultText(v) ==
    CASE HasText(v) -> Text(v)
      [] v = Null -> "null"
      [] OTHER -> JsonEmit(v)

\* The directive behind a %, from i on: its index is a numeral, or "next" without
\* brackets; its precision -1 without one; bare the characters between index and
\* verb.
Directive(f, i) ==
    LET indexed == Char(f, i) = "["
        indexEnd == Skip(f, i + 1, DigitChars)
        flagsAt == IF indexed THEN indexEnd + 1 ELSE i
        widthAt == Skip(f, flagsAt, FlagChars)
        dotAt == Skip(f, widthAt, DigitChars)
        dotted == Char(f, dotAt) = "."
        verbAt == IF dotted THEN Skip(f, dotAt + 1, DigitChars) ELSE dotAt
    IN  [index |-> IF indexed THEN SubSeq(f, i + 1, indexEnd - 1) ELSE "next",
         wrong |-> indexed /\ (Char(f, indexEnd) # "]" \/ indexEnd = i + 1),
         flags |-> CharSet(SubSeq(f, flagsAt, widthAt - 1)),
         width |-> Natural(SubSeq(f, widthAt, dotAt - 1)),
         precision |-> IF dotted THEN Natural(SubSeq(f, dotAt + 1, verbAt - 1)) ELSE -1,
         bare |-> verbAt - flagsAt,
         verb |-> Char(f, verbAt),
         at |-> verbAt + 1]

\* printf's padding: "-" puts the spaces behind, "0" is for numbers only.
Padded(text, d) ==
    LET spaces == Repeat(" ", Max({0, d.width - Len(text)}))
    IN  IF "-" \in d.flags THEN text \o spaces ELSE spaces \o text

\* printf's %s
AsString(text, d) ==
    Padded(IF d.precision >= 0 THEN SubSeq(text, 1, Min({d.precision, Len(text)})) ELSE text, d)

DigitOf(n) == Char(Digits \o Lowers, n + 1)
RECURSIVE Numeral(_, _)
Numeral(n, base) ==
    IF n < base THEN DigitOf(n) ELSE Numeral(n \div base, base) \o DigitOf(n % base)

AbsOf(n) == IF n < 0 THEN -n ELSE n

\* printf's integer verbs: at least as many digits as the precision says, and "0"
\* fills the width with digits when there is none.  The numbers %o and %x show are
\* unsigned: of a negative one they show the bits, which the models leave out.
BaseOf(verb) == CASE verb = "o" -> 8 [] verb \in {"x", "X"} -> 16 [] OTHER -> 10

FrontOf(n, d) ==
    CASE d.verb \in {"x", "X"} /\ "#" \in d.flags /\ n # 0 -> "0" \o d.verb
      [] d.verb # "d" -> ""
      [] n < 0 -> "-"
      [] "+" \in d.flags -> "+"
      [] " " \in d.flags -> " "
      [] OTHER -> ""

DigitsShown(n, d) ==
    LET octal == d.verb = "o" /\ "#" \in d.flags
        digits == Numeral(AbsOf(n), BaseOf(d.verb))
    IN  CASE n = 0 -> IF d.precision = 0 /\ ~octal THEN "" ELSE "0"
          [] d.verb = "X" -> Mapped(digits, Upper)
          [] octal -> "0" \o digits
          [] OTHER -> digits

AsInteger(n, d) ==
    LET padded(front, digits) ==
            LET zeros == IF d.precision >= 0 THEN d.precision - Len(digits)
                         ELSE IF "0" \in d.flags /\ "-" \notin d.flags
                              THEN d.width - Len(digits) - Len(front)
                         ELSE 0
            IN  Padded(front \o Repeat("0", zeros) \o digits, d)
    IN  padded(FrontOf(n, d), DigitsShown(n, d))

\* quote_str
GoQuoted(s) == "\"" \o Mapped(s, LAMBDA c : CASE c = "_" -> "\\x08" [] c = "\f" -> "\\x0c"
                                              [] c = "^" -> "\\x01" [] OTHER -> Escaped(c)) \o "\""

\* The verbs that show a value; those for fractions are left out.
Accepts(verb, v) ==
    CASE verb \in {"s", "v"} -> TRUE
      [] verb = "q" -> Kind(v) = "string"
      [] verb = "t" -> Kind(v) = "bool"
      [] verb \in {"d", "o", "x", "X", "b"} -> Kind(v) = "number"
      [] OTHER -> FALSE

\* One directive on its argument.  %v without a width is as %s; the code takes
\* the shortcut to the value's own text when a single character stands between
\* % and v, and that one is ignored.
Rendered(v, d) ==
    CASE d.verb = "v" /\ d.bare = 1 -> DefaultText(v)
      [] d.verb \in {"s", "v"} -> AsString(DefaultText(v), d)
      [] d.verb = "q" -> AsString(GoQuoted(v[2]), d)
      [] d.verb = "t" -> AsString(Text(v), d)
      [] d.verb \in {"d", "o", "x", "X"} -> AsInteger(v[2], d)
      [] d.verb = "b" -> AsString((IF v[2] < 0 THEN "-" ELSE "") \o Numeral(AbsOf(v[2]), 2), d)

\* The argument the directive after d takes when it names none.
NextArgument(d, next) == IF d.index = "next" THEN next + 1 ELSE next

\* bi_format from place i on; next is the argument that comes next.  Left out: that
\* the code keeps some 70 characters of a directive's flags, width and precision,
\* and that a result of more than 2^20 characters is an error.
RECURSIVE FormatFrom(_, _, _, _, _)
FormatFrom(f, i, args, next, out) ==
    LET using(d, use) ==
            CASE use \notin 1 .. Len(args) - 1 -> Error
              [] ~Accepts(d.verb, args[use + 1]) -> Error
              [] OTHER -> FormatFrom(f, d.at, args, NextArgument(d, next), out \o Rendered(args[use + 1], d))
        directed(d) == IF d.wrong THEN Error
                       ELSE using(d, IF d.index = "next" THEN next ELSE Natural(d.index))
    IN  CASE i > Len(f) -> Str(out)
          [] Char(f, i) # "%" -> FormatFrom(f, i + 1, args, next, out \o Char(f, i))
          [] Char(f, i + 1) = "%" -> FormatFrom(f, i + 2, args, next, out \o "%")
          [] OTHER -> directed(Directive(f, i + 1))

Format(args) == IF args # <<>> /\ Kind(args[1]) = "string" THEN FormatFrom(args[1][2], 1, args, 1, "") ELSE Error

\* bi_formatlist: element by element of the lists, which are of one length.
FormatList(args) ==
    LET lists == {i \in 2 .. Len(args) : IsSeq(args[i])}
        lengths == {Len(args[i][2]) : i \in lists}
        row(n) == [i \in DOMAIN args |-> IF i \in lists THEN args[i][2][n] ELSE args[i]]
        made(rows) == IF \E n \in DOMAIN rows : rows[n] = Error THEN Error ELSE Tuple(rows)
    IN  IF args = <<>> \/ Cardinality(lengths) > 1 THEN Error
        ELSE made([n \in 1 .. (IF lists = {} THEN 1 ELSE CHOOSE l \in lengths : TRUE) |-> Format(row(n))])

------------------------------------------------------------------------------
TextBuiltins == {"split", "join", "trim", "trimprefix", "trimsuffix", "trimspace", "chomp", "indent",
                 "substr", "strrev", "replace", "startswith", "endswith", "title", "upper", "lower",
                 "parseint", "sort", "transpose", "format", "formatlist", "jsonencode", "jsondecode",
                 "yamlencode", "yamldecode", "csvdecode"}

OfTwoTexts(f, s, t) ==
    CASE f = "split" -> Split(s, t)
      [] f = "trim" -> Str(Trim(s, CharSet(t)))
      [] f = "trimprefix" -> Str(IF StartsWith(s, t) THEN From(s, Len(t) + 1) ELSE s)
      [] f = "trimsuffix" -> Str(IF EndsWith(s, t) THEN SubSeq(s, 1, Len(s) - Len(t)) ELSE s)
      [] f = "startswith" -> Bool(StartsWith(s, t))
      [] f = "endswith" -> Bool(EndsWith(s, t))

OfText(f, s) ==
    CASE f = "trimspace" -> Str(Trim(s, SpaceChars))
      [] f = "chomp" -> Str(TrimRight(s, {"\n", "\r"}))
      [] f = "strrev" -> Str(Join(Reverse(Chars(s)), ""))
      [] f = "title" -> Title(s)
      [] f = "upper" -> Str(Mapped(s, Upper))
      [] f = "lower" -> Str(Mapped(s, Lower))
      [] f = "jsondecode" -> JsonDecode(s)
      [] f = "yamldecode" -> YamlDecode(s)
      [] f = "csvdecode" -> CsvDecode(s)

OnTexts(f, args) ==
    CASE f \in {"split", "trim", "trimprefix", "trimsuffix", "startswith", "endswith"} ->
             IF Takes(args, <<"string", "string">>) THEN OfTwoTexts(f, args[1][2], args[2][2]) ELSE Error
      [] f \in {"trimspace", "chomp", "strrev", "title", "upper", "lower",
                "jsondecode", "yamldecode", "csvdecode"} ->
             IF Takes(args, <<"string">>) THEN OfText(f, args[1][2]) ELSE Error
      [] f = "join" -> IF Takes(args, <<"string", "sequence">>) THEN JoinTexts(args[1][2], args[2][2]) ELSE Error
      [] f = "indent" -> IF Takes(args, <<"number", "string">>) THEN IndentText(args[1][2], args[2][2]) ELSE Error
      [] f = "substr" -> IF Takes(args, <<"string", "number", "number">>)
                         THEN Substr(args[1][2], args[2][2], args[3][2]) ELSE Error
      [] f = "replace" -> IF Takes(args, <<"string", "string", "string">>)
                          THEN Replace(args[1][2], args[2][2], args[3][2]) ELSE Error
      [] f = "parseint" -> IF Takes(args, <<"string", "number">>) THEN ParseInt(args[1][2], args[2][2]) ELSE Error
      [] f = "sort" -> IF Takes(args, <<"sequence">>) /\ AllTexts(args[1][2])
                       THEN Tuple(SortTexts(args[1][2])) ELSE Error
      [] f = "transpose" -> IF Takes(args, <<"keyed">>) THEN Transpose(args[1]) ELSE Error
      [] f = "format" -> Format(args)
      [] f = "formatlist" -> FormatList(args)
      [] f = "jsonencode" -> IF Takes(args, <<"any">>) THEN Str(JsonEmit(args[1])) ELSE Error
      [] f = "yamlencode" -> IF Takes(args, <<"any">>) THEN Str(EmitBlock(args[1], 0)) ELSE Error
=============================================================================
