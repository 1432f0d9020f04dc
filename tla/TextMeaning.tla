---------------------------- MODULE TextMeaning ----------------------------
(***************************************************************************)
(* What the library's functions on texts mean, without going through the   *)
(* characters: a decoder is described by how its values are written, an    *)
(* allocation by intervals of numbers, a date by counting days, a pattern  *)
(* by the places it can end at (where ** is any text, as in the code).     *)
(***************************************************************************)
EXTENDS Evaluator
LOCAL INSTANCE SequencesExt
LOCAL INSTANCE FiniteSetsExt

CONSTANTS
    Shown,      \* values that are written as YAML
    Tables,     \* rows of cells that are written as CSV
    Styles,     \* ways of writing YAML
    Formats     \* formats with arguments and what they show

\* An evaluation of a call of f on known arguments returns r, not a copy of the
\* answer before.
IsCall(x, f) == x[1] = "call" /\ x[2] = f /\ ~x[4]

------------------------------------------------------------------------------
(* What encoders keep. *)

RECURSIVE Unkinded(_)
Unkinded(v) ==
    CASE IsSeq(v) -> Tuple([i \in DOMAIN v[2] |-> Unkinded(v[2][i])])
      [] IsKeyed(v) -> Object([i \in DOMAIN v[2] |-> <<v[2][i][1], Unkinded(v[2][i][2])>>])
      [] OTHER -> v

Codecs == {<<"jsondecode", "jsonencode">>, <<"yamldecode", "yamlencode">>,
           <<"base64decode", "base64encode">>}

\* The texts in a value, a key with the colon behind it.
RECURSIVE TextsIn(_)
TextsIn(v) ==
    CASE IsSeq(v) -> UNION {TextsIn(v[2][i]) : i \in DOMAIN v[2]}
      [] IsKeyed(v) -> UNION {{v[2][i][1] \o ":"} \cup TextsIn(v[2][i][2]) : i \in DOMAIN v[2]}
      [] Kind(v) = "string" -> {v[2]}
      [] OTHER -> {}

\* yamldecode looks for comments and colons without regard to escaped quotes, and
\* does not know the escape that yamlencode has for control characters.
MisreadInYaml(s) ==
    \/ Occurs("^", s)
    \/ \E i, j \in 1 .. Len(s) : i < j /\ Char(s, i) = "\"" /\ Char(s, j) \in {"#", ":"}

\* A decoder gives back what its encoder wrote, whatever the value has in its
\* strings and keys; only the kinds of collections and the order of fields are lost.
\* yamldecode does for texts that it does not misread.
DecodesBack ==
    [][\A codec \in Codecs :
         IsCall(expr, codec[1]) /\ IsCall(expr[3][1], codec[2]) /\ answer' # answer =>
           LET v == Eval(expr[3][1][3][1], vars)
           IN  /\ WhollyKnown(v)
               /\ codec[1] = "yamldecode" => ~\E s \in TextsIn(v) : MisreadInYaml(s)
               => Whole(answer') = Whole(Unkinded(v))]_state

------------------------------------------------------------------------------
(* JSON by the tokens of a text, which blanks separate. *)

TokenMeaning(t) ==
    CASE t = "1" -> Number(1)
      [] t = "-20" -> Number(-20)
      [] t = "true" -> Bool(TRUE)
      [] t = "null" -> Null
      [] t = "\"a\"" -> Str("a")
      [] t = "\"\\n\\\"\"" -> Str("\n\"")
      [] t = "\"\\u00e9\"" -> Str("<195><169>")
      [] t = "\"\\u20aCb\"" -> Str("<226><130><172>b")
      [] OTHER -> Error

Count(w, tokens) == Cardinality({i \in DOMAIN w : w[i] \in tokens})

\* The parts of w between the commas outside of all brackets.
PartsOf(w) ==
    LET commas == {i \in DOMAIN w : w[i] = "," /\ Count(SubSeq(w, 1, i), {"[", "{"})
                                                       = Count(SubSeq(w, 1, i), {"]", "}"})}
        cuts == <<0>> \o SetToSortSeq(commas, <) \o <<Len(w) + 1>>
    IN  [n \in 1 .. Len(cuts) - 1 |-> SubSeq(w, cuts[n] + 1, cuts[n + 1] - 1)]

RECURSIVE JsonMeaning(_)
JsonMeaning(w) ==
    LET inner == SubSeq(w, 2, Len(w) - 1)
        parts == IF inner = <<>> THEN <<>> ELSE PartsOf(inner)
        items == [i \in DOMAIN parts |-> JsonMeaning(parts[i])]
        isField(p) == Len(p) > 2 /\ Kind(TokenMeaning(p[1])) = "string" /\ p[2] = ":"
        fields == [i \in DOMAIN parts |-> JsonMeaning(SubSeq(parts[i], 3, Len(parts[i])))]
    IN  CASE Len(w) = 1 -> TokenMeaning(w[1])
          [] Len(w) > 1 /\ w[1] = "[" /\ w[Len(w)] = "]" ->
                 IF Failed(items) THEN Error ELSE Tuple(items)
          [] Len(w) > 1 /\ w[1] = "{" /\ w[Len(w)] = "}" ->
                 IF (\E i \in DOMAIN parts : ~isField(parts[i])) \/ Failed(fields) THEN Error
                 ELSE FoldLeft(LAMBDA obj, i : ObjectSet(obj, TokenMeaning(parts[i][1])[2], fields[i]),
                               Object(<<>>), [i \in DOMAIN parts |-> i])
          [] OTHER -> Error

------------------------------------------------------------------------------
(* YAML by how a value is written: the lines of v in a style.  A style says *)
(* how collections nest, how strings are quoted, how far a level is         *)
(* indented and whether lines end in a comment.                             *)

\* Strings that would be something else without quotes.
NeedsQuotes(s) == s \in {"", "7", "true", "a: b", "a # b", "it's", "[x", "- x", "&x"}

InlineText(v, quote) ==
    LET s == v[2] IN
    CASE Kind(v) = "null" -> "null"
      [] Kind(v) # "string" -> Text(v)
      [] quote = "single" -> "'" \o Join(Pieces(s, "'"), "''") \o "'"
      [] quote = "double" \/ NeedsQuotes(s) -> "\"" \o s \o "\""
      [] OTHER -> s

RECURSIVE Inline(_, _)
Inline(v, quote) ==
    CASE IsSeq(v) -> "[" \o Join([i \in DOMAIN v[2] |-> Inline(v[2][i], quote)], ", ") \o "]"
      [] IsKeyed(v) -> "{" \o Join([i \in DOMAIN v[2] |->
                                     v[2][i][1] \o ": " \o Inline(v[2][i][2], quote)], ", ") \o "}"
      [] OTHER -> InlineText(v, quote)

IsFlat(v, style) == ~(IsSeq(v) \/ IsKeyed(v)) \/ v[2] = <<>> \/ style.nest = "flow"
IsFolded(v) == Kind(v) = "string" /\ Occurs("\n", v[2])

Shifted(lines, n) == [i \in DOMAIN lines |-> Repeat(" ", n) \o lines[i]]

\* A string of several lines, after the header that says how it ends.
Literal(s) ==
    IF Char(s, Len(s)) = "\n" THEN <<"|">> \o Pieces(SubSeq(s, 1, Len(s) - 1), "\n")
    ELSE <<"|-">> \o Pieces(s, "\n")

RECURSIVE LinesOf(_, _)
LinesOf(v, style) ==
    LET under(mark, x, step) ==
            LET lines == LinesOf(x, style)
            IN  CASE IsFolded(x) -> <<mark \o " " \o Literal(x[2])[1]>>
                                        \o Shifted(Tail(Literal(x[2])), style.indent)
                  [] IsFlat(x, style) -> <<mark \o " " \o lines[1]>>
                  [] mark = "-" /\ style.nest = "compact" ->
                         <<"- " \o lines[1]>> \o Shifted(Tail(lines), 2)
                  [] OTHER -> <<mark>> \o Shifted(lines, step)
    IN  CASE IsFlat(v, style) -> <<Inline(v, style.quote)>>
          [] IsSeq(v) -> FlattenSeq([i \in DOMAIN v[2] |-> under("-", v[2][i], style.indent)])
          [] OTHER -> FlattenSeq([i \in DOMAIN v[2] |->
                 under(v[2][i][1] \o ":", v[2][i][2],
                       IF IsSeq(v[2][i][2]) /\ style.nest = "compact" THEN 0 ELSE style.indent)])

\* A comment can end every line; before it comes a blank.
YamlText(v, style) ==
    LET lines == LinesOf(v, style)
        noted == IF style.comment THEN <<"# first">> \o [i \in DOMAIN lines |-> lines[i] \o " # it's"]
                 ELSE lines
    IN  Join(noted, "\n") \o "\n"

RECURSIVE HasFolded(_)
HasFolded(v) ==
    CASE IsSeq(v) -> \E i \in DOMAIN v[2] : HasFolded(v[2][i])
      [] IsKeyed(v) -> \E i \in DOMAIN v[2] : HasFolded(v[2][i][2])
      [] OTHER -> IsFolded(v)

\* The texts that are YAML for a value, each with the value.
YamlWritten == {<<YamlText(v, style), v>> : v \in {x \in Shown : ~HasFolded(x)}, style \in Styles}
    \cup {<<YamlText(v, style), v>> :
            v \in {x \in Shown : HasFolded(x)}, style \in {s \in Styles : ~s.comment /\ s.nest # "flow"}}

\* A map that takes the fields of an anchored one: its own win, wherever the merge
\* stands.
MergeText(base, own, last) ==
    LET fields == [i \in DOMAIN own[2] |-> "  " \o own[2][i][1] \o ": " \o Inline(own[2][i][2], "single")]
        merge == <<"  <<: *b">>
    IN  Join(<<"base: &b " \o Inline(base, "single"), "use:">>
                 \o (IF last THEN fields \o merge ELSE merge \o fields), "\n")

MergeValue(base, own) ==
    Object(<< <<"base", base>>,
              <<"use", Object(own[2] \o SelectSeq(base[2], LAMBDA f : Get(own, f[1]) = Error))>> >>)

MergeWritten ==
    LET maps == {x \in Shown : IsKeyed(x) /\ ~HasFolded(x)}
        flat == {x \in maps : \A i \in DOMAIN x[2] : ~IsSeq(x[2][i][2]) /\ ~IsKeyed(x[2][i][2])}
    IN  {<<MergeText(base, own, last), MergeValue(base, own)>> : base \in maps, own \in flat, last \in BOOLEAN}

(* CSV by how a table is written. *)
CsvText(rows, quoted, eol, last) ==
    LET cell(s) == IF quoted \/ (\E c \in {",", "\"", "\n"} : Occurs(c, s))
                   THEN "\"" \o Join(Pieces(s, "\""), "\"\"") \o "\"" ELSE s
        line(row) == Join([i \in DOMAIN row |-> cell(row[i])], ",")
    IN  Join([i \in DOMAIN rows |-> line(rows[i])], eol) \o (IF last THEN eol ELSE "")

\* The first row names the columns.
TableValue(rows) ==
    Tuple([n \in 1 .. Len(rows) - 1 |->
             Object([i \in DOMAIN rows[1] |-> <<rows[1][i], Str(rows[n + 1][i])>>])])

CsvWritten == {<<CsvText(rows, quoted, eol, last), TableValue(rows)>> :
                 rows \in Tables, quoted \in BOOLEAN, eol \in {"\n", "\r\n"}, last \in BOOLEAN}

\* A text decodes to the value it was written for, however it was written, and a
\* JSON text that was written for none is an error.
DecodesMeaning ==
    [][expr[1] = "call" /\ expr[3][1][1] = "lit" /\ answer' # answer =>
         LET s == expr[3][1][2][2]
         IN  /\ IsCall(expr, "jsondecode") => answer' = JsonMeaning(Pieces(s, " "))
             /\ IsCall(expr, "yamldecode") =>
                    \A way \in YamlWritten : way[1] = s => answer' = way[2]
             /\ IsCall(expr, "yamldecode") =>
                    \A way \in MergeWritten : way[1] = s => Whole(answer') = Whole(way[2])
             /\ IsCall(expr, "csvdecode") =>
                    \A way \in CsvWritten : way[1] = s => answer' = way[2]]_state

------------------------------------------------------------------------------
(* Subnets by intervals: a block of a prefix is a range of the numbers its   *)
(* bits can be, counted in the smallest blocks asked for.                    *)

\* The number that bits from + 1 to to of an address are.
Field(ip, from, to) == FoldLeft(LAMBDA n, b : 2 * n + b, 0, SubSeq(ip, from + 1, to))

\* Where each of blocks of some sizes begins when each is put at the first multiple
\* of its size that is free.
Placed(sizes) ==
    LET roundUp(n, size) == ((n + size - 1) \div size) * size
        begin[i \in 1 .. Len(sizes)] ==
            IF i = 1 THEN 0 ELSE roundUp(begin[i - 1] + sizes[i - 1], sizes[i])
    IN  begin

\* p is the block number n of those with more bits that parent has, all zero after it.
IsBlock(p, parent, more, n) ==
    /\ p.plen = parent.plen + more
    /\ SubSeq(p.ip, 1, parent.plen) = SubSeq(parent.ip, 1, parent.plen)
    /\ Field(p.ip, parent.plen, p.plen) = n
    /\ \A b \in p.plen + 1 .. Len(p.ip) : p.ip[b] = 0

SubnetsMean(parent, newbits, r) ==
    LET most == Max({newbits[i] : i \in DOMAIN newbits})
        sizes == [i \in DOMAIN newbits |-> 2 ^ (most - newbits[i])]
        begin == Placed(sizes)
        n == Len(newbits)
    IN  n > 0 /\ parent.plen + most <= Len(parent.ip) /\ begin[n] + sizes[n] <= 2 ^ most =>
            /\ Len(r[2]) = n
            /\ \A i \in 1 .. n :
                 IsBlock(PrefixOf(r[2][i][2]), parent, newbits[i], begin[i] \div sizes[i])

\* Subnets of a prefix are blocks inside it: the one of a given number, or, asked for
\* by their sizes, each the first that is free and aligned, as long as they fit; a
\* host is that many addresses after the first; and the texts of addresses say
\* which they are.
SubnetsFit ==
    [][expr[1] = "call" /\ expr[2] \in AddressBuiltins /\ answer' # answer /\ answer' # Error =>
         LET args == EvalAll(expr[3], vars)
             parent == PrefixOf(args[1][2])
             number(i) == args[i][2]
         IN  CASE expr[2] = "cidrsubnets" ->
                    SubnetsMean(parent, [i \in 1 .. Len(args) - 1 |-> number(i + 1)], answer')
               [] expr[2] = "cidrsubnet" ->
                    IsBlock(PrefixOf(answer'[2]), parent, number(2), number(3))
               [] expr[2] = "cidrhost" ->
                    LET host == PrefixOf(answer'[2] \o "/" \o ToString(Len(parent.ip)))
                        within == Len(parent.ip) - parent.plen
                    IN  within < 31 /\ number(2) < 2 ^ within =>
                            IsBlock(host, parent, within, number(2))
               [] expr[2] = "cidrnetmask" ->
                    LET mask == PrefixOf(answer'[2] \o "/32").ip
                    IN  \A b \in 1 .. 32 : (mask[b] = 1) <=> (b <= parent.plen)]_state

------------------------------------------------------------------------------
(* Dates by counting: the days of the months and years before.               *)

\* Days since the first of January of the year 1.
DayCount(y, m, d) ==
    365 * (y - 1) + (y - 1) \div 4 - (y - 1) \div 100 + (y - 1) \div 400
        + FoldLeft(LAMBDA n, k : n + MonthDays(y, k), 0, [k \in 1 .. m - 1 |-> k]) + d - 1

\* What a timestamp in the usual form says, by its columns.
StampFields(s) ==
    LET at(i, j) == Natural(SubSeq(s, i, j))
        off == IF Char(s, 20) = "Z" THEN 0 ELSE at(21, 22) * 60 + at(24, 25)
    IN  [day |-> DayCount(at(1, 4), at(6, 7), at(9, 10)), month |-> at(6, 7), dayOfMonth |-> at(9, 10),
         minute |-> at(12, 13) * 60 + at(15, 16), second |-> at(18, 19),
         off |-> IF Char(s, 20) = "-" THEN -off ELSE off,
         good |-> at(6, 7) \in 1 .. 12 /\ at(9, 10) \in 1 .. MonthDays(at(1, 4), at(6, 7))
                      /\ at(12, 13) < 24 /\ at(15, 16) < 60 /\ at(18, 19) < 60]

\* A moment in days, minutes and seconds of UTC.
UtcOf(f) == LET minutes == f.minute - f.off
            IN  <<f.day + minutes \div 1440, minutes % 1440, f.second>>

\* The moment some seconds later.
Shift(utc, seconds) ==
    LET s == utc[3] + seconds
        m == utc[2] + s \div 60
    IN  <<utc[1] + m \div 1440, m % 1440, s % 60>>

FormatOfAll == "EEE hh:mm:ss YYYY-MM-DD ZZZZ H AA"

ShownAs(s, r) ==
    LET f == StampFields(s)
        hour == f.minute \div 60
    IN  /\ SubSeq(r, 1, 3) = SubSeq(DayNames[((f.day + 1) % 7) + 1], 1, 3)
        /\ SubSeq(r, 5, 12) = SubSeq(s, 12, 19)
        /\ SubSeq(r, 14, 23) = SubSeq(s, 1, 10)
        /\ SubSeq(r, 25, 30) = IF Char(s, 20) = "Z" THEN "+00:00" ELSE SubSeq(s, 20, 25)
        /\ From(r, 32) = ToString(((hour + 11) % 12) + 1) \o (IF hour < 12 THEN " AM" ELSE " PM")

\* timeadd gives the moment that many seconds later as a date that exists, in the
\* zone it was given in; timecmp orders moments, not texts; formatdate shows the
\* date and the time as they were given, with the right day of the week.
DatesAgree ==
    [][expr[1] = "call" /\ expr[2] \in DateBuiltins /\ answer' # answer /\ answer' # Error =>
         LET first == expr[3][1][2][2]
             second == expr[3][2][2][2]
             f == StampFields(first)
             r == StampFields(answer'[2])
             before(a, b) == a[1] < b[1] \/ (a[1] = b[1] /\ (a[2] < b[2] \/ (a[2] = b[2] /\ a[3] < b[3])))
         IN  CASE expr[2] = "timeadd" ->
                    r.good /\ r.off = f.off /\ UtcOf(r) = Shift(UtcOf(f), Duration(second)[1])
               [] expr[2] = "timecmp" ->
                    LET a == UtcOf(f)
                        b == UtcOf(StampFields(second))
                    IN  answer' = Number(CASE before(a, b) -> -1 [] before(b, a) -> 1 [] OTHER -> 0)
               [] expr[2] = "formatdate" -> first = FormatOfAll => ShownAs(second, answer'[2])]_state

------------------------------------------------------------------------------
(* Texts by their places. *)

\* The places where sep is cut out of s: from the left, without overlaps.
CutPlaces(s, sep) ==
    LET hits == {i \in 1 .. Len(s) : IsAt(s, i, sep)}
    IN  CHOOSE c \in SUBSET hits :
            /\ \A i, j \in c : i < j => i + Len(sep) <= j
            /\ \A h \in hits : \E i \in c : i <= h /\ h < i + Len(sep)

\* Each character of s, or what stands for it, in order.
Spelled(s, Of(_)) == FoldLeft(LAMBDA w, i : w \o Of(i), "", [i \in 1 .. Len(s) |-> i])

ReplaceMeans(s, old, new, r) ==
    LET cuts == CutPlaces(s, old)
        at(i) == CASE i \in cuts -> new
                   [] \E c \in cuts : c < i /\ i < c + Len(old) -> ""
                   [] OTHER -> Char(s, i)
    IN  r = Spelled(s, at)

SplitMeans(sep, s, pieces) ==
    LET cuts == SetToSortSeq(CutPlaces(s, sep) \cup {Len(s) + 1}, <)
    IN  /\ Len(pieces) = Len(cuts)
        /\ \A n \in DOMAIN cuts :
             pieces[n] = Str(SubSeq(s, IF n = 1 THEN 1 ELSE cuts[n - 1] + Len(sep), cuts[n] - 1))

SubstrMeans(s, offset, length, r) ==
    LET from == IF offset >= 0 THEN offset ELSE Max({0, Len(s) + offset})
        at(i) == IF i > from /\ (length < 0 \/ i <= from + length) THEN Char(s, i) ELSE ""
    IN  r = Spelled(s, at)

Sorted(items) == \A i, j \in DOMAIN items : i < j => ~Before(items[j][2], items[i][2])

SortMeans(items, r) ==
    /\ Sorted(r)
    /\ \A el \in Range(items) \cup Range(r) : Count(r, {el}) = Count(items, {el})

TransposeMeans(v, r) ==
    /\ \A i \in DOMAIN v[2] : \A el \in Range(v[2][i][2][2]) :
         Get(r, el[2]) # Error /\ Str(v[2][i][1]) \in Range(Get(r, el[2])[2])
    /\ \A i \in DOMAIN r[2] :
         /\ Sorted(r[2][i][2][2]) /\ IsInjective(r[2][i][2][2])
         /\ \A el \in Range(r[2][i][2][2]) : Str(r[2][i][1]) \in Range(Get(v, el[2])[2])

\* A format is a row of directives between bars, each a record; a directive without
\* an index takes the argument after those that others without one took.
DirectiveText(d) ==
    "%" \o (IF d.index = 0 THEN "" ELSE "[" \o ToString(d.index) \o "]") \o d.flag
        \o (IF d.width = 0 THEN "" ELSE ToString(d.width)) \o d.verb

ShownBy(d, v) ==
    LET text == IF d.verb = "q" THEN "\"" \o Text(v) \o "\"" ELSE Text(v)
        fill == d.width - Len(text)
    IN  CASE d.flag = "-" -> text \o Repeat(" ", fill)
          [] d.flag = "0" /\ v[2] < 0 -> "-" \o Repeat("0", fill) \o ToString(-v[2])
          [] d.flag = "0" -> Repeat("0", fill) \o text
          [] OTHER -> Repeat(" ", fill) \o text

FormatWritten(directives, args) ==
    LET taken(i) == IF directives[i].index # 0 THEN directives[i].index
                    ELSE Cardinality({j \in 1 .. i : directives[j].index = 0})
    IN  <<Join([i \in DOMAIN directives |-> DirectiveText(directives[i])], "|"), args,
          Join([i \in DOMAIN directives |-> ShownBy(directives[i], args[taken(i)])], "|")>>

------------------------------------------------------------------------------
(* Paths by where they lead, patterns by where they can end. *)

\* Up so many directories, then down through some: a ".." undoes a name.
Leads(path) ==
    FoldLeft(LAMBDA w, name :
               CASE name \in {"", "."} -> w
                 [] name = ".." /\ w.down # <<>> -> [w EXCEPT !.down = Front(@)]
                 [] name = ".." -> [w EXCEPT !.up = IF Char(path, 1) = "/" THEN 0 ELSE @ + 1]
                 [] OTHER -> [w EXCEPT !.down = Append(@, name)],
             [rooted |-> Char(path, 1) = "/", up |-> 0, down |-> <<>>], Pieces(path, "/"))

\* The shortest text that leads there.
PathText(w) ==
    LET names == [i \in 1 .. w.up |-> ".."] \o w.down
    IN  IF names = <<>> THEN (IF w.rooted THEN "/" ELSE ".")
        ELSE (IF w.rooted THEN "/" ELSE "") \o Join(names, "/")

\* The patterns without braces, from the innermost brace on.
RECURSIVE Unbraced(_)
Unbraced(p) ==
    LET open == Max({0} \cup {i \in 1 .. Len(p) : Char(p, i) = "{"})
        close == Find(p, open + 1, {"}"})
    IN  IF open = 0 THEN {p}
        ELSE UNION {Unbraced(SubSeq(p, 1, open - 1) \o alternative \o From(p, close + 1)) :
                      alternative \in Range(Pieces(SubSeq(p, open + 1, close - 1), ","))}

RECURSIVE PatternTokens(_)
PatternTokens(p) ==
    LET n == CASE p = "" -> 0
               [] SubSeq(p, 1, Min({3, Len(p)})) = "**/" -> 3
               [] SubSeq(p, 1, Min({2, Len(p)})) = "**" -> 2
               [] Char(p, 1) = "[" -> Find(p, 3, {"]"})
               [] OTHER -> 1
    IN  IF p = "" THEN <<>> ELSE <<SubSeq(p, 1, n)>> \o PatternTokens(From(p, n + 1))

InClass(c, class) ==
    LET negated == Char(class, 2) \in {"^", "!"}
        members == SubSeq(class, IF negated THEN 3 ELSE 2, Len(class) - 1)
        range == SubSeq(members, 2, Min({2, Len(members)})) = "-"
        within == IF range THEN Occurs(c, Lowers) /\ PlaceIn(Char(members, 1), Lowers) <= PlaceIn(c, Lowers)
                                    /\ PlaceIn(c, Lowers) <= PlaceIn(Char(members, 3), Lowers)
                  ELSE Occurs(c, members)
    IN  within # negated

StartsSegment(s, i) == i = 1 \/ Char(s, i - 1) = "/"

\* Where a match of a token that begins at place i of s ends.  ** is any number
\* of whole segments, **/ any number of segments that each have their slash; what
\* ** means behind a part of a segment nobody says.
TokenEnds(token, s, i) ==
    LET one == IF i <= Len(s) /\ Char(s, i) # "/" THEN {i + 1} ELSE {}
    IN  CASE token \in {"**", "**/"} /\ ~StartsSegment(s, i) -> {}
          [] token = "**" -> {i} \cup {j \in i .. Len(s) + 1 : Char(s, j) \in {"", "/"}}
          [] token = "**/" -> {j \in i .. Len(s) + 1 : StartsSegment(s, j)}
          [] token = "*" -> {j \in i .. Len(s) + 1 : ~Occurs("/", SubSeq(s, i, j - 1))}
          [] token = "?" -> one
          [] Char(token, 1) = "[" -> IF one # {} /\ InClass(Char(s, i), token) THEN one ELSE {}
          [] OTHER -> IF Char(s, i) = token THEN {i + 1} ELSE {}

PatternMatches(p, s) ==
    \E q \in Unbraced(p) :
        Len(s) + 1 \in FoldLeft(LAMBDA places, token : UNION {TokenEnds(token, s, i) : i \in places},
                                {1}, PatternTokens(q))

\* No **/ stands before something that could match from inside a segment on, as
\* the b of **/b matches the end of ab: there the code finds too much.
KeepsSegments(p) ==
    \A q \in Unbraced(p) :
        LET tokens == PatternTokens(q)
        IN  \A i \in DOMAIN tokens :
                tokens[i] = "**/" => i < Len(tokens) /\ tokens[i + 1] \in {"*", "**", "**/"}

\* The encodings of one character that Unicode allows.
WellFormed(b) ==
    LET tail(k) == \A i \in k .. Len(b) : b[i] \in 128 .. 191
    IN  CASE Len(b) = 1 -> b[1] < 128
          [] Len(b) = 2 -> b[1] \in 194 .. 223 /\ tail(2)
          [] Len(b) = 3 -> b[1] \in 224 .. 239 /\ tail(2) /\ (b[1] = 224 => b[2] >= 160)
                               /\ (b[1] = 237 => b[2] <= 159)
          [] Len(b) = 4 -> b[1] \in 240 .. 244 /\ tail(2) /\ (b[1] = 240 => b[2] >= 144)
                               /\ (b[1] = 244 => b[2] <= 143)

RECURSIVE IsUtf8(_)
IsUtf8(bytes) ==
    bytes = <<>> \/ \E n \in 1 .. Min({4, Len(bytes)}) :
                        WellFormed(SubSeq(bytes, 1, n)) /\ IsUtf8(SubSeq(bytes, n + 1, Len(bytes)))

------------------------------------------------------------------------------
TextMeans(f, args, r) ==
    LET a(i) == args[i][2]
    IN  CASE f = "split" -> a(1) # "" => SplitMeans(a(1), a(2), r[2])
          [] f = "replace" -> a(2) # "" => ReplaceMeans(a(1), a(2), a(3), r[2])
          [] f = "substr" -> SubstrMeans(a(1), a(2), a(3), r[2])
          [] f = "sort" -> SortMeans(a(1), r[2])
          [] f = "transpose" -> TransposeMeans(args[1], r)
          [] f = "parseint" -> Numeral(AbsOf(r[2]), a(2))
                                   = TrimLeft(Spelled(a(1), LAMBDA i : Lower(Char(a(1), i))), {"-", "+", "0"})
                                         \o (IF r[2] = 0 THEN "0" ELSE "")
          [] f = "trim" -> \E i \in 1 .. Len(a(1)) + 1 :
                 LET j == i + Len(r[2]) IN
                 /\ SubSeq(a(1), i, j - 1) = r[2]
                 /\ \A k \in (1 .. i - 1) \cup (j .. Len(a(1))) : Occurs(Char(a(1), k), a(2))
                 /\ r[2] # "" => ~Occurs(Char(r[2], 1), a(2)) /\ ~Occurs(Char(r[2], Len(r[2])), a(2))
          [] f = "abspath" -> r[2] = PathText(Leads(IF Char(a(1), 1) = "/" THEN a(1)
                                                    ELSE WorkDir \o "/" \o a(1)))
          [] f = "dirname" -> r[2] = PathText(Leads(SubSeq(a(1), 1, LastSlash(a(1)))))
          [] f = "basename" -> r[2] \notin {".", "/"} =>
                 ~Occurs("/", r[2]) /\ EndsWith(TrimRight(a(1), {"/"}), r[2])
          [] f = "fileset" ->
                 LET below == SelectSeq(Below(a(1)), LAMBDA file : file.regular)
                     paths == {below[i].path : i \in DOMAIN below}
                     meant == {Str(path) : path \in {s \in paths : PatternMatches(a(2), s)}}
                 IN  /\ meant \subseteq SetOf(r) /\ SetOf(r) \subseteq {Str(path) : path \in paths}
                     /\ KeepsSegments(a(2)) => SetOf(r) = meant
          [] f = "file" -> \A i \in DOMAIN Files : Files[i].path = a(1) => IsUtf8(Files[i].bytes)
          [] OTHER -> TRUE

\* The functions on texts and paths return what their arguments say place by place,
\* at the edges too: overlapping separators, offsets outside, text that is all
\* margin, a path that leaves its directory, directives that pad or pick.  A pattern
\* of fileset finds every file it means, and no other if it KeepsSegments.
TextsMean ==
    [][expr[1] = "call" /\ expr[2] \in TextBuiltins \cup PathBuiltins /\ answer' # answer =>
         LET args == EvalAll(expr[3], vars)
         IN  /\ answer' # Error => TextMeans(expr[2], args, answer')
             /\ expr[2] = "format" =>
                    \A way \in Formats : Str(way[1]) = args[1] /\ way[2] = Tail(args) => answer' = Str(way[3])
             /\ expr[2] = "file" /\ answer' = Error =>
                    \A i \in DOMAIN Files : Files[i].path = args[1][2] => ~IsUtf8(Files[i].bytes)]_state

=============================================================================
