------------------------------- MODULE Dates -------------------------------
(***************************************************************************)
(* timeadd, timecmp and formatdate: the texts of timestamps, durations and *)
(* formats around Calendar.  A scan is a record of what was read and where *)
(* it goes on, 0 when the text does not fit.                               *)
(***************************************************************************)
EXTENDS Strings, Calendar
LOCAL INSTANCE SequencesExt

DigitsEnd(s, i) == Skip(s, i, {Char(Digits, d) : d \in 1 .. 10})
BehindSign(s, i) == IF Char(s, i) \in {"+", "-"} THEN i + 1 ELSE i

\* %d of sscanf: blanks, a sign and digits, at most width characters of the last
\* two.
IntAt(s, i, width) ==
    LET number(first, digits, at) ==
            LET value == Natural(SubSeq(s, digits, at - 1))
            IN  IF at <= digits THEN [at |-> 0, v |-> 0]
                ELSE [at |-> at, v |-> IF Char(s, first) = "-" THEN -value ELSE value]
        limited(first, digits) ==
            number(first, digits, Min({first + width, DigitsEnd(s, digits)}))
        signed(first) == limited(first, BehindSign(s, first))
    IN  signed(Skip(s, i, {" "}))

\* Numbers with a character after each but the last.
RECURSIVE FieldsAt(_, _, _, _)
FieldsAt(s, i, marks, width) ==
    LET before(n, others) == [at |-> others.at, v |-> <<n.v>> \o others.v]
        first(n) == CASE n.at = 0 -> [at |-> 0, v |-> <<>>]
                      [] marks = <<>> -> [at |-> n.at, v |-> <<n.v>>]
                      [] Char(s, n.at) # marks[1] -> [at |-> 0, v |-> <<>>]
                      [] OTHER -> before(n, FieldsAt(s, n.at + 1, Tail(marks), width))
    IN  first(IntAt(s, i, width))

\* The fraction of a second is read and dropped.
AfterFraction(s, i) ==
    LET after == DigitsEnd(s, i + 1)
    IN  CASE Char(s, i) # "." -> i
          [] after = i + 1 -> 0
          [] OTHER -> after

\* The zone at i, in seconds ahead of UTC.
ZoneAt(s, i) ==
    LET offset(fields) ==
            LET size == fields.v[1] * 3600 + fields.v[2] * 60
            IN  CASE fields.at # i + 6 -> [at |-> 0, v |-> 0]
                  [] fields.v[1] > 23 \/ fields.v[2] > 59 -> [at |-> 0, v |-> 0]
                  [] OTHER -> [at |-> i + 6, v |-> IF Char(s, i) = "-" THEN -size ELSE size]
    IN  CASE Char(s, i) \in {"Z", "z"} -> [at |-> i + 1, v |-> 0]
          [] Char(s, i) \in {"+", "-"} -> offset(FieldsAt(s, i + 1, <<":">>, 2))
          [] OTHER -> [at |-> 0, v |-> 0]

NoTime == [moment |-> <<>>, off |-> 0]

MomentOf(f, off) ==
    Later(<<DaysFromCivil(f[1], f[2], f[3]), 0>>, f[4] * 3600 + f[5] * 60 + f[6] - off)

\* rfc3339_parse: only some fields are bounded below.
Timestamp(s) ==
    LET inZone(f, zone) ==
            IF zone.at # Len(s) + 1 THEN NoTime ELSE [moment |-> MomentOf(f, zone.v), off |-> zone.v]
        behind(f, fraction) == IF fraction = 0 THEN NoTime ELSE inZone(f, ZoneAt(s, fraction))
        bounded(f, at) ==
            CASE at = 0 -> NoTime
              [] f[2] \notin 1 .. 12 \/ f[3] \notin 1 .. 31 \/ f[4] > 23 \/ f[5] > 59 \/ f[6] > 60 -> NoTime
              [] OTHER -> behind(f, AfterFraction(s, at))
        checked(fields) == bounded(fields.v, fields.at)
    IN  checked(FieldsAt(s, 1, <<"-", "-", "T", ":", ":">>, 9))

\* %0nd
Zeros(n, width) ==
    LET digits == ToString(IF n < 0 THEN -n ELSE n)
        sign == IF n < 0 THEN "-" ELSE ""
    IN  sign \o Repeat("0", width - Len(sign \o digits)) \o digits

ZoneText(off, colon) ==
    LET size == IF off < 0 THEN -off ELSE off
    IN  (IF off < 0 THEN "-" ELSE "+") \o Zeros(size \div 3600, 2) \o colon
            \o Zeros((size % 3600) \div 60, 2)

\* rfc3339_format
TimestampText(moment, off) ==
    LET w == Wall(moment, off)
    IN  Zeros(w.date[1], 4) \o "-" \o Zeros(w.date[2], 2) \o "-" \o Zeros(w.date[3], 2)
            \o "T" \o Zeros(w.hour, 2) \o ":" \o Zeros(w.minute, 2) \o ":" \o Zeros(w.second, 2)
            \o (IF off = 0 THEN "Z" ELSE ZoneText(off, ":"))

------------------------------------------------------------------------------
\* Units in seconds, or in parts of a second by their number of decimals.
UnitNames == <<"ns", "us", "<194><181>s", "ms", "s", "m", "h">>
UnitSeconds == <<1, 1, 1, 1, 1, 60, 3600>>
UnitDecimals == <<9, 6, 6, 3, 0, 0, 0>>

\* Decimal arithmetic stands for that of doubles: seconds and nanoseconds.
PlusTime(a, b) ==
    <<a[1] + b[1] + (a[2] + b[2]) \div 1000000000, (a[2] + b[2]) % 1000000000>>
MinusTime(a) == PlusTime(<<-a[1] - 1, 1000000000 - a[2] - 1>>, <<0, 1>>)

\* Amount and unit at i.  Left out: the other ways strtod lets an amount be
\* written, with an exponent, in hexadecimal, as inf or nan.
TermAt(s, i) ==
    LET parted(total, parts) == <<total \div parts, (total % parts) * (1000000000 \div parts)>>
        size(digits, decimals, unit) ==
            parted(Natural(digits) * UnitSeconds[unit], 10 ^ (decimals + UnitDecimals[unit]))
        term(first, digits, decimals, at, units) ==
            IF digits = "" \/ units = {} THEN [at |-> 0, v |-> <<0, 0>>]
            ELSE LET unit == Min(units)
                     v == size(digits, decimals, unit)
                 IN  [at |-> at + Len(UnitNames[unit]),
                      v |-> IF Char(s, first) = "-" THEN MinusTime(v) ELSE v]
        amount(first, from, point, at) ==
            term(first, SubSeq(s, from, point - 1) \o SubSeq(s, point + 1, at - 1),
                 Max({0, at - point - 1}), at, {u \in 1 .. 7 : IsAt(s, at, UnitNames[u])})
        pointed(first, from, point) ==
            amount(first, from, point, IF Char(s, point) = "." THEN DigitsEnd(s, point + 1) ELSE point)
        signed(first, from) == pointed(first, from, DigitsEnd(s, from))
        start(first) == signed(first, BehindSign(s, first))
    IN  start(Skip(s, i, {" "}))

RECURSIVE TermsAt(_, _, _)
TermsAt(s, i, sum) ==
    LET with(term) == IF term.at = 0 THEN <<>> ELSE TermsAt(s, term.at, PlusTime(sum, term.v))
    IN  IF i > Len(s) THEN sum ELSE with(TermAt(s, i))

NoDuration == <<>>

\* duration_parse, its seconds and nanoseconds.
Duration(s) ==
    LET first == BehindSign(s, 1)
        signed(sum) == CASE Len(s) < first \/ sum = <<>> -> NoDuration
                         [] Char(s, 1) = "-" -> MinusTime(sum)
                         [] OTHER -> sum
    IN  signed(IF From(s, first) = "0" THEN <<0, 0>> ELSE TermsAt(s, first, <<0, 0>>))

------------------------------------------------------------------------------
MonthNames == <<"January", "February", "March", "April", "May", "June", "July", "August",
                "September", "October", "November", "December">>
DayNames == <<"Sunday", "Monday", "Tuesday", "Wednesday", "Thursday", "Friday", "Saturday">>

Numbered(n, run) == CASE run = 2 -> Zeros(n, 2) [] run = 1 -> ToString(n) [] OTHER -> ""
Named(name, run) == CASE run = 4 -> name [] run = 3 -> SubSeq(name, 1, 3) [] OTHER -> ""

NoVerb == "?"

\* What run letters c in a row stand for.
Verb(c, run, w, off) ==
    LET number(n) == IF run \in 1 .. 2 THEN Numbered(n, run) ELSE NoVerb
        name(x) == IF run \in 3 .. 4 THEN Named(x, run) ELSE NoVerb
    IN  CASE c = "Y" -> (CASE run = 4 -> Zeros(w.date[1], 4)
                           [] run = 2 -> Zeros(Fmod(w.date[1], 100), 2)
                           [] OTHER -> NoVerb)
          [] c = "M" -> IF run > 2 THEN name(MonthNames[w.date[2]]) ELSE number(w.date[2])
          [] c = "D" -> number(w.date[3])
          [] c = "E" -> name(DayNames[w.weekday + 1])
          [] c = "h" -> number(w.hour)
          [] c = "H" -> number(Hour12(w.hour))
          [] c \in {"A", "a"} /\ run = 2 ->
                 IF c = "A" THEN (IF w.hour < 12 THEN "AM" ELSE "PM")
                 ELSE IF w.hour < 12 THEN "am" ELSE "pm"
          [] c = "m" -> number(w.minute)
          [] c = "s" -> number(w.second)
          [] c = "Z" -> (CASE run = 5 -> ZoneText(off, "")
                           [] run = 4 -> ZoneText(off, ":")
                           [] run = 3 -> (IF off = 0 THEN "UTC" ELSE "")
                           [] run = 1 -> (IF off = 0 THEN "Z" ELSE ZoneText(off, ":"))
                           [] OTHER -> NoVerb)
          [] OTHER -> NoVerb

Letters52 == {Char(Lowers \o Uppers, i) : i \in 1 .. 52}

\* format_date from i on; NoVerb for an unsupported run of letters.
RECURSIVE DateFrom(_, _, _, _, _)
DateFrom(fmt, i, w, off, out) ==
    LET c == Char(fmt, i)
        close == Find(fmt, i + 1, {"'"})
        after == Skip(fmt, i, {c})
        text == Verb(c, after - i, w, off)
    IN  CASE i > Len(fmt) -> out
          [] c = "'" /\ close = i + 1 /\ i < Len(fmt) -> DateFrom(fmt, i + 2, w, off, out \o "'")
          [] c = "'" -> DateFrom(fmt, close + 1, w, off, out \o SubSeq(fmt, i + 1, close - 1))
          [] c \notin Letters52 -> DateFrom(fmt, i + 1, w, off, out \o c)
          [] text = NoVerb -> NoVerb
          [] OTHER -> DateFrom(fmt, after, w, off, out \o text)

DateBuiltins == {"timeadd", "timecmp", "formatdate"}

TimeAdd(t, d) ==
    CASE t = NoTime \/ d = NoDuration -> Error
      [] d[2] # 0 -> Error
      [] OTHER -> Str(TimestampText(Later(t.moment, d[1]), t.off))

TimeCmp(t, u) ==
    CASE t = NoTime \/ u = NoTime -> Error
      [] Earlier(t.moment, u.moment) -> Number(-1)
      [] Earlier(u.moment, t.moment) -> Number(1)
      [] OTHER -> Number(0)

FormatDate(fmt, t) ==
    LET shown(text) == IF text = NoVerb THEN Error ELSE Str(text)
    IN  IF t = NoTime THEN Error ELSE shown(DateFrom(fmt, 1, Wall(t.moment, t.off), t.off, ""))

OnDates(f, args) ==
    CASE Len(args) # 2 \/ (\E i \in DOMAIN args : Kind(args[i]) # "string") -> Error
      [] f = "timeadd" -> TimeAdd(Timestamp(args[1][2]), Duration(args[2][2]))
      [] f = "timecmp" -> TimeCmp(Timestamp(args[1][2]), Timestamp(args[2][2]))
      [] f = "formatdate" -> FormatDate(args[1][2], Timestamp(args[2][2]))
=============================================================================
