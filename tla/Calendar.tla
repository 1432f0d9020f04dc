------------------------------ MODULE Calendar ------------------------------
(***************************************************************************)
(* Days and dates as timefmt.c computes them: years begin in March, so     *)
(* that the leap day is the last one, and come in eras of 400.  A day is a *)
(* number counted from 1970-01-01, a date a triple of year, month and day. *)
(* A moment is the pair of a day and the seconds since its midnight, UTC:  *)
(* the code has one count of seconds, which does not fit the integers of   *)
(* the model checker.                                                      *)
(***************************************************************************)
EXTENDS Integers

EraDays == 146097
DaySeconds == 86400
Epoch == 719468     \* the days from the first of March of the year 0 to 1970

\* Mutant: January and February belong to the year they are in.
DaysFromCivilJanuary(y, m, d) ==
    LET era == y \div 400
        yoe == y - era * 400
        doy == (153 * (m + (IF m > 2 THEN -3 ELSE 9)) + 2) \div 5 + d - 1
    IN  era * EraDays + yoe * 365 + yoe \div 4 - yoe \div 100 + doy - Epoch

\* days_from_civil: d is not checked against the month's length.
DaysFromCivil(y, m, d) ==
    LET year == IF m <= 2 THEN y - 1 ELSE y
        era == year \div 400
        yoe == year - era * 400
        doy == (153 * (m + (IF m > 2 THEN -3 ELSE 9)) + 2) \div 5 + d - 1
    IN  era * EraDays + yoe * 365 + yoe \div 4 - yoe \div 100 + doy - Epoch

\* civil_from_days
CivilFromDays(day) ==
    LET z == day + Epoch
        era == z \div EraDays
        doe == z - era * EraDays
        yoe == (doe - doe \div 1460 + doe \div 36524 - doe \div 146096) \div 365
        doy == doe - (365 * yoe + yoe \div 4 - yoe \div 100)
        mp == (5 * doy + 2) \div 153
        m == mp + (IF mp < 10 THEN 3 ELSE -9)
    IN  <<yoe + era * 400 + (IF m <= 2 THEN 1 ELSE 0), m, doy - (153 * mp + 2) \div 5 + 1>>

\* What a date is, and how long a month; the code does not ask (it takes the 31st
\* of February for the third of March), what is proved of its numbers does.
IsLeap(y) == y % 4 = 0 /\ (y % 100 = 0 => y % 400 = 0)
MonthDays(y, m) == CASE m = 2 -> (IF IsLeap(y) THEN 29 ELSE 28)
                     [] m \in {4, 6, 9, 11} -> 30
                     [] OTHER -> 31

\* The moment some seconds after a moment.
Later(moment, seconds) ==
    <<moment[1] + (moment[2] + seconds) \div DaySeconds, (moment[2] + seconds) % DaySeconds>>

Earlier(a, b) == a[1] < b[1] \/ (a[1] = b[1] /\ a[2] < b[2])

\* Sunday is 0.
Weekday(day) == (day + 4) % 7

\* The hour on a clock with two halves.
Hour12(hour) == IF hour % 12 = 0 THEN 12 ELSE hour % 12

\* What a clock and a calendar show at a moment, off seconds ahead of UTC.
Wall(moment, off) ==
    LET t == Later(moment, off)
    IN  [date |-> CivilFromDays(t[1]), weekday |-> Weekday(t[1]), hour |-> t[2] \div 3600,
         minute |-> (t[2] % 3600) \div 60, second |-> t[2] % 60]
=============================================================================
