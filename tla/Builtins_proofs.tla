--------------------------- MODULE Builtins_proofs ---------------------------
(***************************************************************************)
(* What the arithmetic of the builtins promises.  Addresses, of any width: *)
(* a block is aligned, the cursor of cidrsubnets goes forward, and the     *)
(* block after another one has no address in common with it, whatever      *)
(* their sizes.  Days, of any year: they are numbered without gaps, and    *)
(* the two conversions are each other's inverse.                           *)
(***************************************************************************)
EXTENDS Addresses, Calendar, BasicLemmas

Address(n) == [1 .. n -> Bit]

\* The order of addresses as numbers.
Precedes(x, y) ==
    \E b \in DOMAIN x : /\ x[b] < y[b]
                        /\ \A c \in DOMAIN x : c < b => x[c] = y[c]

\* Blocks of lengths p and q begin with different bits, so neither has an address
\* of the other.
Disjoint(x, p, y, q) == \E b \in DOMAIN x : b <= p /\ b <= q /\ x[b] # y[b]

------------------------------------------------------------------------------
\* ip_mask and ip_inc_at stay within the address.
LEMMA MaskType ==
    ASSUME NEW n \in Nat, NEW ip \in Address(n), NEW p \in 0 .. n
    PROVE  /\ Mask(ip, p) \in Address(n)
           /\ ~HasBitsBelow(Mask(ip, p), p)
           /\ \A b \in 1 .. p : Mask(ip, p)[b] = ip[b]
BY DEF Address, Mask, HasBitsBelow, Bit

LEMMA IncAtType ==
    ASSUME NEW n \in Nat, NEW ip \in Address(n), NEW p \in 0 .. n
    PROVE  /\ IncAt(ip, p) \in Address(n)
           /\ \A b \in 1 .. n : b > p => IncAt(ip, p)[b] = ip[b]
           /\ p > 0 => IncAt(ip, p)[p] = 1 - ip[p]
BY DEF Address, IncAt, Bit

LEMMA KeepsAligned ==
    ASSUME NEW n \in Nat, NEW ip \in Address(n), NEW p \in 0 .. n, ~HasBitsBelow(ip, p)
    PROVE  ~HasBitsBelow(IncAt(ip, p), p)
<1>1. IncAt(ip, p) \in Address(n) /\ \A b \in 1 .. n : b > p => IncAt(ip, p)[b] = ip[b]
  BY IncAtType
<1>2. DOMAIN ip = 1 .. n /\ DOMAIN IncAt(ip, p) = 1 .. n
  BY <1>1 DEF Address
<1> QED
  BY <1>1, <1>2 DEF HasBitsBelow

\* The bit a carry stops at.
LEMMA CarryStops ==
    ASSUME NEW n \in Nat, NEW ip \in Address(n), NEW p \in 0 .. n,
           NEW z \in 1 .. p, ip[z] = 0
    PROVE  \E b \in z .. p : ip[b] = 0 /\ \A c \in 1 .. p : b < c => ip[c] = 1
<1> DEFINE Zeros == {b \in 1 .. p : ip[b] = 0}
<1>1. Zeros \subseteq 0 .. p /\ z \in Zeros /\ Zeros # {} /\ p \in Nat
  OBVIOUS
<1>2. PICK b \in Zeros : \A c \in Zeros : c <= b
  <2> HIDE DEF Zeros
  <2> QED
    BY <1>1, GreatestNumber, Zenon
<1>3. \A c \in 1 .. p : b < c => ip[c] # 0
  BY <1>2
<1>4. \A c \in 1 .. p : ip[c] \in Bit
  BY DEF Address
<1> QED
  BY <1>1, <1>2, <1>3, <1>4 DEF Bit

\* What ip_inc_at does around that bit: ones behind it become zeros, it becomes
\* one, and nothing before it changes.
LEMMA Increment ==
    ASSUME NEW n \in Nat, NEW ip \in Address(n), NEW p \in 0 .. n,
           NEW b \in 1 .. p, ip[b] = 0, \A c \in 1 .. p : b < c => ip[c] = 1
    PROVE  /\ IncAt(ip, p)[b] = 1
           /\ \A c \in 1 .. p : b < c => IncAt(ip, p)[c] = 0
           /\ \A c \in 1 .. p : c < b => IncAt(ip, p)[c] = ip[c]
BY DEF Address, IncAt, Bit

------------------------------------------------------------------------------
\* Every block cidrsubnets gives begins on a boundary of its own size
\* (cidrsubnets.c:40-43), wherever the cursor was.
THEOREM BlocksAligned ==
    ASSUME NEW n \in Nat, NEW cur \in Address(n), NEW p \in 0 .. n
    PROVE  Aligned(cur, p) \in Address(n) /\ ~HasBitsBelow(Aligned(cur, p), p)
<1>1. CASE ~HasBitsBelow(cur, p)
  BY <1>1 DEF Aligned
<1>2. CASE HasBitsBelow(cur, p)
  <2>1. Aligned(cur, p) = IncAt(Mask(cur, p), p)
    BY <1>2 DEF Aligned
  <2> QED
    BY <2>1, MaskType, IncAtType, KeepsAligned
<1> QED
  BY <1>1, <1>2

\* The cursor goes forward with every block (ip_inc_at), unless the block was the
\* last one there is: then it begins again, which the code does not notice.
THEOREM CursorGoesForward ==
    ASSUME NEW n \in Nat, NEW ip \in Address(n), NEW p \in 0 .. n,
           \E z \in 1 .. p : ip[z] = 0
    PROVE  Precedes(ip, IncAt(ip, p))
<1>1. PICK b \in 1 .. p : ip[b] = 0 /\ \A c \in 1 .. p : b < c => ip[c] = 1
  <2>1. PICK z \in 1 .. p : ip[z] = 0
    OBVIOUS
  <2>2. \E b \in z .. p : ip[b] = 0 /\ \A c \in 1 .. p : b < c => ip[c] = 1
    BY <2>1, CarryStops
  <2> QED
    BY <2>2
<1>2. IncAt(ip, p)[b] = 1 /\ \A c \in 1 .. p : c < b => IncAt(ip, p)[c] = ip[c]
  BY <1>1, Increment
<1>3. b \in DOMAIN ip /\ \A c \in DOMAIN ip : c < b => c \in 1 .. p
  BY DEF Address
<1> QED
  BY <1>1, <1>2, <1>3 DEF Precedes

\* The block after a block of length p, aligned for its own length q, has no address
\* in common with it: the cursor step and the alignment of cidrsubnets.c:40-59
\* together skip what was given and never fall back into it.
THEOREM NextBlockDisjoint ==
    ASSUME NEW n \in Nat, NEW block \in Address(n), NEW p \in 1 .. n, NEW q \in 1 .. n,
           ~HasBitsBelow(block, p)
    PROVE  Disjoint(block, p, Aligned(IncAt(block, p), q), q)
<1> DEFINE cur == IncAt(block, p)
           next == Aligned(cur, q)
<1>1. cur \in Address(n) /\ ~HasBitsBelow(cur, p) /\ cur[p] = 1 - block[p]
  BY p \in 0 .. n, IncAtType, KeepsAligned
<1>2. DOMAIN block = 1 .. n /\ DOMAIN cur = 1 .. n /\ \A b \in 1 .. n : block[b] \in Bit /\ cur[b] \in Bit
  BY <1>1 DEF Address
<1>3. CASE q >= p
  <2>1. ~HasBitsBelow(cur, q)
    BY <1>1, <1>2, <1>3 DEF HasBitsBelow
  <2>2. next[p] # block[p]
    BY <1>1, <1>2, <2>1 DEF Aligned, Bit
  <2> QED
    BY <1>2, <1>3, <2>2 DEF Disjoint
<1>4. CASE q < p /\ \E z \in q + 1 .. p : block[z] = 0
  <2>1. PICK z \in 1 .. p : z > q /\ block[z] = 0
    BY <1>4
  <2>2. PICK b \in z .. p : block[b] = 0 /\ \A c \in 1 .. p : b < c => block[c] = 1
    BY <2>1, p \in 0 .. n, CarryStops
  <2>3. cur[b] = 1 /\ cur[q] = block[q]
    BY <2>1, <2>2, Increment
  <2>4. HasBitsBelow(cur, q)
    BY <1>2, <2>1, <2>3 DEF HasBitsBelow
  <2>5. next = IncAt(Mask(cur, q), q)
    BY <2>4 DEF Aligned
  <2>6. Mask(cur, q) \in Address(n) /\ Mask(cur, q)[q] = cur[q]
    BY <1>1, q \in 0 .. n, MaskType
  <2>7. next[q] = 1 - cur[q]
    BY <2>5, <2>6, q \in 0 .. n, IncAtType
  <2> QED
    BY <1>2, <1>4, <2>3, <2>7 DEF Disjoint, Bit
<1>5. CASE q < p /\ \A z \in q + 1 .. p : block[z] # 0
  <2>1. \A z \in 1 .. n : q < z /\ z <= p => block[z] = 1
    BY <1>2, <1>5 DEF Bit
  <2>2. \A z \in 1 .. n : q < z /\ z <= p => cur[z] = 0
    BY <1>2, <2>1 DEF IncAt
  <2>3. \A z \in 1 .. n : z > p => cur[z] # 1
    BY <1>1, <1>2 DEF HasBitsBelow
  <2>4. ~HasBitsBelow(cur, q)
    BY <1>2, <2>2, <2>3 DEF HasBitsBelow
  <2>5. cur[q] = 1 - block[q]
    BY <1>2, <1>5, <2>1 DEF IncAt
  <2>6. next[q] # block[q]
    BY <1>2, <2>4, <2>5 DEF Aligned, Bit
  <2> QED
    BY <1>2, <1>5, <2>6 DEF Disjoint
<1> QED
  BY <1>3, <1>4, <1>5

\* The subnet of a given number keeps the bits of the prefix and begins on its own
\* boundary (cidrsubnet.c:37-38), however many bits the number has.
THEOREM SubnetInside ==
    ASSUME NEW n \in Nat, NEW ip \in Address(n), NEW p \in 0 .. n, NEW count \in 0 .. n - p, NEW v
    PROVE  /\ \A b \in 1 .. p : SetField(Mask(ip, p), p, count, v)[b] = ip[b]
           /\ ~HasBitsBelow(SetField(Mask(ip, p), p, count, v), p + count)
<1> DEFINE base == Mask(ip, p)
           subnet == SetField(base, p, count, v)
<1>1. base \in Address(n) /\ (\A b \in 1 .. p : base[b] = ip[b]) /\ ~HasBitsBelow(base, p)
  BY MaskType
<1>2. DOMAIN base = 1 .. n
  BY <1>1 DEF Address
<1>3. DOMAIN subnet = 1 .. n /\ \A b \in 1 .. n : b <= p \/ b > p + count => subnet[b] = base[b]
  <2> HIDE DEF base
  <2> QED
    BY <1>2 DEF SetField
<1>4. \A b \in 1 .. p : subnet[b] = ip[b]
  BY <1>1, <1>3
<1>5. ~HasBitsBelow(subnet, p + count)
  BY <1>1, <1>2, <1>3 DEF HasBitsBelow
<1> QED
  BY <1>4, <1>5

-----------------------------------------------------------------------------
(* Days and dates.  Both conversions go through the year that began in March *)
(* and its place in an era of 400.                                           *)

\* Years that begin in March: their last day, counted from 0; the day of an era from
\* its year and the day of the year, and that year from that day.
LastDay(yoe) == IF (yoe + 1) % 4 = 0 /\ ((yoe + 1) % 100 # 0 \/ yoe = 399) THEN 365 ELSE 364
DayOfEra(yoe, doy) == yoe * 365 + yoe \div 4 - yoe \div 100 + doy
YearOfEra(doe) == (doe - doe \div 1460 + doe \div 36524 - doe \div 146096) \div 365

LEMMA CalendarConstants == Epoch \in Int /\ EraDays \in Int
BY SMT DEF Epoch, EraDays

\* Months counted from March begin on these days.
MonthStart == <<0, 31, 61, 92, 122, 153, 184, 214, 245, 275, 306, 337>>
LEMMA MonthStarts == \A mp \in 0 .. 11 : (153 * mp + 2) \div 5 = MonthStart[mp + 1]
BY SMTT(60) DEF MonthStart

\* How many years up to a are multiples.
LEMMA Multiples ==
    ASSUME NEW a \in Int
    PROVE  /\ (a + 1) \div 4 = a \div 4 + (IF (a + 1) % 4 = 0 THEN 1 ELSE 0)
           /\ (a + 1) \div 100 = a \div 100 + (IF (a + 1) % 100 = 0 THEN 1 ELSE 0)
           /\ (a + 1) \div 400 = a \div 400 + (IF (a + 1) % 400 = 0 THEN 1 ELSE 0)
           /\ (a + 1) % 400 = 0 => (a + 1) % 100 = 0
           /\ (a + 1) % 100 = 0 => (a + 1) % 4 = 0
<1>1. (a + 1) \div 4 = a \div 4 + (IF (a + 1) % 4 = 0 THEN 1 ELSE 0)
  BY SMTT(30)
<1>2. (a + 1) \div 100 = a \div 100 + (IF (a + 1) % 100 = 0 THEN 1 ELSE 0)
  BY SMTT(30)
<1>3. (a + 1) \div 400 = a \div 400 + (IF (a + 1) % 400 = 0 THEN 1 ELSE 0)
  BY SMTT(30)
<1>4. (a + 1) % 400 = 0 => (a + 1) % 100 = 0
  BY SMTT(30)
<1>5. (a + 1) % 100 = 0 => (a + 1) % 4 = 0
  BY SMTT(30)
<1> QED
  BY <1>1, <1>2, <1>3, <1>4, <1>5

\* The first of March of the year a, by eras and by leap years.
MarchFirst(a) == LET era == a \div 400
                 IN  era * EraDays + DayOfEra(a - era * 400, 0) - Epoch

LEMMA YearsCounted ==
    ASSUME NEW a \in Int
    PROVE  MarchFirst(a) = 365 * a + a \div 4 - a \div 100 + a \div 400 - Epoch
<1> DEFINE e == a \div 400
           r == a - e * 400
<1>1. e \in Int /\ r \in 0 .. 399 /\ a = 400 * e + r
  BY SMTT(30)
<1> HIDE DEF e, r
<1>2. a \div 4 = 100 * e + r \div 4
  BY <1>1, SMTT(30)
<1>3. a \div 100 = 4 * e + r \div 100
  BY <1>1, SMTT(30)
<1>4. r \div 4 \in Int /\ r \div 100 \in Int
  BY <1>1, SMTT(30)
<1>5. MarchFirst(a) = e * EraDays + (r * 365 + r \div 4 - r \div 100 + 0) - Epoch
  BY DEF MarchFirst, DayOfEra, e, r
<1>6. a \div 400 = e
  BY DEF e
<1> QED
  BY <1>1, <1>2, <1>3, <1>4, <1>5, <1>6, CalendarConstants, SMTT(30) DEF EraDays

LEMMA YearsFollow ==
    ASSUME NEW a \in Int
    PROVE  /\ MarchFirst(a) \in Int
           /\ MarchFirst(a + 1) = MarchFirst(a) + (IF IsLeap(a + 1) THEN 366 ELSE 365)
<1> DEFINE p == a \div 4
           c == a \div 100
           q == a \div 400
           l4 == IF (a + 1) % 4 = 0 THEN 1 ELSE 0
           l100 == IF (a + 1) % 100 = 0 THEN 1 ELSE 0
           l400 == IF (a + 1) % 400 = 0 THEN 1 ELSE 0
<1>1. p \in Int /\ c \in Int /\ q \in Int
  BY SMTT(30)
<1>2. MarchFirst(a) = 365 * a + p - c + q - Epoch
  BY YearsCounted
<1>3. MarchFirst(a + 1) = 365 * (a + 1) + (p + l4) - (c + l100) + (q + l400) - Epoch
  <2>1. a + 1 \in Int
    OBVIOUS
  <2>2. MarchFirst(a + 1)
            = 365 * (a + 1) + (a + 1) \div 4 - (a + 1) \div 100 + (a + 1) \div 400 - Epoch
    BY <2>1, YearsCounted
  <2>3. /\ (a + 1) \div 4 = p + l4
        /\ (a + 1) \div 100 = c + l100
        /\ (a + 1) \div 400 = q + l400
    BY Multiples
  <2> QED
    BY <2>2, <2>3
<1>4. l4 \in Int /\ l100 \in Int /\ l400 \in Int
      /\ l4 - l100 + l400 = IF IsLeap(a + 1) THEN 1 ELSE 0
  BY Multiples DEF IsLeap
<1> HIDE DEF p, c, q, l4, l100, l400
<1>5. MarchFirst(a) \in Int
  BY <1>1, <1>2, CalendarConstants
<1>6. MarchFirst(a + 1) = MarchFirst(a) + 365 + (l4 - l100 + l400)
  BY <1>1, <1>2, <1>3, <1>4, CalendarConstants, SMT
<1> QED
  BY <1>4, <1>5, <1>6

\* A date counted from the first of March before it.
LEMMA FromMarch ==
    ASSUME NEW y \in Int, NEW m \in 1 .. 12, NEW d \in Int
    PROVE  DaysFromCivil(y, m, d)
               = MarchFirst(IF m <= 2 THEN y - 1 ELSE y)
                 + MonthStart[(IF m > 2 THEN m - 3 ELSE m + 9) + 1] + d - 1
<1> DEFINE a == IF m <= 2 THEN y - 1 ELSE y
           mp == m + (IF m > 2 THEN -3 ELSE 9)
           era == a \div 400
           yoe == a - era * 400
           s == (153 * mp + 2) \div 5
<1>1. a \in Int /\ mp \in 0 .. 11 /\ mp = IF m > 2 THEN m - 3 ELSE m + 9
  OBVIOUS
<1>2. DaysFromCivil(y, m, d)
          = era * EraDays + yoe * 365 + yoe \div 4 - yoe \div 100 + (s + d - 1) - Epoch
  BY DEF DaysFromCivil
<1>3. MarchFirst(a) = era * EraDays + (yoe * 365 + yoe \div 4 - yoe \div 100 + 0) - Epoch
  BY DEF MarchFirst, DayOfEra
<1> HIDE DEF a, mp
<1>4. s = MonthStart[mp + 1] /\ s \in Int
  BY <1>1, MonthStarts DEF MonthStart
<1>5. era \in Int /\ yoe \in Int /\ yoe \div 4 \in Int /\ yoe \div 100 \in Int
  BY <1>1, SMTT(30)
<1> DEFINE u == yoe \div 4
           v == yoe \div 100
           w == era * EraDays
<1>6. w \in Int
  BY <1>5, CalendarConstants
<1> HIDE DEF era, yoe, s, u, v, w
<1>7. DaysFromCivil(y, m, d) = MarchFirst(a) + s + d - 1
  <2>1. DaysFromCivil(y, m, d) = w + yoe * 365 + u - v + (s + d - 1) - Epoch
    BY <1>2 DEF u, v, w
  <2>2. MarchFirst(a) = w + (yoe * 365 + u - v + 0) - Epoch
    BY <1>3 DEF u, v, w
  <2>3. u \in Int /\ v \in Int
    BY <1>5 DEF u, v
  <2> QED
    BY <1>4, <1>5, <1>6, <2>1, <2>2, <2>3, CalendarConstants
<1> QED
  BY <1>1, <1>4, <1>7 DEF a

LEMMA DaysAreNumbers ==
    ASSUME NEW y \in Int, NEW m \in 1 .. 12, NEW d \in Int
    PROVE  DaysFromCivil(y, m, d) \in Int
<1> DEFINE a == IF m <= 2 THEN y - 1 ELSE y
           s == MonthStart[(IF m > 2 THEN m - 3 ELSE m + 9) + 1]
<1>1. a \in Int /\ s \in Int
  BY DEF MonthStart
<1>2. DaysFromCivil(y, m, d) = MarchFirst(a) + s + d - 1
  BY FromMarch
<1> HIDE DEF a, s
<1>3. MarchFirst(a) \in Int
  BY <1>1, YearsFollow
<1> QED
  BY <1>1, <1>2, <1>3

\* days_from_civil numbers the days without a gap or an overlap, over the end of
\* every month of every year: the first of the next month comes as many days after
\* the first of this one as this month has.  In a month the days are consecutive by
\* FromMarch, also those it does not have.
THEOREM MonthsFollow ==
    ASSUME NEW y \in Int, NEW m \in 1 .. 12
    PROVE  DaysFromCivil(IF m = 12 THEN y + 1 ELSE y, IF m = 12 THEN 1 ELSE m + 1, 1)
               = DaysFromCivil(y, m, 1) + MonthDays(y, m)
<1> DEFINE nextYear == IF m = 12 THEN y + 1 ELSE y
           next == IF m = 12 THEN 1 ELSE m + 1
<1>1. /\ DaysFromCivil(y, m, 1) = MarchFirst(IF m <= 2 THEN y - 1 ELSE y)
                                   + MonthStart[(IF m > 2 THEN m - 3 ELSE m + 9) + 1] + 1 - 1
      /\ DaysFromCivil(nextYear, next, 1)
             = MarchFirst(IF next <= 2 THEN nextYear - 1 ELSE nextYear)
               + MonthStart[(IF next > 2 THEN next - 3 ELSE next + 9) + 1] + 1 - 1
  BY FromMarch
<1>2. /\ MarchFirst(y) \in Int /\ MarchFirst(y - 1) \in Int
      /\ MarchFirst(y) = MarchFirst(y - 1) + (IF IsLeap(y) THEN 366 ELSE 365)
  <2>1. (y - 1) + 1 = y /\ y - 1 \in Int
    OBVIOUS
  <2> QED
    BY <2>1, YearsFollow
<1>3. CASE m = 2
  BY <1>1, <1>2, <1>3 DEF MonthStart, MonthDays
<1>4. CASE m = 1
  BY <1>1, <1>2, <1>4 DEF MonthStart, MonthDays
<1>5. CASE m = 12
  <2>1. (y + 1) - 1 = y
    OBVIOUS
  <2> QED
    BY <1>1, <1>2, <1>5, <2>1 DEF MonthStart, MonthDays
<1>6. CASE m \in 3 .. 11
  BY <1>1, <1>2, <1>6 DEF MonthStart, MonthDays
<1> QED
  BY <1>3, <1>4, <1>5, <1>6

LEMMA DayInEra ==
    ASSUME NEW yoe \in 0 .. 399, NEW doy \in 0 .. 365
    PROVE  DayOfEra(yoe, doy) \in Int /\ DayOfEra(yoe, doy) >= 0 /\ DayOfEra(yoe, doy) < EraDays
<1> DEFINE q == yoe \div 4
           c == yoe \div 100
           p == yoe * 365
<1>1. q \in Int /\ c \in Int /\ 4 * q <= yoe /\ yoe < 4 * q + 4 /\ 100 * c <= yoe /\ yoe < 100 * c + 100
  BY SMTT(30)
<1>2. DayOfEra(yoe, doy) = p + q - c + doy
  BY DEF DayOfEra
<1>3. p \in Int /\ p >= 0 /\ p <= 145635
  BY SMT
<1> HIDE DEF q, c, p
<1>4. c \in 0 .. 3 /\ q \in 0 .. 99 /\ q >= c /\ q - c <= 96
  BY <1>1, SMTT(30)
<1> QED
  BY <1>2, <1>3, <1>4, SMT DEF EraDays

LEMMA YearOfDay ==
    ASSUME NEW yoe \in 0 .. 399, NEW doy \in 0 .. LastDay(yoe)
    PROVE  YearOfEra(DayOfEra(yoe, doy)) = yoe
BY SMTT(120) DEF LastDay, DayOfEra, YearOfEra

LEMMA Month ==
    ASSUME NEW mp \in 0 .. 11, NEW d \in 1 .. 31, d = 31 => mp \notin {1, 3, 6, 8},
           mp = 11 => d <= 29, NEW doy \in Int,
           doy = (153 * mp + 2) \div 5 + d - 1
    PROVE  /\ (5 * doy + 2) \div 153 = mp
           /\ doy \in 0 .. 365 /\ (doy = 365 => mp = 11 /\ d = 29)
<1>1. doy = MonthStart[mp + 1] + d - 1
  BY MonthStarts
<1>2. 5 * doy + 2 >= 153 * mp /\ 5 * doy + 2 < 153 * mp + 153
  BY <1>1 DEF MonthStart
<1>3. doy \in 0 .. 365 /\ (doy = 365 => mp = 11 /\ d = 29)
  BY <1>1 DEF MonthStart
<1> QED
  BY <1>2, <1>3, SMTT(60)

\* A date by its era, year of the era, month counted from March and day of that year.
InEra(y, m, d, era, yoe, mp, doy) ==
    /\ m <= 2 => y = yoe + 400 * era + 1 /\ mp = m + 9
    /\ m > 2 => y = yoe + 400 * era /\ mp = m - 3
    /\ doy = (153 * mp + 2) \div 5 + d - 1

LEMMA EraOf ==
    ASSUME NEW y \in Int, NEW m \in 1 .. 12, NEW d \in 1 .. MonthDays(y, m)
    PROVE  \E era \in Int, yoe \in 0 .. 399, mp \in 0 .. 11, doy \in 0 .. 365 :
              /\ InEra(y, m, d, era, yoe, mp, doy)
              /\ (5 * doy + 2) \div 153 = mp
              /\ doy <= LastDay(yoe)
              /\ DaysFromCivil(y, m, d) + Epoch = era * EraDays + DayOfEra(yoe, doy)
<1> DEFINE year == IF m <= 2 THEN y - 1 ELSE y
           era == year \div 400
           yoe == year - era * 400
           mp == m + (IF m > 2 THEN -3 ELSE 9)
           doy == (153 * mp + 2) \div 5 + d - 1
<1>1. year \in Int /\ (m <= 2 => y = year + 1) /\ (m > 2 => y = year) /\ mp \in 0 .. 11
      /\ (m <= 2 => mp = m + 9) /\ (m > 2 => mp = m - 3)
  OBVIOUS
<1>2. d \in 1 .. 31 /\ (d = 31 => mp \notin {1, 3, 6, 8}) /\ (mp = 11 => d <= 29)
      /\ (mp = 11 /\ d = 29 => IsLeap(y))
  BY DEF MonthDays
<1> HIDE DEF mp, year
<1>3. era \in Int /\ yoe \in 0 .. 399 /\ year = yoe + 400 * era
  BY <1>1, SMTT(30)
<1>4. doy \in Int
  BY <1>1, SMTT(30)
<1>5. (5 * doy + 2) \div 153 = mp /\ doy \in 0 .. 365 /\ (doy = 365 => mp = 11 /\ d = 29)
  <2> HIDE DEF doy
  <2>1. doy = (153 * mp + 2) \div 5 + d - 1
    BY DEF doy
  <2> QED
    BY <1>1, <1>2, <1>4, <2>1, Month
<1>6. DaysFromCivil(y, m, d) + Epoch = era * EraDays + DayOfEra(yoe, doy)
  <2>1. DaysFromCivil(y, m, d)
            = era * EraDays + yoe * 365 + yoe \div 4 - yoe \div 100 + doy - Epoch
    BY DEF DaysFromCivil, mp, year
  <2>2. era \in Int /\ yoe \in Int /\ yoe \div 4 \in Int /\ yoe \div 100 \in Int
    BY <1>3, SMTT(30)
  <2> HIDE DEF era, yoe, doy
  <2> QED
    BY <1>4, <2>1, <2>2, CalendarConstants, SMT DEF DayOfEra
<1>7. doy <= LastDay(yoe)
  <2> HIDE DEF era, yoe, doy
  <2>1. CASE doy = 365
    <3>1. m = 2 /\ IsLeap(y) /\ y = yoe + 400 * era + 1
      BY <1>1, <1>2, <1>3, <1>5, <2>1
    <3>2. (yoe + 1) % 4 = 0 /\ ((yoe + 1) % 100 # 0 \/ yoe = 399)
      BY <1>3, <3>1, SMTT(60) DEF IsLeap
    <3> QED
      BY <2>1, <3>2 DEF LastDay
  <2>2. CASE doy # 365
    BY <1>5, <2>2 DEF LastDay
  <2> QED
    BY <2>1, <2>2
<1>8. InEra(y, m, d, era, yoe, mp, doy)
  <2>1. doy = (153 * mp + 2) \div 5 + d - 1
    BY DEF doy
  <2> HIDE DEF era, yoe, doy
  <2> QED
    BY <1>1, <1>3, <2>1 DEF InEra
<1> HIDE DEF era, yoe, doy
<1> QED
  BY <1>1, <1>3, <1>5, <1>6, <1>7, <1>8

LEMMA Divided ==
    ASSUME NEW e \in Int, NEW r \in Int, r >= 0, r < EraDays
    PROVE  LET z == e * EraDays + r IN z \div EraDays = e /\ z - e * EraDays = r
BY SMTT(30) DEF EraDays

Civil(era, yoe, doy) ==
    LET mp == (5 * doy + 2) \div 153
        m == mp + (IF mp < 10 THEN 3 ELSE -9)
    IN  <<yoe + era * 400 + (IF m <= 2 THEN 1 ELSE 0), m, doy - (153 * mp + 2) \div 5 + 1>>

LEMMA CivilOf ==
    ASSUME NEW day \in Int, NEW era \in Int, NEW yoe \in 0 .. 399, NEW doy \in 0 .. LastDay(yoe),
           day + Epoch = era * EraDays + DayOfEra(yoe, doy)
    PROVE  CivilFromDays(day) = Civil(era, yoe, doy)
<1> DEFINE z == day + Epoch
           e == z \div EraDays
           doe == z - e * EraDays
           y == YearOfEra(doe)
           d == doe - (365 * y + y \div 4 - y \div 100)
<1>1. CivilFromDays(day) = Civil(e, y, d)
  BY DEF CivilFromDays, Civil, YearOfEra
<1>2. doy \in 0 .. 365
  BY DEF LastDay
<1> DEFINE r == DayOfEra(yoe, doy)
<1>3. r \in Int /\ r >= 0 /\ r < EraDays
  BY <1>2, DayInEra
<1>4. z = era * EraDays + r
  OBVIOUS
<1>5. e = era /\ doe = r
  <2> HIDE DEF z, r
  <2> QED
    BY <1>3, <1>4, Divided
<1>6. y = yoe
  BY <1>5, YearOfDay
<1>7. r - (365 * yoe + yoe \div 4 - yoe \div 100) = doy
  BY <1>2, SMTT(30) DEF DayOfEra
<1> HIDE DEF e, doe, y, r
<1>8. d = doy
  BY <1>5, <1>6, <1>7
<1> QED
  BY <1>1, <1>5, <1>6, <1>8

\* civil_from_days undoes days_from_civil: every date that exists, of any year
\* before or after 1970, comes back as it was, the 29th of February included.
THEOREM DatesComeBack ==
    ASSUME NEW y \in Int, NEW m \in 1 .. 12, NEW d \in 1 .. MonthDays(y, m)
    PROVE  CivilFromDays(DaysFromCivil(y, m, d)) = <<y, m, d>>
<1> DEFINE day == DaysFromCivil(y, m, d)
<1>1. PICK era \in Int, yoe \in 0 .. 399, mp \in 0 .. 11, doy \in 0 .. 365 :
              /\ InEra(y, m, d, era, yoe, mp, doy)
              /\ (5 * doy + 2) \div 153 = mp
              /\ doy <= LastDay(yoe)
              /\ day + Epoch = era * EraDays + DayOfEra(yoe, doy)
  BY EraOf
<1>2. day \in Int
  <2>1. d \in Int
    BY DEF MonthDays
  <2> QED
    BY <2>1, DaysAreNumbers
<1>3. doy \in 0 .. LastDay(yoe)
  BY <1>1 DEF LastDay
<1> HIDE DEF day
<1>4. CivilFromDays(day) = Civil(era, yoe, doy)
  BY <1>1, <1>2, <1>3, CivilOf
<1>5. m = mp + (IF mp < 10 THEN 3 ELSE -9) /\ y = yoe + era * 400 + (IF m <= 2 THEN 1 ELSE 0)
  BY <1>1 DEF InEra
<1>6. doy - (153 * mp + 2) \div 5 + 1 = d
  <2> DEFINE s == (153 * mp + 2) \div 5
  <2>1. s \in Int /\ doy = s + d - 1 /\ d \in Int
    BY <1>1, SMTT(30) DEF MonthDays, InEra
  <2> HIDE DEF s
  <2>2. doy - s + 1 = d
    BY <2>1
  <2> QED
    BY <2>2 DEF s
<1> QED
  BY <1>1, <1>4, <1>5, <1>6 DEF day, Civil

LEMMA YearHolds ==
    ASSUME NEW doe \in Int, doe >= 0, doe < EraDays
    PROVE  LET yoe == YearOfEra(doe) IN
           /\ yoe \in 0 .. 399
           /\ doe - (365 * yoe + yoe \div 4 - yoe \div 100) \in 0 .. LastDay(yoe)
BY SMTT(120) DEF YearOfEra, LastDay, EraDays

LEMMA MonthHolds ==
    ASSUME NEW doy \in 0 .. 365
    PROVE  LET mp == (5 * doy + 2) \div 153
               d == doy - (153 * mp + 2) \div 5 + 1
           IN  /\ mp \in 0 .. 11 /\ d \in 1 .. 31
               /\ d = 31 => mp \notin {1, 3, 6, 8, 11}
               /\ mp = 11 => d <= 29 /\ (d = 29 => doy = 365)
<1> DEFINE mp == (5 * doy + 2) \div 153
<1>1. mp \in 0 .. 11 /\ 153 * mp <= 5 * doy + 2 /\ 5 * doy + 2 < 153 * mp + 153
  BY SMTT(30)
<1> HIDE DEF mp
<1> DEFINE s == MonthStart[mp + 1]
<1>2. (153 * mp + 2) \div 5 = s
  BY <1>1, MonthStarts
<1>3. s \in Int /\ doy - s + 1 \in 1 .. 31 /\ (doy - s + 1 = 31 => mp \notin {1, 3, 6, 8, 11})
  BY <1>1, SMTT(30) DEF MonthStart
<1>4. mp = 11 => doy - s + 1 <= 29 /\ (doy - s + 1 = 29 => doy = 365)
  BY <1>1, SMTT(30) DEF MonthStart
<1> QED
  BY <1>1, <1>2, <1>3, <1>4 DEF mp

\* days_from_civil undoes civil_from_days: what timeadd and formatdate show for a
\* day, before 1970 or after, is a date that exists and that day's.
THEOREM DaysHaveDates ==
    ASSUME NEW day \in Int
    PROVE  \E y \in Int, m \in 1 .. 12 : \E d \in 1 .. MonthDays(y, m) :
              CivilFromDays(day) = <<y, m, d>> /\ DaysFromCivil(y, m, d) = day
<1> DEFINE z == day + Epoch
           era == z \div EraDays
           doe == z - era * EraDays
           yoe == YearOfEra(doe)
           doy == doe - (365 * yoe + yoe \div 4 - yoe \div 100)
           mp == (5 * doy + 2) \div 153
           d == doy - (153 * mp + 2) \div 5 + 1
           m == mp + (IF mp < 10 THEN 3 ELSE -9)
           y == yoe + era * 400 + (IF m <= 2 THEN 1 ELSE 0)
<1>1. CivilFromDays(day) = <<y, m, d>>
  BY DEF CivilFromDays, YearOfEra
<1>2. z \in Int /\ z = day + Epoch
  BY CalendarConstants
<1> HIDE DEF z
<1>3. era \in Int /\ doe \in Int /\ doe >= 0 /\ doe < EraDays /\ z = era * EraDays + doe
  BY <1>2, SMTT(30) DEF EraDays
<1> HIDE DEF era, doe
<1>4. yoe \in 0 .. 399 /\ doy \in 0 .. LastDay(yoe)
  BY <1>3, YearHolds
<1> HIDE DEF yoe
<1>5. yoe \div 4 \in Int /\ yoe \div 100 \in Int /\ DayOfEra(yoe, 0) \in Int
      /\ doe = DayOfEra(yoe, 0) + doy
  BY <1>3, <1>4, SMTT(30) DEF DayOfEra
<1>6. doy \in 0 .. 365 /\ (doy = 365 /\ yoe # 399 => (yoe + 1) % 4 = 0 /\ (yoe + 1) % 100 # 0)
  BY <1>4 DEF LastDay
<1> HIDE DEF doy
<1>7. /\ mp \in 0 .. 11 /\ d \in 1 .. 31 /\ (d = 31 => mp \notin {1, 3, 6, 8, 11})
      /\ (mp = 11 => d <= 29 /\ (d = 29 => doy = 365))
  BY <1>6, MonthHolds
<1>8. (153 * mp + 2) \div 5 = MonthStart[mp + 1] /\ MonthStart[mp + 1] \in Int
  BY <1>7, MonthStarts DEF MonthStart
<1>9. doy = MonthStart[mp + 1] + d - 1
  BY <1>6, <1>8
<1> HIDE DEF mp, d
<1>10. m \in 1 .. 12 /\ (m <= 2 <=> mp >= 10) /\ mp = (IF m > 2 THEN m - 3 ELSE m + 9)
  BY <1>7
<1> HIDE DEF m
<1> DEFINE a == yoe + era * 400
<1>11. y \in Int /\ a \in Int /\ a = IF m <= 2 THEN y - 1 ELSE y
  BY <1>3, <1>4
<1>12. a \div 400 = era /\ a - era * 400 = yoe
  BY <1>3, <1>4, SMTT(30)
<1>13. d = 29 /\ m = 2 => IsLeap(y)
  <2> SUFFICES ASSUME d = 29, m = 2 PROVE IsLeap(y)
    OBVIOUS
  <2>1. doy = 365 /\ y = yoe + era * 400 + 1
    BY <1>7, <1>10
  <2>2. CASE yoe = 399
    BY <1>3, <2>1, <2>2, SMTT(30) DEF IsLeap
  <2>3. CASE yoe # 399
    <3>1. (yoe + 1) % 4 = 0 /\ (yoe + 1) % 100 # 0
      BY <1>6, <2>1, <2>3
    <3> QED
      BY <1>3, <1>4, <2>1, <3>1, SMTT(60) DEF IsLeap
  <2> QED
    BY <2>2, <2>3
<1> HIDE DEF y, a
<1>14. d \in 1 .. MonthDays(y, m)
  BY <1>7, <1>10, <1>13 DEF MonthDays
<1>15. DaysFromCivil(y, m, d) = MarchFirst(a) + MonthStart[mp + 1] + d - 1
  <2>1. d \in Int
    BY <1>7
  <2> QED
    BY <1>10, <1>11, <2>1, FromMarch
<1>16. MarchFirst(a) = era * EraDays + DayOfEra(yoe, 0) - Epoch
  BY <1>12 DEF MarchFirst
<1>17. DaysFromCivil(y, m, d) = day
  <2> DEFINE w == era * EraDays
             r == DayOfEra(yoe, 0)
             s == MonthStart[mp + 1]
  <2>1. w \in Int /\ r \in Int /\ s \in Int /\ d \in Int /\ doy \in Int /\ doe \in Int
    BY <1>3, <1>5, <1>6, <1>7, <1>8, CalendarConstants
  <2>2. DaysFromCivil(y, m, d) = (w + r - Epoch) + s + d - 1
    BY <1>15, <1>16
  <2>3. z = w + doe /\ doe = r + doy /\ doy = s + d - 1
    BY <1>3, <1>5, <1>9
  <2> HIDE DEF w, r, s
  <2>4. DaysFromCivil(y, m, d) = z - Epoch
    BY <2>1, <2>2, <2>3, CalendarConstants
  <2> QED
    BY <1>2, <2>4, CalendarConstants
<1> QED
  BY <1>1, <1>10, <1>11, <1>14, <1>17

-----------------------------------------------------------------------------
(* Moments.  The code counts seconds; Calendar has a day and a second of it. *)

Moments == Int \X (0 .. DaySeconds - 1)
Count(t) == t[1] * DaySeconds + t[2]

LEMMA CountOrder ==
    ASSUME NEW a \in Int, NEW x \in 0 .. DaySeconds - 1,
           NEW b \in Int, NEW y \in 0 .. DaySeconds - 1
    PROVE  (a < b \/ (a = b /\ x < y)) <=> a * DaySeconds + x < b * DaySeconds + y
BY SMTT(30) DEF DaySeconds

LEMMA Carry ==
    ASSUME NEW a \in Int, NEW x \in 0 .. DaySeconds - 1, NEW s \in Int
    PROVE  /\ a + (x + s) \div DaySeconds \in Int /\ (x + s) % DaySeconds \in 0 .. DaySeconds - 1
           /\ (a + (x + s) \div DaySeconds) * DaySeconds + ((x + s) % DaySeconds)
                  = (a * DaySeconds + x) + s
<1> DEFINE n == x + s
           q == n \div DaySeconds
           r == n % DaySeconds
<1>1. n \in Int /\ n = x + s
  BY SMT DEF DaySeconds
<1> HIDE DEF n
<1>2. q \in Int /\ r \in Int /\ r >= 0 /\ r < DaySeconds /\ n = q * DaySeconds + r
  <2>1. q = n \div 86400 /\ r = n % 86400
    BY SMT DEF DaySeconds
  <2>2. q \in Int /\ r \in Int /\ r >= 0 /\ r < 86400 /\ n = q * 86400 + r
    <3> HIDE DEF q, r
    <3> QED
      BY <1>1, <2>1, SMTT(30)
  <2> QED
    BY <2>2, SMT DEF DaySeconds
<1> HIDE DEF q, r
<1>3. a + q \in Int /\ (a + q) * DaySeconds + r = (a * DaySeconds + x) + s
  <2>1. (a + q) * 86400 + r = (a * 86400 + x) + s
    BY <1>1, <1>2, SMTT(30) DEF DaySeconds
  <2> QED
    BY <1>2, <2>1, SMT DEF DaySeconds
<1>4. r \in 0 .. DaySeconds - 1
  <2>1. DaySeconds \in Int
    BY SMT DEF DaySeconds
  <2> QED
    BY <1>2, <2>1
<1> QED
  BY <1>3, <1>4 DEF n, q, r

\* Later is the addition timeadd makes on its count of seconds, whichever days the
\* duration crosses and in both directions, and Earlier is the order timecmp takes
\* of two counts: the pairs lose nothing of what the code computes with.
THEOREM MomentsAreCounts ==
    ASSUME NEW t \in Moments, NEW u \in Moments, NEW s \in Int
    PROVE  /\ Later(t, s) \in Moments /\ Count(Later(t, s)) = Count(t) + s
           /\ Earlier(t, u) <=> Count(t) < Count(u)
<1>1. PICK a \in Int, x \in 0 .. DaySeconds - 1 : t = <<a, x>>
  BY DEF Moments
<1>2. PICK b \in Int, y \in 0 .. DaySeconds - 1 : u = <<b, y>>
  BY DEF Moments
<1> DEFINE q == (x + s) \div DaySeconds
           r == (x + s) % DaySeconds
<1>3. Later(t, s) = <<a + q, r>>
  BY <1>1 DEF Later
<1>4. a + q \in Int /\ r \in 0 .. DaySeconds - 1
  BY Carry, Zenon
<1>5. (a + q) * DaySeconds + r = (a * DaySeconds + x) + s
  BY Carry, Zenon
<1>6. (a < b \/ (a = b /\ x < y)) <=> a * DaySeconds + x < b * DaySeconds + y
  BY CountOrder
<1> HIDE DEF q, r
<1>7. Later(t, s) \in Moments
  BY <1>3, <1>4 DEF Moments
<1>8. Count(Later(t, s)) = Count(t) + s
  BY <1>1, <1>3, <1>5 DEF Count
<1>9. Earlier(t, u) <=> Count(t) < Count(u)
  BY <1>1, <1>2, <1>6 DEF Earlier, Count
<1> QED
  BY <1>7, <1>8, <1>9
=============================================================================
