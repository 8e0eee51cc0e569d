------------------------ MODULE CounterfactualProofs ------------------------
(***************************************************************************)
(* Theorems of what surrounds a run: the calendar and the numbers of       *)
(* Library, the grid of Offline and the replay of Counterfactual.          *)
(*                                                                         *)
(* The calendar: dates and timestamps are inverse to each other, whatever  *)
(* dates, timestamps and time zones there are.                             *)
(*                                                                         *)
(* The numbers, for every width, float format and notation: comparisons    *)
(* are coherent across families, quotients, remainders and means are       *)
(* exact, and conversions lose nothing but what they must.                 *)
(*                                                                         *)
(* The grid, for every list of rates: it is exact, its base the least one. *)
(*                                                                         *)
(* The replay, for every project, log and set of overrides: the walk       *)
(* collects exactly the downstream cone, topo_order puts writers first     *)
(* wherever no cycle feeds them, a cone function never finds a value of    *)
(* another world in the store, and the trace says of every sample whether  *)
(* it came from outside.                                                   *)
(***************************************************************************)
EXTENDS Offline, Counterfactual, FiniteSetTheorems, SequenceTheorems,
        WellFoundedInduction, TLAPS

-----------------------------------------------------------------------------
(* Numbers.                                                                *)
LEMMA Quotients ==
  ASSUME NEW base \in Nat, base > 0, NEW high \in Int, NEW low \in Nat, low < base
  PROVE  /\ (high * base + low) % base = low
         /\ (high * base + low) \div base = high
  BY SMT

LEMMA Split ==
  ASSUME NEW a \in Int, NEW W \in Nat, W > 0
  PROVE  \E q \in Int, r \in Nat :
           r < W /\ a = q * W + r /\ a \div W = q /\ a % W = r
<1>q. PICK q : q = a \div W
  OBVIOUS
<1>r. PICK r : r = a % W
  OBVIOUS
<1>1. q \in Int /\ r \in Nat /\ r < W
  BY <1>q, <1>r, SMT
<1>2. a = W * q + r
  BY <1>q, <1>r, SMT
<1> QED BY <1>q, <1>r, <1>1, <1>2, SMT

-----------------------------------------------------------------------------
(* The calendar: eras of 400 years of March to February.  Large numbers    *)
(* have names, as some provers spell them out.                             *)
EraDays     == 146097
CenturyDays == 36524
FourYears   == 1461
CommonYear  == 365

(* The days of an era before its year y; and whether that one ends with    *)
(* 29 February.                                                            *)
YearStart(y)  == 365 * y + y \div 4 - y \div 100
Long(y)       == (y + 1) % 4 = 0 /\ ((y + 1) % 100 # 0 \/ (y + 1) % 400 = 0)
YearLength(y) == 365 + (IF Long(y) THEN 1 ELSE 0)

LEMMA YearsFollow ==
  ASSUME NEW y \in 0..399
  PROVE  /\ YearStart(y) \in Nat /\ YearLength(y) \in 365..366
         /\ y < 399 => YearStart(y + 1) = YearStart(y) + YearLength(y)
         /\ y = 399 => YearStart(y) + YearLength(y) = EraDays
BY SMT DEF YearStart, YearLength, Long, EraDays

LEMMA YearsClimb ==
  ASSUME NEW y \in 0..399, NEW z \in 0..399, y < z
  PROVE  YearStart(y) + YearLength(y) <= YearStart(z)
BY SMT DEF YearStart, YearLength, Long

(* A day of an era lies in a century, in a span of four years of it, in a  *)
(* year of that: the last of each may be longer by one day.                *)
LEMMA DayInParts ==
  ASSUME NEW doe \in Nat, doe < EraDays
  PROVE  \E a \in 0..3, b \in 0..24, c \in 0..3, k \in 0..CommonYear :
           /\ doe = CenturyDays * a + FourYears * b + CommonYear * c + k
           /\ k = CommonYear => c = 3 /\ (b < 24 \/ a = 3)
<1>w. /\ CenturyDays \in Nat /\ CenturyDays > 0 /\ FourYears \in Nat /\ FourYears > 0
      /\ CommonYear \in Nat /\ CommonYear > 0 /\ doe \in Int
  BY SMT DEF CenturyDays, FourYears, CommonYear
<1>1. PICK a \in 0..3, r \in Nat :
        doe = CenturyDays * a + r /\ r <= CenturyDays /\ (r = CenturyDays => a = 3)
  <2>1. CASE doe = EraDays - 1
    <3>1. 3 \in 0..3 /\ doe = CenturyDays * 3 + CenturyDays
      BY <2>1, SMT DEF CenturyDays, EraDays
    <3> QED BY <1>w, <3>1
  <2>2. CASE doe # EraDays - 1
    <3>1. PICK q \in Int, r \in Nat : r < CenturyDays /\ doe = q * CenturyDays + r
      BY <1>w, Split, Zenon
    <3>2. q \in 0..3 /\ doe = CenturyDays * q + r /\ r <= CenturyDays /\ r # CenturyDays
      BY <2>2, <3>1, SMT DEF CenturyDays, EraDays
    <3> QED BY <3>1, <3>2
  <2> QED BY <2>1, <2>2
<1>2. PICK b \in 0..24, s \in Nat :
        r = FourYears * b + s /\ s < FourYears /\ (s = FourYears - 1 => b < 24 \/ a = 3)
  <2>0. r \in Int
    BY SMT
  <2>1. PICK q \in Int, s \in Nat : s < FourYears /\ r = q * FourYears + s
    BY <1>w, <2>0, Split, Zenon
  <2>2. /\ q \in 0..24 /\ r = FourYears * q + s
        /\ s = FourYears - 1 => q < 24 \/ a = 3
    BY <1>1, <2>1, SMT DEF CenturyDays, FourYears
  <2> QED BY <2>1, <2>2, Zenon
<1>3. PICK c \in 0..3, k \in 0..CommonYear :
        s = CommonYear * c + k /\ (k = CommonYear => c = 3 /\ s = FourYears - 1)
  <2>1. CASE s = FourYears - 1
    <3>1. 3 \in 0..3 /\ CommonYear \in 0..CommonYear /\ s = CommonYear * 3 + CommonYear
      BY <2>1, SMT DEF FourYears, CommonYear
    <3> QED BY <2>1, <3>1, Zenon
  <2>2. CASE s # FourYears - 1
    <3>0. s \in Int
      BY SMT
    <3>1. PICK q \in Int, k \in Nat : k < CommonYear /\ s = q * CommonYear + k
      BY <1>w, <3>0, Split, Zenon
    <3>2. q \in 0..3 /\ k \in 0..CommonYear /\ s = CommonYear * q + k /\ k # CommonYear
      BY <1>2, <2>2, <3>1, SMT DEF FourYears, CommonYear
    <3> QED BY <3>2, Zenon
  <2> QED BY <2>1, <2>2, Zenon
<1>4. doe = CenturyDays * a + FourYears * b + CommonYear * c + k
  BY <1>w, <1>1, <1>2, <1>3, SMT
<1>5. k = CommonYear => c = 3 /\ (b < 24 \/ a = 3)
  BY <1>2, <1>3, Zenon
<1> QED BY <1>4, <1>5, Zenon

(* civil_from_days: the year of a day of an era.                           *)
YearOf(doe) == (doe - doe \div 1460 + doe \div 36524 - doe \div 146096) \div 365

LEMMA YearFound ==
  ASSUME NEW doe \in Nat, doe < EraDays
  PROVE  /\ YearOf(doe) \in 0..399
         /\ YearStart(YearOf(doe)) <= doe
         /\ doe < YearStart(YearOf(doe)) + YearLength(YearOf(doe))
<1>0. PICK a \in 0..3, b \in 0..24, c \in 0..3, k \in 0..CommonYear :
        /\ doe = CenturyDays * a + FourYears * b + CommonYear * c + k
        /\ k = CommonYear => c = 3 /\ (b < 24 \/ a = 3)
  BY DayInParts, Zenon
<1>1. /\ doe = CenturyDays * a + FourYears * b + 365 * c + k
      /\ k \in 0..365
      /\ k = 365 => c = 3 /\ (b < 24 \/ a = 3)
  BY <1>0, SMT DEF CommonYear
<1> DEFINE y == 100 * a + 4 * b + c
<1>2. y \in 0..399
  BY SMT
<1>3. YearStart(y) = CenturyDays * a + FourYears * b + 365 * c
  <2>1. y \div 4 = 25 * a + b
    <3>1. y = (25 * a + b) * 4 + c /\ 25 * a + b \in Int /\ c \in Nat /\ c < 4
      BY SMT
    <3> QED BY <3>1, Quotients, SMT
  <2>2. y \div 100 = a
    <3>1. y = a * 100 + (4 * b + c) /\ 4 * b + c \in Nat /\ 4 * b + c < 100
      BY SMT
    <3> QED BY <3>1, Quotients, SMT
  <2> QED BY <2>1, <2>2, SMT DEF YearStart, CenturyDays, FourYears
<1>4. Long(y) <=> c = 3 /\ (b < 24 \/ a = 3)
  <2>1. (y + 1) % 4 = 0 <=> c = 3
    BY SMT
  <2>2. (y + 1) % 100 = 0 <=> c = 3 /\ b = 24
    BY SMT
  <2>3. (y + 1) % 400 = 0 <=> c = 3 /\ b = 24 /\ a = 3
    BY SMT
  <2> QED BY <2>1, <2>2, <2>3, SMT DEF Long
<1>5. PICK e \in 0..1 : doe \div 36524 = a + e /\ doe \div 146096 = e
  <2>1. CASE doe = 146096
    <3>1. doe \div 36524 = 4 /\ doe \div 146096 = 1
      BY <2>1, SMT
    <3>2. a = 3
      BY <1>1, <2>1, SMT DEF CenturyDays, FourYears
    <3> QED BY <3>1, <3>2, SMT
  <2>2. CASE doe # 146096
    <3>1. /\ doe = a * 36524 + (FourYears * b + 365 * c + k)
          /\ FourYears * b + 365 * c + k \in Nat /\ FourYears * b + 365 * c + k < 36524
      BY <1>1, <2>2, SMT DEF CenturyDays, FourYears, EraDays
    <3>2. doe \div 36524 = a
      BY <3>1, Quotients, SMT
    <3>3. doe \div 146096 = 0
      BY <2>2, SMT DEF EraDays
    <3> QED BY <3>2, <3>3, SMT
  <2> QED BY <2>1, <2>2, SMT
<1> DEFINE rest == 24 * a + b + 365 * c + k
           d    == IF rest < 1460 THEN 0 ELSE 1
<1>6. d \in 0..1 /\ doe \div 1460 = 25 * a + b + d /\ 0 <= k - d /\ k - d < 365
  <2>1. doe = (25 * a + b) * 1460 + rest /\ rest \in Nat
    BY <1>1, SMT DEF CenturyDays, FourYears
  <2>2. rest < 1460 => k < 365
    BY <1>1, SMT
  <2>3. ~(rest < 1460) => k > 0 /\ rest - 1460 \in Nat /\ rest - 1460 < 1460
    BY <1>1, SMT
  <2>4. 25 * a + b \in Int /\ 25 * a + b + 1 \in Int /\ k \in Nat /\ k <= 365
    BY <1>1, SMT
  <2> HIDE DEF rest
  <2>5. CASE rest < 1460
    <3>1. doe \div 1460 = 25 * a + b
      BY <2>1, <2>4, <2>5, Quotients, SMT
    <3> QED BY <2>2, <2>4, <2>5, <3>1, SMT
  <2>6. CASE ~(rest < 1460)
    <3>1. doe = (25 * a + b + 1) * 1460 + (rest - 1460)
      BY <2>1, <2>6, SMT
    <3>2. doe \div 1460 = 25 * a + b + 1
      BY <2>3, <2>4, <2>6, <3>1, Quotients, SMT
    <3> QED BY <2>3, <2>4, <2>6, <3>2, SMT
  <2> QED BY <2>5, <2>6
<1> HIDE DEF d
<1>7. YearOf(doe) = y
  <2>1. doe - doe \div 1460 + doe \div 36524 - doe \div 146096 = y * 365 + (k - d)
    BY <1>1, <1>5, <1>6, SMT DEF CenturyDays, FourYears
  <2>2. (y * 365 + (k - d)) \div 365 = y
    <3>1. k - d \in Nat /\ y \in Int /\ k - d < 365
      BY <1>6, SMT
    <3> HIDE DEF y
    <3> QED BY <3>1, Quotients, SMT
  <2> QED BY <2>1, <2>2, SMT DEF YearOf
<1>8. k < YearLength(y)
  BY <1>1, <1>4, SMT DEF YearLength
<1>9. doe = YearStart(y) + k
  BY <1>1, <1>3, SMT DEF CenturyDays, FourYears
<1> HIDE DEF y
<1>10. YearStart(y) \in Nat /\ YearLength(y) \in 365..366
  BY <1>2, YearsFollow, Zenon
<1> QED BY <1>2, <1>7, <1>8, <1>9, <1>10, SMT

LEMMA YearIsUnique ==
  ASSUME NEW y \in 0..399, NEW doe \in Nat,
         YearStart(y) <= doe, doe < YearStart(y) + YearLength(y)
  PROVE  doe < EraDays /\ YearOf(doe) = y
<1>1. doe < EraDays
  <2>1. YearStart(y) + YearLength(y) <= EraDays
    BY SMT DEF YearStart, YearLength, Long, EraDays
  <2>2. YearStart(y) \in Nat /\ YearLength(y) \in 365..366
    BY YearsFollow, Zenon
  <2>3. EraDays \in Int
    BY SMT DEF EraDays
  <2> QED BY <2>1, <2>2, <2>3, SMT
<1> DEFINE z == YearOf(doe)
<1>2. z \in 0..399 /\ YearStart(z) <= doe /\ doe < YearStart(z) + YearLength(z)
  BY <1>1, YearFound, Zenon
<1> HIDE DEF z
<1>3. /\ YearStart(y) \in Nat /\ YearLength(y) \in 365..366
      /\ YearStart(z) \in Nat /\ YearLength(z) \in 365..366
  BY <1>2, YearsFollow, ZenonT(60)
<1>4. ~(y < z)
  <2>1. y < z => YearStart(y) + YearLength(y) <= YearStart(z)
    BY <1>2, YearsClimb, Zenon
  <2> QED BY <1>2, <1>3, <2>1, SMT
<1>5. ~(z < y)
  <2>1. z < y => YearStart(z) + YearLength(z) <= YearStart(y)
    BY <1>2, YearsClimb, Zenon
  <2> QED BY <1>2, <1>3, <2>1, SMT
<1>6. z = y
  BY <1>2, <1>4, <1>5, SMT
<1> QED BY <1>1, <1>6 DEF z

-----------------------------------------------------------------------------
(* Months, from March; the last one of a year is as long as the year says. *)
MonthStart(p)     == (153 * p + 2) \div 5
MonthOf(doy)      == (5 * doy + 2) \div 153
MonthLength(y, p) == IF p = 11 THEN YearLength(y) - 337
                     ELSE IF p \in {1, 3, 6, 8} THEN 30 ELSE 31

LEMMA MonthStarts ==
  ASSUME NEW p \in 0..11
  PROVE  MonthStart(p) \in Nat
BY SMT DEF MonthStart

LEMMA MonthsFollow ==
  ASSUME NEW y \in 0..399, NEW p \in 0..11
  PROVE  /\ MonthStart(p) \in Nat /\ MonthLength(y, p) \in 28..31
         /\ MonthStart(0) = 0
         /\ p < 11 => MonthStart(p + 1) = MonthStart(p) + MonthLength(y, p)
         /\ p = 11 => YearLength(y) = MonthStart(p) + MonthLength(y, p)
         /\ MonthStart(p) + MonthLength(y, p) <= YearLength(y)
<1>1. YearLength(y) \in 365..366
  BY YearsFollow, Zenon
<1> QED BY <1>1, SMT DEF MonthStart, MonthLength

LEMMA MonthFound ==
  ASSUME NEW y \in 0..399, NEW doy \in Nat, doy < YearLength(y)
  PROVE  /\ MonthOf(doy) \in 0..11
         /\ MonthStart(MonthOf(doy)) <= doy
         /\ doy < MonthStart(MonthOf(doy)) + MonthLength(y, MonthOf(doy))
<1>1. YearLength(y) \in 365..366
  BY YearsFollow, Zenon
<1> QED BY <1>1, SMT DEF MonthStart, MonthLength, MonthOf

LEMMA MonthIsUnique ==
  ASSUME NEW y \in 0..399, NEW p \in 0..11, NEW k \in Nat, k < MonthLength(y, p)
  PROVE  MonthOf(MonthStart(p) + k) = p /\ MonthStart(p) + k < YearLength(y)
<1>1. YearLength(y) \in 365..366
  BY YearsFollow, Zenon
<1> QED BY <1>1, SMT DEF MonthStart, MonthLength, MonthOf

-----------------------------------------------------------------------------
(* A day and a date, by era, year of it, month and day of that.            *)
Lies(e, y, p, k) == /\ e \in Int /\ y \in 0..399 /\ p \in 0..11 /\ k \in Nat
                    /\ k < MonthLength(y, p)
DayOf(e, y, p, k)  == EraDays * e + YearStart(y) + MonthStart(p) + k - 719468
DateOf(e, y, p, k) == [year  |-> y + e * 400 + (IF p < 10 THEN 0 ELSE 1),
                       month |-> IF p < 10 THEN p + 2 ELSE p - 10,
                       day   |-> k + 1]

LEMMA EraOf ==
  ASSUME NEW e \in Int, NEW doe \in Nat, doe < EraDays
  PROVE  (e * EraDays + doe) \div EraDays = e /\ (e * EraDays + doe) % EraDays = doe
<1>1. EraDays \in Nat /\ EraDays > 0
  BY SMT DEF EraDays
<1> QED BY <1>1, Quotients, Zenon

(* civil_from_days of the day of a date is that date.                      *)
LEMMA DayIsDated ==
  ASSUME NEW e, NEW y, NEW p, NEW k, Lies(e, y, p, k)
  PROVE  CivilFromDays(DayOf(e, y, p, k)) = DateOf(e, y, p, k)
<1> DEFINE doy == MonthStart(p) + k
           doe == YearStart(y) + doy
<1>0. e \in Int /\ y \in 0..399 /\ p \in 0..11 /\ k \in Nat /\ k < MonthLength(y, p)
  BY DEF Lies
<1>1. doy < YearLength(y) /\ MonthOf(doy) = p
  BY <1>0, MonthIsUnique, Zenon
<1>2. MonthStart(p) \in Nat /\ YearStart(y) \in Nat /\ YearLength(y) \in 365..366
  <2>1. MonthStart(p) \in Nat
    BY <1>0, MonthStarts, Zenon
  <2>2. YearStart(y) \in Nat /\ YearLength(y) \in 365..366
    BY <1>0, YearsFollow, Zenon
  <2> QED BY <2>1, <2>2
<1>3. doy \in Nat /\ doe \in Nat /\ YearStart(y) <= doe /\ doe < YearStart(y) + YearLength(y)
  BY <1>0, <1>1, <1>2, SMT
<1>4. doe < EraDays /\ YearOf(doe) = y
  <2> HIDE DEF doe
  <2> QED BY <1>0, <1>3, YearIsUnique, Zenon
<1>5. DayOf(e, y, p, k) + 719468 = e * EraDays + doe
  <2>1. EraDays * e = e * EraDays /\ e * EraDays \in Int
    BY <1>0, SMT DEF EraDays
  <2> QED BY <1>0, <1>2, <2>1, SMT DEF DayOf
<1>6. doe - YearStart(y) = doy /\ doy - MonthStart(p) + 1 = k + 1
  BY <1>0, <1>2, SMT
<1> HIDE DEF doe, doy
<1>7. (e * EraDays + doe) \div EraDays = e /\ (e * EraDays + doe) % EraDays = doe
  BY <1>0, <1>3, <1>4, EraOf, Zenon
<1> DEFINE n == DayOf(e, y, p, k)
<1>8. (n + 719468) \div 146097 = e /\ (n + 719468) % 146097 = doe
  BY <1>5, <1>7, SMT DEF EraDays
<1> HIDE DEF n
<1>9. CivilFromDays(n) =
        LET month == IF p < 10 THEN p + 2 ELSE p - 10
        IN  [year  |-> y + e * 400 + (IF month <= 1 THEN 1 ELSE 0), month |-> month,
             day   |-> k + 1]
  BY <1>1, <1>4, <1>6, <1>8, SMT DEF CivilFromDays, YearOf, YearStart, MonthOf, MonthStart
<1>10. (IF p < 10 THEN p + 2 ELSE p - 10) <= 1 <=> ~(p < 10)
  BY <1>0, SMT
<1> QED BY <1>9, <1>10 DEF n, DateOf

(* days_from_civil of a date, which there is, is its day.                  *)
LEMMA DateIsReckoned ==
  ASSUME NEW e, NEW y, NEW p, NEW k, Lies(e, y, p, k),
         NEW c, c = DateOf(e, y, p, k)
  PROVE  /\ c.year \in Int /\ c.month \in 0..11 /\ c.day \in 1..DaysInMonth(c.year, c.month)
         /\ DaysFromCivil(c.year, c.month, c.day) = DayOf(e, y, p, k)
<1>0. e \in Int /\ y \in 0..399 /\ p \in 0..11 /\ k \in Nat /\ k < MonthLength(y, p)
  BY DEF Lies
<1> DEFINE year == c.year
           month == c.month
           day == c.day
<1>1. /\ year = y + e * 400 + (IF p < 10 THEN 0 ELSE 1)
      /\ month = (IF p < 10 THEN p + 2 ELSE p - 10)
      /\ day = k + 1
  BY SMT DEF DateOf
<1> HIDE DEF year, month, day
<1>2. year \in Int /\ month \in 0..11 /\ day \in Nat /\ day >= 1
  BY <1>0, <1>1, SMT
<1>3. (IF month <= 1 THEN year - 1 ELSE year) = e * 400 + y
  BY <1>0, <1>1, SMT
<1>4. (IF month > 1 THEN month - 2 ELSE month + 10) = p
  BY <1>0, <1>1, SMT
<1>5. (e * 400 + y) \div 400 = e /\ (e * 400 + y) % 400 = y
  BY <1>0, SMT
<1>6. MonthLength(y, p) = DaysInMonth(year, month)
  <2>1. month = 1 => (IsLeapYear(year) <=> Long(y))
    <3>1. month = 1 => year = e * 400 + (y + 1)
      BY <1>0, <1>1, SMT
    <3>2. /\ (e * 400 + (y + 1)) % 4 = (y + 1) % 4
          /\ (e * 400 + (y + 1)) % 100 = (y + 1) % 100
          /\ (e * 400 + (y + 1)) % 400 = (y + 1) % 400
      BY <1>0, SMT
    <3> QED BY <3>1, <3>2, SMT DEF IsLeapYear, Long
  <2>2. /\ month = 1 <=> p = 11
        /\ month \in {3, 5, 8, 10} <=> p \in {1, 3, 6, 8}
    BY <1>0, <1>1, SMT
  <2> QED BY <2>1, <2>2, SMT DEF MonthLength, DaysInMonth, YearLength
<1>7. day \in 1..DaysInMonth(year, month)
  <2>1. MonthLength(y, p) \in 28..31
    BY <1>0, MonthsFollow, Zenon
  <2> QED BY <1>0, <1>1, <1>2, <1>6, <2>1, SMT
<1>8. DaysFromCivil(year, month, day) = DayOf(e, y, p, k)
  <2>1. DaysFromCivil(year, month, day) =
          e * 146097 + y * 365 + y \div 4 - y \div 100 + ((153 * p + 2) \div 5 + day - 1) - 719468
    <3> DEFINE march == IF month <= 1 THEN year - 1 ELSE year
               prime == IF month > 1 THEN month - 2 ELSE month + 10
    <3>1. march \div 400 = e /\ march % 400 = y /\ prime = p
      BY <1>3, <1>4, <1>5
    <3>2. DaysFromCivil(year, month, day) =
            (march \div 400) * 146097 + (march % 400) * 365 + (march % 400) \div 4
               - (march % 400) \div 100 + ((153 * prime + 2) \div 5 + day - 1) - 719468
      <4>1. month \in 0..11 /\ day \in 1..DaysInMonth(year, month)
        BY <1>2, <1>7
      <4> QED BY <4>1 DEF DaysFromCivil
    <3> HIDE DEF march, prime
    <3> QED BY <3>1, <3>2
  <2>2. MonthStart(p) \in Nat
    BY <1>0, MonthStarts, Zenon
  <2> QED BY <1>0, <1>1, <2>1, <2>2, SMT DEF DayOf, YearStart, MonthStart, EraDays
<1> QED BY <1>2, <1>7, <1>8 DEF year, month, day

LEMMA EveryDayLies ==
  ASSUME NEW n \in Int
  PROVE  \E e, y, p, k : Lies(e, y, p, k) /\ n = DayOf(e, y, p, k)
<1> DEFINE days == n + 719468
<1>d. n = days - 719468
  BY SMT
<1>0. EraDays \in Nat /\ EraDays > 0 /\ days \in Int
  BY SMT DEF EraDays
<1> HIDE DEF days
<1>1. PICK e \in Int, doe \in Nat : doe < EraDays /\ days = e * EraDays + doe
  BY <1>0, Split, Zenon
<1> DEFINE y == YearOf(doe)
<1>2. y \in 0..399 /\ YearStart(y) <= doe /\ doe < YearStart(y) + YearLength(y)
  BY <1>1, YearFound, Zenon
<1> HIDE DEF y
<1>3. YearStart(y) \in Nat /\ YearLength(y) \in 365..366
  BY <1>2, YearsFollow, Zenon
<1> DEFINE doy == doe - YearStart(y)
<1>4. doy \in Nat /\ doy < YearLength(y) /\ doe = YearStart(y) + doy
  BY <1>2, <1>3, SMT
<1> HIDE DEF doy
<1> DEFINE p == MonthOf(doy)
<1>5. p \in 0..11 /\ MonthStart(p) <= doy /\ doy < MonthStart(p) + MonthLength(y, p)
  BY <1>2, <1>4, MonthFound, Zenon
<1> HIDE DEF p
<1>6. MonthStart(p) \in Nat /\ MonthLength(y, p) \in 28..31
  BY <1>2, <1>5, MonthStarts, MonthsFollow, Zenon
<1> DEFINE k == doy - MonthStart(p)
<1>7. k \in Nat /\ k < MonthLength(y, p) /\ doy = MonthStart(p) + k
  BY <1>4, <1>5, <1>6, SMT
<1> HIDE DEF k
<1>8. n = DayOf(e, y, p, k)
  <2>1. e * EraDays = EraDays * e /\ e * EraDays \in Int
    BY <1>1, SMT DEF EraDays
  <2> QED BY <1>d, <1>1, <1>3, <1>4, <1>6, <1>7, <2>1, SMT DEF DayOf
<1>9. Lies(e, y, p, k)
  BY <1>1, <1>2, <1>5, <1>7 DEF Lies
<1> QED BY <1>8, <1>9

LEMMA EveryDateLies ==
  ASSUME NEW year \in Int, NEW month \in 0..11, NEW day \in 1..DaysInMonth(year, month)
  PROVE  \E e, y, p, k : /\ Lies(e, y, p, k)
                         /\ DateOf(e, y, p, k) = [year |-> year, month |-> month, day |-> day]
<1> DEFINE march == IF month <= 1 THEN year - 1 ELSE year
           p     == IF month > 1 THEN month - 2 ELSE month + 10
           k     == day - 1
<1>1. march \in Int
  BY SMT
<1>2. PICK e \in Int, y \in 0..399 : march = e * 400 + y
  <2> DEFINE W == 400
  <2>1. W \in Nat /\ W > 0
    BY SMT
  <2> HIDE DEF march, W
  <2>2. PICK e \in Int, y \in Nat : y < W /\ march = e * W + y
    BY <1>1, <2>1, Split, Zenon
  <2> QED BY <2>2, SMT DEF W
<1>3. /\ p \in 0..11
      /\ month = (IF p < 10 THEN p + 2 ELSE p - 10)
      /\ year = march + (IF p < 10 THEN 0 ELSE 1)
      /\ month = 1 <=> p = 11
      /\ month \in {3, 5, 8, 10} <=> p \in {1, 3, 6, 8}
  BY SMT
<1>4. MonthLength(y, p) = DaysInMonth(year, month)
  <2> HIDE DEF march, p
  <2>1. month = 1 => (IsLeapYear(year) <=> Long(y))
    <3>1. month = 1 => year = e * 400 + (y + 1)
      BY <1>2, <1>3, SMT
    <3>2. /\ (e * 400 + (y + 1)) % 4 = (y + 1) % 4
          /\ (e * 400 + (y + 1)) % 100 = (y + 1) % 100
          /\ (e * 400 + (y + 1)) % 400 = (y + 1) % 400
      BY <1>2, SMT
    <3> QED BY <3>1, <3>2, SMT DEF IsLeapYear, Long
  <2> QED BY <1>3, <2>1, SMT DEF MonthLength, DaysInMonth, YearLength
<1>5. k \in Nat /\ k < DaysInMonth(year, month) /\ day = k + 1
  <2>1. DaysInMonth(year, month) \in Nat
    BY SMT DEF DaysInMonth
  <2> QED BY <2>1, SMT
<1> HIDE DEF march, p, k
<1>6. Lies(e, y, p, k)
  BY <1>2, <1>3, <1>4, <1>5 DEF Lies
<1>7. DateOf(e, y, p, k) = [year |-> year, month |-> month, day |-> day]
  <2>1. year = y + e * 400 + (IF p < 10 THEN 0 ELSE 1)
    BY <1>2, <1>3, SMT
  <2> QED BY <1>3, <1>5, <2>1 DEF DateOf
<1> QED BY <1>6, <1>7

(* civil_from_days and days_from_civil are inverse to each other.          *)
LEMMA DayIsFound ==
  ASSUME NEW n \in Int, NEW c, c = CivilFromDays(n)
  PROVE  /\ c.year \in Int /\ c.month \in 0..11 /\ c.day \in 1..DaysInMonth(c.year, c.month)
         /\ DaysFromCivil(c.year, c.month, c.day) = n
<1>1. PICK e, y, p, k : Lies(e, y, p, k) /\ n = DayOf(e, y, p, k)
  BY EveryDayLies, Zenon
<1>2. c = DateOf(e, y, p, k)
  BY <1>1, DayIsDated, Zenon
<1> QED BY <1>1, <1>2, DateIsReckoned, Zenon

LEMMA DayIsNumber ==
  ASSUME NEW year \in Int, NEW month \in Int, NEW day \in Int
  PROVE  DaysFromCivil(year, month, day) \in Int
BY SMT DEF DaysFromCivil, NoDay

LEMMA DateIsFound ==
  ASSUME NEW year \in Int, NEW month \in 0..11, NEW day \in 1..DaysInMonth(year, month)
  PROVE  /\ DaysFromCivil(year, month, day) \in Int
         /\ CivilFromDays(DaysFromCivil(year, month, day))
              = [year |-> year, month |-> month, day |-> day]
<1> DEFINE c == [year |-> year, month |-> month, day |-> day]
<1>1. PICK e, y, p, k : Lies(e, y, p, k) /\ DateOf(e, y, p, k) = c
  BY EveryDateLies, Zenon
<1>2. DaysFromCivil(c.year, c.month, c.day) = DayOf(e, y, p, k)
  <2> HIDE DEF c
  <2> QED BY <1>1, DateIsReckoned, Zenon
<1>3. CivilFromDays(DayOf(e, y, p, k)) = c
  BY <1>1, DayIsDated, Zenon
<1>4. DaysFromCivil(year, month, day) \in Int
  BY DayIsNumber
<1> QED BY <1>2, <1>3, <1>4

(* A date of the first century on has a day that no failure stands for.    *)
LEMMA DayIsNoFailure ==
  ASSUME NEW e, NEW y, NEW p, NEW k, Lies(e, y, p, k), e >= 0
  PROVE  DayOf(e, y, p, k) # NoDay
<1>0. e \in Int /\ y \in 0..399 /\ p \in 0..11 /\ k \in Nat
  BY DEF Lies
<1>1. MonthStart(p) \in Nat
  BY <1>0, MonthStarts, Zenon
<1>2. YearStart(y) \in Nat
  BY <1>0, YearsFollow, Zenon
<1> QED BY <1>0, <1>1, <1>2, SMT DEF DayOf, NoDay, EraDays

LEMMA DayAfterYear ==
  ASSUME NEW n \in Int, CivilFromDays(n).year >= 1
  PROVE  n # NoDay
<1>1. PICK e, y, p, k : Lies(e, y, p, k) /\ n = DayOf(e, y, p, k)
  BY EveryDayLies, Zenon
<1>2. CivilFromDays(n) = DateOf(e, y, p, k)
  BY <1>1, DayIsDated, Zenon
<1>3. y + e * 400 + (IF p < 10 THEN 0 ELSE 1) >= 1
  BY <1>2 DEF DateOf
<1>4. e >= 0
  BY <1>1, <1>3, SMT DEF Lies
<1> QED BY <1>1, <1>4, DayIsNoFailure, Zenon

(* The day after: the next of its month, or the first of the next month,   *)
(* which is that of the next year if this one is 31 December.              *)
Succeeds(c, d) ==
    /\ c.year \in Int /\ c.month \in 0..11 /\ c.day \in Nat
    /\ \/ d.year = c.year /\ d.month = c.month /\ d.day = c.day + 1
       \/ d.year = c.year /\ d.month = c.month + 1 /\ c.month < 11 /\ d.day = 1
       \/ /\ d.year = c.year + 1 /\ d.month = 0 /\ d.day = 1
          /\ c.month = 11 /\ c.day = 31

LEMMA DaysSucceed ==
  ASSUME NEW n \in Int
  PROVE  Succeeds(CivilFromDays(n), CivilFromDays(n + 1))
<1> DEFINE c == CivilFromDays(n)
           d == CivilFromDays(n + 1)
<1>1. PICK e, y, p, k : Lies(e, y, p, k) /\ n = DayOf(e, y, p, k)
  BY EveryDayLies, Zenon
<1>2. c = DateOf(e, y, p, k)
  BY <1>1, DayIsDated, Zenon
<1> HIDE DEF c
<1>3. /\ e \in Int /\ y \in 0..399 /\ p \in 0..11 /\ k \in Nat
      /\ k < MonthLength(y, p)
  BY <1>1 DEF Lies
<1>4. /\ MonthStart(p) \in Nat /\ MonthLength(y, p) \in 28..31
      /\ MonthStart(0) = 0
      /\ p < 11 => MonthStart(p + 1) = MonthStart(p) + MonthLength(y, p)
      /\ p = 11 => YearLength(y) = MonthStart(p) + MonthLength(y, p)
      /\ MonthStart(p) + MonthLength(y, p) <= YearLength(y)
  BY <1>3, MonthsFollow, Zenon
<1>5. /\ YearStart(y) \in Nat /\ YearLength(y) \in 365..366
      /\ y < 399 => YearStart(y + 1) = YearStart(y) + YearLength(y)
      /\ y = 399 => YearStart(y) + YearLength(y) = EraDays
  BY <1>3, YearsFollow, Zenon
<1>6. /\ c.year = y + e * 400 + (IF p < 10 THEN 0 ELSE 1)
      /\ c.month = IF p < 10 THEN p + 2 ELSE p - 10
      /\ c.day = k + 1
  BY <1>2 DEF DateOf
<1>7. c.year \in Int /\ c.month \in 0..11 /\ c.day \in Nat
  BY <1>3, <1>6, SMT
<1>8. CASE k + 1 < MonthLength(y, p)
  <2>1. Lies(e, y, p, k + 1)
    BY <1>3, <1>8, SMT DEF Lies
  <2>2. n + 1 = DayOf(e, y, p, k + 1)
    BY <1>1, <1>3, <1>4, <1>5, SMT DEF DayOf, EraDays
  <2>3. d = DateOf(e, y, p, k + 1)
    BY <2>1, <2>2, DayIsDated, Zenon
  <2> HIDE DEF d
  <2>4. d.year = c.year /\ d.month = c.month /\ d.day = c.day + 1
    BY <1>6, <2>3, SMT DEF DateOf
  <2> QED BY <1>7, <2>4, Zenon DEF Succeeds, c, d
<1>9. CASE ~(k + 1 < MonthLength(y, p)) /\ p < 11
  <2>1. k + 1 = MonthLength(y, p) /\ p + 1 \in 0..11
    BY <1>3, <1>4, <1>9, SMT
  <2>2. MonthLength(y, p + 1) \in 28..31
    BY <1>3, <2>1, MonthsFollow, Zenon
  <2>3. Lies(e, y, p + 1, 0)
    BY <1>3, <2>1, <2>2, SMT DEF Lies
  <2>4. n + 1 = DayOf(e, y, p + 1, 0)
    BY <1>1, <1>3, <1>4, <1>5, <1>9, <2>1, SMT DEF DayOf, EraDays
  <2>5. d = DateOf(e, y, p + 1, 0)
    BY <2>3, <2>4, DayIsDated, Zenon
  <2> HIDE DEF d
  <2>6. /\ d.year = y + e * 400 + (IF p + 1 < 10 THEN 0 ELSE 1)
        /\ d.month = IF p + 1 < 10 THEN p + 1 + 2 ELSE (p + 1) - 10
        /\ d.day = 1
    <3>1. 0 + 1 = 1
      BY SMT
    <3>2. d.year = y + e * 400 + (IF p + 1 < 10 THEN 0 ELSE 1)
      BY <2>5, SMT DEF DateOf
    <3>3. d.month = IF p + 1 < 10 THEN p + 1 + 2 ELSE (p + 1) - 10
      BY <2>5, SMT DEF DateOf
    <3>4. d.day = 0 + 1
      BY <2>5, SMT DEF DateOf
    <3> QED BY <3>1, <3>2, <3>3, <3>4
  <2>7. CASE p = 9
    <3>1. c.month = 11 /\ c.day = 31
      BY <1>3, <1>6, <2>1, <2>7, SMT DEF MonthLength
    <3>2. d.month = 0 /\ d.year = c.year + 1
      BY <1>3, <1>6, <2>6, <2>7, SMT
    <3> QED BY <1>7, <2>6, <3>1, <3>2, Zenon DEF Succeeds, c, d
  <2>8. CASE p # 9
    <3>1. d.year = c.year /\ d.month = c.month + 1 /\ c.month < 11
      BY <1>3, <1>6, <1>9, <2>6, <2>8, SMT
    <3> QED BY <1>7, <2>6, <3>1, Zenon DEF Succeeds, c, d
  <2> QED BY <2>7, <2>8
<1>10. CASE ~(k + 1 < MonthLength(y, p)) /\ ~(p < 11)
  <2>1. k + 1 = MonthLength(y, p) /\ p = 11
    BY <1>3, <1>4, <1>10, SMT
  <2> DEFINE e2 == IF y < 399 THEN e ELSE e + 1
             y2 == IF y < 399 THEN y + 1 ELSE 0
  <2>2. e2 \in Int /\ y2 \in 0..399 /\ 0 \in 0..11 /\ 0 \in Nat
    BY <1>3, SMT
  <2>3. y2 + e2 * 400 = y + e * 400 + 1
    BY <1>3, SMT
  <2>4. YearStart(0) = 0
    BY SMT DEF YearStart
  <2>5. n + 1 = DayOf(e2, y2, 0, 0)
    <3>1. n + 1 = EraDays * e + YearStart(y) + YearLength(y) - 719468
      BY <1>1, <1>3, <1>4, <1>5, <2>1, SMT DEF DayOf, EraDays
    <3>2. CASE y < 399
      BY <1>3, <1>4, <1>5, <3>1, <3>2, SMT DEF DayOf, EraDays
    <3>3. CASE ~(y < 399)
      <4>1. y = 399 /\ e2 = e + 1 /\ y2 = 0
        BY <1>3, <3>3, SMT
      <4> HIDE DEF e2, y2
      <4> QED BY <1>3, <1>4, <1>5, <2>4, <3>1, <4>1, SMT DEF DayOf, EraDays
    <3> QED BY <3>2, <3>3
  <2> HIDE DEF e2, y2
  <2>6. MonthLength(y2, 0) \in 28..31
    BY <2>2, MonthsFollow, Zenon
  <2>7. Lies(e2, y2, 0, 0)
    BY <2>2, <2>6, SMT DEF Lies
  <2>8. d = DateOf(e2, y2, 0, 0)
    BY <2>5, <2>7, DayIsDated, Zenon
  <2> HIDE DEF d
  <2>9. d.year = y2 + e2 * 400 /\ d.month = 2 /\ d.day = 1
    BY <2>2, <2>8, SMT DEF DateOf
  <2>10. d.year = c.year /\ d.month = c.month + 1 /\ c.month < 11
    BY <1>3, <1>6, <2>1, <2>3, <2>9, SMT
  <2> QED BY <1>7, <2>9, <2>10, Zenon DEF Succeeds, c, d
<1> QED BY <1>8, <1>9, <1>10, Zenon

-----------------------------------------------------------------------------
(* Timestamps.                                                             *)
LEMMA DayHasSeconds == DaySeconds \in Nat /\ DaySeconds > 0
BY SMT DEF DaySeconds

LEMMA SecondsOfDay ==
  ASSUME NEW t
  PROVE  t \in 0..(DaySeconds - 1) <=> t \in Nat /\ t < DaySeconds
BY DayHasSeconds, SMT

LEMMA StampIsOne ==
  ASSUME NEW day \in Int, NEW sec \in Int
  PROVE  /\ Stamp(day, sec).day \in Int
         /\ Stamp(day, sec).sec \in 0..(DaySeconds - 1)
         /\ sec \in 0..(DaySeconds - 1) => Stamp(day, sec) = [day |-> day, sec |-> sec]
<1>0. DaySeconds \in Nat /\ DaySeconds > 0
  BY DayHasSeconds
<1>1. PICK q \in Int, r \in Nat :
        r < DaySeconds /\ sec = q * DaySeconds + r /\ sec \div DaySeconds = q /\ sec % DaySeconds = r
  BY <1>0, Split, Zenon
<1>2. Stamp(day, sec) = [day |-> day + q, sec |-> r]
  BY <1>1 DEF Stamp
<1>3. sec \in 0..(DaySeconds - 1) => q = 0 /\ r = sec
  <2>1. sec \in Nat /\ sec < DaySeconds => q = 0
    BY <1>1, SMT DEF DaySeconds
  <2> QED BY <1>0, <1>1, <2>1, SMT
<1>4. q = 0 => day + q = day
  BY SMT
<1>5. day + q \in Int /\ r \in 0..(DaySeconds - 1)
  BY <1>0, <1>1, SMT
<1> QED BY <1>2, <1>3, <1>4, <1>5

LEMMA StampsAdd ==
  ASSUME NEW day \in Int, NEW a \in Int, NEW b \in Int
  PROVE  Stamp(Stamp(day, a).day, Stamp(day, a).sec + b) = Stamp(day, a + b)
<1>0. DaySeconds \in Nat /\ DaySeconds > 0
  BY DayHasSeconds
<1>1. PICK q \in Int, r \in Nat :
        r < DaySeconds /\ a = q * DaySeconds + r /\ a \div DaySeconds = q /\ a % DaySeconds = r
  BY <1>0, Split, Zenon
<1>2. r + b \in Int
  BY SMT
<1>3. PICK s \in Int, t \in Nat :
        /\ t < DaySeconds /\ r + b = s * DaySeconds + t
        /\ (r + b) \div DaySeconds = s /\ (r + b) % DaySeconds = t
  BY <1>0, <1>2, Split, Zenon
<1>4. a + b = (q + s) * DaySeconds + t /\ q + s \in Int
  BY <1>1, <1>3, SMT DEF DaySeconds
<1>5. (a + b) \div DaySeconds = q + s /\ (a + b) % DaySeconds = t
  <2>1. /\ ((q + s) * DaySeconds + t) \div DaySeconds = q + s
        /\ ((q + s) * DaySeconds + t) % DaySeconds = t
    BY <1>0, <1>3, <1>4, Quotients, Zenon
  <2> QED BY <1>4, <2>1, Zenon
<1>6. Stamp(day, a) = [day |-> day + q, sec |-> r]
  BY <1>1 DEF Stamp
<1>7. Stamp(day + q, r + b) = [day |-> (day + q) + s, sec |-> t]
  BY <1>3 DEF Stamp
<1>8. Stamp(day, a + b) = [day |-> day + (q + s), sec |-> t]
  BY <1>5 DEF Stamp
<1>9. (day + q) + s = day + (q + s)
  BY SMT
<1> QED BY <1>6, <1>7, <1>8, <1>9

(* The hour, minute and second of a second of the day.                     *)
HourSeconds == 3600
HourOf(t)   == t \div HourSeconds
MinuteOf(t) == (t \div 60) % 60
SecondOf(t) == t % 60
Clock(hour, minute, second) ==
    hour \in 0..23 /\ minute \in 0..59 /\ second \in 0..59
ClockSeconds(hour, minute, second) == hour * HourSeconds + minute * 60 + second

LEMMA ClockIsRead ==
  ASSUME NEW t \in 0..(DaySeconds - 1)
  PROVE  /\ Clock(HourOf(t), MinuteOf(t), SecondOf(t))
         /\ ClockSeconds(HourOf(t), MinuteOf(t), SecondOf(t)) = t
<1>0. t \in Nat /\ t < DaySeconds
  BY SecondsOfDay, SMTT(30)
<1>1. t \in Nat /\ t < 86400
  <2>1. DaySeconds = 86400
    BY DEF DaySeconds
  <2> QED BY <1>0, <2>1, SMTT(30)
<1> DEFINE W == 60
<1>2. W \in Nat /\ W > 0 /\ t \in Int
  BY <1>1, SMT
<1> HIDE DEF W
<1>3. PICK n \in Int, s \in Nat : s < W /\ t = n * W + s /\ t \div W = n /\ t % W = s
  BY <1>2, Split, Zenon
<1>4. PICK h \in Int, m \in Nat : m < W /\ n = h * W + m /\ n \div W = h /\ n % W = m
  BY <1>2, Split, Zenon
<1>5. t = h * 3600 + (m * 60 + s) /\ m * 60 + s \in Nat /\ m * 60 + s < 3600
  BY <1>3, <1>4, SMT DEF W
<1>6. t \div 3600 = h
  BY <1>5, Quotients, SMT
<1>7. /\ t \div 60 = n /\ t % 60 = s /\ n % 60 = m /\ s \in 0..59 /\ m \in 0..59
  BY <1>3, <1>4, SMT DEF W
<1>8. h \in 0..23
  BY <1>1, <1>5, SMT
<1>9. h * 3600 + m * 60 + s = t
  BY <1>5, SMT
<1>10. HourOf(t) = h /\ MinuteOf(t) = m /\ SecondOf(t) = s
  BY <1>6, <1>7, SMT DEF HourSeconds, HourOf, MinuteOf, SecondOf
<1> QED BY <1>7, <1>8, <1>9, <1>10, SMT DEF Clock, ClockSeconds, HourSeconds

LEMMA ClockIsSet ==
  ASSUME NEW h, NEW m, NEW s, Clock(h, m, s)
  PROVE  LET t == ClockSeconds(h, m, s) IN
         /\ t \in 0..(DaySeconds - 1)
         /\ HourOf(t) = h /\ MinuteOf(t) = m /\ SecondOf(t) = s
<1> DEFINE t == ClockSeconds(h, m, s)
<1>c. h \in 0..23 /\ m \in 0..59 /\ s \in 0..59 /\ t = h * 3600 + m * 60 + s
  BY SMT DEF Clock, ClockSeconds, HourSeconds
<1> HIDE DEF t
<1>0. t \in Nat /\ t < DaySeconds
  BY <1>c, SMT DEF DaySeconds
<1>1. t \in 0..(DaySeconds - 1)
  BY <1>0, SecondsOfDay
<1>2. /\ t = h * 3600 + (m * 60 + s) /\ m * 60 + s \in Nat /\ m * 60 + s < 3600
      /\ t = (h * 60 + m) * 60 + s /\ h * 60 + m \in Nat
  BY <1>c, SMT
<1>3. t \div 3600 = h
  BY <1>c, <1>2, Quotients, SMT
<1>4. t \div 60 = h * 60 + m /\ t % 60 = s
  BY <1>c, <1>2, Quotients, SMT
<1>5. (h * 60 + m) % 60 = m
  BY <1>c, Quotients, SMT
<1>6. HourOf(t) = h /\ MinuteOf(t) = m /\ SecondOf(t) = s
  BY <1>3, <1>4, <1>5, SMT DEF HourSeconds, HourOf, MinuteOf, SecondOf
<1> QED BY <1>1, <1>6, Zenon DEF t

(* What decompose reads of a timestamp.                                    *)
Shifted(s, off) == Stamp(s.day, s.sec + off)
CivilAt(s, off) == CivilFromDays(Shifted(s, off).day)

LEMMA StampIsRead ==
  ASSUME NEW s, s.day \in Int, s.sec \in Int, NEW off \in Int
  PROVE  /\ Shifted(s, off).day \in Int /\ Shifted(s, off).sec \in 0..(DaySeconds - 1)
         /\ Decompose(s, off).year = CivilAt(s, off).year
         /\ Decompose(s, off).month = CivilAt(s, off).month
         /\ Decompose(s, off).day = CivilAt(s, off).day
         /\ Decompose(s, off).hour = HourOf(Shifted(s, off).sec)
         /\ Decompose(s, off).minute = MinuteOf(Shifted(s, off).sec)
         /\ Decompose(s, off).second = SecondOf(Shifted(s, off).sec)
         /\ Decompose(s, off).weekday = (Shifted(s, off).day + 4) % 7
         /\ Decompose(s, off).yearDay = Shifted(s, off).day - DaysFromCivil(CivilAt(s, off).year, 0, 1)
<1>1. s.sec + off \in Int
  BY SMT
<1>2. Shifted(s, off).day \in Int /\ Shifted(s, off).sec \in 0..(DaySeconds - 1)
  BY <1>1, StampIsOne, Zenon DEF Shifted
<1> DEFINE t == Shifted(s, off)
           c == CivilAt(s, off)
<1>3. Decompose(s, off) =
          [year |-> c.year, month |-> c.month, day |-> c.day,
           hour |-> HourOf(t.sec), minute |-> MinuteOf(t.sec), second |-> SecondOf(t.sec),
           weekday |-> (t.day + 4) % 7,
           yearDay |-> t.day - DaysFromCivil(c.year, 0, 1)]
  BY SMT DEF Decompose, HourSeconds, HourOf, MinuteOf, SecondOf, Shifted, CivilAt
<1> HIDE DEF t, c
<1>4. /\ Decompose(s, off).year = c.year /\ Decompose(s, off).month = c.month
      /\ Decompose(s, off).day = c.day
      /\ Decompose(s, off).hour = HourOf(t.sec)
      /\ Decompose(s, off).minute = MinuteOf(t.sec)
      /\ Decompose(s, off).second = SecondOf(t.sec)
      /\ Decompose(s, off).weekday = (t.day + 4) % 7
      /\ Decompose(s, off).yearDay = t.day - DaysFromCivil(c.year, 0, 1)
  BY <1>3, SMT
<1> QED BY <1>2, <1>4, Zenon DEF t, c

(* What a date that is accepted is known to be.                            *)
CalendarYears == 1970..2038
RunsOn(c) == c.second >= 60

LEMMA AcceptedDates ==
  ASSUME NEW c, NEW off \in Int, Construct(c, off) # NoStamp,
         NEW n, n = DaysFromCivil(c.year, c.month, c.day)
  PROVE  /\ c.year \in CalendarYears /\ c.month \in 0..11
         /\ c.day \in 1..DaysInMonth(c.year, c.month)
         /\ c.hour \in 0..23 /\ c.minute \in 0..59 /\ c.second \in 0..61
         /\ n \in Int /\ n # NoDay
         /\ CivilFromDays(n) = [year |-> c.year, month |-> c.month, day |-> c.day]
         /\ Construct(c, off) = Stamp(n, ClockSeconds(c.hour, c.minute, c.second) - off)
         /\ InRange(Stamp(n, ClockSeconds(c.hour, c.minute, c.second) - off))
<1>1. /\ c.year \in CalendarYears /\ c.month \in 0..11
      /\ c.hour \in 0..23 /\ c.minute \in 0..59 /\ c.second \in 0..61
      /\ n # NoDay
      /\ Construct(c, off) = Stamp(n, ClockSeconds(c.hour, c.minute, c.second) - off)
      /\ InRange(Stamp(n, ClockSeconds(c.hour, c.minute, c.second) - off))
  <2> DEFINE s  == Stamp(n, c.hour * HourSeconds + c.minute * 60 + c.second - off)
             ok == /\ c.year \in CalendarYears /\ c.month \in 0..11 /\ n # NoDay
                   /\ c.hour \in 0..23 /\ c.minute \in 0..59 /\ c.second \in 0..61
                   /\ InRange(s)
  <2>1. Construct(c, off) = IF ok THEN s ELSE NoStamp
    BY SMT DEF Construct, CalendarYears, HourSeconds
  <2>2. ok
    <3> HIDE DEF ok
    <3> QED BY <2>1, Zenon
  <2>3. Construct(c, off) = s
    <3> HIDE DEF ok, s
    <3> QED BY <2>1, <2>2, Zenon
  <2>4. s = Stamp(n, ClockSeconds(c.hour, c.minute, c.second) - off)
    <3>1. c.hour * HourSeconds + c.minute * 60 + c.second - off = ClockSeconds(c.hour, c.minute, c.second) - off
      <4>1. c.hour \in Int /\ c.minute \in Int /\ c.second \in Int
        BY <2>2, SMT
      <4> QED BY <4>1, SMT DEF ClockSeconds, HourSeconds
    <3> QED BY <3>1, Zenon
  <2> HIDE DEF s
  <2> QED BY <2>2, <2>3, <2>4, Zenon
<1>2. c.day \in 1..DaysInMonth(c.year, c.month)
  BY <1>1, SMT DEF DaysFromCivil
<1>3. c.year \in Int
  BY <1>1, SMT DEF CalendarYears
<1>4. n \in Int /\ CivilFromDays(n) = [year |-> c.year, month |-> c.month, day |-> c.day]
  BY <1>1, <1>2, <1>3, DateIsFound, Zenon
<1> QED BY <1>1, <1>2, <1>4, Zenon

FieldsOf(c) == <<c.year, c.month, c.day, c.hour, c.minute, c.second>>

(* A date that is accepted is what its timestamp is read as.               *)
LEMMA ConstructedIsRead ==
  ASSUME NEW c, NEW off \in Int, Construct(c, off) # NoStamp, ~RunsOn(c)
  PROVE  FieldsOf(Decompose(Construct(c, off), off)) = FieldsOf(c)
<1> DEFINE n   == DaysFromCivil(c.year, c.month, c.day)
           sec == ClockSeconds(c.hour, c.minute, c.second)
           s   == Construct(c, off)
           t   == Stamp(s.day, s.sec + off)
           x   == Decompose(s, off)
<1>1. /\ c.hour \in 0..23 /\ c.minute \in 0..59 /\ c.second \in 0..61
      /\ n \in Int
      /\ CivilFromDays(n) = [year |-> c.year, month |-> c.month, day |-> c.day]
      /\ s = Stamp(n, sec - off)
  BY AcceptedDates, Zenon
<1>2. Clock(c.hour, c.minute, c.second)
  BY <1>1, SMT DEF Clock, RunsOn
<1>3. /\ sec \in 0..(DaySeconds - 1)
      /\ HourOf(sec) = c.hour /\ MinuteOf(sec) = c.minute /\ SecondOf(sec) = c.second
  BY <1>2, ClockIsSet, Zenon
<1>4. sec \in Int /\ sec - off \in Int /\ (sec - off) + off = sec
  BY <1>3, DayHasSeconds, SMT
<1> HIDE DEF n, sec
<1>5. s.day \in Int /\ s.sec \in Int
  BY <1>1, <1>4, StampIsOne, DayHasSeconds, SMT
<1>6. t = [day |-> n, sec |-> sec]
  <2>1. t = Stamp(n, (sec - off) + off)
    <3>1. Stamp(Stamp(n, sec - off).day, Stamp(n, sec - off).sec + off)
            = Stamp(n, (sec - off) + off)
      BY <1>1, <1>4, StampsAdd, Zenon
    <3> HIDE DEF s
    <3> QED BY <1>1, <3>1, Zenon
  <2> QED BY <1>1, <1>3, <1>4, <2>1, StampIsOne, Zenon
<1> HIDE DEF s, t
<1>7. /\ x.year = CivilFromDays(t.day).year /\ x.month = CivilFromDays(t.day).month
      /\ x.day = CivilFromDays(t.day).day
      /\ x.hour = HourOf(t.sec) /\ x.minute = MinuteOf(t.sec) /\ x.second = SecondOf(t.sec)
  <2>1. t = Shifted(s, off)
    BY DEF t, Shifted
  <2>2. /\ x.year = CivilAt(s, off).year /\ x.month = CivilAt(s, off).month /\ x.day = CivilAt(s, off).day
        /\ x.hour = HourOf(Shifted(s, off).sec)
        /\ x.minute = MinuteOf(Shifted(s, off).sec) /\ x.second = SecondOf(Shifted(s, off).sec)
    BY <1>5, StampIsRead, Zenon
  <2> HIDE DEF x
  <2> QED BY <2>1, <2>2, Zenon DEF CivilAt
<1> HIDE DEF x
<1>8. FieldsOf(x) = FieldsOf(c)
  BY <1>1, <1>3, <1>6, <1>7 DEF FieldsOf
<1> QED BY <1>8 DEF x, s

(* A timestamp whose date is in the calendar is what that date is for.     *)
LEMMA ReadIsConstructed ==
  ASSUME NEW s \in [day : Int, sec : 0..(DaySeconds - 1)], InRange(s), NEW off \in Int,
         Decompose(s, off).year \in CalendarYears
  PROVE  Construct(Decompose(s, off), off) = s
<1> DEFINE t == Stamp(s.day, s.sec + off)
           c == CivilFromDays(t.day)
           x == Decompose(s, off)
<1>1. s.day \in Int /\ s.sec \in 0..(DaySeconds - 1) /\ s.sec \in Int
  BY DayHasSeconds, SMT
<1>2. /\ t.day \in Int /\ t.sec \in 0..(DaySeconds - 1)
      /\ x.year = c.year /\ x.month = c.month /\ x.day = c.day
      /\ x.hour = HourOf(t.sec) /\ x.minute = MinuteOf(t.sec) /\ x.second = SecondOf(t.sec)
  <2>1. t = Shifted(s, off) /\ c = CivilAt(s, off)
    BY DEF Shifted, CivilAt
  <2> HIDE DEF t, c
  <2>2. /\ Shifted(s, off).day \in Int /\ Shifted(s, off).sec \in 0..(DaySeconds - 1)
        /\ x.year = CivilAt(s, off).year /\ x.month = CivilAt(s, off).month /\ x.day = CivilAt(s, off).day
        /\ x.hour = HourOf(Shifted(s, off).sec)
        /\ x.minute = MinuteOf(Shifted(s, off).sec) /\ x.second = SecondOf(Shifted(s, off).sec)
    BY <1>1, StampIsRead, Zenon
  <2> HIDE DEF x
  <2> QED BY <2>1, <2>2, Zenon
<1>3. s.sec + off \in Int /\ (s.sec + off) + (0 - off) = s.sec /\ 0 - off \in Int
  BY <1>1, SMT
<1>4. Stamp(t.day, t.sec + (0 - off)) = s
  <2>1. Stamp(t.day, t.sec + (0 - off)) = Stamp(s.day, s.sec)
    <3>1. Stamp(t.day, t.sec + (0 - off)) = Stamp(s.day, (s.sec + off) + (0 - off))
      BY <1>1, <1>3, StampsAdd, Zenon
    <3> HIDE DEF t
    <3> QED BY <1>3, <3>1, Zenon
  <2>2. Stamp(s.day, s.sec) = [day |-> s.day, sec |-> s.sec]
    BY <1>1, StampIsOne, Zenon
  <2> QED BY <2>1, <2>2
<1> HIDE DEF t
<1>5. /\ c.month \in 0..11 /\ c.day \in 1..DaysInMonth(c.year, c.month)
      /\ DaysFromCivil(c.year, c.month, c.day) = t.day
  BY <1>2, DayIsFound, Zenon
<1>6. x.year \in CalendarYears
  OBVIOUS
<1> HIDE DEF x
<1>7. t.day # NoDay
  <2>1. c.year >= 1
    BY <1>2, <1>6, SMT DEF CalendarYears
  <2> QED BY <1>2, <2>1, DayAfterYear, Zenon
<1> HIDE DEF c
<1>8. Clock(x.hour, x.minute, x.second) /\ ClockSeconds(x.hour, x.minute, x.second) = t.sec
  <2>1. /\ Clock(HourOf(t.sec), MinuteOf(t.sec), SecondOf(t.sec))
        /\ ClockSeconds(HourOf(t.sec), MinuteOf(t.sec), SecondOf(t.sec)) = t.sec
    BY <1>2, ClockIsRead, Zenon
  <2> QED BY <1>2, <2>1, Zenon
<1>9. x.hour \in 0..23 /\ x.minute \in 0..59 /\ x.second \in 0..61
  BY <1>8, SMT DEF Clock
<1>10. DaysFromCivil(x.year, x.month, x.day) = t.day
  BY <1>2, <1>5
<1>11. t.sec - off = t.sec + (0 - off)
  BY <1>2, DayHasSeconds, SMT
<1>12. Construct(x, off) = Stamp(t.day, t.sec - off)
  <2>1. InRange(Stamp(t.day, t.sec - off))
    BY <1>4, <1>11
  <2>2. x.month \in 0..11
    BY <1>2, <1>5
  <2> DEFINE ok == /\ x.year \in CalendarYears /\ x.month \in 0..11
                   /\ DaysFromCivil(x.year, x.month, x.day) # NoDay
                   /\ x.hour \in 0..23 /\ x.minute \in 0..59 /\ x.second \in 0..61
             u  == Stamp(DaysFromCivil(x.year, x.month, x.day),
                         x.hour * HourSeconds + x.minute * 60 + x.second - off)
  <2>3. Construct(x, off) = IF ok /\ InRange(u) THEN u ELSE NoStamp
    BY SMT DEF Construct, CalendarYears, HourSeconds
  <2>4. ok
    BY <1>6, <1>7, <1>8, <1>9, <1>10, <2>2, Zenon
  <2>5. u = Stamp(t.day, t.sec - off)
    <3>1. x.hour * HourSeconds + x.minute * 60 + x.second - off = t.sec - off
      <4>1. off \in Int /\ x.hour \in Int /\ x.minute \in Int /\ x.second \in Int
        BY <1>9, SMT
      <4>2. x.hour * HourSeconds + x.minute * 60 + x.second - off
              = ClockSeconds(x.hour, x.minute, x.second) - off
        BY <4>1, SMT DEF HourSeconds, ClockSeconds
      <4> QED BY <1>8, <4>2, Zenon
    <3> QED BY <1>10, <3>1, Zenon
  <2> HIDE DEF ok, u
  <2> QED BY <2>1, <2>3, <2>4, <2>5, Zenon
<1> QED BY <1>4, <1>11, <1>12 DEF x

(* Timestamps are ordered as the seconds that they count.                  *)
LEMMA StampsClimb ==
  ASSUME NEW day \in Int, NEW a \in Int, NEW b \in Int, a <= b
  PROVE  NotAfter(Stamp(day, a), Stamp(day, b))
<1>0. DaySeconds \in Nat /\ DaySeconds > 0
  BY DayHasSeconds
<1>1. PICK q \in Int, r \in Nat :
        r < DaySeconds /\ a = q * DaySeconds + r /\ a \div DaySeconds = q /\ a % DaySeconds = r
  BY <1>0, Split, Zenon
<1>2. PICK s \in Int, t \in Nat :
        t < DaySeconds /\ b = s * DaySeconds + t /\ b \div DaySeconds = s /\ b % DaySeconds = t
  BY <1>0, Split, Zenon
<1>3. q < s \/ (q = s /\ r <= t)
  <2>1. /\ r < 86400 /\ a = q * 86400 + r /\ t < 86400 /\ b = s * 86400 + t
    BY <1>1, <1>2, SMT DEF DaySeconds
  <2> QED BY <2>1, SMT
<1>4. Stamp(day, a) = [day |-> day + q, sec |-> r] /\ Stamp(day, b) = [day |-> day + s, sec |-> t]
  BY <1>1, <1>2, Zenon DEF Stamp
<1>5. day + q < day + s \/ (day + q = day + s /\ r <= t)
  BY <1>3, SMT
<1> QED BY <1>4, <1>5 DEF NotAfter

(* Seconds 60 and 61 run into the next minute.                             *)
LEMMA DaysOfCalendar ==
  ASSUME NEW n \in Int, CivilFromDays(n).year \in CalendarYears
  PROVE  First.day < n - 1
<1>1. PICK e, y, p, k : Lies(e, y, p, k) /\ n = DayOf(e, y, p, k)
  BY EveryDayLies, Zenon
<1>2. CivilFromDays(n) = DateOf(e, y, p, k)
  BY <1>1, DayIsDated, Zenon
<1>3. y + e * 400 + (IF p < 10 THEN 0 ELSE 1) \in CalendarYears
  BY <1>2, SMT DEF DateOf
<1>4. e \in Int /\ y \in 0..399 /\ p \in 0..11 /\ k \in Nat
  BY <1>1, Zenon DEF Lies
<1>5. MonthStart(p) \in Nat
  BY <1>4, MonthStarts, Zenon
<1>6. YearStart(y) >= 365 * y /\ YearStart(y) \in Int
  BY <1>4, SMT DEF YearStart
<1>7. e >= 5 \/ (e = 4 /\ y >= 369)
  BY <1>3, <1>4, SMT DEF CalendarYears
<1> QED BY <1>1, <1>4, <1>5, <1>6, <1>7, SMT DEF DayOf, EraDays, First

Moments == [year : Int, month : Int, day : Int, hour : Int, minute : Int, second : Int]
Offsets == {n \in Int : 0 - DaySeconds <= n /\ n <= DaySeconds}

LEMMA MinutesRunOn ==
  ASSUME NEW c \in Moments,
         NEW off \in Offsets,
         Construct(c, off) # NoStamp, RunsOn(c),
         NEW base, base = Construct([c EXCEPT !.second = 59], off)
  PROVE  Construct(c, off) = Stamp(base.day, base.sec + c.second - 59)
<1> DEFINE n == DaysFromCivil(c.year, c.month, c.day)
           a == c.hour * HourSeconds + c.minute * 60 + 59 - off
           b == ClockSeconds(c.hour, c.minute, c.second) - off
<1>1. /\ c.year \in CalendarYears /\ c.month \in 0..11
      /\ c.hour \in 0..23 /\ c.minute \in 0..59 /\ c.second \in 0..61
      /\ n \in Int /\ n # NoDay
      /\ CivilFromDays(n) = [year |-> c.year, month |-> c.month, day |-> c.day]
      /\ Construct(c, off) = Stamp(n, b)
      /\ InRange(Stamp(n, b))
  <2>1. off \in Int
    BY Zenon DEF Offsets
  <2> QED BY <2>1, AcceptedDates, Zenon
<1>2. /\ a \in Int /\ b \in Int /\ a <= b /\ b = a + (c.second - 59) /\ c.second - 59 \in Int
      /\ a >= 0 - DaySeconds
  <2>1. off \in Int /\ off <= DaySeconds
    BY Zenon DEF Offsets
  <2>2. c.hour \in 0..23 /\ c.minute \in 0..59 /\ c.second \in 0..61
    BY <1>1, Zenon
  <2>3. /\ a \in Int /\ b \in Int /\ a <= b /\ b = a + (c.second - 59) /\ c.second - 59 \in Int
    <3>1. c.hour \in Int /\ c.minute \in Int /\ c.second \in Int /\ c.second >= 60
      BY <2>2, SMT DEF RunsOn
    <3>2. PICK h, m, s : h = c.hour /\ m = c.minute /\ s = c.second
      OBVIOUS
    <3>3. /\ h * 3600 + m * 60 + 59 - off \in Int /\ (h * 3600 + m * 60 + s) - off \in Int
          /\ (h * 3600 + m * 60 + s) - off = (h * 3600 + m * 60 + 59 - off) + (s - 59)
          /\ h * 3600 + m * 60 + 59 - off <= (h * 3600 + m * 60 + s) - off
          /\ s - 59 \in Int
      BY <2>1, <3>1, <3>2, SMT
    <3> QED BY <3>2, <3>3, SMT DEF ClockSeconds, HourSeconds
  <2>4. a >= 0 - DaySeconds
    BY <2>1, <2>2, DayHasSeconds, SMT DEF HourSeconds
  <2> QED BY <2>3, <2>4
<1> DEFINE d == [c EXCEPT !.second = 59]
<1>3. /\ d.year = c.year /\ d.month = c.month /\ d.day = c.day
      /\ d.hour = c.hour /\ d.minute = c.minute /\ d.second = 59
  BY SMT DEF Moments
<1> HIDE DEF d, n
<1>4. NotAfter(Stamp(n, a), Stamp(n, b))
  <2> HIDE DEF a, b
  <2> QED BY <1>1, <1>2, StampsClimb, Zenon
<1>5. /\ Stamp(n, a).day \in Int /\ Stamp(n, a).sec \in Int
      /\ Stamp(n, b).day \in Int /\ Stamp(n, b).sec \in Int
      /\ Stamp(n, a).day >= n - 1
  <2> HIDE DEF a, b
  <2>1. /\ Stamp(n, a).day \in Int /\ Stamp(n, a).sec \in 0..(DaySeconds - 1)
        /\ Stamp(n, b).day \in Int /\ Stamp(n, b).sec \in 0..(DaySeconds - 1)
    BY <1>1, <1>2, StampIsOne, Zenon
  <2>2. PICK q \in Int, r \in Nat :
          r < DaySeconds /\ a = q * DaySeconds + r /\ a \div DaySeconds = q /\ a % DaySeconds = r
    BY <1>2, DayHasSeconds, Split, Zenon
  <2>3. q >= -1
    <3>1. a >= 0 - DaySeconds /\ a = q * DaySeconds + r /\ r < DaySeconds
      BY <1>2, <2>2, Zenon
    <3> QED BY <3>1, SMT DEF DaySeconds
  <2>4. Stamp(n, a).day = n + q
    BY <2>2 DEF Stamp
  <2> QED BY <1>1, <2>1, <2>3, <2>4, DayHasSeconds, SMT
<1>6. InRange(Stamp(n, a))
  <2>1. First.day < n - 1
    <3>1. CivilFromDays(n).year \in CalendarYears
      BY <1>1
    <3> QED BY <1>1, <3>1, DaysOfCalendar, Zenon
  <2>2. NotAfter(First, Stamp(n, a))
    BY <1>1, <1>5, <2>1, SMT DEF NotAfter, First
  <2>3. NotAfter(Stamp(n, a), Final)
    <3>1. NotAfter(Stamp(n, b), Final)
      BY <1>1 DEF InRange
    <3>2. Final.day \in Int /\ Final.sec \in Int
      BY SMT DEF Final
    <3> QED BY <1>4, <1>5, <3>1, <3>2, SMT DEF NotAfter
  <2> QED BY <2>2, <2>3 DEF InRange
<1>7. base = Stamp(n, a)
  <2>1. base = Construct(d, off)
    BY DEF d
  <2>2. n = DaysFromCivil(d.year, d.month, d.day)
    BY <1>3 DEF n
  <2>3. d.second \in 0..61
    BY <1>3, SMT
  <2>4. d.hour * HourSeconds + d.minute * 60 + d.second - off = a
    BY <1>3
  <2> HIDE DEF a, b
  <2> QED BY <1>1, <1>3, <1>6, <2>1, <2>2, <2>3, <2>4, SMT DEF Construct, CalendarYears, HourSeconds
<1>8. base.sec + c.second - 59 = base.sec + (c.second - 59)
  OBVIOUS
<1> HIDE DEF a, b
<1>9. Stamp(Stamp(n, a).day, Stamp(n, a).sec + (c.second - 59)) = Stamp(n, a + (c.second - 59))
  <2> DEFINE z == c.second - 59
  <2>1. z \in Int /\ n \in Int /\ a \in Int
    BY <1>1, <1>2
  <2> HIDE DEF z
  <2>2. Stamp(Stamp(n, a).day, Stamp(n, a).sec + z) = Stamp(n, a + z)
    BY <2>1, StampsAdd, Zenon
  <2> QED BY <2>2 DEF z
<1> QED BY <1>1, <1>2, <1>7, <1>8, <1>9, Zenon

(* A date as a satellite writes it is read as that date.                   *)
DateDigits(c)  == c.day * 10000 + (c.month + 1) * 100 + (c.year % 100)
TimeSeconds(c) == c.hour * 3600 + c.minute * 60 + c.second

LEMMA DigitsAreRead ==
  ASSUME NEW c, SatelliteDate(c), NEW d, d = DateDigits(c)
  PROVE  d % 100 = c.year % 100 /\ ((d \div 100) % 100) - 1 = c.month /\ d \div 10000 = c.day
<1>1. PICK y \in 0..99 : y = c.year % 100
  BY SMT DEF SatelliteDate
<1>2. PICK m \in 0..99 : m = c.month + 1 /\ c.month = m - 1
  BY SMT DEF SatelliteDate
<1>3. PICK k \in 0..99 : k = c.day
  BY SMT DEF SatelliteDate
<1>4. d = (k * 100 + m) * 100 + y /\ d = k * 10000 + (m * 100 + y)
  BY <1>1, <1>2, <1>3, SMT DEF DateDigits
<1>5. d % 100 = y /\ d \div 100 = k * 100 + m
  BY <1>4, Quotients, SMT
<1>6. (k * 100 + m) % 100 = m
  BY Quotients, SMT
<1>7. d \div 10000 = k
  <2>1. m * 100 + y \in Nat /\ m * 100 + y < 10000
    BY SMT
  <2> QED BY <1>4, <2>1, Quotients, SMT
<1> QED BY <1>1, <1>2, <1>3, <1>5, <1>6, <1>7, SMT

LEMMA CenturyIsRead ==
  ASSUME NEW c, SatelliteDate(c), c.year % 100 \notin 39..69
  PROVE  (IF c.year % 100 >= 70 THEN 1900 + (c.year % 100) ELSE 2000 + (c.year % 100)) = c.year
<1>1. PICK y \in Int : y = c.year /\ y >= 1970 /\ y <= 2069
  BY SMT DEF SatelliteDate
<1>2. CASE y < 2000
  <2>1. y = 19 * 100 + (y - 1900) /\ y - 1900 \in Nat /\ y - 1900 < 100
    BY <1>1, <1>2, SMT
  <2>2. y % 100 = y - 1900
    BY <2>1, SMT
  <2> QED BY <1>1, <1>2, <2>2, SMT
<1>3. CASE ~(y < 2000)
  <2>1. y % 100 = y - 2000
    BY <1>1, <1>3, SMT
  <2> QED BY <1>1, <1>3, <2>1, SMT
<1> QED BY <1>2, <1>3

LEMMA SatelliteIsRead ==
  ASSUME NEW c, SatelliteDate(c), ~RunsOn(c),
         FromGPS(DateDigits(c), TimeSeconds(c)) # NoStamp
  PROVE  FieldsOf(Decompose(FromGPS(DateDigits(c), TimeSeconds(c)), 0)) = FieldsOf(c)
<1> DEFINE d     == DateDigits(c)
           t     == TimeSeconds(c)
           short == d % 100
           year  == IF short >= 70 THEN 1900 + short ELSE 2000 + short
           g     == [year |-> year, month |-> ((d \div 100) % 100) - 1, day |-> d \div 10000,
                     hour |-> HourOf(t), minute |-> MinuteOf(t), second |-> SecondOf(t)]
           bad   == d > 999999 \/ short \in 39..69 \/ t \notin 0..(DaySeconds - 1)
<1>1. FromGPS(d, t) = IF bad THEN NoStamp ELSE Construct(g, 0)
  <2> HIDE DEF d, t
  <2> QED BY SMT DEF FromGPS, HourSeconds, HourOf, MinuteOf, SecondOf
<1>2. ~bad /\ FromGPS(d, t) = Construct(g, 0)
  <2> HIDE DEF bad, g, d, t
  <2> QED BY <1>1, Zenon DEF d, t
<1>3. short \notin 39..69 /\ t \in 0..(DaySeconds - 1)
  <2> HIDE DEF d, t
  <2> QED BY <1>2, SMT
<1>4. ((d \div 100) % 100) - 1 = c.month /\ d \div 10000 = c.day
  BY DigitsAreRead, SMT
<1>11. short = c.year % 100
  BY DigitsAreRead, SMT
<1>5. year = c.year
  <2>1. c.year % 100 \notin 39..69
    BY <1>3, <1>11, SMT
  <2>2. (IF c.year % 100 >= 70 THEN 1900 + (c.year % 100) ELSE 2000 + (c.year % 100)) = c.year
    BY <2>1, CenturyIsRead, SMT
  <2> HIDE DEF short
  <2> QED BY <1>11, <2>2, SMT
<1>6. Clock(c.hour, c.minute, c.second) /\ t = ClockSeconds(c.hour, c.minute, c.second)
  <2>1. c.hour \in Nat /\ c.minute \in 0..59 /\ c.second \in 0..59
    BY SMT DEF SatelliteDate, RunsOn
  <2>2. t = c.hour * 3600 + c.minute * 60 + c.second
    BY DEF TimeSeconds
  <2>3. t \in Nat /\ t < DaySeconds
    BY <1>3, SecondsOfDay, Zenon
  <2> HIDE DEF t
  <2>4. c.hour \in 0..23
    <3>1. PICK h \in Nat, m \in 0..59, s \in 0..59 : h = c.hour /\ m = c.minute /\ s = c.second
      BY <2>1
    <3>2. h * 3600 + m * 60 + s < 86400
      BY <2>2, <2>3, <3>1, SMT DEF DaySeconds
    <3>3. h < 24
      BY <3>2, SMT
    <3> QED BY <3>1, <3>3, SMTT(30)
  <2> QED BY <2>1, <2>2, <2>4, SMT DEF Clock, ClockSeconds, HourSeconds
<1>7. HourOf(t) = c.hour /\ MinuteOf(t) = c.minute /\ SecondOf(t) = c.second
  <2> HIDE DEF t
  <2> QED BY <1>6, ClockIsSet, Zenon
<1>8. /\ g.year = c.year /\ g.month = c.month /\ g.day = c.day
      /\ g.hour = c.hour /\ g.minute = c.minute /\ g.second = c.second
  <2> HIDE DEF d, t, year
  <2> QED BY <1>4, <1>5, <1>7, SMT
<1> HIDE DEF g, d, t, bad
<1>9. FieldsOf(Decompose(Construct(g, 0), 0)) = FieldsOf(g)
  <2>1. Construct(g, 0) # NoStamp
    BY <1>2, Zenon DEF d, t
  <2>2. ~RunsOn(g)
    BY <1>8, Zenon DEF RunsOn
  <2>3. 0 \in Int
    BY SMT
  <2> QED BY <2>1, <2>2, <2>3, ConstructedIsRead, Zenon
<1>10. FieldsOf(g) = FieldsOf(c)
  BY <1>8, Zenon DEF FieldsOf
<1> QED BY <1>2, <1>9, <1>10, Zenon DEF d, t

(* What one day later is read as.                                          *)
Follows(x, y) ==
    /\ y.weekday = (x.weekday + 1) % 7
    /\ \/ y.year = x.year /\ y.yearDay = x.yearDay + 1
       \/ /\ y.year = x.year + 1 /\ y.yearDay = 0
          /\ <<x.month, x.day>> = <<11, 31>>
    /\ \/ y.month = x.month /\ y.day = x.day + 1
       \/ y.month = (x.month + 1) % 12 /\ y.day = 1

LEMMA DaysFollow ==
  ASSUME NEW s \in [day : Int, sec : 0..(DaySeconds - 1)], NEW off \in Int
  PROVE  Follows(Decompose(s, off), Decompose(Stamp(s.day + 1, s.sec), off))
<1> DEFINE r == Stamp(s.day + 1, s.sec)
           x == Decompose(s, off)
           y == Decompose(r, off)
           n == Shifted(s, off).day
           m == Shifted(r, off).day
           c == CivilFromDays(n)
           d == CivilFromDays(m)
<1>1. s.day \in Int /\ s.sec \in 0..(DaySeconds - 1) /\ s.sec \in Int /\ s.day + 1 \in Int
  BY DayHasSeconds, SMT
<1>2. r.day = s.day + 1 /\ r.sec = s.sec
  <2>1. r = [day |-> s.day + 1, sec |-> s.sec]
    BY <1>1, StampIsOne, Zenon
  <2> QED BY <2>1
<1>3. m = n + 1
  <2>1. Shifted(s, off) = [day |-> s.day + (s.sec + off) \div DaySeconds, sec |-> (s.sec + off) % DaySeconds]
    BY Zenon DEF Shifted, Stamp
  <2> HIDE DEF r
  <2>2. Shifted(r, off) = [day |-> (s.day + 1) + (s.sec + off) \div DaySeconds,
                           sec |-> (s.sec + off) % DaySeconds]
    BY <1>2, Zenon DEF Shifted, Stamp
  <2>3. PICK q \in Int : q = (s.sec + off) \div DaySeconds
    BY <1>1, DayHasSeconds, SMT
  <2>4. n = s.day + q /\ m = (s.day + 1) + q
    BY <2>1, <2>2, <2>3
  <2> QED BY <1>1, <2>3, <2>4, SMT
<1>4. /\ n \in Int
      /\ x.year = c.year /\ x.month = c.month /\ x.day = c.day
      /\ x.weekday = (n + 4) % 7 /\ x.yearDay = n - DaysFromCivil(c.year, 0, 1)
  BY <1>1, StampIsRead, Zenon DEF CivilAt
<1>5. r.day \in Int /\ r.sec \in Int
  BY <1>1, <1>2
<1> HIDE DEF r
<1>6. /\ m \in Int
      /\ y.year = d.year /\ y.month = d.month /\ y.day = d.day
      /\ y.weekday = (m + 4) % 7 /\ y.yearDay = m - DaysFromCivil(d.year, 0, 1)
  BY <1>5, StampIsRead, Zenon DEF CivilAt
<1> HIDE DEF x, y, n, m
<1>7. /\ c.year \in Int /\ c.month \in 0..11 /\ c.day \in Nat
      /\ \/ d.year = c.year /\ d.month = c.month /\ d.day = c.day + 1
         \/ d.year = c.year /\ d.month = c.month + 1 /\ c.month < 11 /\ d.day = 1
         \/ /\ d.year = c.year + 1 /\ d.month = 0 /\ d.day = 1
            /\ c.month = 11 /\ c.day = 31
  <2> DEFINE e == CivilFromDays(n + 1)
  <2>1. e = d
    BY <1>3, Zenon
  <2> HIDE DEF d
  <2>2. /\ c.year \in Int /\ c.month \in 0..11 /\ c.day \in Nat
        /\ \/ e.year = c.year /\ e.month = c.month /\ e.day = c.day + 1
           \/ e.year = c.year /\ e.month = c.month + 1 /\ c.month < 11 /\ e.day = 1
           \/ /\ e.year = c.year + 1 /\ e.month = 0 /\ e.day = 1
              /\ c.month = 11 /\ c.day = 31
    <3>1. Succeeds(c, e)
      BY <1>4, DaysSucceed, Zenon
    <3> HIDE DEF c, e
    <3> QED BY <3>1, Zenon DEF Succeeds
  <2> HIDE DEF c, e
  <2> QED BY <2>1, <2>2, Zenon
<1>8. DaysFromCivil(d.year, d.month, d.day) = m
  BY <1>6, DayIsFound, Zenon
<1> HIDE DEF c, d
<1>9. DaysFromCivil(c.year, 0, 1) \in Int
  <2>1. 0 \in Int /\ 1 \in Int
    BY SMT
  <2> QED BY <1>7, <2>1, DayIsNumber, Zenon
<1>10. y.weekday = (x.weekday + 1) % 7
  BY <1>3, <1>4, <1>6, SMT
<1>11. \/ y.year = x.year /\ y.yearDay = x.yearDay + 1
       \/ /\ y.year = x.year + 1 /\ y.yearDay = 0
          /\ <<x.month, x.day>> = <<11, 31>>
  <2>1. CASE d.year = c.year
    <3>1. y.year = x.year /\ y.yearDay = x.yearDay + 1
      BY <1>3, <1>4, <1>6, <1>9, <2>1, SMT
    <3> QED BY <3>1
  <2>2. CASE /\ d.year = c.year + 1 /\ d.month = 0 /\ d.day = 1
             /\ c.month = 11 /\ c.day = 31
    <3>1. DaysFromCivil(d.year, 0, 1) = m
      BY <1>8, <2>2
    <3>2. y.yearDay = 0
      BY <1>6, <3>1, SMT
    <3> QED BY <1>4, <1>6, <2>2, <3>2
  <2> QED BY <1>7, <2>1, <2>2, Zenon
<1>12. \/ y.month = x.month /\ y.day = x.day + 1
       \/ y.month = (x.month + 1) % 12 /\ y.day = 1
  BY <1>4, <1>6, <1>7, SMT
<1> QED BY <1>10, <1>11, <1>12, Zenon DEF Follows, x, y, r

(* An offset that Timezone accepts is less than a day.                     *)
LEMMA ZonesAreOffsets ==
  ASSUME NEW n, TimezoneSeconds(n) # NoOffset
  PROVE  TimezoneSeconds(n) \in Offsets
<1>1. CASE n \in (-12)..14
  <2>1. n * 3600 \in Int /\ n * 3600 >= 0 - 86400 /\ n * 3600 <= 86400
    BY <1>1, SMT
  <2>2. TimezoneSeconds(n) = n * 3600
    BY <1>1, SMT DEF TimezoneSeconds
  <2> QED BY <2>1, <2>2, SMT DEF Offsets, DaySeconds
<1>2. CASE n \notin (-12)..14
  <2> DEFINE mag  == IF n < 0 THEN -n ELSE n
             secs == (mag \div 100) * 3600 + (mag % 100) * 60
  <2>1. n \in (-1245)..1445
    BY <1>2, SMT DEF TimezoneSeconds
  <2>2. TimezoneSeconds(n) = IF n < 0 THEN -secs ELSE secs
    BY <1>2, SMT DEF TimezoneSeconds
  <2>3. mag \in Nat /\ mag <= 1445
    BY <2>1, SMT
  <2> HIDE DEF mag
  <2>4. mag \div 100 \in 0..14 /\ mag % 100 \in 0..99
    BY <2>3, SMT
  <2>5. secs \in Nat /\ secs <= 86400
    BY <2>4, SMT
  <2> HIDE DEF secs
  <2> QED BY <2>1, <2>2, <2>5, SMT DEF Offsets, DaySeconds
<1> QED BY <1>1, <1>2

-----------------------------------------------------------------------------
(* Calls of the calendar.                                                  *)
CalendarOps == {"FromUtc", "FromLocal", "FromGPS", "ToUtc", "ToLocal"}

\* What the property says of a call, its answer and the offset.
ShiftOf(c, off) == IF c.op = "FromLocal" \/ c.op = "ToLocal" THEN off ELSE 0
Inverted(c, a, off) ==
    LET shift == ShiftOf(c, off)
        Date  == c.args[1]
    IN  /\ (c.op = "FromUtc" \/ c.op = "FromLocal" \/ c.op = "FromGPS") /\ a # NoStamp /\ Date.second < 60 =>
              FieldsOf(Decompose(a, shift)) = FieldsOf(Date)
        /\ (c.op = "FromUtc" \/ c.op = "FromLocal") /\ a # NoStamp /\ Date.second >= 60 =>
              LET base == Construct([Date EXCEPT !.second = 59], shift)
              IN  a = Stamp(base.day, base.sec + Date.second - 59)
        /\ (c.op = "ToUtc" \/ c.op = "ToLocal") /\ a.year \in CalendarYears =>
              Construct(a, shift) = Date
        /\ (c.op = "ToUtc" \/ c.op = "ToLocal") =>
              Follows(a, Decompose(Stamp(Date.day + 1, Date.sec), shift))

LEMMA InvertedIsProperty ==
  /\ CalendarIsInvertible <=> Inverted(call, answer, offset)
  /\ CalendarIsInvertible' <=> Inverted(call', answer', offset')
BY SMT DEF CalendarIsInvertible, Is, Arg, Inverted, ShiftOf, FieldsOf, Follows, CalendarYears

LEMMA OthersAreInverted ==
  ASSUME NEW c, NEW a, NEW off, c.op \notin CalendarOps
  PROVE  Inverted(c, a, off)
<1>1. /\ c.op # "FromUtc" /\ c.op # "FromLocal" /\ c.op # "FromGPS"
      /\ c.op # "ToUtc" /\ c.op # "ToLocal"
  BY Zenon DEF CalendarOps
<1> QED BY <1>1, Zenon DEF Inverted

LEMMA DateIsInverted ==
  ASSUME NEW d \in Moments, NEW off \in Offsets, NEW op \in {"FromUtc", "FromLocal"},
         NEW on, NEW c, c = [op |-> op, on |-> on, args |-> <<d>>],
         NEW shift, shift = ShiftOf(c, off)
  PROVE  Inverted(c, Construct(d, shift), off)
<1>1. c.op = op /\ c.args[1] = d
  OBVIOUS
<1>2. op # "ToUtc" /\ op # "ToLocal"
  OBVIOUS
<1>3. shift \in Offsets /\ shift \in Int
  <2>1. 0 \in Offsets
    BY DayHasSeconds, SMT DEF Offsets
  <2> QED BY <2>1, SMT DEF ShiftOf, Offsets
<1> DEFINE a == Construct(d, shift)
<1>4. a # NoStamp /\ ~RunsOn(d) => FieldsOf(Decompose(a, shift)) = FieldsOf(d)
  BY <1>3, ConstructedIsRead, Zenon
<1>5. a # NoStamp /\ RunsOn(d) =>
        LET base == Construct([d EXCEPT !.second = 59], shift)
        IN  a = Stamp(base.day, base.sec + d.second - 59)
  BY <1>3, MinutesRunOn, Zenon
<1>6. d.second < 60 <=> ~RunsOn(d)
  BY SMT DEF RunsOn, Moments
<1> HIDE DEF a
<1> QED BY <1>1, <1>2, <1>4, <1>5, <1>6 DEF Inverted, RunsOn, a

LEMMA SatelliteIsInverted ==
  ASSUME NEW d, SatelliteDate(d), NEW off,
         NEW on, NEW c, c = [op |-> "FromGPS", on |-> on, args |-> <<d>>]
  PROVE  Inverted(c, FromGPS(DateDigits(d), TimeSeconds(d)), off)
<1>1. c.op = "FromGPS" /\ c.args[1] = d
  OBVIOUS
<1>2. ShiftOf(c, off) = 0
  BY <1>1 DEF ShiftOf
<1> DEFINE a == FromGPS(DateDigits(d), TimeSeconds(d))
<1>3. a # NoStamp /\ ~RunsOn(d) => FieldsOf(Decompose(a, 0)) = FieldsOf(d)
  BY SatelliteIsRead, Zenon
<1>4. d.second < 60 => ~RunsOn(d)
  BY SMT DEF RunsOn, SatelliteDate
<1> HIDE DEF a
<1>5. Inverted(c, a, off)
  BY <1>1, <1>2, <1>3, <1>4, Zenon DEF Inverted
<1> QED BY <1>5 DEF a

LEMMA StampIsInverted ==
  ASSUME NEW s \in [day : Int, sec : 0..(DaySeconds - 1)], InRange(s), NEW off \in Offsets,
         NEW op \in {"ToUtc", "ToLocal"},
         NEW on, NEW c, c = [op |-> op, on |-> on, args |-> <<s>>],
         NEW shift, shift = ShiftOf(c, off)
  PROVE  Inverted(c, Decompose(s, shift), off)
<1>1. c.op = op /\ c.args[1] = s
  OBVIOUS
<1>2. op # "FromUtc" /\ op # "FromLocal" /\ op # "FromGPS"
  OBVIOUS
<1>3. shift \in Int
  BY SMT DEF ShiftOf, Offsets
<1> DEFINE a == Decompose(s, shift)
<1>4. a.year \in CalendarYears => Construct(a, shift) = s
  BY <1>3, ReadIsConstructed, Zenon
<1>5. Follows(a, Decompose(Stamp(s.day + 1, s.sec), shift))
  BY <1>3, DaysFollow, Zenon
<1> HIDE DEF a
<1>6. Inverted(c, a, off)
  BY <1>1, <1>2, <1>4, <1>5, Zenon DEF Inverted
<1> QED BY <1>6 DEF a

-----------------------------------------------------------------------------
(* Every other call is none of the calendar, and only Timezone sets the    *)
(* offset, to one that it accepts.                                         *)
Elsewhere == call'.op \notin CalendarOps /\ offset' = offset

LEMMA ReadsElsewhere ==
  ASSUME NEW op, NEW on, NEW args, NEW a, op \notin CalendarOps,
         Reads(Call(op, on, args), a)
  PROVE  Elsewhere
<1>1. call' = [op |-> op, on |-> on, args |-> args] /\ offset' = offset
  BY DEF Reads, Answers, Call
<1> QED BY <1>1 DEF Elsewhere

LEMMA OperatesElsewhere ==
  ASSUME Operate \/ OperateOnOne \/ CallConvert \/ Store \/ Notate
           \/ LookUp \/ GetCell \/ CheckObject
  PROVE  Elsewhere
<1>1. CASE Operate
  <2>1. PICK op \in Arithmetical \cup Comparing \cup Bitwises, l, r \in Operands :
          Reads(Call(op, NoPath, <<l, r>>), Apply(op, l, r))
    BY <1>1, Zenon DEF Operate, Pure
  <2>2. op \notin CalendarOps
    BY DEF CalendarOps, Arithmetical, Comparing, Bitwises
  <2> QED BY <2>1, <2>2, ReadsElsewhere, Zenon
<1>2. CASE OperateOnOne
  <2>1. PICK on, args, a : Reads(Call("unary", on, args), a)
    BY <1>2, Zenon DEF OperateOnOne, Pure
  <2>2. "unary" \notin CalendarOps
    BY DEF CalendarOps
  <2> QED BY <2>1, <2>2, ReadsElsewhere, Zenon
<1>3. CASE CallConvert
  <2>1. PICK op \in {"ToInteger", "ToUnsignedInteger", "ToFixed7DP"} :
          \E on, args, a : Reads(Call(op, on, args), a)
    BY <1>3, Zenon DEF CallConvert, Pure
  <2>2. op \notin CalendarOps
    BY DEF CalendarOps
  <2> QED BY <2>1, <2>2, ReadsElsewhere, Zenon
<1>4. CASE Store
  <2>1. PICK on, args, a : Reads(Call("store", on, args), a)
    BY <1>4, Zenon DEF Store, Pure
  <2>2. "store" \notin CalendarOps
    BY DEF CalendarOps
  <2> QED BY <2>1, <2>2, ReadsElsewhere, Zenon
<1>5. CASE Notate
  <2>1. PICK op \in {"print", "parse"} : \E on, args, a : Reads(Call(op, on, args), a)
    BY <1>5, Zenon DEF Notate, Pure
  <2>2. op \notin CalendarOps
    BY DEF CalendarOps
  <2> QED BY <2>1, <2>2, ReadsElsewhere, Zenon
<1>6. CASE LookUp
  <2>1. PICK on, args, a : Reads(Call("Lookup", on, args), a)
    BY <1>6, Zenon DEF LookUp, Pure
  <2>2. "Lookup" \notin CalendarOps
    BY DEF CalendarOps
  <2> QED BY <2>1, <2>2, ReadsElsewhere, Zenon
<1>7. CASE GetCell
  <2>1. PICK on, args, a : Reads(Call("Get", on, args), a)
    BY <1>7, Zenon DEF GetCell, Pure
  <2>2. "Get" \notin CalendarOps
    BY DEF CalendarOps
  <2> QED BY <2>1, <2>2, ReadsElsewhere, Zenon
<1>8. CASE CheckObject
  <2>1. PICK op \in {"Validate", "Constrain"} : \E on, args, a : Reads(Call(op, on, args), a)
    BY <1>8, Zenon DEF CheckObject, Pure
  <2>2. op \notin CalendarOps
    BY DEF CalendarOps
  <2> QED BY <2>1, <2>2, ReadsElsewhere, Zenon
<1> QED BY <1>1, <1>2, <1>3, <1>4, <1>5, <1>6, <1>7, <1>8

LEMMA CallsElsewhere ==
  ASSUME CallCalculate \/ CallLimit \/ ReadObject \/ SetObject
  PROVE  Elsewhere
<1>1. CASE CallCalculate
  <2>1. PICK op \in {"Max", "Min", "Average", "Modulo", "Absolute", "Floor", "Ceiling", "IsNAN",
                     "IsFinite", "Bias"} : \E on, args, a : Reads(Call(op, on, args), a)
    <3>1. CASE \E m \in {"Max", "Min", "Average", "Modulo"}, l, r \in Operands :
                 Pure(Call(m, "Calculate", <<l, r>>), Calculate(m, <<l, r>>))
      <4>1. PICK m \in {"Max", "Min", "Average", "Modulo"} :
                   \E args, a : Reads(Call(m, "Calculate", args), a)
        BY <3>1, Zenon DEF Pure
      <4> QED BY <4>1, Zenon
    <3>2. CASE \E m \in {"Absolute", "Floor", "Ceiling", "IsNAN", "IsFinite"}, x \in Operands :
                 Pure(Call(m, "Calculate", <<x>>), Calculate(m, <<x>>))
      <4>1. PICK m \in {"Absolute", "Floor", "Ceiling", "IsNAN", "IsFinite"} :
                   \E args, a : Reads(Call(m, "Calculate", args), a)
        BY <3>2, Zenon DEF Pure
      <4> QED BY <4>1, Zenon
    <3>3. CASE \E l, r \in Operands, bias \in {-Scale, 0, 1, Scale} :
                 Pure(Call("Bias", "Calculate", <<l, r>>),
                          Calculate("Bias", <<l, r, Val("float", bias)>>))
      <4>1. PICK args, a : Reads(Call("Bias", "Calculate", args), a)
        BY <3>3, Zenon DEF Pure
      <4> QED BY <4>1, Zenon
    <3> QED BY <1>1, <3>1, <3>2, <3>3, Zenon DEF CallCalculate
  <2>2. op \notin CalendarOps
    BY DEF CalendarOps
  <2> QED BY <2>1, <2>2, ReadsElsewhere, Zenon
<1>2. CASE CallLimit
  <2>1. PICK op \in {"Max", "Min", "Range"} : \E on, args, a : Reads(Call(op, on, args), a)
    BY <1>2, Zenon DEF CallLimit, Pure
  <2>2. op \notin CalendarOps
    BY DEF CalendarOps
  <2> QED BY <2>1, <2>2, ReadsElsewhere, Zenon
<1>3. CASE ReadObject
  <2>1. PICK op \in {"read", "GetUnscheduled", "AsInteger", "AsString"} :
          \E on, args, a : Reads(Call(op, on, args), a)
    BY <1>3, Zenon DEF ReadObject, OnStore
  <2>2. op \notin CalendarOps
    BY DEF CalendarOps
  <2> QED BY <2>1, <2>2, ReadsElsewhere, Zenon
<1>4. CASE SetObject
  <2>1. PICK on, args : call' = Call("Set", on, args) /\ offset' = offset
    BY <1>4, Zenon DEF SetObject, Answers
  <2> QED BY <2>1 DEF Call, Elsewhere, CalendarOps
<1> QED BY <1>1, <1>2, <1>3, <1>4

(* The invariant: the offset is one that Timezone accepts.                 *)
CalendarInv == offset \in Offsets /\ CalendarIsInvertible

LEMMA CalendarInvInit == LibraryInit => CalendarInv
<1> SUFFICES ASSUME LibraryInit PROVE CalendarInv
  OBVIOUS
<1>1. call.op = "none" /\ offset = 0
  BY DEF LibraryInit, NoCall
<1>2. offset \in Offsets
  BY <1>1, DayHasSeconds, SMT DEF Offsets
<1>3. Inverted(call, answer, offset)
  BY <1>1, OthersAreInverted DEF CalendarOps
<1> QED BY <1>2, <1>3, InvertedIsProperty DEF CalendarInv

(* The calls of files.                                                     *)
FileNames == {"grid", "seed", "replay"}

LEMMA FilesAreAsked ==
  ASSUME AskGrid \/ AskSeed \/ AskReplay
  PROVE  \E op \in FileNames : \E on, args, a : Reads(Call(op, on, args), a)
<1>1. ASSUME AskGrid PROVE \E on, args, a : Reads(Call("grid", on, args), a)
  BY <1>1, Zenon DEF AskGrid, Pure
<1>2. ASSUME AskSeed PROVE \E on, args, a : Reads(Call("seed", on, args), a)
  BY <1>2, Zenon DEF AskSeed, SeedTick, Pure
<1>3. ASSUME AskReplay PROVE \E on, args, a : Reads(Call("replay", on, args), a)
  BY <1>3, Zenon DEF AskReplay, Pure
<1> QED BY <1>1, <1>2, <1>3, Zenon DEF FileNames

LEMMA CalendarInvNext ==
  ASSUME CalendarInv, [OfflineNext]_libraryVars
  PROVE  CalendarInv'
<1>0. offset \in Offsets
  BY DEF CalendarInv
<1>1. SUFFICES offset' \in Offsets /\ Inverted(call', answer', offset')
  BY InvertedIsProperty DEF CalendarInv
<1>2. CASE UNCHANGED libraryVars
  <2>1. Inverted(call, answer, offset)
    BY InvertedIsProperty DEF CalendarInv
  <2>2. call' = call /\ answer' = answer /\ offset' = offset
    BY <1>2 DEF libraryVars
  <2> QED BY <1>0, <2>1, <2>2
<1>3. ASSUME Elsewhere
      PROVE  offset' \in Offsets /\ Inverted(call', answer', offset')
  BY <1>0, <1>3, OthersAreInverted, Zenon DEF Elsewhere
<1>4. CASE FromCivil
  <2>1. PICK d \in Dates :
          \/ Reads(Call("FromUtc", NoPath, <<d>>), Construct(d, 0))
          \/ Reads(Call("FromLocal", NoPath, <<d>>), Construct(d, offset))
    BY <1>4, Zenon DEF FromCivil, Pure, InZone
  <2>2. d \in Moments
    BY CalendarAssumption, SMT DEF DatesAreIntegers, Moments
  <2>3. PICK op \in {"FromUtc", "FromLocal"} :
          /\ call' = [op |-> op, on |-> NoPath, args |-> <<d>>]
          /\ answer' = Construct(d, ShiftOf(call', offset)) /\ offset' = offset
    BY <2>1 DEF Reads, Answers, Call, ShiftOf
  <2>4. Inverted(call', Construct(d, ShiftOf(call', offset)), offset)
    BY <1>0, <2>2, <2>3, DateIsInverted, Zenon
  <2> QED BY <1>0, <2>3, <2>4, Zenon
<1>5. CASE FromSatellite
  <2>1. PICK d \in Dates :
          /\ SatelliteDate(d)
          /\ Reads(Call("FromGPS", NoPath, <<d>>), FromGPS(DateDigits(d), TimeSeconds(d)))
    BY <1>5, SMT DEF FromSatellite, Pure, DateDigits, TimeSeconds
  <2>2. /\ call' = [op |-> "FromGPS", on |-> NoPath, args |-> <<d>>]
        /\ answer' = FromGPS(DateDigits(d), TimeSeconds(d)) /\ offset' = offset
    BY <2>1, Zenon DEF Reads, Answers, Call
  <2>3. Inverted(call', FromGPS(DateDigits(d), TimeSeconds(d)), offset)
    BY <2>1, <2>2, SatelliteIsInverted, Zenon
  <2> QED BY <1>0, <2>2, <2>3, Zenon
<1>6. CASE ToCivil
  <2>1. PICK s \in Stamps :
          \/ Reads(Call("ToUtc", NoPath, <<s>>), Decompose(s, 0))
          \/ Reads(Call("ToLocal", NoPath, <<s>>), Decompose(s, offset))
    BY <1>6, Zenon DEF ToCivil, Pure, InZone
  <2>2. s \in [day : Int, sec : 0..(DaySeconds - 1)] /\ InRange(s)
    BY CalendarAssumption, Zenon DEF StampsAreIntegers
  <2>3. PICK op \in {"ToUtc", "ToLocal"} :
          /\ call' = [op |-> op, on |-> NoPath, args |-> <<s>>]
          /\ answer' = Decompose(s, ShiftOf(call', offset)) /\ offset' = offset
    BY <2>1 DEF Reads, Answers, Call, ShiftOf
  <2>4. Inverted(call', Decompose(s, ShiftOf(call', offset)), offset)
    BY <1>0, <2>2, <2>3, StampIsInverted, Zenon
  <2> QED BY <1>0, <2>3, <2>4, Zenon
<1>7. CASE SetTimezone
  <2>1. PICK n \in Zones :
          /\ call' = Call("Timezone", NoPath, <<n>>)
          /\ offset' = IF TimezoneSeconds(n) = NoOffset THEN offset ELSE TimezoneSeconds(n)
    BY <1>7, Zenon DEF SetTimezone, Answers
  <2>2. offset' \in Offsets
    BY <1>0, <2>1, ZonesAreOffsets, Zenon
  <2>3. call'.op \notin CalendarOps
    BY <2>1 DEF Call, CalendarOps
  <2> QED BY <2>2, <2>3, OthersAreInverted, Zenon
<1>8. CASE Return
  <2>1. Elsewhere
    BY <1>8 DEF Return, NoCall, Elsewhere, CalendarOps
  <2> QED BY <1>3, <2>1
<1>9. ASSUME Operate \/ OperateOnOne \/ CallConvert \/ Store \/ Notate
               \/ LookUp \/ GetCell \/ CheckObject
               \/ CallCalculate \/ CallLimit \/ ReadObject \/ SetObject
      PROVE  Elsewhere
  BY <1>9, OperatesElsewhere, CallsElsewhere, Zenon
<1>10. ASSUME AskGrid \/ AskSeed \/ AskReplay
       PROVE  Elsewhere
  <2>1. PICK op \in FileNames : \E on, args, a : Reads(Call(op, on, args), a)
    BY <1>10, FilesAreAsked
  <2>2. op \notin CalendarOps
    BY DEF CalendarOps, FileNames
  <2> QED BY <2>1, <2>2, ReadsElsewhere, Zenon
<1> QED BY <1>2, <1>3, <1>4, <1>5, <1>6, <1>7, <1>8, <1>9, <1>10, Zenon
        DEF OfflineNext, LibraryNext, Ask

\* Dates and timestamps are inverse to each other, for every set of dates, every
\* set of M1 Integer timestamps and every argument of UnixTime.Timezone.
THEOREM CalendarHolds == OfflineSpec => []CalendarIsInvertible
<1>1. CalendarInv /\ [OfflineNext]_libraryVars => CalendarInv'
  BY CalendarInvNext
<1>2. CalendarInv => CalendarIsInvertible
  BY DEF CalendarInv
<1> QED BY CalendarInvInit, <1>1, <1>2, PTL DEF OfflineSpec

-----------------------------------------------------------------------------
(* Least members and recurrences.                                          *)
(* A set of naturals that is not empty has a least member.                 *)
LEMMA LeastIsMember ==
  ASSUME NEW S \in SUBSET Nat, S # {}
  PROVE  Least(S) \in S /\ \A n \in S : Least(S) <= n
<1> DEFINE R == OpToRel(<, Nat)
<1>1. IsWellFoundedOn(R, Nat)
  BY NatLessThanWellFounded
<1>2. \A i, j \in Nat : <<i, j>> \in R <=> i < j
  BY DEF OpToRel
<1> HIDE DEF R
<1>3. PICK i \in S : \A j \in S : ~(<<j, i>> \in R)
  BY <1>1, WFMin
<1>4. ASSUME NEW j \in S PROVE i <= j
  <2>1. i \in Nat /\ j \in Nat
    OBVIOUS
  <2>2. ~(j < i)
    BY <1>2, <1>3, <2>1
  <2> QED BY <2>1, <2>2
<1> QED BY <1>4 DEF Least

(* Induction up to N, for a set.                                           *)
LEMMA Climbs ==
  ASSUME NEW N \in Nat, NEW S, 0 \in S, \A n \in 1..N : n - 1 \in S => n \in S
  PROVE  \A n \in 0..N : n \in S
<1> DEFINE T == {n \in 0..N : n \notin S}
<1> SUFFICES ASSUME T # {} PROVE FALSE
  OBVIOUS
<1>1. T \in SUBSET Nat
  OBVIOUS
<1>2. PICK n \in T : \A m \in T : n <= m
  BY <1>1, LeastIsMember
<1>3. n \in 0..N /\ n \notin S /\ n # 0
  OBVIOUS
<1>4. n - 1 \in 0..N /\ ~(n <= n - 1)
  BY <1>3
<1>5. n - 1 \notin T
  <2> HIDE DEF T
  <2> QED BY <1>2, <1>4
<1>6. n - 1 \in S
  BY <1>4, <1>5
<1> QED BY <1>3, <1>6

(* f starts at b and goes on by m times its last value and a.              *)
Recurs(f, N, b, m, a) ==
  /\ f \in [0..N -> Nat] /\ f[0] = b
  /\ \A n \in 1..N : f[n] = m * f[n - 1] + a[n]

LEMMA RecurrenceExists ==
  ASSUME NEW N \in Nat, NEW b \in Nat, NEW m \in Nat, NEW a \in [1..N -> Nat]
  PROVE  \E f : Recurs(f, N, b, m, a)
<1> DEFINE S == {k \in 0..N : \E f : Recurs(f, k, b, m, a)}
<1>1. 0 \in S
  <2>f. PICK f : f = [n \in 0..0 |-> b]
    OBVIOUS
  <2>1. Recurs(f, 0, b, m, a)
    BY <2>f DEF Recurs
  <2> QED BY <2>1
<1>2. ASSUME NEW k \in 1..N, k - 1 \in S PROVE k \in S
  <2>1. PICK f : Recurs(f, k - 1, b, m, a)
    BY <1>2
  <2>2. f \in [0..(k - 1) -> Nat] /\ f[0] = b
        /\ \A n \in 1..(k - 1) : f[n] = m * f[n - 1] + a[n]
    BY <2>1 DEF Recurs
  <2>v. PICK v : v = m * f[k - 1] + a[k]
    OBVIOUS
  <2>3. v \in Nat
    <3>1. f[k - 1] \in Nat /\ a[k] \in Nat
      BY <2>2
    <3>2. m * f[k - 1] \in Nat
      BY <3>1
    <3> QED BY <3>1, <3>2, <2>v, SMTT(30)
  <2>g. PICK g : g = [n \in 0..k |-> IF n = k THEN v ELSE f[n]]
    OBVIOUS
  <2>4. g \in [0..k -> Nat] /\ g[0] = b
    BY <2>2, <2>3, <2>g
  <2>5. ASSUME NEW n \in 1..k PROVE g[n] = m * g[n - 1] + a[n]
    <3>1. CASE n = k
      <4>1. g[n] = v /\ g[n - 1] = f[k - 1]
        BY <3>1, <2>g
      <4> QED BY <4>1, <3>1, <2>v
    <3>2. CASE n # k
      <4>1. n \in 1..(k - 1) /\ g[n] = f[n] /\ g[n - 1] = f[n - 1]
        BY <3>2, <2>g
      <4> QED BY <4>1, <2>2
    <3> QED BY <3>1, <3>2
  <2>6. Recurs(g, k, b, m, a)
    BY <2>4, <2>5 DEF Recurs
  <2> QED BY <2>6
<1>3. N \in S
  <2> HIDE DEF S
  <2>1. \A n \in 1..N : n - 1 \in S => n \in S
    BY <1>2
  <2>2. \A n \in 0..N : n \in S
    BY <1>1, <2>1, Climbs
  <2>3. N \in 0..N
    OBVIOUS
  <2> QED BY <2>2, <2>3
<1> QED BY <1>3

(* Two lists that recur alike agree as far as both go.                     *)
LEMMA RecurrenceIsOne ==
  ASSUME NEW N \in Nat, NEW M \in Nat, N <= M, NEW b, NEW m, NEW a, NEW c,
         NEW f, NEW g, Recurs(f, N, b, m, a), Recurs(g, M, b, m, c),
         \A n \in 1..N : a[n] = c[n]
  PROVE  \A n \in 0..N : f[n] = g[n]
<1> DEFINE S == {k \in 0..N : f[k] = g[k]}
<1>1. 0 \in S
  BY DEF Recurs
<1>2. ASSUME NEW k \in 1..N, k - 1 \in S PROVE k \in S
  <2>1. f[k] = m * f[k - 1] + a[k]
    BY DEF Recurs
  <2>2. g[k] = m * g[k - 1] + c[k]
    <3>1. k \in 1..M
      OBVIOUS
    <3> QED BY <3>1 DEF Recurs
  <2> QED BY <1>2, <2>1, <2>2
<1>3. \A k \in 0..N : k \in S
  <2> HIDE DEF S
  <2>1. \A n \in 1..N : n - 1 \in S => n \in S
    BY <1>2
  <2> QED BY <1>1, <2>1, Climbs
<1> QED BY <1>3

-----------------------------------------------------------------------------
(* Powers.                                                                 *)
Zeros(n) == [k \in 1..n |-> 0]

LEMMA PowerRecurs ==
  ASSUME NEW b \in Nat, NEW n \in Nat
  PROVE  \E f : Recurs(f, n, 1, b, Zeros(n)) /\ Power(b, n) = f[n]
<1> DEFINE P(p) == p = [k \in 0..n |-> IF k = 0 THEN 1 ELSE b * p[k - 1]]
           p == CHOOSE p : P(p)
<1>0. Zeros(n) \in [1..n -> Nat] /\ \A k \in 1..n : Zeros(n)[k] = 0
  BY DEF Zeros
<1>1. PICK f : Recurs(f, n, 1, b, Zeros(n))
  BY <1>0, RecurrenceExists
<1>2. P(f)
  <2>1. f \in [0..n -> Nat] /\ f[0] = 1
    BY <1>1 DEF Recurs
  <2>2. ASSUME NEW k \in 1..n PROVE f[k] = b * f[k - 1]
    <3>1. f[k] = b * f[k - 1] + 0 /\ f[k - 1] \in Nat
      BY <1>0, <1>1 DEF Recurs
    <3>2. b * f[k - 1] \in Nat
      BY <3>1
    <3> QED BY <3>1, <3>2
  <2> QED BY <2>1, <2>2
<1>3. P(p)
  BY <1>2
<1>4. Power(b, n) = p[n]
  BY DEF Power
<1> HIDE DEF p
<1>5. p = [k \in 0..n |-> p[k]] /\ p[0] = 1
  BY <1>3
<1>6. ASSUME NEW k \in 1..n, f[k - 1] = p[k - 1] PROVE f[k] = p[k]
  BY <1>2, <1>3, <1>6
<1>7. p = f
  <2> DEFINE S == {k \in 0..n : f[k] = p[k]}
  <2>1. 0 \in S
    BY <1>2, <1>3
  <2>2. \A k \in 1..n : k - 1 \in S => k \in S
    BY <1>6
  <2>3. \A k \in 0..n : k \in S
    <3> HIDE DEF S
    <3> QED BY <2>1, <2>2, Climbs
  <2>4. f = [k \in 0..n |-> f[k]]
    BY <1>2
  <2> QED BY <1>5, <2>3, <2>4
<1> QED BY <1>1, <1>4, <1>7

LEMMA PowerIsNatural ==
  ASSUME NEW b \in Nat, NEW n \in Nat
  PROVE  /\ Power(b, n) \in Nat
         /\ Power(b, 0) = 1
         /\ n > 0 => Power(b, n) = b * Power(b, n - 1)
<1>1. PICK f : Recurs(f, n, 1, b, Zeros(n)) /\ Power(b, n) = f[n]
  BY PowerRecurs
<1>2. Power(b, n) \in Nat
  BY <1>1 DEF Recurs
<1>3. Power(b, 0) = 1
  <2>1. PICK g : Recurs(g, 0, 1, b, Zeros(0)) /\ Power(b, 0) = g[0]
    BY PowerRecurs
  <2> QED BY <2>1 DEF Recurs
<1>4. ASSUME n > 0 PROVE Power(b, n) = b * Power(b, n - 1)
  <2>1. n - 1 \in Nat /\ n - 1 <= n /\ n - 1 \in 0..(n - 1)
    BY <1>4
  <2>2. PICK g : Recurs(g, n - 1, 1, b, Zeros(n - 1)) /\ Power(b, n - 1) = g[n - 1]
    BY <2>1, PowerRecurs
  <2>3. \A k \in 1..(n - 1) : Zeros(n - 1)[k] = Zeros(n)[k]
    BY DEF Zeros
  <2>4. g[n - 1] = f[n - 1]
    BY <1>1, <2>1, <2>2, <2>3, RecurrenceIsOne
  <2>5. f[n] = b * f[n - 1] + 0 /\ f[n - 1] \in Nat
    BY <1>1, <1>4 DEF Recurs, Zeros
  <2>6. b * f[n - 1] \in Nat
    BY <2>5
  <2> QED BY <1>1, <2>2, <2>4, <2>5, <2>6
<1> QED BY <1>2, <1>3, <1>4

LEMMA PowerIsPositive ==
  ASSUME NEW b \in Nat, b > 0, NEW n \in Nat
  PROVE  Power(b, n) \in Nat /\ Power(b, n) > 0
<1> DEFINE S == {k \in 0..n : Power(b, k) > 0}
<1>1. 0 \in S
  BY PowerIsNatural
<1>2. ASSUME NEW k \in 1..n, k - 1 \in S PROVE k \in S
  <2>1. Power(b, k) = b * Power(b, k - 1) /\ Power(b, k) \in Nat
    BY PowerIsNatural
  <2>2. Power(b, k - 1) \in Nat /\ Power(b, k - 1) > 0
    BY <1>2, PowerIsNatural
  <2> QED BY <2>1, <2>2
<1>3. \A k \in 0..n : k \in S
  <2> HIDE DEF S
  <2>1. \A k \in 1..n : k - 1 \in S => k \in S
    BY <1>2
  <2> QED BY <1>1, <2>1, Climbs
<1> QED BY <1>3, PowerIsNatural

-----------------------------------------------------------------------------
(* Words, floats and the rounding between them.                            *)
LEMMA Constants ==
  /\ Scale \in Nat /\ Scale > 0 /\ SignBit \in Nat /\ SignBit > 0
  /\ Words = 2 * SignBit /\ IntMin = 0 - SignBit /\ IntMax = SignBit - 1 /\ UIntMax = 2 * SignBit - 1
<1>1. Scale \in Nat /\ Scale > 0
  <2>1. Base \in Nat /\ Base > 0 /\ Places \in Nat
    BY ValuesAssumption
  <2> QED BY <2>1, PowerIsPositive DEF Scale
<1>2. SignBit \in Nat /\ SignBit > 0
  <2>1. Width - 1 \in Nat /\ 2 \in Nat /\ 2 > 0
    BY ValuesAssumption
  <2> QED BY <2>1, PowerIsPositive DEF SignBit
<1> QED BY <1>1, <1>2, SMT DEF Words, IntMin, IntMax, UIntMax

LEMMA FloatConstants ==
  /\ FloatMax \in Nat /\ PosInf = FloatMax + 1 /\ NegInf = 0 - (FloatMax + 1) /\ NaN = FloatMax + 2
<1>1. FloatBits \in Nat /\ FloatExp \in Nat /\ 2 \in Nat /\ 2 > 0
  BY ValuesAssumption
<1>2. Power(2, FloatBits) \in Nat /\ Power(2, FloatBits) > 0 /\ Power(2, FloatExp) \in Nat
  BY <1>1, PowerIsPositive
<1> DEFINE a == Power(2, FloatBits)
           b == Power(2, FloatExp)
<1> HIDE DEF a, b
<1>3. a - 1 \in Nat /\ b \in Nat
  BY <1>2 DEF a, b
<1>4. (a - 1) * b \in Nat
  BY <1>3, SMT
<1>5. FloatMax = (a - 1) * b
  BY DEF FloatMax, a, b
<1> QED BY <1>4, <1>5, SMT DEF PosInf, NegInf, NaN

LEMMA NearestIsInteger ==
  ASSUME NEW p \in Int, NEW q \in Nat, q > 0
  PROVE  Nearest(p, q) \in Int
<1>1. p \div q \in Int
  BY SMT
<1> QED BY <1>1 DEF Nearest

LEMMA SpacingIsNatural ==
  ASSUME NEW n \in Int
  PROVE  /\ \E e \in Exponents(n) : e \in 0..FloatExp /\ Spacing(n) = Power(2, e)
                                    /\ \A d \in Exponents(n) : e <= d
         /\ Spacing(n) \in Nat /\ Spacing(n) > 0
<1>1. FloatExp \in Nat
  BY ValuesAssumption
<1>2. Exponents(n) \in SUBSET Nat /\ FloatExp \in Exponents(n)
  BY <1>1 DEF Exponents
<1> DEFINE e == Least(Exponents(n))
<1>3. e \in Exponents(n) /\ \A d \in Exponents(n) : e <= d
  BY <1>2, LeastIsMember
<1>4. e \in 0..FloatExp
  BY <1>3 DEF Exponents
<1> HIDE DEF e
<1>5. Spacing(n) = Power(2, e)
  BY DEF Spacing, e
<1>6. e \in Nat
  BY <1>1, <1>4
<1> QED BY <1>3, <1>4, <1>5, <1>6, PowerIsPositive

LEMMA BoundedIsNumber ==
  ASSUME NEW n \in Int
  PROVE  Bounded(n) \in Int /\ NegInf <= Bounded(n) /\ Bounded(n) <= PosInf
BY FloatConstants, SMT DEF Bounded, Magnitude, Sign

LEMMA ShortIsNumber ==
  ASSUME NEW n \in Int
  PROVE  Short(n) \in Int /\ NegInf <= Short(n) /\ Short(n) <= PosInf
<1> DEFINE step == Spacing(n)
           near == Nearest(n, step)
<1>1. step \in Nat /\ step > 0
  BY SpacingIsNatural
<1>2. near \in Int
  BY <1>1, NearestIsInteger
<1>3. Short(n) = Bounded(near * step)
  BY DEF Short, Spaced
<1> HIDE DEF step, near
<1>4. near * step \in Int
  BY <1>1, <1>2
<1> QED BY <1>3, <1>4, BoundedIsNumber

LEMMA RoundFloatIsNumber ==
  ASSUME NEW p \in Int, NEW q \in Nat, q > 0
  PROVE  RoundFloat(p, q) \in Int /\ NegInf <= RoundFloat(p, q) /\ RoundFloat(p, q) <= PosInf
BY NearestIsInteger, ShortIsNumber DEF RoundFloat

LEMMA ToFloatIsNumber ==
  ASSUME NEW x, x.fam \in Numeric, x.v \in Int
  PROVE  /\ ToFloat(x) \in Int
         /\ ToFloat(x) = NaN <=> IsNaN(x)
<1>1. CASE x.fam \in Integral
  <2>1. x.v * Scale \in Int
    BY Constants
  <2>2. ToFloat(x) = RoundFloat(x.v * Scale, 1)
    BY <1>1 DEF ToFloat, Integral
  <2>3. ToFloat(x) \in Int /\ ToFloat(x) <= PosInf
    BY <2>1, <2>2, RoundFloatIsNumber
  <2>4. ToFloat(x) # NaN
    BY <2>3, FloatConstants
  <2> QED BY <1>1, <2>3, <2>4 DEF IsNaN, Integral
<1>2. CASE x.fam = "fixed"
  <2>2. ToFloat(x) = RoundFloat(x.v, 1)
    BY <1>2 DEF ToFloat, Integral
  <2>3. ToFloat(x) \in Int /\ ToFloat(x) <= PosInf
    BY <2>2, RoundFloatIsNumber
  <2>4. ToFloat(x) # NaN
    BY <2>3, FloatConstants
  <2> QED BY <1>2, <2>3, <2>4 DEF IsNaN
<1>3. CASE x.fam = "float"
  <2>1. ToFloat(x) = x.v
    BY <1>3 DEF ToFloat, Integral
  <2> QED BY <1>3, <2>1 DEF IsNaN
<1> QED BY <1>1, <1>2, <1>3 DEF Numeric, Integral

(* An operand brought to the family of a comparison is an integer there, and *)
(* NaN only if it is one.                                                  *)
LEMMA OperandIsNumber ==
  ASSUME NEW l, NEW r, l.v \in Int, r.v \in Int, Common(l, r) # "none"
  PROVE  /\ Operand(Common(l, r), l) \in Int /\ Operand(Common(l, r), r) \in Int
         /\ Common(l, r) = Common(r, l)
         /\ Common(l, r) = "float" => /\ Operand("float", l) = NaN <=> IsNaN(l)
                                      /\ Operand("float", r) = NaN <=> IsNaN(r)
         /\ Common(l, r) # "float" => ~IsNaN(l) /\ ~IsNaN(r)
<1>1. l.fam \in Numeric /\ r.fam \in Numeric
  BY Zenon DEF Common, Join, Numeric
<1>2. Common(l, r) = Common(r, l)
  <2>1. {l.fam, r.fam} = {r.fam, l.fam}
    OBVIOUS
  <2>2. {Lattice(l.fam), Lattice(r.fam)} = {Lattice(r.fam), Lattice(l.fam)}
    OBVIOUS
  <2> QED BY <2>1, <2>2, Zenon DEF Common, Join
<1>3. ToFloat(l) \in Int /\ ToFloat(r) \in Int /\ (ToFloat(l) = NaN <=> IsNaN(l)) /\ (ToFloat(r) = NaN <=> IsNaN(r))
  BY <1>1, ToFloatIsNumber
<1>4. CASE Common(l, r) = "float"
  BY <1>2, <1>3, <1>4 DEF Operand
<1>5. CASE Common(l, r) # "float"
  <2>1. l.fam # "float" /\ r.fam # "float"
    BY <1>1, <1>5, Zenon DEF Common, Join, Lattice
  <2>2. AsUnsigned(l.v) \in Int /\ AsUnsigned(r.v) \in Int
    BY Constants, SMT DEF AsUnsigned
  <2>3. ~IsNaN(l) /\ ~IsNaN(r)
    BY <2>1 DEF IsNaN
  <2> QED BY <1>2, <1>5, <2>2, <2>3 DEF Operand
<1> QED BY <1>4, <1>5

-----------------------------------------------------------------------------
(* Comparisons.                                                            *)
Coherent(l, r, a) ==
    LET holds == {op \in {"<", "eq", ">"} : Apply(op, l, r) = True}
    IN  /\ IF IsNaN(l) \/ IsNaN(r) THEN holds = {} ELSE \E op \in {"<", "eq", ">"} : holds = {op}
        /\ Apply(">", r, l) = a
        /\ Apply("eq", l, r) = Apply("eq", r, l)
        /\ (Apply("<=", l, r) = True) = (holds \cap {"<", "eq"} # {})
        /\ (Apply(">=", l, r) = True) = (holds \cap {"eq", ">"} # {})

LEMMA TruthIsRead ==
  ASSUME NEW p, p \in BOOLEAN
  PROVE  /\ Bool(p) = True <=> p
         /\ Bool(p) # Fail
BY SMT DEF Bool, True, Val, Fail

LEMMA ComparisonsAreApplied ==
  ASSUME NEW l, NEW r
  PROVE  /\ Apply("<", l, r) = Compare("<", l, r) /\ Apply(">", l, r) = Compare(">", l, r)
         /\ Apply("<=", l, r) = Compare("<=", l, r) /\ Apply(">=", l, r) = Compare(">=", l, r)
         /\ Apply("eq", l, r) = Equal(l, r)
BY SMT DEF Apply

LEMMA ComparisonIsCoherent ==
  ASSUME NEW l, NEW r, l.v \in Int, r.v \in Int, Apply("<", l, r) # Fail
  PROVE  Coherent(l, r, Apply("<", l, r))
<1> DEFINE j == Common(l, r)
           a == Operand(j, l)
           b == Operand(j, r)
           holds == {op \in {"<", "eq", ">"} : Apply(op, l, r) = True}
           nan == j = "float" /\ (a = NaN \/ b = NaN)
<1>1. j # "none"
  BY ComparisonsAreApplied DEF Compare, CompareIn
<1>2. a \in Int /\ b \in Int /\ j = Common(r, l) /\ nan = (IsNaN(l) \/ IsNaN(r))
  BY <1>1, OperandIsNumber
<1>3. \A op \in {"<", ">", "<=", ">="} :
        /\ Compare(op, l, r) = Bool(~nan /\ Ordered(op, a, b))
        /\ Compare(op, r, l) = Bool(~nan /\ Ordered(op, b, a))
  <2> HIDE DEF j, a, b, nan
  <2>1. ASSUME NEW op \in {"<", ">", "<=", ">="}
        PROVE  /\ Compare(op, l, r) = CompareIn(j, op, a, b)
               /\ Compare(op, r, l) = CompareIn(j, op, b, a)
    BY <1>2 DEF Compare, j, a, b
  <2>2. ASSUME NEW op \in {"<", ">", "<=", ">="}
        PROVE  /\ CompareIn(j, op, a, b) = Bool(~nan /\ Ordered(op, a, b))
               /\ CompareIn(j, op, b, a) = Bool(~nan /\ Ordered(op, b, a))
    <3>1. ((j = "float" => a # NaN /\ b # NaN) /\ Ordered(op, a, b)) = (~nan /\ Ordered(op, a, b))
      BY DEF nan
    <3>2. ((j = "float" => b # NaN /\ a # NaN) /\ Ordered(op, b, a)) = (~nan /\ Ordered(op, b, a))
      BY DEF nan
    <3> QED BY <1>1, <3>1, <3>2, Zenon DEF CompareIn
  <2> QED BY <2>1, <2>2
<1>4. Equal(l, r) = Bool(~nan /\ a = b) /\ Equal(r, l) = Bool(~nan /\ a = b)
  <2> HIDE DEF j, a, b, nan
  <2>1. Equal(l, r) = EqualIn(j, a, b) /\ Equal(r, l) = EqualIn(j, b, a)
    BY <1>1, <1>2 DEF Equal, j, a, b
  <2>2. ((j = "float" => a # NaN) /\ a = b) = (~nan /\ a = b)
    BY DEF nan
  <2>3. ((j = "float" => b # NaN) /\ b = a) = (~nan /\ a = b)
    BY DEF nan
  <2> QED BY <2>1, <2>2, <2>3, Zenon DEF EqualIn
<1> HIDE DEF j, a, b, nan
<1>5. /\ Ordered("<", a, b) = (a < b) /\ Ordered(">", a, b) = (a > b) /\ Ordered(">", b, a) = (b > a)
      /\ Ordered("<=", a, b) = (a <= b) /\ Ordered(">=", a, b) = (a >= b)
  BY SMT DEF Ordered
<1>6. /\ Apply("<", l, r) = Bool(~nan /\ a < b)
      /\ Apply(">", l, r) = Bool(~nan /\ a > b)
      /\ Apply("<=", l, r) = Bool(~nan /\ a <= b)
      /\ Apply(">=", l, r) = Bool(~nan /\ a >= b)
      /\ Apply(">", r, l) = Bool(~nan /\ b > a)
  BY <1>3, <1>5, ComparisonsAreApplied, Zenon
<1>7. /\ Apply("<", l, r) = True <=> ~nan /\ a < b
      /\ Apply(">", l, r) = True <=> ~nan /\ a > b
      /\ Apply("<=", l, r) = True <=> ~nan /\ a <= b
      /\ Apply(">=", l, r) = True <=> ~nan /\ a >= b
      /\ Apply("eq", l, r) = True <=> ~nan /\ a = b
  <2>1. nan \in BOOLEAN
    BY DEF nan
  <2>2. /\ (~nan /\ a < b) \in BOOLEAN /\ (~nan /\ a > b) \in BOOLEAN /\ (~nan /\ a = b) \in BOOLEAN
        /\ (~nan /\ a <= b) \in BOOLEAN /\ (~nan /\ a >= b) \in BOOLEAN
    BY <1>2
  <2>3. Apply("eq", l, r) = Bool(~nan /\ a = b)
    BY <1>4, ComparisonsAreApplied
  <2> QED BY <2>2, <2>3, <1>6, TruthIsRead, Zenon
<1>8. Apply(">", r, l) = Apply("<", l, r)
  BY <1>2, <1>6, SMT
<1>9. Apply("eq", l, r) = Apply("eq", r, l)
  BY <1>4, ComparisonsAreApplied
<1>10. CASE nan
  <2>1. holds = {}
    BY <1>7, <1>10
  <2> QED BY <1>2, <1>7, <1>8, <1>9, <1>10, <2>1, Zenon DEF Coherent
<1>11. CASE ~nan
  <2>1. \E op \in {"<", "eq", ">"} :
          /\ holds = {op}
          /\ (a <= b) = (op \in {"<", "eq"}) /\ (a >= b) = (op \in {"eq", ">"})
    <3>1. CASE a < b
      <4>1. holds = {"<"}
        BY <1>2, <1>7, <1>11, <3>1, SMT
      <4> QED BY <1>2, <3>1, <4>1, SMT
    <3>2. CASE a = b
      <4>1. holds = {"eq"}
        BY <1>2, <1>7, <1>11, <3>2, SMT
      <4> QED BY <1>2, <3>2, <4>1, SMT
    <3>3. CASE a > b
      <4>1. holds = {">"}
        BY <1>2, <1>7, <1>11, <3>3, SMT
      <4> QED BY <1>2, <3>3, <4>1, SMT
    <3> QED BY <1>2, <3>1, <3>2, <3>3
  <2>2. PICK op \in {"<", "eq", ">"} :
                  /\ holds = {op}
                  /\ (a <= b) = (op \in {"<", "eq"}) /\ (a >= b) = (op \in {"eq", ">"})
    BY <2>1
  <2>3. \E o \in {"<", "eq", ">"} : holds = {o}
    BY <2>2
  <2> HIDE DEF holds
  <2>4. /\ holds \cap {"<", "eq"} # {} <=> op \in {"<", "eq"}
        /\ holds \cap {"eq", ">"} # {} <=> op \in {"eq", ">"}
    BY <2>2, Zenon
  <2>5. (Apply("<=", l, r) = True) = (holds \cap {"<", "eq"} # {})
        /\ (Apply(">=", l, r) = True) = (holds \cap {"eq", ">"} # {})
    BY <1>7, <1>11, <2>2, <2>4
  <2> QED BY <1>2, <1>8, <1>9, <1>11, <2>3, <2>5, Zenon DEF Coherent, holds
<1> QED BY <1>10, <1>11

-----------------------------------------------------------------------------
(* Conversions.                                                            *)

(* A word is the one number of its range that differs by whole words.      *)
LEMMA WordIsUnique ==
  ASSUME NEW n \in Int, NEW q \in Int, NEW m \in Int, n = q * Words + m
  PROVE  /\ m \in 0..UIntMax => AsUnsigned(n) = m
         /\ m \in IntMin..IntMax => AsSigned(n) = m
<1>1. Words \in Nat /\ Words > 0 /\ UIntMax = Words - 1
  BY Constants, SMT
<1>2. ASSUME m \in 0..UIntMax PROVE AsUnsigned(n) = m
  <2>1. m \in Nat /\ m < Words
    BY <1>1, <1>2
  <2> QED BY <1>1, <2>1, Quotients DEF AsUnsigned
<1>3. ASSUME m \in IntMin..IntMax PROVE AsSigned(n) = m
  <2>1. IntMin \in Int /\ m - IntMin \in Nat /\ m - IntMin < Words
    BY <1>3, Constants, SMT
  <2> DEFINE k == m - IntMin
  <2>2. n - IntMin = q * Words + k
    <3>1. q * Words \in Int
      BY <1>1
    <3> QED BY <2>1, <3>1
  <2> HIDE DEF k
  <2>3. k \in Nat /\ k < Words /\ k + IntMin = m
    BY <2>1 DEF k
  <2>4. (n - IntMin) % Words = k
    BY <1>1, <2>2, <2>3, Quotients
  <2> QED BY <2>3, <2>4 DEF AsSigned
<1> QED BY <1>2, <1>3

LEMMA WordsAreReduced ==
  ASSUME NEW n \in Int
  PROVE  /\ AsUnsigned(n) \in 0..UIntMax /\ \E q \in Int : n = q * Words + AsUnsigned(n)
         /\ AsSigned(n) \in IntMin..IntMax /\ \E q \in Int : n = q * Words + AsSigned(n)
<1>1. Words \in Nat /\ Words > 0 /\ UIntMax = Words - 1 /\ IntMin \in Int /\ n - IntMin \in Int
      /\ IntMax = IntMin + UIntMax
  BY Constants, SMT
<1>2. PICK q \in Int, r \in Nat : r < Words /\ n = q * Words + r /\ n % Words = r
  BY <1>1, Split
<1>3. PICK k \in Int, s \in Nat :
        s < Words /\ n - IntMin = k * Words + s /\ (n - IntMin) % Words = s
  BY <1>1, Split
<1>4. AsUnsigned(n) = r /\ AsSigned(n) = s + IntMin
  BY <1>2, <1>3 DEF AsUnsigned, AsSigned
<1>5. r \in 0..UIntMax /\ s + IntMin \in IntMin..IntMax
  BY <1>1, <1>2, <1>3
<1>6. n = k * Words + (s + IntMin)
  <2>1. k * Words \in Int
    BY <1>1
  <2> QED BY <1>1, <1>3, <2>1
<1> QED BY <1>2, <1>4, <1>5, <1>6

LEMMA WordsKeepBits ==
  ASSUME NEW n \in Int
  PROVE  /\ AsUnsigned(AsUnsigned(n)) = AsUnsigned(n)
         /\ AsSigned(AsSigned(n)) = AsSigned(n)
         /\ n \in IntMin..IntMax => AsSigned(AsUnsigned(n)) = n /\ AsSigned(n) = n
         /\ n \in 0..UIntMax => AsUnsigned(AsSigned(n)) = n /\ AsUnsigned(n) = n
<1>1. Words \in Nat /\ IntMin \in Int /\ IntMax \in Int /\ UIntMax \in Int
  BY Constants, SMT
<1>2. AsUnsigned(n) \in Int /\ AsUnsigned(n) \in 0..UIntMax
      /\ AsSigned(n) \in Int /\ AsSigned(n) \in IntMin..IntMax
  BY <1>1, WordsAreReduced
<1>3. \A m \in Int : m = 0 * Words + m
  BY <1>1
<1>4. PICK q \in Int : n = q * Words + AsUnsigned(n)
  BY WordsAreReduced
<1>5. PICK k \in Int : n = k * Words + AsSigned(n)
  BY WordsAreReduced
<1>6. AsUnsigned(n) = (0 - q) * Words + n /\ AsSigned(n) = (0 - k) * Words + n
      /\ 0 - q \in Int /\ 0 - k \in Int
  BY <1>1, <1>2, <1>4, <1>5, SMT
<1>7. 0 \in Int
  OBVIOUS
<1>8. AsUnsigned(AsUnsigned(n)) = AsUnsigned(n) /\ AsSigned(AsSigned(n)) = AsSigned(n)
  BY <1>2, <1>3, <1>7, WordIsUnique
<1>9. n \in IntMin..IntMax => AsSigned(AsUnsigned(n)) = n /\ AsSigned(n) = n
  BY <1>2, <1>3, <1>6, <1>7, WordIsUnique
<1>10. n \in 0..UIntMax => AsUnsigned(AsSigned(n)) = n /\ AsUnsigned(n) = n
  BY <1>2, <1>3, <1>6, <1>7, WordIsUnique
<1> QED BY <1>8, <1>9, <1>10

(* The families are pairwise different.                                    *)
LEMMA EnumsAreApart ==
  ASSUME NEW e \in Enums
  PROVE  /\ e \notin Numeric /\ e \notin Integral
         /\ e \notin {"bool", "str", "error", "missing", "unknown", "none", "int", "uint", "float", "fixed"}
BY ValuesAssumption, Zenon DEF Enums, NotEnums, Numeric, Integral

(* What an operand is.                                                     *)
Proper(x) == x = Val(x.fam, x.v) /\ IsOperand(x)

LEMMA ProperIsNumber ==
  ASSUME NEW x, Proper(x), x.fam \in Numeric
  PROVE  /\ x.v \in Int
         /\ x.fam \in {"int", "fixed"} => x.v \in IntMin..IntMax
         /\ x.fam = "uint" => x.v \in 0..UIntMax
         /\ x.fam = "float" => x.v \in {NegInf, PosInf, NaN} \/ (x.v \in (-FloatMax)..FloatMax /\ Short(x.v) = x.v)
<1>1. /\ x.fam \in {"int", "fixed"} => x.v \in IntMin..IntMax
      /\ x.fam = "uint" => x.v \in 0..UIntMax
      /\ x.fam = "float" => x.v \in {NegInf, PosInf, NaN} \/ (x.v \in (-FloatMax)..FloatMax /\ Short(x.v) = x.v)
  BY DEF Proper, IsOperand, IsFloat, IsFinite
<1>2. IntMin \in Int /\ IntMax \in Int /\ UIntMax \in Int
  BY Constants, SMT
<1>3. NegInf \in Int /\ PosInf \in Int /\ NaN \in Int /\ FloatMax \in Int /\ -FloatMax \in Int
  BY FloatConstants, SMT
<1>4. x.fam \in {"int", "fixed"} \/ x.fam = "uint" \/ x.fam = "float"
  BY DEF Numeric, Integral
<1>5. CASE x.fam = "float"
  BY <1>1, <1>3, <1>5
<1>6. CASE x.fam # "float"
  BY <1>1, <1>2, <1>4, <1>6
<1> QED BY <1>1, <1>5, <1>6

(* Coercing to the family of a number.                                     *)
LEMMA ScalarIsKept ==
  ASSUME NEW x, x.v \in Int, NEW k \in Numeric, NEW a, a = CoerceScalar(x, k)
  PROVE  CoerceScalar(a, k) = a
<1>1. CASE x.fam \notin Numeric
  <2>1. a = Fail /\ Fail.fam = "error"
    BY <1>1, Zenon DEF CoerceScalar, Fail, Val
  <2>2. "error" \notin Numeric
    BY DEF Numeric, Integral
  <2> QED BY <2>1, <2>2 DEF CoerceScalar
<1>2. CASE x.fam \in Numeric /\ k \in Integral /\ x.fam \in Integral
  <2>1. a = Wrapped(k, x.v)
    BY <1>2 DEF CoerceScalar
  <2>2. a.fam = k /\ a.v = IF k = "uint" THEN AsUnsigned(x.v) ELSE AsSigned(x.v)
    BY <2>1 DEF Wrapped, Val
  <2>3. Wrapped(k, a.v) = Wrapped(k, x.v)
    <3>1. CASE k = "uint"
      BY <2>2, <3>1, WordsKeepBits, Zenon DEF Wrapped
    <3>2. CASE k # "uint"
      BY <2>2, <3>2, WordsKeepBits, Zenon DEF Wrapped
    <3> QED BY <3>1, <3>2
  <2>4. CoerceScalar(a, k) = Wrapped(k, a.v)
    BY <1>2, <2>2 DEF CoerceScalar
  <2> QED BY <2>1, <2>3, <2>4
<1>3. CASE x.fam \in Numeric /\ ~(k \in Integral /\ x.fam \in Integral) /\ k = "float"
  <2>1. a = Val("float", ToFloat(x))
    BY <1>3, Zenon DEF CoerceScalar
  <2>2. a.fam = "float" /\ a.v = ToFloat(x)
    BY <2>1 DEF Val
  <2>3. "float" \notin Integral /\ "float" # "fixed" /\ "float" \in Numeric
    BY DEF Integral, Numeric
  <2>4. ToFloat(a) = a.v
    BY <2>2, <2>3, SMT DEF ToFloat
  <2>5. CoerceScalar(a, "float") = Val("float", ToFloat(a))
    BY <2>2, <2>3, Zenon DEF CoerceScalar
  <2> QED BY <1>3, <2>1, <2>2, <2>4, <2>5
<1>4. CASE x.fam \in Numeric /\ ~(k \in Integral /\ x.fam \in Integral) /\ k # "float" /\ k = "fixed" /\ x.fam = "fixed"
  BY <1>4, Zenon DEF CoerceScalar
<1>5. CASE x.fam \in Numeric /\ ~(k \in Integral /\ x.fam \in Integral) /\ k # "float" /\ ~(k = "fixed" /\ x.fam = "fixed")
  <2>1. a = Fail /\ Fail.fam = "error"
    BY <1>5, Zenon DEF CoerceScalar, Fail, Val
  <2>2. "error" \notin Numeric
    BY DEF Numeric, Integral
  <2> QED BY <2>1, <2>2 DEF CoerceScalar
<1> QED BY <1>1, <1>2, <1>3, <1>4, <1>5

Declarable == Numeric \cup Enums \cup {"bool", "unknown"}

(* Storing a value once more changes nothing.                              *)
LEMMA StoredIsKept ==
  ASSUME NEW x, Proper(x), NEW d \in Declarable, NEW a, a = Coerce(x, d)
  PROVE  Coerce(a, d) = a
<1>1. CASE d = "unknown"
  BY <1>1 DEF Coerce
<1>2. CASE d # "unknown" /\ x.fam = d /\ d \in {"bool", "str"} \cup Enums
  BY <1>2 DEF Coerce
<1> DEFINE other == d # "unknown" /\ ~(x.fam = d /\ d \in {"bool", "str"} \cup Enums)
<1>3. CASE other /\ d \in Enums /\ x.fam \in Numeric
  <2>1. a = FirstMember(Matching(x, d), d)
    BY <1>3, Zenon DEF Coerce
  <2>2. CASE Matching(x, d) = {}
    <3>1. a = Fail /\ a.fam = "error"
      BY <2>1, <2>2 DEF FirstMember, Fail, Val
    <3>2. "error" # d /\ "error" \notin Numeric /\ d \notin Numeric
      BY <1>3, EnumsAreApart DEF Numeric, Integral
    <3> QED BY <1>3, <3>1, <3>2, Zenon DEF Coerce
  <2>3. CASE Matching(x, d) # {}
    <3>1. a.fam = d
      BY <2>1, <2>3 DEF FirstMember, Val
    <3> QED BY <1>3, <3>1, Zenon DEF Coerce
  <2> QED BY <2>2, <2>3
<1>4. CASE other /\ ~(d \in Enums /\ x.fam \in Numeric) /\ d \in Numeric
  <2>1. d \notin Enums /\ d # "bool" /\ d # "str" /\ d # "unknown"
    BY <1>4, EnumsAreApart DEF Numeric, Integral
  <2>2. \A y : Coerce(y, d) = CoerceScalar(y, d)
    BY <1>4, <2>1, Zenon DEF Coerce
  <2>3. CASE x.fam \in Numeric
    BY <1>4, <2>2, <2>3, ProperIsNumber, ScalarIsKept
  <2>4. CASE x.fam \notin Numeric
    <3>1. a = Fail /\ Fail.fam = "error"
      BY <2>2, <2>4, Zenon DEF CoerceScalar, Fail, Val
    <3>2. "error" \notin Numeric
      BY DEF Numeric, Integral
    <3> QED BY <2>2, <3>1, <3>2 DEF CoerceScalar
  <2> QED BY <2>3, <2>4
<1>5. CASE other /\ ~(d \in Enums /\ x.fam \in Numeric) /\ d \notin Numeric
  <2>1. a = Fail /\ a.fam = "error"
    BY <1>5, Zenon DEF Coerce, Fail, Val
  <2>2. "error" \notin Numeric /\ "error" # d
    BY EnumsAreApart DEF Numeric, Integral, Declarable
  <2> QED BY <1>5, <2>1, <2>2, Zenon DEF Coerce
<1> QED BY <1>1, <1>2, <1>3, <1>4, <1>5

(* A word keeps its bits through both integer families.                    *)
LEMMA WordsComeBack ==
  ASSUME NEW x, Proper(x), x.fam \in Integral, NEW d \in Integral
  PROVE  Coerce(Coerce(x, d), x.fam) = x
<1>1. \A k \in Integral : /\ k \in Numeric /\ k # "unknown" /\ k \notin {"bool", "str"} \cup Enums
  BY EnumsAreApart DEF Numeric, Integral
<1>2. \A k \in Integral : \A y : y.fam \in Integral => Coerce(y, k) = Wrapped(k, y.v)
  BY <1>1, Zenon DEF Coerce, CoerceScalar
<1>3. Coerce(x, d) = Wrapped(d, x.v)
  BY <1>2
<1>4. Wrapped(d, x.v).fam = d /\ Wrapped(d, x.v).v = IF d = "uint" THEN AsUnsigned(x.v) ELSE AsSigned(x.v)
  BY DEF Wrapped, Val
<1>5. Coerce(Coerce(x, d), x.fam) = Wrapped(x.fam, Wrapped(d, x.v).v)
  BY <1>2, <1>3, <1>4
<1>6. x.v \in Int /\ (x.fam = "int" => x.v \in IntMin..IntMax) /\ (x.fam = "uint" => x.v \in 0..UIntMax)
  BY <1>1, ProperIsNumber
<1>7. Wrapped(x.fam, Wrapped(d, x.v).v) = Val(x.fam, x.v)
  <2>1. CASE x.fam = "uint"
    <3>1. AsUnsigned(Wrapped(d, x.v).v) = x.v
      BY <1>4, <1>6, <2>1, WordsKeepBits, Zenon
    <3> QED BY <2>1, <3>1 DEF Wrapped
  <2>2. CASE x.fam = "int"
    <3>1. AsSigned(Wrapped(d, x.v).v) = x.v
      BY <1>4, <1>6, <2>2, WordsKeepBits, Zenon
    <3> QED BY <2>2, <3>1 DEF Wrapped
  <2> QED BY <2>1, <2>2 DEF Integral
<1> QED BY <1>5, <1>7 DEF Proper

(* The member a number is stored as is one that counts it.                 *)
LEMMA MemberIsCounted ==
  ASSUME NEW x, Proper(x), x.fam \in Numeric, NEW d \in Enums, Coerce(x, d) # Fail
  PROVE  EnumInt(Coerce(x, d)).v * Scale = Exact(x)
<1> DEFINE m == Least(Matching(x, d))
<1>1. x.fam # d /\ d # "unknown"
  BY EnumsAreApart
<1>2. Coerce(x, d) = FirstMember(Matching(x, d), d)
  BY <1>1, Zenon DEF Coerce
<1>3. Matching(x, d) # {}
  BY <1>2 DEF FirstMember
<1>4. Matching(x, d) \in SUBSET Nat
  <2>1. EnumValues[d] \in Seq(Int)
    BY ValuesAssumption DEF Enums
  <2>2. DOMAIN EnumValues[d] \subseteq Nat
    BY <2>1
  <2> QED BY <2>2 DEF Matching
<1>5. m \in Matching(x, d)
  BY <1>3, <1>4, LeastIsMember
<1>6. m \in DOMAIN EnumValues[d] /\ Exact(x) = EnumValues[d][m] * Scale
  BY <1>5 DEF Matching
<1> HIDE DEF m
<1>7. Coerce(x, d) = Val(d, m)
  BY <1>2, <1>3 DEF FirstMember, m
<1>8. Coerce(x, d).fam = d /\ Coerce(x, d).v = m
  BY <1>7 DEF Val
<1>9. EnumInt(Coerce(x, d)) = Val("int", EnumValues[d][m])
  BY <1>6, <1>8, Zenon DEF EnumInt
<1> QED BY <1>6, <1>9 DEF Val

(* The nearest integer.                                                    *)
LEMMA HalvesAreAway ==
  ASSUME NEW n \in Int
  PROVE  /\ HalfAway(n) \in Int
         /\ 2 * Magnitude(HalfAway(n) * Scale - n) <= Scale
         /\ HalfAway(-n) = -HalfAway(n)
<1> DEFINE m == Magnitude(n)
           s == Sign(n)
<1>1. m \in Nat /\ n = s * m /\ s \in {-1, 0, 1} /\ Magnitude(-n) = m /\ Sign(-n) = -s /\ -n \in Int
      /\ (s = 0 => m = 0)
  BY SMT DEF Magnitude, Sign
<1>2. Scale \in Nat /\ Scale > 0 /\ Sign(Scale) = 1 /\ Magnitude(Scale) = Scale
  BY Constants, SMT DEF Sign, Magnitude
<1> HIDE DEF m, s
<1>q. PICK q \in Int, r \in Nat : r < Scale /\ m = q * Scale + r /\ m \div Scale = q
  BY <1>1, <1>2, Split
<1>3. Quotient(n, Scale) = s * q /\ Quotient(-n, Scale) = (-s) * q
  <2>1. Quotient(n, Scale) = s * 1 * q /\ Quotient(-n, Scale) = (-s) * 1 * q
    BY <1>1, <1>2, <1>q DEF Quotient, m, s
  <2> QED BY <1>1, <1>q, <2>1
<1>4. Remainder(n, Scale) = s * r /\ Remainder(-n, Scale) = (-s) * r
  <2>1. q * Scale \in Int
    BY <1>2, <1>q
  <2>2. Remainder(n, Scale) = n - Scale * (s * q) /\ Remainder(-n, Scale) = (-n) - Scale * ((-s) * q)
    BY <1>3 DEF Remainder
  <2>3. CASE s = 1
    BY <1>1, <1>2, <1>q, <2>1, <2>2, <2>3, SMT
  <2>4. CASE s = -1
    BY <1>1, <1>2, <1>q, <2>1, <2>2, <2>4, SMT
  <2>5. CASE s = 0
    BY <1>1, <1>2, <1>q, <2>1, <2>2, <2>5, SMT
  <2> QED BY <1>1, <2>3, <2>4, <2>5
<1> DEFINE up == IF 2 * r >= Scale THEN 1 ELSE 0
<1>5. HalfAway(n) = s * (q + up) /\ HalfAway(-n) = (-s) * (q + up)
  <2>1. CASE s = 0
    BY <1>1, <1>2, <1>3, <1>4, <1>q, <2>1, SMT DEF HalfAway, s
  <2>2. CASE s # 0
    <3>1. Magnitude(Remainder(n, Scale)) = r /\ Magnitude(Remainder(-n, Scale)) = r
      BY <1>1, <1>4, <1>q, <2>2, SMT DEF Magnitude
    <3>2. /\ HalfAway(n) = s * q + IF 2 * r >= Scale THEN s ELSE 0
          /\ HalfAway(-n) = (-s) * q + IF 2 * r >= Scale THEN -s ELSE 0
      BY <1>1, <1>3, <3>1 DEF HalfAway, s
    <3> QED BY <1>1, <1>q, <2>2, <3>2, SMT
  <2> QED BY <2>1, <2>2
<1>6. up \in {0, 1} /\ (up = 1 <=> 2 * r >= Scale)
  OBVIOUS
<1> HIDE DEF up
<1>7. HalfAway(n) \in Int /\ HalfAway(-n) = -HalfAway(n)
  BY <1>1, <1>5, <1>6, <1>q, SMT
<1>8. 2 * Magnitude(HalfAway(n) * Scale - n) <= Scale
  <2> DEFINE qs == q * Scale
             us == up * Scale
             d  == us - r
  <2>1. qs \in Int /\ us \in Int /\ (q + up) * Scale = qs + us /\ m = qs + r
    BY <1>2, <1>6, <1>q, SMT
  <2>2. d \in Int /\ 2 * d <= Scale /\ 0 - Scale <= 2 * d
    BY <1>2, <1>6, <1>q, SMT
  <2> HIDE DEF qs, us
  <2>3. HalfAway(n) * Scale - n = s * d
    <3>1. CASE s = 0
      <4>1. HalfAway(n) = 0 /\ n = 0
        BY <1>1, <1>5, <1>6, <1>q, <3>1
      <4> QED BY <1>2, <2>1, <2>2, <3>1, <4>1
    <3>2. CASE s = 1
      <4>1. HalfAway(n) = q + up /\ n = m
        BY <1>1, <1>5, <1>6, <1>q, <3>2
      <4>2. HalfAway(n) * Scale = qs + us
        BY <2>1, <4>1
      <4> QED BY <1>q, <2>1, <3>2, <4>1, <4>2
    <3>3. CASE s = -1
      <4>1. HalfAway(n) = 0 - (q + up) /\ n = 0 - m
        BY <1>1, <1>5, <1>6, <1>q, <3>3
      <4>2. q + up \in Int
        BY <1>6, <1>q
      <4>3. (0 - (q + up)) * Scale = 0 - (q + up) * Scale
        BY <1>2, <4>2, SMT
      <4>4. HalfAway(n) * Scale = 0 - (qs + us)
        BY <2>1, <4>1, <4>3
      <4> QED BY <1>q, <2>1, <3>3, <4>1, <4>4
    <3> QED BY <1>1, <3>1, <3>2, <3>3
  <2> HIDE DEF d
  <2> QED BY <1>1, <1>2, <2>2, <2>3, SMT DEF Magnitude
<1> QED BY <1>7, <1>8

(* What lies between two ends is as near as any other; what does not is    *)
(* nearest to an end.                                                      *)
LEMMA SaturatedIsNearest ==
  ASSUME NEW h \in Int, NEW E \in Int, 2 * Magnitude(h * Scale - E) <= Scale,
         NEW lo \in Int, NEW hi \in Int, lo <= hi, NEW n \in lo..hi
  PROVE  Magnitude(Saturated(h, lo, hi) * Scale - E) <= Magnitude(n * Scale - E)
<1>1. Scale \in Nat /\ Scale > 0
  BY Constants
<1>2. \A i, k \in Int : i < k => i * Scale + Scale <= k * Scale
  BY <1>1, SMT
<1>3. \A i \in Int : i * Scale \in Int
  BY <1>1
<1>4. n \in Int /\ lo <= n /\ n <= hi
  OBVIOUS
<1> DEFINE H == h * Scale
           L == lo * Scale
           U == hi * Scale
           N == n * Scale
<1>5. /\ H \in Int /\ L \in Int /\ U \in Int /\ N \in Int
      /\ (h < lo => H + Scale <= L) /\ (hi < h => U + Scale <= H)
      /\ (lo < n => L + Scale <= N) /\ (lo = n => L = N) /\ (n < hi => N + Scale <= U) /\ (n = hi => N = U)
      /\ (n < h => N + Scale <= H) /\ (n = h => N = H) /\ (h < n => H + Scale <= N)
  BY <1>2, <1>3, <1>4
<1>6. 2 * (H - E) <= Scale /\ 0 - Scale <= 2 * (H - E)
  BY <1>1, <1>5, SMT DEF Magnitude
<1>7. Saturated(h, lo, hi) * Scale = IF h < lo THEN L ELSE IF h > hi THEN U ELSE H
  BY DEF Saturated
<1> HIDE DEF H, L, U, N
<1>8. Magnitude((IF h < lo THEN L ELSE IF h > hi THEN U ELSE H) - E) <= Magnitude(N - E)
  <2>1. CASE h < lo
    <3>1. L <= N /\ E <= L
      BY <1>1, <1>4, <1>5, <1>6, <2>1, SMT
    <3> QED BY <1>5, <2>1, <3>1, SMT DEF Magnitude
  <2>2. CASE h > hi
    <3>1. N <= U /\ U <= E
      BY <1>1, <1>4, <1>5, <1>6, <2>2, SMT
    <3>2. ~(h < lo)
      BY <2>2
    <3> QED BY <1>5, <2>2, <3>1, <3>2, SMT DEF Magnitude
  <2>3. CASE ~(h < lo) /\ ~(h > hi)
    <3>1. N = H \/ 2 * (N - E) >= Scale \/ 2 * (E - N) >= Scale
      BY <1>1, <1>4, <1>5, <1>6, SMT
    <3> QED BY <1>1, <1>5, <1>6, <2>3, <3>1, SMT DEF Magnitude
  <2> QED BY <2>1, <2>2, <2>3
<1> QED BY <1>7, <1>8 DEF N

\* The ends of the word a conversion answers in.
LowEnd(op)  == IF op = "ToInteger" THEN IntMin ELSE 0
HighEnd(op) == IF op = "ToInteger" THEN IntMax ELSE UIntMax

LEMMA ConvertedIsSaturated ==
  ASSUME NEW op \in {"ToInteger", "ToUnsignedInteger"}, NEW x, Convert(op, x) # Fail
  PROVE  /\ x.fam \in Numeric /\ ~(x.fam = "float" /\ x.v = NaN)
         /\ Convert(op, x).v = Saturated(Nearby(x), LowEnd(op), HighEnd(op))
<1>1. CASE op = "ToInteger"
  <2>1. Convert(op, x) = ToInteger(x)
    BY <1>1, SMT DEF Convert
  <2>2. x.fam \in Numeric /\ ~(x.fam = "float" /\ x.v = NaN)
    BY <2>1 DEF ToInteger
  <2>3. Convert(op, x) = Val("int", Saturated(Nearby(x), IntMin, IntMax))
    BY <2>1, <2>2, Zenon DEF ToInteger
  <2> QED BY <1>1, <2>2, <2>3 DEF Val, LowEnd, HighEnd
<1>2. CASE op = "ToUnsignedInteger"
  <2>1. Convert(op, x) = ToUnsignedInteger(x)
    BY <1>2, SMT DEF Convert
  <2>2. x.fam \in Numeric /\ ~(x.fam = "float" /\ x.v = NaN)
    BY <2>1 DEF ToUnsignedInteger
  <2>3. Convert(op, x) = Val("uint", Saturated(Nearby(x), 0, UIntMax))
    BY <2>1, <2>2, Zenon DEF ToUnsignedInteger
  <2> QED BY <1>2, <2>2, <2>3 DEF Val, LowEnd, HighEnd
<1> QED BY <1>1, <1>2

LEMMA ConvertedIsNearest ==
  ASSUME NEW op \in {"ToInteger", "ToUnsignedInteger"}, NEW x, Proper(x), Convert(op, x) # Fail,
         NEW n \in LowEnd(op)..HighEnd(op)
  PROVE  Magnitude(Convert(op, x).v * Scale - Exact(x)) <= Magnitude(n * Scale - Exact(x))
<1> DEFINE lo == LowEnd(op)
           hi == HighEnd(op)
<1>1. /\ x.fam \in Numeric /\ ~(x.fam = "float" /\ x.v = NaN)
      /\ Convert(op, x).v = Saturated(Nearby(x), lo, hi)
  BY ConvertedIsSaturated
<1>2. lo \in Int /\ hi \in Int /\ lo <= hi /\ 0 - UIntMax <= lo /\ hi <= UIntMax /\ UIntMax \in Nat
  BY Constants, SMT DEF LowEnd, HighEnd
<1>3. Scale \in Nat /\ Scale > 0 /\ x.v \in Int
  BY <1>1, Constants, ProperIsNumber
<1>n. n \in Int /\ n \in lo..hi /\ lo <= n /\ n <= hi
  BY <1>2
<1> HIDE DEF lo, hi
<1>4. CASE x.fam \in Integral
  <2>1. Nearby(x) = x.v /\ Exact(x) = x.v * Scale
    BY <1>4 DEF Nearby, Exact
  <2>2. x.v * Scale \in Int /\ 2 * Magnitude(x.v * Scale - x.v * Scale) <= Scale
    BY <1>3, SMT DEF Magnitude
  <2>3. Magnitude(Saturated(x.v, lo, hi) * Scale - x.v * Scale) <= Magnitude(n * Scale - x.v * Scale)
    BY <1>2, <1>3, <1>n, <2>2, SaturatedIsNearest
  <2> QED BY <1>1, <2>1, <2>3
<1>5. CASE x.fam \notin Integral /\ (x.fam = "fixed" \/ IsFinite(x.v))
  <2>1. Nearby(x) = HalfAway(x.v) /\ Exact(x) = x.v
    BY <1>5 DEF Nearby, Exact
  <2>2. HalfAway(x.v) \in Int /\ 2 * Magnitude(HalfAway(x.v) * Scale - x.v) <= Scale
    BY <1>3, HalvesAreAway
  <2>3. Magnitude(Saturated(HalfAway(x.v), lo, hi) * Scale - x.v) <= Magnitude(n * Scale - x.v)
    BY <1>2, <1>3, <1>n, <2>2, SaturatedIsNearest
  <2> QED BY <1>1, <2>1, <2>3
<1>6. CASE x.fam \notin Integral /\ ~(x.fam = "fixed" \/ IsFinite(x.v))
  <2>1. x.v = PosInf \/ x.v = NegInf
    BY <1>1, <1>6, ProperIsNumber DEF Numeric, IsFinite
  <2>2. Nearby(x) = Sign(x.v) * (UIntMax + 1) /\ Exact(x) = x.v
    BY <1>6 DEF Nearby, Exact
  <2>3. \A i, k \in Int : i <= k => i * Scale <= k * Scale
    BY <1>3, SMT
  <2>4. UIntMax * Scale <= FloatMax /\ UIntMax * Scale \in Nat
    BY <1>2, <1>3, OperandsAssumption
  <2>5. n * Scale \in Int /\ lo * Scale \in Int /\ hi * Scale \in Int
        /\ lo * Scale <= n * Scale /\ n * Scale <= hi * Scale
        /\ hi * Scale <= UIntMax * Scale /\ (0 - UIntMax) * Scale <= lo * Scale
    BY <1>2, <1>3, <1>n, <2>3
  <2>6. (0 - UIntMax) * Scale = 0 - UIntMax * Scale
    BY <1>2, <1>3, SMT
  <2>7. CASE x.v = PosInf
    <3>1. Sign(x.v) = 1 /\ x.v = FloatMax + 1
      BY <2>7, FloatConstants, SMT DEF Sign
    <3>2. Saturated(Nearby(x), lo, hi) = hi
      BY <1>2, <2>2, <3>1, SMT DEF Saturated
    <3> QED BY <1>1, <2>2, <2>4, <2>5, <3>1, <3>2, FloatConstants, SMT DEF Magnitude
  <2>8. CASE x.v = NegInf
    <3>1. Sign(x.v) = -1 /\ x.v = 0 - (FloatMax + 1)
      BY <2>8, FloatConstants, SMT DEF Sign
    <3>2. Saturated(Nearby(x), lo, hi) = lo
      BY <1>2, <2>2, <3>1, SMT DEF Saturated
    <3> QED BY <1>1, <2>2, <2>4, <2>5, <2>6, <3>1, <3>2, FloatConstants, SMT DEF Magnitude
  <2> QED BY <2>1, <2>7, <2>8
<1> QED BY <1>4, <1>5, <1>6

(* A float converts to the opposite of what its opposite converts to, but  *)
(* at the ends.                                                            *)
LEMMA ConvertedIsSymmetric ==
  ASSUME NEW x, Proper(x), x.fam = "float", ToInteger(x) # Fail, ToInteger(x).v > IntMin
  PROVE  ToInteger(Unary("-", x)).v \in {-(ToInteger(x).v), IntMin}
<1>1. x.v # NaN /\ x.fam \in Numeric
  BY Zenon DEF ToInteger
<1>2. x.v \in Int /\ (x.v \in {NegInf, PosInf} \/ x.v \in (-FloatMax)..FloatMax)
  BY <1>1, ProperIsNumber
<1>3. Unary("-", x) = Val("float", -(x.v))
  <2>1. Negated(x.v) = -(x.v)
    BY <1>1 DEF Negated
  <2> QED BY <2>1, SMT DEF Unary
<1> DEFINE y == Unary("-", x)
<1>4. y.fam = "float" /\ y.v = -(x.v)
  BY <1>3 DEF Val
<1>5. y.v # NaN /\ y.v \in Int /\ (IsFinite(y.v) <=> IsFinite(x.v))
  BY <1>2, <1>4, FloatConstants, SMT DEF IsFinite
<1>6. ToInteger(x).v = Saturated(Nearby(x), IntMin, IntMax)
  BY <1>1, Zenon DEF ToInteger, Val
<1>7. ToInteger(y).v = Saturated(Nearby(y), IntMin, IntMax)
  <2>1. ToInteger(y) = Val("int", Saturated(Nearby(y), IntMin, IntMax))
    BY <1>4, <1>5, Zenon DEF ToInteger, Numeric
  <2> QED BY <2>1 DEF Val
<1>8. Nearby(x) \in Int /\ Nearby(y) = -Nearby(x)
  <2>1. "float" \notin Integral /\ "float" # "fixed"
    BY DEF Integral
  <2>2. CASE IsFinite(x.v)
    <3>1. Nearby(x) = HalfAway(x.v) /\ Nearby(y) = HalfAway(-(x.v))
      BY <1>4, <1>5, <2>1, <2>2 DEF Nearby
    <3> QED BY <1>2, <3>1, HalvesAreAway
  <2>3. CASE ~IsFinite(x.v)
    <3>1. Nearby(x) = Sign(x.v) * (UIntMax + 1) /\ Nearby(y) = Sign(-(x.v)) * (UIntMax + 1)
      BY <1>4, <1>5, <2>1, <2>3 DEF Nearby
    <3>2. UIntMax + 1 \in Int
      BY Constants, SMT
    <3> QED BY <1>2, <3>1, <3>2, SMT DEF Sign
  <2> QED BY <2>2, <2>3
<1> HIDE DEF y
<1> DEFINE h == Nearby(x)
<1>9. h \in Int /\ IntMin = 0 - SignBit /\ IntMax = SignBit - 1 /\ SignBit \in Nat /\ SignBit > 0
  BY <1>8, Constants
<1>10. ToInteger(x).v = Saturated(h, IntMin, IntMax) /\ ToInteger(y).v = Saturated(-h, IntMin, IntMax)
  BY <1>6, <1>7, <1>8
<1> HIDE DEF h
<1>11. Saturated(-h, IntMin, IntMax) \in {-(ToInteger(x).v), IntMin}
  BY <1>9, <1>10, SMT DEF Saturated
<1> QED BY <1>10, <1>11 DEF y

(* What a fixed-point value prints reads back as the value.                *)
LEMMA PrintedIsRead ==
  ASSUME NEW x, Proper(x), x.fam = "fixed"
  PROVE  ParseDecimal(PrintDecimal(x)) = x
<1> DEFINE n == Magnitude(x.v)
           S == {p \in 0..Places : n % Power(Base, Places - p) = 0}
           k == Least(S)
<1>1. x.v \in Int /\ x.v \in IntMin..IntMax
  BY ProperIsNumber DEF Numeric
<1>2. n \in Nat /\ x.v = IF x.v < 0 THEN -n ELSE n
  BY <1>1, SMT DEF Magnitude
<1>3. Places \in Nat /\ Base \in Nat /\ Base > 0
  BY ValuesAssumption
<1> HIDE DEF n
<1>4. Places \in S
  <2>1. Places \in 0..Places /\ Places - Places = 0
    BY <1>3
  <2>2. n % Power(Base, Places - Places) = 0
    BY <1>2, <1>3, <2>1, PowerIsNatural, SMT
  <2> QED BY <2>1, <2>2
<1>5. k \in S
  <2>1. S \in SUBSET Nat
    BY <1>3
  <2> HIDE DEF S
  <2> QED BY <1>4, <2>1, LeastIsMember
<1> HIDE DEF k
<1>6. k \in Nat /\ Places - k \in Nat /\ n % Power(Base, Places - k) = 0
  BY <1>3, <1>5
<1> DEFINE w == Power(Base, Places - k)
<1>7. w \in Nat /\ w > 0
  BY <1>3, <1>6, PowerIsPositive
<1>8. PrintDecimal(x) = Decimal(x.v < 0, n \div w, k, 0)
  BY DEF PrintDecimal, n, k
<1> HIDE DEF w
<1>9. (n \div w) * w = n
  <2>1. n % w = 0
    BY <1>6 DEF w
  <2>2. PICK q \in Int, r \in Nat : n = q * w + r /\ n \div w = q /\ n % w = r
    BY <1>2, <1>7, Split
  <2>3. q * w \in Int
    BY <1>7, <2>2
  <2> QED BY <2>1, <2>2, <2>3
<1> DEFINE d == Decimal(x.v < 0, n \div w, k, 0)
           shift == d.exponent + Places - d.after
<1>10. d.neg = (x.v < 0) /\ d.digits = n \div w /\ d.after = k /\ d.exponent = 0
  BY DEF Decimal
<1>11. shift = Places - k /\ shift >= 0
  BY <1>3, <1>6, <1>10
<1>12. Power(Base, shift) = w
  BY <1>11 DEF w
<1> DEFINE whole == IF shift >= 0 THEN d.digits * Power(Base, shift) ELSE d.digits \div Power(Base, -shift)
           signed == IF d.neg THEN -whole ELSE whole
<1>13. whole = n
  BY <1>9, <1>10, <1>11, <1>12
<1>14. signed = x.v
  BY <1>2, <1>10, <1>13
<1>15. ~(shift < 0)
  BY <1>3, <1>6, <1>11
<1>16. ParseDecimal(d) = IF (shift < 0 /\ d.digits % Power(Base, -shift) # 0) \/ signed \notin IntMin..IntMax
                         THEN Fail ELSE Val("fixed", signed)
  BY DEF ParseDecimal
<1> HIDE DEF d, shift, whole, signed
<1>17. ParseDecimal(d) = Val("fixed", x.v)
  BY <1>1, <1>14, <1>15, <1>16, Zenon
<1> QED BY <1>8, <1>17 DEF Proper, d

-----------------------------------------------------------------------------
(* Bits.                                                                   *)
BitsFrom(S) == [i \in 1..Width |-> IF Width - i \in S THEN 1 ELSE 0]

LEMMA FromBitsRecurs ==
  ASSUME NEW S
  PROVE  \E f : Recurs(f, Width, 0, 2, BitsFrom(S)) /\ FromBits(S) = f[Width]
<1> DEFINE P(p) == p = [i \in 0..Width |-> IF i = 0 THEN 0 ELSE 2 * p[i - 1] + IF Width - i \in S THEN 1 ELSE 0]
           p == CHOOSE p : P(p)
<1>0. Width \in Nat /\ BitsFrom(S) \in [1..Width -> Nat]
      /\ \A k \in 1..Width : BitsFrom(S)[k] = IF Width - k \in S THEN 1 ELSE 0
  BY ValuesAssumption DEF BitsFrom
<1>1. PICK f : Recurs(f, Width, 0, 2, BitsFrom(S))
  <2>1. 0 \in Nat /\ 2 \in Nat
    OBVIOUS
  <2> QED BY <1>0, <2>1, RecurrenceExists
<1>2. P(f)
  <2>1. f \in [0..Width -> Nat] /\ f[0] = 0
    BY <1>1 DEF Recurs
  <2>2. ASSUME NEW k \in 1..Width PROVE f[k] = 2 * f[k - 1] + IF Width - k \in S THEN 1 ELSE 0
    BY <1>0, <1>1 DEF Recurs
  <2> QED BY <1>0, <2>1, <2>2
<1>3. P(p)
  BY <1>2
<1>4. FromBits(S) = p[Width]
  BY DEF FromBits
<1> HIDE DEF p
<1>5. p = [k \in 0..Width |-> p[k]] /\ p[0] = 0
  BY <1>0, <1>3
<1>6. ASSUME NEW k \in 1..Width, f[k - 1] = p[k - 1] PROVE f[k] = p[k]
  BY <1>0, <1>2, <1>3, <1>6
<1>7. p = f
  <2> DEFINE T == {k \in 0..Width : f[k] = p[k]}
  <2>1. 0 \in T
    BY <1>0, <1>2, <1>3
  <2>2. \A k \in 1..Width : k - 1 \in T => k \in T
    BY <1>0, <1>6
  <2>3. \A k \in 0..Width : k \in T
    <3> HIDE DEF T
    <3> QED BY <1>0, <2>1, <2>2, Climbs
  <2>4. f = [k \in 0..Width |-> f[k]]
    BY <1>2
  <2> QED BY <1>5, <2>3, <2>4
<1> QED BY <1>1, <1>4, <1>7

LEMMA BitIsParted ==
  ASSUME NEW n \in Nat, NEW P \in Nat, P > 0
  PROVE  n \div P = 2 * (n \div (2 * P)) + ((n \div P) % 2)
<1>1. PICK q \in Int, r \in Nat : r < P /\ n = q * P + r /\ n \div P = q
  BY Split
<1>2. PICK h \in Int, t \in Nat : t < 2 /\ q = h * 2 + t /\ q % 2 = t
  <2>1. 2 \in Nat /\ 2 > 0
    OBVIOUS
  <2> QED BY <2>1, Split
<1> DEFINE low == t * P + r
           W   == 2 * P
<1>3. low \in Nat /\ low < W /\ W \in Nat /\ W > 0
  <2>1. t = 0 \/ t = 1
    BY <1>2
  <2> QED BY <1>1, <2>1, SMT
<1>4. n = h * W + low
  <2>1. q * P = h * W + t * P
    BY <1>2, SMT
  <2>2. h * W \in Int /\ t * P \in Int
    BY <1>3
  <2> QED BY <1>1, <2>1, <2>2
<1> HIDE DEF low, W
<1>5. n \div W = h
  BY <1>3, <1>4, Quotients
<1> QED BY <1>1, <1>2, <1>5 DEF W

LEMMA WordIsItsBits ==
  ASSUME NEW n \in 0..UIntMax
  PROVE  FromBits(Bits(n)) = n
<1>1. PICK f : Recurs(f, Width, 0, 2, BitsFrom(Bits(n))) /\ FromBits(Bits(n)) = f[Width]
  BY FromBitsRecurs
<1>2. Width \in Nat /\ Width > 0
  BY ValuesAssumption
<1>3. \A i \in 0..Width : Power(2, i) \in Nat /\ Power(2, i) > 0
  <2>1. 2 \in Nat /\ 2 > 0 /\ \A i \in 0..Width : i \in Nat
    BY <1>2
  <2> QED BY <2>1, PowerIsPositive
<1> DEFINE T == {i \in 0..Width : f[i] = n \div Power(2, Width - i)}
<1>4. n \in Nat /\ n < Power(2, Width)
  <2>1. Power(2, Width) = 2 * Power(2, Width - 1)
    BY <1>2, PowerIsNatural
  <2> QED BY <2>1, Constants, SMT DEF SignBit
<1>5. 0 \in T
  <2>1. f[0] = 0 /\ Width - 0 = Width
    BY <1>1, <1>2 DEF Recurs
  <2>2. Power(2, Width) \in Nat /\ Power(2, Width) > 0
    BY <1>2, <1>3
  <2>3. n \div Power(2, Width) = 0
    <3>1. n = 0 * Power(2, Width) + n
      BY <1>4, <2>2
    <3>2. 0 \in Int
      OBVIOUS
    <3> QED BY <1>4, <2>2, <3>1, <3>2, Quotients
  <2> QED BY <1>2, <2>1, <2>3
<1>6. ASSUME NEW i \in 1..Width, i - 1 \in T PROVE i \in T
  <2> DEFINE e == Width - i
             P == Power(2, e)
  <2>1. e \in 0..(Width - 1) /\ Width - (i - 1) = e + 1 /\ e + 1 \in 1..Width /\ e \in 0..Width /\ e \in Nat /\ e + 1 \in Nat
    BY <1>2
  <2>2. f[i - 1] = n \div Power(2, e + 1)
    BY <1>6, <2>1
  <2>3. Power(2, e + 1) = 2 * P
    <3>1. (e + 1) - 1 = e /\ e + 1 > 0
      BY <2>1
    <3> QED BY <2>1, <3>1, PowerIsNatural
  <2>4. P \in Nat /\ P > 0
    BY <1>3, <2>1
  <2>5. n \div P = 2 * (n \div (2 * P)) + ((n \div P) % 2)
    BY <1>4, <2>4, BitIsParted
  <2>6. f[i] = 2 * f[i - 1] + IF e \in Bits(n) THEN 1 ELSE 0
    BY <1>1 DEF Recurs, BitsFrom
  <2>7. e \in Bits(n) <=> (n \div P) % 2 = 1
    BY <2>1 DEF Bits
  <2>8. (n \div P) % 2 = 0 \/ (n \div P) % 2 = 1
    <3>1. n \div P \in Int
      BY <1>4, <2>4
    <3> HIDE DEF P
    <3> QED BY <3>1
  <2> HIDE DEF P, e
  <2>9. f[i] = n \div P
    BY <2>2, <2>3, <2>5, <2>6, <2>7, <2>8
  <2> QED BY <2>9 DEF P, e
<1>7. Width \in T
  <2> HIDE DEF T
  <2>1. \A i \in 1..Width : i - 1 \in T => i \in T
    BY <1>6
  <2>2. Width \in 0..Width
    BY <1>2
  <2> QED BY <1>2, <1>5, <2>1, <2>2, Climbs
<1>8. n \div Power(2, 0) = n
  BY <1>4, PowerIsNatural
<1>9. Width - Width = 0
  BY <1>2
<1> QED BY <1>1, <1>7, <1>8, <1>9

(* The common bits of two words count twice in their sum, the others once. *)
LEMMA BitsAreAdded ==
  ASSUME NEW A, NEW B
  PROVE  /\ FromBits(A) \in Nat
         /\ 2 * FromBits(A \cap B) + FromBits((A \cup B) \ (A \cap B)) = FromBits(A) + FromBits(B)
<1>1. Width \in Nat
  BY ValuesAssumption
<1>f. PICK f : Recurs(f, Width, 0, 2, BitsFrom(A)) /\ FromBits(A) = f[Width]
  BY FromBitsRecurs
<1>g. PICK g : Recurs(g, Width, 0, 2, BitsFrom(B)) /\ FromBits(B) = g[Width]
  BY FromBitsRecurs
<1>b. PICK b : Recurs(b, Width, 0, 2, BitsFrom(A \cap B)) /\ FromBits(A \cap B) = b[Width]
  BY FromBitsRecurs
<1>d. PICK d : Recurs(d, Width, 0, 2, BitsFrom((A \cup B) \ (A \cap B)))
               /\ FromBits((A \cup B) \ (A \cap B)) = d[Width]
  BY FromBitsRecurs
<1> DEFINE T == {i \in 0..Width : 2 * b[i] + d[i] = f[i] + g[i]}
<1>2. \A i \in 0..Width : f[i] \in Nat /\ g[i] \in Nat /\ b[i] \in Nat /\ d[i] \in Nat
  BY <1>f, <1>g, <1>b, <1>d DEF Recurs
<1>3. 0 \in T
  BY <1>1, <1>f, <1>g, <1>b, <1>d DEF Recurs
<1>4. ASSUME NEW i \in 1..Width, i - 1 \in T PROVE i \in T
  <2> DEFINE k == Width - i
  <2>1. /\ f[i] = 2 * f[i - 1] + IF k \in A THEN 1 ELSE 0
        /\ g[i] = 2 * g[i - 1] + IF k \in B THEN 1 ELSE 0
        /\ b[i] = 2 * b[i - 1] + IF k \in A \cap B THEN 1 ELSE 0
        /\ d[i] = 2 * d[i - 1] + IF k \in (A \cup B) \ (A \cap B) THEN 1 ELSE 0
    BY <1>f, <1>g, <1>b, <1>d DEF Recurs, BitsFrom
  <2>2. 2 * b[i - 1] + d[i - 1] = f[i - 1] + g[i - 1]
    BY <1>4
  <2>3. f[i - 1] \in Nat /\ g[i - 1] \in Nat /\ b[i - 1] \in Nat /\ d[i - 1] \in Nat
    BY <1>1, <1>2
  <2> HIDE DEF k
  <2>4. 2 * b[i] + d[i] = f[i] + g[i]
    <3> DEFINE bit(S) == IF k \in S THEN 1 ELSE 0
    <3>1. 2 * bit(A \cap B) + bit((A \cup B) \ (A \cap B)) = bit(A) + bit(B)
      OBVIOUS
    <3>2. /\ f[i] = 2 * f[i - 1] + bit(A) /\ g[i] = 2 * g[i - 1] + bit(B)
          /\ b[i] = 2 * b[i - 1] + bit(A \cap B)
          /\ d[i] = 2 * d[i - 1] + bit((A \cup B) \ (A \cap B))
      BY <2>1
    <3>3. \A S : bit(S) \in Nat
      OBVIOUS
    <3>4. PICK x, y, z, w : x = bit(A) /\ y = bit(B) /\ z = bit(A \cap B) /\ w = bit((A \cup B) \ (A \cap B))
      OBVIOUS
    <3>5. x \in Nat /\ y \in Nat /\ z \in Nat /\ w \in Nat /\ 2 * z + w = x + y
      BY <3>1, <3>3, <3>4
    <3>6. f[i] = 2 * f[i - 1] + x /\ g[i] = 2 * g[i - 1] + y /\ b[i] = 2 * b[i - 1] + z /\ d[i] = 2 * d[i - 1] + w
      BY <3>2, <3>4
    <3> HIDE DEF bit
    <3> QED BY <2>2, <2>3, <3>5, <3>6
  <2> QED BY <2>4
<1>5. Width \in T
  <2> HIDE DEF T
  <2>1. \A i \in 1..Width : i - 1 \in T => i \in T
    BY <1>4
  <2>2. Width \in 0..Width
    BY <1>1
  <2> QED BY <1>1, <1>3, <2>1, <2>2, Climbs
<1>6. Width \in 0..Width
  BY <1>1
<1> QED BY <1>2, <1>5, <1>6, <1>f, <1>g, <1>b, <1>d

(* The unsigned mean, without an intermediate that is no word.             *)
LEMMA UnsignedMean ==
  ASSUME NEW a \in 0..UIntMax, NEW b \in 0..UIntMax
  PROVE  UnsignedMidpoint(a, b) = Quotient(a + b, 2)
<1> DEFINE X == FromBits(Bits(a) \cap Bits(b))
           Y == FromBits((Bits(a) \cup Bits(b)) \ (Bits(a) \cap Bits(b)))
<1>1. X \in Nat /\ Y \in Nat /\ 2 * X + Y = a + b
  BY BitsAreAdded, WordIsItsBits, ZenonT(60)
<1>2. UnsignedMidpoint(a, b) = AsUnsigned(X + Y \div 2)
  BY DEF UnsignedMidpoint
<1>3. UIntMax \in Nat /\ a \in Nat /\ b \in Nat /\ a <= UIntMax /\ b <= UIntMax
  BY Constants, SMT
<1> HIDE DEF X, Y
<1>4. X + Y \div 2 = (a + b) \div 2 /\ X + Y \div 2 \in 0..UIntMax /\ X + Y \div 2 \in Int
  BY <1>1, <1>3, SMT
<1>5. Quotient(a + b, 2) = (a + b) \div 2
  BY <1>3, SMT DEF Quotient, Sign, Magnitude
<1> QED BY <1>2, <1>4, <1>5, WordsKeepBits

(* The signed mean: a sum of opposite signs and a sum of halves are words. *)
LEMMA SignedMean ==
  ASSUME NEW a \in IntMin..IntMax, NEW b \in IntMin..IntMax
  PROVE  SignedMidpoint(a, b) = Quotient(a + b, 2)
<1>1. SignBit \in Nat /\ SignBit > 0 /\ IntMin = 0 - SignBit /\ IntMax = SignBit - 1
  BY Constants
<1>2. a \in Int /\ b \in Int /\ IntMin <= a /\ a <= IntMax /\ IntMin <= b /\ b <= IntMax
  BY <1>1
<1>3. CASE Sign(a) # Sign(b)
  <2>1. a + b \in IntMin..IntMax /\ a + b \in Int
    BY <1>1, <1>2, <1>3, SMT DEF Sign
  <2>2. AsSigned(a + b) = a + b
    BY <2>1, WordsKeepBits
  <2> QED BY <1>3, <2>2 DEF SignedMidpoint
<1>4. CASE Sign(a) = Sign(b)
  <2> DEFINE h == Quotient(a, 2) + Quotient(b, 2)
             c == Remainder(a, 2) + Remainder(b, 2)
  <2>1. \A n \in Int : Quotient(n, 2) = IF n >= 0 THEN n \div 2 ELSE 0 - ((0 - n) \div 2)
    BY SMT DEF Quotient, Sign, Magnitude
  <2>2. \A n \in Int : Quotient(n, 2) \in Int /\ Remainder(n, 2) = n - 2 * Quotient(n, 2)
    BY <2>1, SMT DEF Remainder
  <2>3. h \in Int /\ c \in Int /\ c = a + b - 2 * h
    BY <1>2, <2>2, SMT
  <2>4. (a >= 0 /\ b >= 0) \/ (a < 0 /\ b < 0)
    BY <1>2, <1>4, SMT DEF Sign
  <2>5. h \in IntMin..IntMax /\ h + Quotient(c, 2) = Quotient(a + b, 2)
        /\ Quotient(a + b, 2) \in IntMin..IntMax
    <3>1. CASE a >= 0 /\ b >= 0
      <4>1. h = a \div 2 + b \div 2
        BY <1>2, <2>1, <3>1
      <4>2. Quotient(a + b, 2) = (a + b) \div 2
        BY <1>2, <2>1, <3>1
      <4>3. c >= 0
        BY <1>2, <2>2, <2>3, <3>1, <4>1
      <4>4. Quotient(c, 2) = c \div 2
        BY <2>1, <2>3, <4>3
      <4> HIDE DEF h, c
      <4> QED BY <1>1, <1>2, <2>3, <3>1, <4>1, <4>2, <4>3, <4>4, SMT
    <3>2. CASE a < 0 /\ b < 0
      <4>1. h = (0 - ((0 - a) \div 2)) + (0 - ((0 - b) \div 2))
        BY <1>2, <2>1, <3>2
      <4>2. Quotient(a + b, 2) = 0 - ((0 - (a + b)) \div 2)
        BY <1>2, <2>1, <3>2
      <4>3. c <= 0
        BY <1>2, <2>2, <2>3, <3>2, <4>1
      <4>4. Quotient(c, 2) = 0 - ((0 - c) \div 2)
        BY <2>1, <2>3, <4>3
      <4> HIDE DEF h, c
      <4> QED BY <1>1, <1>2, <2>3, <3>2, <4>1, <4>2, <4>3, <4>4, SMT
    <3> QED BY <2>4, <3>1, <3>2
  <2>6. AsSigned(h) = h
    BY <2>3, <2>5, WordsKeepBits
  <2>7. AsSigned(Quotient(a + b, 2)) = Quotient(a + b, 2)
    <3>1. Quotient(a + b, 2) \in Int
      BY <1>2, <2>2
    <3> QED BY <2>5, <3>1, WordsKeepBits
  <2>8. SignedMidpoint(a, b) = AsSigned(AsSigned(h) + Quotient(c, 2))
    BY <1>4 DEF SignedMidpoint
  <2> QED BY <2>5, <2>6, <2>7, <2>8
<1> QED BY <1>3, <1>4

-----------------------------------------------------------------------------
(* Rounding: monotone, and the identity on what it yields.                 *)
LEMMA PowersMultiply ==
  ASSUME NEW e \in Nat, NEW d \in Nat
  PROVE  Power(2, e + d) = Power(2, d) * Power(2, e)
<1> DEFINE T == {k \in 0..d : Power(2, e + k) = Power(2, k) * Power(2, e)}
<1>0. \A k \in Nat : Power(2, k) \in Nat /\ (k > 0 => Power(2, k) = 2 * Power(2, k - 1)) /\ Power(2, 0) = 1
  BY PowerIsNatural
<1>1. 0 \in T
  BY <1>0
<1>2. ASSUME NEW k \in 1..d, k - 1 \in T PROVE k \in T
  <2>1. k \in Nat /\ e + k \in Nat /\ e + k > 0 /\ k > 0 /\ (e + k) - 1 = e + (k - 1) /\ k - 1 \in Nat
    OBVIOUS
  <2>2. Power(2, e + k) = 2 * Power(2, e + (k - 1)) /\ Power(2, k) = 2 * Power(2, k - 1)
    BY <1>0, <2>1
  <2>3. Power(2, e + (k - 1)) = Power(2, k - 1) * Power(2, e)
    BY <1>2
  <2>4. Power(2, k - 1) \in Nat /\ Power(2, e) \in Nat
    BY <1>0, <2>1
  <2>5. \A x, y \in Nat : 2 * (x * y) = (2 * x) * y
    BY SMT
  <2> QED BY <2>2, <2>3, <2>4, <2>5
<1>3. d \in T
  <2> HIDE DEF T
  <2>1. \A k \in 1..d : k - 1 \in T => k \in T
    BY <1>2
  <2>2. d \in 0..d
    OBVIOUS
  <2> QED BY <1>1, <2>1, <2>2, Climbs
<1> QED BY <1>3

(* The nearest of the multiples of a step: itself for a multiple, and in   *)
(* the order of the numbers.                                               *)
LEMMA NearestInOrder ==
  ASSUME NEW q \in Nat, q > 0
  PROVE  /\ \A p, r \in Int : p <= r => Nearest(p, q) <= Nearest(r, q)
         /\ \A k \in Int : Nearest(k * q, q) = k
<1>1. ASSUME NEW p \in Int, NEW r \in Int, p <= r PROVE Nearest(p, q) <= Nearest(r, q)
  <2>1. PICK a \in Int, s \in Nat : s < q /\ p = a * q + s /\ p \div q = a /\ p % q = s
    BY Split
  <2>2. PICK b \in Int, t \in Nat : t < q /\ r = b * q + t /\ r \div q = b /\ r % q = t
    BY Split
  <2>3. a <= b
    <3>1. SUFFICES ASSUME b < a PROVE FALSE
      BY <2>1, <2>2
    <3>2. b * q + q <= a * q
      BY <3>1, <2>1, <2>2, SMT
    <3>3. a * q \in Int /\ b * q \in Int
      BY <2>1, <2>2
    <3> QED BY <1>1, <2>1, <2>2, <3>2, <3>3
  <2>4. a = b => s <= t
    <3>1. a * q \in Int
      BY <2>1
    <3> QED BY <1>1, <2>1, <2>2, <3>1
  <2>5. Nearest(p, q) = IF 2 * s < q \/ (2 * s = q /\ a % 2 = 0) THEN a ELSE a + 1
    BY <2>1 DEF Nearest
  <2>6. Nearest(r, q) = IF 2 * t < q \/ (2 * t = q /\ b % 2 = 0) THEN b ELSE b + 1
    BY <2>2 DEF Nearest
  <2>7. CASE a < b
    BY <2>1, <2>2, <2>5, <2>6, <2>7
  <2>8. CASE a = b
    BY <2>1, <2>2, <2>4, <2>5, <2>6, <2>8
  <2> QED BY <2>1, <2>2, <2>3, <2>7, <2>8
<1>2. ASSUME NEW k \in Int PROVE Nearest(k * q, q) = k
  <2>1. k * q = k * q + 0 /\ k * q \in Int
    OBVIOUS
  <2>2. (k * q) % q = 0 /\ (k * q) \div q = k
    <3>1. 0 \in Nat /\ 0 < q
      OBVIOUS
    <3> QED BY <2>1, <3>1, Quotients
  <2> QED BY <2>2 DEF Nearest
<1> QED BY <1>1, <1>2

LEMMA SpacedInOrder ==
  ASSUME NEW s \in Nat, s > 0
  PROVE  /\ \A n \in Int : Spaced(n, s) \in Int
         /\ \A n, m \in Int : n <= m => Spaced(n, s) <= Spaced(m, s)
         /\ \A k \in Int : Spaced(k * s, s) = k * s
<1>1. \A n \in Int : Nearest(n, s) \in Int
  BY NearestIsInteger
<1>2. \A n \in Int : Spaced(n, s) = Nearest(n, s) * s
  BY DEF Spaced
<1>3. \A n \in Int : Spaced(n, s) \in Int
  BY <1>1, <1>2
<1>4. \A i, k \in Int : i <= k => i * s <= k * s
  BY SMT
<1>5. \A n, m \in Int : n <= m => Spaced(n, s) <= Spaced(m, s)
  BY <1>1, <1>2, <1>4, NearestInOrder
<1>6. ASSUME NEW k \in Int PROVE Spaced(k * s, s) = k * s
  BY NearestInOrder DEF Spaced
<1> QED BY <1>3, <1>5, <1>6

(* The exponent of a number: where its magnitude lies.                     *)
LEMMA ExponentFound ==
  ASSUME NEW n \in Int
  PROVE  \E e \in 0..FloatExp :
           /\ Spacing(n) = Power(2, e)
           /\ e < FloatExp => Magnitude(n) < Power(2, FloatBits + e)
           /\ \A d \in 0..FloatExp : d < e => Magnitude(n) >= Power(2, FloatBits + d)
           /\ \A d \in 0..FloatExp : Magnitude(n) < Power(2, FloatBits + d) => e <= d
<1>1. PICK e \in Exponents(n) : /\ e \in 0..FloatExp /\ Spacing(n) = Power(2, e)
                                /\ \A d \in Exponents(n) : e <= d
  BY SpacingIsNatural
<1>2. FloatExp \in Nat /\ FloatBits \in Nat /\ Magnitude(n) \in Int
  BY ValuesAssumption, SMT DEF Magnitude
<1>3. e < FloatExp => Magnitude(n) < Power(2, FloatBits + e)
  BY <1>1, <1>2 DEF Exponents
<1>4. \A d \in 0..FloatExp : Magnitude(n) < Power(2, FloatBits + d) => e <= d
  BY <1>1 DEF Exponents
<1>5. ASSUME NEW d \in 0..FloatExp, d < e PROVE Magnitude(n) >= Power(2, FloatBits + d)
  <2>1. Power(2, FloatBits + d) \in Int
    BY <1>2, PowerIsNatural
  <2>2. ~(e <= d)
    BY <1>1, <1>5
  <2> QED BY <1>2, <1>4, <2>1, <2>2
<1> QED BY <1>1, <1>3, <1>4, <1>5

(* A power of two that stands apart the spacings of two numbers is a       *)
(* multiple of both.                                                       *)
LEMMA PowerIsMultiple ==
  ASSUME NEW e \in Nat, NEW f \in Nat, e <= f
  PROVE  \E k \in Nat : Power(2, f) = k * Power(2, e)
<1>1. f - e \in Nat /\ e + (f - e) = f
  OBVIOUS
<1>2. Power(2, f) = Power(2, f - e) * Power(2, e)
  BY <1>1, PowersMultiply
<1> QED BY <1>1, <1>2, PowerIsNatural

LEMMA PowersClimb ==
  ASSUME NEW e \in Nat, NEW f \in Nat, e <= f
  PROVE  Power(2, e) \in Nat /\ Power(2, e) > 0 /\ Power(2, f) \in Nat /\ Power(2, e) <= Power(2, f)
         /\ (e < f => 2 * Power(2, e) <= Power(2, f))
<1>0. 2 \in Nat /\ 2 > 0
  OBVIOUS
<1>1. Power(2, e) \in Nat /\ Power(2, e) > 0 /\ Power(2, f) \in Nat
  BY <1>0, PowerIsPositive
<1>2. CASE e = f
  BY <1>1, <1>2
<1>3. CASE e < f
  <2>1. e + 1 \in Nat /\ f - (e + 1) \in Nat /\ (e + 1) + (f - (e + 1)) = f /\ (e + 1) - 1 = e
    BY <1>3
  <2>2. Power(2, e + 1) = 2 * Power(2, e)
    BY <2>1, PowerIsNatural
  <2>3. Power(2, f) = Power(2, f - (e + 1)) * Power(2, e + 1)
    BY <2>1, PowersMultiply
  <2>4. Power(2, f - (e + 1)) \in Nat /\ Power(2, f - (e + 1)) > 0
    BY <1>0, <2>1, PowerIsPositive
  <2>5. \A x, y \in Nat : x > 0 => y <= x * y
    BY SMT
  <2>6. 2 * Power(2, e) <= Power(2, f)
    BY <1>1, <2>2, <2>3, <2>4, <2>5
  <2> QED BY <1>1, <1>3, <2>6
<1> QED BY <1>2, <1>3

Near(n) == Spaced(n, Spacing(n))

LEMMA NearInOrder ==
  ASSUME NEW n \in Int, NEW m \in Int, n <= m
  PROVE  Near(n) \in Int /\ Near(m) \in Int /\ Near(n) <= Near(m)
<1>0. FloatExp \in Nat /\ FloatBits \in Nat /\ FloatBits > 0
  BY ValuesAssumption
<1>1. PICK e \in 0..FloatExp :
           /\ Spacing(n) = Power(2, e)
           /\ e < FloatExp => Magnitude(n) < Power(2, FloatBits + e)
           /\ \A d \in 0..FloatExp : d < e => Magnitude(n) >= Power(2, FloatBits + d)
  BY ExponentFound
<1>2. PICK f \in 0..FloatExp :
           /\ Spacing(m) = Power(2, f)
           /\ f < FloatExp => Magnitude(m) < Power(2, FloatBits + f)
           /\ \A d \in 0..FloatExp : d < f => Magnitude(m) >= Power(2, FloatBits + d)
  BY ExponentFound
<1>3. Spacing(n) \in Nat /\ Spacing(n) > 0 /\ Spacing(m) \in Nat /\ Spacing(m) > 0
  BY SpacingIsNatural
<1>4. Near(n) \in Int /\ Near(m) \in Int
  BY <1>3, SpacedInOrder DEF Near
<1>e. e \in Nat /\ f \in Nat /\ e <= FloatExp /\ f <= FloatExp
  BY <1>0, <1>1, <1>2
\* Between them lies a multiple of both spacings.
<1>5. \A t \in Int : /\ n <= t /\ t <= m
                     /\ \E k \in Int : t = k * Spacing(n)
                     /\ \E k \in Int : t = k * Spacing(m)
                     => Near(n) <= Near(m)
  <2> SUFFICES ASSUME NEW t \in Int, n <= t, t <= m, NEW i \in Int, t = i * Spacing(n),
                      NEW k \in Int, t = k * Spacing(m)
               PROVE  Near(n) <= Near(m)
    OBVIOUS
  <2>1. Spaced(t, Spacing(n)) = t /\ Spaced(t, Spacing(m)) = t
    BY <1>3, SpacedInOrder
  <2>2. Near(n) <= t /\ t <= Near(m)
    BY <1>3, <2>1, SpacedInOrder DEF Near
  <2> QED BY <1>4, <2>2
<1>6. CASE Spacing(n) = Spacing(m)
  BY <1>3, <1>6, SpacedInOrder DEF Near
<1>7. CASE n <= 0 /\ 0 <= m
  <2>1. 0 = 0 * Spacing(n) /\ 0 = 0 * Spacing(m) /\ 0 \in Int
    BY <1>3
  <2> QED BY <1>4, <1>5, <1>7, <2>1
\* The power of two at the foot of the larger exponent.
<1>8. ASSUME NEW a \in Nat, NEW b \in Nat, a < b
      PROVE  /\ FloatBits + (b - 1) \in Nat
             /\ Power(2, FloatBits + (b - 1)) \in Nat /\ Power(2, FloatBits + a) \in Nat
             /\ Power(2, FloatBits + a) <= Power(2, FloatBits + (b - 1))
             /\ \E k \in Nat : Power(2, FloatBits + (b - 1)) = k * Power(2, a)
             /\ \E k \in Nat : Power(2, FloatBits + (b - 1)) = k * Power(2, b)
  <2>1. FloatBits + a \in Nat /\ FloatBits + (b - 1) \in Nat /\ FloatBits + a <= FloatBits + (b - 1)
        /\ a <= FloatBits + (b - 1) /\ b <= FloatBits + (b - 1)
    BY <1>0, <1>8
  <2> QED BY <2>1, PowersClimb, PowerIsMultiple
<1>9. CASE 0 < n /\ Spacing(n) # Spacing(m)
  <2>1. Magnitude(n) = n /\ Magnitude(m) = m
    BY <1>9, SMT DEF Magnitude
  <2>2. e # f
    BY <1>1, <1>2, <1>9
  <2>3. ~(f < e)
    <3> SUFFICES ASSUME f < e PROVE FALSE
      OBVIOUS
    <3>1. n >= Power(2, FloatBits + f) /\ m < Power(2, FloatBits + f)
      BY <1>0, <1>1, <1>2, <1>e, <2>1
    <3>2. Power(2, FloatBits + f) \in Nat
      BY <1>0, <1>e, PowerIsNatural
    <3> QED BY <3>1, <3>2
  <2>4. e < f
    BY <1>e, <2>2, <2>3
  <2> DEFINE t == Power(2, FloatBits + (f - 1))
  <2>5. f - 1 \in 0..FloatExp /\ f - 1 < f
    BY <1>0, <1>e, <2>4
  <2>6. t <= m
    BY <1>2, <2>1, <2>5, <1>8, <1>e, <2>4
  <2>7. n < Power(2, FloatBits + e)
    BY <1>0, <1>1, <1>e, <2>1, <2>4
  <2>8. t \in Int /\ n <= t
    BY <1>8, <1>e, <2>4, <2>7
  <2>9. (\E k \in Int : t = k * Spacing(n)) /\ (\E k \in Int : t = k * Spacing(m))
    BY <1>1, <1>2, <1>8, <1>e, <2>4
  <2> HIDE DEF t
  <2> QED BY <1>4, <1>5, <2>6, <2>8, <2>9
<1>10. CASE m < 0 /\ Spacing(n) # Spacing(m)
  <2>1. Magnitude(n) = 0 - n /\ Magnitude(m) = 0 - m
    BY <1>10, SMT DEF Magnitude
  <2>2. e # f
    BY <1>1, <1>2, <1>10
  <2>3. ~(e < f)
    <3> SUFFICES ASSUME e < f PROVE FALSE
      OBVIOUS
    <3>1. 0 - m >= Power(2, FloatBits + e) /\ 0 - n < Power(2, FloatBits + e)
      BY <1>0, <1>1, <1>2, <1>e, <2>1
    <3>2. Power(2, FloatBits + e) \in Nat
      BY <1>0, <1>e, PowerIsNatural
    <3> QED BY <3>1, <3>2
  <2>4. f < e
    BY <1>e, <2>2, <2>3
  <2> DEFINE p == Power(2, FloatBits + (e - 1))
             t == 0 - p
  <2>5. e - 1 \in 0..FloatExp /\ e - 1 < e
    BY <1>0, <1>e, <2>4
  <2>p. p \in Nat
    BY <1>8, <1>e, <2>4
  <2>6. p <= 0 - n
    BY <1>1, <2>1, <2>5, <2>p
  <2>7. 0 - m < Power(2, FloatBits + f)
    BY <1>0, <1>2, <1>e, <2>1, <2>4
  <2>8. 0 - m <= p
    BY <1>8, <1>e, <2>4, <2>7
  <2>9. (\E k \in Nat : p = k * Spacing(n)) /\ (\E k \in Nat : p = k * Spacing(m))
    BY <1>1, <1>2, <1>8, <1>e, <2>4
  <2>10. \A k \in Nat, s \in Nat : p = k * s => t = (0 - k) * s
    BY <2>p, SMT
  <2> HIDE DEF p
  <2>11. t \in Int /\ n <= t /\ t <= m
    BY <2>p, <2>6, <2>8
  <2> HIDE DEF t
  <2>12. (\E k \in Int : t = k * Spacing(n)) /\ (\E k \in Int : t = k * Spacing(m))
    <3>1. \A k \in Nat : 0 - k \in Int
      OBVIOUS
    <3> QED BY <1>3, <2>9, <2>10, <3>1
  <2> QED BY <1>4, <1>5, <2>11, <2>12
<1> QED BY <1>4, <1>6, <1>7, <1>9, <1>10

LEMMA ShortInOrder ==
  ASSUME NEW n \in Int, NEW m \in Int, n <= m
  PROVE  Short(n) <= Short(m)
<1>1. Near(n) \in Int /\ Near(m) \in Int /\ Near(n) <= Near(m)
  BY NearInOrder
<1>2. Short(n) = Bounded(Near(n)) /\ Short(m) = Bounded(Near(m))
  BY DEF Short, Near
<1> QED BY <1>1, <1>2, FloatConstants, SMT DEF Bounded, Magnitude, Sign

(* A number that has a float is that float.                                *)
LEMMA MultipleIsShort ==
  ASSUME NEW y \in Int, Magnitude(y) <= FloatMax, \E k \in Int : y = k * Spacing(y)
  PROVE  Short(y) = y
<1>1. Spacing(y) \in Nat /\ Spacing(y) > 0
  BY SpacingIsNatural
<1>2. Spaced(y, Spacing(y)) = y
  BY <1>1, SpacedInOrder
<1>3. Magnitude(y) \in Int /\ FloatMax \in Int
  BY FloatConstants, SMT DEF Magnitude
<1> QED BY <1>2, <1>3 DEF Short, Bounded

LEMMA ShortIsShort ==
  ASSUME NEW n \in Int
  PROVE  IsFloat(Short(n))
<1> DEFINE y == Near(n)
<1>0. FloatExp \in Nat /\ FloatBits \in Nat /\ FloatBits > 0 /\ FloatMax \in Nat
  BY ValuesAssumption, FloatConstants
<1>1. PICK e \in 0..FloatExp :
           /\ Spacing(n) = Power(2, e)
           /\ e < FloatExp => Magnitude(n) < Power(2, FloatBits + e)
  BY ExponentFound
<1>e. e \in Nat /\ e <= FloatExp
  BY <1>0, <1>1
<1>2. Spacing(n) \in Nat /\ Spacing(n) > 0
  BY SpacingIsNatural
<1>3. y \in Int /\ \E k \in Int : y = k * Spacing(n)
  <2>1. Nearest(n, Spacing(n)) \in Int
    BY <1>2, NearestIsInteger
  <2> QED BY <1>2, <2>1 DEF Near, Spaced
<1> HIDE DEF y
<1>4. Short(n) = IF Magnitude(y) > FloatMax THEN Sign(y) * PosInf ELSE y
  BY DEF Short, Bounded, Near, y
<1>5. CASE Magnitude(y) > FloatMax
  <2>1. y # 0
    BY <1>0, <1>5, SMT DEF Magnitude
  <2>2. Short(n) = PosInf \/ Short(n) = NegInf
    BY <1>3, <1>4, <1>5, <2>1, FloatConstants, SMT DEF Sign
  <2> QED BY <2>2 DEF IsFloat
<1>6. CASE ~(Magnitude(y) > FloatMax)
  <2>1. Short(n) = y
    BY <1>4, <1>6
  <2>2. Magnitude(y) \in Nat /\ Magnitude(y) <= FloatMax /\ y \in (-FloatMax)..FloatMax
    BY <1>0, <1>3, <1>6, SMT DEF Magnitude
  <2>3. PICK f \in 0..FloatExp :
           /\ Spacing(y) = Power(2, f)
           /\ \A d \in 0..FloatExp : d < f => Magnitude(y) >= Power(2, FloatBits + d)
           /\ \A d \in 0..FloatExp : Magnitude(y) < Power(2, FloatBits + d) => f <= d
    BY <1>3, ExponentFound
  <2>f. f \in Nat /\ f <= FloatExp
    BY <1>0, <2>3
  <2>4. Spacing(y) \in Nat /\ Spacing(y) > 0
    BY <1>3, SpacingIsNatural
  <2>5. \E k \in Int : y = k * Spacing(y)
    <3>1. CASE f <= e
      <4>1. PICK k \in Int : y = k * Power(2, e)
        BY <1>1, <1>3
      <4>2. PICK j \in Nat : Power(2, e) = j * Power(2, f)
        BY <1>e, <2>f, <3>1, PowerIsMultiple
      <4>3. \A u, v, w \in Int : u * (v * w) = (u * v) * w
        BY SMT
      <4>4. Power(2, f) \in Int
        BY <2>3, <2>4
      <4>5. y = (k * j) * Power(2, f) /\ k * j \in Int
        BY <4>1, <4>2, <4>3, <4>4
      <4> QED BY <2>3, <4>5
    <3>2. CASE e < f
      <4> DEFINE t == Power(2, FloatBits + e)
      <4>1. FloatBits + e \in Nat /\ t \in Nat /\ t > 0
        <5>1. FloatBits + e \in Nat /\ 2 \in Nat /\ 2 > 0
          BY <1>0, <1>e
        <5> QED BY <5>1, PowerIsPositive
      <4>2. Magnitude(y) >= t
        BY <2>3, <3>2
      <4>3. e < FloatExp /\ Magnitude(n) < t
        BY <1>0, <1>1, <1>e, <2>f, <3>2
      <4>4. PICK k \in Nat : t = k * Spacing(n)
        <5>1. e <= FloatBits + e
          BY <1>0, <1>e
        <5> QED BY <1>1, <1>e, <4>1, <5>1, PowerIsMultiple
      <4>5. Spaced(t, Spacing(n)) = t /\ Spaced(0 - t, Spacing(n)) = 0 - t
        <5>1. 0 - t = (0 - k) * Spacing(n) /\ 0 - k \in Int /\ k \in Int
          BY <1>2, <4>1, <4>4, SMT
        <5> QED BY <1>2, <4>4, <5>1, SpacedInOrder
      <4>6. 0 - t <= n /\ n <= t /\ t \in Int /\ 0 - t \in Int
        BY <4>1, <4>3, SMT DEF Magnitude
      <4>7. 0 - t <= y /\ y <= t
        BY <1>2, <4>5, <4>6, SpacedInOrder DEF y, Near
      <4>8. y = t \/ y = 0 - t
        BY <1>3, <4>1, <4>2, <4>7, SMT DEF Magnitude
      <4>9. f <= FloatBits + e
        <5>1. e + 1 \in 0..FloatExp /\ FloatBits + (e + 1) \in Nat
          BY <1>0, <1>e, <4>3
        <5>2. 2 * t <= Power(2, FloatBits + (e + 1)) /\ Power(2, FloatBits + (e + 1)) \in Nat
          <6>1. FloatBits + e < FloatBits + (e + 1)
            BY <1>0, <1>e
          <6> QED BY <4>1, <5>1, <6>1, PowersClimb
        <5>3. Magnitude(y) = t
          BY <4>1, <4>8, SMT DEF Magnitude
        <5>4. f <= e + 1
          BY <2>3, <4>1, <5>1, <5>2, <5>3
        <5> QED BY <1>0, <1>e, <2>f, <5>4
      <4>10. PICK j \in Nat : t = j * Spacing(y)
        BY <2>3, <2>f, <4>1, <4>9, PowerIsMultiple
      <4>11. 0 - t = (0 - j) * Spacing(y)
        BY <2>4, <4>1, <4>10, SMT
      <4>12. 0 - j \in Int /\ j \in Int
        OBVIOUS
      <4> HIDE DEF t
      <4> QED BY <4>8, <4>10, <4>11, <4>12
    <3> QED BY <1>e, <2>f, <3>1, <3>2
  <2>6. Short(y) = y
    BY <1>3, <2>2, <2>5, MultipleIsShort
  <2> QED BY <2>1, <2>2, <2>6 DEF IsFloat, IsFinite
<1> QED BY <1>5, <1>6

LEMMA ToFloatIsFloat ==
  ASSUME NEW x, Proper(x), x.fam \in Numeric
  PROVE  IsFloat(ToFloat(x)) /\ ToFloat(x) \in Int
<1>1. x.v \in Int /\ Scale \in Nat
  BY ProperIsNumber, Constants
<1>2. CASE x.fam = "float"
  <2>1. ToFloat(x) = x.v
    BY <1>2 DEF ToFloat, Integral
  <2> QED BY <1>1, <1>2, <2>1 DEF Proper, IsOperand
<1>3. CASE x.fam # "float"
  <2>1. PICK p \in Int : ToFloat(x) = RoundFloat(p, 1)
    <3>1. CASE x.fam \in Integral
      <4>1. x.v * Scale \in Int
        BY <1>1
      <4>2. ToFloat(x) = RoundFloat(x.v * Scale, 1)
        BY <3>1 DEF ToFloat, Integral
      <4> QED BY <4>1, <4>2
    <3>2. CASE x.fam = "fixed"
      BY <1>1, <3>2 DEF ToFloat, Integral
    <3> QED BY <1>3, <3>1, <3>2 DEF Numeric
  <2>2. 1 \in Nat /\ 1 > 0
    OBVIOUS
  <2>3. Nearest(p, 1) \in Int
    BY <2>2, NearestIsInteger
  <2> QED BY <2>1, <2>3, ShortIsShort, ShortIsNumber DEF RoundFloat
<1> QED BY <1>2, <1>3

(* The mean of two floats lies between them, unless it is no number.       *)
LEMMA FloatMean ==
  ASSUME NEW a, NEW b, IsFloat(a), IsFloat(b), FloatMidpoint(a, b) # NaN
  PROVE  /\ FloatSmaller(a, b) <= FloatMidpoint(a, b)
         /\ FloatMidpoint(a, b) <= FloatLarger(a, b)
<1>0. FloatMax \in Nat /\ PosInf = FloatMax + 1 /\ NegInf = 0 - (FloatMax + 1) /\ NaN = FloatMax + 2
  BY FloatConstants
<1>1. a \in Int /\ b \in Int
  BY <1>0 DEF IsFloat, IsFinite
<1>2. CASE IsFinite(a) /\ IsFinite(b)
  <2>1. a # NaN /\ b # NaN /\ Short(a) = a /\ Short(b) = b
    BY <1>0, <1>2 DEF IsFloat, IsFinite
  <2>2. FloatMidpoint(a, b) = Short(Nearest(a + b, 2))
    BY <1>2 DEF FloatMidpoint, RoundFloat
  <2> DEFINE n == Nearest(a + b, 2)
             lo == IF b < a THEN b ELSE a
             hi == IF a < b THEN b ELSE a
  <2>3. lo \in Int /\ hi \in Int /\ a + b \in Int /\ lo * 2 <= a + b /\ a + b <= hi * 2
        /\ lo * 2 \in Int /\ hi * 2 \in Int
    BY <1>1
  <2>4. Nearest(lo * 2, 2) = lo /\ Nearest(hi * 2, 2) = hi /\ Nearest(lo * 2, 2) <= n /\ n <= Nearest(hi * 2, 2)
    <3>1. 2 \in Nat /\ 2 > 0
      OBVIOUS
    <3> QED BY <2>3, <3>1, NearestInOrder
  <2>5. n \in Int
    <3>1. 2 \in Nat /\ 2 > 0
      OBVIOUS
    <3> QED BY <2>3, <3>1, NearestIsInteger
  <2> HIDE DEF n
  <2>6. Short(lo) <= Short(n) /\ Short(n) <= Short(hi)
    BY <2>3, <2>4, <2>5, ShortInOrder
  <2>7. Short(lo) = lo /\ Short(hi) = hi
    BY <2>1
  <2>8. FloatSmaller(a, b) = lo /\ FloatLarger(a, b) = hi
    BY <2>1, SMT DEF FloatSmaller, FloatLarger
  <2> QED BY <2>2, <2>6, <2>7, <2>8 DEF n
<1>3. CASE ~(IsFinite(a) /\ IsFinite(b))
  <2>1. FloatMidpoint(a, b) = FloatAdd(a, b)
    BY <1>3, Zenon DEF FloatMidpoint
  <2>2. a # NaN /\ b # NaN
    BY <2>1 DEF FloatAdd
  <2>3. FloatAdd(a, b) = IF IsFinite(a) THEN b ELSE IF IsFinite(b) \/ a = b THEN a ELSE NaN
    BY <1>3, <2>2, Zenon DEF FloatAdd
  <2>4. (a = PosInf \/ a = NegInf \/ IsFinite(a)) /\ (b = PosInf \/ b = NegInf \/ IsFinite(b))
    BY <2>2 DEF IsFloat
  <2>5. (IsFinite(a) <=> 0 - FloatMax <= a /\ a <= FloatMax) /\ (IsFinite(b) <=> 0 - FloatMax <= b /\ b <= FloatMax)
    BY <1>0, <1>1, SMT DEF IsFinite
  <2>6. FloatSmaller(a, b) = (IF b < a THEN b ELSE a) /\ FloatLarger(a, b) = (IF a < b THEN b ELSE a)
    BY <2>2, SMT DEF FloatSmaller, FloatLarger
  <2> QED BY <1>0, <1>1, <1>3, <2>1, <2>3, <2>4, <2>5, <2>6, SMT
<1> QED BY <1>2, <1>3

-----------------------------------------------------------------------------
(* Arithmetic of words.                                                    *)
Congruent(n, m) == \E q \in Int : n = q * Words + m
WordOf(j, n) == IF j = "uint" THEN AsUnsigned(n) ELSE AsSigned(n)

LEMMA WordsAreNatural == Words \in Nat /\ Words > 0
BY Constants, SMT

LEMMA CongruentSums ==
  ASSUME NEW n \in Int, NEW m \in Int, Congruent(n, m)
  PROVE  /\ \A k, i \in Int : Congruent(k, i) => Congruent(n + k, m + i)
         /\ \A k \in Int : Congruent(n * k, m * k)
         /\ \A k \in Int : Congruent(m, k) => Congruent(n, k)
<1>0. Words \in Nat
  BY WordsAreNatural
<1>1. PICK q \in Int : n = q * Words + m
  BY DEF Congruent
<1>2. ASSUME NEW k \in Int, NEW i \in Int, Congruent(k, i) PROVE Congruent(n + k, m + i)
  <2>1. PICK p \in Int : k = p * Words + i
    BY <1>2 DEF Congruent
  <2>2. (q + p) * Words = q * Words + p * Words /\ q + p \in Int
    BY <1>0, SMT
  <2>3. q * Words \in Int /\ p * Words \in Int
    BY <1>0
  <2>4. n + k = (q + p) * Words + (m + i)
    BY <1>1, <2>1, <2>2, <2>3
  <2> QED BY <2>2, <2>4 DEF Congruent
<1>3. ASSUME NEW k \in Int PROVE Congruent(n * k, m * k)
  <2>1. (q * Words + m) * k = (q * k) * Words + m * k /\ q * k \in Int
    BY <1>0, SMT
  <2> QED BY <1>1, <2>1 DEF Congruent
<1>4. ASSUME NEW k \in Int, Congruent(m, k) PROVE Congruent(n, k)
  <2>1. PICK p \in Int : m = p * Words + k
    BY <1>4 DEF Congruent
  <2>2. (q + p) * Words = q * Words + p * Words /\ q + p \in Int
    BY <1>0, SMT
  <2>3. q * Words \in Int /\ p * Words \in Int
    BY <1>0
  <2>4. n = (q + p) * Words + k
    BY <1>1, <2>1, <2>2, <2>3
  <2> QED BY <2>2, <2>4 DEF Congruent
<1> QED BY <1>2, <1>3, <1>4

LEMMA WordsAreCongruent ==
  ASSUME NEW n \in Int
  PROVE  /\ AsUnsigned(n) \in Int /\ AsSigned(n) \in Int
         /\ Congruent(n, n) /\ Congruent(AsUnsigned(n), n) /\ Congruent(AsSigned(n), n)
         /\ \A m \in Int : Congruent(m, n) => AsUnsigned(m) = AsUnsigned(n) /\ AsSigned(m) = AsSigned(n)
<1>0. Words \in Nat /\ IntMin \in Int /\ IntMax \in Int /\ UIntMax \in Int
  BY WordsAreNatural, Constants, SMT
<1>1. AsUnsigned(n) \in Int /\ AsSigned(n) \in Int /\ AsUnsigned(n) \in 0..UIntMax
      /\ AsSigned(n) \in IntMin..IntMax
  BY <1>0, WordsAreReduced
<1>2. PICK q \in Int : n = q * Words + AsUnsigned(n)
  BY WordsAreReduced
<1>3. PICK k \in Int : n = k * Words + AsSigned(n)
  BY WordsAreReduced
<1>4. /\ n = 0 * Words + n /\ 0 \in Int
      /\ AsUnsigned(n) = (0 - q) * Words + n /\ 0 - q \in Int
      /\ AsSigned(n) = (0 - k) * Words + n /\ 0 - k \in Int
  BY <1>0, <1>1, <1>2, <1>3, SMT
<1>5. Congruent(n, n) /\ Congruent(AsUnsigned(n), n) /\ Congruent(AsSigned(n), n)
  BY <1>4 DEF Congruent
<1>6. ASSUME NEW m \in Int, Congruent(m, n)
      PROVE  AsUnsigned(m) = AsUnsigned(n) /\ AsSigned(m) = AsSigned(n)
  <2>1. PICK p \in Int : m = p * Words + n
    BY <1>6 DEF Congruent
  <2>d. \A i \in Int : (p + i) * Words = p * Words + i * Words /\ p + i \in Int /\ i * Words \in Int
    BY <1>0, SMT
  <2>w. p * Words \in Int
    BY <1>0
  <2>2. m = (p + q) * Words + AsUnsigned(n) /\ p + q \in Int
    BY <1>1, <1>2, <2>1, <2>d, <2>w
  <2>3. m = (p + k) * Words + AsSigned(n) /\ p + k \in Int
    BY <1>1, <1>3, <2>1, <2>d, <2>w
  <2> QED BY <1>1, <2>2, <2>3, WordIsUnique
<1> QED BY <1>1, <1>5, <1>6

\* What an operation of words reads of a word, and what it makes of a number.
ReadAs(j, n) == IF j = "uint" THEN AsUnsigned(n) ELSE n

LEMMA ReadIsCongruent ==
  ASSUME NEW j, NEW n \in Int
  PROVE  /\ WordOf(j, n) \in Int /\ ReadAs(j, n) \in Int
         /\ Congruent(ReadAs(j, n), n) /\ Congruent(ReadAs(j, WordOf(j, n)), n)
         /\ ReadAs(j, WordOf(j, n)) \in Int
         /\ \A m \in Int : Congruent(m, n) => WordOf(j, m) = WordOf(j, n)
<1>1. CASE j = "uint"
  BY <1>1, WordsAreCongruent, WordsKeepBits DEF WordOf, ReadAs
<1>2. CASE j # "uint"
  BY <1>2, WordsAreCongruent DEF WordOf, ReadAs
<1> QED BY <1>1, <1>2

LEMMA QuotientIsInteger ==
  ASSUME NEW a \in Int, NEW b \in Int, b # 0
  PROVE  /\ Quotient(a, b) \in Int /\ Remainder(a, b) \in Int
         /\ Quotient(a, b) * b + Remainder(a, b) = a
<1> DEFINE n == Magnitude(a)
           d == Magnitude(b)
           q == n \div d
           s == Sign(a) * Sign(b)
<1>1. n \in Nat /\ d \in Nat /\ d > 0 /\ s \in Int
  BY SMT DEF Magnitude, Sign
<1> HIDE DEF n, d, s
<1>2. q \in Int
  BY <1>1
<1> HIDE DEF q
<1>3. Quotient(a, b) = s * q /\ s * q \in Int
  BY <1>1, <1>2 DEF Quotient, n, d, q, s
<1> DEFINE Q == Quotient(a, b)
<1>4. Q \in Int
  BY <1>3
<1>5. Remainder(a, b) = a - b * Q
  BY DEF Remainder
<1> HIDE DEF Q
<1>6. b * Q \in Int /\ Q * b = b * Q
  BY <1>4, SMT
<1> QED BY <1>4, <1>5, <1>6 DEF Q

LEMMA DividendIsRestored ==
  ASSUME NEW j, NEW a \in Int, NEW b \in Int, b # 0
  PROVE  LET product == WordOf(j, ReadAs(j, WordOf(j, Quotient(a, b))) * b)
         IN  WordOf(j, ReadAs(j, product) + ReadAs(j, WordOf(j, Remainder(a, b)))) = WordOf(j, a)
<1> DEFINE q == Quotient(a, b)
           r == Remainder(a, b)
           p == ReadAs(j, WordOf(j, q)) * b
<1>1. q \in Int /\ r \in Int /\ q * b + r = a
  BY QuotientIsInteger
<1> HIDE DEF q, r
<1>2. ReadAs(j, WordOf(j, q)) \in Int /\ Congruent(ReadAs(j, WordOf(j, q)), q)
  BY <1>1, ReadIsCongruent
<1>3. p \in Int /\ q * b \in Int /\ Congruent(p, q * b)
  BY <1>1, <1>2, CongruentSums, SMTT(30)
<1> HIDE DEF p
<1>4. ReadAs(j, WordOf(j, p)) \in Int /\ Congruent(ReadAs(j, WordOf(j, p)), p)
  BY <1>3, ReadIsCongruent
<1>5. Congruent(ReadAs(j, WordOf(j, p)), q * b)
  BY <1>3, <1>4, CongruentSums
<1>6. ReadAs(j, WordOf(j, r)) \in Int /\ Congruent(ReadAs(j, WordOf(j, r)), r)
  BY <1>1, ReadIsCongruent
<1>7. Congruent(ReadAs(j, WordOf(j, p)) + ReadAs(j, WordOf(j, r)), a)
  BY <1>1, <1>3, <1>4, <1>5, <1>6, CongruentSums
<1>8. ReadAs(j, WordOf(j, p)) + ReadAs(j, WordOf(j, r)) \in Int
  BY <1>4, <1>6
<1>9. WordOf(j, ReadAs(j, WordOf(j, p)) + ReadAs(j, WordOf(j, r))) = WordOf(j, a)
  BY <1>7, <1>8, ReadIsCongruent
<1> QED BY <1>9 DEF p, q, r

LEMMA JoinsOfWords ==
  ASSUME NEW f, NEW g, Join(f, g) \in Integral
  PROVE  /\ f \in Integral /\ g \in Integral
         /\ Join(Join(f, g), g) = Join(f, g)
         /\ Join(Join(f, g), Join(f, g)) = Join(f, g)
         /\ Join(f, g) # "none" /\ Join(f, g) # "float"
<1>1. f \in Numeric /\ g \in Numeric /\ Lattice(f) # "float" /\ Lattice(g) # "float"
  BY Zenon DEF Join, Integral
<1>2. f \in Integral /\ g \in Integral
  BY <1>1 DEF Lattice, Numeric
<1>3. \A h, k \in Integral : Join(h, k) = IF h = "uint" \/ k = "uint" THEN "uint" ELSE "int"
  BY DEF Join, Lattice, Numeric, Integral
<1> QED BY <1>2, <1>3 DEF Integral

LEMMA WordsAreApplied ==
  ASSUME NEW op \in {"+", "*", "/", "%"}, NEW l, NEW r, NEW j, j = Join(l.fam, r.fam), j \in Integral,
         op \in {"/", "%"} => ReadAs(j, r.v) # 0
  PROVE  Apply(op, l, r) = Val(j, WordOf(j, IntOp(op, ReadAs(j, l.v), ReadAs(j, r.v))))
<1>1. j # "none" /\ j # "float"
  BY DEF Integral
<1>2. Operand(j, l) = ReadAs(j, l.v) /\ Operand(j, r) = ReadAs(j, r.v)
  BY <1>1, SMT DEF Operand, ReadAs
<1>3. Apply(op, l, r) = Arithmetic(op, l, r)
  BY SMT DEF Apply
<1>4. Arithmetic(op, l, r) = ArithmeticIn(j, op, Operand(j, l), Operand(j, r))
  BY DEF Arithmetic
<1>5. ~(op \in {"/", "%"} /\ Operand(j, r) = 0)
  BY <1>2
<1>6. ArithmeticIn(j, op, Operand(j, l), Operand(j, r)) = Wrapped(j, IntOp(op, Operand(j, l), Operand(j, r)))
  BY <1>1, <1>5, Zenon DEF ArithmeticIn
<1>7. \A n : Wrapped(j, n) = Val(j, WordOf(j, n))
  BY DEF Wrapped, WordOf
<1> QED BY <1>2, <1>3, <1>4, <1>6, <1>7

\* What WordsAreExact says of a quotient and of a mean.
Rejoins(l, r, a) ==
  Apply("+", Apply("*", a, r), Apply("%", l, r)) = Wrapped(a.fam, l.v)
MeanIsExact(l, r, a) ==
  /\ a.fam \in Integral => a.v = Half(Operand(a.fam, l) + Operand(a.fam, r))
  /\ a.fam = "float" /\ a.v # NaN => Smaller(l, r).v <= a.v /\ a.v <= Larger(l, r).v

LEMMA QuotientRejoins ==
  ASSUME NEW l, NEW r, l.v \in Int, r.v \in Int, Apply("/", l, r).fam \in Integral
  PROVE  Rejoins(l, r, Apply("/", l, r))
<1> DEFINE j == Join(l.fam, r.fam)
           b == ReadAs(j, r.v)
           x == ReadAs(j, l.v)
<1>1. Apply("/", l, r) = ArithmeticIn(j, "/", Operand(j, l), Operand(j, r))
  BY SMT DEF Apply, Arithmetic
<1>2. Fail.fam \notin Integral /\ \A n : Val("float", n).fam \notin Integral
  BY DEF Fail, Val, Integral
<1>3. /\ j # "none" /\ j # "float" /\ Operand(j, r) # 0
      /\ Apply("/", l, r) = Wrapped(j, IntOp("/", Operand(j, l), Operand(j, r)))
  BY <1>1, <1>2, Zenon DEF ArithmeticIn
<1>4. j \in Integral
  <2>1. Apply("/", l, r).fam = j
    BY <1>3 DEF Wrapped, Val
  <2> QED BY <2>1
<1>5. Operand(j, r) = b
  BY <1>3, SMT DEF Operand, ReadAs
<1>6. b \in Int /\ x \in Int /\ b # 0
  BY <1>3, <1>5, ReadIsCongruent
<1>7. /\ \A n, m : IntOp("/", n, m) = Quotient(n, m)
      /\ \A n, m : IntOp("%", n, m) = Remainder(n, m)
      /\ \A n, m : IntOp("*", n, m) = n * m
      /\ \A n, m : IntOp("+", n, m) = n + m
  BY SMT DEF IntOp
<1> DEFINE q == Val(j, WordOf(j, Quotient(x, b)))
           m == Val(j, WordOf(j, Remainder(x, b)))
           p == Val(j, WordOf(j, ReadAs(j, WordOf(j, Quotient(x, b))) * b))
<1>8. Apply("/", l, r) = q /\ Apply("%", l, r) = m
  BY <1>4, <1>6, <1>7, WordsAreApplied
<1>9. /\ q.fam = j /\ q.v = WordOf(j, Quotient(x, b)) /\ m.fam = j /\ m.v = WordOf(j, Remainder(x, b))
      /\ p.fam = j /\ p.v = WordOf(j, ReadAs(j, WordOf(j, Quotient(x, b))) * b)
  BY DEF Val
<1>10. Join(j, r.fam) = j /\ Join(j, j) = j
  BY <1>4, JoinsOfWords
<1> HIDE DEF q, m, p
<1>11. Apply("*", q, r) = p
  <2>1. Apply("*", q, r) = Val(j, WordOf(j, IntOp("*", ReadAs(j, q.v), b)))
    BY <1>4, <1>9, <1>10, WordsAreApplied
  <2> QED BY <1>7, <1>9, <2>1 DEF p
<1>12. Apply("+", p, m) = Val(j, WordOf(j, ReadAs(j, p.v) + ReadAs(j, m.v)))
  <2>1. Apply("+", p, m) = Val(j, WordOf(j, IntOp("+", ReadAs(j, p.v), ReadAs(j, m.v))))
    BY <1>4, <1>9, <1>10, WordsAreApplied
  <2> QED BY <1>7, <2>1
<1>13. WordOf(j, ReadAs(j, p.v) + ReadAs(j, m.v)) = WordOf(j, x)
  BY <1>6, <1>9, DividendIsRestored
<1>14. WordOf(j, x) = WordOf(j, l.v)
  BY ReadIsCongruent
<1>15. Wrapped(j, l.v) = Val(j, WordOf(j, l.v))
  BY DEF Wrapped, WordOf
<1> QED BY <1>8, <1>9, <1>11, <1>12, <1>13, <1>14, <1>15 DEF Rejoins

LEMMA AverageIsExact ==
  ASSUME NEW l, NEW r, Proper(l), Proper(r)
  PROVE  MeanIsExact(l, r, Average(l, r))
<1> DEFINE j == Join(l.fam, r.fam)
           a == Operand(j, l)
           b == Operand(j, r)
<1>1. j \in {"none", "float", "uint", "int"}
  BY Zenon DEF Join
<1>2. Average(l, r) = CASE j = "none"  -> Fail
                        [] j = "float" -> Val(j, FloatMidpoint(a, b))
                        [] j = "uint"  -> Val(j, UnsignedMidpoint(a, b))
                        [] j = "int"   -> Val(j, SignedMidpoint(a, b))
  BY DEF Average
<1>n. j # "none" => l.fam \in Numeric /\ r.fam \in Numeric
  BY Zenon DEF Join
<1> HIDE DEF j
<1>3. CASE j = "none"
  <2>1. Average(l, r) = Fail
    BY <1>2, <1>3
  <2> QED BY <2>1 DEF Fail, Val, MeanIsExact, Integral
<1>4. CASE j = "float"
  <2>1. a = ToFloat(l) /\ b = ToFloat(r)
    BY <1>4 DEF Operand
  <2>2. IsFloat(a) /\ IsFloat(b)
    BY <1>4, <1>n, <2>1, ToFloatIsFloat
  <2>3. Average(l, r) = Val("float", FloatMidpoint(a, b))
    BY <1>2, <1>4
  <2>4. Smaller(l, r).v = FloatSmaller(a, b) /\ Larger(l, r).v = FloatLarger(a, b)
    BY <1>4, Zenon DEF Smaller, Larger, Val, j
  <2> HIDE DEF a, b
  <2>5. Average(l, r).fam = "float" /\ Average(l, r).v = FloatMidpoint(a, b) /\ "float" \notin Integral
    BY <2>3 DEF Val, Integral
  <2> QED BY <2>2, <2>4, <2>5, FloatMean DEF MeanIsExact
<1>5. CASE j = "uint" \/ j = "int"
  <2>1. l.fam \in Integral /\ r.fam \in Integral
    BY <1>5, JoinsOfWords DEF j, Integral
  <2>2. l.v \in Int /\ r.v \in Int
    BY <1>5, <1>n, ProperIsNumber
  <2>3. \A n : Half(n) = Quotient(n, 2)
    BY DEF Half
  <2>4. CASE j = "uint"
    <3>1. a = AsUnsigned(l.v) /\ b = AsUnsigned(r.v)
      BY <2>4 DEF Operand
    <3>2. a \in 0..UIntMax /\ b \in 0..UIntMax
      BY <2>2, <3>1, WordsAreReduced
    <3>3. Average(l, r) = Val("uint", UnsignedMidpoint(a, b))
      BY <1>2, <2>4
    <3> HIDE DEF a, b
    <3>4. Average(l, r).fam = "uint" /\ Average(l, r).v = Quotient(a + b, 2)
      BY <3>2, <3>3, UnsignedMean DEF Val
    <3> QED BY <2>3, <2>4, <3>4 DEF MeanIsExact, a, b
  <2>5. CASE j = "int"
    <3>1. a = l.v /\ b = r.v /\ l.fam = "int" /\ r.fam = "int"
      <4>1. \A h, k \in Integral : Join(h, k) = IF h = "uint" \/ k = "uint" THEN "uint" ELSE "int"
        BY DEF Join, Lattice, Numeric, Integral
      <4> QED BY <2>1, <2>5, <4>1 DEF Operand, Integral, j
    <3>2. a \in IntMin..IntMax /\ b \in IntMin..IntMax
      BY <1>5, <1>n, <3>1, ProperIsNumber
    <3>3. Average(l, r) = Val("int", SignedMidpoint(a, b))
      BY <1>2, <2>5
    <3> HIDE DEF a, b
    <3>4. Average(l, r).fam = "int" /\ Average(l, r).v = Quotient(a + b, 2)
      BY <3>2, <3>3, SignedMean DEF Val
    <3> QED BY <2>3, <2>5, <3>4 DEF MeanIsExact, a, b
  <2> QED BY <1>5, <2>4, <2>5
<1> QED BY <1>1, <1>3, <1>4, <1>5

-----------------------------------------------------------------------------
(* Calls of numbers: what each was asked of, and that the answer is of it. *)
NumberOps == {"<", "/", "Average", "store", "ToInteger", "ToUnsignedInteger", "print"}

Answered(c, a) ==
  /\ c.op \in {"<", "/"} => \E l, r \in Operands :
       c.args[1] = l /\ c.args[2] = r /\ a = Apply(c.op, l, r)
  /\ c.op = "Average" => \E l, r \in Operands :
       c.args[1] = l /\ c.args[2] = r /\ a = Average(l, r)
  /\ c.op = "store" => \E x \in Operands, d \in Declarable :
       c.args[1] = x /\ c.on = d /\ a = Coerce(x, d)
  /\ c.op \in {"ToInteger", "ToUnsignedInteger"} => \E x \in Operands :
       c.args[1] = x /\ a = Convert(c.op, x)
  /\ c.op = "print" => \E x \in Operands :
       x.fam = "fixed" /\ c.args[1] = x /\ a = ParseDecimal(PrintDecimal(x))

AnswersInv == Answered(call, answer)

LEMMA OthersAreAnswered ==
  ASSUME NEW c, NEW a, c.op \notin NumberOps
  PROVE  Answered(c, a)
BY Zenon DEF Answered, NumberOps

\* The operations of every action but the calendar's.
LEMMA CallsAreNamed ==
  ASSUME NEW op, NEW on, NEW args, NEW a, Reads(Call(op, on, args), a)
  PROVE  /\ call' = [op |-> op, on |-> on, args |-> args] /\ answer' = a /\ offset' = offset
         /\ call'.op = op /\ call'.on = on /\ call'.args = args
BY DEF Reads, Answers, Call

LEMMA OperateIsAnswered == Operate => Answered(call', answer')
<1> SUFFICES ASSUME Operate PROVE Answered(call', answer')
  OBVIOUS
<1>1. PICK op \in Arithmetical \cup Comparing \cup Bitwises, l, r \in Operands :
        Reads(Call(op, NoPath, <<l, r>>), Apply(op, l, r))
  BY Zenon DEF Operate, Pure
<1>2. call'.op = op /\ call'.args = <<l, r>> /\ answer' = Apply(op, l, r)
  BY <1>1, CallsAreNamed, Zenon
<1>3. call'.args[1] = l /\ call'.args[2] = r
  BY <1>2
<1>4. op \notin {"Average", "store", "ToInteger", "ToUnsignedInteger", "print"}
  BY DEF Arithmetical, Comparing, Bitwises
<1> QED BY <1>2, <1>3, <1>4, Zenon DEF Answered

LEMMA CalculateIsAnswered == CallCalculate => Answered(call', answer')
<1> SUFFICES ASSUME CallCalculate PROVE Answered(call', answer')
  OBVIOUS
<1>1. ASSUME NEW m \in {"Max", "Min", "Average", "Modulo"}, NEW l \in Operands, NEW r \in Operands,
             Reads(Call(m, "Calculate", <<l, r>>), Calculate(m, <<l, r>>))
      PROVE  Answered(call', answer')
  <2>a. PICK args, a : args = <<l, r>> /\ a = Calculate(m, <<l, r>>)
    OBVIOUS
  <2>b. Reads(Call(m, "Calculate", args), a)
    BY <1>1, <2>a
  <2>c. call'.op = m /\ call'.args = args /\ answer' = a
    BY <2>b, CallsAreNamed, Zenon
  <2>1. call'.op = m /\ call'.args = <<l, r>> /\ answer' = Calculate(m, <<l, r>>)
    BY <2>a, <2>c
  <2>2. call'.args[1] = l /\ call'.args[2] = r
    BY <2>1
  <2>3. Calculate("Average", <<l, r>>) = Average(l, r)
    BY SMT DEF Calculate
  <2>4. m \notin {"<", "/", "store", "ToInteger", "ToUnsignedInteger", "print"}
    OBVIOUS
  <2> QED BY <2>1, <2>2, <2>3, <2>4, Zenon DEF Answered
<1>2. ASSUME NEW m \in {"Absolute", "Floor", "Ceiling", "IsNAN", "IsFinite"}, NEW args, NEW a,
             Reads(Call(m, "Calculate", args), a)
      PROVE  Answered(call', answer')
  <2>1. call'.op = m
    BY <1>2, CallsAreNamed, Zenon
  <2>2. m \notin NumberOps
    BY DEF NumberOps
  <2> QED BY <2>1, <2>2, OthersAreAnswered, Zenon
<1>3. ASSUME NEW args, NEW a, Reads(Call("Bias", "Calculate", args), a)
      PROVE  Answered(call', answer')
  <2>1. call'.op = "Bias"
    BY <1>3, CallsAreNamed, Zenon
  <2> QED BY <2>1, OthersAreAnswered DEF NumberOps
<1> QED BY <1>1, <1>2, <1>3, Zenon DEF CallCalculate, Pure

LEMMA ConvertIsAnswered == CallConvert => Answered(call', answer')
<1> SUFFICES ASSUME CallConvert PROVE Answered(call', answer')
  OBVIOUS
<1>1. PICK m \in {"ToInteger", "ToUnsignedInteger", "ToFixed7DP"}, x \in Operands :
        Reads(Call(m, "Convert", <<x>>), Convert(m, x))
  BY Zenon DEF CallConvert, Pure
<1>2. call'.op = m /\ call'.args = <<x>> /\ answer' = Convert(m, x)
  BY <1>1, CallsAreNamed, Zenon
<1>3. call'.args[1] = x
  BY <1>2
<1>4. m \notin {"<", "/", "Average", "store", "print"}
  OBVIOUS
<1> QED BY <1>2, <1>3, <1>4, Zenon DEF Answered

LEMMA StoreIsAnswered == Store => Answered(call', answer')
<1> SUFFICES ASSUME Store PROVE Answered(call', answer')
  OBVIOUS
<1>1. PICK x \in Operands, d \in Declarable : Reads(Call("store", d, <<x>>), Coerce(x, d))
  BY Zenon DEF Store, Pure, Declarable
<1>2. call'.op = "store" /\ call'.on = d /\ call'.args = <<x>> /\ answer' = Coerce(x, d)
  BY <1>1, CallsAreNamed, Zenon
<1>3. call'.args[1] = x
  BY <1>2
<1>4. "store" \notin {"<", "/", "Average", "ToInteger", "ToUnsignedInteger", "print"}
  OBVIOUS
<1> QED BY <1>2, <1>3, <1>4, Zenon DEF Answered

LEMMA NotateIsAnswered == Notate => Answered(call', answer')
<1> SUFFICES ASSUME Notate PROVE Answered(call', answer')
  OBVIOUS
<1>1. ASSUME NEW x \in Operands, x.fam = "fixed",
             Reads(Call("print", NoPath, <<x>>), ParseDecimal(PrintDecimal(x)))
      PROVE  Answered(call', answer')
  <2>1. call'.op = "print" /\ call'.args = <<x>> /\ answer' = ParseDecimal(PrintDecimal(x))
    BY <1>1, CallsAreNamed, Zenon
  <2>2. call'.args[1] = x
    BY <2>1
  <2>3. "print" \notin {"<", "/", "Average", "ToInteger", "ToUnsignedInteger", "store"}
    OBVIOUS
  <2> QED BY <1>1, <2>1, <2>2, <2>3, Zenon DEF Answered
<1>2. ASSUME NEW args, NEW a, Reads(Call("parse", NoPath, args), a)
      PROVE  Answered(call', answer')
  <2>1. call'.op = "parse"
    BY <1>2, CallsAreNamed, Zenon
  <2> QED BY <2>1, OthersAreAnswered DEF NumberOps
<1>3. \/ \E x \in Operands : x.fam = "fixed" /\ Reads(Call("print", NoPath, <<x>>), ParseDecimal(PrintDecimal(x)))
      \/ \E args, a : Reads(Call("parse", NoPath, args), a)
  BY Zenon DEF Notate, Pure
<1> QED BY <1>1, <1>2, <1>3, Zenon

OtherNames == {"none", "unary", "Max", "Min", "Range", "read", "GetUnscheduled", "AsInteger", "AsString",
               "Validate", "Constrain", "Set", "Lookup", "Get", "FromUtc", "FromLocal", "FromGPS",
               "ToUtc", "ToLocal", "Timezone"}

LEMMA OtherCalls ==
  ASSUME OperateOnOne \/ CallLimit \/ ReadObject \/ CheckObject \/ SetObject \/ LookUp \/ GetCell
           \/ FromCivil \/ FromSatellite \/ ToCivil \/ SetTimezone \/ Return
  PROVE  call'.op \in OtherNames
<1> DEFINE Named(S) == \E op \in S : \E on, args, a : Reads(Call(op, on, args), a)
<1>0. ASSUME NEW S, S \subseteq OtherNames, Named(S) PROVE call'.op \in OtherNames
  <2>1. PICK op \in S : \E on, args, a : Reads(Call(op, on, args), a)
    BY <1>0
  <2>2. call'.op = op
    BY <2>1, CallsAreNamed, Zenon
  <2> QED BY <1>0, <2>2
<1>1. OperateOnOne => Named({"unary"})
  BY Zenon DEF OperateOnOne, Pure
<1>2. CallLimit => Named({"Max", "Min", "Range"})
  BY Zenon DEF CallLimit, Pure
<1>3. ReadObject => Named({"read", "GetUnscheduled", "AsInteger", "AsString"})
  BY Zenon DEF ReadObject, OnStore
<1>4. CheckObject => Named({"Validate", "Constrain"})
  BY Zenon DEF CheckObject, Pure
<1>5. LookUp => Named({"Lookup"})
  BY Zenon DEF LookUp, Pure
<1>6. GetCell => Named({"Get"})
  BY Zenon DEF GetCell, Pure
<1>7. FromCivil => Named({"FromUtc", "FromLocal"})
  BY Zenon DEF FromCivil, Pure, InZone
<1>8. FromSatellite => Named({"FromGPS"})
  <2> SUFFICES ASSUME FromSatellite PROVE \E on, args, a : Reads(Call("FromGPS", on, args), a)
    OBVIOUS
  <2>1. PICK c \in Dates : \E a : Reads(Call("FromGPS", NoPath, <<c>>), a)
    BY SMT DEF FromSatellite, Pure
  <2> QED BY <2>1
<1>9. ToCivil => Named({"ToUtc", "ToLocal"})
  BY Zenon DEF ToCivil, Pure, InZone
<1>10. CASE SetObject
  <2>1. PICK on, args : call' = Call("Set", on, args)
    BY <1>10, Zenon DEF SetObject, Answers
  <2> QED BY <2>1 DEF Call, OtherNames
<1>11. CASE SetTimezone
  <2>1. PICK on, args : call' = Call("Timezone", on, args)
    BY <1>11, Zenon DEF SetTimezone, Answers
  <2> QED BY <2>1 DEF Call, OtherNames
<1>12. CASE Return
  BY <1>12 DEF Return, NoCall, OtherNames
<1>13. /\ {"unary"} \subseteq OtherNames /\ {"Max", "Min", "Range"} \subseteq OtherNames
       /\ {"read", "GetUnscheduled", "AsInteger", "AsString"} \subseteq OtherNames
       /\ {"Validate", "Constrain"} \subseteq OtherNames /\ {"Lookup"} \subseteq OtherNames
       /\ {"Get"} \subseteq OtherNames /\ {"FromUtc", "FromLocal"} \subseteq OtherNames
       /\ {"FromGPS"} \subseteq OtherNames /\ {"ToUtc", "ToLocal"} \subseteq OtherNames
  BY DEF OtherNames
<1> HIDE DEF Named
<1> QED BY <1>0, <1>1, <1>2, <1>3, <1>4, <1>5, <1>6, <1>7, <1>8, <1>9, <1>10, <1>11, <1>12, <1>13, Zenon

(* The calls of files are made with other names again.                     *)
LEMMA FileCalls ==
  ASSUME OfflineNext
  PROVE  LibraryNext \/ call'.op \in FileNames
BY FilesAreAsked, CallsAreNamed, Zenon DEF OfflineNext

LEMMA AnswersInvNext ==
  ASSUME AnswersInv, [OfflineNext]_libraryVars
  PROVE  AnswersInv'
<1>0. OtherNames \cap NumberOps = {} /\ FileNames \cap NumberOps = {}
  BY DEF OtherNames, FileNames, NumberOps
<1>1. CASE UNCHANGED libraryVars
  BY <1>1 DEF AnswersInv, Answered, libraryVars
<1>2. CASE OfflineNext
  <2>1. ASSUME call'.op \in OtherNames \cup FileNames PROVE Answered(call', answer')
    <3>1. call'.op \notin NumberOps
      BY <1>0, <2>1
    <3> QED BY <3>1, OthersAreAnswered
  <2>2. ASSUME LibraryNext PROVE Answered(call', answer')
    BY <2>1, <2>2, OperateIsAnswered, CalculateIsAnswered, ConvertIsAnswered, StoreIsAnswered, NotateIsAnswered,
       OtherCalls, Zenon DEF LibraryNext, Ask
  <2>3. Answered(call', answer')
    BY <1>2, <2>1, <2>2, FileCalls
  <2> QED BY <2>3 DEF AnswersInv
<1> QED BY <1>1, <1>2

LEMMA NumbersAreAnswered == OfflineSpec => []AnswersInv
<1>1. LibraryInit => AnswersInv
  <2>1. NoCall.op \notin NumberOps
    BY DEF NoCall, NumberOps
  <2> QED BY <2>1, OthersAreAnswered DEF LibraryInit, AnswersInv
<1>2. AnswersInv /\ [OfflineNext]_libraryVars => AnswersInv'
  BY AnswersInvNext
<1> QED BY <1>1, <1>2, PTL DEF OfflineSpec

LEMMA OperandsAreIntegers ==
  ASSUME NEW x \in Operands
  PROVE  Proper(x) /\ (x.fam \in Numeric => x.v \in Int)
<1>1. Proper(x)
  BY OperandsAssumption DEF OperandsAreProper, Proper
<1> QED BY <1>1, ProperIsNumber

LEMMA ComparedAreNumbers ==
  ASSUME NEW l, NEW r, Apply("<", l, r) # Fail
  PROVE  l.fam \in Numeric /\ r.fam \in Numeric
<1>1. Common(l, r) # "none"
  BY ComparisonsAreApplied DEF Compare, CompareIn
<1> QED BY <1>1, Zenon DEF Common, Join, Numeric

\* Order and equality never contradict each other: for operands of every
\* family, width, notation and float format, whatever the comparisons round.
THEOREM OrderHolds == OfflineSpec => []OrderIsCoherent
<1>1. AnswersInv => OrderIsCoherent
  <2> SUFFICES ASSUME AnswersInv, call.op = "<", answer # Fail
               PROVE  Coherent(call.args[1], call.args[2], answer)
    BY Zenon DEF OrderIsCoherent, Coherent, Is, Arg
  <2>1. PICK l, r \in Operands : call.args[1] = l /\ call.args[2] = r /\ answer = Apply("<", l, r)
    <3>1. call.op \in {"<", "/"}
      OBVIOUS
    <3>2. \E l, r \in Operands : call.args[1] = l /\ call.args[2] = r /\ answer = Apply(call.op, l, r)
      BY <3>1, Zenon DEF AnswersInv, Answered
    <3> QED BY <3>2
  <2>2. l.v \in Int /\ r.v \in Int
    BY <2>1, ComparedAreNumbers, OperandsAreIntegers
  <2> QED BY <2>1, <2>2, ComparisonIsCoherent
<1> QED BY <1>1, NumbersAreAnswered, PTL

(* What the invariant says of one call.                                    *)
LEMMA AskedAndAnswered ==
  ASSUME AnswersInv
  PROVE  /\ Is("/") => \E l, r \in Operands : Arg(1) = l /\ Arg(2) = r /\ answer = Apply("/", l, r)
         /\ Is("Average") => \E l, r \in Operands : Arg(1) = l /\ Arg(2) = r /\ answer = Average(l, r)
         /\ Is("store") => \E x \in Operands, d \in Declarable : Arg(1) = x /\ call.on = d /\ answer = Coerce(x, d)
         /\ Is("ToInteger") => \E x \in Operands : Arg(1) = x /\ answer = Convert("ToInteger", x)
         /\ Is("ToUnsignedInteger") => \E x \in Operands : Arg(1) = x /\ answer = Convert("ToUnsignedInteger", x)
         /\ Is("print") => \E x \in Operands : x.fam = "fixed" /\ Arg(1) = x /\ answer = ParseDecimal(PrintDecimal(x))
<1>1. "/" \in {"<", "/"} /\ "ToInteger" \in {"ToInteger", "ToUnsignedInteger"}
      /\ "ToUnsignedInteger" \in {"ToInteger", "ToUnsignedInteger"}
  OBVIOUS
<1> QED BY <1>1, Zenon DEF AnswersInv, Answered, Is, Arg

\* A quotient and its remainder make up the dividend again, and a mean is the
\* exact mean: in words of every width and floats of every format.
THEOREM WordsHold == OfflineSpec => []WordsAreExact
<1>1. AnswersInv => WordsAreExact
  <2> SUFFICES ASSUME AnswersInv PROVE WordsAreExact
    OBVIOUS
  <2>1. ASSUME Is("/"), answer.fam \in Integral PROVE Rejoins(Arg(1), Arg(2), answer)
    <3>1. PICK l, r \in Operands : Arg(1) = l /\ Arg(2) = r /\ answer = Apply("/", l, r)
      BY <2>1, AskedAndAnswered, Zenon
    <3>2. Join(l.fam, r.fam) # "none"
      <4>1. Apply("/", l, r) = ArithmeticIn(Join(l.fam, r.fam), "/", Operand(Join(l.fam, r.fam), l), Operand(Join(l.fam, r.fam), r))
        BY SMT DEF Apply, Arithmetic
      <4>2. Fail.fam \notin Integral
        BY DEF Fail, Val, Integral
      <4> QED BY <2>1, <3>1, <4>1, <4>2, Zenon DEF ArithmeticIn
    <3>3. l.fam \in Numeric /\ r.fam \in Numeric
      BY <3>2, Zenon DEF Join
    <3>4. l.v \in Int /\ r.v \in Int
      BY <3>3, OperandsAreIntegers
    <3> QED BY <2>1, <3>1, <3>4, QuotientRejoins
  <2>2. ASSUME Is("Average") PROVE MeanIsExact(Arg(1), Arg(2), answer)
    <3>1. PICK l, r \in Operands : Arg(1) = l /\ Arg(2) = r /\ answer = Average(l, r)
      BY <2>2, AskedAndAnswered, Zenon
    <3> QED BY <3>1, OperandsAreIntegers, AverageIsExact
  <2> QED BY <2>1, <2>2, Zenon DEF WordsAreExact, Rejoins, MeanIsExact
<1> QED BY <1>1, NumbersAreAnswered, PTL

\* Storing, converting and printing lose nothing but what they must: for every
\* set of operands and enumerations, every width and every notation.
THEOREM ConversionsAreSound == OfflineSpec => []ConversionsHold
<1>1. AnswersInv => ConversionsHold
  <2> SUFFICES ASSUME AnswersInv PROVE ConversionsHold
    OBVIOUS
  <2>1. ASSUME Is("store")
        PROVE  /\ Coerce(answer, call.on) = answer
               /\ {Arg(1).fam, call.on} \subseteq Integral => Coerce(answer, Arg(1).fam) = Arg(1)
               /\ call.on \in Enums /\ answer # Fail /\ Arg(1).fam \in Numeric =>
                     EnumInt(answer).v * Scale = Exact(Arg(1))
    <3>1. PICK x \in Operands, d \in Declarable : Arg(1) = x /\ call.on = d /\ answer = Coerce(x, d)
      BY <2>1, AskedAndAnswered, Zenon
    <3>2. Proper(x)
      BY OperandsAreIntegers
    <3>3. Coerce(answer, d) = answer
      BY <3>1, <3>2, StoredIsKept
    <3>4. x.fam \in Integral /\ d \in Integral => Coerce(answer, x.fam) = x
      BY <3>1, <3>2, WordsComeBack
    <3>5. d \in Enums /\ answer # Fail /\ x.fam \in Numeric => EnumInt(answer).v * Scale = Exact(x)
      BY <3>1, <3>2, MemberIsCounted
    <3> QED BY <3>1, <3>3, <3>4, <3>5
  <2>2. ASSUME NEW op \in {"ToInteger", "ToUnsignedInteger"}, Is(op), answer # Fail
        PROVE  \E x \in Operands :
                 /\ Arg(1) = x /\ answer = Convert(op, x) /\ Proper(x)
                 /\ \A n \in LowEnd(op)..HighEnd(op) :
                      Magnitude(answer.v * Scale - Exact(x)) <= Magnitude(n * Scale - Exact(x))
    <3>1. PICK x \in Operands : Arg(1) = x /\ answer = Convert(op, x)
      BY <2>2, AskedAndAnswered
    <3>2. Proper(x)
      BY OperandsAreIntegers
    <3>3. \A n \in LowEnd(op)..HighEnd(op) :
            Magnitude(answer.v * Scale - Exact(x)) <= Magnitude(n * Scale - Exact(x))
      BY <2>2, <3>1, <3>2, ConvertedIsNearest
    <3> QED BY <3>1, <3>2, <3>3
  <2>3. ASSUME Is("ToInteger"), answer # Fail
        PROVE  /\ \A n \in IntMin..IntMax :
                     Magnitude(answer.v * Scale - Exact(Arg(1))) <= Magnitude(n * Scale - Exact(Arg(1)))
               /\ Arg(1).fam = "float" /\ answer.v > IntMin =>
                     ToInteger(Unary("-", Arg(1))).v \in {-answer.v, IntMin}
    <3>1. PICK x \in Operands :
                 /\ Arg(1) = x /\ answer = Convert("ToInteger", x) /\ Proper(x)
                 /\ \A n \in LowEnd("ToInteger")..HighEnd("ToInteger") :
                      Magnitude(answer.v * Scale - Exact(x)) <= Magnitude(n * Scale - Exact(x))
      BY <2>2, <2>3
    <3>2. LowEnd("ToInteger") = IntMin /\ HighEnd("ToInteger") = IntMax
      BY DEF LowEnd, HighEnd
    <3>3. Convert("ToInteger", x) = ToInteger(x)
      BY SMT DEF Convert
    <3>4. x.fam = "float" /\ answer.v > IntMin => ToInteger(Unary("-", x)).v \in {-(answer.v), IntMin}
      BY <2>3, <3>1, <3>3, ConvertedIsSymmetric
    <3> QED BY <3>1, <3>2, <3>4
  <2>4. ASSUME Is("ToUnsignedInteger"), answer # Fail
        PROVE  \A n \in 0..UIntMax :
                 Magnitude(answer.v * Scale - Exact(Arg(1))) <= Magnitude(n * Scale - Exact(Arg(1)))
    <3>1. PICK x \in Operands :
                 /\ Arg(1) = x
                 /\ \A n \in LowEnd("ToUnsignedInteger")..HighEnd("ToUnsignedInteger") :
                      Magnitude(answer.v * Scale - Exact(x)) <= Magnitude(n * Scale - Exact(x))
      BY <2>2, <2>4
    <3>2. LowEnd("ToUnsignedInteger") = 0 /\ HighEnd("ToUnsignedInteger") = UIntMax
      BY DEF LowEnd, HighEnd
    <3> QED BY <3>1, <3>2
  <2>5. ASSUME Is("print") PROVE answer = Arg(1)
    <3>1. PICK x \in Operands : x.fam = "fixed" /\ Arg(1) = x /\ answer = ParseDecimal(PrintDecimal(x))
      BY <2>5, AskedAndAnswered, Zenon
    <3> QED BY <3>1, OperandsAreIntegers, PrintedIsRead
  <2> QED BY <2>1, <2>3, <2>4, <2>5, Zenon DEF ConversionsHold
<1> QED BY <1>1, NumbersAreAnswered, PTL

-----------------------------------------------------------------------------
(* The grid. Multiples.                                                    *)
Multiple(n, d) == \E q \in Nat : n = q * d

LEMMA MultipleIsExact ==
  ASSUME NEW n \in Nat, NEW d \in Nat, d > 0
  PROVE  /\ Multiple(n, d) <=> n % d = 0
         /\ Multiple(n, d) => n \div d \in Nat /\ n = (n \div d) * d
<1>1. PICK q \in Int, r \in Nat : r < d /\ n = q * d + r /\ n \div d = q /\ n % d = r
  BY Split
<1>2. q \in Nat
  <2> SUFFICES ASSUME q <= 0 - 1 PROVE FALSE
    BY <1>1
  <2>1. q * d <= (0 - 1) * d
    BY <1>1, SMT
  <2> QED BY <1>1, <2>1
<1>3. ASSUME r = 0 PROVE Multiple(n, d)
  <2>1. n = q * d
    BY <1>1, <1>3
  <2> QED BY <1>2, <2>1 DEF Multiple
<1>4. ASSUME Multiple(n, d) PROVE r = 0
  <2>1. PICK p \in Nat : n = p * d
    BY <1>4 DEF Multiple
  <2>2. (p * d + 0) % d = 0
    BY Quotients
  <2>3. p * d + 0 = n
    BY <2>1
  <2> QED BY <1>1, <2>2, <2>3
<1>5. ASSUME r = 0 PROVE n = q * d
  BY <1>1, <1>5
<1> QED BY <1>1, <1>2, <1>3, <1>4, <1>5

LEMMA FactorsCancel ==
  ASSUME NEW a \in Nat, NEW b \in Nat, NEW g \in Nat, g > 0, a * g = b * g
  PROVE  a = b
<1>1. ASSUME NEW x \in Nat, NEW y \in Nat, x < y PROVE x * g # y * g
  <2>1. (x + 1) * g <= y * g /\ (x + 1) * g = x * g + g /\ x * g \in Nat
    BY <1>1, SMT
  <2> QED BY <2>1
<1> QED BY <1>1

LEMMA MultiplesCancel ==
  ASSUME NEW a \in Nat, NEW b \in Nat, NEW g \in Nat, g > 0, Multiple(a * g, b * g)
  PROVE  Multiple(a, b)
<1>1. PICK q \in Nat : a * g = q * (b * g)
  BY DEF Multiple
<1>2. q * (b * g) = (q * b) * g
  BY SMT
<1>3. q * b \in Nat /\ a * g = (q * b) * g
  BY <1>1, <1>2
<1>4. a = q * b
  BY <1>3, FactorsCancel
<1> QED BY <1>4 DEF Multiple

LEMMA MultiplesAdd ==
  ASSUME NEW a \in Nat, NEW b \in Nat, NEW d \in Nat, Multiple(a, d), Multiple(b, d)
  PROVE  Multiple(a + b, d)
<1>1. PICK x \in Nat : a = x * d
  BY DEF Multiple
<1>2. PICK y \in Nat : b = y * d
  BY DEF Multiple
<1>3. x + y \in Nat /\ a + b = (x + y) * d
  BY <1>1, <1>2, SMT
<1> QED BY <1>3, Zenon DEF Multiple

LEMMA MultiplesScale ==
  ASSUME NEW a \in Nat, NEW k \in Nat, NEW d \in Nat, Multiple(a, d)
  PROVE  Multiple(k * a, d)
<1>1. PICK x \in Nat : a = x * d
  BY DEF Multiple
<1>2. k * a = (k * x) * d
  BY <1>1, SMT
<1> QED BY <1>2 DEF Multiple

LEMMA MultiplesSubtract ==
  ASSUME NEW a \in Nat, NEW b \in Nat, b <= a, NEW d \in Nat, d > 0, Multiple(a, d), Multiple(b, d)
  PROVE  Multiple(a - b, d)
<1>1. PICK x \in Nat : a = x * d
  BY DEF Multiple
<1>2. PICK y \in Nat : b = y * d
  BY DEF Multiple
<1>3. y <= x
  <2> SUFFICES ASSUME x + 1 <= y PROVE FALSE
    OBVIOUS
  <2>1. (x + 1) * d <= y * d
    BY SMT
  <2>2. (x + 1) * d = x * d + d
    BY SMT
  <2> QED BY <1>1, <1>2, <2>1, <2>2
<1>4. x - y \in Nat /\ a - b = (x - y) * d
  BY <1>1, <1>2, <1>3, SMT
<1> QED BY <1>4, Zenon DEF Multiple

LEMMA MultipleIsAsLarge ==
  ASSUME NEW n \in Nat, n > 0, NEW d \in Nat, Multiple(n, d)
  PROVE  d <= n /\ d > 0
<1>1. PICK q \in Nat : n = q * d
  BY DEF Multiple
<1>2. d > 0
  <2> SUFFICES ASSUME d = 0 PROVE FALSE
    OBVIOUS
  <2>1. q * 0 = 0
    BY SMT
  <2> QED BY <1>1, <2>1
<1>3. q >= 1
  <2> SUFFICES ASSUME q = 0 PROVE FALSE
    OBVIOUS
  <2>1. 0 * d = 0
    BY SMT
  <2> QED BY <1>1, <2>1
<1>4. d = 1 * d /\ 1 * d <= q * d
  BY <1>3, SMT
<1> QED BY <1>1, <1>2, <1>4

(* The rest of a division has the same divisors.                           *)
LEMMA RestIsMultiple ==
  ASSUME NEW a \in Nat, NEW b \in Nat, b > 0, NEW k \in Nat, NEW d \in Nat, d > 0, Multiple(k * b, d)
  PROVE  a % b \in Nat /\ (Multiple(k * a, d) <=> Multiple(k * (a % b), d))
<1>1. PICK q \in Int, r \in Nat : r < b /\ a = q * b + r /\ a \div b = q /\ a % b = r
  BY Split
<1>2. q \in Nat
  <2> SUFFICES ASSUME q <= 0 - 1 PROVE FALSE
    BY <1>1
  <2>1. q * b <= (0 - 1) * b
    BY <1>1, SMT
  <2> QED BY <1>1, <2>1
<1>3. PICK u : u = k * b
  OBVIOUS
<1>4. PICK v : v = k * r
  OBVIOUS
<1>5. k * a = q * u + v
  BY <1>1, <1>2, <1>3, <1>4, SMT
<1>6. u \in Nat /\ v \in Nat /\ Multiple(q * u, d) /\ q * u \in Nat
  <2>1. u \in Nat /\ v \in Nat
    BY <1>3, <1>4
  <2>2. Multiple(u, d)
    BY <1>3
  <2> QED BY <1>2, <2>1, <2>2, MultiplesScale
<1>7. PICK w \in Nat : w = q * u
  BY <1>6
<1>8. ASSUME Multiple(v, d) PROVE Multiple(w + v, d)
  BY <1>6, <1>7, <1>8, MultiplesAdd
<1>9. ASSUME Multiple(w + v, d) PROVE Multiple(v, d)
  <2>1. (w + v) - w = v /\ w <= w + v /\ w + v \in Nat
    BY <1>6
  <2>2. Multiple((w + v) - w, d)
    BY <1>6, <1>7, <1>9, <2>1, MultiplesSubtract
  <2> QED BY <2>1, <2>2
<1>10. k * a = w + v
  BY <1>5, <1>7
<1> QED BY <1>1, <1>4, <1>8, <1>9, <1>10
-----------------------------------------------------------------------------
(* The greatest common divisor. What Euclid's recursion computes is a      *)
(* function of the common divisors of its arguments, so that there is one. *)
CommonDivisors(p) == {d \in Nat \ {0} : Multiple(p[1], d) /\ Multiple(p[2], d)}
GreatestOf(S) == CHOOSE d \in S : \A e \in S : e <= d
Pairs == Nat \X Nat
GcdOf(p) == IF p[2] = 0 THEN p[1] ELSE GreatestOf(CommonDivisors(p))

LEMMA DivisorsStay ==
  ASSUME NEW a \in Nat, NEW b \in Nat, b > 0
  PROVE  a % b \in Nat /\ CommonDivisors(<<a, b>>) = CommonDivisors(<<b, a % b>>)
<1>1. a % b \in Nat
  BY SMT
<1>2. ASSUME NEW d \in Nat \ {0}, Multiple(b, d)
      PROVE  Multiple(a, d) <=> Multiple(a % b, d)
  <2>1. 1 * b = b /\ 1 * a = a /\ 1 * (a % b) = a % b /\ 1 \in Nat
    BY <1>1, SMT
  <2>2. Multiple(1 * b, d) /\ d \in Nat /\ d > 0
    BY <1>2, <2>1
  <2>3. Multiple(1 * a, d) <=> Multiple(1 * (a % b), d)
    BY <2>1, <2>2, RestIsMultiple
  <2> QED BY <2>1, <2>3
<1>3. <<a, b>>[1] = a /\ <<a, b>>[2] = b /\ <<b, a % b>>[1] = b /\ <<b, a % b>>[2] = a % b
  OBVIOUS
<1>4. \A d \in Nat \ {0} : d \in CommonDivisors(<<a, b>>) <=> d \in CommonDivisors(<<b, a % b>>)
  BY <1>2, <1>3, Zenon DEF CommonDivisors
<1>5. CommonDivisors(<<a, b>>) \subseteq Nat \ {0} /\ CommonDivisors(<<b, a % b>>) \subseteq Nat \ {0}
  BY DEF CommonDivisors
<1> QED BY <1>1, <1>4, <1>5

LEMMA GcdOfStep ==
  ASSUME NEW a \in Nat, NEW b \in Nat, b > 0
  PROVE  GcdOf(<<a, b>>) = GcdOf(<<b, a % b>>)
<1>1. a % b \in Nat /\ CommonDivisors(<<a, b>>) = CommonDivisors(<<b, a % b>>)
  BY DivisorsStay
<1>2. GcdOf(<<a, b>>) = GreatestOf(CommonDivisors(<<a, b>>))
  BY DEF GcdOf
<1>3. CASE a % b # 0
  BY <1>1, <1>2, <1>3 DEF GcdOf
<1>4. CASE a % b = 0
  <2>1. GcdOf(<<b, a % b>>) = b
    BY <1>4 DEF GcdOf
  <2> DEFINE S == CommonDivisors(<<b, 0>>)
  <2>2. b \in S
    <3>1. b = 1 * b /\ 0 = 0 * b
      BY SMT
    <3>2. Multiple(b, b) /\ Multiple(0, b)
      BY <3>1 DEF Multiple
    <3>3. <<b, 0>>[1] = b /\ <<b, 0>>[2] = 0 /\ b \in Nat \ {0}
      OBVIOUS
    <3> QED BY <3>2, <3>3 DEF CommonDivisors
  <2>3. \A e \in S : e \in Nat /\ e <= b
    <3> SUFFICES ASSUME NEW e \in S PROVE e \in Nat /\ e <= b
      OBVIOUS
    <3>1. e \in Nat /\ Multiple(b, e)
      BY DEF CommonDivisors
    <3> QED BY <3>1, MultipleIsAsLarge
  <2> HIDE DEF S
  <2>4. GreatestOf(S) = b
    <3>1. PICK g : g = GreatestOf(S)
      OBVIOUS
    <3>2. g \in S /\ \A e \in S : e <= g
      BY <2>2, <2>3, <3>1 DEF GreatestOf
    <3>3. g <= b /\ b <= g /\ g \in Nat
      BY <2>2, <2>3, <3>2
    <3> QED BY <3>1, <3>3
  <2> QED BY <1>1, <1>2, <1>4, <2>1, <2>4 DEF S
<1> QED BY <1>3, <1>4

LEMMA GcdRecurs ==
  /\ \A a \in Nat : Gcd[<<a, 0>>] = a
  /\ \A a, b \in Nat : b > 0 => Gcd[<<a, b>>] = Gcd[<<b, a % b>>]
<1> DEFINE Euclid(f) == f = [p \in Nat \X Nat |-> IF p[2] = 0 THEN p[1] ELSE f[<<p[2], p[1] % p[2]>>]]
<1>1. PICK g : g = [p \in Pairs |-> GcdOf(p)]
  OBVIOUS
<1>2. ASSUME NEW p \in Pairs
      PROVE  GcdOf(p) = IF p[2] = 0 THEN p[1] ELSE g[<<p[2], p[1] % p[2]>>]
  <2>1. PICK a \in Nat, b \in Nat : p = <<a, b>>
    BY <1>2 DEF Pairs
  <2>2. CASE b = 0
    BY <2>1, <2>2 DEF GcdOf
  <2>3. CASE b # 0
    <3>1. GcdOf(p) = GcdOf(<<b, a % b>>) /\ a % b \in Nat
      BY <2>1, <2>3, GcdOfStep, DivisorsStay
    <3>2. <<b, a % b>> \in Pairs
      BY <3>1 DEF Pairs
    <3>3. g[<<b, a % b>>] = GcdOf(<<b, a % b>>)
      BY <1>1, <3>2
    <3>4. p[1] = a /\ p[2] = b
      BY <2>1
    <3> QED BY <2>3, <3>1, <3>3, <3>4
  <2> QED BY <2>2, <2>3
<1>3. g = [p \in Pairs |-> IF p[2] = 0 THEN p[1] ELSE g[<<p[2], p[1] % p[2]>>]]
  BY <1>1, <1>2, Zenon
<1>4. Euclid(g)
  BY <1>3 DEF Pairs
<1>5. Gcd = CHOOSE f : Euclid(f)
  BY DEF Gcd
<1>6. Euclid(Gcd)
  BY <1>4, <1>5
<1>7. ASSUME NEW a \in Nat, NEW b \in Nat
      PROVE  Gcd[<<a, b>>] = IF b = 0 THEN a ELSE Gcd[<<b, a % b>>]
  <2>1. PICK p : p = <<a, b>>
    OBVIOUS
  <2>2. p \in Nat \X Nat /\ p[1] = a /\ p[2] = b
    BY <2>1
  <2>3. Gcd[p] = IF p[2] = 0 THEN p[1] ELSE Gcd[<<p[2], p[1] % p[2]>>]
    <3> PICK h : h = Gcd
      OBVIOUS
    <3>1. h = [q \in Nat \X Nat |-> IF q[2] = 0 THEN q[1] ELSE h[<<q[2], q[1] % q[2]>>]]
      BY <1>6
    <3>2. h[p] = IF p[2] = 0 THEN p[1] ELSE h[<<p[2], p[1] % p[2]>>]
      BY <2>2, <3>1
    <3> QED BY <3>2
  <2> QED BY <2>1, <2>2, <2>3
<1>8. ASSUME NEW a \in Nat PROVE Gcd[<<a, 0>>] = a
  BY <1>7
<1>9. ASSUME NEW a \in Nat, NEW b \in Nat, b > 0 PROVE Gcd[<<a, b>>] = Gcd[<<b, a % b>>]
  BY <1>7, <1>9
<1> QED BY <1>8, <1>9

(* It divides both, and whatever divides two multiples of them by the same *)
(* factor divides that multiple of it.                                     *)
IsGcd(g, a, b) ==
  /\ g \in Nat /\ g > 0 /\ Multiple(a, g) /\ Multiple(b, g)
  /\ \A k, d \in Nat : d > 0 /\ Multiple(k * a, d) /\ Multiple(k * b, d) => Multiple(k * g, d)

LEMMA GcdIsGcd ==
  ASSUME NEW a \in Nat, NEW b \in Nat, a > 0 \/ b > 0
  PROVE  IsGcd(Gcd[<<a, b>>], a, b)
<1> DEFINE Bad == {y \in Nat : \E x \in Nat : (x > 0 \/ y > 0) /\ ~IsGcd(Gcd[<<x, y>>], x, y)}
<1> SUFFICES Bad = {}
  OBVIOUS
<1> SUFFICES ASSUME Bad # {} PROVE FALSE
  OBVIOUS
<1>1. PICK y \in Bad : \A z \in Bad : y <= z
  <2>1. Bad \in SUBSET Nat
    OBVIOUS
  <2> HIDE DEF Bad
  <2> QED BY <2>1, LeastIsMember
<1>2. PICK x \in Nat : (x > 0 \/ y > 0) /\ ~IsGcd(Gcd[<<x, y>>], x, y)
  OBVIOUS
<1>3. y \in Nat
  OBVIOUS
<1>4. CASE y = 0
  <2>1. Gcd[<<x, y>>] = x
    BY <1>4, GcdRecurs
  <2>2. x = 1 * x /\ 0 = 0 * x
    BY SMT
  <2>3. Multiple(x, x) /\ Multiple(y, x)
    BY <1>4, <2>2 DEF Multiple
  <2> QED BY <1>2, <1>4, <2>1, <2>3 DEF IsGcd
<1>5. CASE y > 0
  <2>1. PICK z : z = x % y
    OBVIOUS
  <2>2. z \in Nat /\ z < y
    BY <1>3, <1>5, <2>1, SMT
  <2>3. Gcd[<<x, y>>] = Gcd[<<y, z>>]
    BY <1>3, <1>5, <2>1, GcdRecurs
  <2>4. PICK g : g = Gcd[<<y, z>>]
    OBVIOUS
  <2>5. IsGcd(g, y, z)
    <3>1. ~(y <= z)
      BY <1>3, <2>2
    <3>2. z \notin Bad
      <4> HIDE DEF Bad
      <4> QED BY <1>1, <3>1
    <3> QED BY <1>3, <1>5, <2>2, <2>4, <3>2
  <2>6. Multiple(x, g)
    <3>1. 1 * x = x /\ 1 * y = y /\ 1 * z = z
      BY <1>3, <2>2, SMT
    <3>2. Multiple(1 * y, g) /\ Multiple(1 * z, g) /\ g \in Nat /\ g > 0
      BY <2>5, <3>1 DEF IsGcd
    <3>3. 1 \in Nat
      OBVIOUS
    <3>4. Multiple(1 * x, g) <=> Multiple(1 * (x % y), g)
      BY <1>3, <1>5, <3>2, <3>3, RestIsMultiple
    <3> QED BY <2>1, <3>1, <3>2, <3>4
  <2>7. ASSUME NEW k \in Nat, NEW d \in Nat, d > 0, Multiple(k * x, d), Multiple(k * y, d)
        PROVE  Multiple(k * g, d)
    <3>1. Multiple(k * z, d)
      BY <1>3, <1>5, <2>1, <2>7, RestIsMultiple
    <3> QED BY <2>5, <2>7, <3>1 DEF IsGcd
  <2>8. IsGcd(g, x, y)
    BY <2>5, <2>6, <2>7 DEF IsGcd
  <2> QED BY <1>2, <2>3, <2>4, <2>8
<1> QED BY <1>3, <1>4, <1>5

-----------------------------------------------------------------------------
(* The least common multiple, and that of a list of rates.                 *)
LEMMA LeastMultipleIsLeast ==
  ASSUME NEW m \in Nat, m > 0, NEW r \in Nat, r > 0
  PROVE  /\ LeastMultiple(m, r) \in Nat /\ LeastMultiple(m, r) > 0
         /\ Multiple(LeastMultiple(m, r), m) /\ Multiple(LeastMultiple(m, r), r)
         /\ \A c \in Nat : Multiple(c, m) /\ Multiple(c, r) => Multiple(c, LeastMultiple(m, r))
<1>1. PICK g : g = Gcd[<<m, r>>]
  OBVIOUS
<1>2. IsGcd(g, m, r)
  BY <1>1, GcdIsGcd
<1>3. g \in Nat /\ g > 0 /\ Multiple(m, g) /\ Multiple(r, g)
  BY <1>2 DEF IsGcd
<1>4. PICK u : u = m \div g
  OBVIOUS
<1>5. u \in Nat /\ m = u * g
  BY <1>3, <1>4, MultipleIsExact
<1>6. PICK v \in Nat : r = v * g
  BY <1>3 DEF Multiple
<1>7. PICK j : j = u * r
  OBVIOUS
<1>8. j = LeastMultiple(m, r)
  BY <1>1, <1>4, <1>7 DEF LeastMultiple
<1>9. u > 0
  <2> SUFFICES ASSUME u = 0 PROVE FALSE
    BY <1>5
  <2>1. 0 * g = 0
    BY <1>3, SMT
  <2> QED BY <1>5, <2>1
<1>10. j \in Nat /\ j > 0
  <2>1. j \in Nat
    BY <1>5, <1>7
  <2>2. 1 * r <= u * r /\ 1 * r = r
    BY <1>5, <1>9, SMT
  <2> QED BY <1>7, <2>1, <2>2
<1>11. Multiple(j, r)
  BY <1>5, <1>7 DEF Multiple
<1>12. Multiple(j, m)
  <2>1. u * (v * g) = v * (u * g)
    BY <1>3, <1>5, SMT
  <2>2. j = v * m
    BY <1>5, <1>6, <1>7, <2>1
  <2> QED BY <2>2 DEF Multiple
<1>13. j * g = m * r
  <2>1. (u * r) * g = (u * g) * r
    BY <1>3, <1>5, SMT
  <2> QED BY <1>5, <1>7, <2>1
<1>14. ASSUME NEW c \in Nat, Multiple(c, m), Multiple(c, r) PROVE Multiple(c, j)
  <2>1. PICK p : p = m * r
    OBVIOUS
  <2>2. p \in Nat
    BY <2>1
  <2>3. p > 0
    <3>1. 1 * r <= m * r /\ 1 * r = r
      BY SMT
    <3> QED BY <2>1, <3>1
  <2>4. Multiple(c * r, p)
    <3>1. PICK x \in Nat : c = x * m
      BY <1>14 DEF Multiple
    <3>2. (x * m) * r = x * (m * r)
      BY SMT
    <3>3. c * r = x * p
      BY <2>1, <3>1, <3>2
    <3> QED BY <3>3 DEF Multiple
  <2>5. Multiple(c * m, p)
    <3>1. PICK y \in Nat : c = y * r
      BY <1>14 DEF Multiple
    <3>2. (y * r) * m = y * (m * r)
      BY SMT
    <3>3. c * m = y * p
      BY <2>1, <3>1, <3>2
    <3> QED BY <3>3 DEF Multiple
  <2>6. Multiple(c * g, p)
    BY <1>2, <2>2, <2>3, <2>4, <2>5 DEF IsGcd
  <2>7. PICK z \in Nat : c * g = z * p
    BY <2>6 DEF Multiple
  <2>8. c * g = (z * j) * g
    <3>1. z * (j * g) = (z * j) * g
      BY <1>3, <1>10, SMT
    <3> QED BY <1>13, <2>1, <2>7, <3>1
  <2>9. PICK w \in Nat : w = z * j
    BY <1>10
  <2>10. c = w
    <3>1. c * g = w * g /\ w \in Nat
      BY <2>8, <2>9, <1>10
    <3> QED BY <1>3, <3>1, FactorsCancel
  <2> QED BY <2>9, <2>10 DEF Multiple
<1> QED BY <1>8, <1>10, <1>11, <1>12, <1>14

LEMMA MillihertzIsNatural ==
  ASSUME NEW rate \in Nat
  PROVE  /\ Millihertz(rate) \in Nat
         /\ Millihertz(rate) # NoRate <=> rate > 0 /\ rate % RateUnit = 0
         /\ Millihertz(rate) # NoRate => rate = Millihertz(rate) * RateUnit
<1>1. RateUnit \in Nat /\ RateUnit > 0
  BY InputsAssumption
<1>2. CASE rate > 0 /\ rate % RateUnit = 0
  <2>1. Multiple(rate, RateUnit)
    BY <1>1, <1>2, MultipleIsExact
  <2>2. PICK q : q = rate \div RateUnit
    OBVIOUS
  <2>3. q \in Nat /\ rate = q * RateUnit
    BY <1>1, <2>1, <2>2, MultipleIsExact
  <2>4. q # 0
    <3>1. 0 * RateUnit = 0
      BY <1>1, SMT
    <3> QED BY <1>2, <2>3, <3>1
  <2>5. Millihertz(rate) = q
    BY <1>2, <2>2 DEF Millihertz
  <2> QED BY <1>2, <2>3, <2>4, <2>5 DEF NoRate
<1>3. CASE ~(rate > 0 /\ rate % RateUnit = 0)
  BY <1>3 DEF Millihertz, NoRate
<1> QED BY <1>2, <1>3

LEMMA JoinRateIsNatural ==
  ASSUME NEW m \in Nat, NEW r \in Nat
  PROVE  JoinRate(m, r) \in Nat
<1>1. CASE m > 0 /\ r > 0
  <2>1. LeastMultiple(m, r) \in Nat
    BY <1>1, LeastMultipleIsLeast
  <2> QED BY <2>1 DEF JoinRate, NoRate
<1>2. CASE m = 0 \/ r = 0
  BY <1>2 DEF JoinRate, NoRate
<1> QED BY <1>1, <1>2

(* What the fold has come to before each of the rates s.                   *)
Joins(f, s, N) ==
  /\ f \in [0..N -> Nat] /\ f[0] = 1
  /\ \A n \in 1..N : f[n] = JoinRate(f[n - 1], Millihertz(s[n]))

LEMMA JoinsExist ==
  ASSUME NEW s \in Seq(Nat)
  PROVE  \E f : Joins(f, s, Len(s))
<1> DEFINE N == Len(s)
           S == {k \in 0..N : \E f : Joins(f, s, k)}
<1>0. N \in Nat /\ \A n \in 1..N : s[n] \in Nat
  OBVIOUS
<1> HIDE DEF N
<1>1. 0 \in S
  <2>f. PICK f : f = [n \in 0..0 |-> 1]
    OBVIOUS
  <2>1. Joins(f, s, 0)
    BY <2>f DEF Joins
  <2> QED BY <1>0, <2>1
<1>2. ASSUME NEW k \in 1..N, k - 1 \in S PROVE k \in S
  <2>1. PICK f : Joins(f, s, k - 1)
    BY <1>2
  <2>2. f \in [0..(k - 1) -> Nat] /\ f[0] = 1
        /\ \A n \in 1..(k - 1) : f[n] = JoinRate(f[n - 1], Millihertz(s[n]))
    BY <2>1 DEF Joins
  <2>v. PICK v : v = JoinRate(f[k - 1], Millihertz(s[k]))
    OBVIOUS
  <2>k. k \in Nat /\ k - 1 \in 0..(k - 1) /\ k \in 0..N
    BY <1>0
  <2>3. v \in Nat
    <3>1. f[k - 1] \in Nat
      BY <2>2, <2>k
    <3>2. Millihertz(s[k]) \in Nat
      BY <1>0, MillihertzIsNatural
    <3> QED BY <2>v, <3>1, <3>2, JoinRateIsNatural
  <2>g. PICK g : g = [n \in 0..k |-> IF n = k THEN v ELSE f[n]]
    OBVIOUS
  <2>4. g \in [0..k -> Nat] /\ g[0] = 1
    BY <2>2, <2>3, <2>g, <2>k
  <2>5. ASSUME NEW n \in 1..k PROVE g[n] = JoinRate(g[n - 1], Millihertz(s[n]))
    <3>1. CASE n = k
      <4>1. g[n] = v /\ g[n - 1] = f[k - 1]
        BY <3>1, <2>g, <2>k
      <4> QED BY <4>1, <3>1, <2>v
    <3>2. CASE n # k
      <4>1. n \in 1..(k - 1) /\ g[n] = f[n] /\ g[n - 1] = f[n - 1]
        BY <3>2, <2>g, <2>k
      <4> QED BY <4>1, <2>2
    <3> QED BY <3>1, <3>2
  <2>6. Joins(g, s, k)
    BY <2>4, <2>5 DEF Joins
  <2> QED BY <2>6, <2>k
<1>3. N \in S
  <2> HIDE DEF S
  <2>1. \A n \in 1..N : n - 1 \in S => n \in S
    BY <1>2
  <2>2. \A n \in 0..N : n \in S
    BY <1>0, <1>1, <2>1, Climbs
  <2> QED BY <1>0, <2>2
<1> QED BY <1>3 DEF N

LEMMA CommonBaseJoins ==
  ASSUME NEW s \in Seq(Nat)
  PROVE  \E f : Joins(f, s, Len(s)) /\ CommonBase(s) = IF s = <<>> THEN NoRate ELSE f[Len(s)]
<1> DEFINE P(m) == m = [i \in 0..Len(s) |-> IF i = 0 THEN 1 ELSE JoinRate(m[i - 1], Millihertz(s[i]))]
           m == CHOOSE m : P(m)
<1>0. Len(s) \in Nat
  OBVIOUS
<1>1. PICK f : Joins(f, s, Len(s))
  BY JoinsExist
<1>2. P(f)
  <2>1. f \in [0..Len(s) -> Nat] /\ f[0] = 1
    BY <1>1 DEF Joins
  <2>2. \A n \in 1..Len(s) : f[n] = JoinRate(f[n - 1], Millihertz(s[n]))
    BY <1>1 DEF Joins
  <2>3. f = [i \in 0..Len(s) |-> f[i]]
    BY <2>1
  <2>4. \A i \in 0..Len(s) : f[i] = IF i = 0 THEN 1 ELSE JoinRate(f[i - 1], Millihertz(s[i]))
    BY <1>0, <2>1, <2>2
  <2> QED BY <2>3, <2>4, Zenon
<1>3. P(m)
  BY <1>2
<1>4. CommonBase(s) = IF s = <<>> THEN NoRate ELSE m[Len(s)]
  BY DEF CommonBase
<1> HIDE DEF m
<1>5. \A i \in 0..Len(s) : m[i] = IF i = 0 THEN 1 ELSE JoinRate(m[i - 1], Millihertz(s[i]))
  BY <1>3
<1>6. \A i \in 0..Len(s) : f[i] = m[i]
  <2> DEFINE S == {k \in 0..Len(s) : f[k] = m[k]}
  <2>1. 0 \in S
    BY <1>0, <1>2, <1>5
  <2>2. ASSUME NEW k \in 1..Len(s), k - 1 \in S PROVE k \in S
    <3>1. f[k] = JoinRate(f[k - 1], Millihertz(s[k]))
      BY <1>1 DEF Joins
    <3>2. m[k] = JoinRate(m[k - 1], Millihertz(s[k]))
      BY <1>5
    <3> QED BY <2>2, <3>1, <3>2
  <2>3. \A k \in 0..Len(s) : k \in S
    <3> HIDE DEF S
    <3>1. \A k \in 1..Len(s) : k - 1 \in S => k \in S
      BY <2>2
    <3> QED BY <1>0, <2>1, <3>1, Climbs
  <2> QED BY <2>3
<1> QED BY <1>0, <1>1, <1>4, <1>6

(* A list of rates is borne by a base that is a multiple of each.          *)
Borne(s, n, b) == \A i \in 1..n : Multiple(b, Millihertz(s[i]))
Representable(s, n) == \A i \in 1..n : Millihertz(s[i]) # NoRate
LeastBase(m, s, n) ==
  /\ m \in Nat
  /\ m = NoRate => ~Representable(s, n) \/ \A b \in 1..MaxBase : ~Borne(s, n, b)
  /\ m # NoRate => /\ Representable(s, n) /\ Borne(s, n, m)
                   /\ \A c \in Nat : Borne(s, n, c) => Multiple(c, m)

LEMMA FoldIsLeastBase ==
  ASSUME NEW s \in Seq(Nat), NEW f, Joins(f, s, Len(s))
  PROVE  LeastBase(f[Len(s)], s, Len(s))
<1> DEFINE N == Len(s)
           S == {n \in 0..N : LeastBase(f[n], s, n)}
<1>0. N \in Nat /\ (\A n \in 1..N : s[n] \in Nat) /\ f \in [0..N -> Nat] /\ f[0] = 1
      /\ \A n \in 1..N : f[n] = JoinRate(f[n - 1], Millihertz(s[n]))
  BY DEF Joins
<1> HIDE DEF N
<1>m. MaxBase \in Nat
  BY InputsAssumption
<1>1. 0 \in S
  <2>1. Representable(s, 0) /\ Borne(s, 0, 1)
    BY DEF Representable, Borne
  <2>2. \A c \in Nat : Multiple(c, 1)
    <3> SUFFICES ASSUME NEW c \in Nat PROVE Multiple(c, 1)
      OBVIOUS
    <3>1. c = c * 1
      BY SMT
    <3> QED BY <3>1 DEF Multiple
  <2> QED BY <1>0, <2>1, <2>2 DEF LeastBase, NoRate
<1>2. ASSUME NEW n \in 1..N, n - 1 \in S PROVE n \in S
  <2>0. n \in Nat /\ n \in 0..N /\ n - 1 \in 0..N /\ n \in 1..n /\ \A i \in 1..n : i \in 1..(n - 1) \/ i = n
    BY <1>0
  <2>p. \A i \in 1..(n - 1) : i \in 1..n
    BY <2>0
  <2>1. PICK m : m = f[n - 1]
    OBVIOUS
  <2>2. PICK r : r = Millihertz(s[n])
    OBVIOUS
  <2>3. m \in Nat /\ r \in Nat /\ f[n] = JoinRate(m, r) /\ f[n] \in Nat
    BY <1>0, <2>0, <2>1, <2>2, MillihertzIsNatural
  <2>4. LeastBase(m, s, n - 1)
    BY <1>2, <2>1
  <2>5. CASE m = NoRate
    <3>1. f[n] = NoRate
      BY <2>3, <2>5 DEF JoinRate
    <3>2. ASSUME Representable(s, n) PROVE Representable(s, n - 1)
      BY <2>p, <3>2 DEF Representable
    <3>3. ASSUME NEW b \in 1..MaxBase, Borne(s, n, b) PROVE Borne(s, n - 1, b)
      BY <2>p, <3>3 DEF Borne
    <3> QED BY <2>0, <2>3, <2>4, <2>5, <3>1, <3>2, <3>3 DEF LeastBase
  <2>6. CASE r = NoRate
    <3>1. f[n] = NoRate
      BY <2>3, <2>6 DEF JoinRate
    <3>2. ~Representable(s, n)
      BY <2>0, <2>2, <2>6 DEF Representable
    <3> QED BY <2>0, <2>3, <3>1, <3>2 DEF LeastBase
  <2>7. CASE m # NoRate /\ r # NoRate
    <3>j. PICK j : j = LeastMultiple(m, r)
      OBVIOUS
    <3>0. m > 0 /\ r > 0
      BY <2>3, <2>7 DEF NoRate
    <3>1. /\ j \in Nat /\ j > 0 /\ Multiple(j, m) /\ Multiple(j, r)
          /\ \A c \in Nat : Multiple(c, m) /\ Multiple(c, r) => Multiple(c, j)
      BY <2>3, <3>0, <3>j, LeastMultipleIsLeast
    <3>2. /\ Representable(s, n - 1) /\ Borne(s, n - 1, m)
          /\ \A c \in Nat : Borne(s, n - 1, c) => Multiple(c, m)
      BY <2>4, <2>7 DEF LeastBase
    <3>3. ASSUME NEW c \in Nat, Borne(s, n, c) PROVE Multiple(c, j)
      <4>1. Borne(s, n - 1, c)
        BY <2>p, <3>3 DEF Borne
      <4>2. Multiple(c, r)
        BY <2>0, <2>2, <3>3 DEF Borne
      <4> QED BY <3>1, <3>2, <4>1, <4>2
    <3>4. Representable(s, n)
      BY <2>0, <2>2, <2>7, <3>2 DEF Representable
    <3>5. CASE j > MaxBase
      <4>1. f[n] = NoRate
        BY <2>3, <2>7, <3>5, <3>j DEF JoinRate
      <4>2. ASSUME NEW b \in 1..MaxBase PROVE ~Borne(s, n, b)
        <5> SUFFICES ASSUME Borne(s, n, b) PROVE FALSE
          OBVIOUS
        <5>1. b \in Nat /\ b > 0 /\ b <= MaxBase
          BY <1>m
        <5>2. Multiple(b, j)
          BY <3>3, <5>1
        <5>3. j <= b
          BY <3>1, <5>1, <5>2, MultipleIsAsLarge
        <5> QED BY <1>m, <3>1, <3>5, <5>1, <5>3
      <4> QED BY <2>0, <2>3, <4>1, <4>2 DEF LeastBase
    <3>6. CASE ~(j > MaxBase)
      <4>1. f[n] = j
        BY <2>3, <2>7, <3>6, <3>j DEF JoinRate
      <4>2. ASSUME NEW i \in 1..n PROVE Multiple(j, Millihertz(s[i]))
        <5>1. CASE i = n
          BY <2>2, <3>1, <5>1
        <5>2. CASE i \in 1..(n - 1)
          <6>1. PICK x : x = Millihertz(s[i])
            OBVIOUS
          <6>2. x \in Nat /\ Multiple(m, x)
            <7>1. s[i] \in Nat
              BY <1>0, <5>2, <2>0
            <7> QED BY <3>2, <5>2, <6>1, <7>1, MillihertzIsNatural DEF Borne
          <6>3. PICK u \in Nat : m = u * x
            BY <6>2 DEF Multiple
          <6>4. PICK v \in Nat : j = v * m
            BY <3>1 DEF Multiple
          <6>5. v * (u * x) = (v * u) * x
            BY <6>2, SMT
          <6>6. v * u \in Nat /\ j = (v * u) * x
            BY <6>3, <6>4, <6>5
          <6> QED BY <6>1, <6>6, Zenon DEF Multiple
        <5> QED BY <2>0, <5>1, <5>2
      <4>3. Borne(s, n, j)
        BY <4>2 DEF Borne
      <4> QED BY <2>0, <2>3, <3>1, <3>3, <3>4, <4>1, <4>3 DEF LeastBase, NoRate
    <3> QED BY <3>5, <3>6
  <2> QED BY <2>5, <2>6, <2>7
<1>3. \A n \in 0..N : n \in S
  <2> HIDE DEF S
  <2>1. \A n \in 1..N : n - 1 \in S => n \in S
    BY <1>2
  <2> QED BY <1>0, <1>1, <2>1, Climbs
<1> QED BY <1>0, <1>3 DEF N

LEMMA CommonBaseIsLeast ==
  ASSUME NEW s \in Seq(Nat), s # <<>>
  PROVE  LeastBase(CommonBase(s), s, Len(s))
<1>1. PICK f : Joins(f, s, Len(s)) /\ CommonBase(s) = IF s = <<>> THEN NoRate ELSE f[Len(s)]
  BY CommonBaseJoins
<1> QED BY <1>1, FoldIsLeastBase

LEMMA DivisorIsExact ==
  ASSUME NEW b \in Nat, NEW r \in Nat
  PROVE  /\ Divisor(b, r) # NoRate <=>
              Millihertz(b) # NoRate /\ Millihertz(r) # NoRate /\ Multiple(Millihertz(b), Millihertz(r))
         /\ Divisor(b, r) # NoRate => Divisor(b, r) \in Nat /\ Divisor(b, r) * r = b
<1>1. PICK x : x = Millihertz(b)
  OBVIOUS
<1>2. PICK y : y = Millihertz(r)
  OBVIOUS
<1>3. x \in Nat /\ y \in Nat /\ (x # NoRate => b = x * RateUnit) /\ (y # NoRate => r = y * RateUnit)
  BY <1>1, <1>2, MillihertzIsNatural
<1>4. CASE x = NoRate \/ y = NoRate
  BY <1>1, <1>2, <1>4, Zenon DEF Divisor
<1>5. CASE x # NoRate /\ y # NoRate
  <2>0. x > 0 /\ y > 0
    BY <1>3, <1>5 DEF NoRate
  <2>1. Divisor(b, r) = IF x % y # 0 THEN NoRate ELSE x \div y
    BY <1>1, <1>2, <1>5, Zenon DEF Divisor
  <2>2. CASE x % y # 0
    <3>1. ~Multiple(x, y)
      BY <1>3, <2>0, <2>2, MultipleIsExact
    <3> QED BY <1>1, <1>2, <2>1, <2>2, <3>1
  <2>3. CASE x % y = 0
    <3>1. Multiple(x, y)
      BY <1>3, <2>0, <2>3, MultipleIsExact
    <3>2. PICK q : q = x \div y
      OBVIOUS
    <3>3. q \in Nat /\ x = q * y
      BY <1>3, <2>0, <3>1, <3>2, MultipleIsExact
    <3>4. q # NoRate
      <4>1. 0 * y = 0
        BY <1>3, SMT
      <4> QED BY <2>0, <3>3, <4>1 DEF NoRate
    <3>5. q * r = b
      <4>1. (q * y) * RateUnit = q * (y * RateUnit)
        <5>1. RateUnit \in Nat
          BY InputsAssumption
        <5> QED BY <1>3, <3>3, <5>1, SMT
      <4> QED BY <1>3, <1>5, <3>3, <4>1
    <3>6. Divisor(b, r) = q
      BY <2>1, <2>3, <3>2
    <3> QED BY <1>1, <1>2, <1>5, <3>1, <3>3, <3>4, <3>5, <3>6
  <2> QED BY <2>2, <2>3
<1> QED BY <1>4, <1>5

LEMMA TicksFit ==
  ASSUME NEW d \in Nat, NEW b \in Nat
  PROVE  LET t == TickCount(d, b)
         IN  /\ t > 0 => (t - 1) * PerSecond < d * b
             /\ 2 * (d * b) <= (2 * t + 1) * PerSecond
<1>1. PICK p : p = PerSecond
  OBVIOUS
<1>2. p \in Nat /\ p > 0
  <2>1. RateUnit \in Nat /\ RateUnit > 0
    BY InputsAssumption
  <2> QED BY <1>1, <2>1, SMT DEF PerSecond, Milli
<1>3. PICK l : l = d * b
  OBVIOUS
<1>4. l \in Nat /\ 2 * d * b = 2 * l
  BY <1>3, SMT
<1>5. PICK t : t = TickCount(d, b)
  OBVIOUS
<1>6. t = (2 * l + p) \div (2 * p)
  <2>1. t = (2 * d * b + p) \div (2 * p)
    BY <1>1, <1>5 DEF TickCount
  <2> QED BY <1>4, <2>1
<1>7. PICK w : w = 2 * p
  OBVIOUS
<1>8. PICK n : n = 2 * l + p
  OBVIOUS
<1>9. w \in Nat /\ w > 0 /\ n \in Int
  BY <1>2, <1>4, <1>7, <1>8
<1>10. PICK q \in Int, r \in Nat : r < w /\ n = q * w + r /\ n \div w = q /\ n % w = r
  BY <1>9, Split
<1>11. t = q
  BY <1>6, <1>7, <1>8, <1>10
<1>12. PICK u : u = q * p
  OBVIOUS
<1>13. u \in Int /\ q * w = 2 * u
  BY <1>2, <1>7, <1>12, SMT
<1>14. (q - 1) * p = u - p /\ (2 * q + 1) * p = 2 * u + p
  BY <1>2, <1>12, SMT
<1>15. u - p < l /\ 2 * l <= 2 * u + p
  BY <1>2, <1>4, <1>7, <1>8, <1>10, <1>13, SMT
<1> QED BY <1>1, <1>3, <1>5, <1>11, <1>14, <1>15

(* What GridIsExact says of an answer.                                     *)
Bears(s, b)    == \A i \in DOMAIN s : b % s[i] = 0
InUnits(b, s)  == b % RateUnit = 0 /\ \A i \in DOMAIN s : s[i] > 0 /\ s[i] % RateUnit = 0
Exactly(base, s, d, a) ==
  IF a = NoGrid
  THEN s # <<>> /\ InUnits(base, s) =>
         \A b \in 1..MaxBase : (base \in {0, b * RateUnit}) => ~Bears(s, b * RateUnit)
  ELSE /\ \A i \in DOMAIN s : a.every[i] * s[i] = a.base
       /\ IF base = 0 THEN \A b \in 1..(a.base - 1) : ~Bears(s, b) ELSE a.base = base
       /\ a.ticks > 0 => (a.ticks - 1) * PerSecond < d * a.base
       /\ 2 * (d * a.base) <= (2 * a.ticks + 1) * PerSecond

LEMMA BearsIsBorne ==
  ASSUME NEW s \in Seq(Nat), Representable(s, Len(s)), NEW b \in Nat
  PROVE  Bears(s, b * RateUnit) <=> Borne(s, Len(s), b)
<1>1. RateUnit \in Nat /\ RateUnit > 0
  BY InputsAssumption
<1>2. b * RateUnit \in Nat
  BY <1>1
<1>3. ASSUME NEW i \in 1..Len(s)
      PROVE  (b * RateUnit) % s[i] = 0 <=> Multiple(b, Millihertz(s[i]))
  <2>1. PICK y : y = Millihertz(s[i])
    OBVIOUS
  <2>2. s[i] \in Nat /\ y \in Nat /\ y # NoRate /\ s[i] = y * RateUnit
    <3>1. s[i] \in Nat
      OBVIOUS
    <3>2. y # NoRate
      BY <2>1 DEF Representable
    <3> QED BY <2>1, <3>1, <3>2, MillihertzIsNatural
  <2>3. s[i] > 0
    <3>1. 1 * RateUnit <= y * RateUnit /\ 1 * RateUnit = RateUnit
      BY <1>1, <2>2, SMT DEF NoRate
    <3> QED BY <1>1, <2>2, <3>1
  <2>4. (b * RateUnit) % s[i] = 0 <=> Multiple(b * RateUnit, s[i])
    BY <1>2, <2>2, <2>3, MultipleIsExact
  <2>5. ASSUME Multiple(b * RateUnit, s[i]) PROVE Multiple(b, y)
    <3>1. Multiple(b * RateUnit, y * RateUnit)
      BY <2>2, <2>5
    <3> QED BY <1>1, <2>2, <3>1, MultiplesCancel
  <2>6. ASSUME Multiple(b, y) PROVE Multiple(b * RateUnit, s[i])
    <3>1. PICK q \in Nat : b = q * y
      BY <2>6 DEF Multiple
    <3>2. (q * y) * RateUnit = q * (y * RateUnit)
      BY <1>1, <2>2, SMT
    <3>3. b * RateUnit = q * s[i]
      BY <2>2, <3>1, <3>2
    <3> QED BY <3>3 DEF Multiple
  <2> QED BY <2>1, <2>4, <2>5, <2>6
<1>4. DOMAIN s = 1..Len(s)
  OBVIOUS
<1> QED BY <1>3, <1>4, Zenon DEF Bears, Borne

LEMMA UnitsAreRepresentable ==
  ASSUME NEW s \in Seq(Nat), NEW b, InUnits(b, s)
  PROVE  Representable(s, Len(s))
<1> SUFFICES ASSUME NEW i \in 1..Len(s) PROVE Millihertz(s[i]) # NoRate
  BY DEF Representable
<1>1. s[i] \in Nat /\ i \in DOMAIN s
  OBVIOUS
<1>2. s[i] > 0 /\ s[i] % RateUnit = 0
  BY <1>1 DEF InUnits
<1> QED BY <1>1, <1>2, MillihertzIsNatural

LEMMA MillihertzOfMultiple ==
  ASSUME NEW b \in Nat
  PROVE  b * RateUnit \in Nat /\ Millihertz(b * RateUnit) = b /\ (b * RateUnit = NoRate <=> b = NoRate)
<1>1. RateUnit \in Nat /\ RateUnit > 0
  BY InputsAssumption
<1>2. PICK x : x = b * RateUnit
  OBVIOUS
<1>3. x \in Nat
  BY <1>1, <1>2
<1>4. CASE b = 0
  <2>1. 0 * RateUnit = 0
    BY <1>1, SMT
  <2>2. x = 0
    BY <1>2, <1>4, <2>1
  <2> QED BY <1>2, <1>4, <2>2 DEF Millihertz, NoRate
<1>5. CASE b > 0
  <2>1. 1 * RateUnit <= b * RateUnit /\ 1 * RateUnit = RateUnit
    BY <1>1, <1>5, SMT
  <2>2. x > 0
    BY <1>1, <1>2, <1>3, <2>1
  <2>3. Multiple(x, RateUnit)
    BY <1>2 DEF Multiple
  <2>4. x % RateUnit = 0
    BY <1>1, <1>3, <2>3, MultipleIsExact
  <2>5. PICK y : y = Millihertz(x)
    OBVIOUS
  <2>6. y \in Nat /\ x = y * RateUnit
    BY <1>3, <2>2, <2>4, <2>5, MillihertzIsNatural
  <2>7. y = b
    BY <1>1, <1>2, <2>6, FactorsCancel
  <2> QED BY <1>2, <1>3, <1>5, <2>2, <2>5, <2>7 DEF NoRate
<1> QED BY <1>4, <1>5

(* A base that bears all its rates is a grid, and nothing else is.         *)
LEMMA GridOfBase ==
  ASSUME NEW base \in Nat, NEW s \in Seq(Nat), NEW d \in Nat,
         NEW b \in Nat, b = ResolveBase(base, s)
  PROVE  /\ Grid(base, s, d) = NoGrid <=> b = NoRate \/ \E i \in DOMAIN s : Divisor(b, s[i]) = NoRate
         /\ Grid(base, s, d) # NoGrid =>
              Grid(base, s, d) = [base |-> b, every |-> [i \in DOMAIN s |-> Divisor(b, s[i])], ticks |-> TickCount(d, b)]
<1> DEFINE refused == b = NoRate \/ \E i \in DOMAIN s : Divisor(b, s[i]) = NoRate
           g == [base |-> b, every |-> [i \in DOMAIN s |-> Divisor(b, s[i])], ticks |-> TickCount(d, b)]
<1>1. Grid(base, s, d) = IF refused THEN NoGrid ELSE g
  BY Zenon DEF Grid
<1>2. g.base = b /\ NoGrid.base = NoRate
  BY DEF NoGrid
<1>3. ~refused => b # NoRate
  OBVIOUS
<1> HIDE DEF g, refused
<1>4. ~refused => g # NoGrid
  BY <1>2, <1>3
<1>5. Grid(base, s, d) = NoGrid <=> refused
  BY <1>1, <1>4
<1>6. Grid(base, s, d) # NoGrid => Grid(base, s, d) = g
  BY <1>1, <1>4
<1> QED BY <1>5, <1>6 DEF g, refused

LEMMA BaseResolved ==
  ASSUME NEW base \in Nat, NEW s \in Seq(Nat)
  PROVE  /\ base > 0 => ResolveBase(base, s) = base
         /\ base = 0 => ResolveBase(base, s) = CommonBase(s) * RateUnit
         /\ ResolveBase(base, s) \in Nat
         /\ CommonBase(s) \in Nat /\ (s = <<>> => CommonBase(s) = NoRate)
<1>1. s = <<>> => CommonBase(s) = NoRate
  BY DEF CommonBase
<1>2. CommonBase(s) \in Nat
  BY <1>1, CommonBaseIsLeast DEF LeastBase, NoRate
<1> QED BY <1>1, <1>2, MillihertzOfMultiple DEF ResolveBase

LEMMA GridExactly ==
  ASSUME NEW base \in Nat, NEW s \in Seq(Nat), NEW d \in Nat
  PROVE  Exactly(base, s, d, Grid(base, s, d))
<1>g. PICK a : a = Grid(base, s, d)
  OBVIOUS
<1>b. PICK b \in Nat : b = ResolveBase(base, s)
  BY BaseResolved
<1>m. PICK m \in Nat : m = CommonBase(s)
  BY BaseResolved
<1>u. RateUnit \in Nat /\ RateUnit > 0 /\ MaxBase \in Nat
  BY InputsAssumption
<1>s. \A i \in DOMAIN s : s[i] \in Nat /\ i \in 1..Len(s)
  OBVIOUS
<1>1. a = NoGrid <=> b = NoRate \/ \E i \in DOMAIN s : Divisor(b, s[i]) = NoRate
  BY <1>g, <1>b, GridOfBase
<1>2. a # NoGrid => a = [base |-> b, every |-> [i \in DOMAIN s |-> Divisor(b, s[i])], ticks |-> TickCount(d, b)]
  BY <1>g, <1>b, GridOfBase
<1>3. ASSUME NEW x \in Nat, x # NoRate, Representable(s, Len(s)), Borne(s, Len(s), x), b = x * RateUnit
      PROVE  a # NoGrid
  <2>1. Millihertz(b) = x /\ b # NoRate
    BY <1>3, MillihertzOfMultiple
  <2>2. ASSUME NEW i \in DOMAIN s PROVE Divisor(b, s[i]) # NoRate
    <3>1. i \in 1..Len(s) /\ s[i] \in Nat
      BY <1>s
    <3>2. Millihertz(s[i]) # NoRate /\ Multiple(x, Millihertz(s[i]))
      BY <1>3, <3>1 DEF Representable, Borne
    <3> QED BY <1>3, <2>1, <3>1, <3>2, DivisorIsExact
  <2> QED BY <1>1, <2>1, <2>2
<1>4. ASSUME a = NoGrid, s # <<>>, InUnits(base, s), NEW c \in 1..MaxBase,
             base \in {0, c * RateUnit}, Bears(s, c * RateUnit)
      PROVE  FALSE
  <2>0. c \in Nat /\ c # NoRate
    BY <1>u DEF NoRate
  <2>1. Representable(s, Len(s))
    BY <1>4, UnitsAreRepresentable
  <2>2. Borne(s, Len(s), c)
    BY <1>4, <2>0, <2>1, BearsIsBorne
  <2>3. CASE base = 0
    <3>1. LeastBase(m, s, Len(s))
      BY <1>4, <1>m, CommonBaseIsLeast
    <3>2. m # NoRate
      BY <2>1, <2>2, <3>1 DEF LeastBase
    <3>3. Borne(s, Len(s), m)
      BY <3>1, <3>2 DEF LeastBase
    <3>4. b = m * RateUnit
      BY <1>b, <1>m, <2>3, BaseResolved
    <3> QED BY <1>3, <1>4, <2>1, <3>2, <3>3, <3>4
  <2>4. CASE base # 0
    <3>1. base = c * RateUnit /\ base > 0
      BY <1>4, <2>4
    <3>2. b = c * RateUnit
      BY <1>b, <3>1, BaseResolved
    <3> QED BY <1>3, <1>4, <2>0, <2>1, <2>2, <3>2
  <2> QED BY <2>3, <2>4
<1>5. ASSUME a # NoGrid
      PROVE  /\ \A i \in DOMAIN s : a.every[i] * s[i] = a.base
             /\ IF base = 0 THEN \A c \in 1..(a.base - 1) : ~Bears(s, c) ELSE a.base = base
             /\ a.ticks > 0 => (a.ticks - 1) * PerSecond < d * a.base
             /\ 2 * (d * a.base) <= (2 * a.ticks + 1) * PerSecond
  <2>1. a.base = b /\ a.ticks = TickCount(d, b) /\ \A i \in DOMAIN s : a.every[i] = Divisor(b, s[i])
    BY <1>2, <1>5
  <2>2. b # NoRate /\ \A i \in DOMAIN s : Divisor(b, s[i]) # NoRate
    BY <1>1, <1>5
  <2>3. ASSUME NEW i \in DOMAIN s PROVE a.every[i] * s[i] = a.base
    BY <1>s, <2>1, <2>2, DivisorIsExact
  <2>4. CASE base # 0
    <3>1. a.base = base
      BY <1>b, <2>1, <2>4, BaseResolved
    <3> QED BY <2>1, <2>3, <2>4, <3>1, TicksFit
  <2>5. CASE base = 0
    <3>1. b = m * RateUnit
      BY <1>b, <1>m, <2>5, BaseResolved
    <3>2. m # NoRate
      BY <2>2, <3>1, MillihertzOfMultiple
    <3>3. s # <<>>
      BY <1>m, <3>2, BaseResolved
    <3>4. LeastBase(m, s, Len(s))
      BY <1>m, <3>3, CommonBaseIsLeast
    <3>5. Representable(s, Len(s)) /\ \A c \in Nat : Borne(s, Len(s), c) => Multiple(c, m)
      BY <3>2, <3>4 DEF LeastBase
    <3>6. ASSUME NEW c \in 1..(b - 1), Bears(s, c) PROVE FALSE
      <4>1. c \in Nat /\ c > 0 /\ c < b
        OBVIOUS
      <4>2. 1 \in DOMAIN s /\ 1 \in 1..Len(s) /\ s[1] \in Nat
        BY <3>3
      <4>3. PICK y : y = Millihertz(s[1])
        OBVIOUS
      <4>4. y \in Nat /\ y # NoRate /\ s[1] = y * RateUnit
        BY <3>5, <4>2, <4>3, MillihertzIsNatural DEF Representable
      <4>5. s[1] > 0
        <5>1. s[1] # NoRate
          BY <4>4, MillihertzOfMultiple
        <5> QED BY <4>2, <5>1 DEF NoRate
      <4>6. c % s[1] = 0
        BY <3>6, <4>2 DEF Bears
      <4>7. PICK q \in Nat : c = q * s[1]
        BY <4>1, <4>2, <4>5, <4>6, MultipleIsExact DEF Multiple
      <4>8. PICK x : x = q * y
        OBVIOUS
      <4>9. x \in Nat /\ c = x * RateUnit
        <5>1. q * (y * RateUnit) = (q * y) * RateUnit
          BY <1>u, <4>4, SMT
        <5> QED BY <4>4, <4>7, <4>8, <5>1
      <4>10. Borne(s, Len(s), x)
        BY <3>5, <3>6, <4>9, BearsIsBorne
      <4>11. Multiple(x, m)
        BY <3>5, <4>9, <4>10
      <4>12. x > 0
        <5>1. x # NoRate
          BY <4>1, <4>9, MillihertzOfMultiple DEF NoRate
        <5> QED BY <4>9, <5>1 DEF NoRate
      <4>13. m <= x
        BY <4>9, <4>11, <4>12, MultipleIsAsLarge
      <4>14. m * RateUnit <= x * RateUnit
        BY <1>u, <4>9, <4>13, SMT
      <4> QED BY <3>1, <4>1, <4>9, <4>14
    <3> QED BY <2>1, <2>3, <2>5, <3>6, TicksFit
  <2> QED BY <2>4, <2>5
<1> QED BY <1>g, <1>4, <1>5 DEF Exactly

(* Only AskGrid asks for a grid.                                           *)
GridInv ==
  call.op = "grid" => \E b \in Bases, rates \in Schedules, d \in Durations :
     call.args[1] = b /\ call.args[2] = rates /\ call.args[3] = d /\ answer = Grid(b, rates, d)

LEMMA CallsOfLibrary == LibraryNext => call'.op # "grid"
<1> DEFINE Asked(S) == \E op \in S : \E on, args, a : Reads(Call(op, on, args), a)
<1> SUFFICES ASSUME LibraryNext PROVE call'.op # "grid"
  OBVIOUS
<1>0. ASSUME NEW S, "grid" \notin S, Asked(S) PROVE call'.op # "grid"
  <2>1. PICK op \in S : \E on, args, a : Reads(Call(op, on, args), a)
    BY <1>0
  <2>2. call'.op = op
    BY <2>1, CallsAreNamed, Zenon
  <2> QED BY <1>0, <2>2
<1>1. Operate => Asked(Arithmetical \cup Comparing \cup Bitwises)
  BY Zenon DEF Operate, Pure
<1>2. CallCalculate => Asked({"Max", "Min", "Average", "Modulo", "Absolute", "Floor", "Ceiling", "IsNAN", "IsFinite", "Bias"})
  <2>1. \A op : op \in {"Max", "Min", "Average", "Modulo"} \/ op \in {"Absolute", "Floor", "Ceiling", "IsNAN", "IsFinite"} \/ op = "Bias"
          => op \in {"Max", "Min", "Average", "Modulo", "Absolute", "Floor", "Ceiling", "IsNAN", "IsFinite", "Bias"}
    BY Zenon
  <2> QED BY <2>1, Zenon DEF CallCalculate, Pure
<1>3. CallConvert => Asked({"ToInteger", "ToUnsignedInteger", "ToFixed7DP"})
  BY Zenon DEF CallConvert, Pure
<1>4. Store => Asked({"store"})
  BY Zenon DEF Store, Pure
<1>5. Notate => Asked({"print", "parse"})
  BY Zenon DEF Notate, Pure
<1>6. /\ "grid" \notin Arithmetical \cup Comparing \cup Bitwises
      /\ "grid" \notin {"Max", "Min", "Average", "Modulo", "Absolute", "Floor", "Ceiling", "IsNAN", "IsFinite", "Bias"}
      /\ "grid" \notin {"ToInteger", "ToUnsignedInteger", "ToFixed7DP"}
      /\ "grid" \notin {"store"} /\ "grid" \notin {"print", "parse"}
  BY DEF Arithmetical, Comparing, Bitwises
<1>7. call'.op \notin OtherNames => \/ Operate \/ CallCalculate \/ CallConvert \/ Store \/ Notate
  BY OtherCalls, Zenon DEF LibraryNext, Ask
<1>8. "grid" \notin OtherNames
  BY DEF OtherNames
<1> HIDE DEF Asked
<1> QED BY <1>0, <1>1, <1>2, <1>3, <1>4, <1>5, <1>6, <1>7, <1>8, Zenon

LEMMA GridInvNext ==
  ASSUME GridInv, [OfflineNext]_libraryVars
  PROVE  GridInv'
<1>1. CASE UNCHANGED libraryVars
  BY <1>1 DEF GridInv, libraryVars
<1>2. CASE LibraryNext
  BY <1>2, CallsOfLibrary, Zenon DEF GridInv
<1>3. CASE AskGrid
  <2>1. PICK b \in Bases, rates \in Schedules, d \in Durations :
          Reads(Call("grid", NoPath, <<b, rates, d>>), Grid(b, rates, d))
    BY <1>3, Zenon DEF AskGrid, Pure
  <2>2. PICK args, a : args = <<b, rates, d>> /\ a = Grid(b, rates, d)
    OBVIOUS
  <2>3. Reads(Call("grid", NoPath, args), a)
    BY <2>1, <2>2
  <2>4. call'.args = args /\ answer' = a
    BY <2>3, CallsAreNamed, Zenon
  <2>5. args[1] = b /\ args[2] = rates /\ args[3] = d
    BY <2>2
  <2> QED BY <2>2, <2>4, <2>5, Zenon DEF GridInv
<1>4. CASE AskSeed
  <2>1. \E on, args, a : Reads(Call("seed", on, args), a)
    BY <1>4, Zenon DEF AskSeed, SeedTick, Pure
  <2>2. call'.op = "seed"
    BY <2>1, CallsAreNamed, Zenon
  <2> QED BY <2>2 DEF GridInv
<1>5. CASE AskReplay
  <2>1. \E on, args, a : Reads(Call("replay", on, args), a)
    BY <1>5, Zenon DEF AskReplay, Pure
  <2>2. call'.op = "replay"
    BY <2>1, CallsAreNamed, Zenon
  <2> QED BY <2>2 DEF GridInv
<1> QED BY <1>1, <1>2, <1>3, <1>4, <1>5 DEF OfflineNext

\* The grid of a schedule is exact, and refused only where none is: for every
\* base, list of rates and duration, and every largest base.
THEOREM GridHolds == OfflineSpec => []GridIsExact
<1>1. LibraryInit => GridInv
  <2>1. NoCall.op # "grid"
    BY DEF NoCall
  <2> QED BY <2>1, Zenon DEF LibraryInit, GridInv
<1>2. GridInv /\ [OfflineNext]_libraryVars => GridInv'
  BY GridInvNext
<1>3. GridInv => GridIsExact
  <2> SUFFICES ASSUME GridInv, Is("grid") PROVE Exactly(Arg(1), Arg(2), Arg(3), answer)
    BY Zenon DEF GridIsExact, Exactly, Bears, InUnits
  <2>1. PICK b \in Bases, rates \in Schedules, d \in Durations :
          Arg(1) = b /\ Arg(2) = rates /\ Arg(3) = d /\ answer = Grid(b, rates, d)
    BY Zenon DEF GridInv, Is, Arg
  <2>2. b \in Nat /\ rates \in Seq(Nat) /\ d \in Nat
    BY GridAssumption
  <2> QED BY <2>1, <2>2, GridExactly
<1> QED BY <1>1, <1>2, <1>3, PTL DEF OfflineSpec

-----------------------------------------------------------------------------
(* The replay.                                                             *)
USE ProjectAssumption, TraceAssumption, CounterfactualAssumption

Reached(f) ==
  f \in Functions /\ \E r \in ReadersOf(overridden) : PathExists(FlowEdges, r, f)

(* The walk so far: it started from every reader of an override, has on    *)
(* its stack whatever it has not followed yet, and went nowhere else.      *)
WalkInv ==
  /\ ReadersOf(overridden) \subseteq needed \cup pending
  /\ \A f \in needed : Downstream(f) \subseteq needed \cup pending
  /\ \A f \in needed \cup pending : Reached(f)

Walked ==
  /\ phase = "walk" => WalkInv
  /\ phase \in {"order", "seed", "run", "ended"} => WalkInv /\ pending = {}

(* The store: what the log and the overrides own never lags behind inside  *)
(* a tick, and nothing else is ever taken from them.                       *)
StoreInv ==
  \A c \in Channels :
    /\ c \notin logged \cup overridden => env[c].kind \in {"unset", "computed"}
    /\ phase = "run" =>
         /\ env[c].kind \in {"log", "override"} => env[c].at = tick
         /\ env[c].kind = "log" => c \notin overridden
         /\ c \in logged \cup overridden =>
              \/ env[c].kind \in {"log", "override"}
              \/ env[c].kind = "computed" /\ env[c].at = tick

Shape ==
  /\ tick \in Nat
  /\ env \in [Channels -> [kind : ValueKinds, by : Nat, at : Int]]
  /\ order \in Seq(Functions)
  /\ reads \in [Functions -> SUBSET Channels]
  /\ phase \in CounterfactualPhases

-----------------------------------------------------------------------------
LEMMA PathToSelf ==
  ASSUME NEW edges_, NEW f \in Functions
  PROVE  PathExists(edges_, f, f)
  BY DEF PathExists

LEMMA PathExtends ==
  ASSUME NEW edges_, NEW r, NEW f \in Functions, NEW g \in Functions,
         PathExists(edges_, r, f), <<f, g>> \in edges_
  PROVE  PathExists(edges_, r, g)
  BY DEF PathExists, ClosedUnder

LEMMA DownstreamIsReached ==
  ASSUME NEW f \in Functions, Reached(f), NEW g \in Downstream(f)
  PROVE  Reached(g)
<1>1. g \in Functions
  BY DEF Downstream, ReadersOf
<1>2. <<f, g>> \in FlowEdges
  BY <1>1 DEF FlowEdges
<1>3. PICK r \in ReadersOf(overridden) : PathExists(FlowEdges, r, f)
  BY DEF Reached
<1>4. PathExists(FlowEdges, r, g)
  BY <1>1, <1>2, <1>3, PathExtends
<1> QED BY <1>1, <1>3, <1>4 DEF Reached

(* With an empty stack the cone is closed, hence complete.                 *)
LEMMA ClosedConeIsDownstream ==
  ASSUME WalkInv, pending = {}
  PROVE  needed = {f \in Functions :
                     \E r \in ReadersOf(overridden) : PathExists(FlowEdges, r, f)}
<1>1. ASSUME NEW f \in needed PROVE Reached(f)
  BY DEF WalkInv
<1>2. ASSUME NEW f \in Functions, NEW r \in ReadersOf(overridden),
             PathExists(FlowEdges, r, f)
      PROVE  f \in needed
  <2>1. needed \in SUBSET Functions
    BY <1>1 DEF Reached
  <2>2. r \in needed
    BY DEF WalkInv
  <2>3. ClosedUnder(FlowEdges, needed)
    BY DEF WalkInv, ClosedUnder, FlowEdges
  <2> QED BY <2>1, <2>2, <2>3, <1>2 DEF PathExists
<1> QED BY <1>1, <1>2 DEF Reached

LEMMA PopScriptKeepsWalk ==
  ASSUME Walked, NEW f \in Functions, PopScript(f)
  PROVE  Walked'
<1>1. /\ phase = "walk" /\ phase' = "walk"
      /\ f \in pending
      /\ UNCHANGED <<reads, writes, overridden>>
  BY DEF PopScript, projectVars
<1>2. /\ ReadersOf(overridden)' = ReadersOf(overridden)
      /\ \A g : Downstream(g)' = Downstream(g)
      /\ \A g : Reached(g)' <=> Reached(g)
  BY <1>1 DEF ReadersOf, Downstream, Reached, FlowEdges, PathExists, ClosedUnder
<1>3. WalkInv
  BY <1>1 DEF Walked
<1>4. WalkInv'
  <2>1. CASE f \in needed
    <3>1. needed' = needed /\ pending' = pending \ {f}
      BY <2>1 DEF PopScript
    <3> QED BY <2>1, <3>1, <1>2, <1>3 DEF WalkInv
  <2>2. CASE f \notin needed
    <3>1. needed' = needed \cup {f} /\ pending' = (pending \ {f}) \cup Downstream(f)
      BY <2>2 DEF PopScript
    <3>2. Reached(f)
      BY <1>1, <1>3 DEF WalkInv
    <3>3. \A g \in Downstream(f) : Reached(g)
      BY <3>2, DownstreamIsReached
    <3> QED BY <3>1, <3>2, <3>3, <1>1, <1>2, <1>3 DEF WalkInv
  <2> QED BY <2>1, <2>2
<1> QED BY <1>1, <1>4 DEF Walked

(* Every other step leaves project, cone and stack alone, and enters a     *)
(* later phase only from one in which the walk is over.                    *)
LEMMA OthersKeepWalk ==
  ASSUME Walked,
         UNCHANGED <<reads, writes, overridden, pending, needed>>,
         \/ phase' = phase
         \/ phase' = "failed"
         \/ phase = "walk" /\ pending = {}
         \/ phase \in {"order", "seed", "run", "ended"}
  PROVE  Walked'
<1>1. WalkInv' <=> WalkInv
  BY DEF WalkInv, ReadersOf, Downstream, Reached, FlowEdges, PathExists, ClosedUnder
<1> QED BY <1>1 DEF Walked

-----------------------------------------------------------------------------
(* What the latest execution found, as far as the log and the overrides    *)
(* go: the rest of ConeSeesThisTick needs the trace (HoldInv).             *)
SeenInv ==
  /\ execution.at \in Int
  /\ \A c \in DOMAIN execution.seen :
       LET v == execution.seen[c]
       IN  /\ v.kind \in {"log", "override"} => v.at = execution.at
           /\ c \in overridden => v.at = execution.at /\ v.kind # "log"

IInv == Shape /\ Walked /\ StoreInv /\ SeenInv

LEMMA InitIInv == Init => IInv
<1> SUFFICES ASSUME Init PROVE IInv
  OBVIOUS
<1>1. Shape
  BY DEF Init, Shape, Unset, ValueKinds, Before, CounterfactualPhases
<1>2. Walked
  <2>1. WalkInv
    <3>1. \A f \in ReadersOf(overridden) : Reached(f)
      BY PathToSelf DEF Reached, ReadersOf
    <3> QED BY <3>1 DEF Init, WalkInv
  <2>2. overridden = {} => pending = {}
    BY DEF Init, ReadersOf
  <2> QED BY <2>1, <2>2 DEF Init, Walked
<1>3. StoreInv
  BY DEF Init, StoreInv, Unset
<1>4. SeenInv
  BY DEF Init, SeenInv, NoExecution, Before
<1> QED BY <1>1, <1>2, <1>3, <1>4 DEF IInv

(* Steps that leave the store, the clock and the execution alone.          *)
LEMMA QuietSteps ==
  ASSUME IInv, Walked', order' \in Seq(Functions),
         UNCHANGED <<projectVars, env, execution, tick>>,
         phase' \in CounterfactualPhases, phase' = "run" => phase = "run"
  PROVE  IInv'
<1>1. Shape'
  BY DEF IInv, Shape, projectVars
<1>2. StoreInv'
  BY DEF IInv, StoreInv, projectVars
<1>3. SeenInv'
  BY DEF IInv, SeenInv, projectVars
<1> QED BY <1>1, <1>2, <1>3 DEF IInv

LEMMA OpenTickKeepsIInv == IInv /\ OpenTick => IInv'
<1> SUFFICES ASSUME IInv, OpenTick PROVE IInv'
  OBVIOUS
<1>1. /\ tick \in Nat
      /\ env' = [c \in Channels |-> IF c \in overridden THEN Override(tick)
                                   ELSE IF c \in logged THEN Logged(tick)
                                   ELSE env[c]]
      /\ UNCHANGED <<projectVars, execution, tick, order>>
      /\ phase' = "run"
  BY DEF IInv, Shape, OpenTick, Seeded, coneVars
<1>2. Shape'
  BY <1>1 DEF IInv, Shape, projectVars, Override, Logged, ValueKinds,
              CounterfactualPhases
<1>3. Walked'
  BY OthersKeepWalk DEF IInv, OpenTick, projectVars, coneVars
<1>4. StoreInv'
  <2> SUFFICES ASSUME NEW c \in Channels
               PROVE  /\ c \notin logged \cup overridden =>
                           env'[c].kind \in {"unset", "computed"}
                      /\ env'[c].kind \in {"log", "override"} => env'[c].at = tick
                      /\ env'[c].kind = "log" => c \notin overridden
                      /\ c \in logged \cup overridden =>
                           env'[c].kind \in {"log", "override"}
    BY <1>1 DEF StoreInv, projectVars
  <2>1. CASE c \in overridden
    BY <2>1, <1>1 DEF Override
  <2>2. CASE c \notin overridden /\ c \in logged
    BY <2>2, <1>1 DEF Logged
  <2>3. CASE c \notin logged \cup overridden
    BY <2>3, <1>1 DEF IInv, StoreInv
  <2> QED BY <2>1, <2>2, <2>3
<1>5. SeenInv'
  BY <1>1 DEF IInv, SeenInv, projectVars
<1> QED BY <1>2, <1>3, <1>4, <1>5 DEF IInv

LEMMA RunDueKeepsIInv ==
  ASSUME IInv, NEW p \in 1..Len(order), NEW w \in SUBSET writes[order[p]], RunDue(p, w)
  PROVE  IInv'
<1> DEFINE f == order[p]
<1>1. /\ phase = "run" /\ phase' = "run"
      /\ execution' = [function |-> f, at |-> tick, seen |-> [c \in reads[f] |-> env[c]]]
      /\ env' = [c \in Channels |-> IF c \in w THEN Computed(f, tick) ELSE env[c]]
      /\ UNCHANGED <<projectVars, coneVars, tick>>
  BY DEF RunDue
<1>2. tick \in Nat /\ f \in Functions /\ f \in Nat /\ reads[f] \subseteq Channels
  <2>1. /\ order \in Seq(Functions) /\ tick \in Nat
        /\ reads \in [Functions -> SUBSET Channels]
    BY DEF IInv, Shape
  <2>2. f \in Functions
    BY <2>1
  <2> QED BY <2>1, <2>2
<1>3. Shape'
  BY <1>1, <1>2 DEF IInv, Shape, projectVars, coneVars, Computed, ValueKinds
<1>4. Walked'
  BY <1>1, OthersKeepWalk DEF IInv, projectVars, coneVars
<1>5. StoreInv'
  <2> SUFFICES ASSUME NEW c \in Channels
               PROVE  /\ c \notin logged \cup overridden =>
                           env'[c].kind \in {"unset", "computed"}
                      /\ env'[c].kind \in {"log", "override"} => env'[c].at = tick
                      /\ env'[c].kind = "log" => c \notin overridden
                      /\ c \in logged \cup overridden =>
                           \/ env'[c].kind \in {"log", "override"}
                           \/ env'[c].kind = "computed" /\ env'[c].at = tick
    BY <1>1 DEF StoreInv, projectVars
  <2>1. CASE c \in w
    BY <2>1, <1>1 DEF Computed
  <2>2. CASE c \notin w
    BY <2>2, <1>1 DEF IInv, StoreInv
  <2> QED BY <2>1, <2>2
<1>6. SeenInv'
  <2>1. execution'.at = tick /\ DOMAIN execution'.seen = reads[f]
    BY <1>1
  <2>2. \A c \in reads[f] : execution'.seen[c] = env[c]
    BY <1>1
  <2>3. ASSUME NEW c \in reads[f]
        PROVE  /\ env[c].kind \in {"log", "override"} => env[c].at = tick
               /\ c \in overridden => env[c].at = tick /\ env[c].kind # "log"
    BY <1>1, <1>2 DEF IInv, StoreInv
  <2> QED BY <2>1, <2>2, <2>3, <1>1, <1>2 DEF SeenInv, projectVars
<1> QED BY <1>3, <1>4, <1>5, <1>6 DEF IInv

LEMMA ScriptFailsKeepsIInv == IInv /\ ScriptFails => IInv'
<1> SUFFICES ASSUME IInv, ScriptFails PROVE IInv'
  OBVIOUS
<1>1. /\ phase' = "failed"
      /\ env' = [c \in Channels |-> Unset]
      /\ execution' = NoExecution
      /\ UNCHANGED <<projectVars, coneVars, tick>>
  BY DEF ScriptFails
<1>2. Shape'
  BY <1>1 DEF IInv, Shape, projectVars, coneVars, Unset, Before, ValueKinds,
              CounterfactualPhases
<1>3. Walked'
  BY <1>1, OthersKeepWalk DEF IInv, projectVars, coneVars
<1>4. StoreInv'
  BY <1>1 DEF StoreInv, Unset
<1>5. SeenInv'
  BY <1>1 DEF SeenInv, NoExecution, Before
<1> QED BY <1>2, <1>3, <1>4, <1>5 DEF IInv

LEMMA CloseTickKeepsIInv == IInv /\ CloseTick => IInv'
<1> SUFFICES ASSUME IInv, CloseTick PROVE IInv'
  OBVIOUS
<1>1. /\ phase = "run" /\ phase' = "seed" /\ tick' = tick + 1
      /\ UNCHANGED <<projectVars, coneVars, env, execution>>
  BY DEF CloseTick
<1>2. Shape'
  BY <1>1 DEF IInv, Shape, projectVars, coneVars, CounterfactualPhases
<1>3. Walked'
  BY <1>1, OthersKeepWalk DEF IInv, projectVars, coneVars
<1>4. StoreInv'
  BY <1>1 DEF IInv, StoreInv, projectVars
<1>5. SeenInv'
  BY <1>1 DEF IInv, SeenInv, projectVars
<1> QED BY <1>2, <1>3, <1>4, <1>5 DEF IInv

LEMMA ConeStepsKeepIInv ==
  ASSUME IInv,
         \/ \E f \in Functions : PopScript(f) \/ PlaceNext(f)
         \/ StartOrdering
         \/ \E n \in Nat : \E rest \in [1..n -> needed] : FinishOrdering(rest)
         \/ EndReplay
         \/ UNCHANGED vars
  PROVE  IInv'
<1>1. CASE \E f \in Functions : PopScript(f)
  <2>1. Walked'
    BY <1>1, PopScriptKeepsWalk DEF IInv
  <2> QED BY <1>1, <2>1, QuietSteps DEF PopScript, IInv, Shape
<1>2. ASSUME NEW f \in Functions, PlaceNext(f) PROVE IInv'
  <2>1. Walked'
    BY <1>2, OthersKeepWalk DEF IInv, PlaceNext, projectVars
  <2>2. order' \in Seq(Functions)
    BY <1>2 DEF PlaceNext, IInv, Shape
  <2> QED BY <1>2, <2>1, <2>2, QuietSteps DEF PlaceNext, IInv, Shape
<1>3. CASE StartOrdering
  <2>1. Walked'
    BY <1>3, OthersKeepWalk DEF IInv, StartOrdering, projectVars, coneVars
  <2> QED BY <1>3, <2>1, QuietSteps
        DEF StartOrdering, IInv, Shape, coneVars, CounterfactualPhases
<1>4. ASSUME NEW n \in Nat, NEW rest \in [1..n -> needed], FinishOrdering(rest)
      PROVE  IInv'
  <2>1. Walked'
    BY <1>4, OthersKeepWalk DEF IInv, FinishOrdering, projectVars
  <2>2. needed \subseteq Functions
    BY <1>4 DEF IInv, Walked, WalkInv, Reached, FinishOrdering
  <2>3. rest \in Seq(Functions)
    <3>1. rest \in [1..n -> Functions]
      BY <2>2
    <3> QED BY <3>1
  <2>4. order' \in Seq(Functions)
    BY <1>4, <2>3 DEF FinishOrdering, IInv, Shape
  <2>5. phase' \in CounterfactualPhases /\ phase' # "run"
    BY <1>4 DEF FinishOrdering, CounterfactualPhases
  <2> QED BY <1>4, <2>1, <2>4, <2>5, QuietSteps DEF FinishOrdering
<1>5. CASE EndReplay
  <2>1. Walked'
    BY <1>5, OthersKeepWalk DEF IInv, EndReplay, projectVars, coneVars
  <2> QED BY <1>5, <2>1, QuietSteps
        DEF EndReplay, IInv, Shape, coneVars, CounterfactualPhases
<1>6. CASE UNCHANGED vars
  <2>1. Walked'
    BY <1>6, OthersKeepWalk DEF IInv, vars, projectVars, coneVars
  <2> QED BY <1>6, <2>1, QuietSteps DEF vars, IInv, Shape, coneVars
<1> QED BY <1>1, <1>2, <1>3, <1>4, <1>5, <1>6

LEMMA Invariance == Spec => []IInv
<1>1. Init => IInv
  BY InitIInv
<1>2. IInv /\ [Next]_vars => IInv'
  <2> SUFFICES ASSUME IInv, [Next]_vars PROVE IInv'
    OBVIOUS
  <2>1. CASE OpenTick
    BY <2>1, OpenTickKeepsIInv
  <2>2. CASE \E p \in 1..Len(order) : \E w \in SUBSET writes[order[p]] : RunDue(p, w)
    BY <2>2, RunDueKeepsIInv
  <2>3. CASE ScriptFails
    BY <2>3, ScriptFailsKeepsIInv
  <2>4. CASE CloseTick
    BY <2>4, CloseTickKeepsIInv
  <2>5. CASE \E rest \in UNION {[1..n -> needed] : n \in 0..Cardinality(needed)} :
               FinishOrdering(rest)
    <3>1. PICK n \in 0..Cardinality(needed) :
            \E rest \in [1..n -> needed] : FinishOrdering(rest)
      BY <2>5
    <3>2. n \in Nat
      OBVIOUS
    <3> QED BY <3>1, <3>2, ConeStepsKeepIInv
  <2>6. CASE \/ \E f \in Functions : PopScript(f) \/ PlaceNext(f)
             \/ StartOrdering
             \/ EndReplay
             \/ UNCHANGED vars
    BY <2>6, ConeStepsKeepIInv
  <2> QED BY <2>1, <2>2, <2>3, <2>4, <2>5, <2>6 DEF Next
<1> QED BY <1>1, <1>2, PTL DEF Spec

(* Whatever the project's reads and writes, cyclic or not, the walk of     *)
(* build_downstream_cone ends with every function an override can          *)
(* influence and no other.                                                 *)
THEOREM ConeIsComplete == Spec => []ConeIsDownstream
<1>1. IInv => ConeIsDownstream
  BY ClosedConeIsDownstream DEF IInv, Walked, ConeIsDownstream
<1> QED BY <1>1, Invariance, PTL

-----------------------------------------------------------------------------
(* The order of the cone. *)

LEMMA PathPrepends ==
  ASSUME NEW edges_, NEW f, NEW g, NEW h, PathExists(edges_, g, h), <<f, g>> \in edges_
  PROVE  PathExists(edges_, f, h)
  BY DEF PathExists, ClosedUnder

(* In a finite set a minimal member under inclusion.                       *)
LEMMA SmallestSubset ==
  ASSUME NEW S, IsFiniteSet(S)
  PROVE  \A T : T # {} /\ T \subseteq SUBSET S =>
           \E U \in T : \A V \in T : V \subseteq U => V = U
<1> SUFFICES ASSUME NEW T, T \subseteq SUBSET S, T # {}
             PROVE  \E U \in T : \A V \in T : V \subseteq U => V = U
  OBVIOUS
<1> DEFINE R == StrictSubsetOrdering(S)
<1>1. FiniteSubsetsOf(S) = SUBSET S
  BY FS_FiniteSubsetsOfFinite
<1>2. IsWellFoundedOn(R, SUBSET S)
  BY <1>1, FS_StrictSubsetOrderingWellFounded
<1>3. \A U, V \in SUBSET S : <<V, U>> \in R <=> V \subseteq U /\ V # U
  BY DEF StrictSubsetOrdering
<1> HIDE DEF R
<1>4. PICK U \in T : \A V \in T : <<V, U>> \notin R
  BY <1>2, WFMin
<1> QED BY <1>3, <1>4, ZenonT(60)

(* Going from reader to writer for ever ends up on a cycle: the functions  *)
(* of such a set from which one is reached become fewer on the way up, and *)
(* where they do not, it reaches its own writer.                           *)
LEMMA EndlessMeansCycle ==
  ASSUME NEW A \in SUBSET Functions, A # {}, \A g \in A : \E f \in A : g \in Downstream(f)
  PROVE  \E h \in A : OnCycle(h)
<1>0. \A W : W # {} /\ W \subseteq SUBSET A =>
               \E V \in W : \A X \in W : X \subseteq V => X = V
  <2>1. IsFiniteSet(A)
    BY FS_Subset
  <2> QED BY ONLY <2>1, SmallestSubset
<1> DEFINE Above == [g \in A |-> {f \in A : PathExists(FlowEdges, f, g)}]
           T == {Above[g] : g \in A}
<1>1. T # {} /\ T \subseteq SUBSET A
  <2>1. \A g \in A : Above[g] \in SUBSET A
    OBVIOUS
  <2> HIDE DEF Above
  <2> QED BY <2>1
<1>3. PICK U \in T : \A V \in T : V \subseteq U => V = U
  <2> HIDE DEF T
  <2> QED BY ONLY <1>0, <1>1
<1>4. PICK h \in A : U = Above[h]
  OBVIOUS
<1>5. PICK p \in A : h \in Downstream(p)
  OBVIOUS
<1>6. <<p, h>> \in FlowEdges
  BY <1>5 DEF FlowEdges
<1>7. Above[p] \subseteq Above[h]
  BY <1>6, PathExtends
<1>8. Above[p] = Above[h]
  BY <1>3, <1>4, <1>7
<1>9. h \in Above[h]
  BY PathToSelf
<1>10. PathExists(FlowEdges, h, p)
  BY <1>8, <1>9
<1> QED BY <1>5, <1>10 DEF OnCycle

(* What is in the order so far is of the cone and in it once; until the    *)
(* leftovers are added every writer in the cone comes before its readers.  *)
EdgesInv == edges = {e \in FlowEdges : e[1] \in needed}

OnceInv ==
  /\ Placed \subseteq needed
  /\ \A i, j \in 1..Len(order) : order[i] = order[j] => i = j

KahnInv ==
  /\ phase = "walk" => order = <<>>
  /\ phase = "order" =>
       \A i \in 1..Len(order) : \A e \in edges :
         e[2] = order[i] => \E j \in 1..(i - 1) : order[j] = e[1]

OrderInv == EdgesInv /\ OnceInv /\ KahnInv /\ WritersRunFirst


(* In the phases after the walk the cone is closed.                        *)
LEMMA ConeIsClosed ==
  ASSUME Walked, phase \in {"order", "seed", "run", "ended"}
  PROVE  needed \subseteq Functions /\ \A f \in needed : Downstream(f) \subseteq needed
BY DEF Walked, WalkInv, Reached

(* Kahn's algorithm leaves out only functions that a cycle feeds.          *)
LEMMA LeftOutIsFed ==
  ASSUME Walked, EdgesInv, phase = "order", Ready = {}, NEW g \in needed \ Placed
  PROVE  \E h \in needed : OnCycle(h) /\ PathExists(FlowEdges, h, g)
<1> DEFINE A == {h \in needed \ Placed : PathExists(FlowEdges, h, g)}
<1>1. needed \subseteq Functions
  BY ConeIsClosed
<1>2. g \in A
  BY <1>1, PathToSelf
<1>3. ASSUME NEW h \in A PROVE \E f \in A : h \in Downstream(f)
  <2>1. PICK e \in edges : e[2] = h /\ e[1] \notin Placed
    BY <1>3 DEF Ready
  <2>2. e \in FlowEdges /\ e[1] \in needed
    BY <2>1 DEF EdgesInv
  <2>3. e = <<e[1], h>> /\ h \in Downstream(e[1])
    BY <2>1, <2>2 DEF FlowEdges
  <2>4. PathExists(FlowEdges, e[1], g)
    BY <2>2, <2>3, PathPrepends
  <2> QED BY <2>1, <2>2, <2>3, <2>4
<1>4. A \in SUBSET Functions
  BY <1>1
<1>5. \E h \in A : OnCycle(h)
  <2> HIDE DEF A
  <2> QED BY <1>2, <1>3, <1>4, EndlessMeansCycle
<1> QED BY <1>5

LEMMA Joined ==
  ASSUME NEW S, NEW s \in Seq(S), NEW t \in Seq(S), NEW j, j = s \o t
  PROVE  /\ Len(j) = Len(s) + Len(t) /\ Len(s) \in Nat /\ Len(t) \in Nat
         /\ \A i \in 1..Len(s) : j[i] = s[i]
         /\ \A i \in 1..Len(t) : j[Len(s) + i] = t[i]
         /\ DOMAIN j = 1..Len(j) /\ DOMAIN s = 1..Len(s)
OBVIOUS

(* Appending each missing function once makes the order a bijection.       *)
LEMMA CompleteOrder ==
  ASSUME Shape, OnceInv, needed \subseteq Functions, NEW n \in Nat, NEW rest \in [1..n -> needed],
         {rest[i] : i \in DOMAIN rest} = needed \ Placed,
         \A i, j \in DOMAIN rest : i < j => rest[i] < rest[j],
         order' = order \o rest
  PROVE  /\ Placed' = needed
         /\ \A i, j \in 1..Len(order') : order'[i] = order'[j] => i = j
         /\ Len(order') \in Nat /\ Len(order) <= Len(order')
         /\ \A i \in 1..Len(order) : order'[i] = order[i]
         /\ DOMAIN order' = 1..Len(order') /\ DOMAIN order = 1..Len(order)
<1>1. order \in Seq(Functions) /\ rest \in Seq(Functions) /\ Len(rest) = n
  <2>1. rest \in [1..n -> Functions]
    OBVIOUS
  <2> QED BY <2>1 DEF Shape
<1>2. /\ Len(order') = Len(order) + n /\ Len(order) \in Nat
      /\ \A i \in 1..Len(order) : order'[i] = order[i]
      /\ \A i \in 1..n : order'[Len(order) + i] = rest[i]
      /\ DOMAIN order' = 1..Len(order') /\ DOMAIN order = 1..Len(order)
  <2>1. PICK s \in Seq(Functions) : s = order
    BY <1>1
  <2>2. PICK j : j = order' /\ j = s \o rest
    BY <2>1
  <2>3. /\ Len(j) = Len(s) + Len(rest) /\ Len(s) \in Nat /\ Len(rest) \in Nat
        /\ \A i \in 1..Len(s) : j[i] = s[i]
        /\ \A i \in 1..Len(rest) : j[Len(s) + i] = rest[i]
        /\ DOMAIN j = 1..Len(j) /\ DOMAIN s = 1..Len(s)
    BY <1>1, <2>2, Joined
  <2> QED BY <1>1, <2>1, <2>2, <2>3
<1>3. ASSUME NEW k \in 1..Len(order')
      PROVE  \/ k \in 1..Len(order) /\ order'[k] = order[k] /\ order[k] \in Placed
             \/ /\ k - Len(order) \in 1..n /\ order'[k] = rest[k - Len(order)]
                /\ order'[k] \in needed \ Placed
  <2>1. CASE k \in 1..Len(order)
    BY <1>2, <2>1 DEF Placed
  <2>2. CASE k \notin 1..Len(order)
    <3>1. PICK i \in 1..n : k = Len(order) + i
      <4>1. k - Len(order) \in 1..n /\ k = Len(order) + (k - Len(order))
        BY <1>2, <2>2
      <4> QED BY <4>1
    <3>2. order'[k] = rest[i] /\ i = k - Len(order)
      BY <1>2, <3>1
    <3> QED BY <3>1, <3>2
  <2> QED BY <2>1, <2>2
<1>4. Placed' = needed
  <2>1. Placed' \subseteq needed
    BY <1>2, <1>3 DEF Placed, OnceInv
  <2>2. ASSUME NEW f \in Placed PROVE f \in Placed'
    <3>1. PICK i \in 1..Len(order) : order[i] = f
      BY <1>2 DEF Placed
    <3>2. i \in 1..Len(order') /\ order'[i] = f
      BY <1>2, <3>1
    <3> QED BY <1>2, <3>2 DEF Placed
  <2>3. ASSUME NEW f \in needed \ Placed PROVE f \in Placed'
    <3>1. PICK i \in 1..n : rest[i] = f
      OBVIOUS
    <3>2. Len(order) + i \in 1..Len(order') /\ order'[Len(order) + i] = f
      BY <1>2, <3>1
    <3> QED BY <1>2, <3>2 DEF Placed
  <2> QED BY <2>1, <2>2, <2>3
<1>5. ASSUME NEW i \in 1..Len(order'), NEW j \in 1..Len(order'), order'[i] = order'[j]
      PROVE  i = j
  <2>1. CASE i \in 1..Len(order) /\ j \in 1..Len(order)
    BY <1>2, <1>5, <2>1 DEF OnceInv
  <2>2. CASE i \notin 1..Len(order) /\ j \notin 1..Len(order)
    <3>1. PICK k \in 1..n, l \in 1..n : k = i - Len(order) /\ l = j - Len(order) /\ rest[k] = rest[l]
      BY <1>2, <1>3, <1>5, <2>2
    <3>2. rest[k] \in Nat
      BY <3>1
    <3>3. ~(k < l) /\ ~(l < k)
      BY <3>1, <3>2
    <3> QED BY <1>2, <3>1, <3>3
  <2>3. CASE i \in 1..Len(order) /\ j \notin 1..Len(order)
    BY <1>3, <1>5, <2>3
  <2>4. CASE i \notin 1..Len(order) /\ j \in 1..Len(order)
    BY <1>3, <1>5, <2>4
  <2> QED BY <2>1, <2>2, <2>3, <2>4
<1> QED BY <1>2, <1>4, <1>5

(* The cone in order: an output of a function on no cycle and fed by none  *)
(* was placed by Kahn's algorithm, after the function itself.              *)
LEMMA FinishedOrderIsRight ==
  ASSUME Shape, Walked, EdgesInv, OnceInv, KahnInv,
         NEW n \in Nat, NEW rest \in [1..n -> needed], FinishOrdering(rest)
  PROVE  OnceInv' /\ WritersRunFirst'
<1>1. /\ phase = "order" /\ Ready = {} /\ order' = order \o rest
      /\ UNCHANGED <<projectVars, needed, edges>>
      /\ {rest[i] : i \in DOMAIN rest} = needed \ Placed
      /\ \A i, j \in DOMAIN rest : i < j => rest[i] < rest[j]
  BY DEF FinishOrdering
<1>2. needed \subseteq Functions
  BY <1>1, ConeIsClosed
<1>3. /\ Placed' = needed
      /\ \A i, j \in 1..Len(order') : order'[i] = order'[j] => i = j
      /\ Len(order') \in Nat /\ Len(order) <= Len(order')
      /\ \A i \in 1..Len(order) : order'[i] = order[i]
      /\ DOMAIN order' = 1..Len(order') /\ DOMAIN order = 1..Len(order)
  BY <1>1, <1>2, CompleteOrder
<1>4. OnceInv'
  BY <1>1, <1>3 DEF OnceInv
<1>5. Len(order') = Cardinality(needed)
  <2>0. PICK m \in Nat : m = Len(order')
    BY <1>3
  <2>1. PICK o \in [1..m -> needed] : o = order'
    <3>1. order' \in [1..Len(order') -> needed]
      <4>1. rest \in Seq(Functions) /\ order \in Seq(Functions)
        <5>1. rest \in [1..n -> Functions]
          BY <1>2
        <5> QED BY <5>1 DEF Shape
      <4>2. PICK w \in Seq(Functions) : w = order'
        <5>1. PICK s \in Seq(Functions) : s = order
          BY <4>1
        <5>2. s \o rest \in Seq(Functions)
          BY <4>1
        <5> QED BY <1>1, <5>1, <5>2
      <4>3. w \in [1..Len(w) -> Functions]
        OBVIOUS
      <4> QED BY <1>3, <4>2, <4>3 DEF Placed
    <3> QED BY <2>0, <3>1
  <2>2. o \in Bijection(1..m, needed)
    <3>1. \A f \in needed : \E i \in 1..m : o[i] = f
      BY <1>3, <2>0, <2>1 DEF Placed
    <3>2. \A i, j \in 1..m : o[i] = o[j] => i = j
      BY <1>3, <2>0, <2>1
    <3> QED BY <3>1, <3>2 DEF Bijection, Injection, Surjection, IsInjective
  <2>3. IsFiniteSet(1..m) /\ Cardinality(1..m) = m
    BY FS_Interval
  <2>4. Cardinality(needed) = Cardinality(1..m)
    BY <2>2, <2>3, FS_Bijection DEF ExistsBijection
  <2> QED BY <2>0, <2>3, <2>4, SMTT(30)
<1>6. ASSUME NEW f \in needed, NEW g \in needed, g \in Downstream(f),
             \A h \in needed : OnCycle(h) => ~PathExists(FlowEdges, h, g)
      PROVE  \E i, j \in 1..Len(order') : i < j /\ order'[i] = f /\ order'[j] = g
  <2>1. g \in Placed
    BY <1>1, <1>6, LeftOutIsFed
  <2>2. PICK j \in 1..Len(order) : order[j] = g
    BY <1>3, <2>1 DEF Placed
  <2>3. <<f, g>> \in edges
    BY <1>2, <1>6 DEF EdgesInv, FlowEdges
  <2>4. PICK i \in 1..(j - 1) : order[i] = f
    BY <1>1, <2>2, <2>3 DEF KahnInv
  <2>5. Len(order) \in Nat
    BY DEF Shape
  <2>6. i \in 1..Len(order) /\ j \in 1..Len(order) /\ i < j /\ 1..Len(order) \subseteq 1..Len(order')
    BY <1>3, <2>4, <2>5
  <2> QED BY <1>3, <2>2, <2>4, <2>6
<1>7. /\ FlowEdges' = FlowEdges
      /\ \A h : Downstream(h)' = Downstream(h)
      /\ \A h : OnCycle(h)' = OnCycle(h)
  <2>1. \A h : Downstream(h)' = Downstream(h)
    BY <1>1 DEF Downstream, ReadersOf, projectVars
  <2> QED BY <2>1 DEF FlowEdges, OnCycle, PathExists, ClosedUnder
<1>8. ASSUME NEW f \in needed, NEW g \in needed, g \in Downstream(f),
             \A h \in needed : OnCycle(h) => ~PathExists(FlowEdges, h, g)
      PROVE  PositionOf(f)' < PositionOf(g)'
  <2>1. PICK i \in 1..Len(order'), j \in 1..Len(order') : i < j /\ order'[i] = f /\ order'[j] = g
    BY <1>6, <1>8
  <2>2. PositionOf(f)' = i /\ PositionOf(g)' = j
    BY <1>3, <2>1 DEF PositionOf
  <2> QED BY <2>1, <2>2
<1> QED
  <2>1. needed' = needed
    BY <1>1
  <2> QED BY <1>3, <1>4, <1>5, <1>7, <1>8, <2>1 DEF WritersRunFirst, PathExists, ClosedUnder

(* Downstream, cycles and paths are those of the project.                  *)
LEMMA SameFlow ==
  ASSUME UNCHANGED <<reads, writes, overridden>>
  PROVE  /\ FlowEdges' = FlowEdges
         /\ \A h : Downstream(h)' = Downstream(h)
         /\ \A h : OnCycle(h)' = OnCycle(h)
<1>1. \A h : Downstream(h)' = Downstream(h)
  BY DEF Downstream, ReadersOf
<1> QED BY <1>1 DEF FlowEdges, OnCycle, PathExists, ClosedUnder

(* A step that leaves cone and order alone.                                *)
LEMMA OthersKeepOrder ==
  ASSUME OrderInv, UNCHANGED <<reads, writes, overridden, needed, edges, order>>,
         \/ phase' = phase
         \/ phase' = "failed"
         \/ phase = "walk" /\ phase' = "order"
         \/ phase \in {"seed", "run", "ended"} /\ phase' \in {"seed", "run", "ended"},
         Shape
  PROVE  OrderInv'
<1>1. FlowEdges' = FlowEdges /\ (\A h : Downstream(h)' = Downstream(h))
      /\ \A h : OnCycle(h)' = OnCycle(h)
  BY SameFlow
<1>2. EdgesInv' /\ OnceInv'
  BY <1>1 DEF OrderInv, EdgesInv, OnceInv, Placed
<1>3. KahnInv'
  BY DEF OrderInv, KahnInv
<1>4. \A f : PositionOf(f)' = PositionOf(f)
  BY DEF PositionOf
<1>5. WritersRunFirst'
  BY <1>1, <1>4 DEF OrderInv, WritersRunFirst, Placed, PathExists, ClosedUnder
<1> QED BY <1>2, <1>3, <1>5 DEF OrderInv

LEMMA PopScriptKeepsOrder ==
  ASSUME OrderInv, Walked, NEW f \in Functions, PopScript(f)
  PROVE  OrderInv'
<1>1. /\ phase = "walk" /\ phase' = "walk" /\ f \in pending /\ order' = order
      /\ UNCHANGED <<reads, writes, overridden>>
      /\ needed' = needed \cup {f}
  BY DEF PopScript, projectVars
<1>2. FlowEdges' = FlowEdges
  BY <1>1, SameFlow
<1>3. EdgesInv'
  <2>1. CASE f \in needed
    BY <1>1, <1>2, <2>1 DEF PopScript, OrderInv, EdgesInv
  <2>2. CASE f \notin needed
    <3>1. edges' = edges \cup ({f} \X Downstream(f))
      BY <2>2 DEF PopScript
    <3>2. {e \in FlowEdges : e[1] = f} = {f} \X Downstream(f)
      BY DEF FlowEdges, Downstream, ReadersOf
    <3> QED BY <1>1, <1>2, <3>1, <3>2 DEF OrderInv, EdgesInv
  <2> QED BY <2>1, <2>2
<1>4. OnceInv'
  BY <1>1 DEF OrderInv, OnceInv, Placed
<1>5. KahnInv' /\ WritersRunFirst'
  BY <1>1 DEF OrderInv, KahnInv, WritersRunFirst
<1> QED BY <1>3, <1>4, <1>5 DEF OrderInv

(* The next function comes after all of its writers in the cone.           *)
LEMMA PlaceNextKeepsOrder ==
  ASSUME OrderInv, Shape, NEW f \in Functions, PlaceNext(f)
  PROVE  OrderInv'
<1>1. /\ phase = "order" /\ phase' = "order" /\ f \in needed \ Placed
      /\ \A e \in edges : e[2] = f => e[1] \in Placed
      /\ order' = Append(order, f)
      /\ UNCHANGED <<reads, writes, overridden, needed, edges>>
  BY DEF PlaceNext, Ready, projectVars
<1>2. /\ Len(order) \in Nat /\ Len(order') = Len(order) + 1
      /\ \A i \in 1..Len(order) : order'[i] = order[i]
      /\ order'[Len(order) + 1] = f
      /\ DOMAIN order = 1..Len(order) /\ DOMAIN order' = 1..Len(order')
  BY <1>1 DEF Shape
<1>3. EdgesInv'
  BY <1>1, SameFlow DEF OrderInv, EdgesInv
<1>4. \A i \in 1..Len(order) : order[i] \in Placed
  BY <1>2 DEF Placed
<1>5. ASSUME NEW k \in 1..Len(order')
      PROVE  \/ k \in 1..Len(order) /\ order'[k] = order[k]
             \/ k = Len(order) + 1 /\ order'[k] = f
  BY <1>2
<1>6. Placed' \subseteq needed
  BY <1>1, <1>2, <1>4, <1>5 DEF OrderInv, OnceInv, Placed
<1>7. \A i, j \in 1..Len(order') : order'[i] = order'[j] => i = j
  BY <1>1, <1>4, <1>5 DEF OrderInv, OnceInv
<1>8. ASSUME NEW i \in 1..Len(order'), NEW e \in edges, e[2] = order'[i]
      PROVE  \E j \in 1..(i - 1) : order'[j] = e[1]
  <2>1. CASE i \in 1..Len(order)
    <3>1. PICK j \in 1..(i - 1) : order[j] = e[1]
      BY <1>1, <1>2, <1>8, <2>1 DEF OrderInv, KahnInv
    <3>2. j \in 1..Len(order)
      BY <1>2, <2>1
    <3> QED BY <1>2, <3>1, <3>2
  <2>2. CASE i = Len(order) + 1
    <3>1. PICK j \in 1..Len(order) : order[j] = e[1]
      BY <1>1, <1>2, <1>8, <2>2 DEF Placed
    <3> QED BY <1>2, <2>2, <3>1
  <2> QED BY <1>5, <2>1, <2>2
<1>9. KahnInv'
  BY <1>1, <1>8 DEF KahnInv
<1>10. WritersRunFirst'
  BY <1>1 DEF WritersRunFirst
<1> QED BY <1>1, <1>3, <1>6, <1>7, <1>9, <1>10 DEF OrderInv, OnceInv

LEMMA OrderKept ==
  ASSUME IInv, OrderInv, [Next]_vars
  PROVE  OrderInv'
<1>0. Shape /\ Walked
  BY DEF IInv
<1>1. ASSUME NEW f \in Functions, PopScript(f) PROVE OrderInv'
  BY <1>0, <1>1, PopScriptKeepsOrder
<1>2. ASSUME NEW f \in Functions, PlaceNext(f) PROVE OrderInv'
  BY <1>0, <1>2, PlaceNextKeepsOrder
<1>3. CASE \E rest \in UNION {[1..n -> needed] : n \in 0..Cardinality(needed)} :
             FinishOrdering(rest)
  <2>1. PICK n \in Nat : \E rest \in [1..n -> needed] : FinishOrdering(rest)
    BY <1>3
  <2>2. PICK rest \in [1..n -> needed] : FinishOrdering(rest)
    BY <2>1
  <2>3. OnceInv' /\ WritersRunFirst'
    BY <1>0, <2>2, FinishedOrderIsRight DEF OrderInv
  <2>4. EdgesInv'
    BY <2>2, SameFlow DEF FinishOrdering, OrderInv, EdgesInv, projectVars
  <2>5. KahnInv'
    BY <2>2 DEF FinishOrdering, KahnInv
  <2> QED BY <2>3, <2>4, <2>5 DEF OrderInv
<1>4. CASE StartOrdering \/ OpenTick \/ ScriptFails \/ CloseTick \/ EndReplay \/ UNCHANGED vars
  BY <1>0, <1>4, OthersKeepOrder
     DEF StartOrdering, OpenTick, ScriptFails, CloseTick, EndReplay, vars, projectVars, coneVars
<1>5. ASSUME NEW p \in 1..Len(order), NEW w \in SUBSET writes[order[p]], RunDue(p, w)
      PROVE  OrderInv'
  BY <1>0, <1>5, OthersKeepOrder DEF RunDue, projectVars, coneVars
<1> QED BY <1>1, <1>2, <1>3, <1>4, <1>5 DEF Next

LEMMA OrderAtStart == Init => OrderInv
<1> SUFFICES ASSUME Init PROVE OrderInv
  OBVIOUS
<1>1. needed = {} /\ edges = {} /\ order = <<>> /\ phase \in {"seed", "failed", "walk"}
  BY DEF Init
<1>2. Len(order) = Cardinality(needed) /\ Placed = needed
  BY <1>1, FS_EmptySet DEF Placed
<1> QED BY <1>1, <1>2 DEF OrderInv, EdgesInv, OnceInv, KahnInv, WritersRunFirst

(* However the cone is tangled, topo_order puts a function after every     *)
(* writer of what it reads unless a cycle of the cone feeds it, and every  *)
(* cone function has one place.                                            *)
THEOREM WritersAlwaysRunFirst == Spec => []WritersRunFirst
<1>1. Init => OrderInv
  BY OrderAtStart
<1>2. IInv /\ OrderInv /\ [Next]_vars => OrderInv'
  BY OrderKept
<1>3. OrderInv => WritersRunFirst
  BY DEF OrderInv
<1> QED BY <1>1, <1>2, <1>3, Invariance, PTL DEF Spec

-----------------------------------------------------------------------------
(* The trace of the replay.                                                *)

Driven == logged \cup overridden

ReplayTypes ==
  /\ pending \subseteq Functions /\ needed \subseteq Functions
  /\ position \in 1..(Cardinality(Functions) + 1)
  /\ tick \in 0..Ticks /\ (phase = "run" => tick < Ticks)
  /\ env \in [Channels -> Values]
  /\ execution.seen \in [DOMAIN execution.seen -> Values]

(* Of one channel: its samples are flagged by where they came from, one    *)
(* that nothing drives has none from outside, a tick is only recorded      *)
(* while it runs, and until then a driven channel holds what drives it.    *)
SamplesOf(c) ==
  /\ columns[c] \in Seq(Values)
  /\ SampleTicks(c) \subseteq 0..tick
  /\ \A i \in SampleTicks(c) :
       /\ samples[c][i].value \in Values /\ samples[c][i].external \in BOOLEAN
       /\ ExternalTruthfully(samples[c][i].external, samples[c][i].value)
       /\ c \notin Driven => ~samples[c][i].external
  /\ RecordedNow(c) => phase \in {"run", "failed"}
  /\ phase = "run" /\ c \in Driven /\ ~RecordedNow(c) => env[c].kind \in {"log", "override"}

TraceInv ==
  /\ Driven \subseteq Channels
  /\ external \subseteq Driven
  /\ \A c \in Channels : SamplesOf(c)

LEMMA ValuesMade ==
  ASSUME NEW t \in {Before} \cup 0..Ticks, NEW f \in Nat
  PROVE  /\ Unset \in Values /\ Override(t) \in Values /\ Logged(t) \in Values
         /\ Computed(f, t) \in Values
  BY DEF Values, ValueKinds, Unset, Override, Logged, Computed, Before

LEMMA ColumnRewritten ==
  ASSUME NEW V, NEW s \in Seq(V), NEW v \in V, NEW i
  PROVE  [s EXCEPT ![i] = v] \in Seq(V)
<1>1. Len(s) \in Nat /\ s \in [1..Len(s) -> V]
  OBVIOUS
<1>2. [s EXCEPT ![i] = v] \in [1..Len(s) -> V]
  BY <1>1
<1> QED BY <1>1, <1>2

(* What Record does to one channel.                                        *)
LEMMA RecordSkips ==
  ASSUME NEW added, Record(added), NEW c \in Channels, c \notin DOMAIN added
  PROVE  samples'[c] = samples[c] /\ columns'[c] = columns[c]
  BY DEF Record

LEMMA RecordAdds ==
  ASSUME NEW added, Record(added), NEW c \in Channels, c \in DOMAIN added,
         columns[c] \in Seq(Values), added[c].value \in Values
  PROVE  /\ DOMAIN samples'[c] = DOMAIN samples[c] \cup {tick}
         /\ samples'[c][tick] = added[c]
         /\ \A i \in DOMAIN samples[c] : i # tick => samples'[c][i] = samples[c][i]
         /\ columns'[c] \in Seq(Values)
<1>1. /\ DOMAIN samples'[c] = DOMAIN samples[c] \cup {tick}
      /\ samples'[c][tick] = added[c]
      /\ \A i \in DOMAIN samples[c] : i # tick => samples'[c][i] = samples[c][i]
  BY DEF Record, SampleTicks
<1>2. CASE RecordedNow(c)
  <2>1. columns'[c] = [columns[c] EXCEPT ![Len(columns[c])] = added[c].value]
    BY <1>2 DEF Record, SampleTicks
  <2> QED BY <1>1, <2>1, ColumnRewritten
<1>3. CASE ~RecordedNow(c)
  <2>1. columns'[c] = Append(columns[c], added[c].value)
    BY <1>3 DEF Record, SampleTicks
  <2> QED BY <1>1, <2>1
<1> QED BY <1>2, <1>3

(* A non-empty set of naturals below a bound has a greatest element.       *)
LEMMA GreatestBelow ==
  ASSUME NEW n \in Nat, NEW S \in SUBSET (0..n), S # {}
  PROVE  \E i \in S : \A j \in S : j <= i
<1> DEFINE D == {d \in Nat : n - d \in S}
           R == OpToRel(<, Nat)
<1>1. IsWellFoundedOn(R, Nat)
  BY NatLessThanWellFounded
<1>2. D # {}
  <2>1. PICK i \in S : TRUE
    OBVIOUS
  <2>2. i \in 0..n /\ n - i \in Nat /\ n - (n - i) = i
    OBVIOUS
  <2> QED BY <2>1, <2>2
<1>3. \A i, j \in Nat : <<i, j>> \in R <=> i < j
  BY DEF OpToRel
<1> HIDE DEF R
<1>4. PICK d \in D : \A e \in D : ~(<<e, d>> \in R)
  BY <1>1, <1>2, WFMin
<1>5. d \in Nat /\ n - d \in S
  OBVIOUS
<1>6. ASSUME NEW j \in S PROVE j <= n - d
  <2>1. j \in 0..n /\ n - j \in Nat /\ n - (n - j) = j
    OBVIOUS
  <2>2. n - j \in D
    BY <2>1
  <2>3. ~(n - j < d)
    BY <1>3, <1>4, <1>5, <2>1, <2>2
  <2> QED BY <1>5, <2>1, <2>3
<1> QED BY <1>5, <1>6

(* Without a source outside, a held value inherits no external flag.       *)
LEMMA HeldFlagIsLowered ==
  ASSUME NEW c \in Channels, SamplesOf(c), tick \in Nat, c \notin Driven,
         NEW flagged, c \notin flagged
  PROVE  HeldFlag(c, flagged) = FALSE
<1> DEFINE earlier == SampleTicks(c) \cap 0..(tick - 1)
           latest  == CHOOSE i \in earlier : \A j \in earlier : j <= i
<1>1. CASE earlier = {}
  <2>1. HeldFlag(c, flagged) = (c \in flagged)
    BY <1>1 DEF HeldFlag
  <2>2. (c \in flagged) = FALSE
    OBVIOUS
  <2> QED BY <2>1, <2>2, Zenon
<1>2. CASE earlier # {}
  <2>1. \E i \in earlier : \A j \in earlier : j <= i
    <3>1. earlier \in SUBSET (0..tick)
      OBVIOUS
    <3> HIDE DEF earlier
    <3> QED BY <1>2, <3>1, GreatestBelow
  <2>2. latest \in earlier
    <3> HIDE DEF earlier
    <3> QED BY <2>1
  <2>3. HeldFlag(c, flagged) = samples[c][latest].external
    BY <1>2 DEF HeldFlag
  <2>4. latest \in SampleTicks(c)
    BY <2>2
  <2> HIDE DEF latest
  <2> QED BY <2>3, <2>4 DEF SamplesOf
<1> QED BY <1>1, <1>2

(* A channel whose samples stay, while its store keeps what drives it.     *)
LEMMA SamplesStay ==
  ASSUME NEW c \in Channels, SamplesOf(c),
         samples'[c] = samples[c], columns'[c] = columns[c],
         UNCHANGED <<tick, logged, overridden>>,
         RecordedNow(c) => phase' \in {"run", "failed"},
         phase' = "run" => phase = "run" /\ env'[c] = env[c]
  PROVE  SamplesOf(c)'
BY DEF SamplesOf, SampleTicks, RecordedNow, Driven

(* A channel that is recorded on the open tick, by a value flagged truly.  *)
LEMMA SamplesGrow ==
  ASSUME NEW c \in Channels, SamplesOf(c), tick \in Nat, tick' \in {tick, tick + 1},
         NEW added, Record(added), c \in DOMAIN added,
         added[c].value \in Values, added[c].external \in BOOLEAN,
         ExternalTruthfully(added[c].external, added[c].value),
         c \notin Driven => ~added[c].external,
         UNCHANGED <<logged, overridden>>,
         phase' = IF tick' = tick THEN "run" ELSE "seed"
  PROVE  SamplesOf(c)'
<1>1. /\ SampleTicks(c)' = SampleTicks(c) \cup {tick}
      /\ samples'[c][tick] = added[c]
      /\ \A i \in SampleTicks(c) : i # tick => samples'[c][i] = samples[c][i]
      /\ columns'[c] \in Seq(Values)
  BY RecordAdds DEF SamplesOf, SampleTicks
<1>2. SampleTicks(c)' \subseteq 0..tick
  BY <1>1 DEF SamplesOf
<1>3. Driven' = Driven
  BY DEF Driven
<1>4. ASSUME NEW i \in SampleTicks(c)'
      PROVE  /\ samples'[c][i].value \in Values /\ samples'[c][i].external \in BOOLEAN
             /\ ExternalTruthfully(samples'[c][i].external, samples'[c][i].value)
             /\ c \notin Driven => ~samples'[c][i].external
  <2>1. CASE i = tick
    BY <1>1, <2>1
  <2>2. CASE i # tick
    BY <1>1, <2>2 DEF SamplesOf
  <2> QED BY <2>1, <2>2
<1>5. RecordedNow(c)' <=> tick' = tick
  BY <1>1, <1>2 DEF RecordedNow
<1>6. SampleTicks(c)' \subseteq 0..tick'
  BY <1>2
<1>7. (RecordedNow(c) => phase \in {"run", "failed"})'
  BY <1>5
<1>8. (phase = "run" /\ c \in Driven /\ ~RecordedNow(c) => env[c].kind \in {"log", "override"})'
  BY <1>5
<1> QED BY <1>1, <1>3, <1>4, <1>6, <1>7, <1>8 DEF SamplesOf
LEMMA OpenTickKeepsTrace ==
  ASSUME Shape, ReplayTypes, TraceInv, OpenTick
  PROVE  TraceInv' /\ env' \in [Channels -> Values]
<1>1. /\ phase = "seed" /\ phase' = "run" /\ tick < Ticks /\ tick' = tick
      /\ env' = [c \in Channels |-> Seeded(c)]
      /\ UNCHANGED <<logged, overridden, samples, columns, external>>
  BY DEF OpenTick, projectVars, traceVars
<1>2. Override(tick) \in Values /\ Logged(tick) \in Values
  BY ValuesMade DEF ReplayTypes
<1>3. ASSUME NEW c \in Channels
      PROVE  /\ env'[c] \in Values
             /\ c \in Driven => env'[c].kind \in {"log", "override"}
  <2>1. CASE c \in overridden
    BY <1>1, <1>2, <2>1 DEF Seeded, Override
  <2>2. CASE c \in logged \ overridden
    BY <1>1, <1>2, <2>2 DEF Seeded, Logged
  <2>3. CASE c \notin Driven
    BY <1>1, <2>3 DEF Seeded, Driven, ReplayTypes
  <2> QED BY <2>1, <2>2, <2>3 DEF Driven
<1>4. ASSUME NEW c \in Channels PROVE SamplesOf(c)'
  <2>1. SamplesOf(c)
    BY DEF TraceInv
  <2>2. ~RecordedNow(c) /\ SampleTicks(c)' = SampleTicks(c) /\ Driven' = Driven
    BY <1>1, <2>1 DEF SamplesOf, SampleTicks, Driven
  <2> QED BY <1>1, <1>3, <2>1, <2>2 DEF SamplesOf, RecordedNow
<1>5. env' \in [Channels -> Values]
  BY <1>1, <1>3
<1> QED BY <1>1, <1>4, <1>5 DEF TraceInv, Driven

LEMMA RunDueKeepsTrace ==
  ASSUME Shape, ReplayTypes, TraceInv,
         NEW p \in 1..Len(order), NEW w \in SUBSET writes[order[p]], RunDue(p, w)
  PROVE  TraceInv' /\ env' \in [Channels -> Values]
<1> DEFINE f == order[p]
           added == ScriptSamples(f, w)
<1>1. /\ phase = "run" /\ phase' = "run" /\ tick' = tick
      /\ env' = [c \in Channels |-> IF c \in w THEN Computed(f, tick) ELSE env[c]]
      /\ Record(added)
      /\ UNCHANGED <<logged, overridden, external>>
  BY DEF RunDue, projectVars
<1>2. tick \in Nat /\ Computed(f, tick) \in Values
  <2>1. f \in Functions
    BY DEF Shape
  <2>2. f \in Nat /\ tick \in {Before} \cup 0..Ticks
    BY <2>1 DEF ReplayTypes
  <2> HIDE DEF f
  <2> QED BY <2>2, ValuesMade DEF ReplayTypes
<1>3. /\ DOMAIN added = w
      /\ \A c \in w : added[c].value = Computed(f, tick) /\ added[c].external = FALSE
  BY DEF ScriptSamples
<1>4. ~FromOutside(Computed(f, tick))
  BY DEF FromOutside, Computed
<1> HIDE DEF added
<1>5. ASSUME NEW c \in Channels PROVE SamplesOf(c)'
  <2>1. SamplesOf(c)
    BY DEF TraceInv
  <2>2. CASE c \in w
    <3>1. /\ added[c].value \in Values /\ added[c].external \in BOOLEAN
          /\ ExternalTruthfully(added[c].external, added[c].value)
          /\ ~added[c].external
      BY <1>2, <1>3, <1>4, <2>2 DEF ExternalTruthfully
    <3> QED BY <1>1, <1>2, <1>3, <2>1, <2>2, <3>1, SamplesGrow
  <2>3. CASE c \notin w
    <3>1. samples'[c] = samples[c] /\ columns'[c] = columns[c]
      BY <1>1, <1>3, <2>3, RecordSkips
    <3>2. env'[c] = env[c]
      BY <1>1, <2>3
    <3> QED BY <1>1, <2>1, <3>1, <3>2, SamplesStay
  <2> QED BY <2>2, <2>3
<1>6. env' \in [Channels -> Values]
  BY <1>1, <1>2 DEF ReplayTypes
<1> QED BY <1>1, <1>5, <1>6 DEF TraceInv, Driven

LEMMA CloseTickKeepsTrace ==
  ASSUME Shape, StoreInv, ReplayTypes, TraceInv, CloseTick
  PROVE  TraceInv'
<1> DEFINE open   == {c \in Channels : ~RecordedNow(c)}
           driven == open \cap (logged \cup overridden)
           held   == {c \in open \ driven :
                        /\ c \in ConeOutputs \/ columns[c] # <<>>
                        /\ env[c] # Unset}
           added  == [c \in driven \cup held |->
                        [value |-> env[c],
                         external |-> c \in driven \/ HeldFlag(c, external \cup driven)]]
<1>1. /\ phase = "run" /\ phase' = "seed" /\ tick' = tick + 1
      /\ external' = external \cup driven
      /\ Record(added)
      /\ UNCHANGED <<logged, overridden, env>>
  BY DEF CloseTick, projectVars
<1>2. tick \in Nat
  BY DEF Shape
<1>3. /\ driven \subseteq Channels /\ held \subseteq Channels
      /\ \A c \in driven \cup held : ~RecordedNow(c)
      /\ driven \subseteq Driven /\ \A c \in held : c \notin Driven
  BY DEF Driven
<1>4. /\ DOMAIN added = driven \cup held
      /\ \A c \in driven \cup held :
           /\ added[c].value = env[c]
           /\ added[c].external = (c \in driven \/ HeldFlag(c, external \cup driven))
  OBVIOUS
<1>5. Driven' = Driven
  BY <1>1 DEF Driven
<1> HIDE DEF added, driven, held
<1>6. ASSUME NEW c \in driven
      PROVE  added[c].external = TRUE /\ FromOutside(env[c])
  <2>1. added[c].external = TRUE
    BY <1>4, Zenon
  <2>2. SamplesOf(c) /\ ~RecordedNow(c) /\ c \in Driven
    BY <1>3 DEF TraceInv
  <2>3. env[c].kind \in {"log", "override"}
    BY <1>1, <2>2 DEF SamplesOf
  <2> QED BY <2>1, <2>3 DEF FromOutside
<1>7. ASSUME NEW c \in held
      PROVE  added[c].external = FALSE /\ ~FromOutside(env[c])
  <2>1. SamplesOf(c) /\ c \notin Driven /\ c \in Channels
    BY <1>3 DEF TraceInv
  <2>2. c \notin driven /\ c \notin external \cup driven
    BY <1>3, <2>1 DEF TraceInv
  <2>3. HeldFlag(c, external \cup driven) = FALSE
    BY <1>2, <2>1, <2>2, HeldFlagIsLowered
  <2>4. added[c].external = FALSE
    BY <1>4, <2>2, <2>3, Zenon
  <2>5. env[c].kind \in {"unset", "computed"}
    BY <2>1 DEF StoreInv, Driven
  <2> QED BY <2>4, <2>5 DEF FromOutside
<1>8. ASSUME NEW c \in Channels PROVE SamplesOf(c)'
  <2>1. SamplesOf(c)
    BY DEF TraceInv
  <2>2. CASE c \in driven \cup held
    <3>1. /\ added[c].external \in BOOLEAN
          /\ ExternalTruthfully(added[c].external, added[c].value)
          /\ c \notin Driven => ~added[c].external
      BY <1>3, <1>4, <1>6, <1>7, <2>2 DEF ExternalTruthfully
    <3>2. added[c].value \in Values
      BY <1>4, <2>2 DEF ReplayTypes
    <3>3. phase' = IF tick' = tick THEN "run" ELSE "seed"
      BY <1>1, <1>2
    <3> QED BY <1>1, <1>2, <1>4, <2>1, <2>2, <3>1, <3>2, <3>3, SamplesGrow
  <2>3. CASE c \notin driven \cup held
    <3>1. samples'[c] = samples[c] /\ columns'[c] = columns[c]
      BY <1>1, <1>4, <2>3, RecordSkips
    <3>2. SampleTicks(c)' = SampleTicks(c) /\ SampleTicks(c) \subseteq 0..tick
      BY <2>1, <3>1 DEF SampleTicks, SamplesOf
    <3>3. ~RecordedNow(c)' /\ SampleTicks(c)' \subseteq 0..tick'
      BY <1>1, <1>2, <3>2 DEF RecordedNow
    <3> QED BY <1>1, <1>5, <2>1, <3>1, <3>2, <3>3 DEF SamplesOf
  <2> QED BY <2>2, <2>3
<1>9. external' \subseteq Driven
  BY <1>1, <1>3 DEF TraceInv
<1> QED BY <1>5, <1>8, <1>9 DEF TraceInv

LEMMA ScriptFailsKeepsTrace ==
  ASSUME ReplayTypes, TraceInv, ScriptFails
  PROVE  TraceInv'
<1>1. /\ phase' = "failed" /\ tick' = tick
      /\ samples' = [c \in Channels |-> <<>>]
      /\ columns' = [c \in Channels |-> <<>>]
      /\ external' = {}
      /\ UNCHANGED <<logged, overridden>>
  BY DEF ScriptFails, projectVars
<1>2. ASSUME NEW c \in Channels PROVE SamplesOf(c)'
  <2>1. samples'[c] = <<>> /\ columns'[c] = <<>>
    BY <1>1
  <2>2. SampleTicks(c)' = {} /\ columns'[c] \in Seq(Values)
    BY <2>1 DEF SampleTicks
  <2> QED BY <1>1, <2>2 DEF SamplesOf, RecordedNow
<1> QED BY <1>1, <1>2 DEF TraceInv, Driven

LEMMA OthersKeepTrace ==
  ASSUME TraceInv,
         UNCHANGED <<logged, overridden, env, samples, columns, external, tick>>,
         \/ phase' = phase
         \/ phase \notin {"run", "failed"} /\ phase' # "run"
  PROVE  TraceInv'
<1>1. ASSUME NEW c \in Channels PROVE SamplesOf(c)'
  <2>1. SamplesOf(c)
    BY DEF TraceInv
  <2>2. Driven' = Driven /\ SampleTicks(c)' = SampleTicks(c) /\ RecordedNow(c)' = RecordedNow(c)
    BY DEF Driven, SampleTicks, RecordedNow
  <2> QED BY <2>1, <2>2 DEF SamplesOf
<1> QED BY <1>1 DEF TraceInv, Driven

LEMMA TypesKept ==
  ASSUME IInv, OrderInv, ReplayTypes, TraceInv, [Next]_vars
  PROVE  ReplayTypes' /\ TraceInv'
<1>0. Shape /\ StoreInv
  BY DEF IInv
<1>1. ASSUME NEW f \in Functions, PopScript(f) PROVE ReplayTypes' /\ TraceInv'
  <2>1. TraceInv'
    BY <1>1, OthersKeepTrace DEF PopScript, projectVars, traceVars
  <2>2. Downstream(f) \subseteq Functions
    BY DEF Downstream, ReadersOf
  <2>3. pending' \subseteq Functions /\ needed' \subseteq Functions
    BY <1>1, <2>2 DEF PopScript, ReplayTypes
  <2> QED BY <1>1, <2>1, <2>3 DEF PopScript, ReplayTypes
<1>2. CASE \/ \E f \in Functions : PlaceNext(f)
           \/ StartOrdering
           \/ \E rest \in UNION {[1..n -> needed] : n \in 0..Cardinality(needed)} :
                FinishOrdering(rest)
           \/ EndReplay
           \/ UNCHANGED vars
  <2>1. /\ UNCHANGED <<logged, overridden, pending, needed, env, position, execution>>
        /\ UNCHANGED <<samples, columns, external, tick>>
        /\ phase' = phase \/ (phase \notin {"run", "failed"} /\ phase' # "run")
    BY <1>2 DEF PlaceNext, StartOrdering, FinishOrdering, EndReplay, vars, projectVars,
                coneVars, traceVars
  <2>2. TraceInv'
    BY <2>1, OthersKeepTrace
  <2>3. phase' = "run" => phase = "run"
    BY <2>1
  <2> QED BY <2>1, <2>2, <2>3 DEF ReplayTypes
<1>3. CASE OpenTick
  <2>1. TraceInv' /\ env' \in [Channels -> Values]
    BY <1>0, <1>3, OpenTickKeepsTrace
  <2>2. 1 \in 1..(Cardinality(Functions) + 1)
    BY FS_CardinalityType
  <2> QED BY <1>3, <2>1, <2>2 DEF OpenTick, coneVars, ReplayTypes
<1>4. ASSUME NEW p \in 1..Len(order), NEW w \in SUBSET writes[order[p]], RunDue(p, w)
      PROVE  ReplayTypes' /\ TraceInv'
  <2>1. TraceInv' /\ env' \in [Channels -> Values]
    BY <1>0, <1>4, RunDueKeepsTrace
  <2>2. /\ phase = "run" /\ position' = p + 1 /\ p >= position
        /\ execution'.seen = [c \in reads[order[p]] |-> env[c]]
        /\ UNCHANGED <<pending, needed, phase, tick>>
    BY <1>4 DEF RunDue, coneVars
  <2>3. reads[order[p]] \subseteq Channels
    <3>1. order[p] \in Functions
      BY <1>0 DEF Shape
    <3> QED BY <1>0, <3>1 DEF Shape
  <2>4. execution'.seen \in [DOMAIN execution'.seen -> Values]
    BY <2>2, <2>3 DEF ReplayTypes
  <2>5. position' \in 1..(Cardinality(Functions) + 1)
    <3>1. Len(order) = Cardinality(needed)
      BY <2>2 DEF OrderInv, WritersRunFirst
    <3>2. Cardinality(needed) \in Nat /\ Cardinality(needed) <= Cardinality(Functions)
      BY FS_Subset, FS_CardinalityType DEF ReplayTypes
    <3>3. Cardinality(Functions) \in Nat
      BY FS_CardinalityType
    <3> QED BY <2>2, <3>1, <3>2, <3>3
  <2> QED BY <2>1, <2>2, <2>4, <2>5 DEF ReplayTypes
<1>5. CASE ScriptFails
  <2>1. TraceInv'
    BY <1>5, ScriptFailsKeepsTrace
  <2>2. /\ env' = [c \in Channels |-> Unset] /\ execution' = NoExecution /\ phase' = "failed"
        /\ UNCHANGED <<pending, needed, position, tick>>
    BY <1>5 DEF ScriptFails, coneVars
  <2>3. Unset \in Values
    BY ValuesMade DEF Before
  <2>4. env' \in [Channels -> Values] /\ execution'.seen \in [DOMAIN execution'.seen -> Values]
    BY <2>2, <2>3 DEF NoExecution
  <2> QED BY <2>1, <2>2, <2>4 DEF ReplayTypes
<1>6. CASE CloseTick
  <2>1. TraceInv'
    BY <1>0, <1>6, CloseTickKeepsTrace
  <2>2. /\ phase = "run" /\ phase' = "seed" /\ tick' = tick + 1
        /\ UNCHANGED <<pending, needed, env, position, execution>>
    BY <1>6 DEF CloseTick, coneVars
  <2> QED BY <2>1, <2>2 DEF ReplayTypes
<1> QED BY <1>1, <1>2, <1>3, <1>4, <1>5, <1>6 DEF Next

LEMMA TypesForEver == Spec => [](IInv /\ OrderInv /\ ReplayTypes /\ TraceInv)
<1>1. Init => OrderInv
  BY OrderAtStart
<1>2. Init => ReplayTypes /\ TraceInv
  <2> SUFFICES ASSUME Init PROVE ReplayTypes /\ TraceInv
    OBVIOUS
  <2>1. /\ pending \subseteq Functions /\ needed = {} /\ position = 1 /\ tick = 0
        /\ phase \in {"walk", "seed", "failed"}
        /\ env = [c \in Channels |-> Unset] /\ execution = NoExecution
        /\ samples = [c \in Channels |-> <<>>] /\ columns = [c \in Channels |-> <<>>]
        /\ external = {} /\ logged \subseteq Channels /\ overridden \subseteq Channels
    BY DEF Init, ReadersOf, EmptyTrace
  <2>2. Unset \in Values
    BY ValuesMade DEF Before
  <2>3. 1 \in 1..(Cardinality(Functions) + 1)
    BY FS_CardinalityType
  <2>4. execution.seen \in [DOMAIN execution.seen -> Values]
    BY <2>1 DEF NoExecution
  <2>5. ReplayTypes
    BY <2>1, <2>2, <2>3, <2>4 DEF ReplayTypes
  <2>6. ASSUME NEW c \in Channels PROVE SamplesOf(c)
    <3>1. samples[c] = <<>> /\ columns[c] = <<>>
      BY <2>1
    <3>2. SampleTicks(c) = {} /\ columns[c] \in Seq(Values)
      BY <3>1 DEF SampleTicks
    <3> QED BY <2>1, <3>2 DEF SamplesOf, RecordedNow
  <2> QED BY <2>1, <2>5, <2>6 DEF TraceInv, Driven
<1>3. IInv /\ OrderInv /\ [Next]_vars => OrderInv'
  BY OrderKept
<1>4. IInv /\ OrderInv /\ ReplayTypes /\ TraceInv /\ [Next]_vars => ReplayTypes' /\ TraceInv'
  BY TypesKept
<1> QED BY <1>1, <1>2, <1>3, <1>4, Invariance, PTL DEF Spec

-----------------------------------------------------------------------------
(* What nothing drives.                                                    *)

(* Of one channel that nothing drives: it holds nothing or what the cone   *)
(* computed, which is on the trace of this tick once a script wrote it and *)
(* of the tick before until then.                                          *)
HoldsOwn(c) ==
  /\ env[c] = Unset \/ c \in ConeOutputs
  /\ RecordedNow(c) => samples[c][tick].value = env[c] /\ env[c].at = tick
  /\ ~RecordedNow(c) => env[c] = HeldBefore(c, tick)

(* And what the latest execution found there.                              *)
FoundHeld ==
  \A c \in DOMAIN execution.seen \ Driven :
    \/ execution.seen[c].at = execution.at
    \/ execution.seen[c] = HeldBefore(c, execution.at)

HoldInv ==
  /\ \A c \in Channels \ Driven : HoldsOwn(c)
  /\ execution.at <= tick /\ DOMAIN execution.seen \subseteq Channels
  /\ FoundHeld

HoldInductive == IInv /\ OrderInv /\ ReplayTypes /\ TraceInv

(* Recording on the open tick leaves the earlier ticks alone.              *)
LEMMA EarlierStays ==
  ASSUME NEW added, Record(added), NEW c \in Channels, NEW i, i # tick
  PROVE  /\ i \in DOMAIN samples'[c] <=> i \in DOMAIN samples[c]
         /\ i \in DOMAIN samples[c] => samples'[c][i] = samples[c][i]
<1>1. CASE c \in DOMAIN added
  BY <1>1 DEF Record, SampleTicks
<1>2. CASE c \notin DOMAIN added
  BY <1>2 DEF Record
<1> QED BY <1>1, <1>2

(* So what the latest execution found keeps its explanation.               *)
LEMMA FoundStays ==
  ASSUME HoldInv, tick \in Nat, execution.at \in Int,
         NEW added, Record(added), UNCHANGED <<execution, logged, overridden>>
  PROVE  FoundHeld'
<1> SUFFICES ASSUME NEW c \in DOMAIN execution.seen \ Driven
             PROVE  \/ execution.seen[c].at = execution.at
                    \/ execution.seen[c] = HeldBefore(c, execution.at)'
  BY DEF FoundHeld, Driven
<1>1. c \in Channels /\ execution.at - 1 # tick
  BY DEF HoldInv
<1>2. HeldBefore(c, execution.at)' = HeldBefore(c, execution.at)
  BY <1>1, EarlierStays DEF HeldBefore, SampleTicks
<1> QED BY <1>2 DEF HoldInv, FoundHeld

LEMMA HoldAtStart == Init => HoldInv
<1> SUFFICES ASSUME Init PROVE HoldInv
  OBVIOUS
<1>1. /\ tick = 0 /\ execution = NoExecution /\ env = [c \in Channels |-> Unset]
      /\ samples = [c \in Channels |-> <<>>]
  BY DEF Init, EmptyTrace
<1>2. ASSUME NEW c \in Channels PROVE HoldsOwn(c)
  BY <1>1 DEF HoldsOwn, RecordedNow, HeldBefore, SampleTicks
<1>3. DOMAIN execution.seen = {} /\ execution.at <= tick
  BY <1>1 DEF NoExecution, Before
<1> QED BY <1>2, <1>3 DEF HoldInv, FoundHeld

LEMMA OpenTickKeepsHold ==
  ASSUME HoldInductive, HoldInv, OpenTick
  PROVE  HoldInv'
<1>1. /\ env' = [c \in Channels |-> Seeded(c)]
      /\ UNCHANGED <<writes, logged, overridden, needed, execution, samples, tick>>
  BY DEF OpenTick, projectVars, coneVars, traceVars
<1>2. ASSUME NEW c \in Channels \ Driven PROVE HoldsOwn(c)'
  <2>1. env'[c] = env[c]
    BY <1>1 DEF Seeded, Driven
  <2>2. ConeOutputs' = ConeOutputs
    BY <1>1 DEF ConeOutputs
  <2>3. HoldsOwn(c)
    BY DEF HoldInv
  <2> QED BY <1>1, <2>1, <2>2, <2>3 DEF HoldsOwn, RecordedNow, HeldBefore, SampleTicks
<1>3. Driven' = Driven
  BY <1>1 DEF Driven
<1> QED BY <1>1, <1>2, <1>3 DEF HoldInv, FoundHeld, HeldBefore, SampleTicks

LEMMA RunDueKeepsHold ==
  ASSUME HoldInductive, HoldInv,
         NEW p \in 1..Len(order), NEW w \in SUBSET writes[order[p]], RunDue(p, w)
  PROVE  HoldInv'
<1> DEFINE f == order[p]
           added == ScriptSamples(f, w)
<1>1. /\ phase = "run" /\ tick' = tick
      /\ env' = [c \in Channels |-> IF c \in w THEN Computed(f, tick) ELSE env[c]]
      /\ execution' = [function |-> f, at |-> tick, seen |-> [c \in reads[f] |-> env[c]]]
      /\ Record(added)
      /\ UNCHANGED <<writes, logged, overridden, needed>>
  BY DEF RunDue, projectVars, coneVars
<1>2. /\ DOMAIN added = w
      /\ \A c \in w : added[c].value = Computed(f, tick)
  BY DEF ScriptSamples
<1>3. tick \in Nat /\ f \in needed /\ reads[f] \subseteq Channels
  <2>1. order \in Seq(Functions) /\ tick \in Nat /\ reads \in [Functions -> SUBSET Channels]
    BY DEF HoldInductive, IInv, Shape
  <2>2. f \in Functions /\ p \in DOMAIN order
    BY <2>1
  <2>3. f \in Placed
    BY <2>2 DEF Placed
  <2>4. Placed \subseteq needed
    BY DEF HoldInductive, OrderInv, OnceInv
  <2> QED BY <2>1, <2>2, <2>3, <2>4
<1>4. Driven' = Driven /\ ConeOutputs' = ConeOutputs
  BY <1>1 DEF Driven, ConeOutputs
<1> HIDE DEF added
<1>5. ASSUME NEW c \in Channels \ Driven PROVE HoldsOwn(c)'
  <2>1. HoldsOwn(c) /\ SamplesOf(c)
    BY DEF HoldInv, HoldInductive, TraceInv
  <2>2. CASE c \in w
    <3>1. tick \in DOMAIN samples'[c] /\ samples'[c][tick] = added[c]
      BY <1>1, <1>2, <2>2 DEF Record, SampleTicks
    <3>2. env'[c] = Computed(f, tick) /\ env'[c].at = tick
      BY <1>1, <2>2 DEF Computed
    <3>3. c \in ConeOutputs
      BY <1>3, <2>2 DEF ConeOutputs
    <3> QED BY <1>1, <1>2, <1>4, <2>2, <3>1, <3>2, <3>3 DEF HoldsOwn, RecordedNow, SampleTicks
  <2>3. CASE c \notin w
    <3>1. samples'[c] = samples[c] /\ env'[c] = env[c]
      BY <1>1, <1>2, <2>3, RecordSkips
    <3> QED BY <1>1, <1>4, <2>1, <3>1 DEF HoldsOwn, RecordedNow, HeldBefore, SampleTicks
  <2> QED BY <2>2, <2>3
<1>6. FoundHeld'
  <2> SUFFICES ASSUME NEW c \in reads[f] \ Driven
               PROVE  env[c].at = tick \/ env[c] = HeldBefore(c, tick)'
    BY <1>1, <1>4 DEF FoundHeld
  <2>1. HoldsOwn(c) /\ c \in Channels
    BY <1>3 DEF HoldInv
  <2>2. tick - 1 # tick
    BY <1>3
  <2>3. HeldBefore(c, tick)' = HeldBefore(c, tick)
    BY <1>1, <2>1, <2>2, EarlierStays DEF HeldBefore, SampleTicks
  <2> QED BY <2>1, <2>3 DEF HoldsOwn
<1>7. (execution.at <= tick /\ DOMAIN execution.seen \subseteq Channels)'
  BY <1>1, <1>3
<1> QED BY <1>4, <1>5, <1>6, <1>7 DEF HoldInv

LEMMA CloseTickKeepsHold ==
  ASSUME HoldInductive, HoldInv, CloseTick
  PROVE  HoldInv'
<1> DEFINE open   == {c \in Channels : ~RecordedNow(c)}
           driven == open \cap (logged \cup overridden)
           held   == {c \in open \ driven :
                        /\ c \in ConeOutputs \/ columns[c] # <<>>
                        /\ env[c] # Unset}
           added  == [c \in driven \cup held |->
                        [value |-> env[c],
                         external |-> c \in driven \/ HeldFlag(c, external \cup driven)]]
<1>1. /\ tick' = tick + 1 /\ tick \in Nat /\ execution.at \in Int
      /\ Record(added)
      /\ UNCHANGED <<writes, logged, overridden, needed, env, execution>>
  BY DEF CloseTick, projectVars, coneVars, HoldInductive, IInv, Shape, SeenInv
<1>2. Driven' = Driven /\ ConeOutputs' = ConeOutputs
  BY <1>1 DEF Driven, ConeOutputs
<1>3. ASSUME NEW c \in Channels \ Driven PROVE HoldsOwn(c)'
  <2>1. HoldsOwn(c) /\ SampleTicks(c) \subseteq 0..tick
    BY DEF HoldInv, HoldInductive, TraceInv, SamplesOf
  <2>2. c \in DOMAIN added <=> c \in held
    BY DEF Driven
  <2>3. ~RecordedNow(c)'
    <3>1. DOMAIN samples'[c] \subseteq SampleTicks(c) \cup {tick}
      BY <1>1 DEF Record, SampleTicks
    <3>2. tick + 1 \notin SampleTicks(c) \cup {tick}
      BY <1>1, <2>1
    <3> QED BY <1>1, <3>1, <3>2 DEF RecordedNow, SampleTicks
  <2>4. HeldBefore(c, tick)' = IF tick \in DOMAIN samples'[c] THEN samples'[c][tick].value ELSE Unset
    <3>1. tick' - 1 = tick
      BY <1>1
    <3> QED BY <3>1 DEF HeldBefore, SampleTicks
  <2>5. env[c] = HeldBefore(c, tick)'
    <3>1. CASE RecordedNow(c)
      <4>1. c \notin DOMAIN added
        BY <2>2, <3>1
      <4> HIDE DEF added
      <4>2. samples'[c] = samples[c]
        BY <1>1, <4>1, RecordSkips
      <4> QED BY <2>1, <2>4, <3>1, <4>2 DEF HoldsOwn, RecordedNow, SampleTicks
    <3>2. CASE ~RecordedNow(c) /\ env[c] = Unset
      <4>1. c \notin DOMAIN added
        BY <2>2, <3>2
      <4> HIDE DEF added
      <4>2. samples'[c] = samples[c]
        BY <1>1, <4>1, RecordSkips
      <4> QED BY <2>4, <3>2, <4>2 DEF RecordedNow, SampleTicks
    <3>3. CASE ~RecordedNow(c) /\ env[c] # Unset
      <4>1. c \in DOMAIN added /\ added[c].value = env[c]
        BY <2>1, <3>3 DEF HoldsOwn, Driven
      <4> HIDE DEF added
      <4>2. tick \in DOMAIN samples'[c] /\ samples'[c][tick] = added[c]
        BY <1>1, <4>1 DEF Record, SampleTicks
      <4> QED BY <2>4, <4>1, <4>2
    <3> QED BY <3>1, <3>2, <3>3
  <2> QED BY <1>1, <1>2, <2>1, <2>3, <2>5 DEF HoldsOwn
<1>4. FoundHeld'
  <2> HIDE DEF added
  <2> QED BY <1>1, FoundStays
<1>5. (execution.at <= tick /\ DOMAIN execution.seen \subseteq Channels)'
  BY <1>1 DEF HoldInv
<1> QED BY <1>2, <1>3, <1>4, <1>5 DEF HoldInv

LEMMA ScriptFailsKeepsHold ==
  ASSUME HoldInductive, HoldInv, ScriptFails
  PROVE  HoldInv'
<1>1. /\ execution' = NoExecution /\ env' = [c \in Channels |-> Unset]
      /\ samples' = [c \in Channels |-> <<>>] /\ tick' = tick /\ tick \in Nat
  BY DEF ScriptFails, projectVars, HoldInductive, IInv, Shape
<1>2. ASSUME NEW c \in Channels PROVE HoldsOwn(c)'
  BY <1>1 DEF HoldsOwn, RecordedNow, HeldBefore, SampleTicks
<1>3. DOMAIN execution'.seen = {} /\ execution'.at <= tick'
  BY <1>1 DEF NoExecution, Before
<1> QED BY <1>2, <1>3 DEF HoldInv, FoundHeld

LEMMA HoldKept ==
  ASSUME HoldInductive, HoldInv, [Next]_vars
  PROVE  HoldInv'
<1>1. CASE \/ \E f \in Functions : PopScript(f) \/ PlaceNext(f)
           \/ StartOrdering
           \/ \E rest \in UNION {[1..n -> needed] : n \in 0..Cardinality(needed)} :
                FinishOrdering(rest)
           \/ EndReplay
           \/ UNCHANGED vars
  <2>1. /\ UNCHANGED <<writes, logged, overridden, env, execution, samples, tick>>
        /\ needed \subseteq needed'
    BY <1>1 DEF PopScript, PlaceNext, StartOrdering, FinishOrdering, EndReplay, vars,
                projectVars, coneVars, traceVars
  <2>2. ConeOutputs \subseteq ConeOutputs'
    BY <2>1 DEF ConeOutputs
  <2>3. Driven' = Driven
    BY <2>1 DEF Driven
  <2>4. ASSUME NEW c \in Channels \ Driven PROVE HoldsOwn(c)'
    <3>1. HoldsOwn(c)
      BY DEF HoldInv
    <3> QED BY <2>1, <2>2, <3>1 DEF HoldsOwn, RecordedNow, HeldBefore, SampleTicks
  <2> QED BY <2>1, <2>3, <2>4 DEF HoldInv, FoundHeld, HeldBefore, SampleTicks
<1>2. CASE \E p \in 1..Len(order) : \E w \in SUBSET writes[order[p]] : RunDue(p, w)
  BY <1>2, RunDueKeepsHold
<1> QED BY <1>1, <1>2, OpenTickKeepsHold, CloseTickKeepsHold, ScriptFailsKeepsHold DEF Next

(* On no tick does a cone function read a logged or overridden value left  *)
(* over from an earlier one, nor the log where an override replaces it;    *)
(* and a channel nothing drives shows it what the cone computed on this    *)
(* tick, or exactly what the trace of the tick before has.                 *)
THEOREM ReplayIsCurrent == Spec => []ConeSeesThisTick
<1>1. Init => HoldInv
  BY HoldAtStart
<1>2. HoldInductive /\ HoldInv /\ [Next]_vars => HoldInv'
  BY HoldKept
<1>3. IInv /\ HoldInv => ConeSeesThisTick
  BY DEF IInv, SeenInv, HoldInv, FoundHeld, Driven, ConeSeesThisTick
<1>4. HoldInductive <=> (IInv /\ OrderInv /\ ReplayTypes /\ TraceInv)
  BY DEF HoldInductive
<1> QED BY <1>1, <1>2, <1>3, <1>4, TypesForEver, PTL DEF Spec

(* Every sample of a replay's trace is flagged external exactly when its   *)
(* value comes from the log or an override, however often functions of the *)
(* cone overwrite what they drive and however long a value is held         *)
(* (run_counterfactual_inner's closing passes, Trace::mark_external).      *)
THEOREM ReplayFlagsAreTrue == Spec => []SampleFlagsAreTrue
<1>1. TraceInv => SampleFlagsAreTrue
  BY DEF TraceInv, SamplesOf, SampleFlagsAreTrue
<1> QED BY <1>1, TypesForEver, PTL

(* Cone, store and trace of a replay stay within their types, and the      *)
(* position within the functions there are (run_counterfactual_inner).     *)
THEOREM TypeCorrect == Spec => []TypeOK
<1>1. IInv /\ OrderInv /\ ReplayTypes /\ TraceInv => TypeOK
  <2> SUFFICES ASSUME IInv, OrderInv, ReplayTypes, TraceInv PROVE TypeOK
    OBVIOUS
  <2>1. TraceTypeOK
    BY DEF TraceInv, SamplesOf, ReplayTypes, TraceTypeOK
  <2>2. edges \subseteq Functions \X Functions
    BY DEF OrderInv, EdgesInv, FlowEdges
  <2>3. order \in Seq(needed)
    <3>1. order \in [1..Len(order) -> Functions] /\ Len(order) \in Nat /\ DOMAIN order = 1..Len(order)
      BY DEF IInv, Shape
    <3>2. \A i \in 1..Len(order) : order[i] \in needed
      BY <3>1 DEF OrderInv, OnceInv, Placed
    <3>3. order \in [1..Len(order) -> needed]
      BY <3>1, <3>2
    <3> QED BY <3>1, <3>3
  <2> QED BY <2>1, <2>2, <2>3 DEF ReplayTypes, TypeOK, IInv, Shape
<1> QED BY <1>1, TypesForEver, PTL

=============================================================================
