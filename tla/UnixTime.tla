------------------------------ MODULE UnixTime ------------------------------
(***************************************************************************)
(* The calendar of scripts (builtins/unix_time.rs): dates and times of     *)
(* 1970 to 2038 to timestamps and back, at a fixed offset from UTC.        *)
(*                                                                         *)
(* A timestamp is the pair of its day since 1970 and its second within     *)
(* that day, so that the signed 32-bit count of seconds stays in reach of  *)
(* TLC. Months, weekdays and days of the year count from zero.             *)
(***************************************************************************)
EXTENDS Integers

DaySeconds == 86400
Stamp(day, sec) == [day |-> day + sec \div DaySeconds, sec |-> sec % DaySeconds]
NoStamp == [day |-> 0, sec |-> -1]
NoDay   == -719469

\* A timestamp of the M1 Integer range.
First == [day |-> -24856, sec |-> 74752]
Final == [day |-> 24855, sec |-> 11647]
NotAfter(s, t) == s.day < t.day \/ (s.day = t.day /\ s.sec <= t.sec)
InRange(s) == NotAfter(First, s) /\ NotAfter(s, Final)

(* Mutant: centuries are never leap years.                                    *)
NoLeapCentury(y) == y % 4 = 0 /\ y % 100 # 0

IsLeapYear(y) == y % 4 = 0 /\ (y % 100 # 0 \/ y % 400 = 0)

DaysInMonth(y, m) == CASE m \in {3, 5, 8, 10} -> 30
                       [] m = 1               -> IF IsLeapYear(y) THEN 29 ELSE 28
                       [] OTHER               -> 31

\* days_from_civil: eras of 400 years, years from March.
DaysFromCivil(y, m, d) ==
    LET year   == IF m <= 1 THEN y - 1 ELSE y
        era    == year \div 400
        yoe    == year % 400
        prime  == IF m > 1 THEN m - 2 ELSE m + 10
        doy    == (153 * prime + 2) \div 5 + d - 1
    IN  IF m \notin 0..11 \/ d \notin 1..DaysInMonth(y, m) THEN NoDay
        ELSE era * 146097 + yoe * 365 + yoe \div 4 - yoe \div 100 + doy - 719468

\* civil_from_days
CivilFromDays(n) ==
    LET days  == n + 719468
        era   == days \div 146097
        doe   == days % 146097
        yoe   == (doe - doe \div 1460 + doe \div 36524 - doe \div 146096) \div 365
        doy   == doe - (365 * yoe + yoe \div 4 - yoe \div 100)
        prime == (5 * doy + 2) \div 153
        month == IF prime < 10 THEN prime + 2 ELSE prime - 10
    IN  [year  |-> yoe + era * 400 + (IF month <= 1 THEN 1 ELSE 0),
         month |-> month,
         day   |-> doy - (153 * prime + 2) \div 5 + 1]

\* decompose: the civil fields of a timestamp at an offset.
Decompose(s, offset) ==
    LET t == Stamp(s.day, s.sec + offset)
        c == CivilFromDays(t.day)
    IN  [year |-> c.year, month |-> c.month, day |-> c.day,
         hour |-> t.sec \div 3600, minute |-> (t.sec \div 60) % 60, second |-> t.sec % 60,
         weekday |-> (t.day + 4) % 7,
         yearDay |-> t.day - DaysFromCivil(c.year, 0, 1)]

\* construct_timestamp: seconds 60 and 61 run into the next minute.
Construct(c, offset) ==
    LET s == Stamp(DaysFromCivil(c.year, c.month, c.day),
                   c.hour * 3600 + c.minute * 60 + c.second - offset)
    IN  IF /\ c.year \in 1970..2038 /\ c.month \in 0..11
           /\ DaysFromCivil(c.year, c.month, c.day) # NoDay
           /\ c.hour \in 0..23 /\ c.minute \in 0..59 /\ c.second \in 0..61
           /\ InRange(s)
        THEN s ELSE NoStamp

\* from_gps: a date DDMMYY and the whole seconds since midnight.
FromGPS(date, seconds) ==
    LET short == date % 100
        year  == IF short >= 70 THEN 1900 + short ELSE 2000 + short
    IN  IF date > 999999 \/ short \in 39..69 \/ seconds \notin 0..(DaySeconds - 1) THEN NoStamp
        ELSE Construct([year |-> year, month |-> ((date \div 100) % 100) - 1, day |-> date \div 10000,
                        hour |-> seconds \div 3600, minute |-> (seconds \div 60) % 60,
                        second |-> seconds % 60], 0)

\* timezone_seconds: whole hours, or hours and minutes as HHMM.
NoOffset == DaySeconds
TimezoneSeconds(n) ==
    LET mag  == IF n < 0 THEN -n ELSE n
        secs == (mag \div 100) * 3600 + (mag % 100) * 60
    IN  CASE n \in (-12)..14                            -> n * 3600
          [] n \notin (-1245)..1445 \/ mag % 100 >= 60  -> NoOffset
          [] OTHER                                      -> IF n < 0 THEN -secs ELSE secs
=============================================================================
