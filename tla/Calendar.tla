------------------------------ MODULE Calendar ------------------------------
(* The calendar the game's gmtime, localtime and mktime imports get           *)
(* (src/source/reimpl/time64.c).  A thread breaks an instant down into the    *)
(* thread's static date and later hands that date back to mktime, unchanged   *)
(* or moved to the next midnight, as the game does for its day boundary.      *)
(* Years count from 1900, months from 0; an instant is a signed 32-bit time_t. *)
EXTENDS Integers, FiniteSets

CONSTANTS
    Readers,      \* threads that ask for dates
    Instants      \* [Readers -> sets of time_t values the clock may show them]

\* A time_t of 32 bits with a sign.
TimeT == {t \in Int : -2147483647 - 1 <= t /\ t <= 2147483647}

ASSUME InstantsAssumption == \A r \in Readers : Instants[r] \subseteq TimeT

VARIABLES
    reading,      \* "idle", "dated" or "answered", per reader
    asked,        \* the instant the reader broke down last
    staticDate,   \* the reader's thread-local struct TM
    midnight,     \* whether the date was moved to the next midnight
    answer        \* what mktime returned

calendarVars == <<reading, asked, staticDate, midnight, answer>>
-----------------------------------------------------------------------------
DaySeconds == 86400
CycleDays == 365 * 400 + 100 - 4 + 1
CheatDays == 1199145600 \div DaySeconds
CheatYears == 108

IsLeap(year) ==
    LET y == year + 1900 IN y % 400 = 0 \/ (y % 4 = 0 /\ y % 100 # 0)

LengthOfYear(year) == IF IsLeap(year) THEN 366 ELSE 365

DaysInMonth(year, mon) ==
    CASE mon = 1 -> IF IsLeap(year) THEN 29 ELSE 28
      [] mon \in {3, 5, 8, 10} -> 30
      [] OTHER -> 31

JulianDays(year, mon) ==
    <<0, 31, 59, 90, 120, 151, 181, 212, 243, 273, 304, 334>>[mon + 1]
        + (IF IsLeap(year) /\ mon > 1 THEN 1 ELSE 0)

\* C's division and remainder, which round towards zero.
Quot(a, b) == IF a >= 0 \/ a % b = 0 THEN a \div b ELSE a \div b + 1
Rem(a, b) == a - b * Quot(a, b)

\* The WRAP macro: a negative field borrows one from the next larger field.
Wrap(field, modulus) == IF field < 0 THEN field + modulus ELSE field
\* Mutant: the larger field is left as it is.
BorrowNothing(field, larger) == larger
Borrow(field, larger) == IF field < 0 THEN larger - 1 ELSE larger

\* The days of the years from..to - 1, which the year loops count one by one.
\* CountedYears bounds the years a 32-bit time_t can make them walk through.
CountedYears == 0..500

DaysSince == [year \in CountedYears |->
                 365 * year + Cardinality({y \in 0..year - 1 : IsLeap(y)})]

DaysOf(from, to) == DaysSince[to] - DaysSince[from]

\* Where the loops over the years and the months stop, counting from the
\* anchor forwards and backwards: <<the days left, the year or the month>>.
YearsOn(m, from) ==
    LET left(year) == m - DaysOf(from, year)
        last == CHOOSE year \in CountedYears :
                    /\ year >= from
                    /\ left(year) < LengthOfYear(year)
                    /\ year = from \/ left(year - 1) >= LengthOfYear(year - 1)
    IN  <<left(last), last>>

YearsBack(m, from) ==
    LET left(year) == m + DaysOf(year + 1, from + 1)
        last == CHOOSE year \in CountedYears :
                    /\ year <= from
                    /\ left(year) >= -LengthOfYear(year)
                    /\ year = from \/ left(year + 1) < -LengthOfYear(year + 1)
    IN  <<left(last), last>>

MonthsOn(m, year) ==
    LET mon == CHOOSE i \in 0..11 :
                   m - JulianDays(year, i) \in 0..DaysInMonth(year, i) - 1
    IN  <<m - JulianDays(year, mon), mon>>

MonthsBack(m, year) ==
    LET left(i) == m + LengthOfYear(year) - JulianDays(year, i)
        mon == CHOOSE i \in 0..11 : left(i) \in 0..DaysInMonth(year, i) - 1
    IN  <<left(mon), mon>>

\* The date of a day counted from 1 January 1970.
DateAfter(m, anchor) ==
    LET cycles == Quot(m, CycleDays)
        y == YearsOn(m - cycles * CycleDays, anchor + 400 * cycles)
        d == MonthsOn(y[1], y[2])
    IN  [year |-> y[2], mon |-> d[2], mday |-> d[1] + 1]

DateBefore(m) ==
    LET cycles == Quot(m, CycleDays) + 1
        y == YearsBack(m - cycles * CycleDays, 69 + 400 * cycles)
        d == MonthsBack(y[1], y[2])
    IN  [year |-> y[2], mon |-> d[2], mday |-> d[1] + 1]

DateOfDay(day) ==
    CASE day >= CheatDays -> DateAfter(day - CheatDays, CheatYears)
      [] day \in 0..CheatDays - 1 -> DateAfter(day, 70)
      [] OTHER -> DateBefore(day)

Gmtime(time) ==
    LET s == Rem(time, 60)
        m == Borrow(s, Rem(Quot(time, 60), 60))
        h == Borrow(m, Rem(Quot(time, 3600), 24))
        day == Borrow(h, Quot(time, DaySeconds))
        date == DateOfDay(day)
    IN  [year |-> date.year, mon |-> date.mon, mday |-> date.mday,
         hour |-> Wrap(h, 24), min |-> Wrap(m, 60), sec |-> Wrap(s, 60),
         wday |-> Wrap(Rem(day + 4, 7), 7),
         yday |-> JulianDays(date.year, date.mon) + date.mday - 1]

\* timegm64: the whole cycles up to the year, then the years one by one.
DaysToYear(year) ==
    LET cycles == IF year > 100 \/ year < -300 THEN Quot(year - 100, 400) ELSE 0
        y == year - 400 * cycles
    IN  cycles * CycleDays
            + DaysOf(70, y)

\* The 64-bit result, as whole days and the seconds of the day.
Timegm(date) ==
    LET seconds == 3600 * date.hour + 60 * date.min + date.sec
        days == DaysToYear(date.year) + JulianDays(date.year, date.mon)
                    + date.mday - 1
    IN  <<days + seconds \div DaySeconds, seconds % DaySeconds>>

Overflow == -1

Mktime(date) ==
    LET t == Timegm(date)
        fits == \/ -24856 < t[1] /\ t[1] < 24855
                \/ t[1] = 24855 /\ t[2] <= 11647
                \/ t[1] = -24856 /\ t[2] >= 74752
    IN  CASE ~fits -> Overflow
          [] fits /\ t[1] >= 0 -> DaySeconds * t[1] + t[2]
          [] OTHER -> DaySeconds * (t[1] + 1) - (DaySeconds - t[2])
-----------------------------------------------------------------------------
Epoch == Gmtime(0)

CalendarInit ==
    /\ reading = [r \in Readers |-> "idle"]
    /\ asked = [r \in Readers |-> 0]
    /\ staticDate = [r \in Readers |-> Epoch]
    /\ midnight = [r \in Readers |-> FALSE]
    /\ answer = [r \in Readers |-> 0]

Localtime(r) ==
    /\ reading[r] = "idle"
    /\ \E time \in Instants[r] :
           /\ asked' = [asked EXCEPT ![r] = time]
           /\ staticDate' = [staticDate EXCEPT ![r] = Gmtime(time)]
    /\ reading' = [reading EXCEPT ![r] = "dated"]
    /\ UNCHANGED <<midnight, answer>>

\* The game moves the date in the thread's buffer to the next day's start and
\* leaves it to mktime to carry a day past the end of its month.
NextDay(date) == [date EXCEPT !.mday = @ + 1, !.hour = 0, !.min = 0, !.sec = 0]

NextMidnight(r) ==
    /\ reading[r] = "dated"
    /\ ~midnight[r]
    /\ midnight' = [midnight EXCEPT ![r] = TRUE]
    /\ staticDate' = [staticDate EXCEPT ![r] = NextDay(@)]
    /\ UNCHANGED <<reading, asked, answer>>

MakeTime(r) ==
    /\ reading[r] = "dated"
    /\ answer' = [answer EXCEPT ![r] = Mktime(staticDate[r])]
    /\ reading' = [reading EXCEPT ![r] = "answered"]
    /\ UNCHANGED <<asked, staticDate, midnight>>

CalendarNext == \E r \in Readers : Localtime(r) \/ NextMidnight(r) \/ MakeTime(r)

CalendarSpec == CalendarInit /\ [][CalendarNext]_calendarVars
-----------------------------------------------------------------------------
CalendarTypeOK ==
    /\ reading \in [Readers -> {"idle", "dated", "answered"}]
    /\ midnight \in [Readers -> BOOLEAN]
    /\ \A r \in Readers :
           /\ asked[r] \in Instants[r] \cup {0}
           /\ answer[r] \in Int
           /\ staticDate[r].mon \in 0..11

\* The Gregorian calendar in closed form: the day number of a date, from the
\* years completed before it.
DayNumber(date) ==
    LET y == date.year + 1899
    IN  365 * y + y \div 4 - y \div 100 + y \div 400
            + JulianDays(date.year, date.mon) + date.mday - 719163

IsDateOf(date, time) ==
    LET day == time \div DaySeconds
    IN  /\ DayNumber(date) = day
        /\ date.mday \in 1..DaysInMonth(date.year, date.mon)
        /\ 3600 * date.hour + 60 * date.min + date.sec = time % DaySeconds
        /\ date.hour \in 0..23 /\ date.min \in 0..59 /\ date.sec \in 0..59
        /\ date.wday = (day + 4) % 7
        /\ date.yday = JulianDays(date.year, date.mon) + date.mday - 1

MidnightAfter(time) ==
    LET day == time \div DaySeconds + 1
    IN  IF day > 24855 THEN Overflow ELSE DaySeconds * day

(* time64.c 810-817: the imports stay consistent in UTC over the complete      *)
(* signed time_t range, small and negative values included.  Whatever another *)
(* thread asks in between, a thread's date is the Gregorian date of the        *)
(* instant it asked for, mktime gives that instant back, and the day after it *)
(* starts where the calendar says, across months, years and leap days.        *)
DatesComeBack ==
    \A r \in Readers :
        /\ reading[r] # "idle" /\ ~midnight[r] => IsDateOf(staticDate[r], asked[r])
        /\ reading[r] = "answered" =>
               answer[r] = IF midnight[r] THEN MidnightAfter(asked[r]) ELSE asked[r]
=============================================================================
