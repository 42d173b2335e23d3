--------------------------- MODULE CalendarProofs ---------------------------
(***************************************************************************)
(* Theorems about Calendar: for every instant of a 32-bit time_t the date   *)
(* is the Gregorian one, and mktime leads back from it to the instant.      *)
(*                                                                          *)
(* The loops over years and months stop where the closed form NewYear says  *)
(* that the day lies; the clock's borrows make C's division, which rounds   *)
(* towards zero, the one that rounds down.  Long numbers stay behind names  *)
(* in the steps, where only their order matters.                            *)
(***************************************************************************)
EXTENDS Calendar, FiniteSetTheorems, WellFoundedInduction, TLAPS

(* A set of numbers has a least one. *)
LEMMA LeastOne ==
    ASSUME NEW S \in SUBSET Nat, S # {}
    PROVE  \E x \in S : \A y \in S : x <= y
<1> DEFINE R == {ss \in Nat \X Nat : ss[1] < ss[2]}
<1>1. IsWellFoundedOn(R, Nat)
  BY NatLessThanWellFounded, Zenon DEF OpToRel
<1>2. PICK x \in S : \A y \in S : ~(<<y, x>> \in R)
  BY <1>1, WFMin
<1>3. \A y \in S : ~(y < x)
  BY <1>2
<1>4. QED
  BY <1>3
-----------------------------------------------------------------------------
(* The day on which a year starts, in closed form. *)
Leaps(year) == (year + 1899) \div 4 - (year + 1899) \div 100 + (year + 1899) \div 400
NewYear(year) == 365 * year + Leaps(year) - 26027

(* What the quotients of the leap rule gain from one year to the next. *)
LEMMA OneMore ==
    ASSUME NEW z \in Int
    PROVE  /\ (z + 1) \div 4 = z \div 4 + (IF (z + 1) % 4 = 0 THEN 1 ELSE 0)
           /\ (z + 1) \div 100 = z \div 100 + (IF (z + 1) % 100 = 0 THEN 1 ELSE 0)
           /\ (z + 1) \div 400 = z \div 400 + (IF (z + 1) % 400 = 0 THEN 1 ELSE 0)
           /\ z % 400 = 0 => z % 100 = 0
           /\ z % 100 = 0 => z % 4 = 0
           /\ z \div 4 \in Int /\ z \div 100 \in Int /\ z \div 400 \in Int
OBVIOUS

(* A year starts as many days after the last as that one was long. *)
LEMMA YearLength ==
    ASSUME NEW year \in Int
    PROVE  /\ Leaps(year) \in Int /\ NewYear(year) \in Int
           /\ Leaps(year + 1) = Leaps(year) + (IF IsLeap(year) THEN 1 ELSE 0)
           /\ NewYear(year + 1) = NewYear(year) + LengthOfYear(year)
           /\ LengthOfYear(year) \in 365..366
<1> DEFINE z == year + 1899
<1>1. z \in Int /\ year + 1 + 1899 = z + 1 /\ year + 1900 = z + 1
  OBVIOUS
<1> HIDE DEF z
<1>2. Leaps(year) = z \div 4 - z \div 100 + z \div 400
  BY DEF Leaps, z
<1>3. Leaps(year + 1) = (z + 1) \div 4 - (z + 1) \div 100 + (z + 1) \div 400
  BY <1>1 DEF Leaps
<1>4. IsLeap(year) <=> (z + 1) % 400 = 0 \/ ((z + 1) % 4 = 0 /\ (z + 1) % 100 # 0)
  BY <1>1 DEF IsLeap
<1>5. /\ (z + 1) % 400 = 0 => (z + 1) % 100 = 0
      /\ (z + 1) % 100 = 0 => (z + 1) % 4 = 0
  BY <1>1
<1> DEFINE a == z \div 4
           b == z \div 100
           c == z \div 400
           l4 == (z + 1) % 4 = 0
           l100 == (z + 1) % 100 = 0
           l400 == (z + 1) % 400 = 0
<1>6. /\ a \in Int /\ b \in Int /\ c \in Int
      /\ (z + 1) \div 4 = a + (IF l4 THEN 1 ELSE 0)
      /\ (z + 1) \div 100 = b + (IF l100 THEN 1 ELSE 0)
      /\ (z + 1) \div 400 = c + (IF l400 THEN 1 ELSE 0)
  BY <1>1, OneMore
<1>7. /\ Leaps(year) = a - b + c
      /\ Leaps(year + 1) = a + (IF l4 THEN 1 ELSE 0) - (b + (IF l100 THEN 1 ELSE 0))
                            + (c + (IF l400 THEN 1 ELSE 0))
      /\ IsLeap(year) <=> l400 \/ (l4 /\ ~l100)
      /\ (l400 => l100) /\ (l100 => l4)
  BY <1>2, <1>3, <1>4, <1>5, <1>6
<1> HIDE DEF a, b, c, l4, l100, l400
<1>8. Leaps(year) \in Int /\ Leaps(year + 1) = Leaps(year) + (IF IsLeap(year) THEN 1 ELSE 0)
  <2>1. CASE l400
    BY <1>6, <1>7, <2>1
  <2>2. CASE ~l400
    BY <1>6, <1>7, <2>2
  <2>3. QED
    BY <2>1, <2>2
<1>9. QED
  BY <1>8 DEF NewYear, LengthOfYear

(* The days that DaysSince counts year by year are those of the closed form. *)
LEMMA DaysCounted == \A year \in CountedYears : DaysSince[year] = NewYear(year) + 25567
<1> DEFINE Past(n) == {y \in 0..n - 1 : IsLeap(y)}
           Count(n) == IsFiniteSet(Past(n)) /\ Cardinality(Past(n)) = Leaps(n) - 460
           Wrong == {n \in CountedYears : ~Count(n)}
<1>1. Count(0)
  <2>1. Past(0) = {}
    OBVIOUS
  <2>2. Leaps(0) = 460
    BY DEF Leaps
  <2>3. QED
    BY <2>1, <2>2, FS_EmptySet
<1>2. ASSUME NEW n \in Nat, Count(n)
      PROVE  Count(n + 1)
  <2>1. Leaps(n) \in Int /\ Leaps(n + 1) = Leaps(n) + (IF IsLeap(n) THEN 1 ELSE 0)
    BY YearLength
  <2>2. CASE IsLeap(n)
    <3>1. Past(n + 1) = Past(n) \cup {n} /\ n \notin Past(n)
      BY <2>2
    <3> HIDE DEF Past
    <3>2. QED
      BY <1>2, <2>1, <2>2, <3>1, FS_AddElement
  <2>3. CASE ~IsLeap(n)
    <3>1. Past(n + 1) = Past(n)
      BY <2>3
    <3> HIDE DEF Past
    <3>2. QED
      BY <1>2, <2>1, <2>3, <3>1
  <2>4. QED
    BY <2>2, <2>3
<1>3. Wrong = {}
  <2> HIDE DEF Count
  <2>1. SUFFICES ASSUME Wrong # {}
                 PROVE  FALSE
    OBVIOUS
  <2>2. PICK n \in Wrong : \A m \in Wrong : n <= m
    <3>1. Wrong \in SUBSET Nat
      BY DEF CountedYears
    <3> HIDE DEF Wrong
    <3>2. QED
      BY <2>1, <3>1, LeastOne
  <2>3. n # 0
    BY <1>1
  <2>4. n - 1 \in CountedYears /\ n - 1 \in Nat /\ n - 1 + 1 = n /\ ~(n <= n - 1)
    BY <2>3 DEF CountedYears
  <2>5. Count(n - 1)
    BY <2>2, <2>4
  <2>6. Count(n)
    BY <1>2, <2>4, <2>5
  <2>7. QED
    BY <2>6
<1>4. ASSUME NEW year \in CountedYears
      PROVE  DaysSince[year] = NewYear(year) + 25567
  <2>1. Cardinality(Past(year)) = Leaps(year) - 460
    BY <1>3
  <2>2. DaysSince[year] = 365 * year + Cardinality(Past(year))
    BY DEF DaysSince
  <2>3. Leaps(year) \in Int /\ year \in Int
    BY YearLength DEF CountedYears
  <2>4. QED
    BY <2>1, <2>2, <2>3 DEF NewYear
<1>5. QED
  BY <1>4

LEMMA DaysBetween ==
    ASSUME NEW from \in CountedYears, NEW to \in CountedYears
    PROVE  DaysOf(from, to) = NewYear(to) - NewYear(from)
<1>1. /\ DaysSince[from] = NewYear(from) + 25567 /\ DaysSince[to] = NewYear(to) + 25567
      /\ NewYear(from) \in Int /\ NewYear(to) \in Int
  <2>1. from \in Int /\ to \in Int
    BY DEF CountedYears
  <2>2. NewYear(from) \in Int /\ NewYear(to) \in Int
    BY <2>1, YearLength
  <2>3. QED
    BY <2>2, DaysCounted
<1>2. QED
  BY <1>1 DEF DaysOf

(* The days that a 32-bit time_t reaches.                                      *)
FirstDay == -24856
LastDay == 24855

(* The years the loops start from, and those that no 32-bit instant leaves. *)
LEMMA Anchors ==
    /\ NewYear(70) = 0 /\ NewYear(108) = CheatDays /\ NewYear(470) = CycleDays
    /\ NewYear(0) <= FirstDay /\ LastDay < NewYear(500)
<1>1. /\ NewYear(70) = 0 /\ NewYear(108) = 13879 /\ NewYear(470) = 146097
      /\ NewYear(0) = -25567 /\ NewYear(500) = 157054
  BY DEF NewYear, Leaps
<1>2. CheatDays = 13879 /\ CycleDays = 146097
  BY DEF CheatDays, CycleDays, DaySeconds
<1>3. QED
  BY <1>1, <1>2 DEF FirstDay, LastDay

LEMMA Bounds ==
    /\ FirstDay \in Int /\ FirstDay < 0 /\ LastDay \in Int /\ 0 <= LastDay
    /\ CheatDays \in Int /\ 0 < CheatDays /\ CheatDays <= LastDay
    /\ CycleDays \in Int /\ LastDay < CycleDays /\ -CycleDays < FirstDay
    /\ NewYear(500) \in Int /\ NewYear(0) \in Int
<1>1. CheatDays = 13879 /\ CycleDays = 146097
  BY DEF CheatDays, CycleDays, DaySeconds
<1>2. NewYear(500) \in Int /\ NewYear(0) \in Int
  BY YearLength
<1>3. QED
  BY <1>1, <1>2 DEF FirstDay, LastDay

LEMMA NoWholeCycle ==
    ASSUME NEW day \in Int
    PROVE  /\ 0 <= day /\ day < CycleDays => Quot(day, CycleDays) = 0
           /\ -CycleDays < day /\ day < 0 => Quot(day, CycleDays) = 0
<1>1. CycleDays = 146097
  BY DEF CycleDays
<1>2. 0 <= day /\ day < 146097 => day \div 146097 = 0
  OBVIOUS
<1>3. -146097 < day /\ day < 0 => day \div 146097 = -1
  OBVIOUS
<1>4. -146097 < day /\ day < 0 => day % 146097 # 0
  OBVIOUS
<1>5. QED
  BY <1>1, <1>2, <1>3, <1>4 DEF Quot

(* What a loop over the years leaves is the day of the year it stops in. *)
InYear(day, found) ==
    /\ found[2] \in CountedYears
    /\ found[1] = day - NewYear(found[2])
    /\ found[1] \in 0..LengthOfYear(found[2]) - 1

LEMMA Integral ==
    ASSUME NEW year \in CountedYears
    PROVE  /\ year \in Nat /\ year <= 500
           /\ NewYear(year) \in Int /\ NewYear(year + 1) = NewYear(year) + LengthOfYear(year)
           /\ LengthOfYear(year) \in 365..366
<1>1. year \in Nat /\ year <= 500 /\ year \in Int
  BY DEF CountedYears
<1>2. QED
  BY <1>1, YearLength

(* The loop that walks forwards finds the year the day lies in. *)
LEMMA YearsOnStop ==
    ASSUME NEW m \in Nat, NEW from \in CountedYears, m + NewYear(from) < NewYear(500)
    PROVE  InYear(m + NewYear(from), YearsOn(m, from))
<1> DEFINE left(year) == m - DaysOf(from, year)
           Stops(year) == /\ year >= from
                          /\ left(year) < LengthOfYear(year)
                          /\ year = from \/ left(year - 1) >= LengthOfYear(year - 1)
           Short == {year \in CountedYears : year >= from /\ left(year) < LengthOfYear(year)}
           day == m + NewYear(from)
<1>1. \A year \in CountedYears : left(year) = day - NewYear(year) /\ left(year) \in Int
  <2>1. SUFFICES ASSUME NEW year \in CountedYears
                 PROVE  left(year) = day - NewYear(year) /\ left(year) \in Int
    OBVIOUS
  <2>2. DaysOf(from, year) = NewYear(year) - NewYear(from)
    BY DaysBetween
  <2>3. QED
    BY <2>2, Integral
<1>2. \E year \in CountedYears : Stops(year)
  <2>1. 500 \in Short
    <3>1. 500 \in CountedYears /\ 500 >= from
      BY Integral DEF CountedYears
    <3>2. left(500) < LengthOfYear(500)
      BY <1>1, <3>1, Integral
    <3>3. QED
      BY <3>1, <3>2
  <2>2. PICK year \in Short : \A y \in Short : year <= y
    <3>1. Short \in SUBSET Nat /\ Short # {}
      BY <2>1, Integral
    <3> HIDE DEF Short
    <3>2. QED
      BY <3>1, LeastOne
  <2>3. CASE year = from
    BY <2>2, <2>3
  <2>4. CASE year # from
    <3>1. year - 1 \in CountedYears /\ year - 1 >= from /\ ~(year <= year - 1)
      BY <2>2, <2>4 DEF CountedYears
    <3>2. left(year - 1) \in Int /\ LengthOfYear(year - 1) \in Int
      BY <1>1, <3>1, Integral
    <3>3. ~(left(year - 1) < LengthOfYear(year - 1))
      BY <2>2, <3>1
    <3> HIDE DEF left
    <3>4. left(year - 1) >= LengthOfYear(year - 1)
      BY <3>2, <3>3
    <3>5. QED
      BY <2>2, <3>4
  <2>5. QED
    BY <2>3, <2>4
<1> DEFINE last == CHOOSE year \in CountedYears : Stops(year)
<1>3. last \in CountedYears /\ Stops(last)
  <2> HIDE DEF Stops
  <2>1. QED
    BY <1>2
<1>4. YearsOn(m, from) = <<left(last), last>>
  BY DEF YearsOn
<1> HIDE DEF last
<1>5. left(last) >= 0
  <2>1. CASE last = from
    BY <1>1, <1>3, <2>1, Integral
  <2>2. CASE last # from
    <3>1. last - 1 \in CountedYears /\ last - 1 + 1 = last
      <4>1. last \in 0..500 /\ from \in 0..500 /\ last >= from
        BY <1>3 DEF CountedYears
      <4>2. QED
        BY <2>2, <4>1 DEF CountedYears
    <3>2. left(last - 1) >= LengthOfYear(last - 1)
      BY <1>3, <2>2
    <3>3. NewYear(last) = NewYear(last - 1) + LengthOfYear(last - 1)
      BY <3>1, Integral
    <3>4. QED
      BY <1>1, <1>3, <3>1, <3>2, <3>3, Integral
  <2>3. QED
    BY <2>1, <2>2
<1>6. QED
  BY <1>1, <1>3, <1>4, <1>5, Integral DEF InYear

(* So does the loop that walks backwards; what it leaves is counted from the end. *)
LEMMA YearsBackStop ==
    ASSUME NEW m \in Int, NEW from \in CountedYears, from < 500,
           NEW day, day = m + NewYear(from + 1), m < 0, NewYear(0) <= day
    PROVE  LET found == YearsBack(m, from)
           IN  /\ found[2] \in CountedYears
               /\ found[1] + LengthOfYear(found[2]) = day - NewYear(found[2])
               /\ found[1] \in -LengthOfYear(found[2])..-1
<1> DEFINE left(year) == m + DaysOf(year + 1, from + 1)
           Stops(year) == /\ year <= from
                          /\ left(year) >= -LengthOfYear(year)
                          /\ year = from \/ left(year + 1) < -LengthOfYear(year + 1)
           Behind == {n \in 0..from : left(from - n) >= -LengthOfYear(from - n)}
<1>0. from + 1 \in CountedYears /\ from \in Nat /\ day \in Int
  <2>1. from \in 0..499 /\ from + 1 \in CountedYears
    BY DEF CountedYears
  <2>2. NewYear(from + 1) \in Int
    BY <2>1, Integral
  <2>3. QED
    BY <2>1, <2>2
<1>1. \A year \in CountedYears : year <= from =>
         /\ year + 1 \in CountedYears
         /\ left(year) = day - NewYear(year + 1)
         /\ left(year) + LengthOfYear(year) = day - NewYear(year)
         /\ left(year) \in Int
  <2>1. SUFFICES ASSUME NEW year \in CountedYears, year <= from
                 PROVE  /\ year + 1 \in CountedYears
                        /\ left(year) = day - NewYear(year + 1)
                        /\ left(year) + LengthOfYear(year) = day - NewYear(year)
                        /\ left(year) \in Int
    OBVIOUS
  <2>2. year + 1 \in CountedYears
    <3>1. year \in 0..500 /\ from \in 0..500
      BY DEF CountedYears
    <3>2. year + 1 \in 0..500
      BY <2>1, <3>1
    <3>3. QED
      BY <3>2 DEF CountedYears
  <2>3. DaysOf(year + 1, from + 1) = NewYear(from + 1) - NewYear(year + 1)
    BY <1>0, <2>2, DaysBetween
  <2>4. QED
    BY <1>0, <2>2, <2>3, Integral
<1>2. \E year \in CountedYears : Stops(year)
  <2>1. from \in Behind
    <3>1. 0 \in CountedYears /\ from - from = 0 /\ 0 <= from /\ from \in 0..from
      BY <1>0 DEF CountedYears
    <3>2. left(0) + LengthOfYear(0) = day - NewYear(0) /\ left(0) \in Int
      BY <1>1, <3>1
    <3> HIDE DEF left
    <3>3. left(0) >= -LengthOfYear(0)
      BY <1>0, <3>1, <3>2, Integral
    <3>4. QED
      BY <3>1, <3>3
  <2>2. PICK n \in Behind : \A k \in Behind : n <= k
    <3>1. Behind \in SUBSET Nat /\ Behind # {}
      <4>1. 0..from \subseteq Nat
        BY <1>0
      <4>2. QED
        BY <2>1, <4>1, Zenon
    <3> HIDE DEF Behind
    <3>2. QED
      BY <3>1, LeastOne
  <2> DEFINE year == from - n
  <2>3. /\ n \in 0..from /\ year \in CountedYears /\ year <= from
        /\ left(year) >= -LengthOfYear(year)
    BY <1>0, <2>2, Integral DEF CountedYears
  <2>4. CASE n = 0
    <3>1. year = from
      BY <1>0, <2>4
    <3>2. QED
      BY <2>3, <3>1
  <2>5. CASE n # 0
    <3>1. /\ n - 1 \in 0..from /\ ~(n <= n - 1) /\ from - (n - 1) = year + 1
          /\ year + 1 \in CountedYears /\ year + 1 <= from
      BY <1>0, <2>2, <2>3, <2>5 DEF CountedYears
    <3>2. left(year + 1) \in Int /\ LengthOfYear(year + 1) \in Int
      BY <1>1, <3>1, Integral
    <3>3. ~(left(year + 1) >= -LengthOfYear(year + 1))
      BY <2>2, <3>1
    <3> HIDE DEF left, year
    <3>4. left(year + 1) < -LengthOfYear(year + 1)
      BY <3>2, <3>3
    <3>5. QED
      BY <2>3, <3>4
  <2>6. QED
    BY <2>4, <2>5
<1> DEFINE last == CHOOSE year \in CountedYears : Stops(year)
<1>3. last \in CountedYears /\ Stops(last)
  <2> HIDE DEF Stops
  <2>1. QED
    BY <1>2
<1>4. YearsBack(m, from) = <<left(last), last>>
  BY DEF YearsBack
<1> HIDE DEF last
<1>5. left(last) < 0
  <2>1. CASE last = from
    BY <1>0, <1>1, <1>3, <2>1, Integral
  <2>2. CASE last # from
    <3>1. last + 1 \in CountedYears /\ last + 1 <= from
      BY <1>0, <1>3, <2>2, Integral DEF CountedYears
    <3>2. left(last + 1) < -LengthOfYear(last + 1)
      BY <1>3, <2>2
    <3>3. left(last + 1) + LengthOfYear(last + 1) = day - NewYear(last + 1)
      BY <1>1, <3>1
    <3>4. left(last) = day - NewYear(last + 1)
      BY <1>1, <1>3
    <3>5. left(last + 1) \in Int /\ LengthOfYear(last + 1) \in Int
      BY <1>1, <3>1, Integral
    <3> HIDE DEF left
    <3>6. QED
      BY <3>2, <3>3, <3>4, <3>5
  <2>3. QED
    BY <2>1, <2>2
<1>6. /\ left(last) + LengthOfYear(last) = day - NewYear(last) /\ left(last) \in Int
      /\ left(last) >= -LengthOfYear(last) /\ LengthOfYear(last) \in Int
  BY <1>1, <1>3, Integral
<1> HIDE DEF left
<1>7. left(last) \in -LengthOfYear(last)..-1
  BY <1>5, <1>6
<1>8. QED
  BY <1>3, <1>4, <1>6, <1>7

(* The twelve months of a year fill its days. *)
LEMMA MonthOfDay ==
    ASSUME NEW year \in Int, NEW d \in 0..LengthOfYear(year) - 1
    PROVE  \E i \in 0..11 : d - JulianDays(year, i) \in 0..DaysInMonth(year, i) - 1
<1>1. /\ \A i \in {0, 1} : JulianDays(year, i) = 31 * i
      /\ JulianDays(year, 2) = IF IsLeap(year) THEN 60 ELSE 59
      /\ JulianDays(year, 3) = IF IsLeap(year) THEN 91 ELSE 90
      /\ JulianDays(year, 4) = IF IsLeap(year) THEN 121 ELSE 120
      /\ JulianDays(year, 5) = IF IsLeap(year) THEN 152 ELSE 151
      /\ JulianDays(year, 6) = IF IsLeap(year) THEN 182 ELSE 181
      /\ JulianDays(year, 7) = IF IsLeap(year) THEN 213 ELSE 212
      /\ JulianDays(year, 8) = IF IsLeap(year) THEN 244 ELSE 243
      /\ JulianDays(year, 9) = IF IsLeap(year) THEN 274 ELSE 273
      /\ JulianDays(year, 10) = IF IsLeap(year) THEN 305 ELSE 304
      /\ JulianDays(year, 11) = IF IsLeap(year) THEN 335 ELSE 334
  BY DEF JulianDays
<1>2. /\ \A i \in {0, 2, 4, 6, 7, 9, 11} : DaysInMonth(year, i) = 31
      /\ \A i \in {3, 5, 8, 10} : DaysInMonth(year, i) = 30
      /\ DaysInMonth(year, 1) = IF IsLeap(year) THEN 29 ELSE 28
  BY DEF DaysInMonth
<1>3. LengthOfYear(year) = IF IsLeap(year) THEN 366 ELSE 365
  BY DEF LengthOfYear
<1>4. QED
  BY <1>1, <1>2, <1>3

LEMMA JulianDaysType ==
    ASSUME NEW year, NEW mon \in 0..11
    PROVE  JulianDays(year, mon) \in 0..335
<1>1. <<0, 31, 59, 90, 120, 151, 181, 212, 243, 273, 304, 334>>[mon + 1] \in 0..334
  BY Z3
<1>2. QED
  BY <1>1 DEF JulianDays

LEMMA MonthsOnStop ==
    ASSUME NEW year \in Int, NEW m \in 0..LengthOfYear(year) - 1
    PROVE  /\ MonthsOn(m, year)[2] \in 0..11
           /\ MonthsOn(m, year)[1] = m - JulianDays(year, MonthsOn(m, year)[2])
           /\ MonthsOn(m, year)[1] \in 0..DaysInMonth(year, MonthsOn(m, year)[2]) - 1
<1> DEFINE Fits(i) == m - JulianDays(year, i) \in 0..DaysInMonth(year, i) - 1
           mon == CHOOSE i \in 0..11 : Fits(i)
<1>1. mon \in 0..11 /\ Fits(mon)
  <2>1. \E i \in 0..11 : Fits(i)
    BY MonthOfDay
  <2> HIDE DEF Fits
  <2>2. QED
    BY <2>1
<1>2. MonthsOn(m, year) = <<m - JulianDays(year, mon), mon>>
  BY DEF MonthsOn
<1> HIDE DEF mon
<1>3. QED
  BY <1>1, <1>2

LEMMA MonthsBackStop ==
    ASSUME NEW year \in Int, NEW m \in Int, m + LengthOfYear(year) \in 0..LengthOfYear(year) - 1
    PROVE  /\ MonthsBack(m, year)[2] \in 0..11
           /\ MonthsBack(m, year)[1] =
                 m + LengthOfYear(year) - JulianDays(year, MonthsBack(m, year)[2])
           /\ MonthsBack(m, year)[1] \in 0..DaysInMonth(year, MonthsBack(m, year)[2]) - 1
<1> DEFINE left(i) == m + LengthOfYear(year) - JulianDays(year, i)
           Fits(i) == left(i) \in 0..DaysInMonth(year, i) - 1
           mon == CHOOSE i \in 0..11 : Fits(i)
<1>1. mon \in 0..11 /\ Fits(mon)
  <2> DEFINE d == m + LengthOfYear(year)
  <2>1. \E i \in 0..11 : d - JulianDays(year, i) \in 0..DaysInMonth(year, i) - 1
    <3> HIDE DEF d
    <3>1. d \in 0..LengthOfYear(year) - 1
      BY DEF d
    <3>2. QED
      BY <3>1, MonthOfDay
  <2>2. \E i \in 0..11 : Fits(i)
    <3>1. PICK i \in 0..11 : d - JulianDays(year, i) \in 0..DaysInMonth(year, i) - 1
      BY <2>1
    <3> DEFINE long == LengthOfYear(year)
               before == JulianDays(year, i)
    <3>2. long \in Int /\ before \in Int
      <4>1. long \in 365..366
        BY YearLength
      <4>2. before \in 0..335
        BY JulianDaysType
      <4>3. QED
        BY <4>1, <4>2
    <3> HIDE DEF long, before
    <3>3. (m + long) - before = m + (long - before)
      BY <3>2
    <3>4. Fits(i)
      BY <3>1, <3>3, Zenon DEF long, before
    <3>5. QED
      BY <3>4, Zenon
  <2> HIDE DEF Fits
  <2>3. QED
    BY <2>2
<1>2. MonthsBack(m, year) = <<left(mon), mon>>
  BY DEF MonthsBack
<1> HIDE DEF mon
<1>3. QED
  BY <1>1, <1>2

(* The day of a date. *)
OfDay(date, day) ==
    /\ date.year \in 0..499 /\ date.mon \in 0..11
    /\ date.mday \in 1..DaysInMonth(date.year, date.mon)
    /\ NewYear(date.year) + JulianDays(date.year, date.mon) + date.mday - 1 = day

LEMMA DateParts ==
    ASSUME NEW year, year \in 0..499, NEW mon \in 0..11, NEW left, NEW day \in Int,
           left \in 0..DaysInMonth(year, mon) - 1,
           left = day - NewYear(year) - JulianDays(year, mon)
    PROVE  OfDay([year |-> year, mon |-> mon, mday |-> left + 1], day)
<1> DEFINE start == NewYear(year)
           before == JulianDays(year, mon)
           long == DaysInMonth(year, mon)
           date == [year |-> year, mon |-> mon, mday |-> left + 1]
<1>1. start \in Int /\ before \in Int
  <2>1. year \in CountedYears
    BY DEF CountedYears
  <2>2. QED
    BY <2>1, Integral, JulianDaysType
<1>2. long \in 28..31
  BY DEF DaysInMonth
<1>3. left \in 0..long - 1 /\ left = day - start - before
  OBVIOUS
<1>4. date.year = year /\ date.mon = mon /\ date.mday = left + 1
  OBVIOUS
<1> HIDE DEF start, before, long, date
<1>5. left + 1 \in 1..long /\ start + before + (left + 1) - 1 = day
  BY <1>1, <1>2, <1>3
<1>6. /\ DaysInMonth(date.year, date.mon) = long
      /\ NewYear(date.year) = start /\ JulianDays(date.year, date.mon) = before
  BY <1>4, Zenon DEF long, start, before
<1>7. OfDay(date, day)
  BY <1>4, <1>5, <1>6 DEF OfDay
<1>8. QED
  BY <1>7 DEF date

LEMMA DateAfterDay ==
    ASSUME NEW day \in Int, day <= LastDay, NEW anchor \in CountedYears,
           NEW start \in Nat, NewYear(anchor) = start, start <= day
    PROVE  OfDay(DateAfter(day - start, anchor), day)
<1> DEFINE m == day - start
           found == YearsOn(m, anchor)
           mon == MonthsOn(found[1], found[2])
<1>1. m \in Nat /\ m + start = day /\ m <= LastDay
  BY Bounds
<1>2. Quot(m, CycleDays) = 0
  <2> HIDE DEF m
  <2>1. m \in Int /\ 0 <= m /\ m < CycleDays
    BY <1>1, Bounds
  <2>2. QED
    BY <2>1, NoWholeCycle
<1>3. InYear(day, found)
  <2> HIDE DEF m
  <2>1. m \in Nat /\ m + NewYear(anchor) < NewYear(500)
    BY <1>1, Anchors, Bounds
  <2>2. InYear(m + NewYear(anchor), found)
    BY <2>1, YearsOnStop
  <2>3. QED
    BY <1>1, <2>2
<1> HIDE DEF found
<1> DEFINE year == found[2]
           left == found[1]
           first == NewYear(year)
<1>4. /\ year \in CountedYears /\ year \in Int /\ first \in Int
      /\ left = day - first /\ left \in 0..LengthOfYear(year) - 1
  BY <1>3, Integral DEF InYear
<1>5. left >= 0
  BY <1>4, Integral
<1>6. year # 500
  <2>1. SUFFICES ASSUME year = 500
                 PROVE  FALSE
    OBVIOUS
  <2>2. LastDay < first
    BY <2>1, Anchors
  <2> HIDE DEF first, left, year
  <2>3. QED
    BY <1>4, <1>5, <2>2, Bounds
<1>7. year \in 0..499
  <2> HIDE DEF year
  <2>1. QED
    BY <1>4, <1>6 DEF CountedYears
<1>8. DateAfter(m, anchor) = [year |-> year, mon |-> mon[2], mday |-> mon[1] + 1]
  <2>1. m - 0 * CycleDays = m /\ anchor + 400 * 0 = anchor
    BY <1>1, Bounds, Integral
  <2> HIDE DEF m
  <2>2. QED
    BY <1>2, <2>1 DEF DateAfter, found
<1>9. /\ mon[2] \in 0..11 /\ mon[1] = left - JulianDays(year, mon[2])
      /\ mon[1] \in 0..DaysInMonth(year, mon[2]) - 1
  BY <1>4, MonthsOnStop
<1> HIDE DEF mon, m, left, year
<1>10. mon[1] = day - NewYear(year) - JulianDays(year, mon[2])
  BY <1>4, <1>9
<1>11. QED
  BY <1>7, <1>8, <1>9, <1>10, DateParts DEF m

LEMMA DateBeforeDay ==
    ASSUME NEW day \in Int, FirstDay <= day, day < 0
    PROVE  OfDay(DateBefore(day), day)
<1> DEFINE m == day - CycleDays
           found == YearsBack(m, 469)
           mon == MonthsBack(found[1], found[2])
<1>1. /\ m \in Int /\ m < 0 /\ day = m + NewYear(469 + 1) /\ NewYear(0) <= day
  <2>1. 469 + 1 = 470
    OBVIOUS
  <2>2. NewYear(469 + 1) = CycleDays
    BY <2>1, Anchors, Zenon
  <2>3. QED
    BY <2>2, Anchors, Bounds
<1>2. Quot(day, CycleDays) + 1 = 1
  <2>1. Quot(day, CycleDays) = 0
    BY Bounds, NoWholeCycle
  <2>2. QED
    BY <2>1
<1>3. /\ found[2] \in CountedYears
      /\ found[1] + LengthOfYear(found[2]) = day - NewYear(found[2])
      /\ found[1] \in -LengthOfYear(found[2])..-1
  <2>1. 469 \in CountedYears /\ 469 < 500
    BY DEF CountedYears
  <2> HIDE DEF m
  <2>2. LET stop == YearsBack(m, 469)
        IN  /\ stop[2] \in CountedYears
            /\ stop[1] + LengthOfYear(stop[2]) = day - NewYear(stop[2])
            /\ stop[1] \in -LengthOfYear(stop[2])..-1
    BY <1>1, <2>1, YearsBackStop
  <2>3. QED
    BY <2>2
<1> HIDE DEF found
<1> DEFINE year == found[2]
           left == found[1]
           first == NewYear(year)
           long == LengthOfYear(year)
<1>4. /\ year \in CountedYears /\ year \in Int /\ first \in Int /\ long \in 365..366
      /\ left + long = day - first /\ left \in -long..-1
  BY <1>3, Integral
<1>5. left \in Int /\ left + long \in 0..long - 1
  <2> HIDE DEF left, long, first, year
  <2>1. QED
    BY <1>4
<1>6. year # 500
  <2>1. SUFFICES ASSUME year = 500
                 PROVE  FALSE
    OBVIOUS
  <2>2. LastDay < first
    BY <2>1, Anchors
  <2> HIDE DEF first, left, year, long
  <2>3. QED
    BY <1>4, <1>5, <2>2, Bounds
<1>7. year \in 0..499
  <2> HIDE DEF year
  <2>1. QED
    BY <1>4, <1>6 DEF CountedYears
<1>8. DateBefore(day) = [year |-> year, mon |-> mon[2], mday |-> mon[1] + 1]
  <2>1. day - 1 * CycleDays = m /\ 69 + 400 * 1 = 469
    BY Bounds
  <2> HIDE DEF m
  <2>2. QED
    BY <1>2, <2>1 DEF DateBefore, found
<1>9. /\ mon[2] \in 0..11 /\ mon[1] = left + long - JulianDays(year, mon[2])
      /\ mon[1] \in 0..DaysInMonth(year, mon[2]) - 1
  BY <1>4, <1>5, MonthsBackStop
<1>10. JulianDays(year, mon[2]) \in Int
  BY <1>9, JulianDaysType
<1> HIDE DEF mon, left, long, year
<1>11. mon[1] = day - NewYear(year) - JulianDays(year, mon[2])
  BY <1>4, <1>5, <1>9, <1>10
<1>12. QED
  BY <1>7, <1>8, <1>9, <1>11, DateParts

(* Each of the three ways to a date, by the side of the anchors the day is on. *)
LEMMA DateOfDayIs ==
    ASSUME NEW day \in Int, FirstDay <= day, day <= LastDay
    PROVE  OfDay(DateOfDay(day), day)
<1>1. /\ NewYear(70) = 0 /\ NewYear(108) = CheatDays /\ CheatYears = 108
      /\ 70 \in CountedYears /\ 108 \in CountedYears
  BY Anchors DEF CheatYears, CountedYears
<1>2. CASE day >= CheatDays
  <2>1. DateOfDay(day) = DateAfter(day - CheatDays, 108)
    BY <1>1, <1>2, Bounds DEF DateOfDay
  <2>2. CheatDays \in Nat
    BY Bounds
  <2>3. QED
    BY <1>1, <1>2, <2>1, <2>2, DateAfterDay
<1>3. CASE 0 <= day /\ day < CheatDays
  <2>1. DateOfDay(day) = DateAfter(day, 70)
    BY <1>1, <1>3, Bounds DEF DateOfDay
  <2>2. day - 0 = day /\ 0 \in Nat
    OBVIOUS
  <2>3. OfDay(DateAfter(day - 0, 70), day)
    BY <1>1, <1>3, <2>2, DateAfterDay
  <2>4. QED
    BY <2>1, <2>2, <2>3
<1>4. CASE day < 0
  <2>1. DateOfDay(day) = DateBefore(day)
    BY <1>4, Bounds DEF DateOfDay
  <2>2. QED
    BY <1>4, <2>1, DateBeforeDay
<1>5. QED
  BY <1>2, <1>3, <1>4, Bounds

-----------------------------------------------------------------------------
(* The clock: what C's rounding and the borrows make of an instant. *)
LEMMA Split ==
    ASSUME NEW N \in {60, 24, 3600, 86400}, NEW q \in Int, NEW r \in Int, 0 <= r, r < N,
           NEW t, t = N * q + r
    PROVE  t \div N = q /\ t % N = r
OBVIOUS

LEMMA Parts ==
    ASSUME NEW t \in Int, NEW N \in {60, 24, 3600, 86400}
    PROVE  /\ t \div N \in Int /\ t % N \in Int /\ 0 <= t % N /\ t % N < N
           /\ t = N * (t \div N) + (t % N)
OBVIOUS

LEMMA Clock ==
    ASSUME NEW t \in Int
    PROVE  /\ t \div 3600 = (t \div 60) \div 60
           /\ t \div 86400 = (t \div 3600) \div 24
           /\ t % 3600 = 60 * ((t \div 60) % 60) + (t % 60)
           /\ t % 86400 = 3600 * ((t \div 3600) % 24) + (t % 3600)
           /\ t % 86400 = 3600 * ((t \div 3600) % 24) + (60 * ((t \div 60) % 60) + (t % 60))
           /\ t % 60 \in 0..59 /\ (t \div 60) % 60 \in 0..59 /\ (t \div 3600) % 24 \in 0..23
           /\ t \div 60 \in Int /\ t \div 3600 \in Int /\ t \div 86400 \in Int
<1> DEFINE m == t \div 60
           s == t % 60
           h == m \div 60
           u == m % 60
           d == h \div 24
           v == h % 24
<1>1. /\ m \in Int /\ s \in Int /\ 0 <= s /\ s < 60 /\ t = 60 * m + s
  BY Parts
<1> HIDE DEF m, s
<1>2. /\ h \in Int /\ u \in Int /\ 0 <= u /\ u < 60 /\ m = 60 * h + u
  BY <1>1, Parts
<1> HIDE DEF h, u
<1>3. /\ d \in Int /\ v \in Int /\ 0 <= v /\ v < 24 /\ h = 24 * d + v
  BY <1>2, Parts
<1> HIDE DEF d, v
<1> DEFINE r == 60 * u + s
           w == 3600 * v + r
<1>4. r \in Int /\ 0 <= r /\ r < 3600 /\ t = 3600 * h + r
  BY <1>1, <1>2
<1>5. w \in Int /\ 0 <= w /\ w < 86400 /\ t = 86400 * d + w
  BY <1>2, <1>3, <1>4
<1> HIDE DEF r, w
<1>6. t \div 3600 = h /\ t % 3600 = r
  BY <1>2, <1>4, Split
<1>7. t \div 86400 = d /\ t % 86400 = w
  BY <1>3, <1>5, Split
<1> DEFINE H == t \div 3600
           D == t \div 86400
           R == t % 3600
           W == t % 86400
<1>8. H = h /\ D = d /\ R = r /\ W = w
  BY <1>6, <1>7
<1> HIDE DEF H, D, R, W
<1>9. R = 60 * u + s /\ W = 3600 * v + R
  BY <1>8 DEF r, w
<1>10. s \in 0..59 /\ u \in 0..59 /\ v \in 0..23
  BY <1>1, <1>2, <1>3
<1>11. H = m \div 60 /\ R = 60 * (m % 60) + s /\ m % 60 \in 0..59
  <2>1. m \div 60 = h /\ m % 60 = u
    BY DEF h, u
  <2>2. QED
    BY <1>8, <1>9, <1>10, <2>1
<1>12. D = H \div 24 /\ W = 3600 * (H % 24) + R /\ H % 24 \in 0..23
  <2>1. h \div 24 = d /\ h % 24 = v
    BY DEF d, v
  <2>2. QED
    BY <1>8, <1>9, <1>10, <2>1
<1>13. m \in Int /\ H \in Int /\ D \in Int
  BY <1>1, <1>2, <1>3, <1>8
<1>14. QED
  <2>1. /\ t \div 3600 = (t \div 60) \div 60
        /\ t % 3600 = 60 * ((t \div 60) % 60) + (t % 60)
        /\ (t \div 60) % 60 \in 0..59
    BY <1>11 DEF m, s, H, R
  <2>2. /\ t \div 86400 = (t \div 3600) \div 24
        /\ t % 86400 = 3600 * ((t \div 3600) % 24) + (t % 3600)
        /\ (t \div 3600) % 24 \in 0..23
    BY <1>12 DEF H, D, R, W
  <2>3. t % 60 \in 0..59 /\ t \div 60 \in Int /\ t \div 3600 \in Int /\ t \div 86400 \in Int
    BY <1>10, <1>13 DEF m, s, H, D
  <2>4. W = 3600 * (H % 24) + (60 * (m % 60) + s)
    BY <1>11, <1>12
  <2>5. t % 86400 = 3600 * ((t \div 3600) % 24) + (60 * ((t \div 60) % 60) + (t % 60))
    BY <2>4 DEF W, H, m, s
  <2>6. QED
    BY <2>1, <2>2, <2>3, <2>5

(* Where C rounds up and a borrow follows. *)
Lower(t, N) == t < 0 /\ t % N # 0

(* A field after a borrow of b, and whether it borrows in its turn. *)
LEMMA MinuteBack ==
    ASSUME NEW x \in Int, NEW b \in {0, 1}, x >= 0 => b = 0
    PROVE  /\ Wrap(Rem(x + b, 60) - b, 60) = x % 60
           /\ (Rem(x + b, 60) - b < 0) <=> (x < 0 /\ (b = 1 \/ x % 60 # 0))
<1>1. CASE b = 0
  BY <1>1 DEF Wrap, Rem, Quot
<1>2. CASE b = 1
  BY <1>2 DEF Wrap, Rem, Quot
<1>3. QED
  BY <1>1, <1>2

LEMMA HourBack ==
    ASSUME NEW x \in Int, NEW b \in {0, 1}, x >= 0 => b = 0
    PROVE  /\ Wrap(Rem(x + b, 24) - b, 24) = x % 24
           /\ (Rem(x + b, 24) - b < 0) <=> (x < 0 /\ (b = 1 \/ x % 24 # 0))
<1>1. CASE b = 0
  BY <1>1 DEF Wrap, Rem, Quot
<1>2. CASE b = 1
  BY <1>2 DEF Wrap, Rem, Quot
<1>3. QED
  BY <1>1, <1>2

LEMMA WeekDay ==
    ASSUME NEW x \in Int
    PROVE  Wrap(Rem(x, 7), 7) = x % 7
BY DEF Wrap, Rem, Quot

(* Each field gmtime borrows for is the one that division rounding down gives. *)
LEMMA GmtimeFields ==
    ASSUME NEW t \in Int
    PROVE  LET day == t \div 86400
               date == DateOfDay(day)
           IN  Gmtime(t) = [year |-> date.year, mon |-> date.mon, mday |-> date.mday,
                            hour |-> (t \div 3600) % 24, min |-> (t \div 60) % 60,
                            sec |-> t % 60, wday |-> (day + 4) % 7,
                            yday |-> JulianDays(date.year, date.mon) + date.mday - 1]
<1> DEFINE b1 == IF Lower(t, 60) THEN 1 ELSE 0
           b2 == IF Lower(t, 3600) THEN 1 ELSE 0
           b3 == IF Lower(t, 86400) THEN 1 ELSE 0
           x == t \div 60
           y == t \div 3600
           day == t \div 86400
           s == Rem(t, 60)
           m == Borrow(s, Rem(Quot(t, 60), 60))
           h == Borrow(m, Rem(Quot(t, 3600), 24))
<1>1. /\ x \in Int /\ y \in Int /\ day \in Int
      /\ y = x \div 60 /\ day = y \div 24
      /\ t % 3600 = 60 * (x % 60) + (t % 60)
      /\ t % 86400 = 3600 * (y % 24) + (t % 3600)
      /\ t % 60 \in 0..59 /\ x % 60 \in 0..59 /\ y % 24 \in 0..23
  BY Clock
<1>2. b1 \in {0, 1} /\ b2 \in {0, 1} /\ b3 \in {0, 1}
  OBVIOUS
<1>3. Quot(t, 60) = x + b1 /\ Quot(t, 3600) = y + b2 /\ Quot(t, 86400) = day + b3
  <2>1. Quot(t, 60) = x + b1
    BY DEF Quot, Lower
  <2>2. Quot(t, 3600) = y + b2
    BY DEF Quot, Lower
  <2>3. Quot(t, 86400) = day + b3
    BY DEF Quot, Lower
  <2> HIDE DEF x, y, day, b1, b2, b3
  <2>4. QED
    BY <2>1, <2>2, <2>3
<1>4. (x >= 0 => b1 = 0) /\ (y >= 0 => b2 = 0)
  BY DEF Lower
<1>5. (x < 0 <=> t < 0) /\ (y < 0 <=> t < 0)
  OBVIOUS
<1>6. Wrap(s, 60) = t % 60 /\ (s < 0 <=> b1 = 1)
  BY DEF Lower, Wrap, Rem, Quot
<1> DEFINE tm == t % 60
           xm == x % 60
           ym == y % 24
<1>7. Lower(t, 3600) <=> x < 0 /\ (b1 = 1 \/ x % 60 # 0)
  <2>1. Lower(t, 3600) <=> t < 0 /\ t % 3600 # 0
    BY DEF Lower
  <2>2. b1 = 1 <=> t < 0 /\ tm # 0
    BY DEF Lower
  <2>3. t % 3600 = 60 * xm + tm /\ xm \in 0..59 /\ tm \in 0..59
    BY <1>1
  <2> HIDE DEF b1, x, xm, tm
  <2>4. t % 3600 # 0 <=> xm # 0 \/ tm # 0
    BY <2>3
  <2>5. QED
    BY <1>5, <2>1, <2>2, <2>4 DEF xm
<1>8. Lower(t, 86400) <=> y < 0 /\ (b2 = 1 \/ y % 24 # 0)
  <2>1. Lower(t, 86400) <=> t < 0 /\ t % 86400 # 0
    BY DEF Lower
  <2>2. b2 = 1 <=> t < 0 /\ t % 3600 # 0
    BY DEF Lower
  <2>3. /\ t % 86400 = 3600 * ym + (t % 3600) /\ ym \in 0..23
        /\ t % 3600 = 60 * xm + tm /\ xm \in 0..59 /\ tm \in 0..59
    BY <1>1
  <2> DEFINE r == t % 3600
  <2> HIDE DEF b2, y, ym, xm, tm
  <2>4. t % 86400 # 0 <=> ym # 0 \/ r # 0
    BY <2>3
  <2>5. QED
    BY <1>5, <2>1, <2>2, <2>4 DEF ym
<1> HIDE DEF x, y, day, s
<1>9. /\ m = Rem(x + b1, 60) - b1
      /\ Wrap(m, 60) = x % 60 /\ (m < 0 <=> b2 = 1)
  <2>1. b2 = 1 <=> Lower(t, 3600)
    OBVIOUS
  <2>2. Rem(x + b1, 60) \in Int
    BY <1>1 DEF Rem, Quot
  <2> HIDE DEF b1, b2
  <2>3. m = Rem(x + b1, 60) - b1
    BY <1>2, <1>3, <1>6, <2>2 DEF Borrow
  <2> x \in Int /\ b1 \in {0, 1} /\ (x >= 0 => b1 = 0)
    BY <1>1, <1>2, <1>4
  <2>4. /\ Wrap(Rem(x + b1, 60) - b1, 60) = x % 60
        /\ (Rem(x + b1, 60) - b1 < 0) <=> (x < 0 /\ (b1 = 1 \/ x % 60 # 0))
    BY MinuteBack
  <2>5. QED
    BY <1>7, <2>1, <2>3, <2>4
<1> HIDE DEF m
<1>10. /\ h = Rem(y + b2, 24) - b2
       /\ Wrap(h, 24) = y % 24 /\ (h < 0 <=> b3 = 1)
  <2>1. b3 = 1 <=> Lower(t, 86400)
    OBVIOUS
  <2>2. Rem(y + b2, 24) \in Int
    BY <1>1 DEF Rem, Quot
  <2> HIDE DEF b2, b3
  <2>3. h = Rem(y + b2, 24) - b2
    BY <1>2, <1>3, <1>9, <2>2 DEF Borrow
  <2> y \in Int /\ b2 \in {0, 1} /\ (y >= 0 => b2 = 0)
    BY <1>1, <1>2, <1>4
  <2>4. /\ Wrap(Rem(y + b2, 24) - b2, 24) = y % 24
        /\ (Rem(y + b2, 24) - b2 < 0) <=> (y < 0 /\ (b2 = 1 \/ y % 24 # 0))
    BY HourBack
  <2>5. QED
    BY <1>8, <2>1, <2>3, <2>4
<1> HIDE DEF h
<1>11. Borrow(h, Quot(t, 86400)) = day
  <2> HIDE DEF b3
  <2>1. QED
    BY <1>1, <1>2, <1>3, <1>10 DEF Borrow
<1>12. Wrap(Rem(day + 4, 7), 7) = (day + 4) % 7
  BY <1>1, WeekDay
<1>13. QED
  BY <1>6, <1>9, <1>10, <1>11, <1>12 DEF Gmtime, DaySeconds, s, m, h, x, y, day

-----------------------------------------------------------------------------
(* From a date back to its instant. *)
LEMMA YearCounted ==
    ASSUME NEW year \in 0..499
    PROVE  DaysToYear(year) = NewYear(year)
<1>1. year \in Int /\ year \in CountedYears /\ 70 \in CountedYears
  BY DEF CountedYears
<1>2. DaysOf(70, year) = NewYear(year)
  BY <1>1, DaysBetween, Anchors, Integral
<1>3. ~(year < -300)
  OBVIOUS
<1>4. year > 100 => Quot(year - 100, 400) = 0
  BY DEF Quot
<1>5. (IF year > 100 \/ year < -300 THEN Quot(year - 100, 400) ELSE 0) = 0
  BY <1>3, <1>4
<1>6. year - 400 * 0 = year /\ CycleDays \in Int /\ NewYear(year) \in Int
  BY <1>1, Bounds, Integral
<1>7. DaysToYear(year) = 0 * CycleDays + DaysOf(70, year)
  BY <1>5, <1>6 DEF DaysToYear
<1>8. QED
  BY <1>2, <1>6, <1>7

LEMMA DayNumbered ==
    ASSUME NEW date, NEW day \in Int, OfDay(date, day)
    PROVE  /\ DayNumber(date) = day
           /\ date.mday \in Int /\ JulianDays(date.year, date.mon) \in Int
           /\ DaysToYear(date.year) \in Int
           /\ DaysToYear(date.year) + JulianDays(date.year, date.mon) + date.mday - 1 = day
<1> DEFINE year == date.year
           before == JulianDays(date.year, date.mon)
           leaps == Leaps(year)
<1>1. /\ year \in 0..499 /\ year \in CountedYears /\ year \in Int
      /\ date.mon \in 0..11 /\ date.mday \in 1..DaysInMonth(date.year, date.mon)
      /\ NewYear(year) + before + date.mday - 1 = day
  BY DEF OfDay, CountedYears
<1>2. before \in Int /\ NewYear(year) \in Int /\ leaps \in Int
  <2>1. before \in 0..335
    BY <1>1, JulianDaysType
  <2>2. NewYear(year) \in Int /\ leaps \in Int
    <3> HIDE DEF year
    <3>1. QED
      BY <1>1, YearLength
  <2> HIDE DEF before, leaps
  <2>3. QED
    BY <2>1, <2>2
<1>3. date.mday \in Int
  <2>1. DaysInMonth(date.year, date.mon) \in 28..31
    BY DEF DaysInMonth
  <2>2. QED
    BY <1>1, <2>1
<1>4. NewYear(year) = 365 * year + leaps - 26027
  BY DEF NewYear
<1>5. DayNumber(date) = 365 * (year + 1899) + leaps + before + date.mday - 719163
  <2>1. DayNumber(date) = 365 * (year + 1899) + (year + 1899) \div 4
            - (year + 1899) \div 100 + (year + 1899) \div 400 + before + date.mday - 719163
    BY DEF DayNumber
  <2>2. leaps = (year + 1899) \div 4 - (year + 1899) \div 100 + (year + 1899) \div 400
    BY DEF Leaps
  <2> DEFINE a == (year + 1899) \div 4
             b == (year + 1899) \div 100
             c == (year + 1899) \div 400
  <2>3. a \in Int /\ b \in Int /\ c \in Int
    BY <1>1
  <2> HIDE DEF a, b, c, year, before, leaps
  <2>4. DayNumber(date) = 365 * (year + 1899) + a - b + c + before + date.mday - 719163
    BY <2>1 DEF a, b, c, year, before
  <2>5. leaps = a - b + c
    BY <2>2 DEF a, b, c, year, leaps
  <2>6. QED
    BY <1>1, <1>2, <1>3, <2>3, <2>4, <2>5
<1>6. DaysToYear(year) = NewYear(year)
  BY <1>1, YearCounted
<1> HIDE DEF year, before, leaps
<1>7. DayNumber(date) = day
  BY <1>1, <1>2, <1>3, <1>4, <1>5
<1>8. QED
  BY <1>1, <1>2, <1>3, <1>6, <1>7 DEF year, before

LEMMA DayInRange ==
    ASSUME NEW t \in TimeT
    PROVE  /\ t \in Int /\ t \div 86400 \in Int /\ t % 86400 \in Int /\ 0 <= t % 86400 /\ t % 86400 < 86400
           /\ t = 86400 * (t \div 86400) + (t % 86400)
           /\ FirstDay <= t \div 86400 /\ t \div 86400 <= LastDay
           /\ t \div 86400 = 24855 => t % 86400 <= 11647
           /\ t \div 86400 = -24856 => t % 86400 >= 74752
<1> DEFINE d == t \div 86400
           s == t % 86400
<1>1. t \in Int /\ -2147483648 <= t /\ t <= 2147483647
  BY DEF TimeT
<1>2. d \in Int /\ s \in Int /\ 0 <= s /\ s < 86400 /\ t = 86400 * d + s
  BY <1>1, Parts
<1> HIDE DEF d, s
<1>3. /\ -24856 <= d /\ d <= 24855
      /\ d = 24855 => s <= 11647
      /\ d = -24856 => s >= 74752
  BY <1>1, <1>2
<1>4. QED
  BY <1>1, <1>2, <1>3 DEF d, s, FirstDay, LastDay

(* What mktime makes of days and seconds: the instant, or an overflow. *)
LEMMA Fitted ==
    ASSUME NEW date, NEW d \in Int, NEW s \in Int, 0 <= s, s < 86400, Timegm(date) = <<d, s>>,
           FirstDay <= d, d <= LastDay,
           d = 24855 => s <= 11647, d = -24856 => s >= 74752
    PROVE  Mktime(date) = 86400 * d + s
<1> DEFINE t == Timegm(date)
<1>1. t[1] = d /\ t[2] = s
  OBVIOUS
<1>2. \/ -24856 < t[1] /\ t[1] < 24855
      \/ t[1] = 24855 /\ t[2] <= 11647
      \/ t[1] = -24856 /\ t[2] >= 74752
  BY <1>1 DEF FirstDay, LastDay
<1>3. 86400 * (d + 1) - (86400 - s) = 86400 * d + s
  OBVIOUS
<1> HIDE DEF t
<1>4. Mktime(date) = IF t[1] >= 0 THEN 86400 * t[1] + t[2]
                                  ELSE 86400 * (t[1] + 1) - (86400 - t[2])
  BY <1>2 DEF Mktime, DaySeconds, t
<1>5. QED
  BY <1>1, <1>3, <1>4

LEMMA Unfitted ==
    ASSUME NEW date, Timegm(date) = <<24856, 0>>
    PROVE  Mktime(date) = Overflow
<1> DEFINE t == Timegm(date)
<1>1. t[1] = 24856 /\ t[2] = 0
  OBVIOUS
<1>2. ~(\/ -24856 < t[1] /\ t[1] < 24855
        \/ t[1] = 24855 /\ t[2] <= 11647
        \/ t[1] = -24856 /\ t[2] >= 74752)
  BY <1>1
<1> HIDE DEF t
<1>3. QED
  BY <1>2 DEF Mktime, t

LEMMA SecondsOfDay ==
    ASSUME NEW date, NEW d \in Int, OfDay(date, d), NEW s \in Int, 0 <= s, s < 86400,
           date.hour \in Int, date.min \in Int, date.sec \in Int,
           3600 * date.hour + 60 * date.min + date.sec = s
    PROVE  Timegm(date) = <<d, s>>
<1>1. DaysToYear(date.year) + JulianDays(date.year, date.mon) + date.mday - 1 = d
  BY DayNumbered
<1>2. s \div 86400 = 0 /\ s % 86400 = s /\ d + 0 = d
  OBVIOUS
<1>3. Timegm(date) = <<d + s \div 86400, s % 86400>>
  BY <1>1 DEF Timegm, DaySeconds
<1>4. QED
  BY <1>2, <1>3

Moved(t) == NextDay(Gmtime(t))

(* The date of an instant, back again, and on to the next midnight. *)
LEMMA DateOfInstant ==
    ASSUME NEW t \in TimeT
    PROVE  /\ OfDay(Gmtime(t), t \div 86400)
           /\ IsDateOf(Gmtime(t), t)
           /\ Mktime(Gmtime(t)) = t
           /\ Mktime(Moved(t)) = MidnightAfter(t)
<1> DEFINE day == t \div 86400
           of == t % 86400
           date == DateOfDay(day)
           g == Gmtime(t)
           hour == (t \div 3600) % 24
           min == (t \div 60) % 60
           sec == t % 60
<1>1. /\ day \in Int /\ of \in Int /\ 0 <= of /\ of < 86400 /\ t = 86400 * day + of
      /\ FirstDay <= day /\ day <= LastDay
      /\ day = 24855 => of <= 11647
      /\ day = -24856 => of >= 74752
  BY DayInRange
<1>2. /\ hour \in 0..23 /\ min \in 0..59 /\ sec \in 0..59
      /\ of = 3600 * hour + (60 * min + sec)
  <2>1. t \in Int
    BY DayInRange
  <2>2. /\ t % 86400 = 3600 * ((t \div 3600) % 24) + (60 * ((t \div 60) % 60) + (t % 60))
        /\ t % 60 \in 0..59 /\ (t \div 60) % 60 \in 0..59 /\ (t \div 3600) % 24 \in 0..23
    BY <2>1, Clock
  <2>3. QED
    BY <2>2
<1>3. OfDay(date, day)
  BY <1>1, DateOfDayIs
<1>4. g = [year |-> date.year, mon |-> date.mon, mday |-> date.mday,
           hour |-> hour, min |-> min, sec |-> sec, wday |-> (day + 4) % 7,
           yday |-> JulianDays(date.year, date.mon) + date.mday - 1]
  <2>1. t \in Int
    BY DayInRange
  <2>2. QED
    BY <2>1, GmtimeFields
<1> HIDE DEF day, of, date, hour, min, sec
<1>5. /\ g.year = date.year /\ g.mon = date.mon /\ g.mday = date.mday
      /\ g.hour = hour /\ g.min = min /\ g.sec = sec /\ g.wday = (day + 4) % 7
      /\ g.yday = JulianDays(g.year, g.mon) + g.mday - 1
  <2> HIDE DEF g
  <2>1. QED
    BY <1>4
<1>6. Moved(t) = [g EXCEPT !.mday = @ + 1, !.hour = 0, !.min = 0, !.sec = 0]
  BY DEF Moved, NextDay
<1> DEFINE n == Moved(t)
<1>7. /\ n.year = date.year /\ n.mon = date.mon /\ n.mday = date.mday + 1
      /\ n.hour = 0 /\ n.min = 0 /\ n.sec = 0
  <2> HIDE DEF g, n
  <2>1. n = [g EXCEPT !.mday = @ + 1, !.hour = 0, !.min = 0, !.sec = 0]
    BY <1>6 DEF n
  <2>2. QED
    BY <1>4, <2>1
<1> HIDE DEF g, n
<1>8. OfDay(g, day)
  BY <1>3, <1>5 DEF OfDay
<1>9. /\ DayNumber(g) = day
      /\ g.mday \in 1..DaysInMonth(g.year, g.mon)
  BY <1>1, <1>8, DayNumbered DEF OfDay
<1>10. 3600 * g.hour + 60 * g.min + g.sec = of
  BY <1>2, <1>5
<1>11. IsDateOf(g, t)
  <2>1. g.hour \in 0..23 /\ g.min \in 0..59 /\ g.sec \in 0..59
    BY <1>2, <1>5
  <2>2. IsDateOf(g, t) <=>
            /\ DayNumber(g) = day
            /\ g.mday \in 1..DaysInMonth(g.year, g.mon)
            /\ 3600 * g.hour + 60 * g.min + g.sec = of
            /\ g.hour \in 0..23 /\ g.min \in 0..59 /\ g.sec \in 0..59
            /\ g.wday = (day + 4) % 7
            /\ g.yday = JulianDays(g.year, g.mon) + g.mday - 1
    BY DEF IsDateOf, day, of, DaySeconds
  <2>3. QED
    BY <1>5, <1>9, <1>10, <2>1, <2>2
<1>12. Mktime(g) = t
  <2>1. Timegm(g) = <<day, of>>
    <3>1. g.hour \in Int /\ g.min \in Int /\ g.sec \in Int
      <4>1. hour \in Int /\ min \in Int /\ sec \in Int
        BY <1>2
      <4>2. QED
        BY <1>5, <4>1, Zenon
    <3>2. day \in Int /\ of \in Int /\ 0 <= of /\ of < 86400
      BY <1>1
    <3>3. QED
      BY <1>8, <1>10, <3>1, <3>2, SecondsOfDay
  <2>2. QED
    BY <1>1, <2>1, Fitted
<1>13. Timegm(n) = <<day + 1, 0>>
  <2>1. /\ DaysToYear(g.year) + JulianDays(g.year, g.mon) + g.mday - 1 = day
        /\ DaysToYear(g.year) \in Int /\ JulianDays(g.year, g.mon) \in Int /\ g.mday \in Int
    BY <1>1, <1>8, DayNumbered
  <2>2. DaysToYear(n.year) + JulianDays(n.year, n.mon) + n.mday - 1 = day + 1
    <3>1. n.year = g.year /\ n.mon = g.mon /\ n.mday = g.mday + 1
      BY <1>5, <1>7
    <3>2. QED
      BY <1>1, <2>1, <3>1
  <2>3. 3600 * n.hour + 60 * n.min + n.sec = 0 /\ 0 \div 86400 = 0 /\ 0 % 86400 = 0
    BY <1>7
  <2>4. Timegm(n) = <<(day + 1) + 0 \div 86400, 0 % 86400>>
    BY <2>2, <2>3 DEF Timegm, DaySeconds
  <2>5. QED
    BY <1>1, <2>3, <2>4
<1>14. Mktime(n) = MidnightAfter(t)
  <2>1. MidnightAfter(t) = IF day + 1 > 24855 THEN Overflow ELSE 86400 * (day + 1)
    BY DEF MidnightAfter, DaySeconds, day
  <2>2. CASE day = LastDay
    <3>1. day + 1 = 24856
      BY <2>2 DEF LastDay
    <3>2. QED
      BY <1>13, <2>1, <3>1, Unfitted
  <2>3. CASE day # LastDay
    <3> DEFINE next == day + 1
    <3>1. /\ next \in Int /\ FirstDay <= next /\ next <= LastDay
          /\ next # -24856 /\ next <= 24855
      BY <1>1, <2>3 DEF FirstDay, LastDay
    <3>2. MidnightAfter(t) = 86400 * next + 0
      BY <2>1, <3>1
    <3>3. Timegm(n) = <<next, 0>>
      BY <1>13
    <3> HIDE DEF next
    <3>4. Mktime(n) = 86400 * next + 0
      BY <3>1, <3>3, Fitted
    <3>5. QED
      BY <3>2, <3>4
  <2>4. QED
    BY <2>2, <2>3
<1>15. QED
  BY <1>8, <1>11, <1>12, <1>14 DEF g, n, day
-----------------------------------------------------------------------------
(* What a reader's date is at every moment: that of the instant it asked for,  *)
(* moved to the next midnight or not.                                          *)
DateKept(r) ==
    /\ asked[r] \in TimeT
    /\ staticDate[r] = IF midnight[r] THEN Moved(asked[r]) ELSE Gmtime(asked[r])
    /\ reading[r] = "idle" => ~midnight[r]
    /\ reading[r] = "answered" => answer[r] = Mktime(staticDate[r])

CalendarInv ==
    /\ reading \in [Readers -> {"idle", "dated", "answered"}]
    /\ midnight \in [Readers -> BOOLEAN]
    /\ DOMAIN asked = Readers /\ asked = [r \in Readers |-> asked[r]]
    /\ DOMAIN staticDate = Readers /\ staticDate = [r \in Readers |-> staticDate[r]]
    /\ DOMAIN answer = Readers /\ answer = [r \in Readers |-> answer[r]]
    /\ \A r \in Readers : DateKept(r)

LEMMA CalendarInvInit == CalendarInit => CalendarInv
<1> SUFFICES ASSUME CalendarInit PROVE CalendarInv
  OBVIOUS
<1>1. 0 \in TimeT
  BY DEF TimeT
<1>2. \A r \in Readers : /\ reading[r] = "idle" /\ asked[r] = 0 /\ midnight[r] = FALSE
                         /\ staticDate[r] = Gmtime(0)
  BY DEF CalendarInit, Epoch
<1>3. \A r \in Readers : DateKept(r)
  BY <1>1, <1>2 DEF DateKept
<1>4. QED
  BY <1>3 DEF CalendarInit, CalendarInv

LEMMA CalendarInvNext == CalendarInv /\ [CalendarNext]_calendarVars => CalendarInv'
<1> SUFFICES ASSUME CalendarInv, [CalendarNext]_calendarVars
             PROVE  CalendarInv'
  OBVIOUS
<1>1. ASSUME NEW r \in Readers, Localtime(r)
      PROVE  CalendarInv'
  <2>1. PICK time \in Instants[r] :
            /\ asked' = [asked EXCEPT ![r] = time]
            /\ staticDate' = [staticDate EXCEPT ![r] = Gmtime(time)]
    BY <1>1 DEF Localtime
  <2>2. time \in TimeT
    BY <2>1, InstantsAssumption DEF TimeT
  <2>3. /\ reading[r] = "idle" /\ reading' = [reading EXCEPT ![r] = "dated"]
        /\ midnight' = midnight /\ answer' = answer
    BY <1>1 DEF Localtime
  <2>4. \A x \in Readers : DateKept(x)'
    <3> SUFFICES ASSUME NEW x \in Readers PROVE DateKept(x)'
      OBVIOUS
    <3>1. DateKept(x) /\ DateKept(r)
      BY DEF CalendarInv
    <3>2. CASE x = r
      <4>1. /\ asked'[x] = time /\ staticDate'[x] = Gmtime(time) /\ reading'[x] = "dated"
            /\ midnight'[x] = midnight[r] /\ ~midnight[r]
        BY <2>1, <2>3, <3>1, <3>2 DEF CalendarInv, DateKept
      <4>2. QED
        BY <2>2, <4>1 DEF DateKept
    <3>3. CASE x # r
      <4>1. /\ asked'[x] = asked[x] /\ staticDate'[x] = staticDate[x]
            /\ reading'[x] = reading[x] /\ midnight'[x] = midnight[x] /\ answer'[x] = answer[x]
        BY <2>1, <2>3, <3>3 DEF CalendarInv
      <4>2. QED
        BY <3>1, <4>1 DEF DateKept
    <3>4. QED
      BY <3>2, <3>3
  <2>5. QED
    BY <2>1, <2>3, <2>4 DEF CalendarInv
<1>2. ASSUME NEW r \in Readers, NextMidnight(r)
      PROVE  CalendarInv'
  <2>1. /\ reading[r] = "dated" /\ ~midnight[r]
        /\ midnight' = [midnight EXCEPT ![r] = TRUE]
        /\ staticDate' = [staticDate EXCEPT ![r] = NextDay(staticDate[r])]
        /\ reading' = reading /\ asked' = asked /\ answer' = answer
    BY <1>2 DEF NextMidnight
  <2>2. \A x \in Readers : DateKept(x)'
    <3> SUFFICES ASSUME NEW x \in Readers PROVE DateKept(x)'
      OBVIOUS
    <3>1. DateKept(x)
      BY DEF CalendarInv
    <3>2. CASE x = r
      <4>1. staticDate[x] = Gmtime(asked[x])
        BY <2>1, <3>1, <3>2 DEF DateKept
      <4>2. staticDate'[x] = Moved(asked[x])
        BY <2>1, <3>2, <4>1 DEF CalendarInv, Moved
      <4>3. asked'[x] = asked[x] /\ reading'[x] = "dated" /\ midnight'[x] = TRUE
        BY <2>1, <3>2 DEF CalendarInv
      <4>4. QED
        BY <3>1, <4>2, <4>3 DEF DateKept
    <3>3. CASE x # r
      <4>1. /\ asked'[x] = asked[x] /\ staticDate'[x] = staticDate[x]
            /\ reading'[x] = reading[x] /\ midnight'[x] = midnight[x] /\ answer'[x] = answer[x]
        BY <2>1, <3>3 DEF CalendarInv
      <4>2. QED
        BY <3>1, <4>1 DEF DateKept
    <3>4. QED
      BY <3>2, <3>3
  <2>3. QED
    BY <2>1, <2>2 DEF CalendarInv
<1>3. ASSUME NEW r \in Readers, MakeTime(r)
      PROVE  CalendarInv'
  <2>1. /\ answer' = [answer EXCEPT ![r] = Mktime(staticDate[r])]
        /\ reading' = [reading EXCEPT ![r] = "answered"]
        /\ asked' = asked /\ staticDate' = staticDate /\ midnight' = midnight
    BY <1>3 DEF MakeTime
  <2>2. \A x \in Readers : DateKept(x)'
    <3> SUFFICES ASSUME NEW x \in Readers PROVE DateKept(x)'
      OBVIOUS
    <3>1. DateKept(x)
      BY DEF CalendarInv
    <3>2. CASE x = r
      <4>1. reading'[x] = "answered" /\ answer'[x] = Mktime(staticDate[x])
        BY <2>1, <3>2 DEF CalendarInv
      <4>2. QED
        BY <2>1, <3>1, <4>1 DEF DateKept
    <3>3. CASE x # r
      <4>1. reading'[x] = reading[x] /\ answer'[x] = answer[x]
        BY <2>1, <3>3 DEF CalendarInv
      <4>2. QED
        BY <2>1, <3>1, <4>1 DEF DateKept
    <3>4. QED
      BY <3>2, <3>3
  <2>3. QED
    BY <2>1, <2>2 DEF CalendarInv
<1>4. CASE UNCHANGED calendarVars
  BY <1>4 DEF CalendarInv, DateKept, calendarVars
<1>5. QED
  BY <1>1, <1>2, <1>3, <1>4 DEF CalendarNext

LEMMA CalendarInvDates == CalendarInv => DatesComeBack
<1> SUFFICES ASSUME CalendarInv, NEW r \in Readers
             PROVE  /\ reading[r] # "idle" /\ ~midnight[r] =>
                           IsDateOf(staticDate[r], asked[r])
                    /\ reading[r] = "answered" =>
                           answer[r] = IF midnight[r] THEN MidnightAfter(asked[r])
                                                      ELSE asked[r]
  BY DEF DatesComeBack
<1>1. DateKept(r)
  BY DEF CalendarInv
<1>2. /\ IsDateOf(Gmtime(asked[r]), asked[r])
      /\ Mktime(Gmtime(asked[r])) = asked[r]
      /\ Mktime(Moved(asked[r])) = MidnightAfter(asked[r])
  BY <1>1, DateOfInstant DEF DateKept
<1>3. QED
  BY <1>1, <1>2 DEF DateKept

(* time64.c 810-817: for any readers, whatever instants of a 32-bit time_t the *)
(* clock shows them, a thread's date is the Gregorian one, mktime gives the    *)
(* instant back, and the next midnight is where the calendar has it.           *)
THEOREM DatesAlwaysComeBack == CalendarSpec => []DatesComeBack
<1>1. CalendarSpec => []CalendarInv
  BY CalendarInvInit, CalendarInvNext, PTL DEF CalendarSpec
<1>2. QED
  BY <1>1, CalendarInvDates, PTL

(* An answer is a number, and was asked of an instant the clock showed.        *)
CalendarTyped ==
    \A r \in Readers : asked[r] \in Instants[r] \cup {0} /\ answer[r] \in Int

LEMMA MktimeOfKept ==
    ASSUME NEW r \in Readers, DateKept(r), midnight[r] \in BOOLEAN
    PROVE  Mktime(staticDate[r]) \in Int /\ staticDate[r].mon \in 0..11
<1> DEFINE t == asked[r]
<1>1. t \in TimeT /\ t \in Int
  BY DEF DateKept, TimeT
<1>2. /\ Mktime(Gmtime(t)) = t /\ Mktime(Moved(t)) = MidnightAfter(t)
      /\ Gmtime(t).mon \in 0..11
  BY <1>1, DateOfInstant DEF OfDay
<1>3. MidnightAfter(t) \in Int
  <2>1. t \div DaySeconds \in Int
    BY <1>1 DEF DaySeconds
  <2>2. QED
    BY <2>1 DEF MidnightAfter, Overflow, DaySeconds
<1>4. staticDate[r] = IF midnight[r] THEN Moved(t) ELSE Gmtime(t)
  BY DEF DateKept
<1>5. Moved(t).mon = Gmtime(t).mon
  BY <1>1, GmtimeFields DEF Moved, NextDay
<1> HIDE DEF t
<1>6. QED
  BY <1>1, <1>2, <1>3, <1>4, <1>5

LEMMA CalendarTypedNext ==
    ASSUME CalendarInv, CalendarTyped, [CalendarNext]_calendarVars
    PROVE  CalendarTyped'
<1>1. ASSUME NEW r \in Readers, Localtime(r)
      PROVE  CalendarTyped'
  BY <1>1 DEF Localtime, CalendarInv, CalendarTyped
<1>2. ASSUME NEW r \in Readers, NextMidnight(r)
      PROVE  CalendarTyped'
  BY <1>2 DEF NextMidnight, CalendarTyped
<1>3. ASSUME NEW r \in Readers, MakeTime(r)
      PROVE  CalendarTyped'
  <2>1. Mktime(staticDate[r]) \in Int
    BY MktimeOfKept DEF CalendarInv
  <2>2. answer' = [answer EXCEPT ![r] = Mktime(staticDate[r])] /\ asked' = asked
    BY <1>3 DEF MakeTime
  <2>3. QED
    BY <2>1, <2>2 DEF CalendarInv, CalendarTyped
<1>4. CASE UNCHANGED calendarVars
  BY <1>4 DEF CalendarTyped, calendarVars
<1>5. QED
  BY <1>1, <1>2, <1>3, <1>4 DEF CalendarNext

(* The dates of the readers stay dates of the calendar, and what mktime answers *)
(* is a number of seconds, whatever they ask for.                               *)
THEOREM CalendarTypeCorrect == CalendarSpec => []CalendarTypeOK
<1>1. CalendarInit => CalendarTyped
  BY DEF CalendarInit, CalendarTyped
<1>2. CalendarInv /\ CalendarTyped => CalendarTypeOK
  BY MktimeOfKept DEF CalendarInv, CalendarTyped, CalendarTypeOK
<1>3. CalendarInv /\ CalendarTyped /\ [CalendarNext]_calendarVars => CalendarTyped'
  BY CalendarTypedNext
<1>4. QED
  BY <1>1, <1>2, <1>3, CalendarInvInit, CalendarInvNext, PTL DEF CalendarSpec
=============================================================================
