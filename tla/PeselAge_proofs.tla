--------------------------- MODULE PeselAge_proofs ----------------------------
(***************************************************************************)
(* Proofs about PeselAge: the age votes are counted with, for every date   *)
(* of birth there may be on a PESEL and every day votes may be counted on. *)
(***************************************************************************)
EXTENDS MCVotingSystem, TLAPS

(***************************************************************************)
(* The calendar.  A day is as many years of 365 days, leap days and days   *)
(* of a common year as there are before it.                                *)
(***************************************************************************)

(* Leap years up to year y *)
Leaps(y) == y \div 4 - y \div 100 + y \div 400

LEMMA Quotients ==
    ASSUME NEW y \in Int
    PROVE  /\ y \div 4 = (y - 1) \div 4 + IF y % 4 = 0 THEN 1 ELSE 0
           /\ y \div 100 = (y - 1) \div 100 + IF y % 100 = 0 THEN 1 ELSE 0
           /\ y \div 400 = (y - 1) \div 400 + IF y % 400 = 0 THEN 1 ELSE 0
           /\ y % 400 = 0 => y % 100 = 0
           /\ y % 100 = 0 => y % 4 = 0
  OBVIOUS

LEMMA LeapStep ==
    ASSUME NEW y \in Int
    PROVE  /\ Leaps(y) \in Int
           /\ Leaps(y - 1) \in Int
           /\ Leaps(y) = Leaps(y - 1) + IF IsLeap(y) THEN 1 ELSE 0
  BY Quotients DEF Leaps, IsLeap

(* Between two years there is at most one leap year in four, and one more. *)
LEMMA LeapsBetween ==
    ASSUME NEW x \in Int, NEW y \in Int, x <= y
    PROVE  /\ Leaps(x) <= Leaps(y)
           /\ 4 * (Leaps(y) - Leaps(x)) <= y - x + 3
<1>. DEFINE a == x \div 4   b == y \div 4
<1>1. /\ a \in Int /\ b \in Int /\ a <= b
      /\ 4 * (b - a) <= y - x + 3
  OBVIOUS
<1>2. /\ x \div 100 = a \div 25 /\ y \div 100 = b \div 25
      /\ x \div 400 = a \div 100 /\ y \div 400 = b \div 100
  OBVIOUS
<1>. HIDE DEF a, b
<1>3. /\ a - a \div 25 <= b - b \div 25
      /\ a \div 100 <= b \div 100
      /\ b \div 100 - a \div 100 <= b \div 25 - a \div 25
  <2>1. a - a \div 25 <= b - b \div 25
    BY <1>1
  <2>2. a \div 100 <= b \div 100
    BY <1>1
  <2>3. b \div 100 - a \div 100 <= b \div 25 - a \div 25
    <3>. DEFINE c == a \div 25   d == b \div 25
    <3>1. c \in Int /\ d \in Int /\ c <= d
      BY <1>1
    <3>2. a \div 100 = c \div 4 /\ b \div 100 = d \div 4
      BY <1>1
    <3>. HIDE DEF c, d
    <3>3. d \div 4 - c \div 4 <= d - c
      BY <3>1
    <3>. QED
      BY <3>2, <3>3 DEF c, d
  <2>. QED
    BY <2>1, <2>2, <2>3
<1>4. /\ {a \div 25, b \div 25, a \div 100, b \div 100} \subseteq Int
      /\ Leaps(x) = a - a \div 25 + a \div 100
      /\ Leaps(y) = b - b \div 25 + b \div 100
  BY <1>1, <1>2 DEF Leaps, a, b
<1>. QED
  BY <1>1, <1>3, <1>4

(* The days of a common year before the first of a month *)
LEMMA Months ==
    /\ DaysBefore[1] = 0 /\ DaysBefore[2] = 31 /\ DaysBefore[3] = 59
    /\ DaysBefore[4] = 90 /\ DaysBefore[5] = 120 /\ DaysBefore[6] = 151
    /\ DaysBefore[7] = 181 /\ DaysBefore[8] = 212 /\ DaysBefore[9] = 243
    /\ DaysBefore[10] = 273 /\ DaysBefore[11] = 304 /\ DaysBefore[12] = 334
    /\ MonthDays[1] = 31 /\ MonthDays[2] = 28 /\ MonthDays[3] = 31
    /\ MonthDays[4] = 30 /\ MonthDays[5] = 31 /\ MonthDays[6] = 30
    /\ MonthDays[7] = 31 /\ MonthDays[8] = 31 /\ MonthDays[9] = 30
    /\ MonthDays[10] = 31 /\ MonthDays[11] = 30 /\ MonthDays[12] = 31
  BY DEF DaysBefore, MonthDays

(* A month and a day of it in some year *)
InSomeYear(m, d) ==
    m \in 1..12 /\ d \in 1..(MonthDays[m] + IF m = 2 THEN 1 ELSE 0)

(* Its number in a common year, 29 February being counted as 1 March is *)
InYear(m, d) == DaysBefore[m] + d

NotBefore(m, d, n, e) == m > n \/ (m = n /\ d >= e)

LEMMA InYearRange ==
    ASSUME NEW m, NEW d, InSomeYear(m, d)
    PROVE  /\ InYear(m, d) \in 1..365
           /\ m \in 1..12 /\ d \in 1..31 /\ DaysBefore[m] \in 0..334
<1>1. m = 1 \/ m = 2 \/ m = 3 \/ m = 4 \/ m = 5 \/ m = 6 \/ m = 7 \/ m = 8
      \/ m = 9 \/ m = 10 \/ m = 11 \/ m = 12
  BY DEF InSomeYear
<1>. QED
  BY <1>1, Months DEF InSomeYear, InYear

LEMMA MonthStep ==
    ASSUME NEW m \in 1..12, NEW n \in 1..12, m < n
    PROVE  DaysBefore[m] + MonthDays[m] <= DaysBefore[n]
<1>1. m = 1 \/ m = 2 \/ m = 3 \/ m = 4 \/ m = 5 \/ m = 6 \/ m = 7 \/ m = 8
      \/ m = 9 \/ m = 10 \/ m = 11
  OBVIOUS
<1>2. n = 2 \/ n = 3 \/ n = 4 \/ n = 5 \/ n = 6 \/ n = 7 \/ n = 8
      \/ n = 9 \/ n = 10 \/ n = 11 \/ n = 12
  OBVIOUS
<1>. QED
  BY <1>1, <1>2, Months

(* A later day has a greater number; but for 29 February and 1 March. *)
LEMMA InYearOrder ==
    ASSUME NEW m, NEW d, InSomeYear(m, d), NEW n, NEW e, InSomeYear(n, e),
           NotBefore(n, e, m, d)
    PROVE  /\ InYear(m, d) <= InYear(n, e)
           /\ InYear(m, d) = InYear(n, e) =>
                 (m = n /\ d = e) \/ (m = 2 /\ d = 29 /\ n = 3 /\ e = 1)
<1>0. {m, n} \subseteq 1..12 /\ {d, e} \subseteq 1..31
  BY InYearRange
<1>1. CASE m = n
  <2>1. DaysBefore[m] \in Int
    BY InYearRange
  <2>. QED
    BY <1>0, <1>1, <2>1 DEF NotBefore, InYear
<1>2. CASE m < n
  <2>1. /\ DaysBefore[m] \in Int /\ DaysBefore[n] \in Int /\ MonthDays[m] \in Int
        /\ DaysBefore[m] + MonthDays[m] <= DaysBefore[n]
    <3>1. MonthDays[m] \in Int
      BY <1>0 DEF MonthDays
    <3>2. DaysBefore[m] \in Int /\ DaysBefore[n] \in Int
      BY InYearRange
    <3>3. m \in 1..12 /\ n \in 1..12
      BY <1>0
    <3>4. DaysBefore[m] + MonthDays[m] <= DaysBefore[n]
      BY ONLY <1>2, <3>3, MonthStep
    <3>. QED
      BY ONLY <3>1, <3>2, <3>4
  <2>2. CASE m # 2
    BY <1>0, <2>1, <2>2 DEF InYear, InSomeYear
  <2>3. CASE m = 2
    <3>1. d <= 29 /\ n \in 3..12
      BY <1>0, <1>2, <2>3, Months DEF InSomeYear
    <3>2. DaysBefore[m] = 31 /\ DaysBefore[3] = 59
      BY <2>3, Months
    <3>3. n = 3 \/ DaysBefore[n] >= 90
      BY <3>1, Months
    <3>. QED
      BY <1>0, <2>1, <2>3, <3>1, <3>2, <3>3 DEF InYear
  <2>. QED
    BY <2>2, <2>3
<1>. QED
  BY <1>0, <1>1, <1>2 DEF NotBefore

(* The last year whose leap day is before a day *)
LeapYear(y, m) == IF m > 2 THEN y ELSE y - 1

(* The year and the month that month m of year y is *)
YearOf(y, m) == y + (m - 1) \div 12
MonthOf(m) == ((m - 1) % 12) + 1

LEMMA DayOfMonth ==
    ASSUME NEW y \in Int, NEW m \in Int, NEW d \in Int
    PROVE  /\ YearOf(y, m) \in Int /\ MonthOf(m) \in 1..12
           /\ Day(y, m, d) = 365 * YearOf(y, m) + Leaps(LeapYear(YearOf(y, m), MonthOf(m)))
                               + InYear(MonthOf(m), d)
<1>. DEFINE z == YearOf(y, m)   n == MonthOf(m)
<1>0. z \in Int /\ n \in 1..12
  BY DEF YearOf, MonthOf
<1>1. Day(y, m, d) = 365 * z + (z - 1) \div 4 - (z - 1) \div 100 + (z - 1) \div 400
                       + DaysBefore[n] + d + IF n > 2 /\ IsLeap(z) THEN 1 ELSE 0
  BY DEF Day, YearOf, MonthOf
<1>. HIDE DEF z, n
<1>2. DaysBefore[n] \in Int
  BY <1>0 DEF DaysBefore
<1>3. /\ (z - 1) \div 4 \in Int /\ (z - 1) \div 100 \in Int /\ (z - 1) \div 400 \in Int
      /\ Leaps(z - 1) = (z - 1) \div 4 - (z - 1) \div 100 + (z - 1) \div 400
  BY <1>0 DEF Leaps
<1>4. Day(y, m, d) = 365 * z + Leaps(z - 1) + DaysBefore[n] + d
                       + IF n > 2 /\ IsLeap(z) THEN 1 ELSE 0
  BY <1>0, <1>1, <1>2, <1>3
<1>5. /\ Leaps(z - 1) \in Int
      /\ Leaps(z) = Leaps(z - 1) + IF IsLeap(z) THEN 1 ELSE 0
  BY <1>0, LeapStep
<1>6. Leaps(LeapYear(z, n)) = Leaps(z - 1) + IF n > 2 /\ IsLeap(z) THEN 1 ELSE 0
  <2>1. CASE n > 2
    BY <1>5, <2>1 DEF LeapYear
  <2>2. CASE ~(n > 2)
    BY <1>5, <2>2 DEF LeapYear
  <2>. QED
    BY <2>1, <2>2
<1>. QED
  BY <1>0, <1>2, <1>4, <1>5, <1>6 DEF InYear, z, n

LEMMA DayIs ==
    ASSUME NEW y \in Int, NEW m, NEW d, InSomeYear(m, d)
    PROVE  Day(y, m, d) = 365 * y + Leaps(LeapYear(y, m)) + InYear(m, d)
<1>1. m \in 1..12 /\ m \in Int /\ d \in Int
  BY InYearRange
<1>2. YearOf(y, m) = y /\ MonthOf(m) = m
  BY <1>1 DEF YearOf, MonthOf
<1>. QED
  BY <1>1, <1>2, DayOfMonth

(* A date 20 months later, on the same day of the month if there is one *)
LEMMA TwentyMonthsLater ==
    ASSUME NEW y \in Int, NEW m, NEW d, InSomeYear(m, d)
    PROVE  Day(y, m + 20, d) - Day(y, m, d) \in 607..612
<1>1. m \in 1..12 /\ m + 20 \in Int /\ d \in Int
  BY InYearRange
<1>. DEFINE z == YearOf(y, m + 20)   n == MonthOf(m + 20)
<1>2. z \in Int /\ n \in 1..12
  BY <1>1 DEF YearOf, MonthOf
<1>3. \/ m <= 4 /\ z = y + 1 /\ n = m + 8
      \/ m > 4 /\ z = y + 2 /\ n = m - 4
  BY <1>1 DEF YearOf, MonthOf
<1>4. Day(y, m + 20, d) = 365 * z + Leaps(LeapYear(z, n)) + InYear(n, d)
  BY <1>1, DayOfMonth
<1>. HIDE DEF z, n
<1>5. Day(y, m, d) = 365 * y + Leaps(LeapYear(y, m)) + InYear(m, d)
  BY DayIs
<1>6. DaysBefore[n] \in Int /\ DaysBefore[m] \in Int
  BY <1>1, <1>2 DEF DaysBefore
<1>. DEFINE u == LeapYear(y, m)   v == LeapYear(z, n)
<1>8. u \in Int /\ v \in Int /\ u <= v /\ v - u <= 2
      /\ (m > 4 => v - u <= 2) /\ (m <= 4 => v - u <= 2)
  BY <1>1, <1>2, <1>3 DEF LeapYear
<1>. HIDE DEF u, v
<1>9. Leaps(v) - Leaps(u) \in 0..1
  <2>1. Leaps(u) \in Int /\ Leaps(v) \in Int
    BY <1>8, LeapStep
  <2>2. 0 <= Leaps(v) - Leaps(u) /\ 4 * (Leaps(v) - Leaps(u)) <= v - u + 3
    BY <1>8, <2>1, LeapsBetween
  <2>. QED
    BY <1>8, <2>1, <2>2
<1>10. 365 * z + DaysBefore[n] - (365 * y + DaysBefore[m]) \in 607..610
  <2>1. CASE m <= 4
    <3>1. m = 1 \/ m = 2 \/ m = 3 \/ m = 4
      BY <1>1, <2>1
    <3>. QED
      BY <1>3, <2>1, <3>1, Months
  <2>2. CASE m > 4
    <3>1. m = 5 \/ m = 6 \/ m = 7 \/ m = 8 \/ m = 9 \/ m = 10 \/ m = 11 \/ m = 12
      BY <1>1, <2>2
    <3>. QED
      BY <1>3, <2>2, <3>1, Months
  <2>. QED
    BY <1>1, <2>1, <2>2
<1>11. Leaps(u) \in Int /\ Leaps(v) \in Int
  BY <1>8, LeapStep
<1>. QED
  BY <1>1, <1>2, <1>4, <1>5, <1>6, <1>9, <1>10, <1>11 DEF u, v, InYear

(***************************************************************************)
(* Whole years.                                                            *)
(***************************************************************************)

LEMMA DayInt ==
    ASSUME NEW y \in Int, NEW m \in Int, NEW d \in Int
    PROVE  Day(y, m, d) \in Int
<1>. DEFINE z == YearOf(y, m)   n == MonthOf(m)
<1>1. /\ z \in Int /\ n \in 1..12
      /\ Day(y, m, d) = 365 * z + Leaps(LeapYear(z, n)) + InYear(n, d)
  BY DayOfMonth
<1>. HIDE DEF z, n
<1>2. LeapYear(z, n) \in Int
  BY <1>1 DEF LeapYear
<1>3. InYear(n, d) \in Int
  BY <1>1 DEF InYear, DaysBefore
<1>. QED
  BY <1>1, <1>2, <1>3, LeapStep

(* A day of some year, leap or not *)
CalendarDay(p) == p[1] \in Int /\ InSomeYear(p[2], p[3])

SameDay(p, q) == p[2] = q[2] /\ p[3] = q[3]

(* Years from one day to another that is a day of years to come *)
Years(p, q) == q[1] - p[1] - IF NotBefore(q[2], q[3], p[2], p[3]) THEN 0 ELSE 1

(* Days that are a years: 365 for each, those of part of a year, and the   *)
(* leap days.                                                              *)
Last(a, days) == days \in Int /\ 365 * a <= days /\ days <= 365 * a + 395

LEMMA CalendarDayInt ==
    ASSUME NEW p, CalendarDay(p)
    PROVE  /\ p[1] \in Int /\ p[2] \in 1..12 /\ p[2] \in Int /\ p[3] \in Int
           /\ DayOf(p) \in Int
<1>. DEFINE y == p[1]   m == p[2]   d == p[3]
<1>1. y \in Int /\ m \in 1..12 /\ m \in Int /\ d \in Int
  BY InYearRange DEF CalendarDay
<1>. HIDE DEF y, m, d
<1>2. Day(y, m, d) \in Int
  BY <1>1, DayInt
<1>. QED
  BY <1>1, <1>2 DEF DayOf, y, m, d

(* More than 365 days each, when they do not end on the same day of a year;*)
(* when they do, little more.                                              *)
LEMMA Elapsed ==
    ASSUME NEW p, CalendarDay(p), NEW q, CalendarDay(q), Years(p, q) \in 0..117
    PROVE  /\ Last(Years(p, q), DayOf(q) - DayOf(p))
           /\ SameDay(p, q) => DayOf(q) - DayOf(p) <= 365 * Years(p, q) + 30
           /\ ~SameDay(p, q) /\ p[3] <= LastDay(p[1], p[2]) =>
                 DayOf(q) - DayOf(p) >= 365 * Years(p, q) + 1
<1>. DEFINE y == p[1]   m == p[2]   d == p[3]
            z == q[1]   n == q[2]   e == q[3]
            a == Years(p, q)
            u == LeapYear(y, m)   v == LeapYear(z, n)
            i == InYear(m, d)     j == InYear(n, e)
            k == Leaps(v) - Leaps(u)
            D == DayOf(q) - DayOf(p)
<1>0. /\ y \in Int /\ InSomeYear(m, d) /\ z \in Int /\ InSomeYear(n, e)
      /\ a \in 0..117
      /\ a = z - y - IF NotBefore(n, e, m, d) THEN 0 ELSE 1
  BY DEF CalendarDay, Years
<1>02. D = Day(z, n, e) - Day(y, m, d)
  BY DEF DayOf
<1>03. SameDay(p, q) <=> m = n /\ d = e
  BY DEF SameDay
<1>. SUFFICES /\ Last(a, D)
              /\ m = n /\ d = e => D <= 365 * a + 30
              /\ (m # n \/ d # e) /\ d <= LastDay(y, m) => D >= 365 * a + 1
  BY <1>03
<1>. HIDE DEF y, m, d, z, n, e, a, D
<1>1. i \in 1..365 /\ j \in 1..365 /\ m \in 1..12 /\ n \in 1..12 /\ d \in Int /\ e \in Int
  BY <1>0, InYearRange
<1>2. /\ Day(y, m, d) = 365 * y + Leaps(u) + i
      /\ Day(z, n, e) = 365 * z + Leaps(v) + j
  BY <1>0, DayIs
<1>3. u \in Int /\ v \in Int /\ u <= v /\ v - u <= a + 2
  BY <1>0, <1>1 DEF LeapYear, NotBefore
<1>. HIDE DEF i, j
<1>4. Leaps(u) \in Int /\ Leaps(v) \in Int /\ k \in 0..30
  <2>. HIDE DEF u, v
  <2>1. Leaps(u) \in Int /\ Leaps(v) \in Int
    BY <1>3, LeapStep
  <2>2. 0 <= k /\ 4 * k <= v - u + 3
    BY <1>3, <2>1, LeapsBetween
  <2>. QED
    BY <1>0, <1>3, <2>1, <2>2
<1>. HIDE DEF u, v
<1>5. D = 365 * (z - y) + k + (j - i)
  BY <1>0, <1>02, <1>1, <1>2, <1>4
<1>. HIDE DEF k
<1>6. CASE NotBefore(n, e, m, d)
  <2>1. a = z - y
    BY <1>0, <1>6
  <2>2. i <= j
    BY <1>0, <1>6, InYearOrder DEF i, j
  <2>3. ASSUME m # n \/ d # e, d <= LastDay(y, m), i = j PROVE k >= 1
    <3>1. m = 2 /\ d = 29 /\ n = 3
      BY <1>0, <1>6, <2>3, InYearOrder DEF i, j
    <3>2. IsLeap(y)
      BY <2>3, <3>1, Months DEF LastDay
    <3>3. u = y - 1 /\ v = z
      BY <3>1 DEF u, v, LeapYear
    <3>4. Leaps(y) = Leaps(y - 1) + 1 /\ Leaps(y) \in Int /\ Leaps(y - 1) \in Int
      BY <1>0, <3>2, LeapStep
    <3>5. Leaps(y) <= Leaps(z)
      BY <1>0, <2>1, LeapsBetween
    <3>. QED
      BY <1>4, <3>3, <3>4, <3>5 DEF k
  <2>4. m = n /\ d = e => i = j
    BY DEF i, j
  <2>5. Last(a, D) /\ (i = j => D <= 365 * a + 30)
    BY <1>0, <1>1, <1>4, <1>5, <2>1, <2>2 DEF Last
  <2>6. i # j \/ k >= 1 => D >= 365 * a + 1
    BY <1>0, <1>1, <1>4, <1>5, <2>1, <2>2
  <2>. QED
    BY <2>3, <2>4, <2>5, <2>6
<1>7. CASE ~NotBefore(n, e, m, d)
  <2>1. a = z - y - 1
    BY <1>0, <1>7
  <2>2. NotBefore(m, d, n, e) /\ ~(m = n /\ d = e)
    BY <1>1, <1>7 DEF NotBefore
  <2>3. j <= i
    BY <1>0, <2>2, InYearOrder DEF i, j
  <2>4. Last(a, D) /\ D >= 365 * a + 1
    BY <1>0, <1>1, <1>4, <1>5, <2>1, <2>3 DEF Last
  <2>. QED
    BY <2>2, <2>4
<1>. QED
  BY <1>6, <1>7

(* Whole years of 365 days, of the days since or until *)
LEMMA YearsInt ==
    ASSUME NEW day \in Int, NEW today \in Int
    PROVE  YearsSince(day, today) \in Int
  BY DEF YearsSince

LEMMA YearsPast ==
    ASSUME NEW day \in Int, NEW today \in Int, NEW a \in 0..117, Last(a, today - day)
    PROVE  YearsSince(day, today) \in {a, a + 1}
<1>. DEFINE x == today - day
<1>1. x \in Int /\ 365 * a <= x /\ x <= 365 * a + 395 /\ day <= today
  BY DEF Last
<1>2. YearsSince(day, today) = x \div 365
  BY <1>1 DEF YearsSince
<1>. HIDE DEF x
<1>3. x \div 365 \in {a, a + 1}
  BY <1>1
<1>. QED
  BY <1>2, <1>3

LEMMA YearsToCome ==
    ASSUME NEW day \in Int, NEW today \in Int, NEW a \in 0..117, Last(a, day - today),
           day - today >= 365 * a + 1
    PROVE  YearsSince(day, today) \in {-a, -a - 1}
<1>. DEFINE x == day - today - 1
<1>1. x \in Int /\ 365 * a <= x /\ x <= 365 * a + 394 /\ ~(day <= today)
  BY DEF Last
<1>2. YearsSince(day, today) = -(x \div 365)
  BY <1>1 DEF YearsSince
<1>. HIDE DEF x
<1>3. x \div 365 \in {a, a + 1}
  BY <1>1
<1>. QED
  BY <1>2, <1>3

LEMMA YearsToTheDay ==
    ASSUME NEW day \in Int, NEW today \in Int, NEW a \in 1..117, Last(a, day - today),
           day - today <= 365 * a + 30
    PROVE  YearsSince(day, today) \in {-a, 1 - a}
<1>. DEFINE x == day - today - 1
<1>1. x \in Int /\ 365 * a - 1 <= x /\ x <= 365 * a + 29 /\ ~(day <= today)
  BY DEF Last
<1>2. YearsSince(day, today) = -(x \div 365)
  BY <1>1 DEF YearsSince
<1>. HIDE DEF x
<1>3. x \div 365 \in {a, a - 1}
  BY <1>1
<1>. QED
  BY <1>2, <1>3

(***************************************************************************)
(* Dates of birth.                                                         *)
(***************************************************************************)

IsDate(date) ==
    /\ date[1] \in Nat
    /\ date[2] \in 1..12
    /\ date[3] \in 1..LastDay(date[1], date[2])

LEMMA DateInSomeYear ==
    ASSUME NEW date, IsDate(date)
    PROVE  InSomeYear(date[2], date[3])
<1>1. MonthDays[date[2]] \in Int
  BY DEF IsDate, MonthDays
<1>2. LastDay(date[1], date[2]) <= MonthDays[date[2]] + IF date[2] = 2 THEN 1 ELSE 0
  BY <1>1 DEF LastDay
<1>3. LastDay(date[1], date[2]) \in Int
  BY <1>1 DEF LastDay
<1>. QED
  BY <1>1, <1>2, <1>3 DEF IsDate, InSomeYear

(* The year of two digits that is in the century from a year on *)
LEMMA FullYear ==
    ASSUME NEW from \in Nat, NEW y \in Nat, from - 37 <= y, y <= from + 99,
           NEW z \in Int,
           z = (from \div 100) * 100 + (y % 100) + IF y % 100 < from % 100 THEN 100 ELSE 0
    PROVE  /\ y >= from => z = y
           /\ y < from => z = y + 100 /\ y % 100 # from % 100
  OBVIOUS

(* The code finds the year of birth, or a hundred years later: always so   *)
(* before the years it looks at, never so when the first of these is not   *)
(* yet as old as today was.                                                *)
LEMMA Parsed ==
    ASSUME NEW birth, IsDate(birth), NEW now, IsDate(now), now[1] >= 80,
           now[1] - 117 <= birth[1], birth[1] <= now[1],
           NEW m \in Int, m = PeselOf(birth)[2]
    PROVE  LET y == birth[1]  d == birth[3]
               parsed == ParsedDay(PeselOf(birth), now)
           IN /\ parsed = Day(y, m, d) \/ parsed = Day(y + 100, m, d)
              /\ y >= now[1] - 80 /\ ~(Day(y, m, d) <= Day(y, now[2], now[3])) =>
                    parsed = Day(y, m, d)
<1>. DEFINE from == now[1] - 80
            y == birth[1]   d == birth[3]
            z == (from \div 100) * 100 + (y % 100) + IF y % 100 < from % 100 THEN 100 ELSE 0
            ambiguous == y % 100 = from % 100 /\ Day(z, m, d) <= Day(from, now[2], now[3])
<1>1. PeselOf(birth)[1] = y % 100 /\ PeselOf(birth)[3] = d
  BY DEF PeselOf
<1>2. ParsedDay(PeselOf(birth), now) = Day(IF ambiguous THEN z + 100 ELSE z, m, d)
  BY <1>1 DEF ParsedDay
<1>3. from \in Nat /\ y \in Nat /\ from - 37 <= y /\ y <= from + 99
  BY DEF IsDate
<1>4. z \in Int
  BY <1>3
<1>5. /\ y >= from => z = y
      /\ y < from => z = y + 100 /\ y % 100 # from % 100
  <2>. DEFINE x == z
  <2>1. x = (from \div 100) * 100 + (y % 100) + IF y % 100 < from % 100 THEN 100 ELSE 0
    OBVIOUS
  <2>2. x \in Int
    BY <1>4
  <2>. HIDE DEF from, y, x
  <2>3. /\ y >= from => x = y
        /\ y < from => x = y + 100 /\ y % 100 # from % 100
    BY <1>3, <2>1, <2>2, FullYear
  <2>. QED
    BY <2>3 DEF x
<1>6. y % 100 = from % 100 /\ y >= from => y = from
  BY <1>3
<1>. HIDE DEF from, y, d, z
<1>7. CASE y >= from
  <2>1. ParsedDay(PeselOf(birth), now) = Day(IF ambiguous THEN y + 100 ELSE y, m, d)
    BY <1>2, <1>5, <1>7
  <2>2. ambiguous => Day(y, m, d) <= Day(y, now[2], now[3])
    BY <1>5, <1>6, <1>7
  <2>. HIDE DEF ambiguous
  <2>. QED
    BY <2>1, <2>2 DEF from, y, d
<1>8. CASE y < from
  <2>1. ~ambiguous /\ z = y + 100
    BY <1>5, <1>8
  <2>. QED
    BY <1>2, <1>3, <1>8, <2>1 DEF from, y, d
<1>. QED
  BY <1>3, <1>7, <1>8

LEMMA DateIsDay ==
    ASSUME NEW date, IsDate(date)
    PROVE  CalendarDay(date) /\ date[1] \in Nat /\ date[3] <= LastDay(date[1], date[2])
<1>1. LastDay(date[1], date[2]) \in Int
  BY DEF IsDate, LastDay, MonthDays
<1>. QED
  BY <1>1, DateInSomeYear DEF CalendarDay, IsDate

(* Age in terms of whole years *)
LEMMA AgeIs ==
    ASSUME NEW birth, IsDate(birth), NEW now, IsDate(now)
    PROVE  /\ Age(birth, now) = Years(birth, now)
           /\ Age(birth, now) \in Int
           /\ now[1] - birth[1] - 1 <= Age(birth, now)
           /\ Age(birth, now) <= now[1] - birth[1]
<1>1. /\ birth[1] \in Int /\ now[1] \in Int
      /\ HadBirthday(birth, now) <=> NotBefore(now[2], now[3], birth[2], birth[3])
  BY DEF IsDate, HadBirthday, NotBefore
<1>. QED
  BY <1>1 DEF Age, Years

(* Read as it is, a date of birth makes a voter as old as he is, or a year *)
(* older for the leap days.                                                *)
LEMMA AgeAsRead ==
    ASSUME NEW birth, IsDate(birth), NEW now, IsDate(now), Age(birth, now) \in 0..117
    PROVE  /\ DayOf(birth) \in Int /\ DayOf(now) \in Int
           /\ Last(Age(birth, now), DayOf(now) - DayOf(birth))
           /\ YearsSince(DayOf(birth), DayOf(now)) \in {Age(birth, now), Age(birth, now) + 1}
<1>1. CalendarDay(birth) /\ CalendarDay(now)
  BY DateIsDay
<1>2. DayOf(birth) \in Int /\ DayOf(now) \in Int
  BY <1>1, CalendarDayInt
<1>3. Age(birth, now) = Years(birth, now) /\ Years(birth, now) \in 0..117
  BY AgeIs
<1>4. Last(Years(birth, now), DayOf(now) - DayOf(birth))
  BY <1>1, <1>3, Elapsed
<1>. QED
  BY <1>2, <1>3, <1>4, YearsPast

(* Read as a hundred years later, it makes him a hundred years younger.    *)
LEMMA AgeACenturyLater ==
    ASSUME NEW birth, IsDate(birth), NEW now, IsDate(now), Age(birth, now) \in 18..116
    PROVE  YearsSince(Day(birth[1] + 100, birth[2], birth[3]), DayOf(now))
             \in {Age(birth, now) - 100, Age(birth, now) - 99}
<1>. DEFINE p == <<birth[1] + 100, birth[2], birth[3]>>
            a == Age(birth, now)
<1>1. /\ birth[1] \in Int /\ now[1] \in Int
      /\ p[1] = birth[1] + 100 /\ p[2] = birth[2] /\ p[3] = birth[3]
      /\ DayOf(p) = Day(birth[1] + 100, birth[2], birth[3])
  BY DateIsDay DEF DayOf, IsDate
<1>2. CalendarDay(birth) /\ CalendarDay(now) /\ now[3] <= LastDay(now[1], now[2])
  BY DateIsDay
<1>. HIDE DEF p
<1>3. CalendarDay(p)
  BY <1>1, <1>2 DEF CalendarDay
<1>4. a = Years(birth, now) /\ a \in 18..116
  BY AgeIs
<1>5. DayOf(p) \in Int /\ DayOf(now) \in Int
  BY <1>2, <1>3, CalendarDayInt
<1>. HIDE DEF a
<1>6. CASE a >= 100
  <2>1. Years(p, now) = a - 100
    BY <1>1, <1>4 DEF Years
  <2>2. Years(p, now) \in 0..117
    BY <1>4, <1>6, <2>1
  <2>3. Last(Years(p, now), DayOf(now) - DayOf(p))
    BY <1>2, <1>3, <2>2, Elapsed
  <2>4. YearsSince(DayOf(p), DayOf(now)) \in {Years(p, now), Years(p, now) + 1}
    BY <1>5, <2>2, <2>3, YearsPast
  <2>. QED
    BY <1>1, <1>4, <2>1, <2>4 DEF a
<1>7. CASE a < 100
  <2>1. now[2] \in Int /\ now[3] \in Int /\ p[2] \in Int /\ p[3] \in Int
    BY <1>2, <1>3, CalendarDayInt
  <2>2. CASE SameDay(now, p)
    <3>1. Years(now, p) = 100 - a
      BY <1>1, <1>4, <2>1, <2>2 DEF Years, NotBefore, SameDay
    <3>2. Years(now, p) \in 1..117 /\ Years(now, p) \in 0..117
      BY <1>4, <1>7, <3>1
    <3>3. /\ Last(Years(now, p), DayOf(p) - DayOf(now))
          /\ DayOf(p) - DayOf(now) <= 365 * Years(now, p) + 30
      BY <1>2, <1>3, <2>2, <3>2, Elapsed
    <3>4. YearsSince(DayOf(p), DayOf(now)) \in {-Years(now, p), 1 - Years(now, p)}
      BY <1>5, <3>2, <3>3, YearsToTheDay
    <3>. QED
      BY <1>1, <1>4, <3>1, <3>4 DEF a
  <2>3. CASE ~SameDay(now, p)
    <3>1. Years(now, p) = 99 - a
      BY <1>1, <1>4, <2>1, <2>3 DEF Years, NotBefore, SameDay
    <3>2. Years(now, p) \in 0..117
      BY <1>4, <1>7, <3>1
    <3>3. /\ Last(Years(now, p), DayOf(p) - DayOf(now))
          /\ DayOf(p) - DayOf(now) >= 365 * Years(now, p) + 1
      BY <1>2, <1>3, <2>3, <3>2, Elapsed
    <3>4. YearsSince(DayOf(p), DayOf(now)) \in {-Years(now, p), -Years(now, p) - 1}
      BY <1>5, <3>2, <3>3, YearsToCome
    <3>. QED
      BY <1>1, <1>4, <3>1, <3>4 DEF a
  <2>. QED
    BY <2>2, <2>3
<1>. QED
  BY <1>4, <1>6, <1>7

(* Births before 2000, on any day *)
LEMMA BornBefore2000 ==
    ASSUME NEW birth, IsDate(birth), birth[1] < 2000, NEW now, IsDate(now), now[1] >= 80
    PROVE  AgeFits(birth, now)
<1>. DEFINE a == Age(birth, now)
            ys == YearsSince(ParsedDay(PeselOf(birth), now), DayOf(now))
<1>1. SUFFICES ASSUME a \in 18..116
               PROVE  calcAgeFromPesel(PeselOf(birth), now) \in {a, a + 1}
  BY DEF AgeFits
<1>2. PeselOf(birth)[2] = birth[2] /\ birth[2] \in Int
  BY DEF PeselOf, IsDate
<1>3. now[1] - 117 <= birth[1] /\ birth[1] <= now[1]
  BY <1>1, AgeIs DEF IsDate
<1>4. \/ ParsedDay(PeselOf(birth), now) = DayOf(birth)
      \/ ParsedDay(PeselOf(birth), now) = Day(birth[1] + 100, birth[2], birth[3])
  BY <1>2, <1>3, Parsed DEF DayOf
<1>5. ys \in {a, a + 1} \/ ys \in {a - 100, a - 99}
  BY <1>1, <1>4, AgeAsRead, AgeACenturyLater
<1>6. calcAgeFromPesel(PeselOf(birth), now) = IF ys < 18 THEN ys + 100 ELSE ys
  BY DEF calcAgeFromPesel
<1>. HIDE DEF a, ys
<1>. QED
  BY <1>1, <1>5, <1>6

(* The date that is read for a birth after 1999: 20 months later, but in   *)
(* the right century.                                                      *)
LEMMA ParsedAfter1999 ==
    ASSUME NEW birth, IsDate(birth), birth[1] >= 2000, NEW now, IsDate(now),
           now[1] >= 80, birth[1] <= now[1], birth[1] >= now[1] - 80
    PROVE  /\ ParsedDay(PeselOf(birth), now) = Day(birth[1], birth[2] + 20, birth[3])
           /\ Day(birth[1], birth[2] + 20, birth[3]) \in Int
           /\ Day(birth[1], birth[2] + 20, birth[3]) - DayOf(birth) \in 607..612
<1>. DEFINE y == birth[1]   m == birth[2]   d == birth[3]
            day == Day(y, m + 20, d)   born == Day(y, m, d)
            sameday == Day(y, now[2], now[3])
            n == now[2]   e == now[3]
<1>1. y \in Int /\ m \in Int /\ d \in Int /\ InSomeYear(m, d) /\ InSomeYear(n, e)
  BY DateIsDay, CalendarDayInt DEF CalendarDay
<1>2. PeselOf(birth)[2] = m + 20 /\ m + 20 \in Int
  BY <1>1 DEF PeselOf
<1>3. now[1] - 117 <= y /\ now[1] \in Int
  BY <1>1 DEF IsDate
<1>. HIDE DEF y, m, d, n, e
<1>4. day - born \in 607..612
  BY <1>1, TwentyMonthsLater
<1>. DEFINE i == InYear(m, d)   j == InYear(n, e)
            u == Leaps(LeapYear(y, m))   v == Leaps(LeapYear(y, n))
<1>5. /\ born = 365 * y + u + i
      /\ Day(y, n, e) = 365 * y + v + j
  BY <1>1, DayIs
<1>6. i \in 1..365 /\ j \in 1..365
  BY <1>1, InYearRange
<1>7. u \in Int /\ v \in Int /\ v - u <= 1
  <2>1. /\ Leaps(y) \in Int /\ Leaps(y - 1) \in Int
        /\ Leaps(y) = Leaps(y - 1) + IF IsLeap(y) THEN 1 ELSE 0
    BY <1>1, LeapStep
  <2>2. /\ u = Leaps(y) \/ u = Leaps(y - 1)
        /\ v = Leaps(y) \/ v = Leaps(y - 1)
    BY DEF LeapYear
  <2>. HIDE DEF u, v
  <2>. QED
    BY <2>1, <2>2
<1>8. day \in Int
  BY <1>1, <1>2, DayInt
<1>. HIDE DEF i, j, u, v, day, born
<1>9. ~(day <= Day(y, n, e))
  BY <1>1, <1>4, <1>5, <1>6, <1>7, <1>8
<1>10. ParsedDay(PeselOf(birth), now) = day
  BY <1>2, <1>3, <1>9, Parsed DEF y, m, d, n, e, day
<1>11. DayOf(birth) = born
  BY DEF DayOf, born, y, m, d
<1>. QED
  BY <1>4, <1>8, <1>10, <1>11 DEF day, y, m, d

(* Births after 1999, until the first of them are 80 *)
LEMMA BornAfter1999 ==
    ASSUME NEW birth, IsDate(birth), birth[1] >= 2000,
           NEW now, IsDate(now), now[1] <= 2080
    PROVE  AgeFits(birth, now)
<1>. DEFINE a == Age(birth, now)
            day == Day(birth[1], birth[2] + 20, birth[3])
            born == DayOf(birth)   today == DayOf(now)
            x == today - day
            ys == YearsSince(day, today)
<1>0. birth[1] \in Int /\ now[1] \in Int /\ ~(birth[1] < 2000)
  BY DEF IsDate
<1>1. SUFFICES ASSUME a \in 20..116
               PROVE  calcAgeFromPesel(PeselOf(birth), now) \in {a - 2, a - 1}
  BY <1>0 DEF AgeFits
<1>2. birth[1] <= now[1] /\ birth[1] >= now[1] - 80 /\ now[1] >= 80
  BY <1>0, <1>1, AgeIs
<1>3. ParsedDay(PeselOf(birth), now) = day /\ day \in Int /\ day - born \in 607..612
  BY <1>2, ParsedAfter1999
<1>4. born \in Int /\ today \in Int /\ Last(a, today - born)
  BY <1>1, AgeAsRead
<1>5. calcAgeFromPesel(PeselOf(birth), now) = IF ys < 18 THEN ys + 100 ELSE ys
  BY <1>3 DEF calcAgeFromPesel
<1>. HIDE DEF a, day, born, today
<1>6. x \in Int /\ 365 * (a - 2) <= x /\ x < 365 * a /\ day <= today
  BY <1>1, <1>3, <1>4 DEF Last
<1>7. ys = x \div 365
  BY <1>6 DEF YearsSince
<1>. HIDE DEF x
<1>8. ys \in {a - 2, a - 1}
  BY <1>1, <1>6, <1>7
<1>. QED
  BY <1>1, <1>5, <1>8

(* AgeAlwaysFits: the age counted is the one that PeselAge states for      *)
(* every date of birth and every day of the years 80 to 2080; in 2081      *)
(* those born in 2000 are more than 80 years back, and it is not.          *)
THEOREM AgeAlwaysFits ==
    ASSUME NEW birth, IsDate(birth), NEW now, IsDate(now),
           80 <= now[1], now[1] <= 2080
    PROVE  AgeFits(birth, now)
<1>1. birth[1] < 2000 \/ birth[1] >= 2000
  BY DEF IsDate
<1>2. now[1] >= 80
  BY DEF IsDate
<1>. QED
  BY <1>1, <1>2, BornBefore2000, BornAfter1999

LEMMA EveryAge == EveryAgeFits
<1>1. SUFFICES ASSUME NEW birth \in Births, NEW now \in MCNow PROVE AgeFits(birth, now)
  BY DEF EveryAgeFits
<1>2. IsDate(now) /\ 80 <= now[1] /\ now[1] <= 2080
  BY Months DEF MCNow, IsDate, LastDay, IsLeap
<1>3. birth[1] \in Nat /\ birth[2] \in 1..12
  BY DEF Births
<1>4. LastDay(birth[1], birth[2]) \in 28..31
  <2>1. \/ birth[2] = 1 \/ birth[2] = 2 \/ birth[2] = 3 \/ birth[2] = 4
        \/ birth[2] = 5 \/ birth[2] = 6 \/ birth[2] = 7 \/ birth[2] = 8
        \/ birth[2] = 9 \/ birth[2] = 10 \/ birth[2] = 11 \/ birth[2] = 12
    BY <1>3
  <2>. QED
    BY <2>1, Months DEF LastDay
<1>5. birth[3] \in {1, 2, 10, 15, 28, LastDay(birth[1], birth[2])}
  BY DEF Births
<1>6. birth[3] \in 1..LastDay(birth[1], birth[2])
  BY <1>4, <1>5
<1>7. IsDate(birth)
  BY <1>3, <1>6 DEF IsDate
<1>. QED
  BY <1>2, <1>7, AgeAlwaysFits

(* CountedAges: votes are never counted with another age than that.        *)
THEOREM CountedAges == Spec => []AgesFit
<1>1. AgesFit
  BY EveryAge DEF AgesFit
<1>. QED
  BY <1>1, PTL

==============================================================================
