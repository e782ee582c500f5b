------------------------------- MODULE PeselAge -------------------------------
(***************************************************************************)
(* calcAgeFromPesel of Statistics.java.  A PESEL begins with the date of   *)
(* birth, yymmdd, the month being 20 more for those born after 1999.  The  *)
(* code reads it as any date of two-digit years, counts days, and takes    *)
(* 365 of them for a year.                                                 *)
(***************************************************************************)
EXTENDS Integers, Sequences

IsLeap(y) == y % 4 = 0 /\ (y % 100 # 0 \/ y % 400 = 0)

MonthDays == <<31, 28, 31, 30, 31, 30, 31, 31, 30, 31, 30, 31>>
DaysBefore == <<0, 31, 59, 90, 120, 151, 181, 212, 243, 273, 304, 334>>
LastDay(y, m) == MonthDays[m] + IF m = 2 /\ IsLeap(y) THEN 1 ELSE 0

(* The number of a day; a calendar is lenient: month 13 is next January.   *)
Day(year, month, d) ==
    LET y == year + (month - 1) \div 12
        n == ((month - 1) % 12) + 1
    IN 365 * y + (y - 1) \div 4 - (y - 1) \div 100 + (y - 1) \div 400
         + DaysBefore[n] + d + IF n > 2 /\ IsLeap(y) THEN 1 ELSE 0

DayOf(date) == Day(date[1], date[2], date[3])

(* A PESEL is its first six digits: <<yy, mm, dd>>. *)
PeselOf(birth) ==
    <<birth[1] % 100, IF birth[1] < 2000 THEN birth[2] ELSE birth[2] + 20, birth[3]>>

(* SimpleDateFormat("yyMMdd"): the date within the 100 years that begin    *)
(* 80 years ago; only for the first of them the day is looked at.          *)
ParsedDay(pesel, now) ==
    LET from == now[1] - 80
        y == (from \div 100) * 100 + pesel[1] + IF pesel[1] < from % 100 THEN 100 ELSE 0
        ambiguous == pesel[1] = from % 100 /\
                     Day(y, pesel[2], pesel[3]) <= Day(from, now[2], now[3])
    IN Day(IF ambiguous THEN y + 100 ELSE y, pesel[2], pesel[3])

(* Whole years of 365 days from a midnight to some time of today, truncated *)
(* towards 0.                                                              *)
YearsSince(day, today) ==
    IF day <= today THEN (today - day) \div 365 ELSE -((day - today - 1) \div 365)

(* Mutant of calcAgeFromPesel: a birthday to come is not a century ago. *)
calcAgeInCentury(pesel, now) == YearsSince(ParsedDay(pesel, now), DayOf(now))

calcAgeFromPesel(pesel, now) ==
    LET diff == YearsSince(ParsedDay(pesel, now), DayOf(now))
    IN IF diff < 18 THEN diff + 100 ELSE diff

(***************************************************************************)
(* The age somebody has.                                                   *)
(***************************************************************************)
HadBirthday(birth, now) ==
    now[2] > birth[2] \/ (now[2] = birth[2] /\ now[3] >= birth[3])

Age(birth, now) == now[1] - birth[1] - IF HadBirthday(birth, now) THEN 0 ELSE 1

(* What calcAgeFromPesel may be off by: one year too many for the leap     *)
(* days, or above 80, where what is left to a hundred is rounded; for      *)
(* those born after 1999 the 20 months make it one or two too few.  Such a *)
(* voter under 20 may seem to be over 100.                                 *)
AgeFits(birth, now) ==
    LET age == Age(birth, now)
        calc == calcAgeFromPesel(PeselOf(birth), now)
    IN IF birth[1] < 2000
       THEN age \in 18..116 => calc \in {age, age + 1}
       ELSE age \in 20..116 => calc \in {age - 2, age - 1}

==============================================================================
