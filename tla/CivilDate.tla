----------------------------- MODULE CivilDate -----------------------------
(***************************************************************************)
(* civil_from_unix (src/sources/tmdb.rs): the date in the name of a day's  *)
(* TMDB export, from seconds since 1970, by a clock that goes from day to  *)
(* day.                                                                    *)
(***************************************************************************)
EXTENDS Integers

CONSTANT LastSecond     \* bound on the seconds that are converted
VARIABLE today          \* utc_today: days since 1970
ASSUME LastSecondAssumption == LastSecond \in Int

\* Mutant of CivilFromDays: the year is not carried from March to January.
CivilFromDaysMarch(days) ==
  LET z == days + 719468
      era == z \div 146097
      doe == z - era * 146097
      yoe == (doe - doe \div 1460 + doe \div 36524 - doe \div 146096) \div 365
      doy == doe - (365 * yoe + yoe \div 4 - yoe \div 100)
      mp == (5 * doy + 2) \div 153
  IN  << yoe + era * 400, IF mp < 10 THEN mp + 3 ELSE mp - 9, doy - (153 * mp + 2) \div 5 + 1 >>

\* Days from 0000-03-01 on, in eras of 400 years that end in a leap day.
CivilFromDays(days) ==
  LET z == days + 719468
      era == z \div 146097
      doe == z - era * 146097
      yoe == (doe - doe \div 1460 + doe \div 36524 - doe \div 146096) \div 365
      doy == doe - (365 * yoe + yoe \div 4 - yoe \div 100)
      mp == (5 * doy + 2) \div 153
      m == IF mp < 10 THEN mp + 3 ELSE mp - 9
  IN  << yoe + era * 400 + (IF m <= 2 THEN 1 ELSE 0), m, doy - (153 * mp + 2) \div 5 + 1 >>

CivilFromUnix(secs) == CivilFromDays(secs \div 86400)

(***************************************************************************)
(* The calendar, a day after the other.                                    *)
(***************************************************************************)
Leap(y) == y % 4 = 0 /\ (y % 100 = 0 => y % 400 = 0)
DaysIn(y, m) ==
  CASE m = 2 -> IF Leap(y) THEN 29 ELSE 28
    [] m \in {4, 6, 9, 11} -> 30
    [] OTHER -> 31

DayAfter(date) ==
  CASE date[3] < DaysIn(date[1], date[2]) -> <<date[1], date[2], date[3] + 1>>
    [] date[3] = DaysIn(date[1], date[2]) /\ date[2] < 12 -> <<date[1], date[2] + 1, 1>>
    [] OTHER -> <<date[1] + 1, 1, 1>>

\* The day after `day` is the calendar's next one, counted from the first day of
\* 1970, and every second of the day (if seconds are that large) has its date.
FollowsCalendar(day) ==
  /\ CivilFromDays(0) = <<1970, 1, 1>>
  /\ CivilFromDays(day + 1) = DayAfter(CivilFromDays(day))
  /\ day < LastSecond \div 86400 =>
       \A s \in {0, 1, 86399} : CivilFromUnix(86400 * day + s) = CivilFromDays(day)

(***************************************************************************)
(* The clock.                                                              *)
(***************************************************************************)
DateInit == today \in Nat
Midnight == today' = today + 1
DateSpec == DateInit /\ [][Midnight]_today

\* Every export is looked for under the date the calendar has for today, leap days
\* and turns of the century included.
DatesFollowCalendar == FollowsCalendar(today)
=============================================================================
