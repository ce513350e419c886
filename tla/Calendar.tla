------------------------------- MODULE Calendar -------------------------------
(***************************************************************************)
(* Dates as the code computes with them (datetime.date and the calendar    *)
(* module): a date is a month, counted from year 0, and a day of it.       *)
(***************************************************************************)
EXTENDS Integers

Month(year, month) == 12 * year + month - 1
Date(year, month, day) == [m |-> Month(year, month), d |-> day]
YearOf(m) == m \div 12

IsLeap(year) == year % 4 = 0 /\ (year % 100 # 0 \/ year % 400 = 0)

(* calendar.monthrange *)
DaysIn(m) ==
  IF m % 12 = 1 THEN IF IsLeap(YearOf(m)) THEN 29 ELSE 28
  ELSE IF m % 12 \in {3, 5, 8, 10} THEN 30 ELSE 31

(* date.toordinal of the first of a month: 1 January of year 1 is day 1. *)
DaysBefore == <<0, 31, 59, 90, 120, 151, 181, 212, 243, 273, 304, 334>>
FirstOf(m) ==
  LET y    == YearOf(m) - 1
      leap == IF IsLeap(y + 1) /\ m % 12 > 1 THEN 1 ELSE 0
  IN  365 * y + y \div 4 - y \div 100 + y \div 400 + DaysBefore[(m % 12) + 1] + leap + 1

Ordinal(date) == FirstOf(date.m) + date.d - 1

LastDay == Ordinal(Date(9999, 12, 31))  \* date.max.toordinal

(* date.fromordinal *)
DateOf(n) ==
  LET guess == 12 * ((n * 100) \div 36525)
      m     == CHOOSE k \in guess - 12 .. guess + 36 : FirstOf(k) <= n /\ n < FirstOf(k + 1)
  IN  [m |-> m, d |-> n - FirstOf(m) + 1]

(* date.weekday: Monday is 0. *)
Weekday(n) == (n + 6) % 7

(* The same day so many months earlier, or the last day of that month. *)
ShiftMonths(date, months) ==
  LET m == date.m - months
  IN  [m |-> m, d |-> IF date.d > DaysIn(m) THEN DaysIn(m) ELSE date.d]
===============================================================================
