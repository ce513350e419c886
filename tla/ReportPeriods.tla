---------------------------- MODULE ReportPeriods ----------------------------
(***************************************************************************)
(* The period of a report: presets and typed dates, what they are compared *)
(* with, and the intervals of the chart.  Days are numbers (Ordinal).      *)
(***************************************************************************)
EXTENDS Calendar, Sequences, FiniteSetsExt

CONSTANTS
  Today,    \* days on which somebody looks at reports
  Typed,    \* days somebody types
  MinDate,  \* MIN_DATE
  MaxDays   \* MAX_PERIOD_DAYS

(* Typed dates are dates of the code; a period, the day after it and what  *)
(* it is compared with lie in its calendar, which begins with year 1.      *)
ASSUME DayAssumption ==
  /\ Today # {} /\ Today \cup {MinDate} \subseteq 10 * 366 .. LastDay - 1
  /\ Typed \subseteq 1 .. LastDay
  /\ MaxDays \in 63 .. 3 * 366

VARIABLES
  today,
  page   \* what the page shows: the period, where it comes from, the unit to go back by

periodVars == <<today, page>>

Period(from, to) == [from |-> from, to |-> to]
Length(p) == p.to - p.from + 1
Presets == {"today", "yesterday", "7d", "30d", "month", "prev_month", "quarter", "year"}
NoUnit == 0

Greater(a, b) == IF a > b THEN a ELSE b
Lesser(a, b) == IF a < b THEN a ELSE b

PeriodTypeOK ==
  /\ today \in Today
  /\ page.preset \in Presets \cup {"custom", "none"}
  /\ page.unit \in {NoUnit, 1, 3, 12} /\ (page.preset = "custom" => page.unit = NoUnit)
  /\ page.period.from <= page.period.to
  /\ page.preset = "custom" =>
       /\ page.period.from >= MinDate /\ page.period.to <= Greater(page.asked, MinDate)
       /\ Length(page.period) <= MaxDays

(***************************************************************************)
(* Presets and typed dates.                                                *)
(***************************************************************************)
PresetPeriod(key, day) ==
  LET m == DateOf(day).m IN
  CASE key = "today"      -> Period(day, day)
    [] key = "yesterday"  -> Period(day - 1, day - 1)
    [] key = "7d"         -> Period(day - 6, day)
    [] key = "30d"        -> Period(day - 29, day)
    [] key = "month"      -> Period(FirstOf(m), day)
    [] key = "prev_month" -> Period(FirstOf(m - 1), FirstOf(m) - 1)
    [] key = "quarter"    -> Period(FirstOf(m - (m % 3)), day)
    [] key = "year"       -> Period(FirstOf(12 * YearOf(m)), day)

UnitOf(key) ==
  CASE key \in {"month", "prev_month"} -> 1
    [] key = "quarter"                 -> 3
    [] key = "year"                    -> 12
    [] OTHER                           -> NoUnit

TypedPeriod(a, b, day) ==
  LET to   == Lesser(Greater(Greater(a, b), MinDate), Greater(day, MinDate))
      from == Lesser(Greater(Lesser(a, b), MinDate), to)
  IN  Period(Greater(from, to - MaxDays + 1), to)

(***************************************************************************)
(* previous_period.                                                        *)
(***************************************************************************)
Back(day, months) == Ordinal(ShiftMonths(DateOf(day), months))

MonthsTouched(p) == DateOf(p.to).m - DateOf(p.from).m + 1
IsFirst(day) == DateOf(day).d = 1

(* Mutant: whole months go back like any dates from the first of a month. *)
PreviousByDates(p, unit) ==
  IF unit # NoUnit THEN Period(Back(p.from, unit), Back(p.to, unit))
  ELSE IF IsFirst(p.from) THEN Period(Back(p.from, MonthsTouched(p)), Back(p.to, MonthsTouched(p)))
  ELSE Period(p.from - Length(p), p.to - Length(p))
Previous(p, unit) ==
  LET n == MonthsTouched(p) IN
  CASE unit # NoUnit -> Period(Back(p.from, unit), Back(p.to, unit))
    [] unit = NoUnit /\ IsFirst(p.from) /\ IsFirst(p.to + 1) ->
         Period(Back(p.from, n), Back(p.to + 1, n) - 1)
    [] unit = NoUnit /\ IsFirst(p.from) /\ ~IsFirst(p.to + 1) ->
         Period(Back(p.from, n), Back(p.to, n))
    [] OTHER -> Period(p.from - Length(p), p.to - Length(p))

(***************************************************************************)
(* The chart.                                                              *)
(***************************************************************************)
Step(p) == IF Length(p) <= 31 THEN "day" ELSE IF Length(p) <= 190 THEN "week" ELSE "month"

BucketStart(day, step) ==
  CASE step = "day"   -> day
    [] step = "week"  -> day - Weekday(day)
    [] step = "month" -> FirstOf(DateOf(day).m)

NextBucket(day, step) ==
  CASE step = "day"   -> day + 1
    [] step = "week"  -> day + 7
    [] step = "month" -> FirstOf(DateOf(day).m + 1)

(* Where the cursor of buckets is after so many rounds of its loop; that a *)
(* round takes it to the next interval is a part of ChartCoversPeriod.     *)
CursorAfter(first, step, rounds) ==
  CASE step = "day"   -> first + rounds
    [] step = "week"  -> first + 7 * rounds
    [] step = "month" -> FirstOf(DateOf(first).m + rounds)

(* buckets: the loop goes on until the cursor has passed the end. *)
Buckets(p) ==
  LET first  == BucketStart(p.from, Step(p))
      passed == {n \in 1 .. Length(p) : CursorAfter(first, Step(p), n) > p.to}
  IN  [i \in 1 .. Min(passed) |-> CursorAfter(first, Step(p), i - 1)]

(***************************************************************************)
(* The page.                                                               *)
(***************************************************************************)
Page(period, preset, unit) == [period |-> period, preset |-> preset, unit |-> unit, asked |-> today]

PeriodInit ==
  /\ today = CHOOSE d \in Today : \A e \in Today : d <= e
  /\ page = Page(Period(today, today), "none", NoUnit)  \* not open yet

OpenPreset(key) ==
  /\ page' = Page(PresetPeriod(key, today), key, UnitOf(key))
  /\ UNCHANGED today

OpenTyped(a, b) ==
  /\ page' = Page(TypedPeriod(a, b, today), "custom", NoUnit)
  /\ UNCHANGED today

(* The page stays open while the days go by. *)
DaysPass == today' \in {d \in Today : d > today} /\ UNCHANGED page

PeriodNext ==
  \/ \E key \in Presets : OpenPreset(key)
  \/ \E a, b \in Typed : OpenTyped(a, b)
  \/ DaysPass

Open == page.preset # "none"

PeriodSpec == PeriodInit /\ [][PeriodNext]_periodVars

-----------------------------------------------------------------------------
(***************************************************************************)
(* Properties.                                                             *)
(***************************************************************************)

(* What a period is compared with is over before it begins; it has the     *)
(* same months' share when the period goes by the calendar, and is the     *)
(* stretch of the same length right before it when it does not.            *)
ComparedWithBefore == Open =>
  LET p == page.period
      q == Previous(p, page.unit)
      calendar == page.unit # NoUnit \/ IsFirst(p.from)
  IN  /\ q.from <= q.to /\ q.to < p.from
      /\ calendar => MonthsTouched(q) = MonthsTouched(p) /\ DateOf(q.from).d = DateOf(p.from).d
      /\ ~calendar => Length(q) = Length(p) /\ q.to + 1 = p.from

(* Typed whole months are compared with as many whole months right before. *)
WholeMonthsStayWhole == Open =>
  LET p == page.period
      q == Previous(p, NoUnit)
  IN  page.preset = "custom" /\ IsFirst(p.from) /\ IsFirst(p.to + 1) =>
        IsFirst(q.from) /\ q.to + 1 = p.from

(* The chart has every day of the period in exactly one interval, no       *)
(* interval without a day of it, weeks that begin on Monday and months on  *)
(* the first as date_trunc has them, and never more than 40 points.        *)
ChartCoversPeriod == Open =>
  LET p == page.period
      b == Buckets(p)
  IN  /\ b # <<>> /\ b[1] <= p.from /\ NextBucket(b[1], Step(p)) > p.from
      /\ \A i \in 1 .. Len(b) - 1 : b[i + 1] = NextBucket(b[i], Step(p))
      /\ b[Len(b)] <= p.to /\ p.to < NextBucket(b[Len(b)], Step(p))
      /\ Step(p) = "week" => \A i \in DOMAIN b : Weekday(b[i]) = 0
      /\ Step(p) = "month" => \A i \in DOMAIN b : IsFirst(b[i])
      /\ Len(b) <= 40

(* The periods of the reports: compared with what was before, whole months *)
(* with whole months, charted day by day.                                  *)
PeriodInv == PeriodTypeOK /\ ComparedWithBefore /\ WholeMonthsStayWhole /\ ChartCoversPeriod
===============================================================================
