--------------------------- MODULE RecurringDates ----------------------------
(***************************************************************************)
(* When a recurring template is due.  A day is its number in the calendar    *)
(* (date.toordinal).  A template names a trigger day in each month, quarter  *)
(* or year: the units of its anchor, which are numbered.  The code walks     *)
(* down the units from that of today; PeriodsDue says what is meant.         *)
(***************************************************************************)
EXTENDS Integers, FiniteSets, FiniteSetsExt

CONSTANTS
  SafetyLimit,  \* compute_pending_periods, safety_limit: periods a walk collects
  MaxSteps      \* _MAX_DESCENDING_STEPS: units a walk visits

ASSUME LimitsAssumption == SafetyLimit \in Nat \ {0} /\ MaxSteps \in Nat \ {0}

------------------------------------------------------------------------------
(* The calendar. *)

IsLeap(y) == y % 4 = 0 /\ (y % 100 # 0 \/ y % 400 = 0)

MonthLength(y, m) == IF m = 2 THEN IF IsLeap(y) THEN 29 ELSE 28
                     ELSE IF m \in {4, 6, 9, 11} THEN 30 ELSE 31

DayOf(y, m, d) ==
  LET before == <<0, 31, 59, 90, 120, 151, 181, 212, 243, 273, 304, 334>>
  IN  365 * (y - 1) + (y - 1) \div 4 - (y - 1) \div 100 + (y - 1) \div 400
        + before[m] + (IF m > 2 /\ IsLeap(y) THEN 1 ELSE 0) + d

YearOf(n) == CHOOSE y \in (n \div 366)..(n \div 365 + 1) : DayOf(y, 1, 1) <= n /\ n < DayOf(y + 1, 1, 1)
MonthOf(n) == LET y == YearOf(n)
              IN  CHOOSE m \in 1..12 : n - DayOf(y, m, 1) \in 0..(MonthLength(y, m) - 1)
DayInMonth(n) == n - DayOf(YearOf(n), MonthOf(n), 1) + 1

------------------------------------------------------------------------------
(* Absolute anchors: [form, n, month, day], as far as the form has them. *)

NoDay == 0

Unit(a, n) ==
  CASE a.form \in {"month_end", "month_start"} -> 12 * YearOf(n) + MonthOf(n) - 1
    [] a.form = "quarter_end_plus" -> 4 * YearOf(n) + (MonthOf(n) - 1) \div 3
    [] a.form \in {"fixed", "T_before"} -> YearOf(n)

QuarterEnd(u) == DayOf(u \div 4, (3 * (u % 4)) + 3, MonthLength(u \div 4, (3 * (u % 4)) + 3))

(* _resolve_fixed_in_year: there is no 29 February in most years, and no year before the first. *)
FixedDay(y, m, d) == IF y >= 1 /\ d <= MonthLength(y, m) THEN DayOf(y, m, d) ELSE NoDay

Trigger(a, u) ==
  CASE a.form = "month_end" -> DayOf(u \div 12, (u % 12) + 1, MonthLength(u \div 12, (u % 12) + 1))
    [] a.form = "month_start" -> DayOf(u \div 12, (u % 12) + 1, 1)
    [] a.form = "quarter_end_plus" -> QuarterEnd(u) + a.n
    [] a.form = "fixed" -> FixedDay(u, a.month, a.day)
    [] a.form = "T_before" -> IF FixedDay(u, a.month, a.day) = NoDay THEN NoDay
                              ELSE FixedDay(u, a.month, a.day) - a.n

(* Strictly below: what triggers today waits until tomorrow. *)
YieldedBefore(a, asOf) ==
  {u \in (Unit(a, asOf) - MaxSteps + 1)..Unit(a, asOf) : Trigger(a, u) # NoDay /\ Trigger(a, u) < asOf}

(* What the walk down from asOf yields. *)
Yielded(a, asOf) ==
  {u \in (Unit(a, asOf) - MaxSteps + 1)..Unit(a, asOf) : Trigger(a, u) # NoDay /\ Trigger(a, u) <= asOf}

(* compute_pending_periods with a baseline. *)
Pending(a, asOf, since, catchup) ==
  LET yielded == Yielded(a, asOf)
      collected == {u \in yielded : /\ Trigger(a, u) > since
                                    /\ Cardinality({v \in yielded : v > u}) < SafetyLimit}
  IN  IF catchup = "next" /\ collected # {} THEN {Max(collected)} ELSE collected

(* _apply_year_cadence. *)
OnCadence(a, u) == a.cycle <= 1 \/ (YearOf(Trigger(a, u)) - a.base) % a.cycle = 0
Periods(a, asOf, since, catchup) == {u \in Pending(a, asOf, since, catchup) : OnCadence(a, u)}

------------------------------------------------------------------------------
(* Relative intervals: [form, n]; a period is named by its trigger day. *)

AddTo(a, n) ==
  IF a.form = "days" THEN n + a.n
  ELSE LET month == MonthOf(n) - 1 + a.n
           y == YearOf(n) + month \div 12
           m == (month % 12) + 1
           limit == MonthLength(y, m)
       IN  DayOf(y, m, IF DayInMonth(n) <= limit THEN DayInMonth(n) ELSE limit)

------------------------------------------------------------------------------
(* What is meant, by days and not by walks. *)

IsLastOfMonth(n) == MonthOf(n + 1) # MonthOf(n)
Falls(a, n) ==
  CASE a.form = "month_end" -> IsLastOfMonth(n)
    [] a.form = "month_start" -> DayInMonth(n) = 1
    [] a.form = "quarter_end_plus" -> IsLastOfMonth(n - a.n) /\ MonthOf(n - a.n) % 3 = 0
    [] a.form = "fixed" -> MonthOf(n) = a.month /\ DayInMonth(n) = a.day
    [] a.form = "T_before" -> MonthOf(n + a.n) = a.month /\ DayInMonth(n + a.n) = a.day
DaysDue(a, asOf, since) == {n \in (since + 1)..asOf : Falls(a, n)}

(* A trigger before the year its anchor falls in, as long as that year has not come. *)
NotYetWalkedTo(a, n, asOf) == a.form = "T_before" /\ YearOf(n + a.n) > YearOf(asOf)

(* With a baseline and without a limit to what is collected, exactly the days that are
   meant trigger, but for those before the year of their anchor.                       *)
PeriodsAreRight(a, asOf, since) ==
  LET meant == {n \in DaysDue(a, asOf, since) : ~NotYetWalkedTo(a, n, asOf)}
      collected == {Trigger(a, u) : u \in Pending(a, asOf, since, "all")}
  IN  /\ collected = {n \in meant : Cardinality({m \in meant : m > n}) < SafetyLimit}
      /\ {Trigger(a, u) : u \in Pending(a, asOf, since, "next")} = {n \in meant : \A m \in meant : m <= n}

(* An interval of months ends in the month that many later, on the same day or on the
   last one of a month that has no such day.                                          *)
IntervalIsRight(a, n) ==
  LET end == AddTo(a, n)
  IN  IF a.form = "days" THEN end - n = a.n
      ELSE /\ 12 * YearOf(end) + MonthOf(end) = 12 * YearOf(n) + MonthOf(n) + a.n
           /\ \/ DayInMonth(end) = DayInMonth(n)
              \/ IsLastOfMonth(end) /\ DayInMonth(end) < DayInMonth(n)
==============================================================================
