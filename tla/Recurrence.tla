------------------------------ MODULE Recurrence -------------------------------
(***************************************************************************)
(* components/recurrence: the rules of event venues and the calculation of *)
(* their next occurrence, rules.go and eligibility.go.                     *)
(*                                                                         *)
(* A day is the number of days since Monday 1 January of year 1, so a      *)
(* weekday is a remainder; Monday = 0 is also the contract of the rules.   *)
(* A field of a rule that may be missing is a set with at most one         *)
(* element, and so is the occurrence a calculation returns.                *)
(***************************************************************************)
EXTENDS Integers, FiniteSets

LeadDays == 7

NoDate == 0     \* a missing next_occurrence_date, and a date that does not parse

--------------------------------------------------------------------------------
(* The calendar.                                                           *)

Leap(y) == y % 4 = 0 /\ (y % 100 # 0 \/ y % 400 = 0)

YearStart(y) == 365 * (y - 1) + ((y - 1) \div 4) - ((y - 1) \div 100) + ((y - 1) \div 400)

DaysBefore == <<0, 31, 59, 90, 120, 151, 181, 212, 243, 273, 304, 334, 365>>

MonthStart(y, m) ==
  YearStart(y) + DaysBefore[m] + (IF m > 2 /\ Leap(y) THEN 1 ELSE 0)

MonthDays(y, m) == MonthStart(y, m)..MonthStart(y, m + 1) - 1

YearOf(d) ==
  CHOOSE y \in (d \div 366)..(d \div 365) + 1 : YearStart(y) <= d /\ d < YearStart(y + 1)

MonthOf(d) == CHOOSE m \in 1..12 : d \in MonthDays(YearOf(d), m)

Weekday(d) == d % 7

(* The month that is n months after month m of year y.                     *)
AddMonths(y, m, n) == <<y + ((m - 1 + n) \div 12), ((m - 1 + n) % 12) + 1>>

(* Midnights in British summer time: the clocks change on the last Sundays *)
(* of March and October, later than midnight.                              *)
LastSunday(y, m) ==
  LET last == MonthStart(y, m + 1) - 1 IN last - ((Weekday(last) + 1) % 7)

Summer(d) == LastSunday(YearOf(d), 3) < d /\ d <= LastSunday(YearOf(d), 10)

Midnight(d) == 24 * d - (IF Summer(d) THEN 1 ELSE 0)

--------------------------------------------------------------------------------
(* Rules.  A raw rule has a frequency, which is "" when it is missing, and *)
(* an interval that anyone may have written.                               *)
RawRule ==
  [frequency: STRING, interval: Int, weekdays: SUBSET Int, weekday: SUBSET Int,
   monthDay: SUBSET Int, nth: SUBSET Int, month: SUBSET Int, date: SUBSET Nat]

AtMostOne(S) == \A a, b \in S : a = b

(* The rules there are: but for the weekdays a field has one value or is   *)
(* missing, and a date that does not parse is missing.                     *)
WellFormed(raw) ==
  /\ raw \in RawRule
  /\ AtMostOne(raw.weekday) /\ AtMostOne(raw.monthDay) /\ AtMostOne(raw.nth)
  /\ AtMostOne(raw.month) /\ AtMostOne(raw.date)
  /\ NoDate \notin raw.date

ParseRule(raw) ==
  IF raw.frequency = "" THEN {}
  ELSE {[raw EXCEPT !.interval = IF raw.interval <= 0 THEN 1 ELSE raw.interval]}

monday(d) == d - Weekday(d)

(* Elapsed hours divided by the hours of a week: the week in which the     *)
(* clocks go forward is an hour short.                                     *)
isWeeklyIntervalMatch(start, candidate, interval) ==
  ((Midnight(monday(candidate)) - Midnight(monday(start))) \div (24 * 7)) % interval = 0

nextWeekly(rule, reference) ==
  LET weekdays == IF rule.weekdays # {} THEN rule.weekdays ELSE rule.weekday
      Match(d) == /\ Weekday(d) \in weekdays
                  /\ isWeeklyIntervalMatch(reference, d, rule.interval)
      scanned == reference..reference + 370 * 3 - 1
  IN  IF \E d \in scanned : Match(d)
      THEN {CHOOSE d \in scanned : Match(d) /\ \A e \in reference..d - 1 : ~Match(e)}
      ELSE {}

(* Mutant: the nth weekday is counted from 0.                              *)
nthWeekdayInMonthFromZero(y, m, weekday, nth) ==
  LET matches == {d \in MonthDays(y, m) : Weekday(d) = weekday}
  IN  {d \in matches : Cardinality({e \in matches : e < d}) = nth}

(* The nth day of the month that falls on the weekday; -1 is the last.     *)
nthWeekdayInMonth(y, m, weekday, nth) ==
  LET matches == {d \in MonthDays(y, m) : Weekday(d) = weekday}
  IN  {d \in matches : \/ nth = -1 /\ \A e \in matches : e <= d
                       \/ Cardinality({e \in matches : e <= d}) = nth}

(* "Invalid dates must not silently produce another date" (CDD-0005): a    *)
(* day that the month does not have is no occurrence.                      *)
monthlyOccurrenceInMonth(rule, y, m) ==
  IF rule.monthDay # {}
  THEN {MonthStart(y, m) + day - 1 : day \in rule.monthDay} \cap MonthDays(y, m)
  ELSE UNION {nthWeekdayInMonth(y, m, weekday, nth) : weekday \in rule.weekday, nth \in rule.nth}

(* The first month, in steps of the interval from the reference's, that    *)
(* has an occurrence not before the reference; years likewise.             *)
nextMonthly(rule, reference) ==
  LET Candidate(step) ==
        LET at == AddMonths(YearOf(reference), MonthOf(reference), step * rule.interval)
        IN  {d \in monthlyOccurrenceInMonth(rule, at[1], at[2]) : d >= reference}
      Hit(step) == Candidate(step) # {}
  IN  IF \E step \in 0..599 : Hit(step)
      THEN Candidate(CHOOSE step \in 0..599 : Hit(step) /\ \A t \in 0..step - 1 : ~Hit(t))
      ELSE {}

nextYearly(rule, reference) ==
  LET Candidate(step) ==
        {d \in UNION {monthlyOccurrenceInMonth(rule, YearOf(reference) + step * rule.interval, m) :
                        m \in rule.month \cap 1..12} : d >= reference}
      Hit(step) == Candidate(step) # {}
  IN  IF \E step \in 0..299 : Hit(step)
      THEN Candidate(CHOOSE step \in 0..299 : Hit(step) /\ \A t \in 0..step - 1 : ~Hit(t))
      ELSE {}

NextOccurrence(rule, reference) ==
  CASE rule.frequency = "once"    -> {d \in rule.date : d >= reference}
    [] rule.frequency = "weekly"  -> nextWeekly(rule, reference)
    [] rule.frequency = "monthly" -> nextMonthly(rule, reference)
    [] rule.frequency = "yearly"  -> nextYearly(rule, reference)
    [] OTHER                      -> {}

(* The occurrence that a raw rule gives on a day, or NoDate.               *)
computeOccurrence(raw, today) ==
  LET found == UNION {NextOccurrence(rule, today) : rule \in ParseRule(raw)}
  IN  IF found = {} THEN NoDate ELSE CHOOSE d \in found : TRUE

IsDue(date, today) == date # NoDate /\ today <= date /\ date <= today + LeadDays

--------------------------------------------------------------------------------
(* What a rule means, whatever day it is evaluated on: the days on which   *)
(* the event takes place, by their own month, week and weekday.            *)

DayOfMonth(d) == d - MonthStart(YearOf(d), MonthOf(d)) + 1

MatchesMonth(rule, d) ==
  IF rule.monthDay # {}
  THEN DayOfMonth(d) \in rule.monthDay
  ELSE /\ Weekday(d) \in rule.weekday
       /\ \/ \E n \in rule.nth : DayOfMonth(d) \in 7 * (n - 1) + 1..7 * n
          \/ -1 \in rule.nth /\ MonthOf(d + 7) # MonthOf(d)

TakesPlace(rule, d) ==
  CASE rule.frequency = "once"    -> d \in rule.date
    [] rule.frequency = "weekly"  ->
         Weekday(d) \in (IF rule.weekdays # {} THEN rule.weekdays ELSE rule.weekday)
    [] rule.frequency = "monthly" -> MatchesMonth(rule, d)
    [] rule.frequency = "yearly"  -> MonthOf(d) \in rule.month /\ MatchesMonth(rule, d)
    [] OTHER                      -> FALSE

(* How many weeks, months or years lie between two days.                   *)
UnitsBetween(rule, c, d) ==
  CASE rule.frequency = "weekly"  -> (monday(d) - monday(c)) \div 7
    [] rule.frequency = "monthly" -> 12 * (YearOf(d) - YearOf(c)) + MonthOf(d) - MonthOf(c)
    [] rule.frequency = "yearly"  -> YearOf(d) - YearOf(c)
    [] OTHER                      -> 0

(* The day is the first one, from today on, on which the event takes place *)
(* and which an interval does not skip.  An interval is counted from the   *)
(* week, month or year of the day of the evaluation ("this may re-anchor   *)
(* an interval greater than one", CDD-0005).                               *)
IsFirst(rule, today, date) ==
  LET Fits(d) == TakesPlace(rule, d) /\ UnitsBetween(rule, today, d) % rule.interval = 0
  IN  IF date = NoDate THEN \A d \in today..today + 400 : ~Fits(d)
      ELSE date >= today /\ Fits(date) /\ \A d \in today..date - 1 : ~Fits(d)

(* The clocks go forward between the weeks of the two days.                *)
CrossesSpring(c, d) == ~Summer(monday(c)) /\ Summer(monday(d))

(* Intervals of weeks shorter than summer time, which lasts thirty: an     *)
(* occurrence that the lost hour hides is followed, before the clocks go   *)
(* back, by a day that is taken for one.                                   *)
Counted(raw) == raw.frequency = "weekly" => raw.interval <= 29
================================================================================
