----------------------------- MODULE MCEventVenues -----------------------------
(* Small instances of EventVenues for TLC. *)
EXTENDS EventVenues, TLC

CONSTANTS v1, v2, often, once, fortnightly

Day(y, m, d) == MonthStart(y, m) + d - 1

Blank == [frequency |-> "", interval |-> 1, weekdays |-> {}, weekday |-> {},
          monthDay |-> {}, nth |-> {}, month |-> {}, date |-> {}]

Weekly(every, weekdays) ==
  [Blank EXCEPT !.frequency = "weekly", !.interval = every, !.weekdays = weekdays]
Monthly(every, day) ==
  [Blank EXCEPT !.frequency = "monthly", !.interval = every, !.monthDay = {day}]
NthMonthly(every, weekday, nth) ==
  [Blank EXCEPT !.frequency = "monthly", !.interval = every, !.weekday = {weekday}, !.nth = {nth}]
Yearly(every, month, rule) ==
  [rule EXCEPT !.frequency = "yearly", !.interval = every, !.month = {month}]
Once(day) == [Blank EXCEPT !.frequency = "once", !.date = {day}]

(* Monday 28 February 2028 is day 740404.  The tables below are written    *)
(* out; the ASSUME compares them with the calculation, and says which of   *)
(* them are steady.                                                        *)
RuleOf == (often :> Weekly(1, {0, 2})) @@ (once :> Once(Day(2028, 2, 28)))
            @@ (fortnightly :> Weekly(2, {0}))

(* Mondays and Wednesdays from a Monday on, and a single Monday. *)
MCOccurrence ==
  (often :> ((740404 :> 740404) @@ (740405 :> 740406)))
    @@ (once :> ((740404 :> 740404) @@ (740405 :> 0)))

(* Every second Monday, from a Tuesday on. *)
FortnightOccurrence ==
  fortnightly :> [d \in 740384..740398 |->
    CASE d \in 740384..740389 -> 740397
      [] d = 740390           -> 740390
      [] d \in 740391..740396 -> 740404
      [] d = 740397           -> 740397
      [] d = 740398           -> 740411]

ASSUME Tables ==
  /\ Day(2028, 2, 28) = 740404 /\ Weekday(740404) = 0
  /\ \A r \in Rule, d \in Days : Occurrence[r][d] = computeOccurrence(RuleOf[r], d)
  /\ Steady <=> fortnightly \notin Rule
  /\ Sampled /\ \A r \in Rule : WellFormed(RuleOf[r])

SampleRules ==
  {Weekly(1, {0, 2}), Weekly(0, {6}), Weekly(2, {1}), Weekly(29, {0}), Weekly(1, {9}),
   [Blank EXCEPT !.frequency = "weekly", !.weekday = {3}], Blank,
   Monthly(1, 31), Monthly(1, 1), Monthly(3, 30), Monthly(1, 0),
   NthMonthly(1, 2, -1), NthMonthly(1, 5, 5), NthMonthly(2, 0, 1), NthMonthly(1, 4, -2),
   Yearly(1, 2, Monthly(1, 29)), Yearly(2, 12, NthMonthly(1, 6, 4)), Yearly(1, 13, Monthly(1, 1)),
   Once(Day(2028, 3, 26))}

(* The end of a year, a leap day, and the weeks before the clocks change. *)
SampleDays ==
  (Day(2027, 12, 29)..Day(2028, 1, 2)) \cup (Day(2028, 2, 25)..Day(2028, 3, 4))
    \cup (Day(2028, 3, 21)..Day(2028, 4, 1)) \cup {Day(2028, 10, 29), Day(2028, 10, 31)}
================================================================================
