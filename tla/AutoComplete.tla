----------------------------- MODULE AutoComplete ------------------------------
(***************************************************************************)
(* Automatic completion of polls: the durable daily timer of Cellar, local *)
(* idempotency, and the services Discovery, Candidate, Close and           *)
(* Ambiguous of last_orders.                                               *)
(*                                                                         *)
(* Time is counted in half days: 2d is the part of day d before the        *)
(* timer's time of day (16:00), 2d + 1 the part from then on.  A cell is   *)
(* executed at least once, as Cellar says: when the application stops,     *)
(* every cell whose result is not stored is executed from its beginning.   *)
(* Any number of cells may be in execution.                                *)
(***************************************************************************)
EXTENDS Naturals, FiniteSets

CONSTANTS
  Poll,         \* poll documents
  Venue,        \* documents of the pubs collection
  Food,         \* venues whose document says food
  User,         \* people
  Organiser,    \* users who create and complete polls
  Nobody,       \* no user is recorded
  NoVenue,      \* no venue is selected
  LastTime,     \* bound: the last half day
  MaxVotes,     \* bound: votes for one venue
  MaxEdits,     \* bound: what people do
  MaxDisturb    \* bound: stops, crashes and failed calls

ASSUME AutoCompleteConstants ==
  /\ Organiser \subseteq User /\ Food \subseteq Venue
  /\ Nobody \notin User /\ NoVenue \notin Venue
  /\ LastTime \in Nat /\ MaxVotes \in Nat /\ MaxEdits \in Nat /\ MaxDisturb \in Nat

VARIABLES
  poll,         \* poll[p]: the document
  votes,        \* votes[p][v]: number of voters
  pubs,         \* venues whose document exists
  now,          \* half days
  up,           \* the application is running
  timer,        \* deadline of the timer cell, or NoTimer
  firing,       \* the timer's callback has returned
  cells,        \* cells of automatic completion
  claimed,      \* identities in idempotency_records
  discovered,   \* history: discovered[d] discoveries were started for day d
  manual,       \* polls a PollManualCompletionRequired was created for
  edits, disturbed

docVars == <<poll, votes, pubs>>
timerVars == <<timer, firing>>
autoVars == <<docVars, now, up, timerVars, cells, claimed, discovered, manual,
              edits, disturbed>>

LastDay == LastTime \div 2
Day == 0..LastDay
Today == now \div 2

NoTimer == LastTime + 3

State == {"open", "completed", "gone"}
Document ==
  [state: State, date: Day, ids: SUBSET Venue, selected: Venue \cup {NoVenue},
   creator: User \cup {Nobody}, completer: User \cup {Nobody}]

Open(p) == poll[p].state = "open"
Completed(p) == poll[p].state = "completed"

--------------------------------------------------------------------------------
(* Deadlines.                                                              *)

(* Today's time of day when it lies ahead, else tomorrow's.                *)
nextCalendarDeadline(t) ==
  LET deadline == 2 * (t \div 2) + 1
  IN  IF deadline > t THEN deadline ELSE deadline + 2

(* The other recurring mode: from the previous deadline, missed ticks in   *)
(* one.                                                                    *)
nextFixedRateDeadline(previous, t, interval) ==
  IF previous + interval > t THEN previous + interval
  ELSE previous + ((t - previous) \div interval + 1) * interval

(* Candidate's decision.  The loop over the sorted venues keeps the first  *)
(* one with most votes and whether another has as many.                    *)
Reason == {"none", "no_votes", "tie", "winner_not_food_eligible", "winner_venue_missing"}
Decision == [selected: Venue \cup {NoVenue}, reason: Reason]

Selects(v) == [selected |-> v, reason |-> "none"]
Refuses(reason) == [selected |-> NoVenue, reason |-> reason]

Decide(ids, count, eligible, exists) ==
  LET best == {v \in ids : \A w \in ids : count[v] >= count[w]}
      winner == CHOOSE v \in best : TRUE
  IN  IF Cardinality(ids) = 1 THEN Selects(CHOOSE v \in ids : TRUE)
      ELSE IF \A v \in ids : count[v] = 0 THEN Refuses("no_votes")
      ELSE IF Cardinality(best) > 1 THEN Refuses("tie")
      ELSE IF winner \notin exists THEN Refuses("winner_venue_missing")
      ELSE IF winner \notin eligible THEN Refuses("winner_not_food_eligible")
      ELSE Selects(winner)

--------------------------------------------------------------------------------
(* Cells.  Two requests for the same day differ by the time they were made *)
(* in, counted in stops: the timer's callback runs once between two stops  *)
(* and two deadlines.  Discovery makes a candidate of a poll that it lists *)
(* with an identifier, a date and completed false, so Candidate's check of *)
(* its payload (validCandidateTruth) always passes and is left out.        *)
DailyKey(d) == [of |-> "daily", date |-> d]
DueKey(p, d) == [of |-> "due", poll |-> p, date |-> d]
Key == [of: {"daily"}, date: Day] \cup [of: {"due"}, poll: Poll, date: Day]

CheckCell(k) == [kind |-> "check", key |-> k, stage |-> "work", made |-> disturbed]
DiscoverCell(d) == [kind |-> "discover", date |-> d, stage |-> "work"]
CandidateCell(p) == [kind |-> "candidate", poll |-> p, stage |-> "work"]
CloseCell(p, v) == [kind |-> "close", poll |-> p, venue |-> v, stage |-> "work"]
AmbiguousCell(p, reason) == [kind |-> "ambiguous", poll |-> p, reason |-> reason, stage |-> "work"]

(* What a candidate has read is part of its cell.                          *)
Cell ==
  [kind: {"check"}, key: Key, stage: {"work", "absent"}, made: 0..MaxDisturb]
    \cup [kind: {"discover"}, date: Day, stage: {"work"}]
    \cup [kind: {"candidate"}, poll: Poll, stage: {"work"}]
    \cup [kind: {"candidate"}, poll: Poll, ids: SUBSET Venue, stage: {"votes"}]
    \cup [kind: {"candidate"}, poll: Poll, ids: SUBSET Venue, count: [Venue -> 0..MaxVotes],
          stage: {"venues"}]
    \cup [kind: {"close"}, poll: Poll, venue: Venue, stage: {"work", "written"}]
    \cup [kind: {"ambiguous"}, poll: Poll, reason: Reason, stage: {"work"}]

(* The Truth of an identity is fanned out to the handler registered for    *)
(* it.  There is one, so the fanout cell is left out.                      *)
TruthCell(k) == IF k.of = "daily" THEN DiscoverCell(k.date) ELSE CandidateCell(k.poll)

Becomes(c, new) == cells' = (cells \ {c}) \cup new
Ready(c, kind, stage) == up /\ c.kind = kind /\ c.stage = stage

Disturb == disturbed < MaxDisturb /\ disturbed' = disturbed + 1

AutoInit ==
  /\ poll \in [Poll -> [state: {"open"}, date: Day, ids: {Venue}, selected: {NoVenue},
                        creator: Organiser, completer: {Nobody}]]
  /\ votes \in [Poll -> [Venue -> 0..MaxVotes]]
  /\ pubs = Venue
  /\ now = 0
  /\ up = FALSE
  /\ timer = NoTimer
  /\ firing = FALSE
  /\ cells = {}
  /\ claimed = {}
  /\ discovered = [d \in Day |-> 0]
  /\ manual = {}
  /\ edits = 0
  /\ disturbed = 0

--------------------------------------------------------------------------------
(* The world: what people do in the web application, and time.             *)

Edit == edits < MaxEdits /\ edits' = edits + 1

Vote(p, v) ==
  /\ Edit
  /\ Open(p) /\ v \in poll[p].ids
  /\ votes[p][v] < MaxVotes
  /\ votes' = [votes EXCEPT ![p][v] = @ + 1]
  /\ UNCHANGED <<poll, pubs>>

(* A venue is added to the poll or taken from it.                          *)
EditVenues(p, v) ==
  /\ Edit
  /\ Open(p)
  /\ poll' = [poll EXCEPT ![p].ids = IF v \in @ THEN @ \ {v} ELSE @ \cup {v}]
  /\ UNCHANGED <<votes, pubs>>

CompleteManually(p, v, u) ==
  /\ Edit
  /\ Open(p) /\ v \in poll[p].ids
  /\ poll' = [poll EXCEPT ![p].state = "completed", ![p].selected = v, ![p].completer = u]
  /\ UNCHANGED <<votes, pubs>>

Reschedule(p, v) ==
  /\ Edit
  /\ Completed(p) /\ poll[p].selected # v
  /\ poll' = [poll EXCEPT ![p].selected = v, ![p].completer = Nobody]
  /\ UNCHANGED <<votes, pubs>>

DeletePoll(p) ==
  /\ Edit
  /\ poll[p].state \in {"open", "completed"}
  /\ poll' = [poll EXCEPT ![p].state = "gone"]
  /\ votes' = [votes EXCEPT ![p] = [v \in Venue |-> 0]]
  /\ UNCHANGED pubs

DeleteVenue(v) ==
  /\ Edit
  /\ v \in pubs
  /\ pubs' = pubs \ {v}
  /\ UNCHANGED <<poll, votes>>

People ==
  /\ \/ \E p \in Poll, v \in Venue : Vote(p, v) \/ EditVenues(p, v) \/ Reschedule(p, v)
     \/ \E p \in Poll, v \in Venue, u \in Organiser : CompleteManually(p, v, u)
     \/ \E p \in Poll : DeletePoll(p)
     \/ \E v \in Venue : DeleteVenue(v)
  /\ UNCHANGED <<now, up, timerVars, cells, claimed, discovered, manual, disturbed>>

Tick ==
  /\ now < LastTime
  /\ now' = now + 1
  /\ UNCHANGED <<docVars, up, timerVars, cells, claimed, discovered, manual,
                 edits, disturbed>>

--------------------------------------------------------------------------------
(* The application starts and stops.                                       *)

(* New schedules the timer unless its cell is stored.                      *)
Start ==
  /\ ~up
  /\ up' = TRUE
  /\ timer' = IF timer = NoTimer THEN nextCalendarDeadline(now) ELSE timer
  /\ UNCHANGED <<docVars, now, firing, cells, claimed, discovered, manual,
                 edits, disturbed>>

Stop ==
  /\ up' = FALSE
  /\ firing' = FALSE
  /\ cells' = {IF c.kind = "candidate" THEN CandidateCell(c.poll)
               ELSE [c EXCEPT !.stage = "work"] : c \in cells}
  /\ UNCHANGED <<docVars, now, timer, claimed, discovered, manual, edits>>

(* A stop, a crash, or a failed call: ErrorResult ends the run.            *)
Crash == up /\ Disturb /\ Stop

--------------------------------------------------------------------------------
(* The timer cell: the callback, then the stored Retry.                    *)

RunOnce ==
  /\ up /\ ~firing
  /\ timer # NoTimer /\ now >= timer
  /\ cells' = cells \cup {CheckCell(DailyKey(Today))}
  /\ firing' = TRUE
  /\ UNCHANGED <<docVars, now, up, timer, claimed, discovered, manual,
                 edits, disturbed>>

(* The callback's Add fails: its error completes, that is deletes, the     *)
(* timer.  The next start schedules it again.                              *)
RunOnceFails ==
  /\ up /\ ~firing
  /\ timer # NoTimer /\ now >= timer
  /\ Disturb
  /\ timer' = NoTimer
  /\ UNCHANGED <<docVars, now, up, firing, cells, claimed, discovered, manual,
                 edits>>

TimerRetries ==
  /\ up /\ firing
  /\ firing' = FALSE
  /\ timer' = nextCalendarDeadline(now)
  /\ UNCHANGED <<docVars, now, up, cells, claimed, discovered, manual,
                 edits, disturbed>>

--------------------------------------------------------------------------------
(* Local idempotency: the handler asks, its result claims and emits in one *)
(* transaction.                                                            *)

Exists(c) ==
  /\ Ready(c, "check", "work")
  /\ Becomes(c, IF c.key \in claimed THEN {} ELSE {[c EXCEPT !.stage = "absent"]})
  /\ UNCHANGED <<docVars, now, up, timerVars, claimed, discovered, manual,
                 edits, disturbed>>

Emits(c) ==
  /\ claimed' = claimed \cup {c.key}
  /\ Becomes(c, {TruthCell(c.key)})
  /\ discovered' = IF c.key.of = "daily" THEN [discovered EXCEPT ![c.key.date] = @ + 1]
                   ELSE discovered
  /\ UNCHANGED <<docVars, now, up, timerVars, manual, edits, disturbed>>

(* Mutant: the insert replaces the record.                                 *)
InsertAnyway(c) == Ready(c, "check", "absent") /\ Emits(c)

InsertUnlessExistsWork(c) ==
  /\ Ready(c, "check", "absent")
  /\ c.key \notin claimed
  /\ Emits(c)

(* ErrClaimRejected rolls the transition back and ends the run; executed   *)
(* again, the handler sees the identity.                                   *)
ClaimRejected(c) ==
  /\ Ready(c, "check", "absent")
  /\ c.key \in claimed
  /\ Stop
  /\ UNCHANGED disturbed

--------------------------------------------------------------------------------
(* Discovery, Candidate, Close and Ambiguous.                              *)

ListOpenPollsOn(d) == {p \in Poll : Open(p) /\ poll[p].date = d}

Discovery(c) ==
  /\ Ready(c, "discover", "work")
  /\ Becomes(c, {CheckCell(DueKey(p, c.date)) : p \in ListOpenPollsOn(c.date)})
  /\ UNCHANGED <<docVars, now, up, timerVars, claimed, discovered, manual,
                 edits, disturbed>>

(* Candidate reads the poll, then the votes, then the venues.  Only what   *)
(* the winner's document says matters of the last ones.                    *)
GetPoll(c) ==
  /\ Ready(c, "candidate", "work")
  /\ poll[c.poll].state # "gone"
  /\ Becomes(c, IF Completed(c.poll) THEN {}
                ELSE {[kind |-> "candidate", poll |-> c.poll, ids |-> poll[c.poll].ids,
                       stage |-> "votes"]})
  /\ UNCHANGED <<docVars, now, up, timerVars, claimed, discovered, manual,
                 edits, disturbed>>

(* A votes document that is not there counts as no votes.                  *)
Counted(p) == IF poll[p].state = "gone" THEN [v \in Venue |-> 0] ELSE votes[p]

GetVotes(c) ==
  /\ Ready(c, "candidate", "votes")
  /\ Becomes(c, {[kind |-> "candidate", poll |-> c.poll, ids |-> c.ids,
                  count |-> Counted(c.poll), stage |-> "venues"]})
  /\ UNCHANGED <<docVars, now, up, timerVars, claimed, discovered, manual,
                 edits, disturbed>>

(* GetVenue answers, or says that there is no such document.               *)
Found(ids) == ids \cap pubs

GetVenues(c) ==
  LET found == Found(c.ids)
      decision == Decide(c.ids, c.count, found \cap Food, found)
  IN  /\ Ready(c, "candidate", "venues")
      /\ Becomes(c, {IF decision.selected # NoVenue THEN CloseCell(c.poll, decision.selected)
                     ELSE AmbiguousCell(c.poll, decision.reason)})
      /\ UNCHANGED <<docVars, now, up, timerVars, claimed, discovered, manual,
                     edits, disturbed>>

Completes(c) ==
  poll' = [poll EXCEPT ![c.poll].state = "completed", ![c.poll].selected = c.venue,
                       ![c.poll].completer = Nobody]

(* Mutant: the transaction does not look whether the poll is completed.    *)
CompleteAnyway(c) ==
  /\ Ready(c, "close", "work")
  /\ poll[c.poll].state # "gone"
  /\ Completes(c)
  /\ Becomes(c, {[c EXCEPT !.stage = "written"]})
  /\ UNCHANGED <<votes, pubs, now, up, timerVars, claimed, discovered, manual, edits, disturbed>>

(* CompletePoll is a transaction that reads, and writes unless completed.  *)
(* The audit entry that follows is best effort and is left out.            *)
CompletePoll(c) ==
  /\ Ready(c, "close", "work")
  /\ poll[c.poll].state # "gone"
  /\ IF Completed(c.poll) THEN UNCHANGED poll ELSE Completes(c)
  /\ Becomes(c, {[c EXCEPT !.stage = "written"]})
  /\ UNCHANGED <<votes, pubs, now, up, timerVars, claimed, discovered, manual, edits, disturbed>>

(* The handler's Complete is stored.                                       *)
Finish(c) ==
  /\ Ready(c, "close", "written")
  /\ Becomes(c, {})
  /\ UNCHANGED <<docVars, now, up, timerVars, claimed, discovered, manual, edits, disturbed>>

Ambiguous(c) ==
  /\ Ready(c, "ambiguous", "work")
  /\ manual' = manual \cup {c.poll}
  /\ Becomes(c, {})
  /\ UNCHANGED <<docVars, now, up, timerVars, claimed, discovered, edits,
                 disturbed>>

(* A deleted poll: Get fails with NotFound, and so does every run.         *)
Poison(c) ==
  /\ c.kind \in {"candidate", "close"} /\ c.stage = "work"
  /\ poll[c.poll].state = "gone"

NotFound(c) == up /\ Poison(c) /\ Stop /\ UNCHANGED disturbed

Execute(c) ==
  \/ Exists(c)
  \/ InsertUnlessExistsWork(c)
  \/ ClaimRejected(c)
  \/ Discovery(c)
  \/ GetPoll(c)
  \/ GetVotes(c)
  \/ GetVenues(c)
  \/ CompletePoll(c)
  \/ Finish(c)
  \/ Ambiguous(c)

AutoNext ==
  \/ People
  \/ Tick
  \/ Crash
  \/ RunOnce
  \/ RunOnceFails
  \/ TimerRetries
  \/ \E c \in cells : Execute(c)
  \/ \E c \in cells : NotFound(c)

--------------------------------------------------------------------------------
AutoTypeOK ==
  /\ poll \in [Poll -> Document]
  /\ votes \in [Poll -> [Venue -> 0..MaxVotes]]
  /\ pubs \subseteq Venue
  /\ now \in 0..LastTime
  /\ up \in BOOLEAN /\ firing \in BOOLEAN
  /\ timer \in 0..NoTimer
  /\ cells \subseteq Cell
  /\ claimed \subseteq Key
  /\ discovered \in [Day -> Nat]
  /\ manual \subseteq Poll
  /\ edits \in 0..MaxEdits /\ disturbed \in 0..MaxDisturb

(* A day is discovered once, although a timer that is executed again after *)
(* a crash asks for it again: the claim decides, not the handler's look.   *)
OneDiscovery == \A d \in Day : discovered[d] <= 1

(* The history of discoveries is what the claims say: with it OneDiscovery *)
(* is inductive.                                                           *)
DiscoveryFits == \A d \in Day : discovered[d] = IF DailyKey(d) \in claimed THEN 1 ELSE 0

(* A poll that was completed has a selected venue (CDD-0004, invariant 8). *)
CompletedHasVenue == \A p \in Poll : Completed(p) => poll[p].selected \in Venue

(* No boundary is skipped: what the timer waits for is the first 16:00     *)
(* after now, or one that is overdue.                                      *)
DeadlineIsNext == timer # NoTimer => timer <= nextCalendarDeadline(now)

(* "The first cadence boundary strictly after the current time"            *)
(* (ADR-0014): the fixed rate of the other timers, on small times.         *)
FixedRateIsNext ==
  now = 0 /\ ~up =>
    \A previous, t \in 0..6, interval \in 1..3 :
      previous <= t =>
        LET next == nextFixedRateDeadline(previous, t, interval)
        IN  next > t /\ next - interval <= t /\ (next - previous) % interval = 0

AutoInv == AutoTypeOK /\ DiscoveryFits /\ CompletedHasVenue /\ DeadlineIsNext
================================================================================
