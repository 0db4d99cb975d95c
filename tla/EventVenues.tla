------------------------------ MODULE EventVenues ------------------------------
(***************************************************************************)
(* Recurring events: the event venue listener and its daily timer, the     *)
(* evaluation of what they observe, the advance of next_occurrence_date    *)
(* and the creation of the poll of a due occurrence.                       *)
(*                                                                         *)
(* Every hop goes through Firebase idempotency.  Here an identity is       *)
(* claimed and its Truth created with the request for it: TruthEmission    *)
(* shows that an identity ends as one Truth, and between the two nothing   *)
(* looks at it but other requests for the same identity.  Cells are        *)
(* executed at least once, as Cellar says: a crash after a Firestore write *)
(* and before the result is stored executes the handler again.             *)
(***************************************************************************)
EXTENDS Recurrence, Sequences

CONSTANTS
  Venue,        \* documents of the pubs collection
  Rule,         \* recurrence rules people write
  Occurrence,   \* Occurrence[r][d]: what computeOccurrence returns for r on day d
  FirstDay,     \* the day the model starts on
  LastDay,      \* bound: the last day of the model
  MaxEdits,     \* bound: edits of the documents
  MaxDisturb,   \* bound: crashes and failed calls
  SampleRule,   \* rules and days NextIsFirst is checked on
  SampleDay

ASSUME EventConstants ==
  /\ FirstDay \in Nat \ {NoDate} /\ LastDay \in Nat /\ FirstDay <= LastDay
  /\ Occurrence \in [Rule -> [FirstDay..LastDay -> Nat]]
  /\ MaxEdits \in Nat /\ MaxDisturb \in Nat

VARIABLES
  venue,        \* venue[v]: the document
  changed,      \* documents whose latest state the watch has not delivered
  cells,        \* cells of the sequence observe, evaluate, advance or create
  keys,         \* identities claimed in Firestore
  polls,        \* polls[v]: the dates of its polls, in the order of their creation
  today,        \* the London calendar date
  edits, disturbed,
  edited        \* history: venues people have changed

vars == <<venue, changed, cells, keys, polls, today, edits, disturbed, edited>>

Days == FirstDay..LastDay

(* "nameless" is an event whose name is missing.                           *)
Kind == {"event", "nameless", "pub", "gone"}
Document == [kind: Kind, rule: Rule, next: Nat]

IsEvent(v) == venue[v].kind \in {"event", "nameless"}

NeedsRecalculation(rule, stored, day) == Occurrence[rule][day] # stored

HasPoll(v, date) == \E i \in DOMAIN polls[v] : polls[v][i] = date

(* The evidence of an observation, and the identities built from it.       *)
Evidence == [hop: {"observed"}, venue: Venue, rule: Rule, next: Nat, on: Days]
StaleEvent == [hop: {"stale"}, venue: Venue, rule: Rule, next: Nat]
EventDue == [hop: {"due"}, venue: Venue, next: Nat]
Truth == StaleEvent \cup EventDue

Seen(v) ==
  [hop |-> "observed", venue |-> v, rule |-> venue[v].rule, next |-> venue[v].next, on |-> today]
StaleEventKey(v, rule, next) == [hop |-> "stale", venue |-> v, rule |-> rule, next |-> next]
EventDueKey(v, next) == [hop |-> "due", venue |-> v, next |-> next]

(* A cell is the work of a Truth, and how far its handler is.              *)
Stage == {"work", "read", "written"}
Cell == [key: Truth, stage: Stage]

Moves(c, stage) == cells' = (cells \ {c}) \cup {[c EXCEPT !.stage = stage]}
Ends(c) == cells' = cells \ {c}

Disturb == disturbed < MaxDisturb /\ disturbed' = disturbed + 1

Init ==
  /\ venue \in [Venue -> [kind: {"event"}, rule: Rule, next: {NoDate}]]
  /\ changed = Venue
  /\ cells = {}
  /\ keys = {}
  /\ polls = [v \in Venue |-> <<>>]
  /\ today = FirstDay
  /\ edits = 0
  /\ disturbed = 0
  /\ edited = {}

--------------------------------------------------------------------------------
(* The world: people edit the documents in the web application, which does *)
(* not touch next_occurrence_date, and days pass.                          *)

(* Who is told of a document that is now doc.  A venue that leaves the     *)
(* query arrives as Removed, which the listener skips.                     *)
Notified(v, doc) ==
  IF doc.kind \in {"event", "nameless"} THEN changed \cup {v} ELSE changed \ {v}

Edit(v, kind, rule) ==
  /\ edits < MaxEdits
  /\ venue[v].kind # "gone"
  /\ \/ venue[v].kind # kind
     \/ venue[v].rule # rule /\ kind \in {"event", "nameless"}
  /\ kind \in {"pub", "gone"} => rule = venue[v].rule
  /\ edits' = edits + 1
  /\ edited' = edited \cup {v}
  /\ venue' = [venue EXCEPT ![v].kind = kind, ![v].rule = rule]
  /\ changed' = Notified(v, venue'[v])
  /\ UNCHANGED <<cells, keys, polls, today, disturbed>>

(* The identity of an observation holds its date, so yesterday's are never *)
(* asked for again: they are forgotten to keep the model small.            *)
Tick ==
  /\ today < LastDay
  /\ today' = today + 1
  /\ keys' = keys \cap Truth
  /\ UNCHANGED <<venue, changed, cells, polls, edits, disturbed, edited>>

--------------------------------------------------------------------------------
(* The listener.  The watch delivers the latest state of a document.  A    *)
(* failed Add is only logged.                                              *)

(* Mutant: a due date is taken for a current one.                          *)
EvaluatedDueFirst(e) ==
  IF IsDue(e.next, e.on) THEN {EventDueKey(e.venue, e.next)}
  ELSE IF NeedsRecalculation(e.rule, e.next, e.on)
       THEN {StaleEventKey(e.venue, e.rule, e.next)} ELSE {}

(* EvaluateEventVenueHandler: what the captured evidence calls for.        *)
Evaluated(e) ==
  IF NeedsRecalculation(e.rule, e.next, e.on) THEN {StaleEventKey(e.venue, e.rule, e.next)}
  ELSE IF IsDue(e.next, e.on) THEN {EventDueKey(e.venue, e.next)} ELSE {}

(* The observation, and its evaluation.  The handler reads nothing but the *)
(* evidence, so when it runs makes no difference to what it creates: the   *)
(* delay of a Truth is the delay of the work it calls for.                 *)
createEventVenueObserved(vs) ==
  LET observed == {Seen(v) : v \in vs}
      called == UNION {Evaluated(e) : e \in observed \ keys}
  IN  /\ keys' = keys \cup observed \cup called
      /\ cells' = cells \cup {[key |-> k, stage |-> "work"] : k \in called \ keys}

Observe(v) ==
  /\ v \in changed
  /\ changed' = changed \ {v}
  /\ createEventVenueObserved({v})
  /\ UNCHANGED <<venue, polls, today, edits, disturbed, edited>>

ObserveFails(v) ==
  /\ v \in changed
  /\ Disturb
  /\ changed' = changed \ {v}
  /\ UNCHANGED <<venue, cells, keys, polls, today, edits, edited>>

(* The venue cache's listing: venuecache.Service.ListEventVenues forwards  *)
(* to its source, the query of Firestore, and never reads the local table. *)
ListEventVenues == {v \in Venue : IsEvent(v)}

(* The timer lists the event venues and observes them all.  A venue that   *)
(* does not decode fails the list, and the error is swallowed so that the  *)
(* timer fires again.  An observation made before on this day is suppressed*)
(* by its identity, so a repeated one is left out here.                    *)
ReevaluateOnce ==
  LET vs == ListEventVenues
  IN  /\ \A v \in vs : venue[v].kind # "nameless"
      /\ \E v \in vs : Seen(v) \notin keys
      /\ createEventVenueObserved(vs)
      /\ UNCHANGED <<venue, changed, polls, today, edits, disturbed, edited>>

--------------------------------------------------------------------------------
(* AdvanceStaleEvent: one transaction that reads the venue again and       *)
(* computes with the day it runs on.  clearOccurrence is NoDate.           *)

Advance(c) ==
  LET v == c.key.venue
      doc == venue[v]
  IN  /\ c.stage = "work" /\ c.key.hop = "stale"
      /\ doc.kind # "gone"
      /\ IF IsEvent(v) /\ NeedsRecalculation(doc.rule, doc.next, today)
         THEN /\ venue' = [venue EXCEPT ![v].next = Occurrence[doc.rule][today]]
              /\ changed' = changed \cup {v}
         ELSE UNCHANGED <<venue, changed>>
      /\ Moves(c, "written")
      /\ UNCHANGED <<keys, polls, today, edits, disturbed, edited>>

(* CreateEventPoll reads the venue outside its transaction.                *)
CreateReads(c) ==
  LET doc == venue[c.key.venue]
  IN  /\ c.stage = "work" /\ c.key.hop = "due"
      /\ doc.kind # "gone"
      /\ IF IsEvent(c.key.venue) /\ doc.next = c.key.next THEN Moves(c, "read") ELSE Ends(c)
      /\ UNCHANGED <<venue, changed, keys, polls, today, edits, disturbed, edited>>

(* Mutant: the transaction does not look for a poll.                       *)
CreateAlways(c) ==
  /\ c.stage = "read"
  /\ polls' = [polls EXCEPT ![c.key.venue] = Append(@, c.key.next)]
  /\ Moves(c, "written")
  /\ UNCHANGED <<venue, changed, keys, today, edits, disturbed, edited>>

(* The transaction: a poll of the event and the date that exists already   *)
(* is enough; else the poll is created with its votes and attendance.  The *)
(* audit entry that follows may be lost.                                   *)
Create(c) ==
  /\ c.stage = "read"
  /\ polls' = IF HasPoll(c.key.venue, c.key.next) THEN polls
              ELSE [polls EXCEPT ![c.key.venue] = Append(@, c.key.next)]
  /\ Moves(c, "written")
  /\ UNCHANGED <<venue, changed, keys, today, edits, disturbed, edited>>

(* The handler's Complete is stored.                                       *)
Finish(c) ==
  /\ c.stage = "written"
  /\ Ends(c)
  /\ UNCHANGED <<venue, changed, keys, polls, today, edits, disturbed, edited>>

(* The application is started again: claimed cells are executed again, and *)
(* the new watch delivers every event venue.                               *)
Restart ==
  /\ cells' = {[c EXCEPT !.stage = "work"] : c \in cells}
  /\ changed' = {v \in Venue : IsEvent(v)}
  /\ UNCHANGED <<venue, keys, polls, today, edits, edited>>

(* A crash, or a Firestore call that fails: ErrorResult ends the run.      *)
Crash == Disturb /\ Restart

(* A Truth about a venue that was deleted: Get fails with NotFound, the    *)
(* run ends, and the next one executes the same cell again.                *)
Poison(c) == c.stage = "work" /\ venue[c.key.venue].kind = "gone"

NotFound(c) == Poison(c) /\ Restart /\ UNCHANGED disturbed

Execute(c) ==
  \/ Advance(c)
  \/ CreateReads(c)
  \/ Create(c)
  \/ Finish(c)

Next ==
  \/ \E v \in Venue, kind \in Kind, rule \in Rule : Edit(v, kind, rule)
  \/ Tick
  \/ \E v \in Venue : Observe(v)
  \/ \E v \in Venue : ObserveFails(v)
  \/ ReevaluateOnce
  \/ \E c \in cells : Execute(c)
  \/ \E c \in cells : NotFound(c)
  \/ Crash

Spec == Init /\ [][Next]_vars

--------------------------------------------------------------------------------
TypeOK ==
  /\ venue \in [Venue -> Document]
  /\ changed \subseteq {v \in Venue : IsEvent(v)}
  /\ cells \subseteq Cell
  /\ keys \subseteq Evidence \cup Truth
  /\ polls \in [Venue -> Seq(Nat)]
  /\ today \in Days
  /\ edits \in 0..MaxEdits /\ disturbed \in 0..MaxDisturb
  /\ edited \subseteq Venue

(* "This protects against concurrent Cells both observing no poll and      *)
(* materialising duplicates" (CDD-0005): however often a creation is       *)
(* executed, an event has one poll for a date.                             *)
OnePoll == \A v \in Venue : \A i, j \in DOMAIN polls[v] : polls[v][i] = polls[v][j] => i = j

(* The venue's stored date is wrong, and the identity under which it would *)
(* be corrected is used up.                                                *)
Stuck(v) ==
  LET key == StaleEventKey(v, venue[v].rule, venue[v].next)
  IN  /\ NeedsRecalculation(venue[v].rule, venue[v].next, today)
      /\ key \in keys
      /\ \A c \in cells : c.key # key

(* "This converges after a successful advance" (service.go): the identity  *)
(* of a stale event never blocks a venue that nobody has edited.           *)
AdvanceConverges == \A v \in Venue \ edited : ~Stuck(v)

EventsSound == TypeOK /\ OnePoll /\ AdvanceConverges

(* What AdvanceConverges asks of the rules, and what makes it inductive    *)
(* (EventVenuesProofs).  An occurrence is not in the past, stands until it *)
(* has passed, and an event that is over stays over: so it is for rules    *)
(* with interval one, and not for longer ones, which the day of the        *)
(* evaluation anchors again (README, section 6).                           *)
Steady ==
  \A r \in Rule, d \in Days :
    IF Occurrence[r][d] = NoDate
    THEN \A e \in d..LastDay : Occurrence[r][e] = NoDate
    ELSE /\ d <= Occurrence[r][d]
         /\ \A e \in d..LastDay : e <= Occurrence[r][d] => Occurrence[r][e] = Occurrence[r][d]

(* A venue that nobody has edited has a date that was calculated on some   *)
(* day so far, or none.                                                    *)
NextFits ==
  \A v \in Venue \ edited :
    /\ venue[v].kind = "event"
    /\ venue[v].next # NoDate => \E d \in FirstDay..today : Occurrence[venue[v].rule][d] = venue[v].next

(* The date of a stale identity never comes back once its cell has         *)
(* advanced the venue, or the event is over.                               *)
Resolved(k) ==
  IF k.next = NoDate
  THEN venue[k.venue].next = NoDate =>
         \A d \in today..LastDay : Occurrence[venue[k.venue].rule][d] = NoDate
  ELSE venue[k.venue].next # k.next

(* A stale identity of such a venue has its rule and a date that has       *)
(* passed, and its cell is still to run or it is resolved.                 *)
KeysFit ==
  \A k \in keys \cap StaleEvent : k.venue \notin edited =>
    /\ k.rule = venue[k.venue].rule
    /\ k.next # NoDate => k.next < today
    /\ [key |-> k, stage |-> "work"] \in cells \/ Resolved(k)

IInv == TypeOK /\ OnePoll /\ NextFits /\ (Steady => KeysFit)

(* Nothing has happened: where a formula about constants is evaluated.     *)
Unstarted == today = FirstDay /\ changed = Venue /\ cells = {} /\ edits = 0 /\ disturbed = 0

(* The sampled rules that are calculated wrongly on a sampled day.         *)
Miscalculated ==
  {raw \in SampleRule :
     \E rule \in ParseRule(raw), d \in SampleDay :
       LET date == computeOccurrence(raw, d)
       IN  /\ ~IsFirst(rule, d, date)
           /\ ~(rule.frequency = "weekly" /\ rule.interval > 1 /\ CrossesSpring(d, date))}

(* The calculation agrees with the meaning of the rule, on every sampled   *)
(* rule and day: first matching day, leap days, short months and fifth     *)
(* weekdays included.  Miscalculated leaves out one case, a defect of the  *)
(* code: an interval of weeks across the day the clocks go forward, where  *)
(* the weeks counted from hours are one too few (README, section 6).       *)
NextIsFirst == Unstarted => Miscalculated = {}

(* What the samples are for EventVenuesProofs, where NextIsFirst is proved:*)
(* any rules, with weekly intervals that Counted allows, and any days.     *)
Sampled ==
  /\ \A raw \in SampleRule : WellFormed(raw) /\ Counted(raw)
  /\ SampleDay \subseteq Nat \ {NoDate}

--------------------------------------------------------------------------------
(* Liveness.  The worker goes on executing cells, the watch delivers and   *)
(* the timer, whose callback never returns an error, fires again.          *)

Fairness ==
  /\ WF_vars(\E c \in cells : Execute(c))
  /\ WF_vars(\E v \in Venue : Observe(v))
  /\ WF_vars(ReevaluateOnce)

FairSpec == Spec /\ Fairness

Served(v) ==
  /\ ~NeedsRecalculation(venue[v].rule, venue[v].next, today)
  /\ IsDue(venue[v].next, today) => HasPoll(v, venue[v].next)

(* The identity of a due occurrence is used up and no poll was created: it *)
(* was superseded when the creation read the venue.                        *)
Dropped(v) ==
  /\ EventDueKey(v, venue[v].next) \in keys
  /\ ~HasPoll(v, venue[v].next)

(* Every event venue ends with the occurrence its rule gives today and,    *)
(* when that is due, with its poll: through crashes, lost observations and *)
(* days on which the application did nothing.  What can prevent it: the    *)
(* Truth of a deleted venue that stops every run, an event without a name  *)
(* that fails the daily list, and, for venues people have edited, an       *)
(* identity that is used up.                                               *)
EventsServed ==
  \/ <>[](\E c \in cells : Poison(c))
  \/ <>[](\E v \in Venue : venue[v].kind = "nameless")
  \/ \A v \in Venue :
       <>[](IsEvent(v) => Served(v) \/ (v \in edited /\ (Stuck(v) \/ Dropped(v))))
================================================================================
