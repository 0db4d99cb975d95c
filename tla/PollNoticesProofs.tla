--------------------------- MODULE PollNoticesProofs ---------------------------
(***************************************************************************)
(* PollNotices, with AutoComplete below it, keeps what PollsSound says and *)
(* lets nothing but a person change a completed poll, for every set of     *)
(* polls, venues and people, every subscription and every number of days,  *)
(* votes, edits and crashes.                                               *)
(***************************************************************************)
EXTENDS PollNotices, FiniteSetTheorems, TLAPS

LEMMA Numbers ==
  /\ LastTime \in Nat /\ MaxVotes \in Nat /\ MaxEdits \in Nat /\ MaxDisturb \in Nat
  /\ NoTimer \in Nat /\ LastDay \in Nat
  /\ \A t \in 0..LastTime : t \div 2 \in Day
BY AutoCompleteConstants DEF NoTimer, LastDay, Day

--------------------------------------------------------------------------------
(* Deadlines.                                                              *)

(* The calendar deadline is the first odd half day after a time.           *)
LEMMA CalendarDeadline ==
  ASSUME NEW t \in Nat
  PROVE  /\ nextCalendarDeadline(t) \in Nat
         /\ t < nextCalendarDeadline(t) /\ nextCalendarDeadline(t) <= t + 2
         /\ nextCalendarDeadline(t) <= nextCalendarDeadline(t + 1)
BY DEF nextCalendarDeadline

(* The fixed rate of a timer, for every cadence and however many ticks     *)
(* were missed: nextFixedRateDeadline gives the first boundary strictly    *)
(* after the current time, and it is on the cadence of the previous one.   *)
THEOREM FixedRateKeepsCadence ==
  ASSUME NEW previous \in Nat, NEW t \in Nat, NEW interval \in Nat \ {0}, previous <= t
  PROVE  LET next == nextFixedRateDeadline(previous, t, interval)
         IN  next > t /\ next - interval <= t /\ (next - previous) % interval = 0
<1>1. CASE previous + interval > t
  <2>1. nextFixedRateDeadline(previous, t, interval) = previous + interval
    BY <1>1 DEF nextFixedRateDeadline
  <2>2. interval % interval = 0 /\ (previous + interval) - previous = interval
    OBVIOUS
  <2> QED BY <1>1, <2>1, <2>2
<1>2. CASE ~(previous + interval > t)
  <2> DEFINE missed == (t - previous) \div interval
             late == (missed + 1) * interval
  <2>1. nextFixedRateDeadline(previous, t, interval) = previous + late
    BY <1>2 DEF nextFixedRateDeadline
  <2>2. missed \in Nat /\ missed * interval <= t - previous /\ t - previous < late
    <3>1. t - previous \in Nat
      OBVIOUS
    <3>2. ASSUME NEW x \in Nat
          PROVE  /\ x \div interval \in Nat
                 /\ (x \div interval) * interval <= x /\ x < ((x \div interval) + 1) * interval
      OBVIOUS
    <3> QED BY <3>1, <3>2
  <2> HIDE DEF missed
  <2>3. late \in Nat /\ late = missed * interval + interval /\ missed * interval \in Nat
    BY <2>2
  <2>4. late % interval = 0
    <3>1. \A q \in Nat : (q * interval) % interval = 0
      OBVIOUS
    <3> QED BY <2>2, <3>1
  <2> HIDE DEF late
  <2>5. (previous + late) - previous = late /\ previous + late > t /\ previous + late - interval <= t
    BY <2>2, <2>3
  <2>6. ((previous + late) - previous) % interval = 0
    BY <2>4, <2>5, Zenon
  <2> DEFINE next == nextFixedRateDeadline(previous, t, interval)
  <2>7. next = previous + late
    BY <2>1
  <2> HIDE DEF next
  <2>8. next > t /\ next - interval <= t
    BY <2>5, <2>7
  <2>9. (next - previous) % interval = 0
    BY <2>6, <2>7, Zenon
  <2> QED BY <2>8, <2>9, Zenon DEF next
<1> QED BY <1>1, <1>2

LEMMA FixedRate == FixedRateIsNext
BY FixedRateKeepsCadence DEF FixedRateIsNext

--------------------------------------------------------------------------------
(* The kinds of cells, told apart by what they are at.                     *)

LEMMA CellKinds ==
  ASSUME NEW c \in Cell
  PROVE  /\ c.kind = "check" => c.key \in Key /\ c.made \in 0..MaxDisturb
         /\ c.kind = "discover" => c.date \in Day
         /\ c.kind = "candidate" => c.poll \in Poll
         /\ c.kind = "candidate" /\ c.stage \in {"votes", "venues"} => c.ids \in SUBSET Venue
         /\ c.kind = "candidate" /\ c.stage = "venues" => c.count \in [Venue -> 0..MaxVotes]
         /\ c.kind = "close" => c.poll \in Poll /\ c.venue \in Venue
         /\ c.kind = "ambiguous" => c.poll \in Poll /\ c.reason \in Reason
BY DEF Cell

(* The cells that are made are cells.                                      *)
LEMMA CellsMade ==
  /\ disturbed \in 0..MaxDisturb => \A k \in Key : CheckCell(k) \in Cell
  /\ \A d \in Day : DiscoverCell(d) \in Cell
  /\ \A p \in Poll : CandidateCell(p) \in Cell
  /\ \A p \in Poll, v \in Venue : CloseCell(p, v) \in Cell
  /\ \A p \in Poll, r \in Reason : AmbiguousCell(p, r) \in Cell
  /\ \A k \in Key : TruthCell(k) \in Cell
<1>1. disturbed \in 0..MaxDisturb => \A k \in Key : CheckCell(k) \in Cell
  BY DEF CheckCell, Cell
<1>2. \A d \in Day : DiscoverCell(d) \in Cell
  BY DEF DiscoverCell, Cell
<1>3. \A p \in Poll : CandidateCell(p) \in Cell
  BY DEF CandidateCell, Cell
<1>4. \A p \in Poll, v \in Venue : CloseCell(p, v) \in Cell
  BY DEF CloseCell, Cell
<1>5. \A p \in Poll, r \in Reason : AmbiguousCell(p, r) \in Cell
  BY DEF AmbiguousCell, Cell
<1>6. \A k \in Key : TruthCell(k) \in Cell
  BY <1>2, <1>3 DEF TruthCell, Key
<1> QED BY <1>1, <1>2, <1>3, <1>4, <1>5, <1>6

(* A cell goes back to its beginning as a cell.                            *)
LEMMA CellsStop == cells \subseteq Cell /\ Stop => cells' \subseteq Cell
<1> SUFFICES ASSUME cells \subseteq Cell, NEW c \in cells
             PROVE  (IF c.kind = "candidate" THEN CandidateCell(c.poll)
                     ELSE [c EXCEPT !.stage = "work"]) \in Cell
  BY DEF Stop
<1>1. c \in Cell
  OBVIOUS
<1>2. CASE c.kind = "candidate"
  BY <1>1, <1>2, CellKinds, CellsMade
<1>3. CASE c.kind # "candidate"
  BY <1>1, <1>3 DEF Cell
<1> QED BY <1>2, <1>3

(* Whatever Decide selects is a venue.                                     *)
LEMMA DecideSelectsVenue ==
  ASSUME NEW ids \in SUBSET Venue, NEW count \in [Venue -> 0..MaxVotes],
         NEW eligible, NEW exists \in SUBSET Venue,
         Decide(ids, count, eligible, exists).selected # NoVenue
  PROVE  Decide(ids, count, eligible, exists).selected \in Venue
<1> DEFINE best == {v \in ids : \A w \in ids : count[v] >= count[w]}
           winner == CHOOSE v \in best : TRUE
<1>1. Cardinality({}) = 0
  BY FS_EmptySet
<1>2. Cardinality(ids) = 1 => (CHOOSE v \in ids : TRUE) \in Venue
  BY <1>1
<1>3. \/ Decide(ids, count, eligible, exists) = Selects(CHOOSE v \in ids : TRUE) /\ Cardinality(ids) = 1
      \/ \E r : Decide(ids, count, eligible, exists) = Refuses(r)
      \/ Decide(ids, count, eligible, exists) = Selects(winner) /\ winner \in exists
  BY DEF Decide
<1>4. /\ \A v : Selects(v).selected = v
      /\ \A r : Refuses(r).selected = NoVenue
  BY DEF Selects, Refuses
<1> HIDE DEF best, winner
<1> QED BY <1>2, <1>3, <1>4

LEMMA DecideReason ==
  ASSUME NEW ids, NEW count, NEW eligible, NEW exists
  PROVE  Decide(ids, count, eligible, exists).reason \in Reason
BY DEF Decide, Selects, Refuses, Reason

--------------------------------------------------------------------------------
(* Automatic completion.                                                   *)

LEMMA AutoInitHolds == AutoInit => AutoInv
<1> SUFFICES ASSUME AutoInit PROVE AutoInv
  OBVIOUS
<1>1. poll \in [Poll -> Document]
  BY AutoCompleteConstants DEF AutoInit, Document, State
<1>2. /\ now \in 0..LastTime /\ timer \in 0..NoTimer
      /\ edits \in 0..MaxEdits /\ disturbed \in 0..MaxDisturb
  BY Numbers DEF AutoInit
<1>3. up \in BOOLEAN /\ firing \in BOOLEAN
  BY DEF AutoInit
<1>4. AutoTypeOK
  BY <1>1, <1>2, <1>3 DEF AutoInit, AutoTypeOK
<1>5. DiscoveryFits
  BY DEF AutoInit, DiscoveryFits
<1>6. CompletedHasVenue
  BY DEF AutoInit, CompletedHasVenue, Completed
<1>7. DeadlineIsNext
  BY DEF AutoInit, DeadlineIsNext
<1> QED BY <1>4, <1>5, <1>6, <1>7 DEF AutoInv

(* What people do to the documents.                                        *)
LEMMA PeopleStep ==
  ASSUME AutoTypeOK, CompletedHasVenue, People
  PROVE  /\ poll' \in [Poll -> Document] /\ votes' \in [Poll -> [Venue -> 0..MaxVotes]]
         /\ pubs' \subseteq Venue
         /\ edits' \in 0..MaxEdits /\ edits' # edits
         /\ CompletedHasVenue'
<1> USE DEF AutoTypeOK
<1>0. ASSUME Edit PROVE edits' \in 0..MaxEdits /\ edits' # edits
  BY <1>0, Numbers DEF Edit
<1>1. ASSUME NEW p \in Poll, NEW v \in Venue, Vote(p, v)
      PROVE  /\ votes' \in [Poll -> [Venue -> 0..MaxVotes]]
             /\ poll' = poll /\ pubs' = pubs /\ Edit
  <2>1. votes[p] \in [Venue -> 0..MaxVotes] /\ votes[p][v] + 1 \in 0..MaxVotes
    BY <1>1, Numbers DEF Vote
  <2>2. votes' = [votes EXCEPT ![p] = [votes[p] EXCEPT ![v] = votes[p][v] + 1]]
    BY <1>1 DEF Vote
  <2> QED BY <1>1, <2>1, <2>2 DEF Vote
<1>2. ASSUME NEW p \in Poll, NEW v \in Venue, EditVenues(p, v)
      PROVE  /\ poll' \in [Poll -> Document]
             /\ votes' = votes /\ pubs' = pubs /\ Edit
             /\ \A q \in Poll : poll'[q].state = poll[q].state /\ poll'[q].selected = poll[q].selected
  <2>1. poll[p] \in Document
    OBVIOUS
  <2>2. PICK ids \in SUBSET Venue : poll' = [poll EXCEPT ![p].ids = ids]
    BY <1>2, <2>1 DEF EditVenues, Document
  <2>3. poll' \in [Poll -> Document] /\ \A q \in Poll : q # p => poll'[q] = poll[q]
    BY <2>1, <2>2 DEF Document
  <2>4. poll'[p].state = poll[p].state /\ poll'[p].selected = poll[p].selected
    BY <2>1, <2>2 DEF Document
  <2> QED BY <1>2, <2>3, <2>4 DEF EditVenues
<1>3. ASSUME NEW p \in Poll, NEW v \in Venue, NEW u \in Organiser, CompleteManually(p, v, u)
      PROVE  /\ poll' \in [Poll -> Document]
             /\ votes' = votes /\ pubs' = pubs /\ Edit
             /\ poll'[p].selected = v
             /\ \A q \in Poll : q # p => poll'[q] = poll[q]
  <2>1. u \in User
    BY AutoCompleteConstants
  <2>2. poll[p] \in Document
    OBVIOUS
  <2>3. poll' = [poll EXCEPT ![p].state = "completed", ![p].selected = v, ![p].completer = u]
    BY <1>3 DEF CompleteManually
  <2>4. poll' \in [Poll -> Document]
    BY <2>1, <2>2, <2>3 DEF Document, State
  <2>5. poll'[p].selected = v /\ \A q \in Poll : q # p => poll'[q] = poll[q]
    BY <2>2, <2>3 DEF Document
  <2> QED BY <1>3, <2>4, <2>5 DEF CompleteManually
<1>4. ASSUME NEW p \in Poll, NEW v \in Venue, Reschedule(p, v)
      PROVE  /\ poll' \in [Poll -> Document]
             /\ votes' = votes /\ pubs' = pubs /\ Edit
             /\ poll'[p].selected = v
             /\ \A q \in Poll : q # p => poll'[q] = poll[q]
  <2>1. poll[p] \in Document
    OBVIOUS
  <2>2. poll' = [poll EXCEPT ![p].selected = v, ![p].completer = Nobody]
    BY <1>4 DEF Reschedule
  <2>3. poll' \in [Poll -> Document]
    BY <2>1, <2>2 DEF Document
  <2>4. poll'[p].selected = v /\ \A q \in Poll : q # p => poll'[q] = poll[q]
    BY <2>1, <2>2 DEF Document
  <2> QED BY <1>4, <2>3, <2>4 DEF Reschedule
<1>5. ASSUME NEW p \in Poll, DeletePoll(p)
      PROVE  /\ poll' \in [Poll -> Document] /\ votes' \in [Poll -> [Venue -> 0..MaxVotes]]
             /\ pubs' = pubs /\ Edit
             /\ poll'[p].state = "gone"
             /\ \A q \in Poll : q # p => poll'[q] = poll[q]
  <2>1. [v \in Venue |-> 0] \in [Venue -> 0..MaxVotes]
    BY Numbers
  <2>2. votes' \in [Poll -> [Venue -> 0..MaxVotes]]
    BY <1>5, <2>1 DEF DeletePoll
  <2>3. poll[p] \in Document
    OBVIOUS
  <2>4. poll' = [poll EXCEPT ![p].state = "gone"]
    BY <1>5 DEF DeletePoll
  <2>5. poll' \in [Poll -> Document]
    BY <2>3, <2>4 DEF Document, State
  <2>6. poll'[p].state = "gone" /\ \A q \in Poll : q # p => poll'[q] = poll[q]
    BY <2>3, <2>4 DEF Document
  <2> QED BY <1>5, <2>2, <2>5, <2>6 DEF DeletePoll
<1>6. ASSUME NEW v \in Venue, DeleteVenue(v)
      PROVE  /\ poll' = poll /\ votes' = votes /\ pubs' \subseteq Venue /\ Edit
  BY <1>6 DEF DeleteVenue
<1>7. CASE \E p \in Poll, v \in Venue : Vote(p, v)
  BY <1>0, <1>1, <1>7 DEF CompletedHasVenue, Completed
<1>8. CASE \E p \in Poll, v \in Venue : EditVenues(p, v)
  BY <1>0, <1>2, <1>8 DEF CompletedHasVenue, Completed
<1>9. CASE \E p \in Poll, v \in Venue, u \in Organiser : CompleteManually(p, v, u)
  BY <1>0, <1>3, <1>9 DEF CompletedHasVenue, Completed
<1>10. CASE \E p \in Poll, v \in Venue : Reschedule(p, v)
  BY <1>0, <1>4, <1>10 DEF CompletedHasVenue, Completed
<1>11. CASE \E p \in Poll : DeletePoll(p)
  BY <1>0, <1>5, <1>11 DEF CompletedHasVenue, Completed
<1>12. CASE \E v \in Venue : DeleteVenue(v)
  BY <1>0, <1>6, <1>12 DEF CompletedHasVenue, Completed
<1> QED BY <1>7, <1>8, <1>9, <1>10, <1>11, <1>12 DEF People

(* What Close does to the documents.                                       *)
LEMMA CompletePollStep ==
  ASSUME AutoTypeOK, CompletedHasVenue, NEW c \in cells, CompletePoll(c)
  PROVE  /\ poll' \in [Poll -> Document]
         /\ CompletedHasVenue'
         /\ \A p \in Poll : Completed(p) => poll'[p] = poll[p]
<1>1. c.poll \in Poll /\ c.venue \in Venue
  <2>1. c \in Cell /\ c.kind = "close"
    BY DEF AutoTypeOK, CompletePoll, Ready
  <2> QED BY <2>1, CellKinds
<1>2. CASE Completed(c.poll)
  BY <1>2 DEF CompletePoll, AutoTypeOK, CompletedHasVenue, Completed
<1>3. CASE ~Completed(c.poll)
  <2>1. poll' = [poll EXCEPT ![c.poll].state = "completed", ![c.poll].selected = c.venue,
                             ![c.poll].completer = Nobody]
    BY <1>3 DEF CompletePoll, Completes
  <2>2. poll \in [Poll -> Document] /\ poll[c.poll] \in Document
    BY <1>1 DEF AutoTypeOK
  <2>3. poll' \in [Poll -> Document]
    BY <1>1, <2>1, <2>2 DEF Document, State
  <2>4. /\ poll'[c.poll].selected = c.venue
        /\ \A p \in Poll : p # c.poll => poll'[p] = poll[p]
    BY <1>1, <2>1, <2>2 DEF Document
  <2> QED BY <1>1, <1>3, <2>3, <2>4 DEF CompletedHasVenue, Completed
<1> QED BY <1>2, <1>3

(* Every cell that a step makes is a cell.                                 *)
LEMMA CellsStep ==
  ASSUME AutoTypeOK, NEW c \in cells, Execute(c)
  PROVE  cells' \subseteq Cell
<1> USE DEF AutoTypeOK
<1>0. c \in Cell /\ cells \subseteq Cell
  OBVIOUS
<1>a. ASSUME NEW new, Becomes(c, new), new \subseteq Cell PROVE cells' \subseteq Cell
  BY <1>0, <1>a DEF Becomes
<1>1. CASE Exists(c)
  <2>1. c.kind = "check"
    BY <1>1 DEF Exists, Ready
  <2>2. [c EXCEPT !.stage = "absent"] \in Cell
    BY <1>0, <2>1 DEF Cell
  <2> QED BY <1>a, <1>1, <2>2 DEF Exists
<1>2. CASE InsertUnlessExistsWork(c)
  <2>1. c.key \in Key
    BY <1>0, <1>2, CellKinds DEF InsertUnlessExistsWork, Ready
  <2> QED BY <1>a, <1>2, <2>1, CellsMade DEF InsertUnlessExistsWork, Emits
<1>3. CASE ClaimRejected(c)
  BY <1>0, <1>3, CellsStop DEF ClaimRejected
<1>4. CASE Discovery(c)
  <2>1. c.date \in Day
    BY <1>0, <1>4, CellKinds DEF Discovery, Ready
  <2>2. \A p \in ListOpenPollsOn(c.date) : DueKey(p, c.date) \in Key
    BY <2>1 DEF ListOpenPollsOn, DueKey, Key
  <2>3. \A p \in ListOpenPollsOn(c.date) : CheckCell(DueKey(p, c.date)) \in Cell
    BY <2>2, CellsMade
  <2> QED BY <1>a, <1>4, <2>3 DEF Discovery
<1>5. CASE GetPoll(c)
  <2>1. c.poll \in Poll
    BY <1>0, <1>5, CellKinds DEF GetPoll, Ready
  <2>2. poll[c.poll].ids \in SUBSET Venue
    BY <2>1 DEF Document
  <2>3. [kind |-> "candidate", poll |-> c.poll, ids |-> poll[c.poll].ids, stage |-> "votes"] \in Cell
    BY <2>1, <2>2 DEF Cell
  <2> QED BY <1>a, <1>5, <2>3 DEF GetPoll
<1>6. CASE GetVotes(c)
  <2>1. c.poll \in Poll /\ c.ids \in SUBSET Venue
    BY <1>0, <1>6, CellKinds DEF GetVotes, Ready
  <2>2. Counted(c.poll) \in [Venue -> 0..MaxVotes]
    BY <2>1, Numbers DEF Counted
  <2>3. [kind |-> "candidate", poll |-> c.poll, ids |-> c.ids, count |-> Counted(c.poll),
         stage |-> "venues"] \in Cell
    BY <2>1, <2>2 DEF Cell
  <2> QED BY <1>a, <1>6, <2>3 DEF GetVotes
<1>7. CASE GetVenues(c)
  <2> DEFINE found == Found(c.ids)
             decision == Decide(c.ids, c.count, found \cap Food, found)
             new == IF decision.selected # NoVenue THEN CloseCell(c.poll, decision.selected)
                    ELSE AmbiguousCell(c.poll, decision.reason)
  <2>1. c.poll \in Poll /\ c.ids \in SUBSET Venue /\ c.count \in [Venue -> 0..MaxVotes]
    BY <1>0, <1>7, CellKinds DEF GetVenues, Ready
  <2>2. found \in SUBSET Venue
    BY <2>1 DEF Found
  <2>3. decision.selected # NoVenue => decision.selected \in Venue
    BY <2>1, <2>2, DecideSelectsVenue
  <2>4. decision.reason \in Reason
    BY DecideReason
  <2>5. Becomes(c, {new})
    BY <1>7 DEF GetVenues
  <2> HIDE DEF found, decision
  <2>6. new \in Cell
    BY <2>1, <2>3, <2>4, CellsMade
  <2> QED BY <1>a, <2>5, <2>6
<1>8. CASE CompletePoll(c)
  <2>1. c.kind = "close"
    BY <1>8 DEF CompletePoll, Ready
  <2>2. [c EXCEPT !.stage = "written"] \in Cell
    BY <1>0, <2>1 DEF Cell
  <2> QED BY <1>a, <1>8, <2>2 DEF CompletePoll
<1>9. CASE Finish(c)
  BY <1>a, <1>9 DEF Finish
<1>10. CASE Ambiguous(c)
  BY <1>a, <1>10 DEF Ambiguous
<1> QED BY <1>1, <1>2, <1>3, <1>4, <1>5, <1>6, <1>7, <1>8, <1>9, <1>10 DEF Execute

(* A claim is the first one of its identity, so a discovery is counted     *)
(* once.                                                                   *)
LEMMA EmitsStep ==
  ASSUME AutoTypeOK, DiscoveryFits, NEW c \in cells, InsertUnlessExistsWork(c)
  PROVE  /\ claimed' \subseteq Key /\ discovered' \in [Day -> Nat]
         /\ DiscoveryFits'
<1>1. c.key \in Key /\ c.key \notin claimed
  <2>1. c \in Cell /\ c.kind = "check"
    BY DEF AutoTypeOK, InsertUnlessExistsWork, Ready
  <2> QED BY <2>1, CellKinds DEF InsertUnlessExistsWork
<1>2. claimed' = claimed \cup {c.key}
  BY DEF InsertUnlessExistsWork, Emits
<1>3. discovered \in [Day -> Nat] /\ claimed \subseteq Key
  BY DEF AutoTypeOK
<1>4. CASE c.key.of = "daily"
  <2>1. c.key.date \in Day /\ c.key = DailyKey(c.key.date)
    BY <1>1, <1>4 DEF Key, DailyKey
  <2>2. discovered' = [discovered EXCEPT ![c.key.date] = discovered[c.key.date] + 1]
    BY <1>4 DEF InsertUnlessExistsWork, Emits
  <2>3. discovered[c.key.date] = 0
    BY <1>1, <2>1 DEF DiscoveryFits
  <2>4. discovered' \in [Day -> Nat]
    BY <1>3, <2>1, <2>2, <2>3
  <2>5. ASSUME NEW d \in Day
        PROVE  discovered'[d] = IF DailyKey(d) \in claimed' THEN 1 ELSE 0
    <3>1. CASE d = c.key.date
      BY <1>2, <1>3, <2>1, <2>2, <2>3, <3>1
    <3>2. CASE d # c.key.date
      <4>1. DailyKey(d) # c.key
        BY <2>1, <3>2 DEF DailyKey
      <4>2. discovered'[d] = discovered[d]
        BY <1>3, <2>2, <3>2
      <4> QED BY <1>2, <4>1, <4>2 DEF DiscoveryFits
    <3> QED BY <3>1, <3>2
  <2> QED BY <1>1, <1>2, <1>3, <2>4, <2>5 DEF DiscoveryFits
<1>5. CASE c.key.of # "daily"
  <2>1. discovered' = discovered
    BY <1>5 DEF InsertUnlessExistsWork, Emits
  <2>2. \A d \in Day : DailyKey(d) # c.key
    BY <1>5 DEF DailyKey
  <2> QED BY <1>1, <1>2, <1>3, <2>1, <2>2 DEF DiscoveryFits
<1> QED BY <1>4, <1>5

(* The documents, the clock and the timer, when a step leaves them alone.  *)
LEMMA AutoKept ==
  ASSUME AutoInv,
         UNCHANGED <<poll, now, timer, claimed, discovered>>
  PROVE  DiscoveryFits' /\ CompletedHasVenue' /\ DeadlineIsNext'
BY DEF AutoInv, DiscoveryFits, CompletedHasVenue, Completed, DeadlineIsNext

LEMMA StopStep ==
  ASSUME AutoInv, Stop, disturbed' \in 0..MaxDisturb
  PROVE  AutoInv'
<1>1. cells' \subseteq Cell
  BY CellsStop DEF AutoInv, AutoTypeOK
<1>2. /\ up' \in BOOLEAN /\ firing' \in BOOLEAN
      /\ UNCHANGED <<docVars, now, timer, claimed, discovered, manual, edits>>
  BY DEF Stop
<1>3. AutoTypeOK'
  BY <1>1, <1>2 DEF AutoInv, AutoTypeOK, docVars
<1>4. DiscoveryFits' /\ CompletedHasVenue' /\ DeadlineIsNext'
  BY <1>2, AutoKept DEF docVars
<1> QED BY <1>3, <1>4 DEF AutoInv

LEMMA ExecuteStep ==
  ASSUME AutoInv, NEW c \in cells, Execute(c)
  PROVE  AutoInv'
<1>0. AutoTypeOK /\ DiscoveryFits /\ CompletedHasVenue
  BY DEF AutoInv
<1>1. cells' \subseteq Cell
  BY <1>0, CellsStep
<1>2. CASE InsertUnlessExistsWork(c)
  <2>1. /\ claimed' \subseteq Key /\ discovered' \in [Day -> Nat]
        /\ DiscoveryFits'
    BY <1>0, <1>2, EmitsStep
  <2>2. UNCHANGED <<docVars, now, up, timerVars, manual, edits, disturbed>>
    BY <1>2 DEF InsertUnlessExistsWork, Emits
  <2>3. AutoTypeOK'
    BY <1>0, <1>1, <2>1, <2>2 DEF AutoTypeOK, docVars, timerVars
  <2> QED BY <2>1, <2>2, <2>3
          DEF AutoInv, docVars, timerVars, CompletedHasVenue, Completed, DeadlineIsNext
<1>3. CASE ClaimRejected(c)
  <2>1. disturbed' \in 0..MaxDisturb
    BY <1>0, <1>3 DEF ClaimRejected, AutoTypeOK
  <2> QED BY <1>3, <2>1, StopStep DEF ClaimRejected
<1>4. CASE CompletePoll(c)
  <2>1. poll' \in [Poll -> Document] /\ CompletedHasVenue'
    BY <1>0, <1>4, CompletePollStep
  <2>2. UNCHANGED <<votes, pubs, now, up, timerVars, claimed, discovered, manual, edits, disturbed>>
    BY <1>4 DEF CompletePoll
  <2>3. AutoTypeOK'
    BY <1>0, <1>1, <2>1, <2>2 DEF AutoTypeOK, timerVars
  <2> QED BY <2>1, <2>2, <2>3 DEF AutoInv, timerVars, DiscoveryFits, DeadlineIsNext
<1>5. CASE Ambiguous(c)
  <2>1. c.poll \in Poll
    <3>1. c \in Cell /\ c.kind = "ambiguous"
      BY <1>0, <1>5 DEF AutoTypeOK, Ambiguous, Ready
    <3> QED BY <3>1, CellKinds
  <2>2. manual' \subseteq Poll
    BY <1>0, <1>5, <2>1 DEF Ambiguous, AutoTypeOK
  <2>3. UNCHANGED <<docVars, now, up, timerVars, claimed, discovered, edits, disturbed>>
    BY <1>5 DEF Ambiguous
  <2>4. AutoTypeOK'
    BY <1>0, <1>1, <2>2, <2>3 DEF AutoTypeOK, docVars, timerVars
  <2> QED BY <2>3, <2>4, AutoKept DEF AutoInv, docVars, timerVars
<1>6. CASE Exists(c) \/ Discovery(c) \/ GetPoll(c) \/ GetVotes(c) \/ GetVenues(c) \/ Finish(c)
  <2>1. UNCHANGED <<docVars, now, up, timerVars, claimed, discovered, manual, edits, disturbed>>
    BY <1>6 DEF Exists, Discovery, GetPoll, GetVotes, GetVenues, Finish
  <2>2. AutoTypeOK'
    BY <1>0, <1>1, <2>1 DEF AutoTypeOK, docVars, timerVars
  <2> QED BY <2>1, <2>2, AutoKept DEF AutoInv, docVars, timerVars
<1> QED BY <1>2, <1>3, <1>4, <1>5, <1>6 DEF Execute

(* Every step of automatic completion keeps its invariant.                 *)
LEMMA AutoNextStep ==
  ASSUME AutoInv, AutoNext \/ Start
  PROVE  AutoInv'
<1>0. AutoTypeOK /\ DiscoveryFits /\ CompletedHasVenue /\ DeadlineIsNext
  BY DEF AutoInv
<1>a. ASSUME Disturb PROVE disturbed' \in 0..MaxDisturb
  BY <1>0, <1>a, Numbers DEF AutoTypeOK, Disturb
<1>b. /\ now \in Nat /\ now <= LastTime /\ LastTime \in Nat
      /\ nextCalendarDeadline(now) \in 0..NoTimer
      /\ nextCalendarDeadline(now) <= nextCalendarDeadline(now)
      /\ nextCalendarDeadline(now) <= nextCalendarDeadline(now + 1)
      /\ nextCalendarDeadline(now + 1) \in Nat /\ timer \in Nat
  BY <1>0, Numbers, CalendarDeadline DEF AutoTypeOK, NoTimer
<1>1. CASE People
  <2>1. /\ poll' \in [Poll -> Document] /\ votes' \in [Poll -> [Venue -> 0..MaxVotes]]
        /\ pubs' \subseteq Venue /\ edits' \in 0..MaxEdits /\ CompletedHasVenue'
    BY <1>0, <1>1, PeopleStep
  <2>2. UNCHANGED <<now, up, timerVars, cells, claimed, discovered, manual, disturbed>>
    BY <1>1 DEF People
  <2>3. AutoTypeOK'
    BY <1>0, <2>1, <2>2 DEF AutoTypeOK, timerVars
  <2> QED BY <1>0, <2>1, <2>2, <2>3 DEF AutoInv, timerVars, DiscoveryFits, DeadlineIsNext
<1>2. CASE Tick
  <2>1. now' = now + 1 /\ now' \in 0..LastTime
    BY <1>b, <1>2 DEF Tick
  <2>2. UNCHANGED <<docVars, up, timerVars, cells, claimed, discovered, manual, edits, disturbed>>
    BY <1>2 DEF Tick
  <2>3. AutoTypeOK'
    BY <1>0, <2>1, <2>2 DEF AutoTypeOK, docVars, timerVars
  <2>4. DeadlineIsNext'
    BY <1>0, <1>b, <2>1, <2>2 DEF DeadlineIsNext, timerVars
  <2> QED BY <1>0, <2>2, <2>3, <2>4
          DEF AutoInv, docVars, DiscoveryFits, CompletedHasVenue, Completed
<1>3. CASE Crash
  BY <1>a, <1>3, StopStep DEF Crash
<1>4. CASE RunOnce
  <2>1. DailyKey(Today) \in Key
    BY <1>0, Numbers DEF AutoTypeOK, DailyKey, Today, Key
  <2>2. cells' \subseteq Cell
    BY <1>0, <1>4, <2>1, CellsMade DEF RunOnce, AutoTypeOK
  <2>3. /\ firing' \in BOOLEAN
        /\ UNCHANGED <<docVars, now, up, timer, claimed, discovered, manual, edits, disturbed>>
    BY <1>4 DEF RunOnce
  <2>4. AutoTypeOK'
    BY <1>0, <2>2, <2>3 DEF AutoTypeOK, docVars
  <2> QED BY <2>3, <2>4, AutoKept DEF AutoInv, docVars
<1>5. CASE RunOnceFails
  <2>1. /\ timer' = NoTimer /\ disturbed' \in 0..MaxDisturb
        /\ UNCHANGED <<docVars, now, up, firing, cells, claimed, discovered, manual, edits>>
    BY <1>a, <1>5 DEF RunOnceFails
  <2>2. NoTimer \in 0..NoTimer
    BY Numbers
  <2>3. AutoTypeOK'
    BY <1>0, <2>1, <2>2 DEF AutoTypeOK, docVars, NoTimer
  <2> QED BY <1>0, <2>1, <2>3
          DEF AutoInv, docVars, DiscoveryFits, CompletedHasVenue, Completed, DeadlineIsNext
<1>6. CASE TimerRetries
  <2>1. /\ timer' = nextCalendarDeadline(now) /\ firing' \in BOOLEAN
        /\ UNCHANGED <<docVars, now, up, cells, claimed, discovered, manual, edits, disturbed>>
    BY <1>6 DEF TimerRetries
  <2>2. AutoTypeOK'
    BY <1>0, <1>b, <2>1 DEF AutoTypeOK, docVars
  <2>3. DeadlineIsNext'
    BY <1>b, <2>1 DEF DeadlineIsNext
  <2> QED BY <1>0, <2>1, <2>2, <2>3
          DEF AutoInv, docVars, DiscoveryFits, CompletedHasVenue, Completed
<1>7. CASE \E c \in cells : Execute(c)
  BY <1>7, ExecuteStep
<1>8. CASE \E c \in cells : NotFound(c)
  <2>1. Stop /\ disturbed' \in 0..MaxDisturb
    BY <1>0, <1>8 DEF NotFound, AutoTypeOK
  <2> QED BY <2>1, StopStep
<1>9. CASE Start
  <2>1. /\ timer' = timer \/ timer' = nextCalendarDeadline(now)
        /\ up' \in BOOLEAN
        /\ UNCHANGED <<docVars, now, firing, cells, claimed, discovered, manual, edits, disturbed>>
    BY <1>9 DEF Start
  <2>2. AutoTypeOK'
    BY <1>0, <1>b, <2>1 DEF AutoTypeOK, docVars
  <2>3. DeadlineIsNext'
    BY <1>0, <1>b, <2>1 DEF DeadlineIsNext
  <2> QED BY <1>0, <2>1, <2>2, <2>3
          DEF AutoInv, docVars, DiscoveryFits, CompletedHasVenue, Completed
<1> QED BY <1>1, <1>2, <1>3, <1>4, <1>5, <1>6, <1>7, <1>8, <1>9 DEF AutoNext

(* The emails leave automatic completion alone, but for a call that fails. *)
LEMMA AutoUnchanged ==
  ASSUME AutoInv, disturbed' \in 0..MaxDisturb,
         UNCHANGED <<docVars, now, up, timerVars, cells, claimed, discovered, manual, edits>>
  PROVE  AutoInv'
<1>1. AutoTypeOK'
  BY DEF AutoInv, AutoTypeOK, docVars, timerVars
<1> QED BY <1>1, AutoKept DEF AutoInv, docVars, timerVars

--------------------------------------------------------------------------------
(* Evidence, identities and marks.                                         *)

LEMMA EvidenceTyped ==
  AutoTypeOK => \A w \in Watch :
    /\ Evidence(w) \in PollObservedPayload
    /\ Evidence(w).about = w.about /\ Evidence(w).poll = w.poll
    /\ EventKey(Evidence(w)) \in Identity
<1> SUFFICES ASSUME AutoTypeOK, NEW w \in Watch
             PROVE  /\ Evidence(w) \in PollObservedPayload
                    /\ Evidence(w).about = w.about /\ Evidence(w).poll = w.poll
                    /\ EventKey(Evidence(w)) \in Identity
  OBVIOUS
<1>1. w.about \in {"opened", "completed"} /\ w.poll \in Poll
  BY DEF Watch
<1>2. /\ poll[w.poll].selected \in Venue \cup {NoVenue}
      /\ poll[w.poll].creator \in User \cup {Nobody}
      /\ poll[w.poll].completer \in User \cup {Nobody}
  BY <1>1 DEF AutoTypeOK, Document
<1>3. /\ Evidence(w) \in PollObservedPayload
      /\ Evidence(w).about = w.about /\ Evidence(w).poll = w.poll
  BY <1>1, <1>2 DEF Evidence, PollObservedPayload
<1>4. EventKey(Evidence(w)) \in Identity
  BY <1>3 DEF EventKey, Identity, PollObservedPayload
<1> QED BY <1>3, <1>4

LEMMA EvidenceStaysTyped ==
  AutoTypeOK' => \A w \in Watch : Evidence(w)' \in PollObservedPayload
<1> DEFINE Typed == \A w \in Watch : Evidence(w) \in PollObservedPayload
<1>1. AutoTypeOK => Typed
  BY EvidenceTyped
<1> HIDE DEF Typed
<1>2. AutoTypeOK' => Typed'
  BY <1>1, PTL
<1> QED BY <1>2 DEF Typed

(* Different watches have different identities.                            *)
LEMMA KeysDiffer ==
  ASSUME AutoTypeOK, NEW w \in Watch, NEW x \in Watch,
         EventKey(Evidence(w)) = EventKey(Evidence(x))
  PROVE  w = x
<1>1. /\ Evidence(w).about = w.about /\ Evidence(w).poll = w.poll
      /\ Evidence(x).about = x.about /\ Evidence(x).poll = x.poll
  BY EvidenceTyped
<1>2. w.about = x.about /\ w.poll = x.poll
  BY <1>1 DEF EventKey
<1> QED BY <1>2 DEF Watch

(* A mail cell has an identity, and its marks belong to it.                *)
LEMMA MailKey ==
  ASSUME NEW c \in Mail
  PROVE  /\ EventKey(c) \in Identity
         /\ \A a \in Action : /\ Mark(c, a) \in Marks
                              /\ EventKey(Mark(c, a)) = EventKey(c)
                              /\ Mark(c, a).action = a
         /\ c.kind \in {"notify", "send"}
         /\ c.kind = "send" => c.action \in Action /\ c.left \in Seq(SUBSET Recipients)
<1>1. /\ c.about \in {"opened", "completed"} /\ c.poll \in Poll /\ c.venue \in Venue \cup {NoVenue}
      /\ c.kind \in {"notify", "send"}
      /\ c.kind = "send" => c.action \in Action /\ c.left \in Seq(SUBSET Recipients)
  BY DEF Mail
<1>2. EventKey(c) \in Identity
  BY <1>1 DEF EventKey, Identity
<1>3. \A a \in Action : Mark(c, a) \in Marks
  BY <1>1 DEF Mark, Marks
<1>4. \A a \in Action : EventKey(Mark(c, a)) = EventKey(c) /\ Mark(c, a).action = a
  BY DEF Mark, EventKey
<1> QED BY <1>1, <1>2, <1>3, <1>4

(* Two marks of an identity differ by their action.                        *)
LEMMA MarksDiffer ==
  ASSUME NEW m \in Marks, NEW n \in Marks, EventKey(m) = EventKey(n), m.action = n.action
  PROVE  m = n
BY DEF Marks, EventKey

--------------------------------------------------------------------------------
(* The send sequences.                                                     *)

(* Everyone is in a step and nobody in two.                                *)
LEMMA PersonalSends ==
  ASSUME NEW to \in SUBSET User, NEW actor
  PROVE  LET left == personalSendSteps(to, actor)
         IN  /\ left \in Seq(SUBSET Recipients)
             /\ to \subseteq UNION {left[i] : i \in DOMAIN left}
             /\ \A i, j \in DOMAIN left : i # j => left[i] \cap left[j] = {}
<1> SUFFICES ASSUME NEW left, left = personalSendSteps(to, actor)
             PROVE  /\ left \in Seq(SUBSET Recipients)
                    /\ to \subseteq UNION {left[i] : i \in DOMAIN left}
                    /\ \A i, j \in DOMAIN left : i # j => left[i] \cap left[j] = {}
  OBVIOUS
<1>0. to \in SUBSET Recipients
  BY DEF Recipients
<1>1. CASE actor \in to /\ to # {actor}
  <2>1. left = <<to \ {actor}>> \o <<{actor}>>
    BY <1>1 DEF personalSendSteps
  <2>2. <<to \ {actor}>> \in Seq(SUBSET Recipients) /\ <<{actor}>> \in Seq(SUBSET Recipients)
    BY <1>0, <1>1
  <2>3. left \in Seq(SUBSET Recipients)
    BY <2>1, <2>2
  <2>4. Len(left) = 2 /\ left[1] = to \ {actor} /\ left[2] = {actor}
    BY <2>1, <2>2
  <2>5. DOMAIN left = {1, 2}
    BY <2>3, <2>4
  <2> QED BY <1>1, <2>3, <2>4, <2>5
<1>2. CASE actor \in to /\ to = {actor}
  <2>1. left = <<>> \o <<{actor}>>
    BY <1>2 DEF personalSendSteps
  <2>2. left = <<to>>
    BY <1>2, <2>1
  <2>3. left \in Seq(SUBSET Recipients) /\ DOMAIN left = {1} /\ left[1] = to
    BY <1>0, <2>2
  <2> QED BY <2>3
<1>3. CASE actor \notin to /\ to # {}
  <2>1. left = <<to>>
    BY <1>3 DEF personalSendSteps
  <2>2. left \in Seq(SUBSET Recipients) /\ DOMAIN left = {1} /\ left[1] = to
    BY <1>0, <2>1
  <2> QED BY <2>2
<1>4. CASE to = {}
  <2>1. left = <<>>
    BY <1>4 DEF personalSendSteps
  <2>2. left \in Seq(SUBSET Recipients) /\ DOMAIN left = {}
    BY <2>1
  <2> QED BY <1>4, <2>2
<1> QED BY <1>1, <1>2, <1>3, <1>4

(* The sequence of an action writes to everyone it is for, once.           *)
LEMMA ActionCellFits ==
  ASSUME NEW c \in Mail, NEW action \in Action
  PROVE  LET s == actionCell(c, action)
         IN  /\ s \in Mail /\ s.kind = "send" /\ s.action = action
             /\ EventKey(s) = EventKey(c)
             /\ Wanted(Mark(s, s.action)) \subseteq UNION {s.left[i] : i \in DOMAIN s.left}
             /\ \A i, j \in DOMAIN s.left : i # j => s.left[i] \cap s.left[j] = {}
<1> DEFINE s == actionCell(c, action)
           personal == c.about = "opened" \/ action = "pemail"
           split == c.about = "opened" \/ ~PreviouslyActioned(c, action)
<1>0. /\ c.about \in {"opened", "completed"} /\ c.poll \in Poll
      /\ c.venue \in Venue \cup {NoVenue}
  BY DEF Mail
<1>1. s = [kind |-> "send", about |-> c.about, poll |-> c.poll, venue |-> c.venue,
           action |-> action,
           left |-> IF personal
                    THEN personalSendSteps(EmailRecipients(c.about),
                                           IF split THEN c.actor ELSE Nobody)
                    ELSE <<{MailingList}>>]
  BY DEF actionCell
<1>2. /\ s.kind = "send" /\ s.action = action /\ s.about = c.about /\ s.poll = c.poll
      /\ s.venue = c.venue
  BY <1>1
<1>3. Wanted(Mark(s, s.action)) = IF personal THEN Subscribed[c.about] ELSE {MailingList}
  BY <1>2 DEF Wanted, Mark
<1>4. /\ s.left \in Seq(SUBSET Recipients)
      /\ Wanted(Mark(s, s.action)) \subseteq UNION {s.left[i] : i \in DOMAIN s.left}
      /\ \A i, j \in DOMAIN s.left : i # j => s.left[i] \cap s.left[j] = {}
  <2>1. CASE personal
    <3>1. PICK actor : s.left = personalSendSteps(Subscribed[c.about], actor)
      BY <1>1, <2>1 DEF EmailRecipients
    <3>2. Subscribed[c.about] \in SUBSET User
      BY <1>0, NoticeConstants
    <3> DEFINE steps == personalSendSteps(Subscribed[c.about], actor)
    <3>3. /\ steps \in Seq(SUBSET Recipients)
          /\ Subscribed[c.about] \subseteq UNION {steps[i] : i \in DOMAIN steps}
          /\ \A i, j \in DOMAIN steps : i # j => steps[i] \cap steps[j] = {}
      BY <3>2, PersonalSends
    <3>4. Wanted(Mark(s, s.action)) = Subscribed[c.about]
      BY <1>3, <2>1
    <3>5. s.left = steps
      BY <3>1
    <3> HIDE DEF steps, s
    <3> QED BY <3>3, <3>4, <3>5
  <2>2. CASE ~personal
    <3>1. s.left = <<{MailingList}>>
      BY <1>1, <2>2
    <3>2. {MailingList} \in SUBSET Recipients
      BY DEF Recipients
    <3> HIDE DEF s
    <3>3. s.left \in Seq(SUBSET Recipients) /\ DOMAIN s.left = {1} /\ s.left[1] = {MailingList}
      BY <3>1, <3>2
    <3> QED BY <1>3, <2>2, <3>3
  <2> QED BY <2>1, <2>2
<1>5. s = [kind |-> "send", about |-> c.about, poll |-> c.poll, venue |-> c.venue,
           action |-> action, left |-> s.left]
  BY <1>1
<1>6. s \in Mail
  <2> HIDE DEF s
  <2> QED BY <1>0, <1>4, <1>5 DEF Mail
<1>7. EventKey(s) = EventKey(c)
  BY <1>2 DEF EventKey
<1> QED BY <1>2, <1>4, <1>6, <1>7

--------------------------------------------------------------------------------
(* The invariant of the emails.                                            *)

NoticeInv ==
  /\ NoticeTypeOK /\ ChangedIsNew /\ SendsFit /\ MailIsAlone /\ SentIsDone
  /\ MarkedIsSent /\ NobodyTwice

(* The mail is left alone.                                                 *)
LEMMA MailKept ==
  ASSUME NoticeInv, UNCHANGED <<keys, mail, sent>>, actions' \subseteq actions
  PROVE  /\ keys' \subseteq Identity /\ mail' \subseteq Mail /\ actions' \subseteq Marks
         /\ sent' \subseteq [mark: Marks, to: SUBSET Recipients]
         /\ \A c \in mail' : EventKey(c) \in keys'
         /\ SendsFit' /\ MailIsAlone' /\ SentIsDone' /\ MarkedIsSent' /\ NobodyTwice'
<1> USE DEF NoticeInv
<1>1. /\ keys' \subseteq Identity /\ mail' \subseteq Mail /\ actions' \subseteq Marks
      /\ sent' \subseteq [mark: Marks, to: SUBSET Recipients]
      /\ \A c \in mail' : EventKey(c) \in keys'
  BY DEF NoticeTypeOK
<1>2. SendsFit'
  BY DEF SendsFit
<1>3. MailIsAlone'
  BY DEF MailIsAlone
<1>4. SentIsDone'
  BY DEF SentIsDone
<1>5. MarkedIsSent'
  BY DEF MarkedIsSent
<1>6. NobodyTwice'
  BY DEF NobodyTwice
<1> QED BY <1>1, <1>2, <1>3, <1>4, <1>5, <1>6

(* The watches after a change: what they hold matches and is new.          *)
LEMMA DeliversStep ==
  ASSUME NoticeInv, AutoTypeOK', Delivers, UNCHANGED <<keys, mail, sent>>,
         actions' \subseteq actions, since' \in Day
  PROVE  NoticeInv'
<1>1. \A w \in changed' : w \in Watch /\ Matches(w)' /\ EventKey(Evidence(w))' \notin keys
  BY DEF Delivers
<1>2. lost' \subseteq Watch
  BY DEF Delivers, NoticeInv, NoticeTypeOK
<1>3. \A w \in Watch : Evidence(w)' \in PollObservedPayload
  BY EvidenceStaysTyped
<1>4. ChangedIsNew'
  BY <1>1 DEF ChangedIsNew
<1>5. NoticeTypeOK'
  BY <1>1, <1>2, <1>3, MailKept DEF NoticeTypeOK
<1> QED BY <1>4, <1>5, MailKept DEF NoticeInv

(* A new identity gets one handler.                                        *)
LEMMA ObserveStep ==
  ASSUME AutoTypeOK, NoticeInv, NEW w \in Watch, Observe(w)
  PROVE  NoticeInv'
<1> DEFINE e == Evidence(w)
           k == EventKey(e)
           c == [kind |-> "notify", about |-> e.about, poll |-> e.poll, venue |-> e.venue,
                 actor |-> e.actor]
<1>0. /\ changed' = changed \ {w} /\ keys' = keys \cup {k} /\ mail' = mail \cup {c}
      /\ lost' \subseteq lost /\ w \in changed
      /\ UNCHANGED <<poll, since, actions, sent>>
  BY DEF Observe, createTruth, autoVars, docVars
<1>1. k \notin keys /\ \A x \in changed : Matches(x) /\ EventKey(Evidence(x)) \notin keys
  BY <1>0 DEF NoticeInv, ChangedIsNew
<1>2. e \in PollObservedPayload /\ k \in Identity
  BY EvidenceTyped
<1> HIDE DEF e
<1>3. c \in Mail /\ c.kind = "notify" /\ EventKey(c) = k
  <2>1. c \in Mail
    BY <1>2 DEF PollObservedPayload, Mail
  <2> QED BY <2>1 DEF EventKey
<1> HIDE DEF c, k
<1>4. \A x \in Watch : Evidence(x)' = Evidence(x) /\ (Matches(x)' <=> Matches(x))
  BY <1>0 DEF Evidence, Matches
<1>5. ASSUME NEW x \in changed' PROVE Matches(x)' /\ EventKey(Evidence(x))' \notin keys'
  <2>1. x \in changed /\ x # w /\ x \in Watch
    BY <1>0, <1>5 DEF NoticeInv, NoticeTypeOK
  <2>2. EventKey(Evidence(x)) # k
    BY <2>1, KeysDiffer DEF e, k
  <2>3. EventKey(Evidence(x))' = EventKey(Evidence(x))
    BY <1>4, <2>1 DEF EventKey
  <2> QED BY <1>0, <1>1, <1>4, <2>1, <2>2, <2>3
<1>6. ChangedIsNew'
  BY <1>5 DEF ChangedIsNew
<1>7. /\ mail \subseteq Mail /\ \A d \in mail : EventKey(d) \in keys /\ EventKey(d) # k
  BY <1>1 DEF NoticeInv, NoticeTypeOK
<1>8. NoticeTypeOK'
  <2>1. \A x \in Watch : Matches(x)' => Evidence(x)' \in PollObservedPayload
    BY <1>4, EvidenceTyped
  <2>2. since' \in Day /\ changed' \subseteq Watch /\ lost' \subseteq Watch
    BY <1>0 DEF NoticeInv, NoticeTypeOK
  <2>3. keys' \subseteq Identity /\ mail' \subseteq Mail /\ \A d \in mail' : EventKey(d) \in keys'
    BY <1>0, <1>2, <1>3, <1>7 DEF NoticeInv, NoticeTypeOK, k
  <2> QED BY <1>0, <2>1, <2>2, <2>3 DEF NoticeInv, NoticeTypeOK
<1>9. SendsFit'
  <2>1. \A d \in mail' : d.kind = "send" => d \in mail
    BY <1>0, <1>3
  <2> QED BY <2>1 DEF NoticeInv, SendsFit
<1>10. MailIsAlone'
  BY <1>0, <1>3, <1>7 DEF NoticeInv, MailIsAlone
<1>11. SentIsDone'
  <2>1. \A s \in sent : EventKey(s.mark) \in keys /\ EventKey(s.mark) # k
    BY <1>1 DEF NoticeInv, SentIsDone
  <2> QED BY <1>0, <1>3, <2>1 DEF NoticeInv, SentIsDone
<1>12. MarkedIsSent' /\ NobodyTwice'
  BY <1>0 DEF NoticeInv, MarkedIsSent, NobodyTwice
<1> QED BY <1>6, <1>8, <1>9, <1>10, <1>11, <1>12 DEF NoticeInv

LEMMA ObserveFailsStep ==
  ASSUME AutoTypeOK, NoticeInv, NEW w \in Watch, ObserveFails(w)
  PROVE  NoticeInv'
<1>1. /\ changed' \subseteq changed /\ lost' \subseteq Watch
      /\ UNCHANGED <<poll, since, keys, mail, actions, sent>>
  BY DEF ObserveFails, docVars, NoticeInv, NoticeTypeOK
<1>2. \A x \in Watch : Evidence(x)' = Evidence(x) /\ (Matches(x)' <=> Matches(x))
  BY <1>1 DEF Evidence, Matches
<1>3. \A x \in Watch : EventKey(Evidence(x))' = EventKey(Evidence(x))
  BY <1>2 DEF EventKey
<1>4. changed \subseteq Watch /\ since' \in Day
  BY <1>1 DEF NoticeInv, NoticeTypeOK
<1>5. ChangedIsNew'
  BY <1>1, <1>2, <1>3, <1>4 DEF NoticeInv, ChangedIsNew
<1>6. NoticeTypeOK'
  BY <1>1, <1>2, <1>4, MailKept, EvidenceTyped DEF NoticeTypeOK
<1> QED BY <1>1, <1>5, <1>6, MailKept DEF NoticeInv

(* A handler becomes the sequences of the actions it needs.                *)
LEMMA HandlerStep ==
  ASSUME AutoTypeOK, NoticeInv, NEW c \in mail, c.kind = "notify", NEW needed \in SUBSET Action,
         mail' = (mail \ {c}) \cup {actionCell(c, a) : a \in needed},
         UNCHANGED <<autoVars, since, changed, keys, actions, sent, lost>>
  PROVE  NoticeInv'
<1>0. UNCHANGED <<poll, since, changed, keys, actions, sent, lost>>
  BY DEF autoVars, docVars
<1>1. c \in Mail /\ mail \subseteq Mail /\ EventKey(c) \in keys
  BY DEF NoticeInv, NoticeTypeOK
<1>2. ASSUME NEW a \in needed
      PROVE  LET s == actionCell(c, a)
             IN  /\ s \in Mail /\ s.kind = "send" /\ s.action = a
                 /\ EventKey(s) = EventKey(c)
                 /\ Wanted(Mark(s, s.action)) \subseteq UNION {s.left[i] : i \in DOMAIN s.left}
                 /\ \A i, j \in DOMAIN s.left : i # j => s.left[i] \cap s.left[j] = {}
  BY <1>1, ActionCellFits
<1>3. ASSUME NEW s \in mail'
      PROVE  \/ /\ s \in mail /\ EventKey(s) # EventKey(c)
             \/ \E a \in needed : s = actionCell(c, a)
  <2>1. CASE s \in mail /\ s # c
    BY <2>1 DEF NoticeInv, MailIsAlone
  <2> QED BY <2>1
<1>4. NoticeTypeOK'
  <2>1. \A x \in Watch : Evidence(x)' = Evidence(x) /\ (Matches(x)' <=> Matches(x))
    BY <1>0 DEF Evidence, Matches
  <2>2. mail' \subseteq Mail /\ \A s \in mail' : EventKey(s) \in keys'
    BY <1>0, <1>1, <1>2, <1>3 DEF NoticeInv, NoticeTypeOK
  <2> QED BY <1>0, <2>1, <2>2, EvidenceTyped DEF NoticeInv, NoticeTypeOK
<1>5. ChangedIsNew'
  <2>1. \A x \in changed : Evidence(x)' = Evidence(x) /\ (Matches(x)' <=> Matches(x))
    BY <1>0 DEF Evidence, Matches
  <2>2. \A x \in changed : EventKey(Evidence(x))' = EventKey(Evidence(x))
    BY <2>1 DEF EventKey
  <2> QED BY <1>0, <2>1, <2>2 DEF NoticeInv, ChangedIsNew
<1>6. SendsFit'
  <2> SUFFICES ASSUME NEW s \in mail', s.kind = "send"
               PROVE  /\ Wanted(Mark(s, s.action)) \subseteq UNION {s.left[i] : i \in DOMAIN s.left}
                      /\ \A i, j \in DOMAIN s.left : i # j => s.left[i] \cap s.left[j] = {}
    BY DEF SendsFit
  <2>1. CASE s \in mail
    BY <2>1 DEF NoticeInv, SendsFit
  <2>2. CASE s \notin mail
    <3>1. PICK a \in needed : s = actionCell(c, a)
      BY <1>3, <2>2
    <3> QED BY <1>2, <3>1
  <2> QED BY <2>1, <2>2
<1>7. MailIsAlone'
  <2> SUFFICES ASSUME NEW s \in mail', NEW t \in mail', EventKey(s) = EventKey(t), s # t
               PROVE  s.kind = "send" /\ t.kind = "send" /\ s.action # t.action
    BY DEF MailIsAlone
  <2>1. CASE EventKey(s) = EventKey(c)
    <3>1. PICK a \in needed : s = actionCell(c, a)
      BY <1>3, <2>1
    <3>2. PICK b \in needed : t = actionCell(c, b)
      BY <1>3, <2>1
    <3>3. s.kind = "send" /\ t.kind = "send" /\ s.action = a /\ t.action = b
      BY <1>2, <3>1, <3>2
    <3> QED BY <3>1, <3>2, <3>3
  <2>2. CASE EventKey(s) # EventKey(c)
    <3>1. s \in mail /\ t \in mail
      BY <1>2, <1>3, <2>2
    <3> QED BY <3>1 DEF NoticeInv, MailIsAlone
  <2> QED BY <2>1, <2>2
<1>8. SentIsDone'
  <2>1. ASSUME NEW e \in sent, NEW s \in mail', EventKey(e.mark) = EventKey(s)
        PROVE  s.kind = "send" /\ s.action # e.mark.action
    <3>1. EventKey(e.mark) # EventKey(c)
      BY DEF NoticeInv, SentIsDone
    <3>2. s \in mail
      BY <1>2, <1>3, <2>1, <3>1
    <3> QED BY <2>1, <3>2 DEF NoticeInv, SentIsDone
  <2>2. \A e \in sent : EventKey(e.mark) \in keys
    BY DEF NoticeInv, SentIsDone
  <2> QED BY <1>0, <2>1, <2>2 DEF SentIsDone
<1>9. MarkedIsSent' /\ NobodyTwice'
  BY <1>0 DEF NoticeInv, MarkedIsSent, NobodyTwice
<1> QED BY <1>4, <1>5, <1>6, <1>7, <1>8, <1>9 DEF NoticeInv

(* A sequence that ends: everyone it is for is written to, and nobody who  *)
(* had been.                                                               *)
LEMMA MarkedStep ==
  ASSUME AutoTypeOK, NoticeInv, NEW c \in mail, CompletionMarked(c)
  PROVE  NoticeInv'
<1> DEFINE m == Mark(c, c.action)
           new == {[mark |-> m, to |-> c.left[i]] : i \in DOMAIN c.left}
<1>0. /\ c.kind = "send" /\ sent' = sent \cup new /\ actions' = actions \cup {m}
      /\ mail' = mail \ {c}
      /\ UNCHANGED <<poll, since, changed, keys, lost>>
  BY DEF CompletionMarked, MarkAction, autoVars, docVars
<1>1. c \in Mail /\ mail \subseteq Mail /\ EventKey(c) \in keys
  BY DEF NoticeInv, NoticeTypeOK
<1>2. /\ c.action \in Action /\ c.left \in Seq(SUBSET Recipients)
      /\ m \in Marks /\ EventKey(m) = EventKey(c) /\ m.action = c.action
  BY <1>0, <1>1, MailKey
<1>3. /\ Wanted(m) \subseteq UNION {c.left[i] : i \in DOMAIN c.left}
      /\ \A i, j \in DOMAIN c.left : i # j => c.left[i] \cap c.left[j] = {}
  BY <1>0 DEF NoticeInv, SendsFit
<1> HIDE DEF m
<1>4. ASSUME NEW e \in new
      PROVE  e.mark = m /\ \E i \in DOMAIN c.left : e = [mark |-> m, to |-> c.left[i]] /\ e.to = c.left[i]
  OBVIOUS
<1>5. \A e \in sent : e.mark # m
  <2> SUFFICES ASSUME NEW e \in sent, e.mark = m PROVE FALSE
    OBVIOUS
  <2> QED BY <1>2 DEF NoticeInv, SentIsDone
<1>6. sent' \subseteq [mark: Marks, to: SUBSET Recipients]
  <2>1. ASSUME NEW i \in DOMAIN c.left
        PROVE  [mark |-> m, to |-> c.left[i]] \in [mark: Marks, to: SUBSET Recipients]
    <3>1. c.left[i] \in SUBSET Recipients
      BY <1>2
    <3> QED BY <1>2, <3>1
  <2>2. sent \subseteq [mark: Marks, to: SUBSET Recipients]
    BY DEF NoticeInv, NoticeTypeOK
  <2> QED BY <1>0, <2>1, <2>2
<1>7. NoticeTypeOK'
  <2>1. \A x \in Watch : Evidence(x)' = Evidence(x) /\ (Matches(x)' <=> Matches(x))
    BY <1>0 DEF Evidence, Matches
  <2>2. mail' \subseteq Mail /\ actions' \subseteq Marks /\ \A s \in mail' : EventKey(s) \in keys'
    BY <1>0, <1>1, <1>2 DEF NoticeInv, NoticeTypeOK
  <2> HIDE DEF new
  <2> QED BY <1>0, <1>6, <2>1, <2>2, EvidenceTyped DEF NoticeInv, NoticeTypeOK
<1>8. ChangedIsNew'
  <2>1. \A x \in changed : Evidence(x)' = Evidence(x) /\ (Matches(x)' <=> Matches(x))
    BY <1>0 DEF Evidence, Matches
  <2>2. \A x \in changed : EventKey(Evidence(x))' = EventKey(Evidence(x))
    BY <2>1 DEF EventKey
  <2> HIDE DEF new
  <2> QED BY <1>0, <2>1, <2>2 DEF NoticeInv, ChangedIsNew
<1>9. SendsFit' /\ MailIsAlone'
  <2>1. mail' \subseteq mail
    BY <1>0
  <2> QED BY <2>1 DEF NoticeInv, SendsFit, MailIsAlone
<1>10. SentIsDone'
  <2> SUFFICES ASSUME NEW e \in sent'
               PROVE  /\ EventKey(e.mark) \in keys'
                      /\ \A d \in mail' : EventKey(e.mark) = EventKey(d) =>
                           d.kind = "send" /\ d.action # e.mark.action
    BY DEF SentIsDone
  <2>1. mail' \subseteq mail /\ c \notin mail' /\ keys' = keys
    BY <1>0
  <2>2. CASE e \in sent
    BY <2>1, <2>2 DEF NoticeInv, SentIsDone
  <2>3. CASE e \in new
    <3>1. e.mark = m
      BY <1>4, <2>3
    <3>2. \A d \in mail' : EventKey(c) = EventKey(d) => d.kind = "send" /\ d.action # c.action
      BY <2>1 DEF NoticeInv, MailIsAlone
    <3> QED BY <1>1, <1>2, <2>1, <3>1, <3>2
  <2> QED BY <1>0, <2>2, <2>3
<1>11. MarkedIsSent'
  <2> SUFFICES ASSUME NEW n \in actions', NEW u \in Wanted(n)
               PROVE  \E e \in sent' : e.mark = n /\ u \in e.to
    BY DEF MarkedIsSent
  <2>1. CASE n \in actions
    <3>1. PICK e \in sent : e.mark = n /\ u \in e.to
      BY <2>1 DEF NoticeInv, MarkedIsSent
    <3> QED BY <1>0, <3>1
  <2>2. CASE n = m
    <3>1. PICK i \in DOMAIN c.left : u \in c.left[i]
      BY <1>3, <2>2
    <3> DEFINE e == [mark |-> m, to |-> c.left[i]]
    <3>2. e \in new /\ e.mark = m /\ u \in e.to
      BY <3>1
    <3> QED BY <1>0, <2>2, <3>2
  <2> QED BY <1>0, <2>1, <2>2
<1>12. NobodyTwice'
  <2> SUFFICES ASSUME NEW e \in sent', NEW f \in sent', e.mark = f.mark, e # f
               PROVE  e.to \cap f.to = {}
    BY DEF NobodyTwice
  <2>1. CASE e \in new /\ f \in new
    <3>1. PICK i \in DOMAIN c.left : e = [mark |-> m, to |-> c.left[i]] /\ e.to = c.left[i]
      BY <1>4, <2>1
    <3>2. PICK j \in DOMAIN c.left : f = [mark |-> m, to |-> c.left[j]] /\ f.to = c.left[j]
      BY <1>4, <2>1
    <3>3. i # j
      BY <3>1, <3>2
    <3> QED BY <1>3, <3>1, <3>2, <3>3
  <2>2. CASE e \in sent /\ f \in sent
    BY <2>2 DEF NoticeInv, NobodyTwice
  <2>3. CASE (e \in sent /\ f \in new) \/ (e \in new /\ f \in sent)
    BY <1>4, <1>5, <2>3
  <2> QED BY <1>0, <2>1, <2>2, <2>3
<1> QED BY <1>7, <1>8, <1>9, <1>10, <1>11, <1>12 DEF NoticeInv

LEMMA NoticeUnchanged ==
  ASSUME NoticeInv, AutoTypeOK, UNCHANGED <<poll, noticeVars>>
  PROVE  NoticeInv'
<1>0. UNCHANGED <<poll, since, changed, keys, mail, actions, sent, lost>>
  BY DEF noticeVars
<1>1. \A x \in Watch : Evidence(x)' = Evidence(x) /\ (Matches(x)' <=> Matches(x))
  BY <1>0 DEF Evidence, Matches
<1>2. \A x \in Watch : EventKey(Evidence(x))' = EventKey(Evidence(x))
  BY <1>1 DEF EventKey
<1>3. NoticeTypeOK'
  BY <1>0, <1>1, MailKept, EvidenceTyped DEF NoticeInv, NoticeTypeOK
<1>4. ChangedIsNew'
  BY <1>0, <1>1, <1>2 DEF NoticeInv, NoticeTypeOK, ChangedIsNew
<1> QED BY <1>0, <1>3, <1>4, MailKept DEF NoticeInv

--------------------------------------------------------------------------------
(* The emails with automatic completion.                                   *)

LEMMA NoticeInit == Init => NoticeInv
<1> SUFFICES ASSUME Init PROVE NoticeInv
  OBVIOUS
<1> DEFINE Key0(p) == [about |-> "opened", poll |-> p, venue |-> NoVenue]
           Sent0(p) == [mark |-> OpenedMark(p), to |-> Subscribed["opened"]]
<1>0. AutoTypeOK
  BY AutoInitHolds DEF Init, AutoInv
<1>1. /\ Old \subseteq Poll /\ changed = {} /\ mail = {} /\ lost = {} /\ since = 0
      /\ keys = {Key0(p) : p \in Old}
      /\ actions = {OpenedMark(p) : p \in Old}
      /\ sent = {Sent0(p) : p \in Old}
  BY DEF Init, Old
<1>2. Subscribed["opened"] \in SUBSET User /\ Subscribed["opened"] \in SUBSET Recipients
  BY NoticeConstants DEF Recipients
<1>3. ASSUME NEW p \in Poll
      PROVE  /\ Key0(p) \in Identity /\ OpenedMark(p) \in Marks
             /\ Sent0(p) \in [mark: Marks, to: SUBSET Recipients]
             /\ EventKey(OpenedMark(p)) = Key0(p)
             /\ Wanted(OpenedMark(p)) = Subscribed["opened"]
             /\ Sent0(p).mark = OpenedMark(p) /\ Sent0(p).to = Subscribed["opened"]
             /\ OpenedMark(p).poll = p
  <2>1. OpenedMark(p) \in Marks
    BY DEF OpenedMark, Marks, Action
  <2>2. Key0(p) \in Identity /\ EventKey(OpenedMark(p)) = Key0(p)
    BY DEF Identity, OpenedMark, EventKey
  <2>3. Wanted(OpenedMark(p)) = Subscribed["opened"] /\ OpenedMark(p).poll = p
    BY DEF Wanted, OpenedMark
  <2> QED BY <1>2, <2>1, <2>2, <2>3
<1> HIDE DEF Key0, Sent0
<1>4. NoticeTypeOK
  <2>1. since \in Day
    BY <1>1, Numbers DEF Day
  <2>2. \A w \in Watch : Matches(w) => Evidence(w) \in PollObservedPayload
    BY <1>0, EvidenceTyped
  <2> QED BY <1>1, <1>3, <2>1, <2>2 DEF NoticeTypeOK
<1>5. ChangedIsNew /\ SendsFit /\ MailIsAlone
  BY <1>1 DEF ChangedIsNew, SendsFit, MailIsAlone
<1>6. SentIsDone
  BY <1>1, <1>3 DEF SentIsDone
<1>7. MarkedIsSent
  <2> SUFFICES ASSUME NEW m \in actions, NEW u \in Wanted(m)
               PROVE  \E e \in sent : e.mark = m /\ u \in e.to
    BY DEF MarkedIsSent
  <2>1. PICK p \in Old : m = OpenedMark(p)
    BY <1>1
  <2> QED BY <1>1, <1>3, <2>1
<1>8. NobodyTwice
  <2> SUFFICES ASSUME NEW e \in sent, NEW f \in sent, e.mark = f.mark PROVE e = f
    BY DEF NobodyTwice
  <2>1. PICK p \in Old : e = Sent0(p)
    BY <1>1
  <2>2. PICK q \in Old : f = Sent0(q)
    BY <1>1
  <2>3. p = q
    BY <1>1, <1>3, <2>1, <2>2
  <2> QED BY <2>1, <2>2, <2>3
<1> QED BY <1>4, <1>5, <1>6, <1>7, <1>8 DEF NoticeInv

LEMMA InvariantStep == IInv /\ [Next]_vars => IInv'
<1> SUFFICES ASSUME IInv, [Next]_vars PROVE AutoInv' /\ NoticeInv'
  BY DEF IInv, NoticeInv
<1>0. AutoInv /\ NoticeInv /\ AutoTypeOK /\ disturbed \in 0..MaxDisturb
  BY DEF IInv, NoticeInv, AutoInv, AutoTypeOK
<1>a. ASSUME UNCHANGED autoVars PROVE AutoInv'
  <2>1. /\ disturbed' \in 0..MaxDisturb
        /\ UNCHANGED <<docVars, now, up, timerVars, cells, claimed, discovered, manual, edits>>
    BY <1>0, <1>a DEF autoVars
  <2> QED BY <1>0, <2>1, AutoUnchanged
<1>1. CASE AutoNext /\ Noticed
  <2>1. AutoNext
    BY <1>1
  <2>2. AutoInv'
    BY <1>0, <2>1, AutoNextStep
  <2>3. AutoTypeOK'
    BY <2>2 DEF AutoInv
  <2>4. /\ UNCHANGED <<since, keys, mail, sent>> /\ actions' \subseteq actions /\ Delivers
    BY <1>1 DEF Noticed
  <2>5. since' \in Day
    BY <1>0, <2>4 DEF NoticeInv, NoticeTypeOK
  <2> QED BY <1>0, <2>2, <2>3, <2>4, <2>5, DeliversStep
<1>2. CASE StartApp
  <2>1. AutoInv'
    BY <1>0, <1>2, AutoNextStep DEF StartApp
  <2>2. AutoTypeOK'
    BY <2>1 DEF AutoInv
  <2>3. since' \in Day
    BY <1>0, <1>2 DEF StartApp, ResolvePollsSince, NoticeInv, NoticeTypeOK
  <2> QED BY <1>0, <1>2, <2>1, <2>2, <2>3, DeliversStep DEF StartApp
<1>3. CASE \E w \in Watch : Observe(w)
  <2>1. PICK w \in Watch : Observe(w)
    BY <1>3
  <2> QED BY <1>0, <1>a, <2>1, ObserveStep DEF Observe
<1>4. CASE \E w \in Watch : ObserveFails(w)
  <2>1. PICK w \in Watch : ObserveFails(w)
    BY <1>4
  <2>2. /\ UNCHANGED <<docVars, now, up, timerVars, cells, claimed, discovered, manual, edits>>
        /\ Disturb
    BY <2>1 DEF ObserveFails
  <2>3. disturbed' \in 0..MaxDisturb
    BY <1>0, <2>2, Numbers DEF Disturb
  <2> QED BY <1>0, <2>1, <2>2, <2>3, ObserveFailsStep, AutoUnchanged
<1>5. CASE \E c \in mail : Deliver(c)
  <2>1. PICK c \in mail : Deliver(c)
    BY <1>5
  <2>2. CASE PollOpenedEmail(c)
    <3> DEFINE needed == {b \in {"email"} : NeedsAction(c, b)}
    <3>1. /\ c.kind = "notify" /\ mail' = (mail \ {c}) \cup {actionCell(c, a) : a \in needed}
          /\ UNCHANGED <<autoVars, since, changed, keys, actions, sent, lost>>
      BY <2>2 DEF PollOpenedEmail
    <3>2. needed \in SUBSET Action
      BY DEF Action
    <3> HIDE DEF needed
    <3>3. NoticeInv'
      BY <1>0, <3>1, <3>2, HandlerStep
    <3> QED BY <1>a, <3>1, <3>3
  <2>3. CASE PollCompletedEmail(c)
    <3> DEFINE needed == {a \in {"email", "pemail"} : NeedsAction(c, a)}
    <3>1. /\ c.kind = "notify" /\ mail' = (mail \ {c}) \cup {actionCell(c, a) : a \in needed}
          /\ UNCHANGED <<autoVars, since, changed, keys, actions, sent, lost>>
      BY <2>3 DEF PollCompletedEmail
    <3>2. needed \in SUBSET Action
      BY DEF Action
    <3> HIDE DEF needed
    <3>3. NoticeInv'
      BY <1>0, <3>1, <3>2, HandlerStep
    <3> QED BY <1>a, <3>1, <3>3
  <2>4. CASE CompletionMarked(c)
    <3>1. UNCHANGED autoVars
      BY <2>4 DEF CompletionMarked
    <3> QED BY <1>0, <1>a, <2>4, <3>1, MarkedStep
  <2> QED BY <2>1, <2>2, <2>3, <2>4 DEF Deliver
<1>6. CASE UNCHANGED vars
  <2>1. UNCHANGED autoVars /\ UNCHANGED <<poll, noticeVars>>
    BY <1>6 DEF vars, autoVars, docVars
  <2> QED BY <1>0, <1>a, <2>1, NoticeUnchanged
<1> QED BY <1>1, <1>2, <1>3, <1>4, <1>5, <1>6 DEF Next

--------------------------------------------------------------------------------
(* What holds in every behaviour.                                          *)

(* The invariant of polls and of the emails about them: whatever people do *)
(* and wherever the application stops.                                     *)
THEOREM InvariantHolds == Spec => []IInv
<1>1. Init => IInv
  BY AutoInitHolds, NoticeInit DEF Init, IInv, NoticeInv
<1> QED BY <1>1, InvariantStep, PTL DEF Spec

(* Polls are sound: a day is discovered once, a completed poll has a venue,*)
(* the timers wait for the next boundary, the action history is true of    *)
(* what was sent, and nobody is written to twice about one selection.      *)
THEOREM PollsAreSound == Spec => []PollsSound
<1>1. IInv => PollsSound
  <2> SUFFICES ASSUME IInv PROVE PollsSound
    OBVIOUS
  <2>1. OneDiscovery
    BY DEF IInv, AutoInv, DiscoveryFits, OneDiscovery
  <2> QED BY <2>1, FixedRate DEF IInv, AutoInv, PollsSound
<1> QED BY <1>1, InvariantHolds, PTL

(* Manual completion wins: Close, executed however often and whatever      *)
(* Candidate had decided, leaves a completed poll as it is; what changes   *)
(* one is a person.                                                        *)
THEOREM ManualCompletionWins == Spec => ManualWins
<1>1. IInv /\ [Next]_vars =>
        [\A p \in Poll : Completed(p) /\ edits' = edits => poll'[p] = poll[p]]_vars
  <2> SUFFICES ASSUME IInv, [Next]_vars, NEW p \in Poll, Completed(p), edits' = edits
               PROVE  poll'[p] = poll[p]
    OBVIOUS
  <2>0. AutoTypeOK /\ CompletedHasVenue
    BY DEF IInv, AutoInv
  <2>1. CASE poll' = poll
    BY <2>1
  <2>2. CASE People
    BY <2>0, <2>2, PeopleStep
  <2>3. CASE \E c \in cells : CompletePoll(c)
    BY <2>0, <2>3, CompletePollStep
  <2>4. ASSUME AutoNext PROVE People \/ (\E c \in cells : CompletePoll(c)) \/ poll' = poll
    BY <2>4 DEF AutoNext, Tick, Crash, Stop, RunOnce, RunOnceFails, TimerRetries, Execute, NotFound,
            Exists, InsertUnlessExistsWork, Emits, ClaimRejected, Discovery, GetPoll, GetVotes,
            GetVenues, Finish, Ambiguous, docVars
  <2>5. AutoNext \/ poll' = poll
    BY DEF Next, StartApp, Start, Observe, ObserveFails, Deliver, PollOpenedEmail,
           PollCompletedEmail, CompletionMarked, vars, autoVars, docVars
  <2> QED BY <2>1, <2>2, <2>3, <2>4, <2>5
<1> QED BY <1>1, InvariantHolds, PTL DEF Spec, ManualWins
================================================================================
