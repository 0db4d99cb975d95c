--------------------------- MODULE EventVenuesProofs ---------------------------
(***************************************************************************)
(* EventVenues keeps its types, creates one poll for a date, and never     *)
(* blocks the correction of a venue nobody has edited, for every set of    *)
(* venues and rules and every number of days, edits and crashes.  The last *)
(* of these needs rules that are Steady.  The second half of the module is *)
(* about Recurrence: the next occurrence is calculated as the rule means   *)
(* it, and rules that skip nothing are Steady.                             *)
(***************************************************************************)
EXTENDS EventVenues, SequenceTheorems, FiniteSetTheorems, WellFoundedInduction, TLAPS

LEMMA DaysAreNumbers ==
  /\ NoDate \in Nat /\ FirstDay \in Nat /\ LastDay \in Nat /\ FirstDay <= LastDay
  /\ NoDate < FirstDay
  /\ \A d \in Days : d \in Nat /\ FirstDay <= d /\ d <= LastDay
  /\ \A r \in Rule, d \in Days : Occurrence[r][d] \in Nat
BY EventConstants DEF NoDate, Days

--------------------------------------------------------------------------------
(* What the operations do to the cells and the identities.                 *)

(* An observation claims its own identity and the ones it calls for; a new *)
(* stale identity is of the venue as it is today, and has a cell.          *)
LEMMA ObservedEffect ==
  ASSUME TypeOK, NEW vs \in SUBSET Venue, createEventVenueObserved(vs)
  PROVE  /\ keys' \subseteq Evidence \cup Truth
         /\ cells' \subseteq Cell
         /\ keys \subseteq keys' /\ cells \subseteq cells'
         /\ \A k \in keys' \cap StaleEvent : k \notin keys =>
              /\ k.venue \in Venue
              /\ k.rule = venue[k.venue].rule /\ k.next = venue[k.venue].next
              /\ NeedsRecalculation(k.rule, k.next, today)
              /\ [key |-> k, stage |-> "work"] \in cells'
<1> DEFINE observed == {Seen(v) : v \in vs}
           called == UNION {Evaluated(e) : e \in observed \ keys}
<1>1. /\ keys' = keys \cup observed \cup called
      /\ cells' = cells \cup {[key |-> k, stage |-> "work"] : k \in called \ keys}
  BY DEF createEventVenueObserved
<1>2. ASSUME NEW e \in observed
      PROVE  /\ e \in Evidence /\ e \notin StaleEvent
             /\ e.venue \in Venue
             /\ e.rule = venue[e.venue].rule /\ e.next = venue[e.venue].next /\ e.on = today
  <2>1. PICK v \in vs : e = Seen(v)
    OBVIOUS
  <2>2. venue[v] \in Document /\ today \in Days
    BY DEF TypeOK
  <2>3. venue[v].rule \in Rule /\ venue[v].next \in Nat
    BY <2>2 DEF Document
  <2>4. e = [hop |-> "observed", venue |-> v, rule |-> venue[v].rule,
             next |-> venue[v].next, on |-> today]
    BY <2>1 DEF Seen
  <2>5. e \in Evidence
    BY <2>2, <2>3, <2>4 DEF Evidence
  <2>6. e \notin StaleEvent
    BY <2>4 DEF StaleEvent
  <2> QED BY <2>4, <2>5, <2>6
<1>3. ASSUME NEW k \in called
      PROVE  /\ k \in Truth
             /\ k \in StaleEvent =>
                  /\ k.venue \in Venue
                  /\ k.rule = venue[k.venue].rule /\ k.next = venue[k.venue].next
                  /\ NeedsRecalculation(k.rule, k.next, today)
  <2>1. PICK e \in observed \ keys : k \in Evaluated(e)
    OBVIOUS
  <2>2. /\ e \in Evidence /\ e.venue \in Venue
        /\ e.rule = venue[e.venue].rule /\ e.next = venue[e.venue].next /\ e.on = today
    BY <1>2
  <2>3. e.rule \in Rule /\ e.next \in Nat
    BY <2>2 DEF Evidence
  <2>4. CASE NeedsRecalculation(e.rule, e.next, e.on)
    <3>1. k = [hop |-> "stale", venue |-> e.venue, rule |-> e.rule, next |-> e.next]
      BY <2>1, <2>4 DEF Evaluated, StaleEventKey
    <3>2. k \in StaleEvent
      BY <2>2, <2>3, <3>1 DEF StaleEvent
    <3> QED BY <2>2, <2>4, <3>1, <3>2 DEF Truth
  <2>5. CASE ~NeedsRecalculation(e.rule, e.next, e.on)
    <3>1. k = [hop |-> "due", venue |-> e.venue, next |-> e.next]
      BY <2>1, <2>5 DEF Evaluated, EventDueKey
    <3>2. k \in EventDue
      BY <2>2, <2>3, <3>1 DEF EventDue
    <3>3. k \notin StaleEvent
      BY <3>1 DEF StaleEvent
    <3> QED BY <3>2, <3>3 DEF Truth
  <2> QED BY <2>4, <2>5
<1>4. keys' \subseteq Evidence \cup Truth
  BY <1>1, <1>2, <1>3 DEF TypeOK
<1>5. \A k \in called : [key |-> k, stage |-> "work"] \in Cell
  BY <1>3 DEF Cell, Stage
<1>6. cells' \subseteq Cell
  BY <1>1, <1>5 DEF TypeOK
<1>7. ASSUME NEW k \in keys' \cap StaleEvent, k \notin keys
      PROVE  /\ k.venue \in Venue
             /\ k.rule = venue[k.venue].rule /\ k.next = venue[k.venue].next
             /\ NeedsRecalculation(k.rule, k.next, today)
             /\ [key |-> k, stage |-> "work"] \in cells'
  <2>1. k \in called
    BY <1>1, <1>2, <1>7
  <2> QED BY <1>1, <1>3, <1>7, <2>1
<1> QED BY <1>1, <1>4, <1>6, <1>7

(* A cell that moves or ends leaves the other ones as they are.            *)
LEMMA CellEffect ==
  ASSUME TypeOK, NEW c \in cells,
         Ends(c) \/ \E s \in Stage : Moves(c, s)
  PROVE  /\ cells' \subseteq Cell
         /\ \A d \in cells : d # c => d \in cells'
<1>1. c \in Cell
  BY DEF TypeOK
<1>2. \A s \in Stage : [c EXCEPT !.stage = s] \in Cell
  BY <1>1 DEF Cell
<1> QED BY <1>2 DEF Ends, Moves, TypeOK

(* A start keeps the work of every cell.                                   *)
LEMMA RestartEffect ==
  ASSUME TypeOK, Restart
  PROVE  /\ cells' \subseteq Cell
         /\ \A k : [key |-> k, stage |-> "work"] \in cells => [key |-> k, stage |-> "work"] \in cells'
<1>1. cells' = {[c EXCEPT !.stage = "work"] : c \in cells}
  BY DEF Restart
<1>2. ASSUME NEW c \in cells
      PROVE  [c EXCEPT !.stage = "work"] \in Cell
  <2>1. c \in Cell
    BY DEF TypeOK
  <2> QED BY <2>1 DEF Cell, Stage
<1>3. ASSUME NEW k, [key |-> k, stage |-> "work"] \in cells
      PROVE  [key |-> k, stage |-> "work"] \in cells'
  <2> DEFINE c == [key |-> k, stage |-> "work"]
  <2>1. [c EXCEPT !.stage = "work"] = c
    OBVIOUS
  <2> QED BY <1>1, <1>3, <2>1
<1> QED BY <1>1, <1>2, <1>3

(* The documents after an advance.                                         *)
LEMMA AdvanceEffect ==
  ASSUME TypeOK, NEW c \in cells, Advance(c)
  PROVE  /\ c.key \in StaleEvent /\ c = [key |-> c.key, stage |-> "work"]
         /\ c.key.venue \in Venue
         /\ venue' \in [Venue -> Document]
         /\ \A v \in Venue :
              /\ venue'[v].kind = venue[v].kind /\ venue'[v].rule = venue[v].rule
              /\ v # c.key.venue => venue'[v].next = venue[v].next
         /\ IsEvent(c.key.venue) =>
              venue'[c.key.venue].next = Occurrence[venue[c.key.venue].rule][today]
         /\ ~IsEvent(c.key.venue) => venue' = venue
         /\ changed' \subseteq changed \cup {c.key.venue}
         /\ c.key.venue \in changed' => c.key.venue \in changed \/ IsEvent(c.key.venue)
<1> DEFINE v == c.key.venue
<1>1. c \in Cell /\ c.stage = "work" /\ c.key.hop = "stale"
  BY DEF TypeOK, Advance
<1>2. c.key \in StaleEvent
  BY <1>1 DEF Cell, Truth, EventDue
<1>3. v \in Venue
  BY <1>2 DEF StaleEvent
<1>4. c = [key |-> c.key, stage |-> "work"]
  BY <1>1 DEF Cell
<1>5. venue[v] \in Document /\ venue[v].rule \in Rule /\ today \in Days
  BY <1>3 DEF TypeOK, Document
<1>6. Occurrence[venue[v].rule][today] \in Nat
  BY <1>5, DaysAreNumbers
<1>7. CASE IsEvent(v) /\ NeedsRecalculation(venue[v].rule, venue[v].next, today)
  <2>1. /\ venue' = [venue EXCEPT ![v].next = Occurrence[venue[v].rule][today]]
        /\ changed' = changed \cup {v}
    BY <1>7 DEF Advance
  <2>2. venue' \in [Venue -> Document]
    BY <1>6, <2>1 DEF TypeOK, Document
  <2>3. /\ \A w \in Venue : w # v => venue'[w] = venue[w]
        /\ venue'[v] = [venue[v] EXCEPT !.next = Occurrence[venue[v].rule][today]]
    BY <1>3, <2>1 DEF TypeOK
  <2>4. /\ venue'[v].kind = venue[v].kind /\ venue'[v].rule = venue[v].rule
        /\ venue'[v].next = Occurrence[venue[v].rule][today]
    BY <1>5, <2>3 DEF Document
  <2> QED BY <1>2, <1>3, <1>4, <1>7, <2>1, <2>2, <2>3, <2>4
<1>8. CASE ~(IsEvent(v) /\ NeedsRecalculation(venue[v].rule, venue[v].next, today))
  <2>1. venue' = venue /\ changed' = changed
    BY <1>8 DEF Advance
  <2>2. IsEvent(v) => venue'[v].next = Occurrence[venue[v].rule][today]
    BY <1>8, <2>1 DEF NeedsRecalculation
  <2> QED BY <1>2, <1>3, <1>4, <2>1, <2>2 DEF TypeOK
<1> QED BY <1>7, <1>8

(* A document after an edit.                                               *)
LEMMA EditEffect ==
  ASSUME TypeOK, NEW v \in Venue, NEW kind \in Kind, NEW rule \in Rule, Edit(v, kind, rule)
  PROVE  /\ venue' \in [Venue -> Document]
         /\ \A w \in Venue : w # v => venue'[w] = venue[w]
         /\ venue'[v].kind = kind
<1>1. venue' = [venue EXCEPT ![v].kind = kind, ![v].rule = rule]
  BY DEF Edit
<1>2. venue \in [Venue -> Document] /\ venue[v] \in Document
  BY DEF TypeOK
<1> QED BY <1>1, <1>2 DEF Document

--------------------------------------------------------------------------------
(* Types.                                                                  *)

LEMMA TypeInit == Init => TypeOK
<1> SUFFICES ASSUME Init PROVE TypeOK
  OBVIOUS
<1>1. venue \in [Venue -> Document] /\ \A v \in Venue : venue[v].kind = "event"
  BY DaysAreNumbers DEF Init, Document, Kind
<1>2. changed \subseteq {v \in Venue : IsEvent(v)}
  BY <1>1 DEF Init, IsEvent
<1>3. today \in Days /\ edits \in 0..MaxEdits /\ disturbed \in 0..MaxDisturb
  BY EventConstants DEF Init, Days
<1>4. polls \in [Venue -> Seq(Nat)]
  BY DEF Init
<1> QED BY <1>1, <1>2, <1>3, <1>4 DEF Init, TypeOK

LEMMA TypeStep == TypeOK /\ [Next]_vars => TypeOK'
<1> SUFFICES ASSUME TypeOK, [Next]_vars PROVE TypeOK'
  OBVIOUS
<1> DEFINE Events == {v \in Venue : IsEvent(v)}
<1>0. ASSUME Disturb PROVE disturbed' \in 0..MaxDisturb
  BY <1>0, EventConstants DEF Disturb, TypeOK
<1>1. ASSUME NEW v \in Venue, NEW kind \in Kind, NEW rule \in Rule, Edit(v, kind, rule)
      PROVE  TypeOK'
  <2>1. edits' \in 0..MaxEdits
    BY <1>1, EventConstants DEF Edit, TypeOK
  <2>2. /\ venue' \in [Venue -> Document] /\ venue'[v].kind = kind
        /\ \A w \in Venue : w # v => venue'[w] = venue[w]
    BY <1>1, EditEffect
  <2>3. changed' \subseteq {w \in Venue : IsEvent(w)'}
    <3>1. \A w \in changed : w \in Venue /\ IsEvent(w)
      BY DEF TypeOK
    <3>2. changed' = IF venue'[v].kind \in {"event", "nameless"} THEN changed \cup {v} ELSE changed \ {v}
      BY <1>1 DEF Edit, Notified
    <3> QED BY <2>2, <3>1, <3>2 DEF IsEvent
  <2> QED BY <1>1, <2>1, <2>2, <2>3 DEF Edit, TypeOK
<1>2. ASSUME Tick PROVE TypeOK'
  <2>1. today' \in Days
    BY <1>2, DaysAreNumbers DEF Tick, TypeOK, Days
  <2> QED BY <1>2, <2>1 DEF Tick, TypeOK, IsEvent
<1>3. ASSUME NEW v \in Venue, Observe(v) PROVE TypeOK'
  <2>1. keys' \subseteq Evidence \cup Truth /\ cells' \subseteq Cell
    BY <1>3, ObservedEffect DEF Observe
  <2> QED BY <1>3, <2>1 DEF Observe, TypeOK, IsEvent
<1>4. ASSUME NEW v \in Venue, ObserveFails(v) PROVE TypeOK'
  BY <1>0, <1>4 DEF ObserveFails, TypeOK, IsEvent
<1>5. ASSUME ReevaluateOnce PROVE TypeOK'
  <2>1. keys' \subseteq Evidence \cup Truth /\ cells' \subseteq Cell
    BY <1>5, ObservedEffect DEF ReevaluateOnce, ListEventVenues
  <2> QED BY <1>5, <2>1 DEF ReevaluateOnce, TypeOK, IsEvent
<1>6. ASSUME NEW c \in cells, Advance(c) PROVE TypeOK'
  <2>1. cells' \subseteq Cell
    <3>1. Moves(c, "written") /\ "written" \in Stage
      BY <1>6 DEF Advance, Stage
    <3> QED BY <3>1, CellEffect
  <2>2. venue' \in [Venue -> Document]
    BY <1>6, AdvanceEffect
  <2>3. changed' \subseteq {w \in Venue : IsEvent(w)'}
    <3>1. \A w \in changed : w \in Venue /\ IsEvent(w)
      BY DEF TypeOK
    <3>2. \A w \in Venue : venue'[w].kind = venue[w].kind
      BY <1>6, AdvanceEffect
    <3>3. /\ c.key.venue \in Venue /\ changed' \subseteq changed \cup {c.key.venue}
          /\ c.key.venue \in changed' => c.key.venue \in changed \/ IsEvent(c.key.venue)
      BY <1>6, AdvanceEffect
    <3> QED BY <3>1, <3>2, <3>3 DEF IsEvent
  <2> QED BY <1>6, <2>1, <2>2, <2>3 DEF Advance, TypeOK
<1>7. ASSUME NEW c \in cells, CreateReads(c) PROVE TypeOK'
  <2>1. Moves(c, "read") \/ Ends(c)
    BY <1>7 DEF CreateReads
  <2>2. cells' \subseteq Cell
    BY <2>1, CellEffect DEF Stage
  <2> QED BY <1>7, <2>2 DEF CreateReads, TypeOK, IsEvent
<1>8. ASSUME NEW c \in cells, Create(c) PROVE TypeOK'
  <2>1. cells' \subseteq Cell
    <3>1. Moves(c, "written") /\ "written" \in Stage
      BY <1>8 DEF Create, Stage
    <3> QED BY <3>1, CellEffect
  <2>2. c.key.venue \in Venue /\ c.key.next \in Nat
    BY DEF TypeOK, Cell, Truth, StaleEvent, EventDue
  <2>3. polls' \in [Venue -> Seq(Nat)]
    <3>1. polls \in [Venue -> Seq(Nat)] /\ polls[c.key.venue] \in Seq(Nat)
      BY <2>2 DEF TypeOK
    <3>2. Append(polls[c.key.venue], c.key.next) \in Seq(Nat)
      BY <2>2, <3>1
    <3>3. \/ polls' = polls
          \/ polls' = [polls EXCEPT ![c.key.venue] = Append(polls[c.key.venue], c.key.next)]
      BY <1>8 DEF Create
    <3> QED BY <3>1, <3>2, <3>3
  <2> QED BY <1>8, <2>1, <2>3 DEF Create, TypeOK, IsEvent
<1>9. ASSUME NEW c \in cells, Finish(c) PROVE TypeOK'
  <2>1. cells' \subseteq Cell
    BY <1>9, CellEffect DEF Finish
  <2> QED BY <1>9, <2>1 DEF Finish, TypeOK, IsEvent
<1>10. ASSUME Restart, disturbed' \in 0..MaxDisturb PROVE TypeOK'
  <2>1. cells' \subseteq Cell
    BY <1>10, RestartEffect
  <2> QED BY <1>10, <2>1 DEF Restart, TypeOK, IsEvent
<1>11. ASSUME UNCHANGED vars PROVE TypeOK'
  BY <1>11 DEF vars, TypeOK, IsEvent
<1>12. disturbed \in 0..MaxDisturb
  BY DEF TypeOK
<1> QED BY <1>0, <1>1, <1>2, <1>3, <1>4, <1>5, <1>6, <1>7, <1>8, <1>9, <1>10, <1>11, <1>12
        DEF Next, Execute, NotFound, Crash

--------------------------------------------------------------------------------
(* One poll for a date: only Create appends, and only a date that is not   *)
(* there.                                                                  *)
LEMMA OnePollStep == TypeOK /\ OnePoll /\ [Next]_vars => OnePoll'
<1> SUFFICES ASSUME TypeOK, OnePoll, [Next]_vars PROVE OnePoll'
  OBVIOUS
<1>1. ASSUME polls' = polls PROVE OnePoll'
  BY <1>1 DEF OnePoll
<1>2. ASSUME NEW c \in cells, Create(c), polls' # polls PROVE OnePoll'
  <2> DEFINE w == c.key.venue
             date == c.key.next
  <2>1. /\ ~HasPoll(w, date)
        /\ polls' = [polls EXCEPT ![w] = Append(@, date)]
    BY <1>2 DEF Create
  <2>2. w \in Venue /\ date \in Nat
    BY DEF TypeOK, Cell, Truth, StaleEvent, EventDue
  <2>3. ASSUME NEW v \in Venue, NEW i \in DOMAIN polls'[v], NEW j \in DOMAIN polls'[v],
               polls'[v][i] = polls'[v][j]
        PROVE  i = j
    <3>1. CASE v # w
      <4>1. polls'[v] = polls[v]
        BY <2>1, <3>1 DEF TypeOK
      <4> QED BY <2>3, <4>1 DEF OnePoll
    <3>2. CASE v = w
      <4>1. polls[w] \in Seq(Nat) /\ polls'[w] = Append(polls[w], date)
        BY <2>1, <2>2 DEF TypeOK
      <4>2. /\ DOMAIN polls'[w] = 1..Len(polls[w]) + 1
            /\ \A n \in 1..Len(polls[w]) : polls'[w][n] = polls[w][n]
            /\ polls'[w][Len(polls[w]) + 1] = date
        BY <4>1, <2>2
      <4>3. \A n \in 1..Len(polls[w]) : n \in DOMAIN polls[w] /\ polls[w][n] # date
        BY <2>1, <4>1 DEF HasPoll
      <4>4. Len(polls[w]) \in Nat
        BY <4>1
      <4>5. \A n, m \in 1..Len(polls[w]) : polls[w][n] = polls[w][m] => n = m
        BY <2>2, <4>3 DEF OnePoll
      <4>6. /\ i \in 1..Len(polls[w]) \/ i = Len(polls[w]) + 1
            /\ j \in 1..Len(polls[w]) \/ j = Len(polls[w]) + 1
        BY <3>2, <4>2, <4>4
      <4> QED BY <2>3, <3>2, <4>2, <4>3, <4>5, <4>6
    <3> QED BY <3>1, <3>2
  <2> QED BY <2>3 DEF OnePoll
<1>3. polls' = polls \/ \E c \in cells : Create(c)
  BY DEF Next, Execute, Edit, Tick, Observe, ObserveFails, ReevaluateOnce, Advance, CreateReads,
         Finish, NotFound, Crash, Restart, vars
<1> QED BY <1>1, <1>2, <1>3

--------------------------------------------------------------------------------
(* The dates of venues that nobody has edited.                             *)

LEMMA NextFitsStep == TypeOK /\ NextFits /\ [Next]_vars => NextFits'
<1> SUFFICES ASSUME TypeOK, NextFits, [Next]_vars PROVE NextFits'
  OBVIOUS
<1> DEFINE Fits(v) ==
      /\ venue[v].kind = "event"
      /\ venue[v].next # NoDate =>
           \E d \in FirstDay..today : Occurrence[venue[v].rule][d] = venue[v].next
<1>0. \A v \in Venue \ edited : Fits(v)
  BY DEF NextFits
<1>1. ASSUME edited \subseteq edited', today' = today, venue' = venue PROVE NextFits'
  BY <1>0, <1>1 DEF NextFits
<1>2. ASSUME NEW v \in Venue, NEW kind \in Kind, NEW rule \in Rule, Edit(v, kind, rule)
      PROVE  NextFits'
  <2>1. \A w \in Venue : w # v => venue'[w] = venue[w]
    BY <1>2, EditEffect
  <2>2. edited' = edited \cup {v} /\ today' = today
    BY <1>2 DEF Edit
  <2> QED BY <1>0, <2>1, <2>2 DEF NextFits
<1>3. ASSUME Tick PROVE NextFits'
  <2>1. /\ venue' = venue /\ edited' = edited
        /\ \A d \in FirstDay..today : d \in FirstDay..today'
    BY <1>3, DaysAreNumbers DEF Tick, TypeOK
  <2> QED BY <1>0, <2>1 DEF NextFits
<1>4. ASSUME NEW c \in cells, Advance(c) PROVE NextFits'
  <2>1. edited' = edited /\ today' = today
    BY <1>4 DEF Advance
  <2>2. ASSUME NEW v \in Venue \ edited PROVE Fits(v)'
    <3>1. venue'[v].kind = venue[v].kind /\ venue'[v].rule = venue[v].rule
      BY <1>4, AdvanceEffect
    <3>2. CASE v # c.key.venue
      <4>1. venue'[v].next = venue[v].next
        BY <1>4, <3>2, AdvanceEffect
      <4> QED BY <1>0, <2>1, <3>1, <4>1
    <3>3. CASE v = c.key.venue
      <4>1. IsEvent(v)
        BY <1>0 DEF IsEvent
      <4>2. venue'[v].next = Occurrence[venue[v].rule][today]
        BY <1>4, <3>3, <4>1, AdvanceEffect
      <4>3. today \in FirstDay..today
        BY DaysAreNumbers DEF TypeOK
      <4> QED BY <1>0, <2>1, <3>1, <4>2, <4>3
    <3> QED BY <3>2, <3>3
  <2> QED BY <2>1, <2>2 DEF NextFits
<1>5. \/ /\ edited \subseteq edited' /\ today' = today /\ venue' = venue
      \/ \E v \in Venue, kind \in Kind, rule \in Rule : Edit(v, kind, rule)
      \/ Tick
      \/ \E c \in cells : Advance(c)
  BY DEF Next, Execute, Observe, ObserveFails, ReevaluateOnce, CreateReads, Create,
         Finish, NotFound, Crash, Restart, vars
<1> QED BY <1>1, <1>2, <1>3, <1>4, <1>5

(* A stored date of such a venue that is not today's occurrence has        *)
(* passed.                                                                 *)
LEMMA WrongDateHasPassed ==
  ASSUME TypeOK, NextFits, Steady, NEW v \in Venue \ edited,
         NeedsRecalculation(venue[v].rule, venue[v].next, today), venue[v].next # NoDate
  PROVE  venue[v].next < today
<1>1. PICK d \in FirstDay..today : Occurrence[venue[v].rule][d] = venue[v].next
  BY DEF NextFits
<1>2. venue[v].rule \in Rule /\ venue[v].next \in Nat /\ today \in Days
  BY DEF TypeOK, Document
<1>3. d \in Days /\ today \in d..LastDay
  BY <1>2, DaysAreNumbers DEF Days
<1>4. today <= venue[v].next => Occurrence[venue[v].rule][today] = venue[v].next
  BY <1>1, <1>2, <1>3 DEF Steady
<1> QED BY <1>2, <1>4, DaysAreNumbers DEF NeedsRecalculation

--------------------------------------------------------------------------------
(* The stale identities of venues that nobody has edited.                  *)

(* What KeysFit says of one identity.                                      *)
KeyFits(k) ==
  /\ k.rule = venue[k.venue].rule
  /\ k.next # NoDate => k.next < today
  /\ [key |-> k, stage |-> "work"] \in cells \/ Resolved(k)

(* An identity keeps fitting when its venue is left alone, time does not   *)
(* go back and its cell, if it has one, is not executed.                   *)
LEMMA KeyStays ==
  ASSUME TypeOK, NEW k \in StaleEvent, KeyFits(k),
         venue'[k.venue] = venue[k.venue],
         today' \in Nat, today <= today',
         [key |-> k, stage |-> "work"] \in cells => [key |-> k, stage |-> "work"] \in cells'
  PROVE  KeyFits(k)'
<1>1. today \in Nat /\ k.next \in Nat /\ LastDay \in Nat
  BY DaysAreNumbers DEF TypeOK, StaleEvent
<1>2. k.next # NoDate => k.next < today'
  BY <1>1 DEF KeyFits
<1>3. \A d \in today'..LastDay : d \in today..LastDay
  BY <1>1
<1>4. Resolved(k) => Resolved(k)'
  BY <1>3 DEF Resolved
<1> QED BY <1>2, <1>4 DEF KeyFits

(* Advancing a venue resolves every stale identity of it.                  *)
LEMMA AdvanceResolves ==
  ASSUME TypeOK, NextFits, Steady, NEW c \in cells, Advance(c),
         NEW k \in StaleEvent, KeyFits(k), k.venue \in Venue \ edited, k.venue = c.key.venue
  PROVE  KeyFits(k)'
<1> DEFINE v == k.venue
           rule == venue[v].rule
           found == Occurrence[rule][today]
<1>1. /\ today \in Days /\ today \in Nat /\ today <= LastDay /\ LastDay \in Nat
      /\ rule \in Rule /\ found \in Nat /\ k.next \in Nat
  BY DaysAreNumbers DEF TypeOK, Document, StaleEvent
<1>2. IsEvent(v)
  BY DEF NextFits, IsEvent
<1>3. venue'[v].rule = rule /\ venue'[v].next = found /\ today' = today
  BY <1>2, AdvanceEffect DEF Advance
<1>4. k.rule = rule /\ (k.next # NoDate => k.next < today)
  BY DEF KeyFits
<1>5. Resolved(k)'
  <2>1. CASE k.next = NoDate
    <3>1. found = NoDate => \A d \in today..LastDay : Occurrence[rule][d] = NoDate
      BY <1>1 DEF Steady
    <3> QED BY <1>3, <2>1, <3>1 DEF Resolved
  <2>2. CASE k.next # NoDate
    <3>1. found = NoDate \/ today <= found
      BY <1>1 DEF Steady
    <3>2. found # k.next
      BY <1>1, <1>4, <2>2, <3>1
    <3> QED BY <1>3, <2>2, <3>2 DEF Resolved
  <2> QED BY <2>1, <2>2
<1> QED BY <1>3, <1>4, <1>5 DEF KeyFits

LEMMA KeysFitStep == TypeOK /\ NextFits /\ Steady /\ KeysFit /\ [Next]_vars => KeysFit'
<1> SUFFICES ASSUME TypeOK, NextFits, Steady, KeysFit, [Next]_vars,
                    NEW k \in keys' \cap StaleEvent, k.venue \notin edited'
             PROVE  KeyFits(k)'
  BY DEF KeysFit, KeyFits
<1> DEFINE work == [key |-> k, stage |-> "work"]
<1>1. k \in keys /\ k.venue \notin edited => KeyFits(k)
  BY DEF KeysFit, KeyFits
<1>2. k.venue \in Venue /\ today \in Nat /\ (today \in Nat => today <= today)
  BY DaysAreNumbers DEF TypeOK, StaleEvent
<1>3. ASSUME NEW v \in Venue, NEW kind \in Kind, NEW rule \in Rule, Edit(v, kind, rule)
      PROVE  KeyFits(k)'
  <2>1. /\ edited' = edited \cup {v} /\ keys' = keys /\ cells' = cells /\ today' = today
    BY <1>3 DEF Edit
  <2>2. venue'[k.venue] = venue[k.venue]
    BY <1>2, <1>3, <2>1, EditEffect
  <2> QED BY <1>1, <1>2, <2>1, <2>2, KeyStays
<1>4. ASSUME Tick PROVE KeyFits(k)'
  <2>1. keys' \subseteq keys /\ edited' = edited /\ venue' = venue /\ cells' = cells
    BY <1>4 DEF Tick
  <2>2. today' \in Nat /\ today <= today'
    BY <1>2, <1>4 DEF Tick
  <2> QED BY <1>1, <2>1, <2>2, KeyStays
<1>5. ASSUME NEW vs \in SUBSET Venue, createEventVenueObserved(vs),
             UNCHANGED <<venue, today, edited>>
      PROVE  KeyFits(k)'
  <2>1. CASE k \in keys
    <3>1. work \in cells => work \in cells'
      BY <1>5, ObservedEffect
    <3> QED BY <1>1, <1>2, <1>5, <2>1, <3>1, KeyStays
  <2>2. CASE k \notin keys
    <3>1. /\ k.rule = venue[k.venue].rule /\ k.next = venue[k.venue].next
          /\ NeedsRecalculation(k.rule, k.next, today)
          /\ work \in cells'
      BY <1>5, <2>2, ObservedEffect
    <3>2. k.next # NoDate => k.next < today
      BY <1>2, <1>5, <3>1, WrongDateHasPassed
    <3> QED BY <1>5, <3>1, <3>2 DEF KeyFits
  <2> QED BY <2>1, <2>2
<1>6. ASSUME NEW c \in cells, Advance(c) PROVE KeyFits(k)'
  <2>1. keys' = keys /\ edited' = edited /\ today' = today
    BY <1>6 DEF Advance
  <2>2. CASE k.venue = c.key.venue
    BY <1>1, <1>2, <1>6, <2>1, <2>2, AdvanceResolves
  <2>3. CASE k.venue # c.key.venue
    <3>1. work # c
      BY <2>3
    <3>2. Moves(c, "written") /\ "written" \in Stage
      BY <1>6 DEF Advance, Stage
    <3>3. work \in cells => work \in cells'
      BY <3>1, <3>2, CellEffect
    <3>4. /\ venue'[k.venue].rule = venue[k.venue].rule
          /\ venue'[k.venue].next = venue[k.venue].next
      BY <1>2, <1>6, <2>3, AdvanceEffect
    <3>5. Resolved(k) => Resolved(k)'
      BY <2>1, <3>4 DEF Resolved
    <3> QED BY <1>1, <2>1, <3>3, <3>4, <3>5 DEF KeyFits
  <2> QED BY <2>2, <2>3
<1>7. ASSUME NEW c \in cells, Ends(c) \/ (\E s \in Stage : Moves(c, s)), c # work,
             UNCHANGED <<venue, keys, today, edited>>
      PROVE  KeyFits(k)'
  <2>1. work \in cells => work \in cells'
    BY <1>7, CellEffect
  <2> QED BY <1>1, <1>2, <1>7, <2>1, KeyStays
<1>8. ASSUME NEW c \in cells, CreateReads(c) \/ Create(c) \/ Finish(c) PROVE KeyFits(k)'
  <2>1. Ends(c) \/ Moves(c, "read") \/ Moves(c, "written")
    BY <1>8 DEF CreateReads, Create, Finish
  <2>2. UNCHANGED <<venue, keys, today, edited>>
    BY <1>8 DEF CreateReads, Create, Finish
  <2>3. c # work
    <3>1. k.hop = "stale"
      BY DEF StaleEvent
    <3>2. c.stage \in {"read", "written"} \/ c.key.hop = "due"
      BY <1>8 DEF CreateReads, Create, Finish
    <3> QED BY <3>1, <3>2
  <2> QED BY <1>7, <2>1, <2>2, <2>3 DEF Stage
<1>9. ASSUME Restart PROVE KeyFits(k)'
  <2>1. UNCHANGED <<venue, keys, today, edited>>
    BY <1>9 DEF Restart
  <2>2. work \in cells => work \in cells'
    BY <1>9, RestartEffect
  <2> QED BY <1>1, <1>2, <2>1, <2>2, KeyStays
<1>10. ASSUME UNCHANGED <<venue, keys, cells, today, edited>> PROVE KeyFits(k)'
  BY <1>1, <1>2, <1>10, KeyStays
<1>11. ASSUME NEW v \in Venue, Observe(v) PROVE KeyFits(k)'
  BY <1>5, <1>11 DEF Observe
<1>12. ASSUME ReevaluateOnce PROVE KeyFits(k)'
  <2> DEFINE vs == {v \in Venue : IsEvent(v)}
  <2>1. createEventVenueObserved(vs) /\ UNCHANGED <<venue, today, edited>>
    BY <1>12 DEF ReevaluateOnce, ListEventVenues
  <2> QED BY <1>5, <2>1
<1>13. ASSUME NEW v \in Venue, ObserveFails(v) PROVE KeyFits(k)'
  BY <1>10, <1>13 DEF ObserveFails
<1>14. ASSUME UNCHANGED vars PROVE KeyFits(k)'
  BY <1>10, <1>14 DEF vars
<1> QED BY <1>3, <1>4, <1>6, <1>8, <1>9, <1>11, <1>12, <1>13, <1>14
        DEF Next, Execute, NotFound, Crash

--------------------------------------------------------------------------------
(* The inductive invariant, and what it gives.                             *)

(* The invariant of recurring events holds in every behaviour: whoever     *)
(* edits the venues, whenever a handler is executed again and whatever the *)
(* rules are.                                                              *)
THEOREM InvariantHolds == Spec => []IInv
<1>1. Init => IInv
  <2> SUFFICES ASSUME Init PROVE IInv
    OBVIOUS
  <2>1. TypeOK
    BY TypeInit
  <2>2. OnePoll
    BY DEF Init, OnePoll
  <2>3. NextFits
    BY DEF Init, NextFits
  <2>4. KeysFit
    BY DEF Init, KeysFit
  <2> QED BY <2>1, <2>2, <2>3, <2>4 DEF IInv
<1>2. IInv /\ [Next]_vars => IInv'
  <2> SUFFICES ASSUME IInv, [Next]_vars PROVE IInv'
    OBVIOUS
  <2>1. Steady' <=> Steady
    BY DEF Steady, Days, NoDate
  <2> QED BY <2>1, TypeStep, OnePollStep, NextFitsStep, KeysFitStep DEF IInv
<1> QED BY <1>1, <1>2, PTL DEF Spec

(* An event has one poll for a date, for any rules and however often the   *)
(* creation of a poll is executed: the transaction of CreateEventPoll      *)
(* looks before it creates.                                                *)
THEOREM OnePollPerDate == Spec => [](TypeOK /\ OnePoll)
<1>1. IInv => TypeOK /\ OnePoll
  BY DEF IInv
<1> QED BY <1>1, InvariantHolds, PTL

(* With rules whose occurrence stands until it has passed, recurring events*)
(* are sound: the identity of a stale event never blocks the correction of *)
(* a venue that nobody has edited.                                         *)
THEOREM EventsAreSound == Steady => (Spec => []EventsSound)
<1>1. IInv /\ Steady => EventsSound
  <2> SUFFICES ASSUME IInv, Steady, NEW v \in Venue \ edited, Stuck(v) PROVE FALSE
    BY DEF IInv, EventsSound, AdvanceConverges
  <2> DEFINE k == StaleEventKey(v, venue[v].rule, venue[v].next)
  <2>1. TypeOK /\ NextFits /\ KeysFit
    BY DEF IInv
  <2>2. venue[v].rule \in Rule /\ venue[v].next \in Nat /\ today \in Days
    BY <2>1 DEF TypeOK, Document
  <2>3. k = [hop |-> "stale", venue |-> v, rule |-> venue[v].rule, next |-> venue[v].next]
    BY DEF StaleEventKey
  <2>4. k \in StaleEvent
    BY <2>2, <2>3 DEF StaleEvent
  <2>5. k.venue = v /\ k.next = venue[v].next
    BY <2>3
  <2>6. /\ NeedsRecalculation(venue[v].rule, venue[v].next, today)
        /\ k \in keys /\ \A c \in cells : c.key # k
    BY DEF Stuck
  <2>7. Resolved(k)
    BY <2>1, <2>4, <2>5, <2>6 DEF KeysFit
  <2>8. today \in today..LastDay
    BY <2>2, DaysAreNumbers
  <2> QED BY <2>2, <2>5, <2>6, <2>7, <2>8 DEF Resolved, NeedsRecalculation
<1>2. Steady => []Steady
  <2>1. Steady => Steady'
    BY DEF Steady, Days, NoDate
  <2> QED BY <2>1, PTL
<1> QED BY <1>1, <1>2, InvariantHolds, PTL

--------------------------------------------------------------------------------
(* The calculation of the next occurrence, on any day.                     *)

(* A set of numbers that is not empty has a least one.                     *)
LEMMA Least ==
  ASSUME NEW T \in SUBSET Nat, T # {}
  PROVE  \E n \in T : \A k \in T : n <= k
<1>1. PICK n \in T : \A k \in T : ~(<<k, n>> \in OpToRel(<, Nat))
  BY NatLessThanWellFounded, WFMin
<1>2. ASSUME NEW k \in T PROVE n <= k
  <2>1. ~(k < n)
    BY <1>1 DEF OpToRel
  <2> QED BY <2>1
<1> QED BY <1>2

--------------------------------------------------------------------------------
(* The calendar: a day has one year and one month.                         *)

(* How long a year is.                                                     *)
LEMMA YearStep ==
  ASSUME NEW y \in Nat
  PROVE  /\ YearStart(y) \in Int
         /\ YearStart(y + 1) = YearStart(y) + (IF Leap(y) THEN 366 ELSE 365)
<1>1. y \div 4 = ((y - 1) \div 4) + (IF y % 4 = 0 THEN 1 ELSE 0)
  OBVIOUS
<1>2. y \div 100 = ((y - 1) \div 100) + (IF y % 100 = 0 THEN 1 ELSE 0)
  OBVIOUS
<1>3. y \div 400 = ((y - 1) \div 400) + (IF y % 400 = 0 THEN 1 ELSE 0)
  OBVIOUS
<1>4. /\ y % 100 = 0 => y % 4 = 0
      /\ y % 400 = 0 => y % 100 = 0
  OBVIOUS
<1>5. (y + 1) - 1 = y
  OBVIOUS
<1>6. YearStart(y + 1) = 365 * y + (y \div 4) - (y \div 100) + (y \div 400)
  BY <1>5 DEF YearStart
<1> QED BY <1>1, <1>2, <1>3, <1>4, <1>6 DEF YearStart, Leap

(* Years have at least 365 days,                                           *)
LEMMA YearsAscend ==
  ASSUME NEW y \in Nat, NEW z \in Nat, y <= z
  PROVE  365 * (z - y) <= YearStart(z) - YearStart(y)
BY DEF YearStart

(* and at most 366.                                                        *)
LEMMA YearBounds ==
  ASSUME NEW y \in Nat \ {0}
  PROVE  /\ 365 * (y - 1) <= YearStart(y) /\ YearStart(y) <= 366 * (y - 1)
         /\ YearStart(1) = 0
BY DEF YearStart

(* A day lies in its year,                                                 *)
LEMMA YearOfDay ==
  ASSUME NEW d \in Nat
  PROVE  /\ YearOf(d) \in Nat \ {0}
         /\ YearStart(YearOf(d)) <= d /\ d < YearStart(YearOf(d) + 1)
<1> DEFINE T == {y \in Nat : d < YearStart(y + 1)}
<1>1. d + 1 \in T
  <2>1. d + 2 \in Nat \ {0}
    OBVIOUS
  <2>2. 365 * (d + 2 - 1) <= YearStart(d + 2)
    BY <2>1, YearBounds
  <2>3. YearStart(d + 2) \in Int /\ d + 1 + 1 = d + 2
    BY YearStep
  <2> QED BY <2>2, <2>3
<1>2. PICK y \in T : \A k \in T : y <= k
  BY <1>1, Least
<1>3. y # 0
  BY YearBounds DEF T
<1>4. YearStart(y) <= d
  <2>1. y - 1 \in Nat /\ (y - 1) + 1 = y /\ ~(y <= y - 1)
    BY <1>3
  <2>2. y - 1 \notin T
    BY <1>2, <2>1
  <2> QED BY <2>1, <2>2, YearStep
<1>5. d < YearStart(y + 1)
  BY <1>2
<1>6. y \in (d \div 366)..(d \div 365) + 1
  <2>1. 365 * (y - 1) <= d
    BY <1>3, <1>4, YearBounds, YearStep
  <2>2. d < 366 * y
    <3>1. YearStart(y + 1) <= 366 * ((y + 1) - 1)
      BY YearBounds
    <3> QED BY <1>5, <3>1, YearStep
  <2> QED BY <2>1, <2>2
<1> HIDE DEF T
<1>7. /\ YearOf(d) \in (d \div 366)..(d \div 365) + 1
      /\ YearStart(YearOf(d)) <= d /\ d < YearStart(YearOf(d) + 1)
  BY <1>4, <1>5, <1>6 DEF YearOf
<1>8. YearOf(d) \in Nat
  BY <1>7
<1>9. YearOf(d) # 0
  BY <1>7, YearBounds
<1> QED BY <1>7, <1>8, <1>9

(* and in no other.                                                        *)
LEMMA YearUnique ==
  ASSUME NEW d \in Nat, NEW y \in Nat, YearStart(y) <= d, d < YearStart(y + 1)
  PROVE  YearOf(d) = y
<1> DEFINE z == YearOf(d)
<1>1. z \in Nat /\ YearStart(z) <= d /\ d < YearStart(z + 1)
  BY YearOfDay
<1> HIDE DEF z
<1>2. ~(z < y)
  <2> SUFFICES ASSUME z < y PROVE FALSE
    OBVIOUS
  <2>1. z + 1 \in Nat /\ z + 1 <= y
    BY <1>1
  <2>2. 365 * (y - (z + 1)) <= YearStart(y) - YearStart(z + 1)
    BY <2>1, YearsAscend
  <2> QED BY <1>1, <2>1, <2>2, YearStep
<1>3. ~(y < z)
  <2> SUFFICES ASSUME y < z PROVE FALSE
    OBVIOUS
  <2>1. y + 1 \in Nat /\ y + 1 <= z
    BY <1>1
  <2>2. 365 * (z - (y + 1)) <= YearStart(z) - YearStart(y + 1)
    BY <1>1, <2>1, YearsAscend
  <2> QED BY <1>1, <2>1, <2>2, YearStep
<1> QED BY <1>1, <1>2, <1>3 DEF z

(* The table of the months, entry by entry.                                *)
LEMMA DaysBeforeMonths ==
  /\ DaysBefore[1] = 0 /\ DaysBefore[2] = 31 /\ DaysBefore[3] = 59 /\ DaysBefore[4] = 90
  /\ DaysBefore[5] = 120 /\ DaysBefore[6] = 151 /\ DaysBefore[7] = 181 /\ DaysBefore[8] = 212
  /\ DaysBefore[9] = 243 /\ DaysBefore[10] = 273 /\ DaysBefore[11] = 304 /\ DaysBefore[12] = 334
  /\ DaysBefore[13] = 365
BY DEF DaysBefore

(* The months.                                                             *)
LEMMA MonthCases ==
  ASSUME NEW m \in 1..12
  PROVE  m = 1 \/ m = 2 \/ m = 3 \/ m = 4 \/ m = 5 \/ m = 6 \/ m = 7 \/ m = 8 \/ m = 9 \/ m = 10 \/ m = 11 \/ m = 12
OBVIOUS

(* A month has 28 to 31 days and lies in its year.                         *)
LEMMA MonthLength ==
  ASSUME NEW y \in Nat, NEW m \in 1..12
  PROVE  /\ MonthStart(y, m) \in Int /\ MonthStart(y, m + 1) \in Int
         /\ MonthStart(y, m) + 28 <= MonthStart(y, m + 1)
         /\ MonthStart(y, m + 1) <= MonthStart(y, m) + 31
         /\ YearStart(y) <= MonthStart(y, m)
         /\ MonthStart(y, m + 1) <= YearStart(y + 1)
         /\ MonthStart(y, 1) = YearStart(y)
         /\ MonthStart(y, 13) = YearStart(y + 1)
         /\ m < 12 => MonthStart(y, m + 1) + 28 <= YearStart(y + 1)
<1>1. YearStart(y) \in Int /\ YearStart(y + 1) = YearStart(y) + (IF Leap(y) THEN 366 ELSE 365)
  BY YearStep
<1>2. m + 1 \in 2..13
  OBVIOUS
<1> QED BY <1>1, <1>2, MonthCases, DaysBeforeMonths DEF MonthStart

(* The months of a year follow each other.                                 *)
LEMMA MonthsOfYearAscend ==
  ASSUME NEW y \in Nat, NEW m \in 1..12, NEW k \in 1..12, m < k
  PROVE  MonthStart(y, m + 1) <= MonthStart(y, k)
<1>1. YearStart(y) \in Int
  BY YearStep
<1>2. m + 1 \in 2..13
  OBVIOUS
<1>3. DaysBefore[m + 1] <= DaysBefore[k] /\ DaysBefore[m + 1] \in Int /\ DaysBefore[k] \in Int
  BY MonthCases, DaysBeforeMonths
<1> QED BY <1>1, <1>2, <1>3 DEF MonthStart

(* A day lies in its month,                                                *)
LEMMA MonthOfDay ==
  ASSUME NEW d \in Nat
  PROVE  /\ MonthOf(d) \in 1..12
         /\ MonthStart(YearOf(d), MonthOf(d)) <= d
         /\ d < MonthStart(YearOf(d), MonthOf(d) + 1)
<1> DEFINE y == YearOf(d)
           S(m) == MonthStart(y, m)
<1>1. y \in Nat /\ YearStart(y) <= d /\ d < YearStart(y + 1)
  BY YearOfDay
<1> HIDE DEF y
<1>2. /\ S(1) <= d /\ d < S(13)
      /\ S(1) \in Int /\ S(2) \in Int /\ S(3) \in Int /\ S(4) \in Int /\ S(5) \in Int /\ S(6) \in Int
      /\ S(7) \in Int /\ S(8) \in Int /\ S(9) \in Int /\ S(10) \in Int /\ S(11) \in Int /\ S(12) \in Int
      /\ S(13) \in Int
  <2>1. \A m \in 1..12 : S(m) \in Int
    BY <1>1, MonthLength
  <2>2. S(1) = YearStart(y) /\ S(13) = YearStart(y + 1)
    BY <1>1, MonthLength
  <2> QED BY <1>1, <2>1, <2>2, YearStep
<1> HIDE DEF S
<1>3. \E m \in 1..12 : S(m) <= d /\ d < S(m + 1)
  <2>1. \/ S(1) <= d /\ d < S(2)
        \/ S(2) <= d /\ d < S(3)
        \/ S(3) <= d /\ d < S(4)
        \/ S(4) <= d /\ d < S(5)
        \/ S(5) <= d /\ d < S(6)
        \/ S(6) <= d /\ d < S(7)
        \/ S(7) <= d /\ d < S(8)
        \/ S(8) <= d /\ d < S(9)
        \/ S(9) <= d /\ d < S(10)
        \/ S(10) <= d /\ d < S(11)
        \/ S(11) <= d /\ d < S(12)
        \/ S(12) <= d /\ d < S(13)
    BY <1>2
  <2> QED BY <2>1
<1>4. \A m \in 1..12 : d \in MonthDays(y, m) <=> S(m) <= d /\ d < S(m + 1)
  <2>1. \A m \in 1..12 : MonthStart(y, m) \in Int /\ MonthStart(y, m + 1) \in Int
    BY <1>1, MonthLength
  <2>2. \A a, b \in Int : d \in a..b - 1 <=> a <= d /\ d < b
    OBVIOUS
  <2> QED BY <2>1, <2>2 DEF MonthDays, S
<1>5. MonthOf(d) \in 1..12 /\ d \in MonthDays(y, MonthOf(d))
  BY <1>3, <1>4 DEF MonthOf, y
<1> QED BY <1>4, <1>5 DEF S, y

(* and in no other.                                                        *)
LEMMA MonthUnique ==
  ASSUME NEW d \in Nat, NEW y \in Nat, NEW m \in 1..12,
         MonthStart(y, m) <= d, d < MonthStart(y, m + 1)
  PROVE  YearOf(d) = y /\ MonthOf(d) = m
<1>1. YearOf(d) = y
  <2>1. /\ MonthStart(y, m) \in Int /\ MonthStart(y, m + 1) \in Int
        /\ YearStart(y) <= MonthStart(y, m) /\ MonthStart(y, m + 1) <= YearStart(y + 1)
    BY MonthLength
  <2>2. YearStart(y) \in Int /\ YearStart(y + 1) \in Int
    BY YearStep
  <2>3. YearStart(y) <= d /\ d < YearStart(y + 1)
    BY <2>1, <2>2
  <2> QED BY <2>3, YearUnique
<1> DEFINE k == MonthOf(d)
<1>2. k \in 1..12 /\ MonthStart(y, k) <= d /\ d < MonthStart(y, k + 1)
  BY <1>1, MonthOfDay
<1> HIDE DEF k
<1>3. \A i \in 1..12 : MonthStart(y, i) \in Int /\ MonthStart(y, i + 1) \in Int
  BY MonthLength
<1>4. ~(m < k)
  <2>1. m < k => MonthStart(y, m + 1) <= MonthStart(y, k)
    BY <1>2, MonthsOfYearAscend
  <2> QED BY <1>2, <1>3, <2>1
<1>5. ~(k < m)
  <2>1. k < m => MonthStart(y, k + 1) <= MonthStart(y, m)
    BY <1>2, MonthsOfYearAscend
  <2> QED BY <1>2, <1>3, <2>1
<1> QED BY <1>1, <1>2, <1>4, <1>5 DEF k

(* The months, numbered through all years.                                 *)
NumberOf(y, m) == 12 * y + m - 1

MonthNumber(d) == NumberOf(YearOf(d), MonthOf(d))

(* A day of a later year, and one of a later month, is later.              *)
LEMMA LaterYear ==
  ASSUME NEW c \in Nat, NEW d \in Nat, YearOf(c) < YearOf(d)
  PROVE  c < d
<1> DEFINE y == YearOf(c)
           z == YearOf(d)
<1>1. y \in Nat /\ z \in Nat /\ c < YearStart(y + 1) /\ YearStart(z) <= d
  BY YearOfDay
<1>2. y + 1 <= z
  BY <1>1
<1>3. y + 1 \in Nat
  BY <1>1
<1> HIDE DEF y, z
<1>4. 365 * (z - (y + 1)) <= YearStart(z) - YearStart(y + 1)
  BY <1>1, <1>2, <1>3, YearsAscend
<1>5. YearStart(z) \in Int /\ YearStart(y + 1) \in Int
  BY <1>1, <1>3, YearStep
<1> QED BY <1>1, <1>2, <1>4, <1>5

LEMMA LaterMonth ==
  ASSUME NEW c \in Nat, NEW d \in Nat, MonthNumber(c) < MonthNumber(d)
  PROVE  c < d
<1> DEFINE y == YearOf(c)
           z == YearOf(d)
           m == MonthOf(c)
           k == MonthOf(d)
<1>1. /\ y \in Nat /\ z \in Nat /\ m \in 1..12 /\ k \in 1..12
      /\ c < MonthStart(y, m + 1) /\ MonthStart(z, k) <= d
      /\ 12 * y + m - 1 < 12 * z + k - 1
  BY YearOfDay, MonthOfDay DEF MonthNumber, NumberOf
<1>2. CASE y < z
  BY <1>2, LaterYear
<1> HIDE DEF y, z, m, k
<1>3. CASE y = z
  <2>1. m < k
    BY <1>1, <1>3
  <2>2. MonthStart(y, m + 1) <= MonthStart(z, k)
    BY <1>1, <1>3, <2>1, MonthsOfYearAscend
  <2>3. MonthStart(y, m + 1) \in Int /\ MonthStart(z, k) \in Int
    BY <1>1, MonthLength
  <2> QED BY <1>1, <2>2, <2>3
<1>4. y < z \/ y = z
  BY <1>1
<1> QED BY <1>2, <1>3, <1>4

(* The weekdays of a month up to one of its days are counted by sevens.    *)
LEMMA CountWeekdays ==
  ASSUME NEW s \in Nat, NEW t \in Nat, t <= s + 31, NEW d \in s..t - 1
  PROVE  Cardinality({e \in {x \in s..t - 1 : Weekday(x) = Weekday(d)} : e <= d}) = ((d - s) \div 7) + 1
<1> DEFINE E == {e \in {x \in s..t - 1 : Weekday(x) = Weekday(d)} : e <= d}
<1>1. \A e : e \in E <=> e \in s..d /\ (d - e) % 7 = 0
  <2>1. \A e \in s..d : e % 7 = d % 7 <=> (d - e) % 7 = 0
    OBVIOUS
  <2> QED BY <2>1 DEF Weekday
<1> SUFFICES Cardinality(E) = ((d - s) \div 7) + 1
  OBVIOUS
<1> HIDE DEF E
<1>2. \A e : e \in E <=> e \in s..d /\ (e = d \/ e = d - 7 \/ e = d - 14 \/ e = d - 21 \/ e = d - 28)
  <2>1. \A e \in s..d : (d - e) % 7 = 0 <=> e = d \/ e = d - 7 \/ e = d - 14 \/ e = d - 21 \/ e = d - 28
    OBVIOUS
  <2> QED BY <1>1, <2>1
<1> DEFINE E1 == {d}
           E2 == E1 \cup {d - 7}
           E3 == E2 \cup {d - 14}
           E4 == E3 \cup {d - 21}
           E5 == E4 \cup {d - 28}
<1>3. IsFiniteSet(E1) /\ Cardinality(E1) = 1
  BY FS_Singleton
<1>4. IsFiniteSet(E2) /\ Cardinality(E2) = 2
  BY <1>3, FS_AddElement, d - 7 \notin E1
<1>5. IsFiniteSet(E3) /\ Cardinality(E3) = 3
  BY <1>4, FS_AddElement, d - 14 \notin E2
<1>6. IsFiniteSet(E4) /\ Cardinality(E4) = 4
  BY <1>5, FS_AddElement, d - 21 \notin E3
<1>7. IsFiniteSet(E5) /\ Cardinality(E5) = 5
  BY <1>6, FS_AddElement, d - 28 \notin E4
<1>8. CASE d - s \in 0..6
  <2>1. E = E1
    BY <1>2, <1>8
  <2>2. (d - s) \div 7 = 0
    BY <1>8
  <2> HIDE DEF E1
  <2> QED BY <1>3, <2>1, <2>2
<1>9. CASE d - s \in 7..13
  <2>1. E = E2
    BY <1>2, <1>9
  <2>2. (d - s) \div 7 = 1
    BY <1>9
  <2> HIDE DEF E2
  <2> QED BY <1>4, <2>1, <2>2
<1>10. CASE d - s \in 14..20
  <2>1. E = E3
    BY <1>2, <1>10
  <2>2. (d - s) \div 7 = 2
    BY <1>10
  <2> HIDE DEF E3
  <2> QED BY <1>5, <2>1, <2>2
<1>11. CASE d - s \in 21..27
  <2>1. E = E4
    BY <1>2, <1>11
  <2>2. (d - s) \div 7 = 3
    BY <1>11
  <2> HIDE DEF E4
  <2> QED BY <1>6, <2>1, <2>2
<1>12. CASE d - s \in 28..30
  <2>1. E = E5
    BY <1>2, <1>12
  <2>2. (d - s) \div 7 = 4
    BY <1>12
  <2> HIDE DEF E5
  <2> QED BY <1>7, <2>1, <2>2
<1> QED BY <1>8, <1>9, <1>10, <1>11, <1>12

--------------------------------------------------------------------------------
(* The days of a rule within a month, and what monthlyOccurrenceInMonth    *)
(* makes of them.                                                          *)

(* The months of days from day 0 on start on such days.                    *)
LEMMA MonthBegins ==
  ASSUME NEW y \in Nat \ {0}, NEW m \in 1..12
  PROVE  /\ MonthStart(y, m) \in Nat /\ MonthStart(y, m + 1) \in Nat
         /\ MonthStart(y, m) + 28 <= MonthStart(y, m + 1)
         /\ MonthStart(y, m + 1) <= MonthStart(y, m) + 31
<1>1. YearStart(y) \in Int /\ 365 * (y - 1) <= YearStart(y)
  BY YearStep, YearBounds
<1>2. /\ MonthStart(y, m) \in Int /\ MonthStart(y, m + 1) \in Int
      /\ MonthStart(y, m) + 28 <= MonthStart(y, m + 1)
      /\ MonthStart(y, m + 1) <= MonthStart(y, m) + 31
      /\ YearStart(y) <= MonthStart(y, m)
  BY MonthLength
<1> QED BY <1>1, <1>2

(* A month of the calendar has the days that say so.                       *)
LEMMA DaysOfMonth ==
  ASSUME NEW y \in Nat \ {0}, NEW m \in 1..12, NEW d
  PROVE  d \in MonthDays(y, m) <=> d \in Nat /\ YearOf(d) = y /\ MonthOf(d) = m
<1>1. /\ MonthStart(y, m) \in Nat /\ MonthStart(y, m + 1) \in Nat
  BY MonthBegins
<1>2. d \in MonthDays(y, m) <=> d \in Nat /\ MonthStart(y, m) <= d /\ d < MonthStart(y, m + 1)
  BY <1>1 DEF MonthDays
<1> QED BY <1>2, MonthOfDay, MonthUnique

(* A day a week on is in the same month, or is not.                        *)
LEMMA WeekOn ==
  ASSUME NEW d \in Nat
  PROVE  MonthOf(d + 7) = MonthOf(d) <=> d + 7 < MonthStart(YearOf(d), MonthOf(d) + 1)
<1> DEFINE y == YearOf(d)
           m == MonthOf(d)
           t == MonthStart(y, m + 1)
<1>1. y \in Nat /\ y # 0 /\ m \in 1..12 /\ MonthStart(y, m) <= d /\ d < t
  BY YearOfDay, MonthOfDay
<1>2. MonthStart(y, m) \in Nat /\ t \in Nat
  BY <1>1, MonthBegins
<1> HIDE DEF y, m, t
<1>3. CASE d + 7 < t
  <2>1. MonthStart(y, m) <= d + 7
    BY <1>1, <1>2
  <2> QED BY <1>1, <1>3, <2>1, MonthUnique DEF t, y, m
<1>4. CASE ~(d + 7 < t)
  <2>1. t <= d + 7 /\ d + 7 < t + 7
    BY <1>1, <1>2, <1>4
  <2>2. CASE m < 12
    <3>1. m + 1 \in 1..12
      BY <1>1, <2>2
    <3>2. MonthStart(y, m + 1) + 28 <= MonthStart(y, (m + 1) + 1) /\ MonthStart(y, (m + 1) + 1) \in Nat
      BY <1>1, <3>1, MonthBegins
    <3>3. MonthStart(y, m + 1) <= d + 7 /\ d + 7 < MonthStart(y, (m + 1) + 1)
      BY <1>2, <2>1, <3>2 DEF t
    <3>4. MonthOf(d + 7) = m + 1
      BY <1>1, <3>1, <3>3, MonthUnique
    <3>5. m + 1 # m
      BY <1>1
    <3> QED BY <1>4, <3>4, <3>5 DEF t, y, m
  <2>3. CASE m = 12
    <3>1. y + 1 \in Nat \ {0} /\ 1 \in 1..12
      BY <1>1
    <3>2. MonthStart(y + 1, 1) + 28 <= MonthStart(y + 1, 1 + 1) /\ MonthStart(y + 1, 1 + 1) \in Nat
      BY <3>1, MonthBegins
    <3>3. m + 1 = 13
      BY <2>3
    <3>4. t = MonthStart(y + 1, 1)
      BY <1>1, <3>1, <3>3, MonthLength DEF t
    <3>5. MonthStart(y + 1, 1) <= d + 7 /\ d + 7 < MonthStart(y + 1, 1 + 1)
      BY <1>2, <2>1, <3>2, <3>4
    <3>6. MonthOf(d + 7) = 1
      BY <3>1, <3>5, MonthUnique
    <3> QED BY <1>4, <2>3, <3>6 DEF t, y, m
  <2> QED BY <1>1, <2>2, <2>3
<1> QED BY <1>3, <1>4 DEF t, y, m

(* The search of a month finds the days of the month on which the rule has *)
(* its event.                                                              *)
LEMMA OccurrencesOfMonth ==
  ASSUME NEW rule, rule.monthDay \subseteq Int, rule.nth \subseteq Int,
         NEW y \in Nat \ {0}, NEW m \in 1..12, NEW d
  PROVE  d \in monthlyOccurrenceInMonth(rule, y, m) <=>
           d \in Nat /\ YearOf(d) = y /\ MonthOf(d) = m /\ MatchesMonth(rule, d)
<1> DEFINE s == MonthStart(y, m)
           t == MonthStart(y, m + 1)
<1>1. s \in Nat /\ t \in Nat /\ s + 28 <= t /\ t <= s + 31
  BY MonthBegins
<1>2. d \in MonthDays(y, m) <=> d \in Nat /\ YearOf(d) = y /\ MonthOf(d) = m
  BY DaysOfMonth
<1>3. MonthDays(y, m) = s..t - 1
  BY DEF MonthDays
<1>4. monthlyOccurrenceInMonth(rule, y, m) \subseteq MonthDays(y, m)
  <2>1. \A w, n : nthWeekdayInMonth(y, m, w, n) \subseteq MonthDays(y, m)
    BY DEF nthWeekdayInMonth
  <2>2. CASE rule.monthDay # {}
    BY <2>2 DEF monthlyOccurrenceInMonth
  <2>3. CASE rule.monthDay = {}
    <3>1. monthlyOccurrenceInMonth(rule, y, m) =
            UNION {nthWeekdayInMonth(y, m, w, n) : w \in rule.weekday, n \in rule.nth}
      BY <2>3 DEF monthlyOccurrenceInMonth
    <3> QED BY <2>1, <3>1
  <2> QED BY <2>2, <2>3
<1> SUFFICES ASSUME d \in s..t - 1, d \in Nat, YearOf(d) = y, MonthOf(d) = m
             PROVE  d \in monthlyOccurrenceInMonth(rule, y, m) <=> MatchesMonth(rule, d)
  BY <1>2, <1>3, <1>4
<1>5. DayOfMonth(d) = d - s + 1
  BY DEF DayOfMonth
<1>6. CASE rule.monthDay # {}
  <2>1. d \in monthlyOccurrenceInMonth(rule, y, m) <=> \E day \in rule.monthDay : d = s + day - 1
    BY <1>3, <1>6 DEF monthlyOccurrenceInMonth
  <2>2. MatchesMonth(rule, d) <=> d - s + 1 \in rule.monthDay
    BY <1>5, <1>6 DEF MatchesMonth
  <2> HIDE DEF s, t
  <2> QED BY <1>1, <2>1, <2>2
<1>7. CASE rule.monthDay = {}
  <2> DEFINE M == {x \in s..t - 1 : Weekday(x) = Weekday(d)}
             count == Cardinality({e \in M : e <= d})
             last == \A e \in M : e <= d
  <2>1. d \in monthlyOccurrenceInMonth(rule, y, m) <=>
          \E w \in rule.weekday, n \in rule.nth : d \in nthWeekdayInMonth(y, m, w, n)
    BY <1>7 DEF monthlyOccurrenceInMonth
  <2>2. ASSUME NEW w, NEW n
        PROVE  d \in nthWeekdayInMonth(y, m, w, n) <=> w = Weekday(d) /\ ((n = -1 /\ last) \/ count = n)
    BY <1>3 DEF nthWeekdayInMonth
  <2>3. count = ((d - s) \div 7) + 1
    BY <1>1, CountWeekdays
  <2>4. \A n \in Int : count = n <=> d - s + 1 \in 7 * (n - 1) + 1..7 * n
    <3> HIDE DEF count, s, t
    <3> QED BY <1>1, <2>3
  <2>5. last <=> MonthOf(d + 7) # MonthOf(d)
    <3>1. MonthOf(d + 7) = MonthOf(d) <=> d + 7 < t
      BY WeekOn
    <3> HIDE DEF s, t
    <3>2. last <=> ~(d + 7 < t)
      <4>1. d + 7 < t => d + 7 \in M /\ ~(d + 7 <= d)
        BY <1>1 DEF Weekday
      <4>2. ASSUME ~(d + 7 < t), NEW e \in M PROVE e <= d
        BY <1>1, <4>2 DEF Weekday
      <4> HIDE DEF M
      <4> QED BY <4>1, <4>2
    <3> QED BY <3>1, <3>2
  <2>6. MatchesMonth(rule, d) <=>
          /\ Weekday(d) \in rule.weekday
          /\ \/ \E n \in rule.nth : d - s + 1 \in 7 * (n - 1) + 1..7 * n
             \/ -1 \in rule.nth /\ MonthOf(d + 7) # MonthOf(d)
    BY <1>5, <1>7 DEF MatchesMonth
  <2> HIDE DEF s, t, count, last, M
  <2>7. \A n \in rule.nth : count = n <=> d - s + 1 \in 7 * (n - 1) + 1..7 * n
    BY <2>4
  <2> QED BY <2>1, <2>2, <2>5, <2>6, <2>7, Zenon
<1> QED BY <1>6, <1>7

(* The nth weekday of a month, or its last one, is one day: no later day   *)
(* of the month is another one.                                            *)
LEMMA NoLaterInMonth ==
  ASSUME NEW rule, rule.nth \subseteq Int, AtMostOne(rule.nth), AtMostOne(rule.weekday),
         rule.monthDay = {},
         NEW d \in Nat, NEW e \in Nat, YearOf(d) = YearOf(e), MonthOf(d) = MonthOf(e),
         MatchesMonth(rule, d), MatchesMonth(rule, e)
  PROVE  ~(d < e)
<1> SUFFICES ASSUME d < e PROVE FALSE
  OBVIOUS
<1> DEFINE s == MonthStart(YearOf(d), MonthOf(d))
           t == MonthStart(YearOf(d), MonthOf(d) + 1)
<1>1. s \in Nat /\ t \in Nat /\ s <= d /\ e < t
  BY MonthBegins, YearOfDay, MonthOfDay
<1>2. DayOfMonth(d) = d - s + 1 /\ DayOfMonth(e) = e - s + 1
  BY DEF DayOfMonth
<1>3. Weekday(d) = Weekday(e)
  BY DEF MatchesMonth, AtMostOne
<1>4. d + 7 <= e
  BY <1>3 DEF Weekday
<1>5. MonthOf(d + 7) = MonthOf(d)
  <2>1. d + 7 < t
    BY <1>1, <1>4
  <2> QED BY <2>1, WeekOn
<1> HIDE DEF s, t
<1>6. PICK n \in rule.nth : d - s + 1 \in 7 * (n - 1) + 1..7 * n
  BY <1>2, <1>5 DEF MatchesMonth
<1>7. n # -1
  BY <1>1, <1>6
<1>8. \A k \in rule.nth : k = n
  BY DEF AtMostOne
<1>9. e - s + 1 \in 7 * (n - 1) + 1..7 * n
  BY <1>2, <1>7, <1>8 DEF MatchesMonth
<1> QED BY <1>1, <1>4, <1>6, <1>9

(* A rule has its event at most once in a month.                           *)
LEMMA OneInMonth ==
  ASSUME NEW rule, rule.monthDay \subseteq Int, rule.nth \subseteq Int,
         AtMostOne(rule.nth), AtMostOne(rule.weekday), AtMostOne(rule.monthDay),
         NEW d \in Nat, NEW e \in Nat, YearOf(d) = YearOf(e), MonthOf(d) = MonthOf(e),
         MatchesMonth(rule, d), MatchesMonth(rule, e)
  PROVE  d = e
<1>1. CASE rule.monthDay = {}
  <2>1. ~(d < e) /\ ~(e < d)
    BY <1>1, NoLaterInMonth
  <2> QED BY <2>1
<1>2. CASE rule.monthDay # {}
  <2> DEFINE s == MonthStart(YearOf(d), MonthOf(d))
  <2>1. s \in Nat
    BY MonthBegins, YearOfDay, MonthOfDay
  <2>2. DayOfMonth(d) = d - s + 1 /\ DayOfMonth(e) = e - s + 1
    BY DEF DayOfMonth
  <2>3. DayOfMonth(d) = DayOfMonth(e)
    BY <1>2 DEF MatchesMonth, AtMostOne
  <2> HIDE DEF s
  <2> QED BY <2>1, <2>2, <2>3
<1> QED BY <1>1, <1>2

(* The multiples of an interval.                                           *)
LEMMA Multiples ==
  ASSUME NEW i \in Nat \ {0}
  PROVE  /\ \A a \in Nat : a % i = 0 => \E q \in Nat : a = q * i
         /\ \A q \in Nat : q * i \in Nat /\ (q * i) % i = 0
         /\ \A q, r \in Nat : q * i <= r * i => q <= r
<1>1. ASSUME NEW a \in Nat, a % i = 0 PROVE \E q \in Nat : a = q * i
  <2>1. a \div i \in Nat /\ a = (a \div i) * i + (a % i)
    OBVIOUS
  <2> QED BY <1>1, <2>1
<1>2. ASSUME NEW q \in Nat PROVE q * i \in Nat /\ (q * i) % i = 0
  OBVIOUS
<1>3. ASSUME NEW q \in Nat, NEW r \in Nat, q * i <= r * i PROVE q <= r
  <2>1. \A x, y \in Int : x <= -1 /\ i >= 1 => x * i <= -1
    OBVIOUS
  <2>2. (r - q) * i = r * i - q * i
    OBVIOUS
  <2>3. r - q <= -1 => (r - q) * i <= -1
    BY <2>1
  <2> QED BY <1>3, <2>2, <2>3
<1> QED BY <1>1, <1>2, <1>3

--------------------------------------------------------------------------------
(* The searches by months and by years: a loop of steps of an interval.    *)

(* The search in steps.  F are the days of an event, at most one in a unit *)
(* of time, and U[d] is the number of the unit of day d; C[step] are the   *)
(* candidates of a step, R those of the first step that has any.           *)
StepSearch(F, U, c, i, L, C, R) ==
  /\ F \in SUBSET Nat /\ U \in [Nat -> Nat] /\ c \in Nat /\ i \in Nat \ {0} /\ L \in Nat
  /\ \A d, e \in Nat : U[d] < U[e] => d < e
  /\ \A d, e \in F : U[d] = U[e] => d = e
  /\ \A q \in 0..L : C[q] = {d \in F : c <= d /\ U[d] = U[c] + q * i}
  /\ \/ R = {} /\ \A q \in 0..L : C[q] = {}
     \/ \E q \in 0..L : R = C[q] /\ C[q] # {} /\ \A p \in 0..q - 1 : C[p] = {}

StepFinds(F, U, c, i, L, R) ==
  \/ R = {} /\ \A d \in F : c <= d /\ U[d] <= U[c] + L * i => (U[d] - U[c]) % i # 0
  \/ \E f \in F : /\ R = {f} /\ c <= f /\ (U[f] - U[c]) % i = 0
                  /\ \A d \in F : c <= d /\ d < f => (U[d] - U[c]) % i # 0

(* Such a search returns the first day there is, if it returns one.        *)
LEMMA FirstStep ==
  ASSUME NEW F, NEW U, NEW c, NEW i, NEW L, NEW C, NEW R, StepSearch(F, U, c, i, L, C, R)
  PROVE  StepFinds(F, U, c, i, L, R)
<1> SUFFICES ASSUME F \in SUBSET Nat, U \in [Nat -> Nat], c \in Nat, i \in Nat \ {0}, L \in Nat,
                    \A d, e \in Nat : U[d] < U[e] => d < e,
                    \A d, e \in F : U[d] = U[e] => d = e,
                    \A q \in 0..L : C[q] = {d \in F : c <= d /\ U[d] = U[c] + q * i},
                    \/ R = {} /\ \A q \in 0..L : C[q] = {}
                    \/ \E q \in 0..L : R = C[q] /\ C[q] # {} /\ \A p \in 0..q - 1 : C[p] = {}
             PROVE  StepFinds(F, U, c, i, L, R)
  BY DEF StepSearch
<1> USE DEF StepFinds
<1>1. ASSUME NEW d \in F, c <= d, (U[d] - U[c]) % i = 0
      PROVE  \E q \in Nat : U[d] = U[c] + q * i
  <2>1. d \in Nat /\ ~(d < c)
    BY <1>1
  <2>2. U[d] \in Nat /\ U[c] \in Nat /\ ~(U[d] < U[c])
    BY <2>1
  <2>3. U[d] - U[c] \in Nat
    BY <2>2
  <2>4. PICK q \in Nat : U[d] - U[c] = q * i
    BY <1>1, <2>3, Multiples
  <2>5. q * i \in Nat
    BY Multiples
  <2>6. U[d] = U[c] + q * i
    BY <2>2, <2>4, <2>5
  <2> QED BY <2>6
<1>2. /\ \A q \in Nat : q * i \in Nat /\ (q * i) % i = 0
      /\ \A q, r \in Nat : q * i <= r * i => q <= r
  BY Multiples
<1>3. CASE R = {} /\ \A q \in 0..L : C[q] = {}
  <2>1. ASSUME NEW d \in F, c <= d, U[d] <= U[c] + L * i, (U[d] - U[c]) % i = 0
        PROVE  FALSE
    <3>1. PICK q \in Nat : U[d] = U[c] + q * i
      BY <1>1, <2>1
    <3>2. U[c] \in Nat /\ U[d] \in Nat /\ q * i \in Nat /\ L * i \in Nat
      BY <1>2
    <3>3. q * i <= L * i
      <4>1. \A u, v, a, b \in Nat : u = v + a /\ u <= v + b => a <= b
        OBVIOUS
      <4> QED BY <2>1, <3>1, <3>2, <4>1, Zenon
    <3>4. q \in 0..L
      BY <1>2, <3>3
    <3>5. d \in C[q]
      BY <2>1, <3>1, <3>4
    <3> QED BY <1>3, <3>4, <3>5
  <2> QED BY <1>3, <2>1
<1>4. CASE \E q \in 0..L : R = C[q] /\ C[q] # {} /\ \A p \in 0..q - 1 : C[p] = {}
  <2>1. PICK q \in 0..L : R = C[q] /\ C[q] # {} /\ \A p \in 0..q - 1 : C[p] = {}
    BY <1>4
  <2>2. PICK f \in C[q] : TRUE
    BY <2>1
  <2>3. f \in F /\ f \in Nat /\ c <= f /\ U[f] = U[c] + q * i
    <3>1. C[q] = {d \in F : c <= d /\ U[d] = U[c] + q * i}
      OBVIOUS
    <3> QED BY <2>2, <3>1
  <2>4. C[q] = {f}
    <3>1. \A d \in C[q] : d \in F /\ U[d] = U[f]
      BY <2>3
    <3> QED BY <2>2, <2>3, <3>1
  <2>5. U[c] \in Nat /\ U[f] \in Nat /\ q * i \in Nat /\ (q * i) % i = 0
    <3>1. q \in Nat
      OBVIOUS
    <3> QED BY <1>2, <2>3, <3>1
  <2>6. (U[f] - U[c]) % i = 0
    <3>1. PICK a \in Nat : a = q * i /\ a % i = 0
      BY <2>5
    <3>2. U[f] = U[c] + a
      BY <2>3, <3>1
    <3>3. U[f] - U[c] = a
      BY <2>5, <3>2
    <3> QED BY <3>1, <3>3
  <2>7. ASSUME NEW d \in F, c <= d, d < f, (U[d] - U[c]) % i = 0
        PROVE  FALSE
    <3>1. PICK p \in Nat : U[d] = U[c] + p * i
      BY <1>1, <2>7
    <3>2. d \in Nat /\ U[d] \in Nat /\ ~(U[f] < U[d])
      BY <2>3, <2>7
    <3>3. p * i <= q * i
      <4>1. PICK a \in Nat, b \in Nat : a = p * i /\ b = q * i
        BY <1>2, <2>5
      <4>2. U[d] = U[c] + a /\ U[f] = U[c] + b
        BY <2>3, <3>1, <4>1
      <4>3. a <= b
        BY <2>5, <3>2, <4>2
      <4> QED BY <4>1, <4>3
    <3>4. p <= q
      <4>1. q \in Nat
        OBVIOUS
      <4> QED BY <1>2, <3>3, <4>1
    <3>5. CASE p = q
      <4>1. d \in C[q]
        BY <2>7, <3>1, <3>5
      <4> QED BY <2>3, <2>4, <2>7, <3>2, <4>1
    <3>6. CASE p < q
      <4>1. p \in 0..q - 1 /\ p \in 0..L
        BY <3>6
      <4>2. d \in C[p]
        BY <2>7, <3>1, <4>1
      <4> QED BY <2>1, <4>1, <4>2
    <3>7. p = q \/ p < q
      <4>1. \A a, b \in Nat : a <= b => a = b \/ a < b
        OBVIOUS
      <4>2. q \in Nat
        OBVIOUS
      <4> QED BY <3>4, <4>1, <4>2, Zenon
    <3> QED BY <3>5, <3>6, <3>7, Zenon
  <2> QED BY <2>1, <2>3, <2>4, <2>6, <2>7
<1> QED BY <1>3, <1>4

(* What a rule must be for the searches of months and years.               *)
Searchable(rule) ==
  /\ rule.monthDay \subseteq Int /\ rule.nth \subseteq Int
  /\ AtMostOne(rule.nth) /\ AtMostOne(rule.weekday) /\ AtMostOne(rule.monthDay)
  /\ AtMostOne(rule.month)

(* Months are counted without gaps.                                        *)
LEMMA AddMonthsCounts ==
  ASSUME NEW y \in Nat, y # 0, NEW m \in Nat, m \in 1..12, NEW n \in Nat,
         NEW at, at = AddMonths(y, m, n)
  PROVE  /\ at[1] \in Nat \ {0} /\ at[2] \in 1..12
         /\ NumberOf(at[1], at[2]) = NumberOf(y, m) + n
<1> DEFINE k == m - 1 + n
<1>1. k \in Nat
  OBVIOUS
<1>2. at[1] = y + (k \div 12) /\ at[2] = (k % 12) + 1
  BY DEF AddMonths
<1> HIDE DEF k
<1>3. PICK a \in Nat, b \in 0..11 : a = k \div 12 /\ b = k % 12 /\ k = 12 * a + b
  BY <1>1
<1>4. 12 * y + m - 1 + n = 12 * y + k
  BY DEF k
<1>5. at[1] = y + a /\ at[2] = b + 1
  BY <1>2, <1>3
<1>6. 12 * (y + a) + (b + 1) - 1 = 12 * y + k /\ y + a \in Nat \ {0} /\ b + 1 \in 1..12
  BY <1>3
<1> QED BY <1>4, <1>5, <1>6 DEF NumberOf

(* The days that a search in a later month finds.                          *)
LEMMA MonthsLater ==
  ASSUME NEW rule, Searchable(rule), NEW c \in Nat, NEW n \in Nat, NEW at,
         at = AddMonths(YearOf(c), MonthOf(c), n), NEW d
  PROVE  d \in monthlyOccurrenceInMonth(rule, at[1], at[2]) <=>
           d \in Nat /\ MonthNumber(d) = MonthNumber(c) + n /\ MatchesMonth(rule, d)
<1>1. YearOf(c) \in Nat \ {0} /\ MonthOf(c) \in 1..12
  BY YearOfDay, MonthOfDay
<1>2. /\ at[1] \in Nat \ {0} /\ at[2] \in 1..12
      /\ NumberOf(at[1], at[2]) = MonthNumber(c) + n
  <2> DEFINE y == YearOf(c)
             m == MonthOf(c)
  <2>1. y \in Nat \ {0} /\ m \in 1..12 /\ at = AddMonths(y, m, n)
    BY <1>1
  <2> HIDE DEF y, m
  <2>2. at[1] \in Nat \ {0} /\ at[2] \in 1..12 /\ NumberOf(at[1], at[2]) = NumberOf(y, m) + n
    BY <2>1, AddMonthsCounts
  <2> QED BY <2>2 DEF y, m, MonthNumber
<1>3. d \in monthlyOccurrenceInMonth(rule, at[1], at[2]) <=>
        d \in Nat /\ YearOf(d) = at[1] /\ MonthOf(d) = at[2] /\ MatchesMonth(rule, d)
  BY <1>2, OccurrencesOfMonth DEF Searchable
<1>4. ASSUME d \in Nat
      PROVE  YearOf(d) = at[1] /\ MonthOf(d) = at[2] <=> MonthNumber(d) = MonthNumber(c) + n
  <2>1. YearOf(d) \in Nat /\ at[1] \in Nat /\ MonthOf(d) \in 1..12 /\ at[2] \in 1..12
    BY <1>2, <1>4, YearOfDay, MonthOfDay
  <2>2. NumberOf(YearOf(d), MonthOf(d)) = NumberOf(at[1], at[2]) <=> YearOf(d) = at[1] /\ MonthOf(d) = at[2]
    BY <2>1 DEF NumberOf
  <2> QED BY <1>2, <2>2 DEF MonthNumber
<1> QED BY <1>3, <1>4

(* A rule has one day in a month.                                          *)
LEMMA OneOfMonthNumber ==
  ASSUME NEW rule, Searchable(rule), NEW d \in Nat, NEW e \in Nat,
         MatchesMonth(rule, d), MatchesMonth(rule, e), MonthNumber(d) = MonthNumber(e)
  PROVE  d = e
<1>1. /\ YearOf(d) \in Nat /\ YearOf(e) \in Nat /\ MonthOf(d) \in 1..12 /\ MonthOf(e) \in 1..12
  BY YearOfDay, MonthOfDay
<1>2. 12 * YearOf(d) + MonthOf(d) - 1 = 12 * YearOf(e) + MonthOf(e) - 1
  BY DEF MonthNumber, NumberOf
<1>3. YearOf(d) = YearOf(e) /\ MonthOf(d) = MonthOf(e)
  BY <1>1, <1>2
<1> QED BY <1>3, OneInMonth DEF Searchable

(* The search by months: the first day of the rule in the months its       *)
(* interval reaches, or none within 600 months.                            *)
LEMMA NextMonthlyIsFirst ==
  ASSUME NEW rule, Searchable(rule), rule.interval \in Nat \ {0}, NEW c \in Nat
  PROVE  LET Fits(d) == MatchesMonth(rule, d) /\ (MonthNumber(d) - MonthNumber(c)) % rule.interval = 0
         IN  \/ /\ nextMonthly(rule, c) = {}
                /\ \A d \in Nat : c <= d /\ MonthNumber(d) <= MonthNumber(c) + 599 => ~Fits(d)
             \/ \E f \in Nat : /\ nextMonthly(rule, c) = {f}
                               /\ c <= f /\ Fits(f) /\ \A e \in c..f - 1 : ~Fits(e)
<1> DEFINE F == {d \in Nat : MatchesMonth(rule, d)}
           U == [d \in Nat |-> MonthNumber(d)]
           i == rule.interval
           Candidate(step) ==
             LET at == AddMonths(YearOf(c), MonthOf(c), step * i)
             IN  {d \in monthlyOccurrenceInMonth(rule, at[1], at[2]) : d >= c}
           Hit(step) == Candidate(step) # {}
           C == [q \in 0..599 |-> Candidate(q)]
           R == nextMonthly(rule, c)
<1>1. R = IF \E step \in 0..599 : Hit(step)
          THEN Candidate(CHOOSE step \in 0..599 : Hit(step) /\ \A t \in 0..step - 1 : ~Hit(t))
          ELSE {}
  BY DEF nextMonthly
<1>2. /\ \A d \in Nat : YearOf(d) \in Nat \ {0} /\ MonthOf(d) \in 1..12
      /\ U \in [Nat -> Nat] /\ \A d \in Nat : U[d] = MonthNumber(d)
  BY YearOfDay, MonthOfDay DEF MonthNumber, NumberOf
<1>3. \A d, e \in Nat : U[d] < U[e] => d < e
  BY <1>2, LaterMonth
<1>4. \A d, e \in F : U[d] = U[e] => d = e
  BY <1>2, OneOfMonthNumber
<1>5. ASSUME NEW q \in 0..599 PROVE C[q] = {d \in F : c <= d /\ U[d] = U[c] + q * i}
  <2> DEFINE at == AddMonths(YearOf(c), MonthOf(c), q * i)
  <2>1. q * i \in Nat
    BY Multiples
  <2>2. C[q] = {d \in monthlyOccurrenceInMonth(rule, at[1], at[2]) : d >= c}
    OBVIOUS
  <2>3. ASSUME NEW d
        PROVE  d \in monthlyOccurrenceInMonth(rule, at[1], at[2]) <=>
                 d \in Nat /\ MonthNumber(d) = MonthNumber(c) + q * i /\ MatchesMonth(rule, d)
    <3> HIDE DEF i
    <3> QED BY <2>1, MonthsLater
  <2>4. \A d \in Nat : d >= c <=> c <= d
    OBVIOUS
  <2>5. \A d \in Nat : U[d] = MonthNumber(d)
    OBVIOUS
  <2> HIDE DEF U, at, C
  <2> QED BY <2>2, <2>3, <2>4, <2>5
<1>6. \/ R = {} /\ \A q \in 0..599 : C[q] = {}
      \/ \E q \in 0..599 : R = C[q] /\ C[q] # {} /\ \A p \in 0..q - 1 : C[p] = {}
  <2>1. \A q \in 0..599 : C[q] = Candidate(q)
    OBVIOUS
  <2> HIDE DEF C, Candidate, R
  <2>2. CASE ~\E q \in 0..599 : Hit(q)
    <3>1. R = {}
      BY <1>1, <2>2
    <3>2. \A q \in 0..599 : Candidate(q) = {}
      BY <2>2
    <3> QED BY <2>1, <3>1, <3>2
  <2>3. CASE \E q \in 0..599 : Hit(q)
    <3> DEFINE T == {q \in 0..599 : Hit(q)}
               P(q) == Hit(q) /\ \A t \in 0..q - 1 : ~Hit(t)
    <3>1. T \in SUBSET Nat /\ T # {}
      BY <2>3
    <3> HIDE DEF T
    <3>2. PICK n \in T : \A k \in T : n <= k
      BY <3>1, Least
    <3> USE DEF T
    <3>3. \A t \in 0..n - 1 : t \in 0..599 /\ ~(n <= t)
      BY <3>1, <3>2
    <3>4. n \in 0..599 /\ P(n)
      BY <3>2, <3>3
    <3> DEFINE q == CHOOSE x \in 0..599 : P(x)
    <3>5. q \in 0..599 /\ P(q)
      BY <3>4
    <3>6. R = Candidate(q)
      BY <1>1, <2>3
    <3> HIDE DEF q
    <3>7. \A t \in 0..q - 1 : t \in 0..599
      BY <3>5
    <3>8. R = C[q] /\ C[q] # {}
      BY <2>1, <3>5, <3>6
    <3>9. ASSUME NEW t \in 0..q - 1 PROVE C[t] = {}
      <4>1. C[t] = Candidate(t)
        BY <2>1, <3>7
      <4>2. Candidate(t) = {}
        BY <3>5
      <4> QED BY <4>1, <4>2
    <3>10. q \in 0..599
      BY <3>5
    <3>11. R = C[q] /\ C[q] # {} /\ \A p \in 0..q - 1 : C[p] = {}
      BY <3>8, <3>9
    <3> QED BY <3>10, <3>11, Zenon
  <2> QED BY <2>2, <2>3
<1>. i \in Nat \ {0} /\ F \in SUBSET Nat /\ 599 \in Nat
  OBVIOUS
<1> HIDE DEF C, R, U, F, i
<1>7. StepFinds(F, U, c, i, 599, R)
  <2>1. \A q \in 0..599 : C[q] = {d \in F : c <= d /\ U[d] = U[c] + q * i}
    BY <1>5
  <2>2. U \in [Nat -> Nat]
    BY <1>2
  <2>3. StepSearch(F, U, c, i, 599, C, R)
    BY <1>3, <1>4, <1>6, <2>1, <2>2 DEF StepSearch
  <2> QED BY <2>3, FirstStep
<1>8. \A u \in Nat : u + 599 <= u + 599 * i
  OBVIOUS
<1> DEFINE Fits(d) == MatchesMonth(rule, d) /\ (MonthNumber(d) - MonthNumber(c)) % i = 0
<1>9. /\ \A d \in F : d \in Nat /\ (Fits(d) <=> (U[d] - U[c]) % i = 0)
      /\ \A d \in Nat : Fits(d) => d \in F
  BY <1>2 DEF F
<1>10. CASE R = {} /\ \A d \in F : c <= d /\ U[d] <= U[c] + 599 * i => (U[d] - U[c]) % i # 0
  <2>1. ASSUME NEW d \in Nat, c <= d, MonthNumber(d) <= MonthNumber(c) + 599, Fits(d)
        PROVE  FALSE
    <3>1. d \in F
      BY <1>9, <2>1
    <3>2. U[d] <= U[c] + 599 * i
      BY <1>2, <1>8, <2>1
    <3> QED BY <1>9, <1>10, <2>1, <3>1, <3>2
  <2> QED BY <1>10, <2>1 DEF R, i
<1>11. CASE \E f \in F : /\ R = {f} /\ c <= f /\ (U[f] - U[c]) % i = 0
                         /\ \A d \in F : c <= d /\ d < f => (U[d] - U[c]) % i # 0
  <2>1. PICK f \in F : /\ R = {f} /\ c <= f /\ (U[f] - U[c]) % i = 0
                       /\ \A d \in F : c <= d /\ d < f => (U[d] - U[c]) % i # 0
    BY <1>11
  <2>2. f \in Nat /\ Fits(f)
    BY <1>9, <2>1
  <2>3. \A e \in c..f - 1 : e \in Nat /\ c <= e /\ e < f
    BY <2>2
  <2>4. \A e \in c..f - 1 : ~Fits(e)
    BY <1>9, <2>1, <2>3
  <2> QED BY <2>1, <2>2, <2>4 DEF R, i
<1> QED BY <1>7, <1>10, <1>11 DEF StepFinds

(* The days of a yearly event.                                             *)
OfYear(rule, d) == MonthOf(d) \in rule.month /\ MatchesMonth(rule, d)

(* A yearly rule has one day in a year.                                    *)
LEMMA OneOfYear ==
  ASSUME NEW rule, Searchable(rule), NEW d \in Nat, NEW e \in Nat,
         OfYear(rule, d), OfYear(rule, e), YearOf(d) = YearOf(e)
  PROVE  d = e
BY OneInMonth DEF Searchable, OfYear, AtMostOne

(* The days that a search in a year finds.                                 *)
LEMMA YearsLater ==
  ASSUME NEW rule, Searchable(rule), NEW y \in Nat \ {0}, NEW d
  PROVE  d \in UNION {monthlyOccurrenceInMonth(rule, y, m) : m \in rule.month \cap 1..12} <=>
           d \in Nat /\ YearOf(d) = y /\ OfYear(rule, d)
<1>1. ASSUME NEW m \in 1..12
      PROVE  d \in monthlyOccurrenceInMonth(rule, y, m) <=>
               d \in Nat /\ YearOf(d) = y /\ MonthOf(d) = m /\ MatchesMonth(rule, d)
  BY OccurrencesOfMonth DEF Searchable
<1>2. d \in Nat => MonthOf(d) \in 1..12
  BY MonthOfDay
<1> QED BY <1>1, <1>2 DEF OfYear

(* The search by years: the first day of the rule in the years its         *)
(* interval reaches, or none within 300 years.                             *)
LEMMA NextYearlyIsFirst ==
  ASSUME NEW rule, Searchable(rule), rule.interval \in Nat \ {0}, NEW c \in Nat
  PROVE  LET Fits(d) == OfYear(rule, d) /\ (YearOf(d) - YearOf(c)) % rule.interval = 0
         IN  \/ /\ nextYearly(rule, c) = {}
                /\ \A d \in Nat : c <= d /\ YearOf(d) <= YearOf(c) + 299 => ~Fits(d)
             \/ \E f \in Nat : /\ nextYearly(rule, c) = {f}
                               /\ c <= f /\ Fits(f) /\ \A e \in c..f - 1 : ~Fits(e)
<1> DEFINE F == {d \in Nat : OfYear(rule, d)}
           U == [d \in Nat |-> YearOf(d)]
           i == rule.interval
           Candidate(step) ==
             {d \in UNION {monthlyOccurrenceInMonth(rule, YearOf(c) + step * i, m) :
                              m \in rule.month \cap 1..12} : d >= c}
           Hit(step) == Candidate(step) # {}
           C == [q \in 0..299 |-> Candidate(q)]
           R == nextYearly(rule, c)
<1>1. R = IF \E step \in 0..299 : Hit(step)
          THEN Candidate(CHOOSE step \in 0..299 : Hit(step) /\ \A t \in 0..step - 1 : ~Hit(t))
          ELSE {}
  BY DEF nextYearly
<1>2. /\ \A d \in Nat : YearOf(d) \in Nat \ {0} /\ MonthOf(d) \in 1..12
      /\ U \in [Nat -> Nat] /\ \A d \in Nat : U[d] = YearOf(d)
  BY YearOfDay, MonthOfDay
<1>3. \A d, e \in Nat : U[d] < U[e] => d < e
  BY <1>2, LaterYear
<1>4. \A d, e \in F : U[d] = U[e] => d = e
  BY <1>2, OneOfYear
<1>5. ASSUME NEW q \in 0..299 PROVE C[q] = {d \in F : c <= d /\ U[d] = U[c] + q * i}
  <2> DEFINE y == YearOf(c) + q * i
             found == UNION {monthlyOccurrenceInMonth(rule, y, m) : m \in rule.month \cap 1..12}
  <2>1. q * i \in Nat
    BY Multiples
  <2>2. C[q] = {d \in found : d >= c}
    OBVIOUS
  <2>3. ASSUME NEW d
        PROVE  d \in found <=> d \in Nat /\ YearOf(d) = YearOf(c) + q * i /\ OfYear(rule, d)
    <3>1. y \in Nat \ {0}
      <4>1. PICK n \in Nat : n = q * i
        BY <2>1
      <4> QED BY <1>2, <4>1
    <3> HIDE DEF y, i
    <3> QED BY <3>1, YearsLater DEF y
  <2>4. \A d \in Nat : d >= c <=> c <= d
    OBVIOUS
  <2>5. \A d \in Nat : U[d] = YearOf(d)
    OBVIOUS
  <2> HIDE DEF U, found, C
  <2> QED BY <2>2, <2>3, <2>4, <2>5
<1>6. \/ R = {} /\ \A q \in 0..299 : C[q] = {}
      \/ \E q \in 0..299 : R = C[q] /\ C[q] # {} /\ \A p \in 0..q - 1 : C[p] = {}
  <2>1. \A q \in 0..299 : C[q] = Candidate(q)
    OBVIOUS
  <2> HIDE DEF C, Candidate, R
  <2>2. CASE ~\E q \in 0..299 : Hit(q)
    BY <1>1, <2>1, <2>2
  <2>3. CASE \E q \in 0..299 : Hit(q)
    <3> DEFINE T == {q \in 0..299 : Hit(q)}
               P(q) == Hit(q) /\ \A t \in 0..q - 1 : ~Hit(t)
    <3>1. T \in SUBSET Nat /\ T # {}
      BY <2>3
    <3> HIDE DEF T
    <3>2. PICK n \in T : \A k \in T : n <= k
      BY <3>1, Least
    <3> USE DEF T
    <3>3. \A t \in 0..n - 1 : t \in 0..299 /\ ~(n <= t)
      BY <3>1, <3>2
    <3>4. n \in 0..299 /\ P(n)
      BY <3>2, <3>3
    <3> DEFINE q == CHOOSE x \in 0..299 : P(x)
    <3>5. q \in 0..299 /\ P(q)
      BY <3>4
    <3>6. R = Candidate(q)
      BY <1>1, <2>3
    <3> HIDE DEF q
    <3>7. \A t \in 0..q - 1 : t \in 0..299
      BY <3>5
    <3> QED BY <2>1, <3>5, <3>6, <3>7
  <2> QED BY <2>2, <2>3
<1>. i \in Nat \ {0} /\ F \in SUBSET Nat /\ 299 \in Nat
  OBVIOUS
<1> HIDE DEF C, R, U, F, i
<1>7. StepFinds(F, U, c, i, 299, R)
  <2>1. \A q \in 0..299 : C[q] = {d \in F : c <= d /\ U[d] = U[c] + q * i}
    BY <1>5
  <2>2. U \in [Nat -> Nat]
    BY <1>2
  <2>3. StepSearch(F, U, c, i, 299, C, R)
    BY <1>3, <1>4, <1>6, <2>1, <2>2 DEF StepSearch
  <2> QED BY <2>3, FirstStep
<1>8. \A u \in Nat : u + 299 <= u + 299 * i
  OBVIOUS
<1> DEFINE Fits(d) == OfYear(rule, d) /\ (YearOf(d) - YearOf(c)) % i = 0
<1>9. /\ \A d \in F : d \in Nat /\ (Fits(d) <=> (U[d] - U[c]) % i = 0)
      /\ \A d \in Nat : Fits(d) => d \in F
  BY <1>2 DEF F
<1>10. CASE R = {} /\ \A d \in F : c <= d /\ U[d] <= U[c] + 299 * i => (U[d] - U[c]) % i # 0
  <2>1. ASSUME NEW d \in Nat, c <= d, YearOf(d) <= YearOf(c) + 299, Fits(d)
        PROVE  FALSE
    <3>1. d \in F
      BY <1>9, <2>1
    <3>2. U[d] <= U[c] + 299 * i
      BY <1>2, <1>8, <2>1
    <3> QED BY <1>9, <1>10, <2>1, <3>1, <3>2
  <2> QED BY <1>10, <2>1 DEF R, i
<1>11. CASE \E f \in F : /\ R = {f} /\ c <= f /\ (U[f] - U[c]) % i = 0
                         /\ \A d \in F : c <= d /\ d < f => (U[d] - U[c]) % i # 0
  <2>1. PICK f \in F : /\ R = {f} /\ c <= f /\ (U[f] - U[c]) % i = 0
                       /\ \A d \in F : c <= d /\ d < f => (U[d] - U[c]) % i # 0
    BY <1>11
  <2>2. f \in Nat /\ Fits(f)
    BY <1>9, <2>1
  <2>3. \A e \in c..f - 1 : e \in Nat /\ c <= e /\ e < f
    BY <2>2
  <2>4. \A e \in c..f - 1 : ~Fits(e)
    BY <1>9, <2>1, <2>3
  <2> QED BY <2>1, <2>2, <2>4 DEF R, i
<1> QED BY <1>7, <1>10, <1>11 DEF StepFinds

--------------------------------------------------------------------------------
(* The search by weeks, which are counted from hours.                      *)

(* Weeks begin on days that are multiples of seven.                        *)
LEMMA Mondays ==
  ASSUME NEW d \in Nat
  PROVE  /\ monday(d) \in Nat /\ monday(d) % 7 = 0
         /\ monday(d) <= d /\ d <= monday(d) + 6
BY DEF monday, Weekday

(* The Monday of a week is the one that is at most six days before.        *)
LEMMA SameMonday ==
  ASSUME NEW d \in Nat, NEW x \in Nat, x % 7 = 0, x <= d, d <= x + 6
  PROVE  monday(d) = x
BY DEF monday, Weekday

(* The number of the week of day d, counted from that of day c.            *)
WeeksFrom(c, d) == (monday(d) - monday(c)) \div 7

(* Whole weeks lie between Mondays.                                        *)
LEMMA WeeksCount ==
  ASSUME NEW c \in Nat, NEW d \in Nat, c <= d
  PROVE  /\ WeeksFrom(c, d) \in Nat
         /\ monday(d) = monday(c) + 7 * WeeksFrom(c, d)
<1>1. /\ monday(c) \in Nat /\ monday(c) % 7 = 0 /\ monday(c) <= c /\ c <= monday(c) + 6
      /\ monday(d) \in Nat /\ monday(d) % 7 = 0 /\ monday(d) <= d /\ d <= monday(d) + 6
  BY Mondays
<1> DEFINE a == monday(c)
           b == monday(d)
<1> HIDE DEF a, b
<1>2. a \in Nat /\ b \in Nat /\ a % 7 = 0 /\ b % 7 = 0 /\ a <= c /\ c <= a + 6 /\ b <= d /\ d <= b + 6
  BY <1>1 DEF a, b
<1>3. a <= b
  BY <1>2
<1>4. (b - a) \div 7 \in Nat /\ b = a + 7 * ((b - a) \div 7)
  BY <1>2, <1>3
<1> QED BY <1>4 DEF a, b, WeeksFrom

(* What the hours between two Mondays make of the weeks between them.      *)
LEMMA WeeklyMatch ==
  ASSUME NEW c \in Nat, NEW d \in Nat, c <= d, NEW i
  PROVE  isWeeklyIntervalMatch(c, d, i) <=>
           (IF CrossesSpring(c, d) THEN WeeksFrom(c, d) - 1 ELSE WeeksFrom(c, d)) % i = 0
<1> DEFINE a == monday(c)
           w == WeeksFrom(c, d)
           x == IF Summer(monday(c)) THEN 1 ELSE 0
           y == IF Summer(monday(d)) THEN 1 ELSE 0
<1>1. a \in Nat /\ w \in Nat /\ monday(d) = a + 7 * w
  BY WeeksCount, Mondays
<1>2. Midnight(monday(c)) = 24 * a - x /\ Midnight(monday(d)) = 24 * (a + 7 * w) - y
  BY <1>1 DEF Midnight
<1>3. CrossesSpring(c, d) <=> x = 0 /\ y = 1
  BY DEF CrossesSpring
<1>4. x \in 0..1 /\ y \in 0..1
  OBVIOUS
<1> HIDE DEF a, w, x, y
<1>5. 24 * (a + 7 * w) - y - (24 * a - x) = 168 * w + (x - y)
  BY <1>1, <1>4
<1>6. (168 * w + (x - y)) \div (24 * 7) = IF x = 0 /\ y = 1 THEN w - 1 ELSE w
  BY <1>1, <1>4
<1>7. isWeeklyIntervalMatch(c, d, i) <=>
        ((24 * (a + 7 * w) - y - (24 * a - x)) \div (24 * 7)) % i = 0
  BY <1>2 DEF isWeeklyIntervalMatch
<1> QED BY <1>3, <1>5, <1>6, <1>7 DEF w

(* Summer time lasts for more than 28 weeks.                               *)
LEMMA SummerLasts ==
  ASSUME NEW x \in Nat, Summer(x), ~Summer(x + 7), NEW k \in 0..28, x - 7 * k \in Nat
  PROVE  Summer(x - 7 * k)
<1> DEFINE y == YearOf(x)
           A == LastSunday(y, 3)
           B == LastSunday(y, 10)
           s == YearStart(y)
           l == IF Leap(y) THEN 1 ELSE 0
<1>1. y \in Nat /\ s <= x /\ x < YearStart(y + 1)
  BY YearOfDay
<1>2. s \in Int /\ YearStart(y + 1) = s + 365 + l /\ l \in 0..1
  BY <1>1, YearStep
<1>3. MonthStart(y, 4) = s + 90 + l /\ MonthStart(y, 11) = s + 304 + l
  BY <1>1, <1>2, DaysBeforeMonths DEF MonthStart
<1>4. s + 90 + l - 7 <= A /\ A <= s + 90 + l /\ s + 304 + l - 7 <= B /\ B <= s + 304 + l - 1 /\ A \in Int /\ B \in Int
  <2>1. /\ A = s + 90 + l - 1 - ((((s + 90 + l - 1) % 7) + 1) % 7)
        /\ B = s + 304 + l - 1 - ((((s + 304 + l - 1) % 7) + 1) % 7)
    <3>1. 3 + 1 = 4 /\ 10 + 1 = 11
      OBVIOUS
    <3>2. /\ A = MonthStart(y, 4) - 1 - ((((MonthStart(y, 4) - 1) % 7) + 1) % 7)
          /\ B = MonthStart(y, 11) - 1 - ((((MonthStart(y, 11) - 1) % 7) + 1) % 7)
      BY <3>1 DEF LastSunday, Weekday
    <3> DEFINE p == MonthStart(y, 4)
               q == MonthStart(y, 11)
    <3>3. p = s + 90 + l /\ q = s + 304 + l
      BY <1>3
    <3>4. A = p - 1 - ((((p - 1) % 7) + 1) % 7) /\ B = q - 1 - ((((q - 1) % 7) + 1) % 7)
      BY <3>2
    <3> HIDE DEF A, B, s, l, y, p, q
    <3> QED BY <1>2, <3>3, <3>4
  <2> HIDE DEF A, B, s, l
  <2>2. \A n \in Int : ((n % 7) + 1) % 7 \in 0..6
    OBVIOUS
  <2> QED BY <1>2, <2>1, <2>2
<1>5. A < x /\ x <= B
  BY DEF Summer
<1>6. ASSUME NEW z \in Nat, s <= z, z < s + 365 + l PROVE Summer(z) <=> A < z /\ z <= B
  <2>1. YearOf(z) = y
    BY <1>1, <1>2, <1>6, YearUnique
  <2> QED BY <2>1 DEF Summer
<1> HIDE DEF y, A, B, s, l
<1>7. x + 7 \in Nat /\ s <= x + 7 /\ x + 7 < s + 365 + l
  BY <1>1, <1>2, <1>4, <1>5
<1>8. B < x + 7
  BY <1>2, <1>4, <1>5, <1>6, <1>7
<1>9. A < x - 7 * k /\ x - 7 * k <= B
  BY <1>2, <1>4, <1>5, <1>8
<1>10. s <= x - 7 * k /\ x - 7 * k < s + 365 + l
  BY <1>2, <1>4, <1>9
<1> QED BY <1>6, <1>9, <1>10

(* The weekdays of a weekly rule, and the days its search accepts.         *)
Weekdays(rule) == IF rule.weekdays # {} THEN rule.weekdays ELSE rule.weekday

WeeklyHit(rule, c, d) ==
  Weekday(d) \in Weekdays(rule) /\ isWeeklyIntervalMatch(c, d, rule.interval)

(* The search of the days, one after the other.                            *)
LEMMA WeeklyScan ==
  ASSUME NEW rule, NEW c \in Nat
  PROVE  \/ /\ nextWeekly(rule, c) = {}
            /\ \A d \in c..c + 1109 : ~WeeklyHit(rule, c, d)
         \/ \E f \in c..c + 1109 : /\ nextWeekly(rule, c) = {f} /\ WeeklyHit(rule, c, f)
                                   /\ \A e \in c..f - 1 : ~WeeklyHit(rule, c, e)
<1> DEFINE Match(d) == WeeklyHit(rule, c, d)
           scanned == c..c + 370 * 3 - 1
           First(d) == Match(d) /\ \A e \in c..d - 1 : ~Match(e)
<1>1. nextWeekly(rule, c) = IF \E d \in scanned : Match(d) THEN {CHOOSE d \in scanned : First(d)} ELSE {}
  BY DEF nextWeekly, WeeklyHit, Weekdays
<1>2. scanned = c..c + 1109
  OBVIOUS
<1> HIDE DEF Match, scanned
<1>3. CASE ~\E d \in scanned : Match(d)
  BY <1>1, <1>2, <1>3 DEF Match
<1>4. CASE \E d \in scanned : Match(d)
  <2> DEFINE T == {d \in scanned : Match(d)}
  <2>1. T \in SUBSET Nat /\ T # {}
    BY <1>2, <1>4
  <2> HIDE DEF T
  <2>2. PICK g \in T : \A k \in T : g <= k
    BY <2>1, Least
  <2>3. g \in scanned /\ Match(g)
    BY <2>2 DEF T
  <2>4. ASSUME NEW e \in c..g - 1 PROVE ~Match(e)
    <3>1. e \in scanned /\ ~(g <= e)
      BY <1>2, <2>3
    <3> QED BY <2>2, <3>1 DEF T
  <2>5. First(g)
    BY <2>3, <2>4
  <2> DEFINE f == CHOOSE d \in scanned : First(d)
  <2> HIDE DEF First
  <2>6. f \in scanned /\ First(f)
    BY <2>3, <2>5
  <2>7. nextWeekly(rule, c) = {f}
    BY <1>1, <1>4
  <2> HIDE DEF f
  <2> QED BY <1>2, <2>6, <2>7 DEF First, Match
<1> QED BY <1>3, <1>4

(* A week that fits in summer time, counted from a day in winter, has a    *)
(* counterpart that the search hits: a week on or an interval earlier.     *)
LEMMA HitAcrossSpring ==
  ASSUME NEW rule, NEW i \in 2..29, rule.interval = i,
         NEW c \in Nat, NEW e \in Nat, c <= e, Weekday(e) \in Weekdays(rule),
         WeeksFrom(c, e) % i = 0, CrossesSpring(c, e)
  PROVE  \/ /\ WeeklyHit(rule, c, e + 7)
            /\ \A f \in Nat : e < f /\ f <= e + 7 => CrossesSpring(c, f)
         \/ \E g \in Nat : c <= g /\ g < e /\ WeeklyHit(rule, c, g)
<1> DEFINE a == monday(c)
           b == monday(e)
           w == WeeksFrom(c, e)
<1>1. /\ a \in Nat /\ a % 7 = 0 /\ a <= c /\ c <= a + 6
      /\ b \in Nat /\ b % 7 = 0 /\ b <= e /\ e <= b + 6
      /\ w \in Nat /\ b = a + 7 * w
  BY Mondays, WeeksCount
<1>2. ~Summer(a) /\ Summer(b) /\ w % i = 0
  BY DEF CrossesSpring
<1> HIDE DEF a, b, w
<1>3. i <= w
  <2>1. w # 0
    BY <1>1, <1>2
  <2> QED BY <1>1, <1>2, <2>1
<1>4. ASSUME NEW d \in Nat, c <= d, NEW v \in Nat, monday(d) = a + 7 * v
      PROVE  WeeksFrom(c, d) = v /\ (CrossesSpring(c, d) <=> Summer(monday(d)))
  <2>1. WeeksFrom(c, d) = (monday(d) - a) \div 7
    BY DEF WeeksFrom, a
  <2>2. (monday(d) - a) \div 7 = v
    BY <1>1, <1>4
  <2>3. CrossesSpring(c, d) <=> Summer(monday(d))
    BY <1>2 DEF CrossesSpring, a
  <2> QED BY <2>1, <2>2, <2>3
<1>5. CASE Summer(b + 7)
  <2>1. monday(e + 7) = b + 7
    BY <1>1, SameMonday
  <2>2. b + 7 = a + 7 * (w + 1) /\ w + 1 \in Nat /\ (w + 1) - 1 = w /\ c <= e + 7 /\ e + 7 \in Nat
    BY <1>1
  <2>3. WeeksFrom(c, e + 7) = w + 1 /\ CrossesSpring(c, e + 7)
    BY <1>4, <1>5, <2>1, <2>2
  <2>4. isWeeklyIntervalMatch(c, e + 7, i)
    BY <1>2, <2>2, <2>3, WeeklyMatch
  <2>5. Weekday(e + 7) = Weekday(e)
    BY DEF Weekday
  <2>6. ASSUME NEW f \in Nat, e < f, f <= e + 7 PROVE CrossesSpring(c, f)
    <3>1. CASE f <= b + 6
      <4>1. monday(f) = b
        BY <1>1, <2>6, <3>1, SameMonday
      <4> QED BY <1>2, <4>1 DEF CrossesSpring, a
    <3>2. CASE ~(f <= b + 6)
      <4>1. b + 7 \in Nat /\ (b + 7) % 7 = 0 /\ b + 7 <= f /\ f <= (b + 7) + 6
        BY <1>1, <2>6, <3>2
      <4>2. monday(f) = b + 7
        BY <4>1, SameMonday
      <4> QED BY <1>2, <1>5, <4>2 DEF CrossesSpring, a
    <3> QED BY <3>1, <3>2
  <2> QED BY <2>4, <2>5, <2>6 DEF WeeklyHit
<1>6. CASE ~Summer(b + 7)
  <2> DEFINE k == i - 1
             g == e - 7 * k
             v == w - k
  <2>1. k \in 0..28 /\ 1 <= k /\ v \in Nat /\ 1 <= v /\ k < w
    BY <1>1, <1>3
  <2>2. b - 7 * k = a + 7 * v
    BY <1>1, <2>1
  <2>3. b - 7 * k \in Nat
    BY <1>1, <2>1, <2>2
  <2>4. Summer(b - 7 * k)
    BY <1>1, <1>2, <1>6, <2>1, <2>3, SummerLasts
  <2>5. g \in Nat /\ (b - 7 * k) % 7 = 0 /\ b - 7 * k <= g /\ g <= (b - 7 * k) + 6 /\ c <= g /\ g < e
    BY <1>1, <2>1, <2>2, <2>3
  <2>6. monday(g) = b - 7 * k
    BY <2>3, <2>5, SameMonday
  <2>7. Weekday(g) = Weekday(e)
    BY <2>1 DEF Weekday
  <2>8. (v - 1) % i = 0
    <3>1. v - 1 = w - i
      BY <1>1
    <3>2. (w - i) % i = 0
      BY <1>1, <1>2, <1>3
    <3> QED BY <3>1, <3>2
  <2> HIDE DEF k, g, v
  <2>9. WeeksFrom(c, g) = v /\ CrossesSpring(c, g)
    BY <1>4, <2>1, <2>2, <2>4, <2>5, <2>6
  <2>10. isWeeklyIntervalMatch(c, g, i)
    BY <2>5, <2>8, <2>9, WeeklyMatch
  <2> QED BY <2>5, <2>7, <2>10 DEF WeeklyHit
<1> QED BY <1>5, <1>6

(* The weekly search finds the first day that fits, or a day in summer     *)
(* time when it began in winter.                                           *)
LEMMA WeeklyIsFirst ==
  ASSUME NEW rule, NEW i \in 1..29, rule.interval = i, NEW c \in Nat
  PROVE  LET Fits(d) == Weekday(d) \in Weekdays(rule) /\ WeeksFrom(c, d) % i = 0
         IN  \/ nextWeekly(rule, c) = {} /\ \A d \in c..c + 400 : ~Fits(d)
             \/ \E f \in Nat :
                  /\ nextWeekly(rule, c) = {f} /\ c <= f
                  /\ \/ i # 1 /\ CrossesSpring(c, f)
                     \/ Fits(f) /\ \A e \in c..f - 1 : ~Fits(e)
<1> DEFINE Fits(d) == Weekday(d) \in Weekdays(rule) /\ WeeksFrom(c, d) % i = 0
           Hit(d) == WeeklyHit(rule, c, d)
<1>1. ASSUME NEW d \in Nat, c <= d, i = 1 \/ ~CrossesSpring(c, d)
      PROVE  Hit(d) <=> Fits(d)
  <2>1. WeeksFrom(c, d) \in Nat
    BY <1>1, WeeksCount
  <2>2. isWeeklyIntervalMatch(c, d, i) <=>
          (IF CrossesSpring(c, d) THEN WeeksFrom(c, d) - 1 ELSE WeeksFrom(c, d)) % i = 0
    BY <1>1, WeeklyMatch
  <2>3. \A x \in Int : x % 1 = 0
    OBVIOUS
  <2>4. isWeeklyIntervalMatch(c, d, i) <=> WeeksFrom(c, d) % i = 0
    BY <1>1, <2>1, <2>2, <2>3
  <2> QED BY <2>4 DEF WeeklyHit
<1>2. ASSUME NEW d \in Nat, c <= d, Fits(d), ~Hit(d)
      PROVE  \/ Hit(d + 7) /\ \A f \in Nat : d < f /\ f <= d + 7 => CrossesSpring(c, f)
             \/ \E g \in Nat : c <= g /\ g < d /\ Hit(g)
  <2>1. i # 1 /\ CrossesSpring(c, d)
    BY <1>1, <1>2
  <2>2. i \in 2..29
    BY <2>1
  <2> QED BY <1>2, <2>1, <2>2, HitAcrossSpring
<1>3. \A d \in c..c + 400 : d \in Nat /\ c <= d /\ d \in c..c + 1109 /\ d + 7 \in c..c + 1109
  OBVIOUS
<1> HIDE DEF Fits, Hit
<1>4. CASE nextWeekly(rule, c) = {} /\ \A d \in c..c + 1109 : ~Hit(d)
  <2>1. ASSUME NEW d \in c..c + 400, Fits(d) PROVE FALSE
    <3>1. ~Hit(d) /\ ~Hit(d + 7)
      BY <1>3, <1>4
    <3>2. PICK g \in Nat : c <= g /\ g < d /\ Hit(g)
      BY <1>2, <1>3, <2>1, <3>1
    <3>3. g \in c..c + 1109
      BY <3>2
    <3> QED BY <1>4, <3>2, <3>3
  <2> QED BY <1>4, <2>1 DEF Fits
<1>5. CASE \E f \in c..c + 1109 : /\ nextWeekly(rule, c) = {f} /\ Hit(f)
                                  /\ \A e \in c..f - 1 : ~Hit(e)
  <2>1. PICK f \in c..c + 1109 : /\ nextWeekly(rule, c) = {f} /\ Hit(f)
                                 /\ \A e \in c..f - 1 : ~Hit(e)
    BY <1>5
  <2>2. f \in Nat /\ c <= f
    OBVIOUS
  <2>3. ASSUME i = 1 \/ ~CrossesSpring(c, f) PROVE Fits(f) /\ \A e \in c..f - 1 : ~Fits(e)
    <3>1. Fits(f)
      BY <1>1, <2>1, <2>2, <2>3
    <3>2. ASSUME NEW e \in c..f - 1, Fits(e) PROVE FALSE
      <4>1. e \in Nat /\ c <= e /\ e < f /\ ~Hit(e)
        BY <2>1, <2>2
      <4>2. ~\E g \in Nat : c <= g /\ g < e /\ Hit(g)
        <5> SUFFICES ASSUME NEW g \in Nat, c <= g, g < e, Hit(g) PROVE FALSE
          OBVIOUS
        <5>1. g \in c..f - 1
          BY <2>2, <4>1
        <5> QED BY <2>1, <5>1
      <4>3. Hit(e + 7) /\ \A x \in Nat : e < x /\ x <= e + 7 => CrossesSpring(c, x)
        BY <1>2, <3>2, <4>1, <4>2
      <4>4. ~(e + 7 < f)
        <5> SUFFICES ASSUME e + 7 < f PROVE FALSE
          OBVIOUS
        <5>1. e + 7 \in c..f - 1
          BY <2>2, <4>1
        <5> QED BY <2>1, <4>3, <5>1
      <4>5. CrossesSpring(c, f)
        BY <2>2, <4>1, <4>3, <4>4
      <4>6. i = 1
        BY <2>3, <4>5
      <4> QED BY <1>1, <3>2, <4>1, <4>6
    <3> QED BY <3>1, <3>2
  <2> QED BY <2>1, <2>2, <2>3 DEF Fits
<1>6. \/ nextWeekly(rule, c) = {} /\ \A d \in c..c + 1109 : ~Hit(d)
      \/ \E f \in c..c + 1109 : /\ nextWeekly(rule, c) = {f} /\ Hit(f)
                                /\ \A e \in c..f - 1 : ~Hit(e)
  BY WeeklyScan DEF Hit
<1> QED BY <1>4, <1>5, <1>6

--------------------------------------------------------------------------------
(* A rule that has a day at all has one again: years in which a month has  *)
(* the weekday five times, and leap years, come back.                      *)

(* The day is in the month and has the weekday.                            *)
FallsIn(d, y, m, w) == d \in Nat /\ YearOf(d) = y /\ MonthOf(d) = m /\ Weekday(d) = w

(* Every month has each weekday four times, and once as its last; a fifth  *)
(* one when it falls on the days that the month has beyond the twenty-     *)
(* eighth.                                                                 *)
LEMMA WeekdaysOfMonth ==
  ASSUME NEW y \in Nat \ {0}, NEW m \in 1..12, NEW w \in 0..6
  PROVE  /\ \A n \in 1..4 : \E d : FallsIn(d, y, m, w) /\ DayOfMonth(d) \in 7 * (n - 1) + 1..7 * n
         /\ \E d : FallsIn(d, y, m, w) /\ MonthOf(d + 7) # MonthOf(d)
         /\ MonthStart(y, m) + 28 + ((w - MonthStart(y, m)) % 7) < MonthStart(y, m + 1) =>
              \E d : FallsIn(d, y, m, w) /\ DayOfMonth(d) \in 7 * (5 - 1) + 1..7 * 5
<1> DEFINE s == MonthStart(y, m)
           t == MonthStart(y, m + 1)
           InMonth(d) == FallsIn(d, y, m, w)
           r == (w - s) % 7
<1>1. s \in Nat /\ t \in Nat /\ s + 28 <= t /\ t <= s + 31
  BY MonthBegins
<1>2. r \in 0..6 /\ (s + r) % 7 = w
  <2> HIDE DEF s
  <2> QED BY <1>1
<1>3. ASSUME NEW k \in 0..4, s + 7 * k + r < t
      PROVE  InMonth(s + 7 * k + r) /\ DayOfMonth(s + 7 * k + r) = 7 * k + r + 1
  <2> DEFINE d == s + 7 * k + r
  <2> HIDE DEF r
  <2>1. d \in Nat /\ s <= d /\ d < t
    <3> HIDE DEF s, t
    <3> QED BY <1>1, <1>2, <1>3
  <2>2. Weekday(d) = w
    <3> HIDE DEF s
    <3> QED BY <1>1, <1>2 DEF Weekday
  <2>3. YearOf(d) = y /\ MonthOf(d) = m
    <3> HIDE DEF d
    <3> QED BY <2>1, MonthUnique
  <2>4. DayOfMonth(d) = d - s + 1
    <3> HIDE DEF d
    <3> QED BY <2>3 DEF DayOfMonth
  <2>5. d - s + 1 = 7 * k + r + 1
    <3> HIDE DEF s
    <3> QED BY <1>1, <1>2
  <2> QED BY <2>1, <2>2, <2>3, <2>4, <2>5 DEF FallsIn
<1> HIDE DEF r, s, t, InMonth
<1>4. ASSUME NEW n \in 1..5, s + 7 * (n - 1) + r < t
      PROVE  \E d : InMonth(d) /\ DayOfMonth(d) \in 7 * (n - 1) + 1..7 * n
  <2>1. n - 1 \in 0..4
    OBVIOUS
  <2>2. InMonth(s + 7 * (n - 1) + r) /\ DayOfMonth(s + 7 * (n - 1) + r) = 7 * (n - 1) + r + 1
    BY <1>3, <1>4, <2>1
  <2>3. 7 * (n - 1) + r + 1 \in 7 * (n - 1) + 1..7 * n
    BY <1>2
  <2> QED BY <2>2, <2>3
<1>5. \A n \in 1..4 : \E d : InMonth(d) /\ DayOfMonth(d) \in 7 * (n - 1) + 1..7 * n
  <2>1. \A n \in 1..4 : n \in 1..5 /\ s + 7 * (n - 1) + r < t
    BY <1>1, <1>2
  <2> QED BY <1>4, <2>1
<1>6. s + 28 + r < t => \E d : InMonth(d) /\ DayOfMonth(d) \in 7 * (5 - 1) + 1..7 * 5
  <2>1. 5 \in 1..5 /\ s + 7 * (5 - 1) + r = s + 28 + r
    BY <1>1, <1>2
  <2> QED BY <1>4, <2>1
<1>7. \E d : InMonth(d) /\ MonthOf(d + 7) # MonthOf(d)
  <2> DEFINE k == IF s + 28 + r < t THEN 4 ELSE 3
             d == s + 7 * k + r
  <2>1. k \in 0..4 /\ d < t /\ t <= d + 7
    BY <1>1, <1>2
  <2>2. InMonth(d)
    BY <1>3, <2>1
  <2> HIDE DEF d
  <2>3. MonthOf(d + 7) = MonthOf(d) <=> d + 7 < MonthStart(YearOf(d), MonthOf(d) + 1)
    BY <2>2, WeekOn DEF InMonth, FallsIn
  <2>4. MonthStart(YearOf(d), MonthOf(d) + 1) = t /\ d \in Nat
    BY <2>2 DEF InMonth, FallsIn, t
  <2>5. ~(d + 7 < t)
    BY <1>1, <2>1, <2>4
  <2> QED BY <2>2, <2>3, <2>4, <2>5
<1> QED BY <1>5, <1>6, <1>7 DEF r, s, t, InMonth

(* What the day of an event says of a rule that names a weekday.           *)
LEMMA NamedWeekday ==
  ASSUME NEW rule, rule.nth \subseteq Int, rule.monthDay = {}, NEW x \in Nat, MatchesMonth(rule, x)
  PROVE  /\ Weekday(x) \in rule.weekday /\ Weekday(x) \in 0..6
         /\ \/ -1 \in rule.nth
            \/ \E n \in rule.nth : n \in 1..5 /\ (n = 5 => 29 <= DayOfMonth(x))
<1>1. DayOfMonth(x) \in 1..31
  <2> DEFINE s == MonthStart(YearOf(x), MonthOf(x))
  <2>1. s \in Nat /\ s <= x /\ x < s + 31
    <3>1. /\ YearOf(x) \in Nat \ {0} /\ MonthOf(x) \in 1..12
          /\ s <= x /\ x < MonthStart(YearOf(x), MonthOf(x) + 1)
      BY YearOfDay, MonthOfDay
    <3>2. s \in Nat /\ MonthStart(YearOf(x), MonthOf(x) + 1) \in Nat /\ MonthStart(YearOf(x), MonthOf(x) + 1) <= s + 31
      BY <3>1, MonthBegins
    <3> QED BY <3>1, <3>2
  <2>2. DayOfMonth(x) = x - s + 1
    BY DEF DayOfMonth
  <2> HIDE DEF s
  <2> QED BY <2>1, <2>2
<1>2. ASSUME NEW n \in rule.nth, DayOfMonth(x) \in 7 * (n - 1) + 1..7 * n
      PROVE  n \in 1..5 /\ (n = 5 => 29 <= DayOfMonth(x))
  BY <1>1, <1>2
<1>3. Weekday(x) \in 0..6
  BY DEF Weekday
<1> QED BY <1>2, <1>3 DEF MatchesMonth

(* Every year has a month in which a given weekday falls a fifth time on   *)
(* one of the last of 31 days.                                             *)
LEMMA FifthOfYear ==
  ASSUME NEW y \in Nat \ {0}, NEW w \in 0..6
  PROVE  \E m \in 1..12 : MonthStart(y, m) + 28 + ((w - MonthStart(y, m)) % 7) < MonthStart(y, m + 1)
<1> DEFINE s == YearStart(y)
           l == IF Leap(y) THEN 1 ELSE 0
           r == (w - s) % 7
           Fifth(m) == MonthStart(y, m) + 28 + ((w - MonthStart(y, m)) % 7) < MonthStart(y, m + 1)
<1>1. s \in Int /\ l \in 0..1
  BY YearStep
<1>2. /\ MonthStart(y, 1) = s /\ MonthStart(y, 1 + 1) = s + 31
      /\ MonthStart(y, 3) = s + 59 + l /\ MonthStart(y, 3 + 1) = s + 90 + l
      /\ MonthStart(y, 5) = s + 120 + l /\ MonthStart(y, 5 + 1) = s + 151 + l
      /\ MonthStart(y, 7) = s + 181 + l /\ MonthStart(y, 7 + 1) = s + 212 + l
      /\ MonthStart(y, 8) = s + 212 + l /\ MonthStart(y, 8 + 1) = s + 243 + l
      /\ MonthStart(y, 10) = s + 273 + l /\ MonthStart(y, 10 + 1) = s + 304 + l
      /\ MonthStart(y, 12) = s + 334 + l /\ MonthStart(y, 12 + 1) = s + 365 + l
  BY <1>1, DaysBeforeMonths DEF MonthStart
<1> HIDE DEF s, l
<1>3. \/ (w - s) % 7 \in 0..2
      \/ (w - (s + 59 + l)) % 7 \in 0..2
      \/ (w - (s + 120 + l)) % 7 \in 0..2
      \/ (w - (s + 181 + l)) % 7 \in 0..2
      \/ (w - (s + 212 + l)) % 7 \in 0..2
      \/ (w - (s + 273 + l)) % 7 \in 0..2
      \/ (w - (s + 334 + l)) % 7 \in 0..2
  BY <1>1
<1>4. ASSUME NEW m, NEW a \in Int, MonthStart(y, m) = a, MonthStart(y, m + 1) = a + 31
      PROVE  (w - a) % 7 \in 0..2 => Fifth(m)
  BY <1>4
<1>5. /\ (w - s) % 7 \in 0..2 => Fifth(1)
      /\ (w - (s + 59 + l)) % 7 \in 0..2 => Fifth(3)
      /\ (w - (s + 120 + l)) % 7 \in 0..2 => Fifth(5)
      /\ (w - (s + 181 + l)) % 7 \in 0..2 => Fifth(7)
      /\ (w - (s + 212 + l)) % 7 \in 0..2 => Fifth(8)
      /\ (w - (s + 273 + l)) % 7 \in 0..2 => Fifth(10)
      /\ (w - (s + 334 + l)) % 7 \in 0..2 => Fifth(12)
  <2> HIDE DEF Fifth
  <2>1. (w - s) % 7 \in 0..2 => Fifth(1)
    <3>1. s \in Int /\ MonthStart(y, 1) = s /\ MonthStart(y, 1 + 1) = s + 31
      BY <1>1, <1>2
    <3> QED BY <1>4, <3>1
  <2>2. (w - (s + 59 + l)) % 7 \in 0..2 => Fifth(3)
    <3>1. s + 59 + l \in Int /\ MonthStart(y, 3) = s + 59 + l /\ MonthStart(y, 3 + 1) = (s + 59 + l) + 31
      BY <1>1, <1>2
    <3> QED BY <1>4, <3>1
  <2>3. (w - (s + 120 + l)) % 7 \in 0..2 => Fifth(5)
    <3>1. s + 120 + l \in Int /\ MonthStart(y, 5) = s + 120 + l /\ MonthStart(y, 5 + 1) = (s + 120 + l) + 31
      BY <1>1, <1>2
    <3> QED BY <1>4, <3>1
  <2>4. (w - (s + 181 + l)) % 7 \in 0..2 => Fifth(7)
    <3>1. s + 181 + l \in Int /\ MonthStart(y, 7) = s + 181 + l /\ MonthStart(y, 7 + 1) = (s + 181 + l) + 31
      BY <1>1, <1>2
    <3> QED BY <1>4, <3>1
  <2>5. (w - (s + 212 + l)) % 7 \in 0..2 => Fifth(8)
    <3>1. s + 212 + l \in Int /\ MonthStart(y, 8) = s + 212 + l /\ MonthStart(y, 8 + 1) = (s + 212 + l) + 31
      BY <1>1, <1>2
    <3> QED BY <1>4, <3>1
  <2>6. (w - (s + 273 + l)) % 7 \in 0..2 => Fifth(10)
    <3>1. s + 273 + l \in Int /\ MonthStart(y, 10) = s + 273 + l /\ MonthStart(y, 10 + 1) = (s + 273 + l) + 31
      BY <1>1, <1>2
    <3> QED BY <1>4, <3>1
  <2>7. (w - (s + 334 + l)) % 7 \in 0..2 => Fifth(12)
    <3>1. s + 334 + l \in Int /\ MonthStart(y, 12) = s + 334 + l /\ MonthStart(y, 12 + 1) = (s + 334 + l) + 31
      BY <1>1, <1>2
    <3> QED BY <1>4, <3>1
  <2> QED BY <2>1, <2>2, <2>3, <2>4, <2>5, <2>6, <2>7
<1> HIDE DEF Fifth
<1>6. \E m \in 1..12 : Fifth(m)
  <2>1. 1 \in 1..12 /\ 3 \in 1..12 /\ 5 \in 1..12 /\ 7 \in 1..12 /\ 8 \in 1..12 /\ 10 \in 1..12 /\ 12 \in 1..12
    OBVIOUS
  <2>2. Fifth(1) \/ Fifth(3) \/ Fifth(5) \/ Fifth(7) \/ Fifth(8) \/ Fifth(10) \/ Fifth(12)
    BY <1>3, <1>5
  <2> QED BY <2>1, <2>2, Zenon
<1> QED BY <1>6 DEF Fifth

(* Within 128 years there are leap years in which the days of a month fall *)
(* on any weekday.                                                         *)
LEMMA LeapYearsAhead ==
  ASSUME NEW x \in Nat \ {0}, NEW m \in 1..12, NEW w \in 0..6
  PROVE  \E y \in Nat : x < y /\ y <= x + 128 /\ Leap(y) /\ (w - MonthStart(y, m)) % 7 = 0
<1> DEFINE q == (x \div 100) + 1
           Y(k) == 100 * q + 4 + 4 * k
<1>1. q \in Nat /\ x < 100 * q /\ 100 * q <= x + 100
  OBVIOUS
<1> HIDE DEF q
<1>2. ASSUME NEW k \in 0..6
      PROVE  /\ Y(k) \in Nat /\ x < Y(k) /\ Y(k) <= x + 128
             /\ Leap(Y(k)) /\ YearStart(Y(k)) = YearStart(Y(0)) + 1461 * k
  <2>1. Y(k) \in Nat /\ x < Y(k) /\ Y(k) <= x + 128
    BY <1>1
  <2>2. Y(k) % 4 = 0 /\ Y(k) % 100 # 0
    BY <1>1
  <2>3. ASSUME NEW j \in 0..6
        PROVE  YearStart(Y(j)) = 365 * (100 * q + 3 + 4 * j) + (25 * q + j) - q + (q \div 4)
    <3>1. Y(j) - 1 = 100 * q + 3 + 4 * j
      BY <1>1
    <3>2. (100 * q + 3 + 4 * j) \div 4 = 25 * q + j
      BY <1>1
    <3>3. (100 * q + 3 + 4 * j) \div 100 = q
      BY <1>1
    <3>4. (100 * q + 3 + 4 * j) \div 400 = q \div 4
      BY <1>1
    <3> QED BY <3>1, <3>2, <3>3, <3>4 DEF YearStart
  <2>4. YearStart(Y(k)) = YearStart(Y(0)) + 1461 * k
    <3>1. 0 \in 0..6
      OBVIOUS
    <3>2. YearStart(Y(0)) = 365 * (100 * q + 3 + 4 * 0) + (25 * q + 0) - q + (q \div 4)
      BY <2>3, <3>1
    <3>3. YearStart(Y(k)) = 365 * (100 * q + 3 + 4 * k) + (25 * q + k) - q + (q \div 4)
      BY <2>3
    <3> HIDE DEF Y
    <3> QED BY <1>1, <3>2, <3>3
  <2> QED BY <2>1, <2>2, <2>4 DEF Leap
<1> HIDE DEF Y
<1> DEFINE a == MonthStart(Y(0), m)
<1>3. 0 \in 0..6 /\ Y(0) \in Nat
  BY <1>2
<1>4. a \in Int
  BY <1>3, MonthLength
<1>5. \A j \in 0..6 : MonthStart(Y(j), m) = a + 1461 * j
  <2>1. YearStart(Y(0)) \in Int /\ DaysBefore[m] \in Int
    BY <1>3, YearStep, MonthCases, DaysBeforeMonths
  <2>2. Leap(Y(0)) /\ \A j \in 0..6 : Leap(Y(j)) /\ YearStart(Y(j)) = YearStart(Y(0)) + 1461 * j
    BY <1>2, <1>3
  <2> QED BY <2>1, <2>2 DEF MonthStart
<1> HIDE DEF a
<1>6. PICK k \in 0..6 : (w - (a + 1461 * k)) % 7 = 0
  <2> DEFINE j == (3 * (w - a)) % 7
  <2>1. j \in 0..6 /\ (w - (a + 1461 * j)) % 7 = 0
    BY <1>4
  <2> QED BY <2>1
<1>7. (w - MonthStart(Y(k), m)) % 7 = 0
  <2>1. MonthStart(Y(k), m) = a + 1461 * k
    BY <1>5
  <2> QED BY <1>6, <2>1
<1>8. Y(k) \in Nat /\ x < Y(k) /\ Y(k) <= x + 128 /\ Leap(Y(k))
  BY <1>2, <1>6
<1> QED BY <1>7, <1>8

(* No month is longer than it is in a leap year.                           *)
LEMMA LeapMonths ==
  ASSUME NEW y \in Nat, Leap(y), NEW z \in Nat, NEW m \in 1..12
  PROVE  /\ MonthStart(z, m + 1) - MonthStart(z, m) <= MonthStart(y, m + 1) - MonthStart(y, m)
         /\ MonthStart(y, m) + 29 <= MonthStart(y, m + 1)
<1>1. YearStart(y) \in Int /\ YearStart(z) \in Int
  BY YearStep
<1>2. m + 1 \in 2..13
  OBVIOUS
<1> QED BY <1>1, <1>2, MonthCases, DaysBeforeMonths DEF MonthStart

(* The month has the day of the month that x is, or a fifth of its weekday.*)
RoomIn(rule, x, y, m) ==
  /\ rule.monthDay # {} => MonthStart(y, m) + DayOfMonth(x) - 1 < MonthStart(y, m + 1)
  /\ rule.monthDay = {} /\ 29 <= DayOfMonth(x) =>
       MonthStart(y, m) + 28 + ((Weekday(x) - MonthStart(y, m)) % 7) < MonthStart(y, m + 1)

(* A rule that has its event on a day x has it in every month that is long *)
(* enough.                                                                 *)
LEMMA MatchInMonth ==
  ASSUME NEW rule, Searchable(rule), NEW x \in Nat, MatchesMonth(rule, x),
         NEW y \in Nat \ {0}, NEW m \in 1..12, RoomIn(rule, x, y, m)
  PROVE  \E d \in Nat : YearOf(d) = y /\ MonthOf(d) = m /\ MatchesMonth(rule, d)
<1>1. MonthStart(y, m) \in Nat /\ MonthStart(y, m + 1) \in Nat
  BY MonthBegins
<1>2. CASE rule.monthDay # {}
  <2> DEFINE s == MonthStart(y, m)
             day == DayOfMonth(x)
             d == s + day - 1
  <2>1. day \in Nat /\ 1 <= day
    <3>1. /\ YearOf(x) \in Nat \ {0} /\ MonthOf(x) \in 1..12
          /\ MonthStart(YearOf(x), MonthOf(x)) <= x
      BY YearOfDay, MonthOfDay
    <3>2. MonthStart(YearOf(x), MonthOf(x)) \in Nat
      BY <3>1, MonthBegins
    <3> QED BY <3>1, <3>2 DEF DayOfMonth
  <2>2. day \in rule.monthDay
    BY <1>2 DEF MatchesMonth
  <2> HIDE DEF day
  <2>3. d \in Nat /\ s <= d /\ d < MonthStart(y, m + 1)
    <3>1. s + day - 1 < MonthStart(y, m + 1)
      BY <1>2 DEF day, RoomIn
    <3> QED BY <1>1, <2>1, <3>1
  <2>4. YearOf(d) = y /\ MonthOf(d) = m
    <3> HIDE DEF d
    <3> QED BY <2>3, MonthUnique
  <2>5. DayOfMonth(d) = d - s + 1
    BY <2>4 DEF DayOfMonth
  <2>6. d - s + 1 = day
    BY <1>1, <2>1
  <2>7. MatchesMonth(rule, d)
    BY <1>2, <2>2, <2>5, <2>6 DEF MatchesMonth
  <2> QED BY <2>3, <2>4, <2>7
<1>3. CASE rule.monthDay = {}
  <2> DEFINE w == Weekday(x)
             InMonth(d) == FallsIn(d, y, m, w)
  <2>1. /\ w \in rule.weekday /\ w \in 0..6
        /\ \/ -1 \in rule.nth
           \/ \E n \in rule.nth : n \in 1..5 /\ (n = 5 => 29 <= DayOfMonth(x))
    BY <1>3, NamedWeekday DEF Searchable
  <2>2. ASSUME NEW d, InMonth(d),
               \/ \E n \in rule.nth : DayOfMonth(d) \in 7 * (n - 1) + 1..7 * n
               \/ -1 \in rule.nth /\ MonthOf(d + 7) # MonthOf(d)
        PROVE  MatchesMonth(rule, d)
    BY <1>3, <2>1, <2>2 DEF MatchesMonth, FallsIn
  <2>3. /\ \A n \in 1..4 : \E d : InMonth(d) /\ DayOfMonth(d) \in 7 * (n - 1) + 1..7 * n
        /\ \E d : InMonth(d) /\ MonthOf(d + 7) # MonthOf(d)
        /\ MonthStart(y, m) + 28 + ((w - MonthStart(y, m)) % 7) < MonthStart(y, m + 1) =>
             \E d : InMonth(d) /\ DayOfMonth(d) \in 7 * (5 - 1) + 1..7 * 5
    <3> HIDE DEF w
    <3> QED BY <2>1, WeekdaysOfMonth
  <2>4. CASE -1 \in rule.nth
    BY <2>2, <2>3, <2>4 DEF FallsIn
  <2>5. CASE \E n \in rule.nth : n \in 1..5 /\ (n = 5 => 29 <= DayOfMonth(x))
    <3>1. PICK n \in rule.nth : n \in 1..5 /\ (n = 5 => 29 <= DayOfMonth(x))
      BY <2>5
    <3>2. n \in 1..4 \/ n = 5
      BY <3>1
    <3>3. n = 5 => \E d : InMonth(d) /\ DayOfMonth(d) \in 7 * (5 - 1) + 1..7 * 5
      BY <1>3, <2>3, <3>1 DEF RoomIn
    <3>4. \E d : InMonth(d) /\ DayOfMonth(d) \in 7 * (n - 1) + 1..7 * n
      <4> HIDE DEF InMonth, FallsIn
      <4> QED BY <2>3, <3>2, <3>3
    <3> QED BY <2>2, <3>4 DEF FallsIn
  <2> QED BY <2>1, <2>4, <2>5
<1> QED BY <1>2, <1>3

(* A monthly rule that has an event at all has one in the next months, and *)
(* a yearly one in the next years: 600 and 300 are far enough.             *)
LEMMA MonthlyRecurs ==
  ASSUME NEW rule, Searchable(rule), NEW x \in Nat, MatchesMonth(rule, x), NEW c \in Nat
  PROVE  \E d \in Nat : c <= d /\ MonthNumber(d) <= MonthNumber(c) + 599 /\ MatchesMonth(rule, d)
<1>1. PICK y \in Nat : y = YearOf(c) + 1
  BY YearOfDay
<1>2. YearOf(c) \in Nat \ {0} /\ y \in Nat \ {0} /\ MonthOf(c) \in 1..12 /\ Weekday(x) \in 0..6
  BY <1>1, YearOfDay, MonthOfDay DEF Weekday
<1>3. \E m \in 1..12 : RoomIn(rule, x, y, m)
  <2>1. CASE rule.monthDay = {}
    BY <1>2, <2>1, FifthOfYear DEF RoomIn
  <2>2. CASE rule.monthDay # {}
    <3>1. YearStart(y) \in Int
      BY <1>2, YearStep
    <3>2. MonthStart(y, 1) = YearStart(y) /\ MonthStart(y, 1 + 1) = YearStart(y) + 31
      BY <3>1, DaysBeforeMonths DEF MonthStart
    <3>3. DayOfMonth(x) \in Int /\ DayOfMonth(x) <= 31
      <4> DEFINE s == MonthStart(YearOf(x), MonthOf(x))
                 t == MonthStart(YearOf(x), MonthOf(x) + 1)
      <4>1. s \in Nat /\ t \in Nat /\ x < t /\ t <= s + 31
        BY YearOfDay, MonthOfDay, MonthBegins
      <4>2. DayOfMonth(x) = x - s + 1
        BY DEF DayOfMonth
      <4> HIDE DEF s, t
      <4> QED BY <4>1, <4>2
    <3>4. 1 \in 1..12 /\ MonthStart(y, 1) + DayOfMonth(x) - 1 < MonthStart(y, 1 + 1)
      BY <3>1, <3>2, <3>3
    <3> QED BY <2>2, <3>4 DEF RoomIn
  <2> QED BY <2>1, <2>2
<1>4. PICK m \in 1..12 : RoomIn(rule, x, y, m)
  BY <1>3
<1>5. PICK d \in Nat : YearOf(d) = y /\ MonthOf(d) = m /\ MatchesMonth(rule, d)
  BY <1>2, <1>4, MatchInMonth
<1>6. c <= d
  <2>1. YearOf(c) < YearOf(d)
    BY <1>1, <1>2, <1>5
  <2> QED BY <2>1, LaterYear
<1>7. MonthNumber(d) <= MonthNumber(c) + 599
  BY <1>1, <1>2, <1>5 DEF MonthNumber, NumberOf
<1> QED BY <1>5, <1>6, <1>7

(* A yearly rule that has a day at all has one again within 300 years.     *)
LEMMA YearlyRecurs ==
  ASSUME NEW rule, Searchable(rule), NEW x \in Nat, OfYear(rule, x), NEW c \in Nat
  PROVE  \E d \in Nat : c <= d /\ YearOf(d) <= YearOf(c) + 299 /\ OfYear(rule, d)
<1> DEFINE m == MonthOf(x)
           w == Weekday(x)
           z == YearOf(x)
<1>1. /\ YearOf(c) \in Nat \ {0} /\ m \in 1..12 /\ w \in 0..6 /\ z \in Nat \ {0}
      /\ m \in rule.month /\ MatchesMonth(rule, x)
  BY YearOfDay, MonthOfDay DEF Weekday, OfYear
<1>2. DayOfMonth(x) = x - MonthStart(z, m) + 1 /\ x < MonthStart(z, m + 1)
  BY MonthOfDay DEF DayOfMonth
<1> HIDE DEF m, w, z
<1>3. PICK y \in Nat : /\ YearOf(c) < y /\ y <= YearOf(c) + 128 /\ Leap(y)
                       /\ (w - MonthStart(y, m)) % 7 = 0
  BY <1>1, LeapYearsAhead
<1>4. y \in Nat \ {0}
  BY <1>1, <1>3
<1>5. /\ MonthStart(z, m + 1) - MonthStart(z, m) <= MonthStart(y, m + 1) - MonthStart(y, m)
      /\ MonthStart(y, m) + 29 <= MonthStart(y, m + 1)
      /\ MonthStart(y, m) \in Nat /\ MonthStart(y, m + 1) \in Nat
      /\ MonthStart(z, m) \in Nat /\ MonthStart(z, m + 1) \in Nat
  BY <1>1, <1>3, <1>4, LeapMonths, MonthBegins
<1>6. MonthStart(y, m) + DayOfMonth(x) - 1 < MonthStart(y, m + 1)
  BY <1>2, <1>5
<1>7. MonthStart(y, m) + 28 + ((w - MonthStart(y, m)) % 7) < MonthStart(y, m + 1)
  BY <1>3, <1>5
<1>8. PICK d \in Nat : YearOf(d) = y /\ MonthOf(d) = m /\ MatchesMonth(rule, d)
  <2>1. RoomIn(rule, x, y, m)
    BY <1>6, <1>7 DEF RoomIn, w
  <2> QED BY <1>1, <1>4, <2>1, MatchInMonth
<1>9. c <= d
  BY <1>3, <1>8, LaterYear
<1>10. YearOf(d) <= YearOf(c) + 299
  BY <1>1, <1>3, <1>8
<1> QED BY <1>1, <1>8, <1>9, <1>10 DEF OfYear

(* Every week has every weekday, so the first day of a set of weekdays is  *)
(* one of seven.                                                           *)
LEMMA FirstOfWeek ==
  ASSUME NEW W, NEW c \in Nat, NEW d \in Nat, c <= d, Weekday(d) \in W
  PROVE  \E f \in c..c + 6 : /\ Weekday(f) \in W
                             /\ \A e \in c..f - 1 : Weekday(e) \notin W
<1>1. \E i \in 0..6 : Weekday(c + i) = Weekday(d)
  <2>1. d % 7 \in 0..6 /\ c % 7 \in 0..6
    OBVIOUS
  <2>2. CASE d % 7 >= c % 7
    <3>1. (c + ((d % 7) - (c % 7))) % 7 = d % 7 /\ (d % 7) - (c % 7) \in 0..6
      BY <2>1, <2>2
    <3> QED BY <3>1 DEF Weekday
  <2>3. CASE d % 7 < c % 7
    <3> DEFINE i == (d % 7) - (c % 7) + 7
    <3>1. i \in 0..6 /\ (d % 7) + 7 = (c % 7) + i
      BY <2>1, <2>3
    <3>2. \A a, b, r \in 0..6 : r + 7 = a + b /\ c % 7 = a => (c + b) % 7 = r
      OBVIOUS
    <3> HIDE DEF i
    <3>3. (c + i) % 7 = d % 7
      BY <2>1, <3>1, <3>2
    <3> QED BY <3>1, <3>3 DEF Weekday
  <2> QED BY <2>1, <2>2, <2>3
<1> DEFINE H(i) == Weekday(c + i) \in W
<1>2. H(0) \/ H(1) \/ H(2) \/ H(3) \/ H(4) \/ H(5) \/ H(6)
  <2>1. PICK i \in 0..6 : H(i)
    BY <1>1
  <2>2. i = 0 \/ i = 1 \/ i = 2 \/ i = 3 \/ i = 4 \/ i = 5 \/ i = 6
    OBVIOUS
  <2> HIDE DEF H
  <2> QED BY <2>1, <2>2
<1>3. \E i \in 0..6 : H(i) /\ \A j \in 0..i - 1 : ~H(j)
  <2>1. /\ 0 \in 0..6 /\ 1 \in 0..6 /\ 2 \in 0..6 /\ 3 \in 0..6 /\ 4 \in 0..6 /\ 5 \in 0..6 /\ 6 \in 0..6
        /\ \A j \in 0..0 - 1 : FALSE
        /\ \A j \in 0..1 - 1 : j = 0
        /\ \A j \in 0..2 - 1 : j = 0 \/ j = 1
        /\ \A j \in 0..3 - 1 : j = 0 \/ j = 1 \/ j = 2
        /\ \A j \in 0..4 - 1 : j = 0 \/ j = 1 \/ j = 2 \/ j = 3
        /\ \A j \in 0..5 - 1 : j = 0 \/ j = 1 \/ j = 2 \/ j = 3 \/ j = 4
        /\ \A j \in 0..6 - 1 : j = 0 \/ j = 1 \/ j = 2 \/ j = 3 \/ j = 4 \/ j = 5
    OBVIOUS
  <2> HIDE DEF H
  <2> QED BY <1>2, <2>1
<1>4. PICK i \in 0..6 : H(i) /\ \A j \in 0..i - 1 : ~H(j)
  BY <1>3
<1>5. c + i \in c..c + 6 /\ \A e \in c..c + i - 1 : e - c \in 0..i - 1 /\ c + (e - c) = e
  OBVIOUS
<1>6. \A e \in c..c + i - 1 : Weekday(e) \notin W
  BY <1>4, <1>5
<1> QED BY <1>4, <1>5, <1>6

--------------------------------------------------------------------------------
(* What a search returns is the first day that the rule means.             *)

(* 400 days reach into the year after next at most.                        *)
LEMMA YearsWithin ==
  ASSUME NEW c \in Nat, NEW d \in c..c + 400
  PROVE  YearOf(d) <= YearOf(c) + 2
<1> DEFINE y == YearOf(c)
           z == YearOf(d)
<1>1. y \in Nat /\ z \in Nat /\ c < YearStart(y + 1) /\ YearStart(z) <= d
  BY YearOfDay
<1> HIDE DEF y, z
<1> SUFFICES ASSUME y + 3 <= z PROVE FALSE
  BY <1>1 DEF y, z
<1>2. 365 * (z - (y + 1)) <= YearStart(z) - YearStart(y + 1)
  BY <1>1, YearsAscend
<1>3. YearStart(z) \in Int /\ YearStart(y + 1) \in Int
  BY <1>1, YearStep
<1> QED BY <1>1, <1>2, <1>3

(* The day is one of the rule's, and its interval does not skip it, counted *)
(* from day c.                                                             *)
Fits(rule, c, d) == TakesPlace(rule, d) /\ UnitsBetween(rule, c, d) % rule.interval = 0

(* A rule that skips no week, month or year.                               *)
Plain(rule) == rule.frequency \in {"weekly", "monthly", "yearly"} => rule.interval <= 1

(* The defect of the code: weeks are counted from hours, and the clocks go *)
(* forward in between.                                                     *)
ShortWeek(rule, c, d) ==
  rule.frequency = "weekly" /\ rule.interval > 1 /\ CrossesSpring(c, d)

(* What a search that begins on day c may return.                          *)
Right(rule, c, found) ==
  \/ /\ found = {}
     /\ \A d \in c..c + 400 : ~Fits(rule, c, d)
     /\ Plain(rule) => \A d \in Nat : c <= d => ~Fits(rule, c, d)
  \/ \E f \in Nat : /\ found = {f} /\ c <= f
                    /\ \/ ShortWeek(rule, c, f)
                       \/ Fits(rule, c, f) /\ \A e \in c..f - 1 : ~Fits(rule, c, e)

(* The three searches are right: the one by weeks for intervals that are   *)
(* shorter than summer time,                                               *)
LEMMA WeeklyRight ==
  ASSUME NEW rule, rule.frequency = "weekly", rule.interval \in 1..29, NEW c \in Nat
  PROVE  Right(rule, c, nextWeekly(rule, c))
<1> DEFINE i == rule.interval
<1>1. \A d : Fits(rule, c, d) <=> Weekday(d) \in Weekdays(rule) /\ WeeksFrom(c, d) % i = 0
  BY DEF Fits, TakesPlace, UnitsBetween, Weekdays, WeeksFrom
<1>2. \/ nextWeekly(rule, c) = {} /\ \A d \in c..c + 400 : ~Fits(rule, c, d)
      \/ \E f \in Nat :
           /\ nextWeekly(rule, c) = {f} /\ c <= f
           /\ \/ i # 1 /\ CrossesSpring(c, f)
              \/ Fits(rule, c, f) /\ \A e \in c..f - 1 : ~Fits(rule, c, e)
  BY <1>1, WeeklyIsFirst
<1>3. \A f : i # 1 /\ CrossesSpring(c, f) <=> ShortWeek(rule, c, f)
  BY DEF ShortWeek
<1>4. ASSUME Plain(rule), \A d \in c..c + 400 : ~Fits(rule, c, d), NEW d \in Nat, c <= d
      PROVE  ~Fits(rule, c, d)
  <2>1. i = 1
    BY <1>4 DEF Plain
  <2>2. \A e \in Nat : c <= e => WeeksFrom(c, e) \in Nat
    BY WeeksCount
  <2>3. \A n \in Nat : n % 1 = 0
    OBVIOUS
  <2>4. \A e \in Nat : c <= e => (Fits(rule, c, e) <=> Weekday(e) \in Weekdays(rule))
    BY <1>1, <2>1, <2>2, <2>3
  <2>5. \A e \in c..c + 6 : e \in c..c + 400 /\ e \in Nat /\ c <= e
    OBVIOUS
  <2>6. \A e \in c..c + 6 : Weekday(e) \notin Weekdays(rule)
    BY <1>4, <2>4, <2>5
  <2> QED BY <1>4, <2>4, <2>6, FirstOfWeek
<1> QED BY <1>2, <1>3, <1>4 DEF Right

(* by months,                                                              *)
LEMMA MonthlyRight ==
  ASSUME NEW rule, rule.frequency = "monthly", rule.interval \in Nat \ {0}, Searchable(rule),
         NEW c \in Nat
  PROVE  Right(rule, c, nextMonthly(rule, c))
<1> DEFINE i == rule.interval
           On(d) == MatchesMonth(rule, d)
           N(d) == MonthNumber(d)
<1>1. \A d \in Nat : N(d) \in Nat /\ YearOf(d) \in Nat /\ MonthOf(d) \in 1..12
  BY YearOfDay, MonthOfDay DEF MonthNumber, NumberOf
<1>2. ASSUME NEW d \in Nat PROVE Fits(rule, c, d) <=> On(d) /\ (N(d) - N(c)) % i = 0
  <2>1. UnitsBetween(rule, c, d) = 12 * (YearOf(d) - YearOf(c)) + MonthOf(d) - MonthOf(c)
    BY DEF UnitsBetween
  <2>2. 12 * (YearOf(d) - YearOf(c)) + MonthOf(d) - MonthOf(c) = N(d) - N(c)
    BY <1>1 DEF MonthNumber, NumberOf
  <2>3. TakesPlace(rule, d) <=> On(d)
    BY DEF TakesPlace
  <2> QED BY <2>1, <2>2, <2>3 DEF Fits
<1>3. \/ /\ nextMonthly(rule, c) = {}
         /\ \A d \in Nat : c <= d /\ N(d) <= N(c) + 599 => ~(On(d) /\ (N(d) - N(c)) % i = 0)
      \/ \E f \in Nat : /\ nextMonthly(rule, c) = {f} /\ c <= f
                        /\ On(f) /\ (N(f) - N(c)) % i = 0
                        /\ \A e \in c..f - 1 : ~(On(e) /\ (N(e) - N(c)) % i = 0)
  BY NextMonthlyIsFirst
<1> HIDE DEF On, N, i
<1>4. CASE /\ nextMonthly(rule, c) = {}
           /\ \A d \in Nat : c <= d /\ N(d) <= N(c) + 599 => ~(On(d) /\ (N(d) - N(c)) % i = 0)
  <2>1. ASSUME NEW d \in c..c + 400 PROVE ~Fits(rule, c, d)
    <3>1. d \in Nat /\ c <= d
      OBVIOUS
    <3>2. YearOf(d) <= YearOf(c) + 2
      BY YearsWithin
    <3>3. N(d) <= N(c) + 599
      <4>1. /\ YearOf(d) \in Nat /\ YearOf(c) \in Nat
            /\ MonthOf(d) \in 1..12 /\ MonthOf(c) \in 1..12
        BY <1>1, <3>1
      <4>2. N(d) = 12 * YearOf(d) + MonthOf(d) - 1 /\ N(c) = 12 * YearOf(c) + MonthOf(c) - 1
        BY DEF N, MonthNumber, NumberOf
      <4> QED BY <3>2, <4>1, <4>2
    <3> QED BY <1>2, <1>4, <3>1, <3>3
  <2>2. ASSUME Plain(rule), NEW d \in Nat, c <= d, Fits(rule, c, d) PROVE FALSE
    <3>1. i = 1
      BY <2>2 DEF Plain, i
    <3>2. On(d)
      BY <1>2, <2>2
    <3>3. PICK e \in Nat : c <= e /\ N(e) <= N(c) + 599 /\ On(e)
      BY <3>2, MonthlyRecurs DEF On, N
    <3>4. N(e) - N(c) \in Int /\ (N(e) - N(c)) % 1 = 0
      BY <1>1
    <3> QED BY <1>4, <3>1, <3>3, <3>4
  <2> QED BY <1>4, <2>1, <2>2 DEF Right
<1>5. CASE \E f \in Nat : /\ nextMonthly(rule, c) = {f} /\ c <= f
                          /\ On(f) /\ (N(f) - N(c)) % i = 0
                          /\ \A e \in c..f - 1 : ~(On(e) /\ (N(e) - N(c)) % i = 0)
  <2>1. \A f \in Nat : \A e \in c..f - 1 : e \in Nat
    OBVIOUS
  <2> QED BY <1>2, <1>5, <2>1 DEF Right
<1> QED BY <1>3, <1>4, <1>5

(* and by years.                                                           *)
LEMMA YearlyRight ==
  ASSUME NEW rule, rule.frequency = "yearly", rule.interval \in Nat \ {0}, Searchable(rule),
         NEW c \in Nat
  PROVE  Right(rule, c, nextYearly(rule, c))
<1> DEFINE i == rule.interval
           On(d) == OfYear(rule, d)
           N(d) == YearOf(d)
<1>1. \A d \in Nat : N(d) \in Nat
  BY YearOfDay
<1>2. ASSUME NEW d \in Nat PROVE Fits(rule, c, d) <=> On(d) /\ (N(d) - N(c)) % i = 0
  BY DEF Fits, TakesPlace, UnitsBetween, OfYear
<1>3. \/ /\ nextYearly(rule, c) = {}
         /\ \A d \in Nat : c <= d /\ N(d) <= N(c) + 299 => ~(On(d) /\ (N(d) - N(c)) % i = 0)
      \/ \E f \in Nat : /\ nextYearly(rule, c) = {f} /\ c <= f
                        /\ On(f) /\ (N(f) - N(c)) % i = 0
                        /\ \A e \in c..f - 1 : ~(On(e) /\ (N(e) - N(c)) % i = 0)
  BY NextYearlyIsFirst
<1> HIDE DEF On, N, i
<1>4. CASE /\ nextYearly(rule, c) = {}
           /\ \A d \in Nat : c <= d /\ N(d) <= N(c) + 299 => ~(On(d) /\ (N(d) - N(c)) % i = 0)
  <2>1. ASSUME NEW d \in c..c + 400 PROVE ~Fits(rule, c, d)
    <3>1. d \in Nat /\ c <= d
      OBVIOUS
    <3>2. N(d) <= N(c) + 2
      BY YearsWithin DEF N
    <3>3. N(d) <= N(c) + 299
      BY <1>1, <3>1, <3>2
    <3> QED BY <1>2, <1>4, <3>1, <3>3
  <2>2. ASSUME Plain(rule), NEW d \in Nat, c <= d, Fits(rule, c, d) PROVE FALSE
    <3>1. i = 1
      BY <2>2 DEF Plain, i
    <3>2. On(d)
      BY <1>2, <2>2
    <3>3. PICK e \in Nat : c <= e /\ N(e) <= N(c) + 299 /\ On(e)
      BY <3>2, YearlyRecurs DEF On, N
    <3>4. N(e) - N(c) \in Int /\ (N(e) - N(c)) % 1 = 0
      BY <1>1
    <3> QED BY <1>4, <3>1, <3>3, <3>4
  <2> QED BY <1>4, <2>1, <2>2 DEF Right
<1>5. CASE \E f \in Nat : /\ nextYearly(rule, c) = {f} /\ c <= f
                          /\ On(f) /\ (N(f) - N(c)) % i = 0
                          /\ \A e \in c..f - 1 : ~(On(e) /\ (N(e) - N(c)) % i = 0)
  <2>1. \A f \in Nat : \A e \in c..f - 1 : e \in Nat
    OBVIOUS
  <2> QED BY <1>2, <1>5, <2>1 DEF Right
<1> QED BY <1>3, <1>4, <1>5

(* What ParseRule makes of a rule.                                         *)
LEMMA Parsed ==
  ASSUME NEW raw, WellFormed(raw), Counted(raw), NEW rule \in ParseRule(raw)
  PROVE  /\ ParseRule(raw) = {rule}
         /\ rule.frequency = raw.frequency
         /\ rule.interval \in Nat \ {0}
         /\ rule.interval = (IF raw.interval <= 0 THEN 1 ELSE raw.interval)
         /\ rule.frequency = "weekly" => rule.interval \in 1..29
         /\ rule.date = raw.date
         /\ Searchable(rule)
<1>1. /\ rule = [raw EXCEPT !.interval = IF raw.interval <= 0 THEN 1 ELSE raw.interval]
      /\ ParseRule(raw) = {rule}
  BY DEF ParseRule
<1>2. /\ rule.frequency = raw.frequency /\ rule.date = raw.date /\ rule.monthDay = raw.monthDay
      /\ rule.nth = raw.nth /\ rule.weekday = raw.weekday /\ rule.month = raw.month
      /\ rule.interval = (IF raw.interval <= 0 THEN 1 ELSE raw.interval)
  BY <1>1 DEF WellFormed, RawRule
<1>3. raw.interval \in Int /\ raw.monthDay \subseteq Int /\ raw.nth \subseteq Int
  BY DEF WellFormed, RawRule
<1>4. rule.interval \in Nat \ {0}
  BY <1>2, <1>3
<1>5. rule.frequency = "weekly" => rule.interval \in 1..29
  BY <1>2, <1>3 DEF Counted
<1>6. Searchable(rule)
  BY <1>2, <1>3 DEF Searchable, WellFormed, RawRule
<1> QED BY <1>1, <1>2, <1>4, <1>5, <1>6

(* So is the one that NextOccurrence chooses.                              *)
LEMMA NextIsRight ==
  ASSUME NEW raw, WellFormed(raw), Counted(raw), NEW rule \in ParseRule(raw), NEW c \in Nat
  PROVE  Right(rule, c, NextOccurrence(rule, c))
<1>1. /\ rule.interval \in Nat \ {0} /\ Searchable(rule) /\ rule.date = raw.date
      /\ rule.frequency = "weekly" => rule.interval \in 1..29
  BY Parsed
<1>2. CASE rule.frequency = "weekly"
  <2>1. NextOccurrence(rule, c) = nextWeekly(rule, c)
    BY <1>2 DEF NextOccurrence
  <2> QED BY <1>1, <1>2, <2>1, WeeklyRight
<1>3. CASE rule.frequency = "monthly"
  <2>1. NextOccurrence(rule, c) = nextMonthly(rule, c)
    BY <1>3 DEF NextOccurrence
  <2> QED BY <1>1, <1>3, <2>1, MonthlyRight
<1>4. CASE rule.frequency = "yearly"
  <2>1. NextOccurrence(rule, c) = nextYearly(rule, c)
    BY <1>4 DEF NextOccurrence
  <2> QED BY <1>1, <1>4, <2>1, YearlyRight
<1>5. CASE rule.frequency = "once"
  <2>1. NextOccurrence(rule, c) = {d \in rule.date : d >= c}
    BY <1>5 DEF NextOccurrence
  <2>2. \A d : Fits(rule, c, d) <=> d \in rule.date
    <3>1. \A d : UnitsBetween(rule, c, d) = 0 /\ (TakesPlace(rule, d) <=> d \in rule.date)
      BY <1>5 DEF UnitsBetween, TakesPlace
    <3>2. \A n \in Nat \ {0} : 0 % n = 0
      OBVIOUS
    <3> QED BY <1>1, <3>1, <3>2 DEF Fits
  <2>3. rule.date \subseteq Nat /\ \A d, e \in rule.date : d = e
    BY <1>1 DEF WellFormed, RawRule, AtMostOne
  <2>4. CASE \E d \in rule.date : d >= c
    <3>1. PICK f \in rule.date : f >= c
      BY <2>4
    <3>2. NextOccurrence(rule, c) = {f} /\ f \in Nat /\ c <= f
      BY <2>1, <2>3, <3>1
    <3>3. \A e \in c..f - 1 : e # f
      BY <3>2
    <3> QED BY <2>2, <2>3, <3>1, <3>2, <3>3 DEF Right
  <2>5. CASE ~\E d \in rule.date : d >= c
    <3>1. NextOccurrence(rule, c) = {}
      BY <2>1, <2>5
    <3>2. \A d \in Nat : c <= d => ~Fits(rule, c, d)
      BY <2>2, <2>5
    <3>3. \A d \in c..c + 400 : d \in Nat /\ c <= d
      OBVIOUS
    <3> QED BY <3>1, <3>2, <3>3 DEF Right
  <2> QED BY <2>4, <2>5
<1>6. CASE rule.frequency \notin {"once", "weekly", "monthly", "yearly"}
  <2>1. NextOccurrence(rule, c) = {}
    BY <1>6 DEF NextOccurrence
  <2>2. \A d : ~Fits(rule, c, d)
    BY <1>6 DEF Fits, TakesPlace
  <2> QED BY <2>1, <2>2 DEF Right
<1> QED BY <1>2, <1>3, <1>4, <1>5, <1>6

(* What computeOccurrence returns: what the search found, or NoDate.       *)
LEMMA Computed ==
  ASSUME NEW raw, WellFormed(raw), Counted(raw), NEW rule \in ParseRule(raw)
  PROVE  \A c : /\ NextOccurrence(rule, c) = {} => computeOccurrence(raw, c) = NoDate
                /\ \A f : NextOccurrence(rule, c) = {f} => computeOccurrence(raw, c) = f
<1> SUFFICES ASSUME NEW c
             PROVE  /\ NextOccurrence(rule, c) = {} => computeOccurrence(raw, c) = NoDate
                    /\ \A f : NextOccurrence(rule, c) = {f} => computeOccurrence(raw, c) = f
  OBVIOUS
<1> DEFINE found == NextOccurrence(rule, c)
<1>1. ParseRule(raw) = {rule}
  BY Parsed
<1>2. computeOccurrence(raw, c) = IF found = {} THEN NoDate ELSE CHOOSE d \in found : TRUE
  <2>1. UNION {NextOccurrence(r, c) : r \in ParseRule(raw)} = found
    BY <1>1
  <2>2. computeOccurrence(raw, c) =
          IF UNION {NextOccurrence(r, c) : r \in ParseRule(raw)} = {} THEN NoDate
          ELSE CHOOSE d \in UNION {NextOccurrence(r, c) : r \in ParseRule(raw)} : TRUE
    BY Zenon DEF computeOccurrence
  <2> HIDE DEF found
  <2> QED BY <2>1, <2>2, Zenon
<1> HIDE DEF found
<1>3. \A f : found = {f} => (CHOOSE d \in found : TRUE) = f
  OBVIOUS
<1> QED BY <1>2, <1>3 DEF found

(* The calculation agrees with the meaning of the rule, for every rule and *)
(* every day, where NextIsFirst looks at samples: leap days, months that   *)
(* are too short, fifth weekdays and the changes of the clocks included.   *)
THEOREM OccurrencesAreFirst ==
  ASSUME NEW raw, WellFormed(raw), Counted(raw), NEW c \in Nat, NoDate < c,
         NEW rule \in ParseRule(raw)
  PROVE  \/ IsFirst(rule, c, computeOccurrence(raw, c))
         \/ ShortWeek(rule, c, computeOccurrence(raw, c))
<1> DEFINE found == NextOccurrence(rule, c)
           date == computeOccurrence(raw, c)
<1>1. Right(rule, c, found)
  BY NextIsRight
<1>2. found = {} => date = NoDate
  BY Computed
<1>3. \A f : found = {f} => date = f
  BY Computed
<1> HIDE DEF found, date
<1>4. CASE found = {} /\ \A d \in c..c + 400 : ~Fits(rule, c, d)
  BY <1>2, <1>4 DEF IsFirst, Fits, date
<1>5. CASE \E f \in Nat : /\ found = {f} /\ c <= f
                          /\ \/ ShortWeek(rule, c, f)
                             \/ Fits(rule, c, f) /\ \A e \in c..f - 1 : ~Fits(rule, c, e)
  <2>1. /\ date \in Nat /\ c <= date
        /\ \/ ShortWeek(rule, c, date)
           \/ Fits(rule, c, date) /\ \A e \in c..date - 1 : ~Fits(rule, c, e)
    BY <1>3, <1>5
  <2>2. date # NoDate /\ date >= c
    BY <2>1 DEF NoDate
  <2> QED BY <2>1, <2>2 DEF IsFirst, Fits, date
<1> QED BY <1>1, <1>4, <1>5 DEF Right

(* A rule that skips nothing has its event on a set of days, and what the  *)
(* code computes is the first of them from today on.                       *)
LEMMA PlainIsNext ==
  ASSUME NEW raw, WellFormed(raw), Plain(raw)
  PROVE  \E T \in SUBSET Nat : \A c \in Nat : NoDate < c =>
           \/ /\ computeOccurrence(raw, c) = NoDate
              /\ \A d \in Nat : c <= d => d \notin T
           \/ /\ computeOccurrence(raw, c) \in Nat
              /\ c <= computeOccurrence(raw, c)
              /\ computeOccurrence(raw, c) \in T
              /\ \A e \in c..computeOccurrence(raw, c) - 1 : e \notin T
<1> DEFINE Given(T, c, f) == \/ f = NoDate /\ \A d \in Nat : c <= d => d \notin T
                             \/ /\ f \in Nat /\ c <= f /\ f \in T
                                /\ \A e \in c..f - 1 : e \notin T
<1>1. CASE raw.frequency = ""
  <2>1. ParseRule(raw) = {}
    BY <1>1 DEF ParseRule
  <2>2. \A c : computeOccurrence(raw, c) = NoDate
    <3>1. \A c : UNION {NextOccurrence(r, c) : r \in ParseRule(raw)} = {}
      BY <2>1
    <3>2. \A c : computeOccurrence(raw, c) =
            IF UNION {NextOccurrence(r, c) : r \in ParseRule(raw)} = {} THEN NoDate
            ELSE CHOOSE d \in UNION {NextOccurrence(r, c) : r \in ParseRule(raw)} : TRUE
      BY Zenon DEF computeOccurrence
    <3> QED BY <3>1, <3>2, Zenon
  <2> WITNESS {} \in SUBSET Nat
  <2> QED BY <2>2
<1>2. CASE raw.frequency # ""
  <2>1. PICK rule : ParseRule(raw) = {rule}
    BY <1>2 DEF ParseRule
  <2>2. Counted(raw)
    BY DEF Counted, Plain, WellFormed, RawRule
  <2>3. /\ rule \in ParseRule(raw) /\ rule.frequency = raw.frequency /\ rule.interval \in Nat \ {0}
        /\ rule.interval = (IF raw.interval <= 0 THEN 1 ELSE raw.interval)
    BY <2>1, <2>2, Parsed
  <2>4. rule.frequency \in {"weekly", "monthly", "yearly"} => rule.interval = 1
    BY <2>3 DEF Plain, WellFormed, RawRule
  <2>5. Plain(rule)
    BY <2>4 DEF Plain
  <2> DEFINE T == {d \in Nat : TakesPlace(rule, d)}
  <2>6. ASSUME NEW c \in Nat, NEW d \in Nat PROVE Fits(rule, c, d) <=> d \in T
    <3>1. UnitsBetween(rule, c, d) % rule.interval = 0
      <4>1. /\ YearOf(c) \in Int /\ YearOf(d) \in Int /\ MonthOf(c) \in Int /\ MonthOf(d) \in Int
            /\ (monday(d) - monday(c)) \div 7 \in Int
        <5>1. monday(d) \in Int /\ monday(c) \in Int
          BY DEF monday, Weekday
        <5> QED BY <5>1, YearOfDay, MonthOfDay
      <4>2. CASE rule.frequency \in {"weekly", "monthly", "yearly"}
        <5>1. UnitsBetween(rule, c, d) \in Int
          BY <4>1, <4>2 DEF UnitsBetween
        <5>2. \A n \in Int : n % 1 = 0
          OBVIOUS
        <5> QED BY <2>4, <4>2, <5>1, <5>2
      <4>3. CASE rule.frequency \notin {"weekly", "monthly", "yearly"}
        <5>1. UnitsBetween(rule, c, d) = 0
          BY <4>3 DEF UnitsBetween
        <5>2. \A n \in Nat \ {0} : 0 % n = 0
          OBVIOUS
        <5> QED BY <2>3, <5>1, <5>2
      <4> QED BY <4>2, <4>3
    <3> QED BY <3>1 DEF Fits
  <2> HIDE DEF T
  <2>7. ASSUME NEW c \in Nat, NoDate < c PROVE Given(T, c, computeOccurrence(raw, c))
    <3> DEFINE date == computeOccurrence(raw, c)
    <3>1. Right(rule, c, NextOccurrence(rule, c))
      BY <2>2, <2>3, NextIsRight
    <3>2. \/ date = NoDate /\ \A d \in Nat : c <= d => ~Fits(rule, c, d)
          \/ \E f \in Nat : /\ date = f /\ c <= f
                            /\ \/ ShortWeek(rule, c, f)
                               \/ Fits(rule, c, f) /\ \A e \in c..f - 1 : ~Fits(rule, c, e)
      BY <2>2, <2>3, <2>5, <3>1, Computed DEF Right
    <3>3. \A f : ~ShortWeek(rule, c, f)
      BY <2>4 DEF ShortWeek
    <3> HIDE DEF date
    <3>4. CASE date = NoDate /\ \A d \in Nat : c <= d => ~Fits(rule, c, d)
      BY <2>6, <3>4 DEF date
    <3>5. CASE \E f \in Nat : /\ date = f /\ c <= f
                              /\ Fits(rule, c, f) /\ \A e \in c..f - 1 : ~Fits(rule, c, e)
      <4>1. \A e \in c..date - 1 : e \in Nat
        BY <3>5
      <4> QED BY <2>6, <3>5, <4>1 DEF date
    <3> QED BY <3>2, <3>3, <3>4, <3>5
  <2>8. T \in SUBSET Nat
    BY DEF T
  <2> QED BY <2>7, <2>8
<1> QED BY <1>1, <1>2

(* So the property that a run checks on samples holds for any well-formed  *)
(* rules and days: computeOccurrence gives the first day the rule means,   *)
(* but for the weeks counted from hours across the change of the clocks.   *)
THEOREM NextIsFirstHolds == Sampled => (Spec => []NextIsFirst)
<1>1. ASSUME Sampled, NEW raw \in SampleRule, NEW rule \in ParseRule(raw), NEW d \in SampleDay
      PROVE  \/ IsFirst(rule, d, computeOccurrence(raw, d))
             \/ ShortWeek(rule, d, computeOccurrence(raw, d))
  <2>1. WellFormed(raw) /\ Counted(raw) /\ d \in Nat /\ NoDate < d
    BY <1>1 DEF Sampled, NoDate
  <2> QED BY <2>1, OccurrencesAreFirst
<1>2. Sampled => NextIsFirst
  BY <1>1 DEF NextIsFirst, Miscalculated, ShortWeek
<1>3. Sampled => []Sampled
  <2>1. Sampled => Sampled'
    BY DEF Sampled, NoDate
  <2> QED BY <2>1, PTL
<1> QED BY <1>2, <1>3, PTL

(* Every rule of the model skips nothing, and its table is what is         *)
(* calculated.                                                             *)
PlainRules ==
  \E raw \in [Rule -> RawRule] : \A r \in Rule :
    /\ WellFormed(raw[r]) /\ Plain(raw[r])
    /\ \A d \in Days : Occurrence[r][d] = computeOccurrence(raw[r], d)

(* What EventsAreSound asks of the rules is true of all that skip no week, *)
(* month or year, by the code's own calculation: no table is assumed.      *)
THEOREM PlainRulesAreSteady == PlainRules => Steady
<1> SUFFICES ASSUME PlainRules, NEW r \in Rule, NEW d \in Days
             PROVE  IF Occurrence[r][d] = NoDate
                    THEN \A e \in d..LastDay : Occurrence[r][e] = NoDate
                    ELSE /\ d <= Occurrence[r][d]
                         /\ \A e \in d..LastDay : e <= Occurrence[r][d] =>
                              Occurrence[r][e] = Occurrence[r][d]
  BY DEF Steady
<1>1. PICK raw \in [Rule -> RawRule] : \A q \in Rule :
        /\ WellFormed(raw[q]) /\ Plain(raw[q])
        /\ \A e \in Days : Occurrence[q][e] = computeOccurrence(raw[q], e)
  BY DEF PlainRules
<1> DEFINE F(e) == Occurrence[r][e]
<1>2. PICK T \in SUBSET Nat : \A e \in Days :
        \/ F(e) = NoDate /\ \A x \in Nat : e <= x => x \notin T
        \/ F(e) \in Nat /\ e <= F(e) /\ F(e) # NoDate /\ F(e) \in T /\ \A x \in e..F(e) - 1 : x \notin T
  <2>1. PICK T \in SUBSET Nat : \A c \in Nat : NoDate < c =>
          \/ /\ computeOccurrence(raw[r], c) = NoDate
             /\ \A x \in Nat : c <= x => x \notin T
          \/ /\ computeOccurrence(raw[r], c) \in Nat
             /\ c <= computeOccurrence(raw[r], c)
             /\ computeOccurrence(raw[r], c) \in T
             /\ \A x \in c..computeOccurrence(raw[r], c) - 1 : x \notin T
    BY <1>1, PlainIsNext
  <2>2. ASSUME NEW e \in Days
        PROVE  \/ F(e) = NoDate /\ \A x \in Nat : e <= x => x \notin T
               \/ F(e) \in Nat /\ e <= F(e) /\ F(e) # NoDate /\ F(e) \in T /\ \A x \in e..F(e) - 1 : x \notin T
    <3>1. e \in Nat /\ NoDate < e /\ NoDate \in Nat
      BY DaysAreNumbers
    <3>2. F(e) = computeOccurrence(raw[r], e)
      BY <1>1
    <3> HIDE DEF F
    <3> QED BY <2>1, <3>1, <3>2
  <2> HIDE DEF F
  <2> QED BY <2>2
<1>3. /\ d \in Nat /\ LastDay \in Nat /\ NoDate \in Nat
      /\ \A e \in d..LastDay : e \in Days /\ e \in Nat /\ d <= e
  BY DaysAreNumbers DEF Days
<1> HIDE DEF F
<1>4. CASE F(d) = NoDate
  <2>1. \A x \in Nat : d <= x => x \notin T
    BY <1>2, <1>4
  <2>2. ASSUME NEW e \in d..LastDay PROVE F(e) = NoDate
    <3>1. F(e) \in Nat /\ e <= F(e) => d <= F(e)
      BY <1>3
    <3> QED BY <1>2, <1>3, <2>1, <3>1
  <2> QED BY <1>4, <2>2 DEF F
<1>5. CASE F(d) # NoDate
  <2>1. F(d) \in Nat /\ d <= F(d) /\ F(d) \in T /\ \A x \in d..F(d) - 1 : x \notin T
    BY <1>2, <1>5
  <2>2. ASSUME NEW e \in d..LastDay, e <= F(d) PROVE F(e) = F(d)
    <3>1. F(e) \in Nat /\ e <= F(e) /\ F(e) \in T /\ \A x \in e..F(e) - 1 : x \notin T
      BY <1>2, <1>3, <2>1, <2>2
    <3>2. ~(F(e) < F(d))
      <4> SUFFICES ASSUME F(e) < F(d) PROVE FALSE
        OBVIOUS
      <4>1. F(e) \in d..F(d) - 1
        BY <1>3, <2>1, <3>1
      <4> QED BY <2>1, <3>1, <4>1
    <3>3. ~(F(d) < F(e))
      <4> SUFFICES ASSUME F(d) < F(e) PROVE FALSE
        OBVIOUS
      <4>1. F(d) \in e..F(e) - 1
        BY <1>3, <2>1, <2>2, <3>1
      <4> QED BY <2>1, <3>1, <4>1
    <3> QED BY <2>1, <3>1, <3>2, <3>3
  <2> QED BY <1>5, <2>1, <2>2 DEF F
<1> QED BY <1>4, <1>5

(* So recurring events are sound whatever the rules, as long as they skip  *)
(* nothing.                                                                *)
THEOREM PlainEventsAreSound == PlainRules => (Spec => []EventsSound)
BY PlainRulesAreSteady, EventsAreSound
================================================================================
