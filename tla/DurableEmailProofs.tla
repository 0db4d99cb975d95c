--------------------------- MODULE DurableEmailProofs ---------------------------
(***************************************************************************)
(* Proofs about DurableEmail: for any recipients, sequences, recoveries at *)
(* once, workers and bounds.                                               *)
(***************************************************************************)
EXTENDS DurableEmail, FiniteSetTheorems, TLAPS

--------------------------------------------------------------------------------
(* What the operators return.                                              *)

LEMMA CellKinds ==
  /\ \A c \in Op : c \in Cells
  /\ \A f \in FanoutID : f \in Cells
  /\ \A v \in VerifyCell : v \in Cells /\ v[2] \in Recipient
  /\ \A f \in FanoutID, r \in Recipient : <<f, r>> \in VerifyCell
BY DEF Cells, VerifyCell

LEMMA RowUpdates ==
  ASSUME NEW x \in Row, NEW s \in State, NEW b \in BOOLEAN
  PROVE  /\ [x EXCEPT !.state = s] \in Row
         /\ [x EXCEPT !.submitted = TRUE, !.ripe = FALSE] \in Row
         /\ [x EXCEPT !.ripe = b] \in Row
         /\ [NoRow EXCEPT !.state = s] \in Row
<1>1. [x EXCEPT !.state = s] \in Row
  BY DEF Row
<1>2. [x EXCEPT !.submitted = TRUE, !.ripe = FALSE] \in Row
  BY DEF Row
<1>3. [x EXCEPT !.ripe = b] \in Row
  BY DEF Row
<1>4. [NoRow EXCEPT !.state = s] \in Row
  BY DEF Row, NoRow
<1> QED BY <1>1, <1>2, <1>3, <1>4

LEMMA SetStateType ==
  ASSUME TypeOK, NEW rs, NEW s \in State, SetState(rs, s)
  PROVE  row' \in [Recipient -> Row]
<1>1. \A r \in Recipient : row[r] \in Row /\ [row[r] EXCEPT !.state = s] \in Row
  BY RowUpdates DEF TypeOK
<1> QED BY <1>1 DEF SetState

LEMMA GoesType ==
  ASSUME TypeOK, NEW c \in Cells, NEW pc \in Pc, NEW to \in SUBSET Recipient, Goes(c, pc, to)
  PROVE  run' \in [Cells -> Handling]
<1>1. run[c] \in Handling
  BY DEF TypeOK
<1>2. [run[c] EXCEPT !.pc = pc, !.to = to] \in Handling
  BY <1>1 DEF Handling
<1>3. run' = [run EXCEPT ![c] = [run[c] EXCEPT !.pc = pc, !.to = to]]
  BY DEF Goes
<1> QED BY <1>2, <1>3 DEF TypeOK

LEMMA FinishesType ==
  ASSUME TypeOK, NEW c \in Cells, Finishes(c)
  PROVE  run' \in [Cells -> Handling]
<1>1. Idle \in Handling
  BY EmailConstants DEF Idle, Handling, Pc
<1> QED BY <1>1 DEF Finishes, TypeOK

LEMMA StepTypes ==
  ASSUME TypeOK, NEW c \in Cells
  PROVE  /\ run[c].to \in SUBSET Recipient /\ run[c].pc \in Pc /\ run[c].n \in 0..MaxSends
         /\ cell[c] \in Pc \cup {"absent"}
         /\ \A s : InState(s) \in SUBSET Recipient
         /\ Interrupted \in SUBSET Recipient
         /\ Unripe(run[c].to) \in SUBSET Recipient
BY DEF TypeOK, Handling, InState, Interrupted, Unripe, Pc

(* A webhook event makes a state of a state. *)
LEMMA EventStateType ==
  ASSUME NEW s \in State, NEW e \in Event
  PROVE  EventState(s, e) \in State
BY EmailConstants DEF EventState, Advanced, State, Unsure, Evidence

(* A cell whose handler is about to send is a Send sequence's. *)
LEMMA SubmitsInPost ==
  ASSUME RunFits, NEW c \in Cells, At(c, "marked")
  PROVE  c \in Op
BY DEF RunFits, RecoveryFits, VerifierFits, At, Cells

(* Type correctness, action by action. *)
LEMMA TypeStep == TypeOK /\ RunFits /\ NumbersFit /\ [Next]_vars => TypeOK'
<1> SUFFICES ASSUME TypeOK, RunFits, NumbersFit, [Next]_vars
             PROVE  TypeOK'
  OBVIOUS
<1> USE EmailConstants, CellKinds
<1> DEFINE Steps == {"absent", "setup", "recovery", "post", "fanout", "verify"}
<1>d. Disturb => disturbed' \in 0..MaxDisturb
  BY DEF Disturb, TypeOK
<1>1. ASSUME NEW c \in Op, AddSend(c) PROVE TypeOK'
  BY <1>1 DEF AddSend, TypeOK, provider
<1>2. ASSUME NEW c \in Cells, Claim(c) PROVE TypeOK'
  <2>1. cell[c] \in Pc
    BY <1>2, StepTypes DEF Claim
  <2>2. run' \in [Cells -> Handling]
    BY <1>2, <2>1, GoesType DEF Claim
  <2> QED BY <1>2, <2>2 DEF Claim, TypeOK, durable, provider
<1>3. ASSUME NEW c \in Cells, Fail(c) PROVE TypeOK'
  <2>1. run' \in [Cells -> Handling]
    BY <1>3, FinishesType DEF Fail
  <2> QED BY <1>3, <2>1, <1>d DEF Fail, TypeOK, durable, provider
<1>4. ASSUME NEW c \in Cells, Setup(c) PROVE TypeOK'
  <2>1. run' \in [Cells -> Handling]
    BY <1>4, FinishesType DEF Setup
  <2>2. row' \in [Recipient -> Row]
    <3>1. CASE request = "none"
      BY <1>4, <3>1, SetStateType DEF Setup, State
    <3>2. CASE request # "none"
      BY <1>4, <3>2 DEF Setup, TypeOK
    <3> QED BY <3>1, <3>2
  <2> QED BY <1>4, <2>1, <2>2 DEF Setup, TypeOK, provider
<1>5. ASSUME NEW c \in Cells, SetupConflicts(c) PROVE TypeOK'
  <2>1. run' \in [Cells -> Handling]
    BY <1>5, FinishesType DEF SetupConflicts
  <2> QED BY <1>5, <2>1 DEF SetupConflicts, TypeOK, durable, provider
<1>6. ASSUME NEW c \in Cells, ReadCandidates(c) PROVE TypeOK'
  <2>1. run' \in [Cells -> Handling]
    BY <1>6, GoesType, StepTypes DEF ReadCandidates, Pc
  <2> QED BY <1>6, <2>1 DEF ReadCandidates, TypeOK, durable, provider
<1>7. ASSUME NEW c \in Cells, ReadWaiting(c) PROVE TypeOK'
  <2>1. run' \in [Cells -> Handling]
    BY <1>7, FinishesType DEF ReadWaiting
  <2>2. cell' \in [Cells -> Steps] /\ due' \in [Cells -> SUBSET Recipient]
    BY <1>7 DEF ReadWaiting, TypeOK
  <2> QED BY <1>7, <2>1, <2>2 DEF ReadWaiting, TypeOK, provider
<1>8. ASSUME NEW c \in Cells, NEW f \in FanoutID, Expand(c, f) PROVE TypeOK'
  <2>1. run' \in [Cells -> Handling]
    BY <1>8, FinishesType DEF Expand
  <2>2. row' \in [Recipient -> Row]
    BY <1>8, SetStateType DEF Expand, State, Unsure
  <2>3. cell' \in [Cells -> Steps] /\ due' \in [Cells -> SUBSET Recipient]
    BY <1>8, StepTypes DEF Expand, TypeOK
  <2> QED BY <1>8, <2>1, <2>2, <2>3 DEF Expand, TypeOK, provider
<1>9. ASSUME NEW c \in Cells, FanoutReads(c) PROVE TypeOK'
  <2>1. run' \in [Cells -> Handling]
    BY <1>9, GoesType, StepTypes DEF FanoutReads, Pc
  <2> QED BY <1>9, <2>1 DEF FanoutReads, TypeOK, durable, provider
<1>10. ASSUME NEW c \in Cells, FanoutCompletes(c) PROVE TypeOK'
  <2>1. run' \in [Cells -> Handling]
    BY <1>10, FinishesType DEF FanoutCompletes
  <2>2. cell' \in [Cells -> Steps] /\ due' \in [Cells -> SUBSET Recipient]
    BY <1>10 DEF FanoutCompletes, TypeOK
  <2> QED BY <1>10, <2>1, <2>2 DEF FanoutCompletes, TypeOK, provider
<1>11. ASSUME NEW c \in VerifyCell, VerifyNotNeeded(c) PROVE TypeOK'
  <2>1. run' \in [Cells -> Handling]
    BY <1>11, FinishesType DEF VerifyNotNeeded
  <2> QED BY <1>11, <2>1 DEF VerifyNotNeeded, TypeOK, provider
<1>12. ASSUME NEW c \in VerifyCell, Verify(c) PROVE TypeOK'
  <2>1. run' \in [Cells -> Handling]
    BY <1>12, GoesType DEF Verify, Pc
  <2> QED BY <1>12, <2>1 DEF Verify, TypeOK, durable, provider
<1>13. ASSUME NEW c \in VerifyCell, VerifyCompletes(c) PROVE TypeOK'
  <2>1. run' \in [Cells -> Handling]
    BY <1>13, FinishesType DEF VerifyCompletes
  <2>2. row[c[2]] \in Row
    BY DEF TypeOK
  <2>3. /\ [row[c[2]] EXCEPT !.state = "Accepted"] \in Row
        /\ [NoRow EXCEPT !.state = "Pending"] \in Row
    BY <2>2, RowUpdates DEF State
  <2>4. row' \in [Recipient -> Row]
    BY <1>13, <2>3 DEF VerifyCompletes, TypeOK
  <2> QED BY <1>13, <2>1, <2>4 DEF VerifyCompletes, TypeOK, provider
<1>14. ASSUME NEW c \in Cells, ReadUnresolved(c) PROVE TypeOK'
  <2>1. run' \in [Cells -> Handling]
    BY <1>14, FinishesType, GoesType DEF ReadUnresolved, Pc
  <2>2. cell' \in [Cells -> Steps] /\ due' \in [Cells -> SUBSET Recipient]
    BY <1>14 DEF ReadUnresolved, TypeOK
  <2> QED BY <1>14, <2>1, <2>2 DEF ReadUnresolved, TypeOK, provider
<1>15. ASSUME NEW c \in Cells, ReadPending(c) PROVE TypeOK'
  <2>1. run' \in [Cells -> Handling]
    BY <1>15, FinishesType, GoesType, StepTypes DEF ReadPending, Pc
  <2>2. cell' \in [Cells -> Steps]
    BY <1>15 DEF ReadPending, TypeOK
  <2> QED BY <1>15, <2>1, <2>2 DEF ReadPending, TypeOK, provider
<1>16. ASSUME NEW c \in Cells, Defer(c) PROVE TypeOK'
  <2>1. run' \in [Cells -> Handling]
    BY <1>16, FinishesType DEF Defer
  <2> QED BY <1>16, <2>1 DEF Defer, TypeOK, provider
<1>17. ASSUME NEW c \in Cells, BestEffort(c) PROVE TypeOK'
  <2>1. run' \in [Cells -> Handling] /\ run[c].to \subseteq Recipient
    BY <1>17, GoesType, StepTypes DEF BestEffort, Pc
  <2>2. row' \in [Recipient -> Row]
    BY <1>17, SetStateType DEF BestEffort, State
  <2> QED BY <1>17, <2>1, <2>2 DEF BestEffort, TypeOK, provider
<1>18. ASSUME NEW c \in Cells, BestEffortRefused(c) PROVE TypeOK'
  <2>1. run' \in [Cells -> Handling]
    BY <1>18, FinishesType DEF BestEffortRefused
  <2> QED BY <1>18, <2>1 DEF BestEffortRefused, TypeOK, durable, provider
<1>19. ASSUME NEW c \in Cells, BestEffortCompletes(c) PROVE TypeOK'
  <2>1. run' \in [Cells -> Handling]
    BY <1>19, FinishesType DEF BestEffortCompletes
  <2> QED BY <1>19, <2>1 DEF BestEffortCompletes, TypeOK, provider
<1>20. ASSUME NEW c \in Cells, MarkSubmitted(c) PROVE TypeOK'
  <2>0. sends < MaxSends /\ sends' = sends + 1
    BY <1>20 DEF MarkSubmitted
  <2>1. sends' \in 0..MaxSends
    BY <2>0 DEF TypeOK
  <2>2. [run[c] EXCEPT !.pc = "marked", !.n = sends'] \in Handling
    BY <2>1 DEF TypeOK, Handling, Pc
  <2>3. run' = [run EXCEPT ![c] = [run[c] EXCEPT !.pc = "marked", !.n = sends']]
    BY <1>20 DEF MarkSubmitted
  <2>4. run' \in [Cells -> Handling]
    BY <2>2, <2>3 DEF TypeOK
  <2>5. \A r \in Recipient : row[r] \in Row /\ [row[r] EXCEPT !.submitted = TRUE, !.ripe = FALSE] \in Row
    BY RowUpdates DEF TypeOK, State
  <2>6. row' \in [Recipient -> Row]
    BY <1>20, <2>5 DEF MarkSubmitted
  <2> QED BY <1>20, <2>1, <2>4, <2>6 DEF MarkSubmitted, TypeOK
<1>21. ASSUME NEW c \in Cells, Send(c) PROVE TypeOK'
  <2>0. c \in Op
    BY <1>21, SubmitsInPost DEF Send
  <2>1. run' \in [Cells -> Handling] /\ run[c].to \subseteq Recipient
    BY <1>21, GoesType, StepTypes DEF Send, Pc
  <2>2. [n |-> run[c].n, from |-> c, to |-> run[c].to] \in [n: 1..MaxSends, from: Op, to: SUBSET Recipient]
    <3>1. 1 <= run[c].n /\ run[c].n \in 0..MaxSends
      BY <1>21, <2>0, StepTypes DEF Send, At, NumbersFit
    <3> QED BY <2>0, <2>1, <3>1
  <2> QED BY <1>21, <2>1, <2>2 DEF Send, TypeOK, durable
<1>22. ASSUME NEW c \in Cells, Accept(c) PROVE TypeOK'
  <2>1. run' \in [Cells -> Handling]
    BY <1>22, FinishesType DEF Accept
  <2>2. row' \in [Recipient -> Row]
    BY <1>22, SetStateType DEF Accept, State
  <2> QED BY <1>22, <2>1, <2>2 DEF Accept, TypeOK, provider
<1>23. ASSUME NEW c \in Cells, Recover(c) PROVE TypeOK'
  <2>1. run' \in [Cells -> Handling]
    BY <1>23, FinishesType DEF Recover
  <2>2. row' \in [Recipient -> Row]
    BY <1>23, SetStateType DEF Recover, State, Unsure
  <2> QED BY <1>23, <2>1, <2>2 DEF Recover, TypeOK, provider
<1>24. CASE Stop
  BY <1>24, <1>d DEF Stop, TypeOK, durable, provider
<1>25. CASE Exit
  BY <1>25 DEF Exit, TypeOK, durable, provider
<1>26. CASE Crash
  <2>1. Idle \in Handling
    BY DEF Idle, Handling, Pc
  <2> QED BY <1>26, <1>d, <2>1 DEF Crash, TypeOK, durable, provider
<1>27. CASE Restart
  <2>1. row' \in [Recipient -> Row]
    BY <1>27, SetStateType DEF Restart, State, Unsure
  <2> QED BY <1>27, <2>1 DEF Restart, TypeOK, provider
<1>28. ASSUME NEW q \in wire, NEW S \in SUBSET q.to, NEW ok \in BOOLEAN, Deliver(q, S, ok)
       PROVE  TypeOK'
  <2>1. q.from \in Op /\ q.to \in SUBSET Recipient
    BY DEF TypeOK
  <2>2. run' \in [Cells -> Handling]
    <3>1. CASE Awaited(q)
      BY <1>28, <2>1, <3>1, GoesType DEF Deliver, Pc
    <3>2. CASE ~Awaited(q)
      BY <1>28, <3>2 DEF Deliver, TypeOK
    <3> QED BY <3>1, <3>2
  <2>3. disturbed' \in 0..MaxDisturb
    BY <1>28, <1>d DEF Deliver, TypeOK
  <2>4. mail' \in [Recipient -> Nat]
    BY <1>28 DEF Deliver, TypeOK
  <2> QED BY <1>28, <2>2, <2>3, <2>4 DEF Deliver, TypeOK, durable
<1>29. ASSUME NEW c \in Op, SendTimesOut(c) PROVE TypeOK'
  <2>1. run' \in [Cells -> Handling]
    BY <1>29, GoesType, StepTypes DEF SendTimesOut, Pc
  <2> QED BY <1>29, <1>d, <2>1 DEF SendTimesOut, TypeOK, durable, provider
<1>30. ASSUME NEW r \in Recipient, DelayPasses(r) PROVE TypeOK'
  <2>1. row[r] \in Row /\ row[r].submitted \in BOOLEAN
    BY DEF TypeOK, Row
  <2>2. [row[r] EXCEPT !.ripe = row[r].submitted] \in Row
    BY <2>1, RowUpdates DEF State
  <2>3. row' = [row EXCEPT ![r] = [row[r] EXCEPT !.ripe = row[r].submitted]]
    BY <1>30 DEF DelayPasses
  <2>4. row' \in [Recipient -> Row] /\ due' \in [Cells -> SUBSET Recipient]
    BY <1>30, <2>2, <2>3 DEF DelayPasses, TypeOK
  <2> QED BY <1>30, <2>4 DEF DelayPasses, TypeOK, provider
<1>31. ASSUME NEW r \in Recipient, NEW e \in Event, RecordEvent(r, e) PROVE TypeOK'
  <2>1. row[r] \in Row /\ row[r].state \in State
    BY DEF TypeOK, Row
  <2>2. [row[r] EXCEPT !.state = EventState(row[r].state, e)] \in Row
    BY <2>1, RowUpdates, EventStateType
  <2>3. row' = [row EXCEPT ![r] = [row[r] EXCEPT !.state = EventState(row[r].state, e)]]
    BY <1>31 DEF RecordEvent
  <2> QED BY <1>31, <2>2, <2>3 DEF RecordEvent, TypeOK, provider
<1>32. CASE UNCHANGED vars
  BY <1>32 DEF vars, TypeOK, durable, provider
<1> QED BY <1>1, <1>2, <1>3, <1>4, <1>5, <1>6, <1>7, <1>8, <1>9, <1>10, <1>11, <1>12, <1>13, <1>14, <1>15,
           <1>16, <1>17, <1>18, <1>19, <1>20, <1>21, <1>22, <1>23, <1>24, <1>25, <1>26, <1>27, <1>28, <1>29,
           <1>30, <1>31, <1>32 DEF Next, Handle, Network

--------------------------------------------------------------------------------
(* Where handlers are.                                                     *)

LEMMA KindsDiffer ==
  /\ \A c \in Op : c \notin FanoutID /\ c \notin VerifyCell
  /\ \A f \in FanoutID : f \notin VerifyCell
BY EmailConstants DEF VerifyCell

LEMMA GoesEffect ==
  ASSUME TypeOK, NEW c \in Cells, NEW pc, NEW to, Goes(c, pc, to)
  PROVE  /\ run'[c].pc = pc /\ run'[c].to = to /\ run'[c].n = run[c].n
         /\ \A d \in Cells : d # c => run'[d] = run[d]
BY DEF Goes, TypeOK, Handling

LEMMA FinishesEffect ==
  ASSUME TypeOK, NEW c \in Cells, Finishes(c)
  PROVE  /\ run'[c] = Idle /\ run'[c].pc = "idle"
         /\ \A d \in Cells : d # c => run'[d] = run[d]
BY DEF Finishes, TypeOK, Idle

LEMMA MarkEffect ==
  ASSUME TypeOK, NEW c \in Cells, MarkSubmitted(c)
  PROVE  /\ run'[c].pc = "marked" /\ run'[c].to = run[c].to /\ run'[c].n = sends + 1
         /\ \A d \in Cells : d # c => run'[d] = run[d]
<1>1. /\ run' = [run EXCEPT ![c] = [run[c] EXCEPT !.pc = "marked", !.n = sends']]
      /\ sends' = sends + 1
  BY DEF MarkSubmitted
<1> QED BY <1>1 DEF TypeOK, Handling

LEMMA FanoutEffect ==
  ASSUME TypeOK, NEW f \in FanoutID, FanoutCompletes(f)
  PROVE  /\ \A c \in Op : cell'[c] = cell[c]
         /\ \A g \in FanoutID : g # f => cell'[g] = cell[g] /\ due'[g] = due[g]
         /\ cell'[f] = "absent"
         /\ \A g \in FanoutID, r \in Recipient :
              cell'[<<g, r>>] = IF g = f /\ r \in run[f].to THEN "verify" ELSE cell[<<g, r>>]
         /\ \A v \in VerifyCell : cell'[v] \in {cell[v], "verify"}
<1> DEFINE kids == {f} \X run[f].to
<1>1. /\ cell' = [c \in Cells |-> IF c = f THEN "absent" ELSE IF c \in kids THEN "verify" ELSE cell[c]]
      /\ due' = [c \in Cells |-> IF c = f \/ c \in kids THEN {} ELSE due[c]]
  BY DEF FanoutCompletes
<1>2. \A c \in kids : c \in VerifyCell
  BY CellKinds, StepTypes DEF VerifyCell
<1>3. \A g \in FanoutID, r \in Recipient : <<g, r>> \in kids <=> g = f /\ r \in run[f].to
  OBVIOUS
<1> HIDE DEF kids
<1>4. \A c \in Op : c \notin kids /\ c # f /\ c \in Cells
  BY <1>2, KindsDiffer, CellKinds
<1>5. \A g \in FanoutID : g \notin kids /\ g \in Cells
  BY <1>2, KindsDiffer, CellKinds
<1>6. \A v \in VerifyCell : v # f /\ v \in Cells
  BY KindsDiffer, CellKinds
<1>7. \A g \in FanoutID, r \in Recipient : <<g, r>> \in VerifyCell
  BY CellKinds
<1> QED BY <1>1, <1>3, <1>4, <1>5, <1>6, <1>7

(* A step of a handler moves nothing but the handler's own progress. *)
LEMMA HandlerMoves ==
  ASSUME TypeOK, NEW c \in Cells, Handle(c)
  PROVE  /\ run[c].pc # "idle"
         /\ \A d \in Cells : d # c => run'[d] = run[d]
         /\ process' \in {process, "stopping"}
<1> USE CellKinds
<1>1. CASE Setup(c)
  BY <1>1, FinishesEffect DEF Setup, At
<1>2. CASE SetupConflicts(c)
  BY <1>2, FinishesEffect DEF SetupConflicts, At
<1>3. CASE ReadWaiting(c)
  BY <1>3, FinishesEffect DEF ReadWaiting, At
<1>4. CASE FanoutCompletes(c)
  BY <1>4, FinishesEffect DEF FanoutCompletes, At
<1>5. CASE VerifyNotNeeded(c)
  BY <1>5, FinishesEffect DEF VerifyNotNeeded, At
<1>6. CASE VerifyCompletes(c)
  BY <1>6, FinishesEffect DEF VerifyCompletes, At
<1>7. CASE Defer(c)
  BY <1>7, FinishesEffect DEF Defer, At
<1>8. CASE BestEffortRefused(c)
  BY <1>8, FinishesEffect DEF BestEffortRefused, At
<1>9. CASE BestEffortCompletes(c)
  BY <1>9, FinishesEffect DEF BestEffortCompletes, At
<1>10. CASE Accept(c)
  BY <1>10, FinishesEffect DEF Accept, At
<1>11. CASE Recover(c)
  BY <1>11, FinishesEffect DEF Recover, At
<1>12. CASE ReadCandidates(c)
  BY <1>12, GoesEffect DEF ReadCandidates, At
<1>13. CASE FanoutReads(c)
  BY <1>13, GoesEffect DEF FanoutReads, At
<1>14. CASE Verify(c)
  BY <1>14, GoesEffect DEF Verify, At
<1>15. CASE BestEffort(c)
  BY <1>15, GoesEffect DEF BestEffort, At
<1>16. CASE Send(c)
  BY <1>16, GoesEffect DEF Send, At
<1>17. CASE ReadUnresolved(c)
  BY <1>17, GoesEffect, FinishesEffect DEF ReadUnresolved, At
<1>18. CASE ReadPending(c)
  BY <1>18, GoesEffect, FinishesEffect DEF ReadPending, At
<1>19. CASE MarkSubmitted(c)
  BY <1>19 DEF MarkSubmitted, At, TypeOK
<1>20. ASSUME NEW f \in FanoutID, Expand(c, f)
       PROVE  /\ run[c].pc # "idle"
              /\ \A d \in Cells : d # c => run'[d] = run[d]
              /\ process' \in {process, "stopping"}
  BY <1>20, FinishesEffect DEF Expand, At
<1> QED BY <1>1, <1>2, <1>3, <1>4, <1>5, <1>6, <1>7, <1>8, <1>9, <1>10, <1>11, <1>12, <1>13, <1>14, <1>15, <1>16, <1>17, <1>18, <1>19, <1>20 DEF Handle

LEMMA BusyShrinks ==
  ASSUME BusyFits, Busy' \subseteq Busy, process' = "down" => process = "down"
  PROVE  BusyFits'
BY DEF BusyFits

LEMMA BusyStep ==
  ASSUME TypeOK, BusyFits, [Next]_vars
  PROVE  BusyFits'
<1> USE CellKinds
<1>1. ASSUME UNCHANGED run, process' = "down" => process = "down" PROVE BusyFits'
  BY <1>1, BusyShrinks DEF Busy
<1>2. ASSUME NEW c \in Op, AddSend(c) PROVE BusyFits'
  BY <1>1, <1>2 DEF AddSend
<1>3. ASSUME NEW c \in Cells, Claim(c) PROVE BusyFits'
  <2>1. process' # "down"
    BY <1>3 DEF Claim
  <2>2. Busy' \subseteq Busy \cup {c}
    BY <1>3, GoesEffect DEF Claim, Busy
  <2>3. ASSUME Workers = 1 PROVE Busy = {}
    <3>1. Cardinality(Busy) < 1
      BY <1>3, <2>3 DEF Claim
    <3>2. ASSUME NEW d \in Busy PROVE FALSE
      <4>1. Busy = {d}
        BY <2>3, <3>2 DEF BusyFits
      <4> QED BY <3>1, <4>1, FS_Singleton
    <3> QED BY <3>2
  <2> QED BY <2>1, <2>2, <2>3 DEF BusyFits
<1>4. ASSUME NEW c \in Cells, Fail(c) PROVE BusyFits'
  <2>1. Busy' \subseteq Busy
    BY <1>4, FinishesEffect DEF Fail, Busy
  <2> QED BY <1>4, <2>1, BusyShrinks DEF Fail
<1>5. ASSUME NEW c \in Cells, Handle(c) PROVE BusyFits'
  <2>1. /\ run[c].pc # "idle" /\ \A d \in Cells : d # c => run'[d] = run[d]
        /\ process' \in {process, "stopping"}
    BY <1>5, HandlerMoves
  <2>2. Busy' \subseteq Busy
    BY <2>1 DEF Busy
  <2> QED BY <2>1, <2>2, BusyShrinks
<1>6. CASE Stop
  BY <1>1, <1>6 DEF Stop
<1>7. CASE Exit
  BY <1>7 DEF Exit, BusyFits, Busy
<1>8. CASE Crash
  BY <1>8 DEF Crash, BusyFits, Busy, Idle
<1>9. CASE Restart
  BY <1>1, <1>9 DEF Restart
<1>10. ASSUME NEW q \in wire, NEW S \in SUBSET q.to, NEW ok \in BOOLEAN, Deliver(q, S, ok)
       PROVE  BusyFits'
  <2>1. q.from \in Cells
    BY DEF TypeOK
  <2>2. Busy' \subseteq Busy
    <3>1. CASE Awaited(q)
      BY <1>10, <2>1, <3>1, GoesEffect DEF Deliver, Busy, Awaited
    <3>2. CASE ~Awaited(q)
      BY <1>10, <3>2 DEF Deliver, Busy
    <3> QED BY <3>1, <3>2
  <2> QED BY <1>10, <2>2, BusyShrinks DEF Deliver
<1>11. ASSUME NEW c \in Op, SendTimesOut(c) PROVE BusyFits'
  <2>1. Busy' \subseteq Busy
    BY <1>11, GoesEffect DEF SendTimesOut, Busy, At
  <2> QED BY <1>11, <2>1, BusyShrinks DEF SendTimesOut
<1>12. ASSUME NEW r \in Recipient, DelayPasses(r) PROVE BusyFits'
  BY <1>1, <1>12 DEF DelayPasses
<1>13. ASSUME NEW r \in Recipient, NEW e \in Event, RecordEvent(r, e) PROVE BusyFits'
  BY <1>1, <1>13 DEF RecordEvent
<1>14. CASE UNCHANGED vars
  BY <1>1, <1>14 DEF vars
<1> QED BY <1>2, <1>3, <1>4, <1>5, <1>6, <1>7, <1>8, <1>9, <1>10, <1>11, <1>12, <1>13, <1>14
        DEF Next, Network

(* Each action leaves every handler where its cell's step allows. *)
LEMMA CellsStep ==
  ASSUME TypeOK, SequenceFits, RecoveryFits, VerifierFits, [Next]_vars
  PROVE  SequenceFits' /\ RecoveryFits' /\ VerifierFits'
<1> DEFINE Fits == SequenceFits /\ RecoveryFits /\ VerifierFits
<1> USE CellKinds, KindsDiffer DEF SequenceFits, RecoveryFits, VerifierFits, TypeOK
<1>0. \A c \in Cells : c \in Op \/ c \in FanoutID \/ c \in VerifyCell
  BY DEF Cells
<1>1. ASSUME UNCHANGED <<cell, run>>, \A f \in FanoutID : due'[f] \subseteq due[f] PROVE Fits'
  BY <1>1, <1>0 DEF Handling
<1>2. ASSUME NEW c \in Op, AddSend(c) PROVE Fits'
  BY <1>2, <1>0 DEF AddSend, Idle
<1>3. ASSUME NEW c \in Cells, Claim(c) PROVE Fits'
  BY <1>3, <1>0, GoesEffect DEF Claim, durable
<1>4. ASSUME NEW c \in Cells, Fail(c) PROVE Fits'
  BY <1>4, <1>0, FinishesEffect DEF Fail, durable
<1>5. ASSUME NEW c \in Cells, Setup(c) PROVE Fits'
  BY <1>5, <1>0, FinishesEffect DEF Setup, At, durable
<1>6. ASSUME NEW c \in Cells, SetupConflicts(c) PROVE Fits'
  BY <1>6, <1>0, FinishesEffect DEF SetupConflicts, At, durable
<1>7. ASSUME NEW c \in Cells, ReadWaiting(c) PROVE Fits'
  BY <1>7, <1>0, FinishesEffect DEF ReadWaiting, At, durable
<1>8. ASSUME NEW c \in Cells, FanoutCompletes(c) PROVE Fits'
  <2>1. c \in FanoutID /\ run[c].pc = "children"
    BY <1>0, <1>8 DEF FanoutCompletes, At
  <2>2. /\ run'[c].pc = "idle"
        /\ \A d \in Cells : d # c => run'[d] = run[d]
    BY <1>8, FinishesEffect DEF FanoutCompletes
  <2> QED BY <1>8, <2>1, <2>2, FanoutEffect
<1>9. ASSUME NEW c \in Cells, Defer(c) PROVE Fits'
  BY <1>9, <1>0, FinishesEffect DEF Defer, At, durable
<1>10. ASSUME NEW c \in Cells, BestEffortRefused(c) PROVE Fits'
  BY <1>10, <1>0, FinishesEffect DEF BestEffortRefused, At, durable
<1>11. ASSUME NEW c \in Cells, BestEffortCompletes(c) PROVE Fits'
  BY <1>11, <1>0, FinishesEffect DEF BestEffortCompletes, At, durable
<1>12. ASSUME NEW c \in Cells, Accept(c) PROVE Fits'
  BY <1>12, <1>0, FinishesEffect DEF Accept, At, durable
<1>13. ASSUME NEW c \in Cells, Recover(c) PROVE Fits'
  BY <1>13, <1>0, FinishesEffect DEF Recover, At, durable
<1>14. ASSUME NEW c \in VerifyCell, VerifyNotNeeded(c) PROVE Fits'
  BY <1>14, <1>0, FinishesEffect DEF VerifyNotNeeded, At, durable
<1>15. ASSUME NEW c \in VerifyCell, VerifyCompletes(c) PROVE Fits'
  BY <1>15, <1>0, FinishesEffect DEF VerifyCompletes, At, durable
<1>16. ASSUME NEW c \in Cells, ReadCandidates(c) PROVE Fits'
  BY <1>16, <1>0, GoesEffect DEF ReadCandidates, At, durable
<1>17. ASSUME NEW c \in Cells, FanoutReads(c) PROVE Fits'
  BY <1>17, <1>0, GoesEffect DEF FanoutReads, At, durable
<1>18. ASSUME NEW c \in Cells, BestEffort(c) PROVE Fits'
  BY <1>18, <1>0, GoesEffect DEF BestEffort, At, durable
<1>19. ASSUME NEW c \in Cells, Send(c) PROVE Fits'
  BY <1>19, <1>0, GoesEffect DEF Send, At, durable
<1>20. ASSUME NEW c \in VerifyCell, Verify(c) PROVE Fits'
  BY <1>20, <1>0, GoesEffect DEF Verify, At, durable
<1>21. ASSUME NEW c \in Cells, ReadUnresolved(c) PROVE Fits'
  BY <1>21, <1>0, GoesEffect, FinishesEffect DEF ReadUnresolved, At, durable
<1>22. ASSUME NEW c \in Cells, ReadPending(c) PROVE Fits'
  BY <1>22, <1>0, GoesEffect, FinishesEffect DEF ReadPending, At, durable
<1>23. ASSUME NEW c \in Cells, MarkSubmitted(c) PROVE Fits'
  <2>1. cell' = cell /\ due' = due /\ run[c].pc = "policy"
    BY <1>23 DEF MarkSubmitted, At
  <2> QED BY <1>0, <1>23, <2>1, MarkEffect
<1>24. ASSUME NEW c \in Cells, NEW f \in FanoutID, Expand(c, f) PROVE Fits'
  BY <1>24, <1>0, FinishesEffect DEF Expand, At, Unused
<1>25. CASE Stop
  BY <1>25, <1>0, <1>1 DEF Stop, durable
<1>26. CASE Exit
  BY <1>26, <1>0, <1>1 DEF Exit, durable
<1>27. CASE Restart
  BY <1>27, <1>0, <1>1 DEF Restart
<1>28. CASE Crash
  BY <1>28, <1>0 DEF Crash, Idle, durable
<1>29. ASSUME NEW q \in wire, NEW S \in SUBSET q.to, NEW ok \in BOOLEAN, Deliver(q, S, ok) PROVE Fits'
  BY <1>29, <1>0, GoesEffect DEF Deliver, Awaited, durable
<1>30. ASSUME NEW c \in Op, SendTimesOut(c) PROVE Fits'
  BY <1>30, <1>0, GoesEffect DEF SendTimesOut, At, durable
<1>31. ASSUME NEW r \in Recipient, DelayPasses(r) PROVE Fits'
  BY <1>31, <1>0, <1>1 DEF DelayPasses
<1>32. ASSUME NEW r \in Recipient, NEW e \in Event, RecordEvent(r, e) PROVE Fits'
  BY <1>32, <1>0, <1>1 DEF RecordEvent
<1>33. CASE UNCHANGED vars
  BY <1>33, <1>0, <1>1 DEF vars, durable
<1> HIDE DEF SequenceFits, RecoveryFits, VerifierFits, TypeOK
<1> QED BY <1>2, <1>3, <1>4, <1>5, <1>6, <1>7, <1>8, <1>9, <1>10, <1>11, <1>12, <1>13, <1>14, <1>15, <1>16, <1>17, <1>18, <1>19, <1>20, <1>21, <1>22, <1>23, <1>24, <1>25, <1>26, <1>27, <1>28, <1>29, <1>30, <1>31, <1>32, <1>33 DEF Next, Handle, Network

(* Only Send sequences run the handlers of Setup, Recovery and Post, only  *)
(* fanout cells and Verify cells their own.                                *)
LEMMA HandlerKinds ==
  ASSUME RunFits, NEW c \in Cells
  PROVE  /\ run[c].pc \in {"setup", "recovery", "noCandidates", "expand", "post", "clear", "policy",
                           "besteffort", "marked", "sending", "accepted", "uncertain"} => c \in Op
         /\ run[c].pc \in {"fanout", "children"} => c \in FanoutID
         /\ run[c].pc \in {"verify", "found", "missing"} => c \in VerifyCell
BY KindsDiffer DEF RunFits, SequenceFits, RecoveryFits, VerifierFits, Cells

--------------------------------------------------------------------------------
(* What happens to the rows.                                               *)

LEMMA SetStateEffect ==
  ASSUME TypeOK, NEW rs, NEW s, SetState(rs, s)
  PROVE  \A r \in Recipient : /\ row'[r].state = IF r \in rs THEN s ELSE row[r].state
                              /\ row'[r].submitted = row[r].submitted
                              /\ row'[r].ripe = row[r].ripe
BY DEF SetState, TypeOK, Row

LEMMA MarkRows ==
  ASSUME TypeOK, NEW c \in Cells, MarkSubmitted(c)
  PROVE  \A r \in Recipient : /\ row'[r].state = row[r].state
                              /\ row'[r].submitted = (row[r].state = "Pending" \/ row[r].submitted)
                              /\ row'[r].ripe = (row[r].state # "Pending" /\ row[r].ripe)
<1>1. row' = [r \in Recipient |-> IF row[r].state = "Pending"
                                  THEN [row[r] EXCEPT !.submitted = TRUE, !.ripe = FALSE]
                                  ELSE row[r]]
  BY DEF MarkSubmitted
<1>2. ASSUME NEW r \in Recipient, row[r].state = "Pending"
      PROVE  row'[r].state = row[r].state /\ row'[r].submitted = TRUE /\ row'[r].ripe = FALSE
  BY <1>1, <1>2 DEF TypeOK, Row
<1>3. ASSUME NEW r \in Recipient, row[r].state # "Pending"
      PROVE  row'[r] = row[r]
  BY <1>1, <1>3
<1>4. \A r \in Recipient : row[r].submitted \in BOOLEAN /\ row[r].ripe \in BOOLEAN
  BY DEF TypeOK, Row
<1> QED BY <1>2, <1>3, <1>4

LEMMA DelayRows ==
  ASSUME TypeOK, NEW r \in Recipient, DelayPasses(r)
  PROVE  /\ row'[r].state = row[r].state /\ row'[r].submitted = row[r].submitted
         /\ row'[r].ripe = row[r].submitted
         /\ \A s \in Recipient : s # r => row'[s] = row[s]
<1>1. row' = [row EXCEPT ![r] = [row[r] EXCEPT !.ripe = row[r].submitted]]
  BY DEF DelayPasses
<1> QED BY <1>1 DEF TypeOK, Row

LEMMA EventRows ==
  ASSUME TypeOK, NEW r \in Recipient, NEW e \in Event, RecordEvent(r, e)
  PROVE  /\ row'[r].state = EventState(row[r].state, e)
         /\ row'[r].submitted = row[r].submitted /\ row'[r].ripe = row[r].ripe
         /\ \A s \in Recipient : s # r => row'[s] = row[s]
<1>1. row' = [row EXCEPT ![r] = [row[r] EXCEPT !.state = EventState(row[r].state, e)]]
  BY DEF RecordEvent
<1> QED BY <1>1 DEF TypeOK, Row

LEMMA VerifyRows ==
  ASSUME TypeOK, NEW v \in VerifyCell, VerifyCompletes(v)
  PROVE  /\ \A r \in Recipient : r # v[2] => row'[r] = row[r]
         /\ row[v[2]].state # "RecoveryWaiting" => row'[v[2]] = row[v[2]]
         /\ row[v[2]].state = "RecoveryWaiting" =>
              \/ run[v].pc = "found" /\ row'[v[2]].state = "Accepted"
                 /\ row'[v[2]].submitted = row[v[2]].submitted /\ row'[v[2]].ripe = row[v[2]].ripe
              \/ run[v].pc = "missing" /\ row'[v[2]].state = "Pending"
                 /\ row'[v[2]].submitted = FALSE /\ row'[v[2]].ripe = FALSE
<1>1. v[2] \in Recipient /\ row \in [Recipient -> Row]
  BY CellKinds DEF TypeOK
<1>2. run[v].pc \in {"found", "missing"}
  BY DEF VerifyCompletes, At
<1>3. row' = IF row[v[2]].state # "RecoveryWaiting" THEN row
             ELSE IF run[v].pc = "found" THEN [row EXCEPT ![v[2]] = [row[v[2]] EXCEPT !.state = "Accepted"]]
             ELSE [row EXCEPT ![v[2]] = [NoRow EXCEPT !.state = "Pending"]]
  BY DEF VerifyCompletes
<1>4. CASE row[v[2]].state # "RecoveryWaiting"
  BY <1>3, <1>4
<1>5. CASE row[v[2]].state = "RecoveryWaiting" /\ run[v].pc = "found"
  BY <1>1, <1>3, <1>5 DEF Row
<1>6. CASE row[v[2]].state = "RecoveryWaiting" /\ run[v].pc = "missing"
  BY <1>1, <1>3, <1>6 DEF Row, NoRow
<1> QED BY <1>2, <1>4, <1>5, <1>6

(* A report advances an open row and never takes evidence back. *)
LEMMA EventAdvances ==
  ASSUME NEW s \in State, NEW e \in Event
  PROVE  /\ EventState(s, e) \in {s} \cup Evidence
         /\ s \in Evidence => EventState(s, e) \in Evidence
         /\ s \in {"Pending", "Accepted"} \cup Unsure => EventState(s, e) \in Evidence
BY EmailConstants DEF EventState, Advanced, State, Unsure, Evidence

(* Rows, messages and suppressions are touched by these steps only. *)
LEMMA RowSteps ==
  ASSUME TypeOK, RunFits, [Next]_vars
  PROVE  \/ UNCHANGED <<row, mail, suppressed>>
         \/ \E c \in Op : Setup(c) \/ BestEffort(c) \/ MarkSubmitted(c) \/ Accept(c) \/ Recover(c)
         \/ \E c \in Op, f \in FanoutID : Expand(c, f)
         \/ \E v \in VerifyCell : VerifyCompletes(v)
         \/ Restart
         \/ \E q \in wire : \E S \in SUBSET q.to, ok \in BOOLEAN : Deliver(q, S, ok)
         \/ \E r \in Recipient : DelayPasses(r)
         \/ \E r \in Recipient, e \in Event : RecordEvent(r, e)
<1>1. ASSUME NEW c \in Cells, Handle(c)
      PROVE  \/ UNCHANGED <<row, mail, suppressed>>
             \/ c \in Op /\ (Setup(c) \/ BestEffort(c) \/ MarkSubmitted(c) \/ Accept(c) \/ Recover(c))
             \/ c \in Op /\ \E f \in FanoutID : Expand(c, f)
             \/ c \in VerifyCell /\ VerifyCompletes(c)
  <2>1. ASSUME Setup(c) \/ BestEffort(c) \/ MarkSubmitted(c) \/ Accept(c) \/ Recover(c)
        PROVE  c \in Op
    <3>1. run[c].pc \in {"setup", "policy", "accepted", "uncertain"}
      BY <2>1 DEF Setup, BestEffort, MarkSubmitted, Accept, Recover, At
    <3> QED BY <3>1, HandlerKinds
  <2>2. ASSUME NEW f \in FanoutID, Expand(c, f) PROVE c \in Op
    BY <2>2, HandlerKinds DEF Expand, At
  <2>3. ASSUME SetupConflicts(c) \/ ReadCandidates(c) \/ ReadWaiting(c) \/ FanoutReads(c) \/ FanoutCompletes(c)
        PROVE  UNCHANGED <<row, mail, suppressed>>
    BY <2>3 DEF SetupConflicts, ReadCandidates, ReadWaiting, FanoutReads, FanoutCompletes, durable, provider
  <2>4. ASSUME \/ VerifyNotNeeded(c) \/ Verify(c) \/ ReadUnresolved(c) \/ ReadPending(c) \/ Defer(c)
               \/ BestEffortRefused(c) \/ BestEffortCompletes(c) \/ Send(c)
        PROVE  UNCHANGED <<row, mail, suppressed>>
    BY <2>4 DEF VerifyNotNeeded, Verify, ReadUnresolved, ReadPending, Defer, BestEffortRefused,
                BestEffortCompletes, Send, durable, provider
  <2> QED BY <1>1, <2>1, <2>2, <2>3, <2>4 DEF Handle
<1>2. ASSUME NEW c \in Op, AddSend(c) \/ SendTimesOut(c) PROVE UNCHANGED <<row, mail, suppressed>>
  BY <1>2 DEF AddSend, SendTimesOut, durable, provider
<1>3. ASSUME NEW c \in Cells, Claim(c) \/ Fail(c) PROVE UNCHANGED <<row, mail, suppressed>>
  BY <1>3 DEF Claim, Fail, durable, provider
<1>4. ASSUME Stop \/ Exit \/ Crash PROVE UNCHANGED <<row, mail, suppressed>>
  BY <1>4 DEF Stop, Exit, Crash, durable, provider
<1>5. ASSUME UNCHANGED vars PROVE UNCHANGED <<row, mail, suppressed>>
  BY <1>5 DEF vars, durable, provider
<1> QED BY <1>1, <1>2, <1>3, <1>4, <1>5 DEF Next, Network

(* A handler that moved has ended or was dispatched, or it took one of     *)
(* these steps.                                                            *)
LEMMA RunSteps ==
  ASSUME TypeOK, RunFits, [Next]_vars, NEW d \in Cells, run'[d] # run[d]
  PROVE  \/ run'[d].pc = "idle"
         \/ Claim(d)
         \/ /\ d \in Op
            /\ \/ ReadCandidates(d) \/ ReadUnresolved(d) \/ ReadPending(d) \/ BestEffort(d)
               \/ MarkSubmitted(d) \/ Send(d) \/ SendTimesOut(d)
         \/ d \in FanoutID /\ FanoutReads(d)
         \/ d \in VerifyCell /\ Verify(d)
         \/ \E q \in wire : \E S \in SUBSET q.to, ok \in BOOLEAN :
              Deliver(q, S, ok) /\ Awaited(q) /\ q.from = d
<1> DEFINE Goal == \/ run'[d].pc = "idle"
                   \/ Claim(d)
                   \/ /\ d \in Op
                      /\ \/ ReadCandidates(d) \/ ReadUnresolved(d) \/ ReadPending(d) \/ BestEffort(d)
                         \/ MarkSubmitted(d) \/ Send(d) \/ SendTimesOut(d)
                   \/ d \in FanoutID /\ FanoutReads(d)
                   \/ d \in VerifyCell /\ Verify(d)
                   \/ \E q \in wire : \E S \in SUBSET q.to, ok \in BOOLEAN :
                        Deliver(q, S, ok) /\ Awaited(q) /\ q.from = d
<1> USE CellKinds
<1>1. ASSUME NEW c \in Cells, Handle(c) PROVE Goal
  <2>1. Handle(d)
    BY <1>1, HandlerMoves
  <2>2. ASSUME \/ Setup(d) \/ SetupConflicts(d) \/ ReadWaiting(d) \/ FanoutCompletes(d) \/ Defer(d)
               \/ VerifyNotNeeded(d) \/ VerifyCompletes(d) \/ BestEffortRefused(d)
               \/ BestEffortCompletes(d) \/ Accept(d) \/ Recover(d) \/ \E f \in FanoutID : Expand(d, f)
        PROVE  run'[d].pc = "idle"
    <3>1. Finishes(d)
      BY <2>2 DEF Setup, SetupConflicts, ReadWaiting, FanoutCompletes, Defer, VerifyNotNeeded,
                  VerifyCompletes, BestEffortRefused, BestEffortCompletes, Accept, Recover, Expand
    <3> QED BY <3>1, FinishesEffect
  <2>3. ASSUME \/ ReadCandidates(d) \/ ReadUnresolved(d) \/ ReadPending(d) \/ BestEffort(d)
               \/ MarkSubmitted(d) \/ Send(d)
        PROVE  d \in Op
    <3>1. run[d].pc \in {"recovery", "post", "clear", "policy", "marked"}
      BY <2>3 DEF ReadCandidates, ReadUnresolved, ReadPending, BestEffort, MarkSubmitted, Send, At
    <3> QED BY <3>1, HandlerKinds
  <2>4. ASSUME FanoutReads(d) PROVE d \in FanoutID
    BY <2>4, HandlerKinds DEF FanoutReads, At
  <2>5. \/ \/ Setup(d) \/ SetupConflicts(d) \/ ReadWaiting(d) \/ FanoutCompletes(d) \/ Defer(d)
           \/ VerifyNotNeeded(d) \/ VerifyCompletes(d) \/ BestEffortRefused(d)
           \/ BestEffortCompletes(d) \/ Accept(d) \/ Recover(d) \/ \E f \in FanoutID : Expand(d, f)
        \/ \/ ReadCandidates(d) \/ ReadUnresolved(d) \/ ReadPending(d) \/ BestEffort(d)
           \/ MarkSubmitted(d) \/ Send(d)
        \/ FanoutReads(d)
        \/ d \in VerifyCell /\ Verify(d)
    BY <2>1 DEF Handle
  <2> QED BY <2>2, <2>3, <2>4, <2>5
<1>2. ASSUME NEW c \in Cells, Claim(c) PROVE Goal
  BY <1>2, GoesEffect DEF Claim
<1>3. ASSUME NEW c \in Cells, Fail(c) PROVE Goal
  BY <1>3, FinishesEffect DEF Fail
<1>4. ASSUME NEW q \in wire, NEW S \in SUBSET q.to, NEW ok \in BOOLEAN, Deliver(q, S, ok) PROVE Goal
  <2>1. q.from \in Cells
    BY DEF TypeOK
  <2>2. Awaited(q)
    BY <1>4 DEF Deliver
  <2>3. q.from = d
    BY <1>4, <2>1, <2>2, GoesEffect DEF Deliver
  <2> QED BY <1>4, <2>2, <2>3
<1>5. ASSUME NEW c \in Op, SendTimesOut(c) PROVE Goal
  <2>1. c = d
    BY <1>5, GoesEffect DEF SendTimesOut
  <2> QED BY <1>5, <2>1
<1>6. ASSUME Crash PROVE Goal
  BY <1>6 DEF Crash, Idle
<1>7. ASSUME \E c \in Op : AddSend(c) PROVE FALSE
  BY <1>7 DEF AddSend
<1>8. ASSUME Stop \/ Exit \/ Restart \/ UNCHANGED vars PROVE FALSE
  BY <1>8 DEF Stop, Exit, Restart, vars
<1>9. ASSUME \/ \E r \in Recipient : DelayPasses(r)
             \/ \E r \in Recipient, e \in Event : RecordEvent(r, e) PROVE FALSE
  BY <1>9 DEF DelayPasses, RecordEvent
<1> HIDE DEF Goal
<1>10. Goal
  BY <1>1, <1>2, <1>3, <1>4, <1>5, <1>6, <1>7, <1>8, <1>9 DEF Next, Network
<1> QED BY <1>10 DEF Goal

--------------------------------------------------------------------------------
(* Acceptance and evidence.                                                *)

LEMMA MailGrows ==
  ASSUME TypeOK, [Next]_vars, RunFits, NEW r \in Recipient
  PROVE  mail[r] > 0 => mail'[r] > 0
<1>1. ASSUME NEW q \in wire, NEW S \in SUBSET q.to, NEW ok \in BOOLEAN, Deliver(q, S, ok)
      PROVE  mail[r] > 0 => mail'[r] > 0
  BY <1>1 DEF Deliver, TypeOK
<1>2. ASSUME NEW c \in Op, Setup(c) \/ BestEffort(c) \/ MarkSubmitted(c) \/ Accept(c) \/ Recover(c)
      PROVE  mail' = mail
  BY <1>2 DEF Setup, BestEffort, MarkSubmitted, Accept, Recover, provider
<1>3. ASSUME NEW c \in Op, NEW f \in FanoutID, Expand(c, f) PROVE mail' = mail
  BY <1>3 DEF Expand, provider
<1>4. ASSUME NEW v \in VerifyCell, VerifyCompletes(v) PROVE mail' = mail
  BY <1>4 DEF VerifyCompletes, provider
<1>5. ASSUME \/ Restart \/ \E s \in Recipient : DelayPasses(s)
             \/ \E s \in Recipient, e \in Event : RecordEvent(s, e)
      PROVE  mail' = mail
  BY <1>5 DEF Restart, DelayPasses, RecordEvent, provider
<1> QED BY <1>1, <1>2, <1>3, <1>4, <1>5, RowSteps

(* An answer that a handler holds stays true, and comes only from a        *)
(* request that the provider took or a log that shows the message.         *)
LEMMA AnswerStep ==
  ASSUME TypeOK, RunFits, AnswerFits, [Next]_vars
  PROVE  AnswerFits'
<1> USE CellKinds
<1>1. ASSUME NEW c \in Op, run'[c].pc = "accepted", NEW r \in run'[c].to
      PROVE  mail'[r] > 0
  <2>1. CASE run'[c] = run[c]
    <3>1. r \in Recipient /\ mail[r] > 0
      BY <1>1, <2>1, StepTypes DEF AnswerFits
    <3> QED BY <3>1, MailGrows
  <2>2. CASE run'[c] # run[c]
    <3>0. PICK q \in wire : \E S \in SUBSET q.to, ok \in BOOLEAN :
            Deliver(q, S, ok) /\ Awaited(q) /\ q.from = c
      <4>1. ~Claim(c)
        <5>1. ASSUME Claim(c) PROVE run'[c].pc = cell[c]
          BY <5>1, GoesEffect DEF Claim
        <5> QED BY <1>1, <5>1 DEF TypeOK
      <4>2. ~(ReadCandidates(c) \/ ReadUnresolved(c) \/ ReadPending(c) \/ BestEffort(c)
               \/ MarkSubmitted(c) \/ Send(c) \/ SendTimesOut(c))
        BY <1>1, GoesEffect, FinishesEffect, MarkEffect
           DEF ReadCandidates, ReadUnresolved, ReadPending, BestEffort, Send, SendTimesOut
      <4> QED BY <1>1, <2>2, <4>1, <4>2, RunSteps, KindsDiffer
    <3>1. PICK S \in SUBSET q.to, ok \in BOOLEAN : Deliver(q, S, ok) /\ Awaited(q) /\ q.from = c
      BY <3>0
    <3>2. q.to \subseteq Recipient /\ Goes(c, IF ok THEN "accepted" ELSE "uncertain", q.to)
      BY <3>1 DEF Deliver, TypeOK
    <3>3. ok /\ run'[c].to = q.to
      BY <1>1, <3>2, GoesEffect
    <3>4. S = q.to
      BY <3>1, <3>3 DEF Deliver, Identified
    <3> QED BY <1>1, <3>1, <3>2, <3>3, <3>4 DEF Deliver, TypeOK
  <2> QED BY <2>1, <2>2
<1>2. ASSUME NEW v \in VerifyCell, run'[v].pc = "found"
      PROVE  mail'[v[2]] > 0
  <2>1. mail[v[2]] > 0
    <3>1. CASE run'[v] = run[v]
      BY <1>2, <3>1 DEF AnswerFits
    <3>2. CASE run'[v] # run[v]
      <4>1. ~Claim(v)
        <5>1. ASSUME Claim(v) PROVE run'[v].pc = cell[v]
          BY <5>1, GoesEffect DEF Claim
        <5> QED BY <1>2, <5>1 DEF TypeOK
      <4>2. \A q \in wire : q.from # v
        BY KindsDiffer DEF TypeOK
      <4>3. Verify(v)
        BY <1>2, <3>2, <4>1, <4>2, RunSteps, KindsDiffer
      <4>4. PICK found \in LogShows(v[2]) : Goes(v, IF found THEN "found" ELSE "missing", {})
        BY <4>3 DEF Verify
      <4>5. found
        BY <1>2, <4>4, GoesEffect
      <4> QED BY <4>4, <4>5 DEF LogShows
    <3> QED BY <3>1, <3>2
  <2> QED BY <2>1, MailGrows
<1> QED BY <1>1, <1>2 DEF AnswerFits

LEMMA AcceptedStep ==
  ASSUME TypeOK, RunFits, AnswerFits, AcceptedIsReal, [Next]_vars
  PROVE  AcceptedIsReal'
<1> DEFINE Settled == {"Accepted"} \cup Evidence
<1> USE CellKinds
<1>0. \A r \in Recipient : row[r].state \in State /\ mail[r] \in Nat
  BY DEF TypeOK, Row
<1>1. CASE UNCHANGED <<row, mail, suppressed>>
  BY <1>1 DEF AcceptedIsReal
<1>2. ASSUME NEW c \in Op, Setup(c) PROVE AcceptedIsReal'
  BY <1>2, SetStateEffect DEF Setup, provider, AcceptedIsReal, Evidence
<1>3. ASSUME NEW c \in Op, BestEffort(c) PROVE AcceptedIsReal'
  BY <1>3, SetStateEffect DEF BestEffort, provider, AcceptedIsReal
<1>4. ASSUME NEW c \in Op, MarkSubmitted(c) PROVE AcceptedIsReal'
  <2>1. mail' = mail /\ suppressed' = suppressed
    BY <1>4 DEF MarkSubmitted
  <2> QED BY <1>4, <2>1, MarkRows DEF AcceptedIsReal
<1>5. ASSUME NEW c \in Op, Accept(c) PROVE AcceptedIsReal'
  BY <1>5, SetStateEffect DEF Accept, At, provider, AcceptedIsReal, AnswerFits
<1>6. ASSUME NEW c \in Op, Recover(c) PROVE AcceptedIsReal'
  BY <1>6, SetStateEffect DEF Recover, provider, AcceptedIsReal, Evidence
<1>7. ASSUME NEW c \in Op, NEW f \in FanoutID, Expand(c, f) PROVE AcceptedIsReal'
  BY <1>7, SetStateEffect DEF Expand, provider, AcceptedIsReal, Evidence
<1>8. ASSUME NEW v \in VerifyCell, VerifyCompletes(v) PROVE AcceptedIsReal'
  <2>1. mail' = mail /\ suppressed' = suppressed /\ run[v].pc \in {"found", "missing"}
    BY <1>8 DEF VerifyCompletes, provider, At
  <2> QED BY <1>8, <2>1, VerifyRows DEF AcceptedIsReal, AnswerFits, Evidence
<1>9. CASE Restart
  BY <1>9, SetStateEffect DEF Restart, provider, AcceptedIsReal, Evidence
<1>10. ASSUME NEW q \in wire, NEW S \in SUBSET q.to, NEW ok \in BOOLEAN, Deliver(q, S, ok)
       PROVE  AcceptedIsReal'
  BY <1>0, <1>10, MailGrows DEF Deliver, durable, AcceptedIsReal
<1>11. ASSUME NEW r \in Recipient, DelayPasses(r) PROVE AcceptedIsReal'
  <2>1. mail' = mail /\ suppressed' = suppressed
    BY <1>11 DEF DelayPasses, provider
  <2> QED BY <1>11, <2>1, DelayRows DEF AcceptedIsReal
<1>12. ASSUME NEW r \in Recipient, NEW e \in Event, RecordEvent(r, e) PROVE AcceptedIsReal'
  <2>1. mail' = mail /\ suppressed' = suppressed /\ mail[r] > 0
    BY <1>12 DEF RecordEvent, provider
  <2> QED BY <1>12, <2>1, EventRows DEF AcceptedIsReal
<1> QED BY <1>1, <1>2, <1>3, <1>4, <1>5, <1>6, <1>7, <1>8, <1>9, <1>10, <1>11, <1>12, RowSteps

LEMMA EvidenceStep ==
  ASSUME TypeOK, RunFits, RequestFits, [Next]_vars, NEW r \in Recipient, row[r].state \in Evidence
  PROVE  row'[r].state \in Evidence
<1> USE CellKinds
<1>0. row[r].state \in State /\ row[r].state \notin {"none", "Pending", "Accepted", "Recovery", "RecoveryWaiting"}
  BY DEF TypeOK, Row, Evidence
<1>2. ASSUME NEW c \in Op, Setup(c) PROVE row' = row
  <2>1. request # "none"
    BY <1>0 DEF RequestFits, NoRow
  <2> QED BY <1>2, <2>1 DEF Setup
<1>3. ASSUME NEW c \in Op, BestEffort(c) PROVE row'[r].state = row[r].state
  BY <1>0, <1>3, SetStateEffect DEF BestEffort, AllUntouched
<1>4. ASSUME NEW c \in Op, MarkSubmitted(c) PROVE row'[r].state = row[r].state
  BY <1>4, MarkRows
<1>5. ASSUME NEW c \in Op, Accept(c) PROVE row'[r].state = row[r].state
  BY <1>0, <1>5, SetStateEffect DEF Accept, InState
<1>6. ASSUME NEW c \in Op, Recover(c) PROVE row'[r].state = row[r].state
  BY <1>0, <1>6, SetStateEffect DEF Recover, Interrupted, InState
<1>7. ASSUME NEW c \in Op, NEW f \in FanoutID, Expand(c, f) PROVE row'[r].state = row[r].state
  BY <1>0, <1>7, SetStateEffect DEF Expand, InState
<1>8. ASSUME NEW v \in VerifyCell, VerifyCompletes(v) PROVE row'[r].state = row[r].state
  BY <1>0, <1>8, VerifyRows
<1>9. CASE Restart
  BY <1>0, <1>9, SetStateEffect DEF Restart, Interrupted, InState
<1>10. ASSUME NEW q \in wire, NEW S \in SUBSET q.to, NEW ok \in BOOLEAN, Deliver(q, S, ok)
       PROVE  row' = row
  BY <1>10 DEF Deliver, durable
<1>11. ASSUME NEW s \in Recipient, DelayPasses(s) PROVE row'[r].state = row[r].state
  BY <1>11, DelayRows
<1>12. ASSUME NEW s \in Recipient, NEW e \in Event, RecordEvent(s, e) PROVE row'[r].state \in Evidence
  BY <1>0, <1>12, EventRows, EventAdvances
<1> QED BY <1>2, <1>3, <1>4, <1>5, <1>6, <1>7, <1>8, <1>9, <1>10, <1>11, <1>12, RowSteps

--------------------------------------------------------------------------------
(* Who arrives where.                                                      *)

LEMMA DispatchEffect ==
  ASSUME TypeOK, NEW c \in Cells, Claim(c)
  PROVE  run'[c].pc = cell[c] /\ run'[c].to = {} /\ \A d \in Cells : d # c => run'[d] = run[d]
BY GoesEffect DEF Claim

LEMMA Arrivals ==
  ASSUME TypeOK, RunFits, [Next]_vars, NEW c \in Op, run'[c] # run[c]
  PROVE  /\ run'[c].pc = "expand" => ReadCandidates(c)
         /\ run'[c].pc = "clear" => ReadUnresolved(c)
         /\ run'[c].pc = "policy" => ReadPending(c)
         /\ run'[c].pc = "besteffort" => BestEffort(c)
         /\ run'[c].pc = "marked" => MarkSubmitted(c)
         /\ run'[c].pc = "sending" => Send(c)
         /\ run'[c].pc \in {"accepted", "uncertain"} =>
              \/ SendTimesOut(c)
              \/ \E q \in wire : \E S \in SUBSET q.to, ok \in BOOLEAN :
                   Deliver(q, S, ok) /\ Awaited(q) /\ q.from = c
<1> USE CellKinds
<1>1. ASSUME Claim(c) PROVE run'[c].pc \in {"setup", "recovery", "post", "fanout", "verify", "absent"}
  BY <1>1, DispatchEffect DEF TypeOK
<1>2. ASSUME ReadCandidates(c) PROVE run'[c].pc \in {"noCandidates", "expand"}
  BY <1>2, GoesEffect DEF ReadCandidates
<1>3. ASSUME ReadUnresolved(c) PROVE run'[c].pc \in {"idle", "clear"}
  BY <1>3, GoesEffect, FinishesEffect DEF ReadUnresolved
<1>4. ASSUME ReadPending(c) PROVE run'[c].pc \in {"idle", "policy"}
  BY <1>4, GoesEffect, FinishesEffect DEF ReadPending
<1>5. ASSUME BestEffort(c) PROVE run'[c].pc = "besteffort"
  BY <1>5, GoesEffect DEF BestEffort
<1>6. ASSUME MarkSubmitted(c) PROVE run'[c].pc = "marked"
  BY <1>6, MarkEffect
<1>7. ASSUME Send(c) PROVE run'[c].pc = "sending"
  BY <1>7, GoesEffect DEF Send
<1>8. ASSUME SendTimesOut(c) PROVE run'[c].pc = "uncertain"
  BY <1>8, GoesEffect DEF SendTimesOut
<1>9. ASSUME NEW q \in wire, NEW S \in SUBSET q.to, NEW ok \in BOOLEAN,
             Deliver(q, S, ok), Awaited(q), q.from = c
      PROVE  run'[c].pc \in {"accepted", "uncertain"}
  BY <1>9, GoesEffect DEF Deliver
<1>10. c \notin FanoutID /\ c \notin VerifyCell
  BY KindsDiffer
<1> QED BY <1>1, <1>2, <1>3, <1>4, <1>5, <1>6, <1>7, <1>8, <1>9, <1>10, RunSteps

(* The cells of recovery come from an expansion and a fanout, and end with *)
(* a verification.                                                         *)
LEMMA CellSteps ==
  ASSUME TypeOK, RunFits, [Next]_vars
  PROVE  \/ \A c \in FanoutID \cup VerifyCell : cell'[c] = cell[c]
         \/ \E c \in Op, f \in FanoutID : Expand(c, f)
         \/ \E f \in FanoutID : FanoutCompletes(f)
         \/ \E v \in VerifyCell : VerifyNotNeeded(v) \/ VerifyCompletes(v)
<1> DEFINE Same == \A c \in FanoutID \cup VerifyCell : cell'[c] = cell[c]
<1> USE CellKinds, KindsDiffer
<1>1. ASSUME NEW c \in Cells, Handle(c)
      PROVE  \/ Same
             \/ c \in Op /\ \E f \in FanoutID : Expand(c, f)
             \/ c \in FanoutID /\ FanoutCompletes(c)
             \/ c \in VerifyCell /\ (VerifyNotNeeded(c) \/ VerifyCompletes(c))
  <2>1. ASSUME NEW f \in FanoutID, Expand(c, f) PROVE c \in Op
    BY <2>1, HandlerKinds DEF Expand, At
  <2>2. ASSUME FanoutCompletes(c) PROVE c \in FanoutID
    BY <2>2, HandlerKinds DEF FanoutCompletes, At
  <2>3. ASSUME SetupConflicts(c) \/ ReadCandidates(c) \/ FanoutReads(c) \/ Verify(c) PROVE Same
    BY <2>3 DEF SetupConflicts, ReadCandidates, FanoutReads, Verify, durable
  <2>4. ASSUME Defer(c) \/ BestEffort(c) \/ BestEffortRefused(c) \/ MarkSubmitted(c) \/ Send(c) PROVE Same
    BY <2>4 DEF Defer, BestEffort, BestEffortRefused, MarkSubmitted, Send, durable
  <2>5. ASSUME Setup(c) \/ ReadWaiting(c) \/ ReadUnresolved(c) PROVE Same
    <3>1. c \in Op
      BY <2>5, HandlerKinds DEF Setup, ReadWaiting, ReadUnresolved, At
    <3> QED BY <2>5, <3>1 DEF Setup, ReadWaiting, ReadUnresolved, TypeOK
  <2>6. ASSUME ReadPending(c) \/ BestEffortCompletes(c) \/ Accept(c) \/ Recover(c) PROVE Same
    <3>1. c \in Op
      BY <2>6, HandlerKinds DEF ReadPending, BestEffortCompletes, Accept, Recover, At
    <3> QED BY <2>6, <3>1 DEF ReadPending, BestEffortCompletes, Accept, Recover, TypeOK
  <2> QED BY <1>1, <2>1, <2>2, <2>3, <2>4, <2>5, <2>6 DEF Handle
<1>2. ASSUME NEW c \in Op, AddSend(c) PROVE Same
  BY <1>2 DEF AddSend, TypeOK
<1>3. ASSUME NEW c \in Cells, Claim(c) \/ Fail(c) PROVE Same
  BY <1>3 DEF Claim, Fail, durable
<1>4. ASSUME Stop \/ Exit \/ Crash \/ Restart \/ UNCHANGED vars PROVE Same
  BY <1>4 DEF Stop, Exit, Crash, Restart, durable, vars
<1>5. ASSUME Network PROVE Same
  BY <1>5 DEF Network, Deliver, SendTimesOut, durable
<1>6. ASSUME \/ \E r \in Recipient : DelayPasses(r)
             \/ \E r \in Recipient, e \in Event : RecordEvent(r, e) PROVE Same
  BY <1>6 DEF DelayPasses, RecordEvent
<1> HIDE DEF Same
<1>7. \/ Same
      \/ \E c \in Op, f \in FanoutID : Expand(c, f)
      \/ \E f \in FanoutID : FanoutCompletes(f)
      \/ \E v \in VerifyCell : VerifyNotNeeded(v) \/ VerifyCompletes(v)
  BY <1>1, <1>2, <1>3, <1>4, <1>5, <1>6 DEF Next
<1> QED BY <1>7 DEF Same

(* Requests and their numbers. *)
LEMMA WireSteps ==
  ASSUME TypeOK, RunFits, [Next]_vars
  PROVE  \/ wire' \subseteq wire /\ sends' = sends
         \/ \E c \in Op : Send(c)
         \/ \E c \in Op : MarkSubmitted(c)
<1> DEFINE Same == wire' \subseteq wire /\ sends' = sends
<1>0. ASSUME NEW c \in Cells, Send(c) \/ MarkSubmitted(c) PROVE c \in Op
  BY <1>0, HandlerKinds DEF Send, MarkSubmitted, At
<1>1. ASSUME NEW c \in Cells, Handle(c), ~Send(c), ~MarkSubmitted(c)
      PROVE  Same
  <2>1. ASSUME \/ Setup(c) \/ SetupConflicts(c) \/ ReadCandidates(c) \/ ReadWaiting(c) \/ FanoutReads(c)
               \/ FanoutCompletes(c) \/ \E f \in FanoutID : Expand(c, f)
        PROVE  Same
    BY <2>1 DEF Setup, SetupConflicts, ReadCandidates, ReadWaiting, FanoutReads, FanoutCompletes, Expand,
                provider
  <2>2. ASSUME \/ VerifyNotNeeded(c) \/ Verify(c) \/ VerifyCompletes(c) \/ ReadUnresolved(c)
               \/ ReadPending(c) \/ Defer(c)
        PROVE  Same
    BY <2>2 DEF VerifyNotNeeded, Verify, VerifyCompletes, ReadUnresolved, ReadPending, Defer, provider
  <2>3. ASSUME BestEffort(c) \/ BestEffortRefused(c) \/ BestEffortCompletes(c) \/ Accept(c) \/ Recover(c)
        PROVE  Same
    BY <2>3 DEF BestEffort, BestEffortRefused, BestEffortCompletes, Accept, Recover, provider
  <2>4. \/ Send(c) \/ MarkSubmitted(c)
        \/ \/ Setup(c) \/ SetupConflicts(c) \/ ReadCandidates(c) \/ ReadWaiting(c) \/ FanoutReads(c)
           \/ FanoutCompletes(c) \/ \E f \in FanoutID : Expand(c, f)
        \/ \/ VerifyNotNeeded(c) \/ Verify(c) \/ VerifyCompletes(c) \/ ReadUnresolved(c)
           \/ ReadPending(c) \/ Defer(c)
        \/ BestEffort(c) \/ BestEffortRefused(c) \/ BestEffortCompletes(c) \/ Accept(c) \/ Recover(c)
    BY <1>1 DEF Handle
  <2> QED BY <1>1, <2>1, <2>2, <2>3, <2>4
<1>2. ASSUME NEW c \in Op, AddSend(c) PROVE Same
  BY <1>2 DEF AddSend, provider
<1>3. ASSUME NEW c \in Cells, Claim(c) \/ Fail(c) PROVE Same
  BY <1>3 DEF Claim, Fail, provider
<1>4. ASSUME Stop \/ Exit \/ Crash \/ Restart \/ UNCHANGED vars PROVE Same
  BY <1>4 DEF Stop, Exit, Crash, Restart, provider, vars
<1>5. ASSUME Network PROVE Same
  BY <1>5 DEF Network, Deliver, SendTimesOut, provider
<1>6. ASSUME \/ \E r \in Recipient : DelayPasses(r)
             \/ \E r \in Recipient, e \in Event : RecordEvent(r, e) PROVE Same
  BY <1>6 DEF DelayPasses, RecordEvent, provider
<1> HIDE DEF Same
<1>7. Same \/ \E c \in Op : Send(c) \/ MarkSubmitted(c)
  BY <1>0, <1>1, <1>2, <1>3, <1>4, <1>5, <1>6 DEF Next
<1> QED BY <1>7 DEF Same

LEMMA NumbersStep ==
  ASSUME TypeOK, RunFits, NumbersFit, [Next]_vars
  PROVE  NumbersFit'
<1> USE CellKinds
<1>1. sends' >= sends /\ sends \in Nat /\ sends' \in Nat
  <2>1. ASSUME NEW c \in Op, Send(c) PROVE sends' = sends
    BY <2>1 DEF Send
  <2>2. ASSUME NEW c \in Op, MarkSubmitted(c) PROVE sends' = sends + 1
    BY <2>2 DEF MarkSubmitted
  <2> QED BY <2>1, <2>2, WireSteps DEF TypeOK
<1>2. ASSUME NEW q \in wire' PROVE q.n <= sends'
  <2>1. CASE q \in wire
    BY <1>1, <2>1 DEF NumbersFit, TypeOK
  <2>2. ASSUME NEW c \in Op, Send(c), q \notin wire PROVE q.n <= sends'
    BY <1>2, <2>2 DEF Send, At, NumbersFit
  <2>3. ASSUME NEW c \in Op, MarkSubmitted(c) PROVE q \in wire
    BY <1>2, <2>3 DEF MarkSubmitted
  <2> QED BY <1>2, <2>1, <2>2, <2>3, WireSteps
<1>3. ASSUME NEW c \in Op, run'[c].pc \in {"marked", "sending"}
      PROVE  1 <= run'[c].n /\ run'[c].n <= sends'
  <2>1. CASE run'[c] = run[c]
    BY <1>1, <1>3, <2>1, StepTypes DEF NumbersFit
  <2>2. CASE run'[c] # run[c] /\ MarkSubmitted(c)
    <3>1. run'[c].n = sends + 1 /\ sends' = sends + 1
      BY <2>2, MarkEffect DEF MarkSubmitted
    <3> QED BY <1>1, <3>1
  <2>3. CASE run'[c] # run[c] /\ Send(c)
    <3>1. run'[c].n = run[c].n /\ run[c].pc = "marked"
      BY <2>3, GoesEffect DEF Send, At
    <3> QED BY <1>1, <3>1, StepTypes DEF NumbersFit
  <2> QED BY <1>3, <2>1, <2>2, <2>3, Arrivals
<1> QED BY <1>2, <1>3 DEF NumbersFit

--------------------------------------------------------------------------------
(* Requests, suppressions and waiting recipients.                          *)

(* Before a request is stored no sequence is beyond Setup. *)
LEMMA NothingRuns ==
  ASSUME RunFits, RequestFits, request = "none", NEW c \in Cells, c \in Op
  PROVE  run[c].pc \in {"idle", "setup"}
BY DEF RunFits, SequenceFits, RequestFits

LEMMA RequestStays ==
  ASSUME RunFits, [Next]_vars, request' = "none"
  PROVE  request = "none" /\ \A c \in Op : ~Setup(c)
<1>1. ASSUME NEW c \in Op, Setup(c) PROVE FALSE
  BY <1>1, EmailConstants DEF Setup
<1>2. ASSUME NEW c \in Cells, Handle(c) PROVE request' = request
  <2>1. ASSUME Setup(c) PROVE FALSE
    BY <1>1, <2>1, HandlerKinds DEF Setup, At
  <2>2. ASSUME \/ SetupConflicts(c) \/ ReadCandidates(c) \/ ReadWaiting(c) \/ FanoutReads(c)
               \/ FanoutCompletes(c) \/ \E f \in FanoutID : Expand(c, f)
        PROVE  request' = request
    BY <2>2 DEF SetupConflicts, ReadCandidates, ReadWaiting, FanoutReads, FanoutCompletes, Expand, durable
  <2>3. ASSUME \/ VerifyNotNeeded(c) \/ Verify(c) \/ VerifyCompletes(c) \/ ReadUnresolved(c)
               \/ ReadPending(c) \/ Defer(c)
        PROVE  request' = request
    BY <2>3 DEF VerifyNotNeeded, Verify, VerifyCompletes, ReadUnresolved, ReadPending, Defer, durable
  <2>4. ASSUME \/ BestEffort(c) \/ BestEffortRefused(c) \/ BestEffortCompletes(c) \/ MarkSubmitted(c)
               \/ Send(c) \/ Accept(c) \/ Recover(c)
        PROVE  request' = request
    BY <2>4 DEF BestEffort, BestEffortRefused, BestEffortCompletes, MarkSubmitted, Send, Accept, Recover,
                durable
  <2> QED BY <1>2, <2>1, <2>2, <2>3, <2>4 DEF Handle
<1>3. ASSUME \/ \E c \in Op : AddSend(c)
             \/ \E c \in Cells : Claim(c) \/ Fail(c)
             \/ Stop \/ Exit \/ Crash \/ Restart \/ UNCHANGED vars
      PROVE  request' = request
  BY <1>3 DEF AddSend, Claim, Fail, Stop, Exit, Crash, Restart, vars, durable
<1>4. ASSUME \/ Network
             \/ \E r \in Recipient : DelayPasses(r)
             \/ \E r \in Recipient, e \in Event : RecordEvent(r, e)
      PROVE  request' = request
  BY <1>4 DEF Network, Deliver, SendTimesOut, DelayPasses, RecordEvent, durable
<1> QED BY <1>1, <1>2, <1>3, <1>4 DEF Next

(* The cell of a sequence is beyond Setup only after a Setup. *)
LEMMA SetupFirst ==
  ASSUME TypeOK, RunFits, [Next]_vars, NEW c \in Op, cell[c] \in {"absent", "setup"},
         cell'[c] \notin {"absent", "setup"}
  PROVE  Setup(c)
<1> USE CellKinds, KindsDiffer
<1>1. ASSUME NEW d \in Cells, Handle(d) PROVE Setup(c)
  <2>1. ASSUME \/ SetupConflicts(d) \/ ReadCandidates(d) \/ FanoutReads(d) \/ Verify(d) \/ Defer(d)
               \/ BestEffort(d) \/ BestEffortRefused(d) \/ MarkSubmitted(d) \/ Send(d)
        PROVE  FALSE
    BY <2>1 DEF SetupConflicts, ReadCandidates, FanoutReads, Verify, Defer, BestEffort, BestEffortRefused,
                MarkSubmitted, Send, durable
  <2>2. ASSUME ReadWaiting(d) PROVE FALSE
    <3>1. d \in Op /\ cell[d] = "recovery"
      BY <2>2, HandlerKinds DEF ReadWaiting, At, RunFits, SequenceFits
    <3> QED BY <2>2, <3>1 DEF ReadWaiting, TypeOK
  <2>3. ASSUME FanoutCompletes(d) PROVE FALSE
    <3>1. d \in FanoutID
      BY <2>3, HandlerKinds DEF FanoutCompletes, At
    <3> QED BY <2>3, <3>1, FanoutEffect
  <2>4. ASSUME NEW f \in FanoutID, Expand(d, f) PROVE FALSE
    BY <2>4 DEF Expand, TypeOK
  <2>5. ASSUME \/ VerifyNotNeeded(d) \/ VerifyCompletes(d) \/ ReadUnresolved(d) \/ ReadPending(d)
               \/ BestEffortCompletes(d) \/ Accept(d) \/ Recover(d)
        PROVE  FALSE
    BY <2>5 DEF VerifyNotNeeded, VerifyCompletes, ReadUnresolved, ReadPending, BestEffortCompletes, Accept,
                Recover, TypeOK
  <2>6. ASSUME Setup(d) PROVE c = d
    BY <2>6 DEF Setup, TypeOK
  <2> QED BY <1>1, <2>1, <2>2, <2>3, <2>4, <2>5, <2>6 DEF Handle
<1>2. ASSUME \/ \E d \in Op : AddSend(d)
             \/ \E d \in Cells : Claim(d) \/ Fail(d)
             \/ Stop \/ Exit \/ Crash \/ Restart \/ UNCHANGED vars
      PROVE  FALSE
  BY <1>2 DEF AddSend, Claim, Fail, Stop, Exit, Crash, Restart, vars, durable, TypeOK
<1>3. ASSUME \/ Network
             \/ \E r \in Recipient : DelayPasses(r)
             \/ \E r \in Recipient, e \in Event : RecordEvent(r, e)
      PROVE  FALSE
  BY <1>3 DEF Network, Deliver, SendTimesOut, DelayPasses, RecordEvent, durable
<1> QED BY <1>1, <1>2, <1>3 DEF Next

LEMMA RequestStep ==
  ASSUME TypeOK, RunFits, RequestFits, [Next]_vars
  PROVE  RequestFits'
<1> SUFFICES ASSUME request' = "none"
             PROVE  /\ \A r \in Recipient : row'[r] = NoRow /\ mail'[r] = 0
                    /\ wire' = {}
                    /\ \A c \in Op : cell'[c] \in {"absent", "setup"}
                    /\ \A f \in FanoutID : cell'[f] = "absent"
  BY DEF RequestFits
<1> USE CellKinds
<1>1. request = "none" /\ \A c \in Op : ~Setup(c)
  BY RequestStays
<1>2. /\ \A r \in Recipient : row[r] = NoRow /\ mail[r] = 0
      /\ wire = {}
      /\ \A c \in Op : cell[c] \in {"absent", "setup"} /\ run[c].pc \in {"idle", "setup"}
      /\ \A f \in FanoutID : cell[f] = "absent"
  BY <1>1, NothingRuns DEF RequestFits
<1>3. \A c \in Op : cell'[c] \in {"absent", "setup"}
  BY <1>1, <1>2, SetupFirst
<1>4. wire' = {}
  <2>1. ASSUME NEW c \in Op, Send(c) \/ MarkSubmitted(c) PROVE FALSE
    BY <1>2, <2>1 DEF Send, MarkSubmitted, At
  <2> QED BY <1>2, <2>1, WireSteps
<1>5. ASSUME NEW r \in Recipient PROVE row'[r] = NoRow /\ mail'[r] = 0
  <2>1. row[r] = NoRow /\ row[r].state = "none" /\ row[r].submitted = FALSE /\ row[r].ripe = FALSE /\ mail[r] = 0
    BY <1>2 DEF NoRow
  <2>2. ASSUME NEW c \in Op, BestEffort(c) \/ MarkSubmitted(c) \/ Accept(c) \/ Recover(c) PROVE FALSE
    BY <1>2, <2>2 DEF BestEffort, MarkSubmitted, Accept, Recover, At
  <2>3. ASSUME NEW c \in Op, NEW f \in FanoutID, Expand(c, f) PROVE FALSE
    BY <1>2, <2>3 DEF Expand, At
  <2>4. ASSUME NEW v \in VerifyCell, VerifyCompletes(v) PROVE row'[r] = row[r] /\ mail' = mail
    <3>1. row[v[2]].state = "none"
      BY <1>2 DEF NoRow
    <3> QED BY <2>4, <3>1 DEF VerifyCompletes, provider
  <2>5. CASE Restart
    <3>1. r \notin Interrupted
      BY <2>1 DEF Interrupted, InState
    <3> QED BY <2>1, <2>5, <3>1 DEF Restart, SetState, provider
  <2>6. ASSUME NEW s \in Recipient, DelayPasses(s) PROVE row'[r] = NoRow /\ mail' = mail
    <3>1. mail' = mail /\ row' = [row EXCEPT ![s] = [row[s] EXCEPT !.ripe = row[s].submitted]]
      BY <2>6 DEF DelayPasses, provider
    <3>2. CASE s # r
      BY <2>1, <3>1, <3>2 DEF TypeOK
    <3>3. CASE s = r
      <4>1. row'[r] = [row[r] EXCEPT !.ripe = FALSE]
        BY <2>1, <3>1, <3>3 DEF TypeOK
      <4>2. row'[r] \in Row
        <5>1. row[r] \in Row
          BY DEF TypeOK
        <5> QED BY <4>1, <5>1 DEF Row
      <4>3. row'[r].state = "none" /\ row'[r].submitted = FALSE /\ row'[r].ripe = FALSE
        BY <2>1, <2>6, <3>3, DelayRows
      <4> QED BY <3>1, <4>2, <4>3 DEF Row, NoRow
    <3> QED BY <3>2, <3>3, <3>1
  <2>7. ASSUME NEW s \in Recipient, NEW e \in Event, RecordEvent(s, e) PROVE FALSE
    BY <1>2, <2>7 DEF RecordEvent
  <2> QED BY <1>1, <1>2, <2>1, <2>2, <2>3, <2>4, <2>5, <2>6, <2>7, RowSteps
<1>6. ASSUME NEW f \in FanoutID PROVE cell'[f] = "absent"
  <2>1. ASSUME NEW c \in Op, NEW g \in FanoutID, Expand(c, g) PROVE FALSE
    BY <1>2, <2>1 DEF Expand, At
  <2>2. ASSUME NEW g \in FanoutID, FanoutCompletes(g) PROVE cell'[f] = "absent"
    BY <1>2, <2>2, FanoutEffect
  <2>3. ASSUME NEW v \in VerifyCell, VerifyNotNeeded(v) \/ VerifyCompletes(v) PROVE cell'[f] = cell[f]
    BY <2>3, KindsDiffer DEF VerifyNotNeeded, VerifyCompletes, TypeOK
  <2> QED BY <1>2, <2>1, <2>2, <2>3, CellSteps
<1> QED BY <1>3, <1>4, <1>5, <1>6

(* A settled row stays settled. *)
LEMMA SettledStep ==
  ASSUME TypeOK, RunFits, RequestFits, [Next]_vars, NEW r \in Recipient,
         row[r].state \in {"Accepted"} \cup Evidence
  PROVE  row'[r].state \in {"Accepted"} \cup Evidence
<1> USE CellKinds
<1>0. row[r].state \in State /\ row[r].state \notin {"none", "Pending", "Recovery", "RecoveryWaiting"}
  BY DEF TypeOK, Row, Evidence
<1>2. ASSUME NEW c \in Op, Setup(c) PROVE row' = row
  <2>1. request # "none"
    BY <1>0 DEF RequestFits, NoRow
  <2> QED BY <1>2, <2>1 DEF Setup
<1>3. ASSUME NEW c \in Op, BestEffort(c) PROVE row'[r].state = row[r].state
  BY <1>0, <1>3, SetStateEffect DEF BestEffort, AllUntouched
<1>4. ASSUME NEW c \in Op, MarkSubmitted(c) PROVE row'[r].state = row[r].state
  BY <1>4, MarkRows
<1>5. ASSUME NEW c \in Op, Accept(c) PROVE row'[r].state = row[r].state
  BY <1>0, <1>5, SetStateEffect DEF Accept, InState
<1>6. ASSUME NEW c \in Op, Recover(c) PROVE row'[r].state = row[r].state
  BY <1>0, <1>6, SetStateEffect DEF Recover, Interrupted, InState
<1>7. ASSUME NEW c \in Op, NEW f \in FanoutID, Expand(c, f) PROVE row'[r].state = row[r].state
  BY <1>0, <1>7, SetStateEffect DEF Expand, InState
<1>8. ASSUME NEW v \in VerifyCell, VerifyCompletes(v) PROVE row'[r].state = row[r].state
  BY <1>0, <1>8, VerifyRows
<1>9. CASE Restart
  BY <1>0, <1>9, SetStateEffect DEF Restart, Interrupted, InState
<1>10. ASSUME NEW q \in wire, NEW S \in SUBSET q.to, NEW ok \in BOOLEAN, Deliver(q, S, ok)
       PROVE  row' = row
  BY <1>10 DEF Deliver, durable
<1>11. ASSUME NEW s \in Recipient, DelayPasses(s) PROVE row'[r].state = row[r].state
  BY <1>11, DelayRows
<1>12. ASSUME NEW s \in Recipient, NEW e \in Event, RecordEvent(s, e)
       PROVE  row'[r].state \in {"Accepted"} \cup Evidence
  BY <1>0, <1>12, EventRows, EventAdvances
<1> QED BY <1>2, <1>3, <1>4, <1>5, <1>6, <1>7, <1>8, <1>9, <1>10, <1>11, <1>12, RowSteps

(* With one worker, or one sequence, one sequence is handled at a time. *)
LEMMA OneAtATime ==
  ASSUME RunFits, Alone, NEW c \in Op, NEW d \in Op, run[c].pc # "idle", run[d].pc # "idle"
  PROVE  c = d
<1>1. CASE Workers = 1
  <2>1. c \in Busy /\ d \in Busy
    BY CellKinds DEF Busy
  <2> QED BY <1>1, <2>1 DEF RunFits, BusyFits
<1>2. CASE Cardinality(Op) = 1
  <2>1. PICK x : Op = {x}
    BY <1>2, FS_Singleton, EmailConstants
  <2> QED BY <2>1
<1> QED BY <1>1, <1>2 DEF Alone

LEMMA SuppressionSteps ==
  ASSUME TypeOK, RunFits, [Next]_vars
  PROVE  suppressed' = suppressed \/ \E c \in Op : BestEffort(c)
<1>1. ASSUME NEW c \in Op, Setup(c) \/ MarkSubmitted(c) \/ Accept(c) \/ Recover(c)
      PROVE  suppressed' = suppressed
  BY <1>1 DEF Setup, MarkSubmitted, Accept, Recover
<1>2. ASSUME NEW c \in Op, NEW f \in FanoutID, Expand(c, f) PROVE suppressed' = suppressed
  BY <1>2 DEF Expand
<1>3. ASSUME \/ \E v \in VerifyCell : VerifyCompletes(v)
             \/ Restart
             \/ \E q \in wire : \E S \in SUBSET q.to, ok \in BOOLEAN : Deliver(q, S, ok)
             \/ \E r \in Recipient : DelayPasses(r)
             \/ \E r \in Recipient, e \in Event : RecordEvent(r, e)
      PROVE  suppressed' = suppressed
  BY <1>3 DEF VerifyCompletes, Restart, Deliver, DelayPasses, RecordEvent
<1> QED BY <1>1, <1>2, <1>3, RowSteps

LEMMA SuppressedStep ==
  ASSUME TypeOK, RunFits, RequestFits, SuppressedFits, [Next]_vars
  PROVE  SuppressedFits'
<1> USE CellKinds
<1>1. ASSUME NEW r \in suppressed' PROVE row'[r].state \in {"Accepted"} \cup Evidence
  <2>1. CASE r \in suppressed
    BY <2>1, SettledStep DEF SuppressedFits, TypeOK
  <2>2. ASSUME NEW c \in Op, BestEffort(c), r \notin suppressed
        PROVE  row'[r].state \in {"Accepted"} \cup Evidence
    <3>1. r \in run[c].to /\ r \in Recipient
      BY <1>1, <2>2, StepTypes DEF BestEffort
    <3> QED BY <2>2, <3>1, SetStateEffect DEF BestEffort
  <2> QED BY <1>1, <2>1, <2>2, SuppressionSteps
<1>2. ASSUME Alone, NEW c \in Op, run'[c].pc \in {"policy", "marked"}
      PROVE  run'[c].to \cap suppressed' = {}
  <2>1. CASE run'[c] = run[c]
    <3>1. ASSUME NEW d \in Op, BestEffort(d) PROVE FALSE
      <4>1. c # d
        BY <1>2, <2>1, <3>1, GoesEffect DEF BestEffort
      <4>2. run[d].pc # "idle" /\ run[c].pc # "idle"
        BY <1>2, <2>1, <3>1 DEF BestEffort, At
      <4> QED BY <1>2, <4>1, <4>2, OneAtATime
    <3> QED BY <1>2, <2>1, <3>1, SuppressionSteps DEF SuppressedFits
  <2>2. CASE run'[c] # run[c] /\ ReadPending(c)
    <3>1. Goes(c, "policy", InState("Pending")) /\ suppressed' = suppressed
      <4>1. ASSUME Finishes(c) PROVE FALSE
        BY <1>2, <4>1, FinishesEffect
      <4> QED BY <2>2, <4>1 DEF ReadPending
    <3>2. run'[c].to = InState("Pending")
      BY <3>1, GoesEffect
    <3>3. ASSUME NEW r \in suppressed PROVE r \notin InState("Pending")
      BY DEF SuppressedFits, InState, Evidence
    <3> QED BY <3>1, <3>2, <3>3
  <2>3. CASE run'[c] # run[c] /\ MarkSubmitted(c)
    <3>1. run'[c].to = run[c].to /\ suppressed' = suppressed /\ run[c].pc = "policy"
      BY <2>3, MarkEffect DEF MarkSubmitted, At
    <3> QED BY <1>2, <3>1 DEF SuppressedFits
  <2> QED BY <1>2, <2>1, <2>2, <2>3, Arrivals
<1>3. Alone' = Alone
  BY DEF Alone
<1> QED BY <1>1, <1>2, <1>3 DEF SuppressedFits

(* Only an expansion makes a recipient wait. *)
LEMMA WaitSteps ==
  ASSUME TypeOK, RunFits, [Next]_vars, NEW r \in Recipient,
         row'[r].state = "RecoveryWaiting", row[r].state # "RecoveryWaiting"
  PROVE  \E c \in Op, f \in FanoutID : Expand(c, f)
<1> USE CellKinds
<1>0. row[r].state \in State
  BY DEF TypeOK, Row
<1>1. ASSUME NEW c \in Op, Setup(c) \/ BestEffort(c) \/ Accept(c) \/ Recover(c) PROVE FALSE
  BY <1>1, SetStateEffect DEF Setup, BestEffort, Accept, Recover
<1>2. ASSUME NEW c \in Op, MarkSubmitted(c) PROVE FALSE
  BY <1>2, MarkRows
<1>3. ASSUME NEW v \in VerifyCell, VerifyCompletes(v) PROVE FALSE
  BY <1>3, VerifyRows
<1>4. ASSUME Restart PROVE FALSE
  BY <1>4, SetStateEffect DEF Restart
<1>5. ASSUME NEW q \in wire, NEW S \in SUBSET q.to, NEW ok \in BOOLEAN, Deliver(q, S, ok) PROVE FALSE
  BY <1>5 DEF Deliver, durable
<1>6. ASSUME NEW s \in Recipient, DelayPasses(s) PROVE FALSE
  BY <1>6, DelayRows
<1>7. ASSUME NEW s \in Recipient, NEW e \in Event, RecordEvent(s, e) PROVE FALSE
  BY <1>0, <1>7, EventRows, EventAdvances DEF Evidence
<1> QED BY <1>1, <1>2, <1>3, <1>4, <1>5, <1>6, <1>7, RowSteps

(* Where a fanout cell's handler arrives. *)
LEMMA FanoutArrivals ==
  ASSUME TypeOK, RunFits, [Next]_vars, NEW f \in FanoutID, run'[f] # run[f], run'[f].pc = "children"
  PROVE  FanoutReads(f) /\ run'[f].to = InState("RecoveryWaiting")
<1> USE CellKinds, KindsDiffer
<1>1. ~Claim(f)
  BY DispatchEffect DEF TypeOK
<1>2. \A q \in wire : q.from # f
  BY DEF TypeOK
<1>3. FanoutReads(f)
  BY <1>1, <1>2, RunSteps
<1> QED BY <1>3, GoesEffect DEF FanoutReads

LEMMA WaitingStep ==
  ASSUME TypeOK, RunFits, WaitingIsVerified, [Next]_vars
  PROVE  WaitingIsVerified'
<1> USE CellKinds, KindsDiffer
<1> DEFINE Covers(f, r) == \/ cell[f] = "fanout" /\ (run[f].pc = "children" => r \in run[f].to)
                           \/ cell[<<f, r>>] = "verify"
<1> SUFFICES ASSUME NEW r \in Recipient, row'[r].state = "RecoveryWaiting"
             PROVE  \E f \in FanoutID : Covers(f, r)'
  BY DEF WaitingIsVerified, InState
<1>1. ASSUME NEW c \in Op, NEW f \in FanoutID, Expand(c, f) PROVE Covers(f, r)'
  <2>1. cell'[f] = "fanout" /\ cell[f] = "absent"
    BY <1>1 DEF Expand, Unused, TypeOK
  <2>2. run'[f] = run[f]
    BY <1>1, FinishesEffect DEF Expand
  <2>3. run[f].pc = "idle"
    BY <2>1 DEF RunFits, RecoveryFits
  <2> QED BY <2>1, <2>2, <2>3
<1>2. CASE row[r].state # "RecoveryWaiting"
  BY <1>1, <1>2, WaitSteps
<1>3. ASSUME row[r].state = "RecoveryWaiting", ~\E c \in Op, f \in FanoutID : Expand(c, f)
      PROVE  \E f \in FanoutID : Covers(f, r)'
  <2>1. PICK f \in FanoutID : Covers(f, r)
    BY <1>3 DEF WaitingIsVerified, InState
  <2>2. ASSUME cell'[f] = cell[f], cell'[<<f, r>>] = cell[<<f, r>>] PROVE Covers(f, r)'
    <3>1. CASE run'[f] = run[f]
      BY <2>1, <2>2, <3>1
    <3>2. CASE run'[f] # run[f]
      <4>1. ASSUME run'[f].pc = "children" PROVE r \in run'[f].to
        BY <1>3, <3>2, <4>1, FanoutArrivals DEF InState
      <4> QED BY <2>1, <2>2, <4>1
    <3> QED BY <3>1, <3>2
  <2>3. ASSUME NEW g \in FanoutID, FanoutCompletes(g) PROVE Covers(f, r)'
    <3>1. CASE g = f
      <4>1. cell[<<f, r>>] = "verify" \/ r \in run[f].to
        BY <2>1, <2>3, <3>1 DEF FanoutCompletes, At
      <4> QED BY <2>3, <3>1, <4>1, FanoutEffect
    <3>2. CASE g # f
      BY <2>1, <2>2, <2>3, <3>2, FanoutEffect
    <3> QED BY <3>1, <3>2
  <2>4. ASSUME NEW v \in VerifyCell, VerifyNotNeeded(v) PROVE Covers(f, r)'
    <3>1. v # <<f, r>>
      BY <1>3, <2>4 DEF VerifyNotNeeded
    <3>2. cell'[f] = cell[f] /\ cell'[<<f, r>>] = cell[<<f, r>>]
      BY <2>4, <3>1 DEF VerifyNotNeeded, TypeOK
    <3> QED BY <2>2, <3>2
  <2>5. ASSUME NEW v \in VerifyCell, VerifyCompletes(v) PROVE Covers(f, r)'
    <3>1. v # <<f, r>>
      BY <1>3, <2>5, VerifyRows
    <3>2. cell' = [cell EXCEPT ![v] = "absent"]
      BY <2>5 DEF VerifyCompletes
    <3>3. cell'[f] = cell[f] /\ cell'[<<f, r>>] = cell[<<f, r>>]
      BY <3>1, <3>2 DEF TypeOK
    <3> QED BY <2>2, <3>3
  <2> HIDE DEF Covers
  <2> QED BY <1>3, <2>2, <2>3, <2>4, <2>5, CellSteps
<1> QED BY <1>1, <1>2, <1>3

--------------------------------------------------------------------------------
(* Attempts: one worker or one sequence, and a provider that settles.      *)

LEMMA OthersIdle ==
  ASSUME RunFits, Alone, NEW c \in Op, run[c].pc # "idle"
  PROVE  \A d \in Op : d # c => run[d].pc = "idle"
BY OneAtATime

(* A sequence that is handled, and is not submitting, finds no row that is *)
(* both Pending and submitted.                                             *)
LEMMA NotInterrupted ==
  ASSUME RunFits, Alone, StageFits, NEW c \in Op, run[c].pc # "idle", run[c].pc \notin Submitting
  PROVE  Interrupted = {}
BY OthersIdle DEF StageFits, Submitting

(* A step that leaves rows, requests and messages alone, and brings no     *)
(* handler to where an attempt depends on what it holds.                   *)
LEMMA QuietRest ==
  ASSUME AttemptsFit, UNCHANGED <<row, wire, mail>>,
         \A f \in FanoutID : cell'[f] = cell[f] /\ due'[f] = due[f],
         \A v \in VerifyCell : cell'[v] \in {cell[v], "absent"},
         \A c \in Op : run'[c] = run[c] \/ run'[c].pc # "marked",
         \A f \in FanoutID : run'[f] = run[f] \/ run'[f].pc # "children",
         \A v \in VerifyCell : run'[v] = run[v] \/ run'[v].pc # "missing",
         \/ Interrupted = {}
         \/ \E c \in Op : run'[c].pc \in Submitting
         \/ (\A c \in Op : run'[c] = run[c]) /\ (process' = "up" => process = "up")
         \/ (\A c \in Op : run'[c].pc = "idle") /\ process' # "up"
  PROVE  /\ StageFits' /\ FanoutFits' /\ VerifyFits' /\ OnceFits'
         /\ \A r \in Recipient : row'[r] = row[r]
         /\ \A s : InState(s)' = InState(s)
<1> USE CellKinds
<1>0. \A r \in Recipient : row'[r] = row[r] /\ mail'[r] = mail[r]
  OBVIOUS
<1>1. /\ \A s : InState(s)' = InState(s)
      /\ Interrupted' = Interrupted
      /\ \A r : Flying(r)' = Flying(r)
      /\ \A r : Waits(r)' = Waits(r)
      /\ \A r : Armed(r)' => Armed(r)
  BY DEF InState, Interrupted, Flying, Waits, Armed
<1>2. StageFits'
  BY <1>0, <1>1 DEF AttemptsFit, StageFits
<1>3. FanoutFits'
  BY <1>0, <1>1 DEF AttemptsFit, FanoutFits
<1>4. VerifyFits'
  BY <1>0, <1>1 DEF AttemptsFit, VerifyFits
<1>5. OnceFits'
  BY <1>0, <1>1 DEF AttemptsFit, OnceFits
<1> QED BY <1>0, <1>1, <1>2, <1>3, <1>4, <1>5

LEMMA QuietStep ==
  ASSUME AttemptsFit, UNCHANGED <<row, wire, mail>>,
         \A f \in FanoutID : cell'[f] = cell[f] /\ due'[f] = due[f],
         \A v \in VerifyCell : cell'[v] \in {cell[v], "absent"},
         \A c \in Op : run'[c] = run[c] \/ run'[c].pc \notin Posting \cup {"expand"},
         \A f \in FanoutID : run'[f] = run[f] \/ run'[f].pc # "children",
         \A v \in VerifyCell : run'[v] = run[v] \/ run'[v].pc # "missing",
         \/ Interrupted = {}
         \/ (\A c \in Op : run'[c] = run[c]) /\ (process' = "up" => process = "up")
         \/ (\A c \in Op : run'[c].pc = "idle") /\ process' # "up"
  PROVE  AttemptsFit'
<1>1. \A c \in Op : run'[c] = run[c] \/ run'[c].pc # "marked"
  BY DEF Posting, Submitting
<1>2. /\ StageFits' /\ FanoutFits' /\ VerifyFits' /\ OnceFits'
      /\ \A r \in Recipient : row'[r] = row[r]
      /\ \A s : InState(s)' = InState(s)
  BY <1>1, QuietRest
<1>3. PostFits'
  BY <1>2, CellKinds DEF AttemptsFit, PostFits, Posting, Submitting, InState
<1> QED BY <1>2, <1>3 DEF AttemptsFit

(* A step that leaves the recovery cells and their handlers alone, makes   *)
(* nobody wait and puts nothing on its way to those who wait.              *)
LEMMA RecoveryKept ==
  ASSUME TypeOK, FanoutFits, VerifyFits,
         \A f \in FanoutID : cell'[f] = cell[f] /\ due'[f] = due[f] /\ run'[f] = run[f],
         \A v \in VerifyCell : cell'[v] = cell[v] /\ run'[v] = run[v],
         \A r \in Recipient : /\ row'[r].state \in {"none", "Pending", "Recovery"} =>
                                   row[r].state \in {"none", "Pending", "Recovery"}
                              /\ Waits(r)' => /\ Waits(r)
                                              /\ Flying(r)' => Flying(r)
                                              /\ Flying(r) \/ mail'[r] = mail[r],
         \A f \in FanoutID : cell[f] = "fanout" => InState("Pending")' = {} /\ InState("Recovery")' = {}
  PROVE  FanoutFits' /\ VerifyFits'
<1> USE CellKinds
<1>1. \A f \in FanoutID, r \in Recipient : cell'[<<f, r>>] = cell[<<f, r>>] /\ run'[<<f, r>>] = run[<<f, r>>]
  OBVIOUS
<1>2. ASSUME NEW f \in FanoutID, cell[f] = "fanout"
      PROVE  /\ \A r \in Recipient : Waits(r)' => ~Flying(r)' \/ r \in due'[f]
             /\ \A g \in FanoutID, r \in Recipient : cell'[<<g, r>>] = "verify" => ~Waits(r)'
             /\ run'[f].pc = "children" => \A r \in run'[f].to : row'[r].state \notin {"none", "Pending", "Recovery"}
  <2>1. \A r \in run[f].to : r \in Recipient
    BY StepTypes
  <2>2. /\ \A r \in Recipient : Waits(r) => ~Flying(r) \/ r \in due[f]
        /\ \A g \in FanoutID, r \in Recipient : cell[<<g, r>>] = "verify" => ~Waits(r)
        /\ run[f].pc = "children" => \A r \in run[f].to : row[r].state \notin {"none", "Pending", "Recovery"}
    BY <1>2 DEF FanoutFits
  <2>3. \A r \in Recipient : Waits(r)' => ~Flying(r)' \/ r \in due'[f]
    BY <2>2
  <2>4. \A g \in FanoutID, r \in Recipient : cell'[<<g, r>>] = "verify" => ~Waits(r)'
    BY <1>1, <2>2
  <2>5. run'[f].pc = "children" => \A r \in run'[f].to : row'[r].state \notin {"none", "Pending", "Recovery"}
    BY <2>1, <2>2
  <2> QED BY <2>3, <2>4, <2>5
<1>3. FanoutFits'
  BY <1>2 DEF FanoutFits
<1>4. VerifyFits'
  BY <1>1 DEF VerifyFits
<1> QED BY <1>3, <1>4

(* A handler of a sequence ends with nothing but its own cell changed. *)
LEMMA SequenceEnds ==
  ASSUME TypeOK, RunFits, Alone, AttemptsFit, NEW c \in Op, Finishes(c), UNCHANGED <<row, wire, mail>>,
         \A d \in FanoutID \cup VerifyCell : cell'[d] = cell[d] /\ due'[d] = due[d],
         \/ run[c].pc # "idle" /\ run[c].pc \notin Submitting
         \/ run[c].pc # "idle" /\ process' # "up"
  PROVE  AttemptsFit'
<1> USE CellKinds, KindsDiffer
<1>1. run'[c].pc = "idle" /\ \A d \in Cells : d # c => run'[d] = run[d]
  BY FinishesEffect
<1>2. \/ Interrupted = {}
      \/ (\A d \in Op : run'[d].pc = "idle") /\ process' # "up"
  BY <1>1, NotInterrupted, OthersIdle DEF AttemptsFit
<1>3. \A d \in Op : run'[d] = run[d] \/ run'[d].pc \notin Posting \cup {"expand"}
  BY <1>1 DEF Posting, Submitting
<1>4. /\ \A f \in FanoutID : run'[f] = run[f]
      /\ \A v \in VerifyCell : run'[v] = run[v]
  BY <1>1
<1> QED BY <1>2, <1>3, <1>4, QuietStep

(* The steps of the process, of the worker and of the handlers that do not *)
(* touch an attempt.                                                       *)
LEMMA QuietActions ==
  ASSUME TypeOK, RunFits, Alone, AttemptsFit,
         \/ \E c \in Op : AddSend(c)
         \/ \E c \in Cells : Claim(c) \/ Fail(c)
         \/ Stop \/ Exit \/ Crash
         \/ \E c \in Op : SetupConflicts(c) \/ ReadWaiting(c) \/ Defer(c) \/ BestEffortRefused(c)
                          \/ BestEffortCompletes(c)
         \/ \E v \in VerifyCell : VerifyNotNeeded(v)
         \/ UNCHANGED vars
  PROVE  AttemptsFit'
<1> USE CellKinds, KindsDiffer
<1>1. ASSUME NEW c \in Op, AddSend(c) PROVE AttemptsFit'
  <2>1. UNCHANGED <<row, wire, mail, run, process>>
    BY <1>1 DEF AddSend, provider
  <2>2. \A d \in FanoutID \cup VerifyCell : cell'[d] = cell[d] /\ due'[d] = due[d]
    BY <1>1 DEF AddSend, TypeOK
  <2> QED BY <2>1, <2>2, QuietStep
<1>2. ASSUME NEW c \in Cells, Claim(c) PROVE AttemptsFit'
  <2>1. UNCHANGED <<row, wire, mail, cell, due, process>>
    BY <1>2 DEF Claim, durable, provider
  <2>2. /\ run[c].pc = "idle" /\ process = "up" /\ cell[c] \in {"setup", "recovery", "post", "fanout", "verify"}
        /\ Cardinality(Busy) < Workers
    BY <1>2 DEF Claim, Idle, TypeOK
  <2>3. run'[c].pc = cell[c] /\ \A d \in Cells : d # c => run'[d] = run[d]
    BY <1>2, DispatchEffect
  <2>4. Interrupted = {} \/ \A d \in Op : run'[d] = run[d]
    <3>1. ASSUME c \in Op, Interrupted # {} PROVE FALSE
      <4>1. PICK d \in Op : run[d].pc \in Submitting
        BY <2>2, <3>1 DEF AttemptsFit, StageFits
      <4>2. d # c /\ d \in Busy /\ run[d].pc # "idle"
        BY <2>2, <4>1 DEF Submitting, Busy
      <4>3. CASE Workers = 1
        <5>1. Busy = {d}
          BY <4>2, <4>3 DEF RunFits, BusyFits
        <5> QED BY <2>2, <4>3, <5>1, FS_Singleton
      <4>4. CASE Cardinality(Op) = 1
        <5>1. PICK x : Op = {x}
          BY <4>4, FS_Singleton, EmailConstants
        <5> QED BY <3>1, <4>2, <5>1
      <4> QED BY <4>3, <4>4 DEF Alone
    <3> QED BY <2>3, <3>1
  <2>5. /\ \A d \in Op : run'[d] = run[d] \/ run'[d].pc \notin Posting \cup {"expand"}
        /\ \A f \in FanoutID : run'[f] = run[f] \/ run'[f].pc # "children"
        /\ \A v \in VerifyCell : run'[v] = run[v] \/ run'[v].pc # "missing"
    BY <2>2, <2>3 DEF Posting, Submitting
  <2> QED BY <2>1, <2>4, <2>5, QuietStep
<1>3. ASSUME NEW c \in Cells, Fail(c) PROVE AttemptsFit'
  <2>1. UNCHANGED <<row, wire, mail, cell, due>> /\ process' = "stopping" /\ Finishes(c)
    BY <1>3 DEF Fail, durable, provider
  <2>2. CASE c \in Op
    BY <1>3, <2>1, <2>2, SequenceEnds DEF Fail, Busy
  <2>3. CASE c \notin Op
    <3>1. run'[c].pc = "idle" /\ \A d \in Cells : d # c => run'[d] = run[d]
      BY <2>1, FinishesEffect
    <3>2. \A d \in Op : run'[d] = run[d]
      BY <2>3, <3>1
    <3> QED BY <2>1, <3>1, <3>2, QuietStep
  <2> QED BY <2>2, <2>3
<1>4. CASE Stop
  BY <1>4, QuietStep DEF Stop, durable, provider
<1>5. CASE Exit
  BY <1>5, QuietStep DEF Exit, durable, provider
<1>6. CASE Crash
  <2>1. \A c \in Cells : run'[c].pc = "idle"
    BY <1>6 DEF Crash, Idle
  <2>2. \A c \in Op : run'[c].pc \notin Posting \cup {"expand"}
    BY <2>1 DEF Posting, Submitting
  <2> QED BY <1>6, <2>1, <2>2, QuietStep DEF Crash, durable, provider
<1>7. ASSUME NEW c \in Op, SetupConflicts(c) PROVE AttemptsFit'
  <2>1. run[c].pc = "setup" /\ "setup" \notin Submitting
    BY <1>7 DEF SetupConflicts, At, Submitting
  <2> QED BY <1>7, <2>1, SequenceEnds DEF SetupConflicts, durable, provider
<1>8. ASSUME NEW c \in Op, ReadWaiting(c) PROVE AttemptsFit'
  <2>1. run[c].pc = "noCandidates" /\ "noCandidates" \notin Submitting
    BY <1>8 DEF ReadWaiting, At, Submitting
  <2>2. \A d \in FanoutID \cup VerifyCell : cell'[d] = cell[d] /\ due'[d] = due[d]
    BY <1>8 DEF ReadWaiting, TypeOK
  <2> QED BY <1>8, <2>1, <2>2, SequenceEnds DEF ReadWaiting, provider
<1>9. ASSUME NEW c \in Op, Defer(c) PROVE AttemptsFit'
  <2>1. run[c].pc = "policy" /\ "policy" \notin Submitting
    BY <1>9 DEF Defer, At, Submitting
  <2>2. \A d \in FanoutID \cup VerifyCell : cell'[d] = cell[d] /\ due'[d] = due[d]
    BY <1>9 DEF Defer, TypeOK
  <2> QED BY <1>9, <2>1, <2>2, SequenceEnds DEF Defer, provider
<1>10. ASSUME NEW c \in Op, BestEffortRefused(c) PROVE AttemptsFit'
  <2>1. run[c].pc = "policy" /\ "policy" \notin Submitting
    BY <1>10 DEF BestEffortRefused, At, Submitting
  <2> QED BY <1>10, <2>1, SequenceEnds DEF BestEffortRefused, durable, provider
<1>11. ASSUME NEW c \in Op, BestEffortCompletes(c) PROVE AttemptsFit'
  <2>1. run[c].pc = "besteffort" /\ "besteffort" \notin Submitting
    BY <1>11 DEF BestEffortCompletes, At, Submitting
  <2>2. \A d \in FanoutID \cup VerifyCell : cell'[d] = cell[d] /\ due'[d] = due[d]
    BY <1>11 DEF BestEffortCompletes, TypeOK
  <2> QED BY <1>11, <2>1, <2>2, SequenceEnds DEF BestEffortCompletes, provider
<1>12. ASSUME NEW v \in VerifyCell, VerifyNotNeeded(v) PROVE AttemptsFit'
  <2>1. run'[v].pc = "idle" /\ \A d \in Cells : d # v => run'[d] = run[d]
    BY <1>12, FinishesEffect DEF VerifyNotNeeded
  <2>2. UNCHANGED <<row, wire, mail, due, process>>
    BY <1>12 DEF VerifyNotNeeded, provider
  <2>3. /\ \A f \in FanoutID : cell'[f] = cell[f]
        /\ \A w \in VerifyCell : cell'[w] \in {cell[w], "absent"}
    BY <1>12 DEF VerifyNotNeeded, TypeOK
  <2> QED BY <2>1, <2>2, <2>3, QuietStep
<1>13. CASE UNCHANGED vars
  BY <1>13, QuietStep DEF vars, durable, provider
<1> QED BY <1>1, <1>2, <1>3, <1>4, <1>5, <1>6, <1>7, <1>8, <1>9, <1>10, <1>11, <1>12, <1>13

(* Handlers that read: what they hold is what the rows say. *)
LEMMA ReadingActions ==
  ASSUME TypeOK, RunFits, Settles, Alone, AttemptsFit,
         \/ \E c \in Op : ReadCandidates(c) \/ ReadUnresolved(c) \/ ReadPending(c) \/ SendTimesOut(c)
         \/ \E f \in FanoutID : FanoutReads(f)
         \/ \E v \in VerifyCell : Verify(v)
  PROVE  AttemptsFit'
<1> USE CellKinds, KindsDiffer
<1>1. ASSUME NEW c \in Op, NEW pc, NEW to, run[c].pc # "idle", Goes(c, pc, to), pc # "marked",
             UNCHANGED <<row, wire, mail, cell, due>>,
             pc \in Submitting \/ run[c].pc \notin Submitting
      PROVE  /\ StageFits' /\ FanoutFits' /\ VerifyFits' /\ OnceFits'
             /\ \A r \in Recipient : row'[r] = row[r]
             /\ \A s : InState(s)' = InState(s)
             /\ run'[c].pc = pc /\ run'[c].to = to /\ run'[c].n = run[c].n
             /\ \A d \in Op : d # c => run'[d].pc = "idle"
  <2>1. /\ run'[c].pc = pc /\ run'[c].to = to /\ run'[c].n = run[c].n
        /\ \A d \in Cells : d # c => run'[d] = run[d]
    BY <1>1, GoesEffect
  <2>2. \A d \in Op : d # c => run'[d].pc = "idle"
    BY <1>1, <2>1, OthersIdle
  <2>3. Interrupted = {} \/ \E d \in Op : run'[d].pc \in Submitting
    BY <1>1, <2>1, NotInterrupted DEF AttemptsFit
  <2>4. /\ \A d \in Op : run'[d] = run[d] \/ run'[d].pc # "marked"
        /\ \A d \in FanoutID \cup VerifyCell : run'[d] = run[d]
    BY <1>1, <2>1
  <2> QED BY <1>1, <2>1, <2>2, <2>3, <2>4, QuietRest
<1>2. ASSUME NEW c \in Op, ReadCandidates(c) PROVE AttemptsFit'
  <2>1. /\ run[c].pc = "recovery" /\ UNCHANGED <<row, wire, mail, cell, due, process>>
        /\ "recovery" \notin Submitting /\ "recovery" # "idle"
    BY <1>2 DEF ReadCandidates, At, durable, provider, Submitting
  <2>2. CASE InState("Recovery") = {}
    <3>1. Goes(c, "noCandidates", {})
      BY <1>2, <2>2 DEF ReadCandidates
    <3>2. run'[c].pc = "noCandidates" /\ \A d \in Op : d # c => run'[d].pc = "idle"
      BY <1>1, <2>1, <3>1
    <3>3. PostFits'
      BY <3>2 DEF PostFits, Posting, Submitting
    <3> QED BY <1>1, <2>1, <3>1, <3>3 DEF AttemptsFit
  <2>3. CASE InState("Recovery") # {}
    <3>1. Goes(c, "expand", InState("Recovery"))
      BY <1>2, <2>3 DEF ReadCandidates
    <3>2. /\ run'[c].pc = "expand" /\ run'[c].to = InState("Recovery")
          /\ \A d \in Op : d # c => run'[d].pc = "idle"
          /\ \A s : InState(s)' = InState(s)
      BY <1>1, <2>1, <3>1
    <3>3. \A f \in FanoutID : cell'[f] = "absent"
      BY <2>1, <2>3 DEF AttemptsFit, FanoutFits, RunFits, RecoveryFits
    <3>4. PostFits'
      BY <2>3, <3>2, <3>3 DEF PostFits, Posting, Submitting, AttemptsFit, StageFits
    <3> QED BY <1>1, <2>1, <3>1, <3>4 DEF AttemptsFit
  <2> QED BY <2>2, <2>3
<1>3. ASSUME NEW c \in Op, ReadUnresolved(c) PROVE AttemptsFit'
  <2>1. /\ run[c].pc = "post" /\ UNCHANGED <<row, wire, mail, process>>
        /\ "post" \notin Submitting /\ "post" # "idle"
    BY <1>3 DEF ReadUnresolved, At, provider, Submitting
  <2>2. CASE Finishes(c)
    <3>1. \A d \in FanoutID \cup VerifyCell : cell'[d] = cell[d] /\ due'[d] = due[d]
      BY <1>3 DEF ReadUnresolved, TypeOK
    <3> QED BY <2>1, <2>2, <3>1, SequenceEnds
  <2>3. CASE Goes(c, "clear", {}) /\ UNCHANGED <<cell, due>> /\ InState("Recovery") \cup InState("RecoveryWaiting") = {}
    <3>1. /\ run'[c].pc = "clear" /\ \A d \in Op : d # c => run'[d].pc = "idle"
          /\ \A s : InState(s)' = InState(s)
      BY <1>1, <2>1, <2>3
    <3>2. PostFits'
      BY <2>3, <3>1 DEF PostFits, Posting, Submitting
    <3> QED BY <1>1, <2>1, <2>3, <3>2 DEF AttemptsFit
  <2> QED BY <1>3, <2>2, <2>3 DEF ReadUnresolved
<1>4. ASSUME NEW c \in Op, ReadPending(c) PROVE AttemptsFit'
  <2>1. /\ run[c].pc = "clear" /\ UNCHANGED <<row, wire, mail, due, process>>
        /\ "clear" \notin Submitting /\ "clear" # "idle" /\ "clear" \in Posting
    BY <1>4 DEF ReadPending, At, provider, Submitting, Posting
  <2>2. CASE Finishes(c)
    <3>1. \A d \in FanoutID \cup VerifyCell : cell'[d] = cell[d] /\ due'[d] = due[d]
      BY <1>4 DEF ReadPending, TypeOK
    <3> QED BY <2>1, <2>2, <3>1, SequenceEnds
  <2>3. CASE Goes(c, "policy", InState("Pending")) /\ UNCHANGED cell
    <3>1. /\ run'[c].pc = "policy" /\ run'[c].to = InState("Pending")
          /\ \A d \in Op : d # c => run'[d].pc = "idle"
          /\ \A s : InState(s)' = InState(s)
          /\ \A r \in Recipient : row'[r] = row[r]
      BY <1>1, <2>1, <2>3
    <3>2. Interrupted = {}
      BY <2>1, NotInterrupted DEF AttemptsFit
    <3>3. \A r \in InState("Pending") : r \in Recipient /\ ~row[r].submitted
      BY <3>2 DEF Interrupted, InState
    <3>4. InState("Recovery") = {} /\ InState("RecoveryWaiting") = {}
      BY <2>1 DEF AttemptsFit, PostFits
    <3>5. PostFits'
      BY <3>1, <3>3, <3>4 DEF PostFits, Posting, Submitting
    <3> QED BY <1>1, <2>1, <2>3, <3>5 DEF AttemptsFit
  <2> QED BY <1>4, <2>2, <2>3 DEF ReadPending
<1>5. ASSUME NEW c \in Op, SendTimesOut(c) PROVE AttemptsFit'
  <2>1. /\ run[c].pc = "sending" /\ UNCHANGED <<row, wire, mail, cell, due, process>>
        /\ "sending" \in Posting /\ "sending" \in Submitting /\ "uncertain" \in Submitting
        /\ Goes(c, "uncertain", run[c].to)
    BY <1>5 DEF SendTimesOut, At, durable, provider, Posting, Submitting
  <2>2. /\ run'[c].pc = "uncertain" /\ run'[c].to = run[c].to
        /\ \A d \in Op : d # c => run'[d].pc = "idle"
        /\ \A s : InState(s)' = InState(s)
        /\ \A r \in Recipient : row'[r] = row[r]
    BY <1>1, <2>1
  <2>3. \A r \in InState("Pending") : r \in Recipient /\ r \in run[c].to /\ row[r].submitted
    BY <2>1 DEF AttemptsFit, PostFits, InState
  <2>4. InState("Recovery") = {} /\ InState("RecoveryWaiting") = {}
    BY <2>1 DEF AttemptsFit, PostFits
  <2>5. PostFits'
    BY <2>2, <2>3, <2>4 DEF PostFits, Posting, Submitting
  <2> QED BY <1>1, <2>1, <2>5 DEF AttemptsFit
<1>6. ASSUME NEW f \in FanoutID, FanoutReads(f) PROVE AttemptsFit'
  <2>1. UNCHANGED <<row, wire, mail, cell, due, process>> /\ Goes(f, "children", InState("RecoveryWaiting"))
    BY <1>6 DEF FanoutReads, durable, provider
  <2>2. /\ run'[f].pc = "children" /\ run'[f].to = InState("RecoveryWaiting")
        /\ \A d \in Cells : d # f => run'[d] = run[d]
    BY <2>1, GoesEffect
  <2>3. /\ \A c \in Op : run'[c] = run[c]
        /\ \A v \in VerifyCell : run'[v] = run[v]
    BY <2>2
  <2>4. \A r \in InState("RecoveryWaiting") : r \in Recipient /\ row[r].state = "RecoveryWaiting"
    BY DEF InState
  <2>5. FanoutFits'
    BY <2>1, <2>2, <2>4 DEF AttemptsFit, FanoutFits, InState, Waits, Flying
  <2>6. PostFits' /\ StageFits'
    BY <2>1, <2>3 DEF AttemptsFit, PostFits, StageFits, InState, Interrupted
  <2>7. VerifyFits' /\ OnceFits'
    BY <2>1, <2>3 DEF AttemptsFit, VerifyFits, OnceFits, InState, Waits, Flying, Armed
  <2> QED BY <2>5, <2>6, <2>7 DEF AttemptsFit
<1>7. ASSUME NEW v \in VerifyCell, Verify(v) PROVE AttemptsFit'
  <2>1. UNCHANGED <<row, wire, mail, cell, due, process>>
    BY <1>7 DEF Verify, durable, provider
  <2>2. PICK found \in LogShows(v[2]) : Goes(v, IF found THEN "found" ELSE "missing", {})
    BY <1>7 DEF Verify
  <2>3. /\ run'[v].pc = IF found THEN "found" ELSE "missing"
        /\ \A d \in Cells : d # v => run'[d] = run[d]
    BY <2>2, GoesEffect
  <2>4. /\ \A c \in Op : run'[c] = run[c]
        /\ \A f \in FanoutID : run'[f] = run[f]
    BY <2>3
  <2>5. run'[v].pc = "missing" => mail[v[2]] = 0
    BY <2>2, <2>3 DEF LogShows, TypeOK
  <2>6. VerifyFits'
    <3>1. \A f \in FanoutID, r \in Recipient :
            run'[<<f, r>>].pc = "missing" => run'[<<f, r>>] = run[<<f, r>>] \/ mail[r] = 0
      BY <2>3, <2>5
    <3> QED BY <2>1, <3>1 DEF AttemptsFit, VerifyFits, Waits, Flying
  <2>7. PostFits' /\ StageFits'
    BY <2>1, <2>4 DEF AttemptsFit, PostFits, StageFits, InState, Interrupted
  <2>8. FanoutFits' /\ OnceFits'
    BY <2>1, <2>4 DEF AttemptsFit, FanoutFits, OnceFits, InState, Waits, Flying, Armed
  <2> QED BY <2>6, <2>7, <2>8 DEF AttemptsFit
<1> QED BY <1>2, <1>3, <1>4, <1>5, <1>6, <1>7

(* Post: the attempt itself. *)
LEMMA PostingActions ==
  ASSUME TypeOK, RunFits, NumbersFit, Alone, AttemptsFit,
         \E c \in Op : BestEffort(c) \/ MarkSubmitted(c) \/ Send(c)
  PROVE  AttemptsFit'
<1> USE CellKinds, KindsDiffer
<1>1. ASSUME NEW c \in Op, BestEffort(c) PROVE AttemptsFit'
  <2>1. /\ run[c].pc = "policy" /\ UNCHANGED <<wire, mail, cell, due, process>>
        /\ SetState(run[c].to, "Accepted") /\ Goes(c, "besteffort", run[c].to)
    BY <1>1 DEF BestEffort, At, provider
  <2>2. /\ run'[c].pc = "besteffort" /\ \A d \in Cells : d # c => run'[d] = run[d]
        /\ \A d \in Op : d # c => run'[d].pc = "idle"
    BY <2>1, GoesEffect, OthersIdle
  <2>3. /\ run[c].to = InState("Pending") /\ InState("Recovery") = {} /\ InState("RecoveryWaiting") = {}
    BY <2>1 DEF AttemptsFit, PostFits, Posting
  <2>4. \A r \in Recipient : /\ row'[r].state = IF row[r].state = "Pending" THEN "Accepted" ELSE row[r].state
                             /\ row'[r].submitted = row[r].submitted /\ row'[r].ripe = row[r].ripe
    BY <2>1, <2>3, SetStateEffect DEF InState
  <2>5. /\ InState("Pending")' = {} /\ InState("Recovery")' = {} /\ InState("RecoveryWaiting")' = {}
        /\ Interrupted' = {}
    BY <2>3, <2>4 DEF InState, Interrupted
  <2>6. PostFits' /\ StageFits'
    BY <2>2, <2>5 DEF PostFits, StageFits, Posting, Submitting
  <2>7. \A d \in FanoutID \cup VerifyCell : run'[d] = run[d]
    BY <2>2
  <2>8. FanoutFits' /\ VerifyFits'
    BY <2>1, <2>4, <2>5, <2>7, RecoveryKept DEF AttemptsFit, Waits, Flying
  <2>9. OnceFits'
    BY <2>1, <2>2, <2>4 DEF AttemptsFit, OnceFits, Flying, Armed
  <2> QED BY <2>6, <2>8, <2>9 DEF AttemptsFit
<1>2. ASSUME NEW c \in Op, MarkSubmitted(c) PROVE AttemptsFit'
  <2>1. run[c].pc = "policy" /\ UNCHANGED <<wire, mail, cell, due, process>>
    BY <1>2 DEF MarkSubmitted, At
  <2>2. /\ run'[c].pc = "marked" /\ run'[c].to = run[c].to /\ run'[c].n = sends + 1
        /\ \A d \in Cells : d # c => run'[d] = run[d]
        /\ \A d \in Op : d # c => run'[d].pc = "idle"
    BY <1>2, <2>1, MarkEffect, OthersIdle
  <2>3. /\ run[c].to = InState("Pending") /\ InState("Recovery") = {} /\ InState("RecoveryWaiting") = {}
        /\ \A r \in InState("Pending") : r \in Recipient /\ row[r].state = "Pending" /\ ~row[r].submitted
    BY <2>1 DEF AttemptsFit, PostFits, Posting, InState
  <2>4. \A r \in Recipient : /\ row'[r].state = row[r].state
                             /\ row'[r].submitted = (row[r].state = "Pending" \/ row[r].submitted)
                             /\ row'[r].ripe = (row[r].state # "Pending" /\ row[r].ripe)
    BY <1>2, MarkRows
  <2>5. /\ \A s : InState(s)' = InState(s)
        /\ Interrupted' = InState("Pending")
        /\ \A r \in InState("Pending") : row'[r].submitted
    <3>1. \A s : InState(s)' = InState(s)
      BY <2>4 DEF InState
    <3>2. \A r \in InState("Pending") : row'[r].submitted
      BY <2>3, <2>4
    <3> QED BY <3>1, <3>2 DEF Interrupted
  <2>6. \A q \in wire' : q.n # sends + 1
    BY <2>1 DEF NumbersFit, TypeOK
  <2>7. PostFits'
    BY <2>2, <2>3, <2>5, <2>6 DEF PostFits, Posting, Submitting
  <2>8. StageFits'
    BY <2>2, <2>3, <2>5 DEF StageFits, Submitting
  <2>9. \A d \in FanoutID \cup VerifyCell : run'[d] = run[d]
    BY <2>2
  <2>10. FanoutFits' /\ VerifyFits'
    <3>1. \A f \in FanoutID : cell[f] = "fanout" => InState("Pending")' = {} /\ InState("Recovery")' = {}
      BY <2>5 DEF AttemptsFit, FanoutFits
    <3> QED BY <2>1, <2>4, <2>9, <3>1, RecoveryKept DEF AttemptsFit, Waits, Flying
  <2>11. ASSUME NEW r \in Recipient
         PROVE  /\ Armed(r)' <=> r \in InState("Pending")
                /\ Flying(r)' <=> Flying(r)
                /\ r \in InState("Pending") => mail[r] = 0 /\ ~Flying(r)
    BY <2>1, <2>2, <2>3 DEF Armed, Flying, AttemptsFit, OnceFits
  <2>12. OnceFits'
    <3> SUFFICES ASSUME NEW r \in Recipient
                 PROVE  /\ mail'[r] <= 1
                        /\ mail'[r] = 1 => ~Flying(r)' /\ ~Armed(r)'
                        /\ Armed(r)' => ~Flying(r)'
                        /\ \A p, q \in wire' : r \in p.to /\ r \in q.to => p = q
                        /\ row'[r].state = "Pending" /\ ~row'[r].submitted =>
                             mail'[r] = 0 /\ ~Flying(r)' /\ ~Armed(r)'
                        /\ row'[r].ripe => ~Flying(r)' /\ ~Armed(r)'
      BY DEF OnceFits
    <3>1. r \in InState("Pending") <=> row[r].state = "Pending"
      BY DEF InState
    <3>2. /\ mail'[r] = mail[r] /\ wire' = wire
          /\ mail[r] <= 1
          /\ mail[r] = 1 => ~Flying(r)
          /\ \A p, q \in wire : r \in p.to /\ r \in q.to => p = q
          /\ row[r].ripe => ~Flying(r)
      BY <2>1 DEF AttemptsFit, OnceFits
    <3>3. /\ row'[r].state = row[r].state
          /\ row[r].state = "Pending" => row'[r].submitted
          /\ row'[r].ripe => row[r].state # "Pending" /\ row[r].ripe
      BY <2>4, Zenon
    <3>4. mail'[r] = 1 => ~Flying(r)' /\ ~Armed(r)'
      <4>1. mail[r] = 1 => r \notin InState("Pending")
        BY <2>11
      <4> QED BY <2>11, <3>2, <4>1
    <3>5. row'[r].ripe => ~Flying(r)' /\ ~Armed(r)'
      BY <2>11, <3>1, <3>2, <3>3
    <3> QED BY <2>11, <3>2, <3>3, <3>4, <3>5
  <2> QED BY <2>7, <2>8, <2>10, <2>12 DEF AttemptsFit
<1>3. ASSUME NEW c \in Op, Send(c) PROVE AttemptsFit'
  <2> DEFINE new == [n |-> run[c].n, from |-> c, to |-> run[c].to]
  <2>1. /\ run[c].pc = "marked" /\ UNCHANGED <<row, mail, cell, due, process>>
        /\ wire' = wire \cup {new} /\ Goes(c, "sending", run[c].to)
    BY <1>3 DEF Send, At, durable
  <2>2. /\ run'[c].pc = "sending" /\ run'[c].to = run[c].to /\ run'[c].n = run[c].n
        /\ \A d \in Cells : d # c => run'[d] = run[d]
        /\ \A d \in Op : d # c => run'[d].pc = "idle" /\ run[d].pc = "idle"
    BY <2>1, GoesEffect, OthersIdle
  <2>3. /\ InState("Recovery") = {} /\ InState("RecoveryWaiting") = {}
        /\ \A r \in InState("Pending") : r \in run[c].to /\ row[r].submitted
        /\ \A q \in wire : q.n # run[c].n
    BY <2>1 DEF AttemptsFit, PostFits, Posting, Submitting
  <2>4. /\ \A s : InState(s)' = InState(s)
        /\ Interrupted' = Interrupted
        /\ \A r \in InState("Pending") : row'[r].submitted
    BY <2>1, <2>3 DEF InState, Interrupted
  <2>5. PostFits'
    BY <2>1, <2>2, <2>3, <2>4 DEF PostFits, Posting, Submitting
  <2>6. StageFits'
    BY <2>2, <2>3, <2>4 DEF StageFits, Submitting
  <2>7. \A r \in Recipient : ~Waits(r)'
    <3>1. \A r \in Recipient : r \notin InState("RecoveryWaiting")
      BY <2>3
    <3> QED BY <2>1, <3>1 DEF Waits, InState
  <2>8. \A d \in FanoutID \cup VerifyCell : run'[d] = run[d]
    BY <2>2
  <2>9. FanoutFits' /\ VerifyFits'
    <3>1. \A f \in FanoutID : cell[f] = "fanout" => InState("Pending")' = {} /\ InState("Recovery")' = {}
      BY <2>4 DEF AttemptsFit, FanoutFits
    <3> QED BY <2>1, <2>7, <2>8, <3>1, RecoveryKept DEF AttemptsFit
  <2>10. ASSUME NEW r \in Recipient
         PROVE  /\ ~Armed(r)'
                /\ Armed(r) <=> r \in run[c].to
                /\ Flying(r)' <=> Flying(r) \/ r \in run[c].to
    <3>1. new.to = run[c].to
      OBVIOUS
    <3> HIDE DEF new
    <3>2. Flying(r)' <=> Flying(r) \/ r \in run[c].to
      BY <2>1, <3>1 DEF Flying
    <3>3. ~Armed(r)' /\ (Armed(r) <=> r \in run[c].to)
      BY <2>1, <2>2 DEF Armed
    <3> QED BY <3>2, <3>3
  <2>11. OnceFits'
    <3>1. new.to = run[c].to
      OBVIOUS
    <3> HIDE DEF new
    <3>2. ASSUME NEW r \in Recipient PROVE \A p, q \in wire' : r \in p.to /\ r \in q.to => p = q
      BY <2>1, <2>10, <3>1 DEF AttemptsFit, OnceFits, Flying
    <3> QED BY <2>1, <2>10, <3>2 DEF AttemptsFit, OnceFits
  <2> QED BY <2>5, <2>6, <2>9, <2>11 DEF AttemptsFit
<1> QED BY <1>1, <1>2, <1>3

(* Rows that are Pending and submitted go to Recovery, or are settled. *)
LEMMA ResultActions ==
  ASSUME TypeOK, RunFits, Alone, AttemptsFit,
         Restart \/ \E c \in Op : Accept(c) \/ Recover(c)
  PROVE  AttemptsFit'
<1> USE CellKinds, KindsDiffer
<1>1. ASSUME NEW c \in Op, Accept(c) PROVE AttemptsFit'
  <2>1. /\ run[c].pc = "accepted" /\ UNCHANGED <<wire, mail, due, process>> /\ Finishes(c)
        /\ SetState(run[c].to \cap InState("Pending"), "Accepted")
        /\ \A d \in FanoutID \cup VerifyCell : cell'[d] = cell[d]
    BY <1>1 DEF Accept, At, provider, TypeOK
  <2>2. /\ \A d \in FanoutID \cup VerifyCell : run'[d] = run[d]
        /\ \A d \in Op : run'[d].pc = "idle"
    BY <2>1, FinishesEffect, OthersIdle
  <2>3. InState("Pending") \subseteq run[c].to
    BY <2>1 DEF AttemptsFit, PostFits, Submitting
  <2>4. \A r \in Recipient : /\ row'[r].state = IF row[r].state = "Pending" THEN "Accepted" ELSE row[r].state
                             /\ row'[r].submitted = row[r].submitted /\ row'[r].ripe = row[r].ripe
    BY <2>1, <2>3, SetStateEffect DEF InState
  <2>5. /\ InState("Pending")' = {} /\ InState("Recovery")' = InState("Recovery")
        /\ InState("RecoveryWaiting")' = InState("RecoveryWaiting") /\ Interrupted' = {}
    BY <2>4 DEF InState, Interrupted
  <2>6. PostFits' /\ StageFits'
    BY <2>2, <2>5 DEF AttemptsFit, PostFits, StageFits, Posting, Submitting
  <2>7. \A f \in FanoutID : cell[f] = "fanout" => InState("Pending")' = {} /\ InState("Recovery")' = {}
    BY <2>5 DEF AttemptsFit, FanoutFits
  <2>8. FanoutFits' /\ VerifyFits'
    BY <2>1, <2>2, <2>4, <2>7, RecoveryKept DEF AttemptsFit, Waits, Flying
  <2>9. OnceFits'
    BY <2>1, <2>2, <2>4 DEF AttemptsFit, OnceFits, Flying, Armed
  <2> QED BY <2>6, <2>8, <2>9 DEF AttemptsFit
<1>2. ASSUME UNCHANGED <<wire, mail>>, SetState(Interrupted, "Recovery"),
             \A d \in FanoutID \cup VerifyCell : cell'[d] = cell[d] /\ due'[d] = due[d] /\ run'[d] = run[d],
             \A d \in Op : run'[d].pc = "idle",
             InState("Recovery") \cup InState("RecoveryWaiting") # {} => Interrupted = {},
             Interrupted # {} => \A r \in InState("Pending") : row[r].submitted
      PROVE  AttemptsFit'
  <2>1. \A r \in Recipient : /\ row'[r].state = IF r \in Interrupted THEN "Recovery" ELSE row[r].state
                             /\ row'[r].submitted = row[r].submitted /\ row'[r].ripe = row[r].ripe
                             /\ r \in Interrupted => row[r].state = "Pending" /\ row[r].submitted
    BY <1>2, SetStateEffect DEF Interrupted, InState
  <2>2. Interrupted' = {} /\ InState("RecoveryWaiting")' = InState("RecoveryWaiting")
    BY <2>1 DEF Interrupted, InState
  <2>3. InState("Recovery")' = InState("Recovery") \cup Interrupted /\ InState("Pending")' = InState("Pending") \ Interrupted
    BY <2>1 DEF Interrupted, InState
  <2>4. Interrupted # {} => InState("Pending") = Interrupted
    BY <1>2 DEF Interrupted
  <2>5. PostFits'
    BY <1>2 DEF PostFits, Posting, Submitting
  <2>6. StageFits'
    BY <1>2, <2>2, <2>3, <2>4 DEF AttemptsFit, StageFits
  <2>7. \A f \in FanoutID : cell[f] = "fanout" => Interrupted = {}
    BY <2>1 DEF AttemptsFit, FanoutFits, InState, Interrupted
  <2>8. \A f \in FanoutID : cell[f] = "fanout" => InState("Pending")' = {} /\ InState("Recovery")' = {}
    BY <2>3, <2>7 DEF AttemptsFit, FanoutFits
  <2>9. FanoutFits' /\ VerifyFits'
    BY <1>2, <2>1, <2>8, RecoveryKept DEF AttemptsFit, Waits, Flying
  <2>10. OnceFits'
    BY <1>2, <2>1 DEF AttemptsFit, OnceFits, Flying, Armed
  <2> QED BY <2>5, <2>6, <2>9, <2>10 DEF AttemptsFit
<1>3. ASSUME NEW c \in Op, Recover(c) PROVE AttemptsFit'
  <2>1. /\ run[c].pc = "uncertain" /\ UNCHANGED <<wire, mail, process>> /\ Finishes(c)
        /\ SetState(Interrupted, "Recovery")
        /\ \A d \in FanoutID \cup VerifyCell : cell'[d] = cell[d] /\ due'[d] = due[d]
    BY <1>3 DEF Recover, At, provider, TypeOK
  <2>2. /\ \A d \in FanoutID \cup VerifyCell : run'[d] = run[d]
        /\ \A d \in Op : run'[d].pc = "idle"
    BY <2>1, FinishesEffect, OthersIdle
  <2>3. /\ InState("Recovery") \cup InState("RecoveryWaiting") = {}
        /\ \A r \in InState("Pending") : row[r].submitted
    BY <2>1 DEF AttemptsFit, PostFits, Posting, Submitting
  <2> QED BY <1>2, <2>1, <2>2, <2>3
<1>4. CASE Restart
  <2>1. /\ UNCHANGED <<wire, mail, cell, due, run>> /\ process = "down" /\ SetState(Interrupted, "Recovery")
    BY <1>4 DEF Restart, provider
  <2>2. \A d \in Op : run'[d].pc = "idle"
    BY <2>1 DEF RunFits, BusyFits, Busy
  <2>3. /\ InState("Recovery") \cup InState("RecoveryWaiting") # {} => Interrupted = {}
        /\ Interrupted # {} => \A r \in InState("Pending") : row[r].submitted
    BY DEF AttemptsFit, StageFits
  <2> QED BY <1>2, <2>1, <2>2, <2>3
<1> QED BY <1>1, <1>3, <1>4

(* Setup: before a request is stored there is nothing to recover.          *)
LEMMA SetupAttempt ==
  ASSUME TypeOK, RunFits, RequestFits, Alone, AttemptsFit, NEW c \in Op, Setup(c)
  PROVE  AttemptsFit'
<1> USE CellKinds, KindsDiffer
<1>1. /\ run[c].pc = "setup" /\ UNCHANGED <<wire, mail, due, process>> /\ Finishes(c)
      /\ \A d \in FanoutID \cup VerifyCell : cell'[d] = cell[d]
  BY DEF Setup, At, provider, TypeOK
<1>2. CASE request # "none"
  <2>1. UNCHANGED row
    BY <1>2 DEF Setup
  <2>2. "setup" \notin Submitting
    BY DEF Submitting
  <2> QED BY <1>1, <2>1, <2>2, SequenceEnds
<1>3. CASE request = "none"
  <2>1. /\ \A r \in Recipient : row[r] = NoRow /\ mail[r] = 0
        /\ wire = {} /\ \A f \in FanoutID : cell[f] = "absent"
    BY <1>3 DEF RequestFits
  <2>2. \A r \in Recipient : row'[r].state = "Pending" /\ ~row'[r].submitted /\ ~row'[r].ripe
    BY <1>3, <2>1, SetStateEffect DEF Setup, NoRow
  <2>3. /\ \A d \in FanoutID \cup VerifyCell : run'[d] = run[d]
        /\ \A d \in Op : run'[d].pc = "idle"
    BY <1>1, FinishesEffect, OthersIdle
  <2>4. \A f \in FanoutID, r \in Recipient : cell'[<<f, r>>] # "verify"
    <3>1. \A r \in Recipient : row[r].state = "none"
      BY <2>1 DEF NoRow
    <3>2. \A f \in FanoutID, r \in Recipient : cell[<<f, r>>] # "verify"
      BY <3>1 DEF AttemptsFit, VerifyFits
    <3> QED BY <1>1, <3>2
  <2>5. InState("Recovery")' = {} /\ InState("RecoveryWaiting")' = {} /\ Interrupted' = {}
    BY <2>2 DEF InState, Interrupted
  <2>6. PostFits' /\ StageFits'
    BY <2>3, <2>5 DEF PostFits, StageFits, Posting, Submitting
  <2>7. FanoutFits' /\ VerifyFits'
    BY <1>1, <2>1, <2>4 DEF FanoutFits, VerifyFits
  <2>8. \A r \in Recipient : ~Flying(r)' /\ ~Armed(r)' /\ mail'[r] = 0
    BY <1>1, <2>1, <2>3 DEF Flying, Armed
  <2>9. OnceFits'
    BY <1>1, <2>1, <2>8 DEF OnceFits
  <2> QED BY <2>6, <2>7, <2>9 DEF AttemptsFit
<1> QED BY <1>2, <1>3

(* Expand: those who wait now were in Recovery, and the fanout's deadline  *)
(* covers the ones whose delay is still on.                                *)
LEMMA ExpandAttempt ==
  ASSUME TypeOK, RunFits, Alone, AttemptsFit, NEW c \in Op, NEW f \in FanoutID, Expand(c, f)
  PROVE  AttemptsFit'
<1> USE CellKinds, KindsDiffer
<1>1. /\ run[c].pc = "expand" /\ UNCHANGED <<wire, mail, process>> /\ Finishes(c)
      /\ SetState(InState("Recovery"), "RecoveryWaiting") /\ Unused(f)
      /\ \A v \in VerifyCell : cell'[v] = cell[v]
      /\ \A g \in FanoutID : g # f => cell'[g] = cell[g]
      /\ due'[f] = Unripe(run[c].to)
  BY DEF Expand, At, provider, TypeOK
<1>2. /\ InState("Recovery") \subseteq run[c].to
      /\ InState("Pending") = {} /\ InState("RecoveryWaiting") = {}
      /\ \A g \in FanoutID : cell[g] = "absent"
  BY <1>1 DEF AttemptsFit, PostFits
<1>3. /\ \A d \in FanoutID \cup VerifyCell : run'[d] = run[d]
      /\ \A d \in Op : run'[d].pc = "idle"
  BY <1>1, FinishesEffect, OthersIdle
<1>4. \A r \in Recipient :
        /\ row'[r].state = IF row[r].state = "Recovery" THEN "RecoveryWaiting" ELSE row[r].state
        /\ row'[r].submitted = row[r].submitted /\ row'[r].ripe = row[r].ripe
  BY <1>1, SetStateEffect DEF InState
<1>5. \A r \in Recipient : row[r].state \notin {"Pending", "RecoveryWaiting"}
  BY <1>2 DEF InState
<1>6. /\ InState("Recovery")' = {} /\ InState("Pending")' = {} /\ Interrupted' = {}
  BY <1>4, <1>5 DEF InState, Interrupted
<1>7. PostFits' /\ StageFits'
  BY <1>3, <1>6 DEF PostFits, StageFits, Posting, Submitting
<1>8. \A r \in Recipient : /\ Waits(r)' => row[r].state = "Recovery" /\ r \in run[c].to
                           /\ Flying(r)' <=> Flying(r)
                           /\ ~Armed(r)'
  BY <1>1, <1>2, <1>3, <1>4, <1>5 DEF Waits, Flying, Armed, InState
<1>9. \A g \in FanoutID, r \in Recipient : cell'[<<g, r>>] = "verify" =>
        cell[<<g, r>>] = "verify" /\ row'[r].state = row[r].state /\ ~Waits(r)' /\ row[r].state \notin {"none", "Pending", "Recovery"}
  BY <1>1, <1>4, <1>8 DEF AttemptsFit, VerifyFits
<1>10. \A g \in FanoutID : run[g].pc = "idle"
  BY <1>2 DEF RunFits, RecoveryFits
<1>11. \A r \in Recipient : Waits(r)' => ~Flying(r)' \/ r \in due'[f]
  BY <1>1, <1>8 DEF Unripe, AttemptsFit, OnceFits
<1>12. FanoutFits'
  BY <1>1, <1>2, <1>3, <1>6, <1>9, <1>10, <1>11 DEF FanoutFits
<1>13. VerifyFits'
  BY <1>9 DEF VerifyFits
<1>14. OnceFits'
  BY <1>1, <1>4, <1>5, <1>8 DEF AttemptsFit, OnceFits
<1> QED BY <1>7, <1>12, <1>13, <1>14 DEF AttemptsFit

(* The fanout completes: its deadline has passed, so nothing is on its way *)
(* to those who get a Verify cell and wait.                                *)
LEMMA FanoutAttempt ==
  ASSUME TypeOK, RunFits, Alone, AttemptsFit, NEW f \in FanoutID, FanoutCompletes(f)
  PROVE  AttemptsFit'
<1> USE CellKinds, KindsDiffer
<1>1. /\ run[f].pc = "children" /\ UNCHANGED <<row, wire, mail, process>> /\ Finishes(f)
  BY DEF FanoutCompletes, At, provider
<1>2. /\ cell[f] = "fanout" /\ due[f] = {}
  BY <1>1 DEF RunFits, RecoveryFits
<1>3. /\ \A d \in Op \cup VerifyCell : run'[d] = run[d]
      /\ run'[f].pc = "idle"
  BY <1>1, FinishesEffect
<1>4. /\ \A r \in Recipient : Waits(r) => ~Flying(r)
      /\ \A g \in FanoutID, r \in Recipient : cell[<<g, r>>] = "verify" => ~Waits(r)
      /\ \A r \in run[f].to : row[r].state \notin {"none", "Pending", "Recovery"}
      /\ \A g \in FanoutID : cell[g] = "fanout" => g = f
  BY <1>1, <1>2 DEF AttemptsFit, FanoutFits
<1>5. /\ \A g \in FanoutID : cell'[g] # "fanout"
      /\ \A g \in FanoutID, r \in Recipient :
           cell'[<<g, r>>] = IF g = f /\ r \in run[f].to THEN "verify" ELSE cell[<<g, r>>]
  BY <1>4, FanoutEffect
<1>6. /\ \A s : InState(s)' = InState(s)
      /\ Interrupted' = Interrupted
      /\ \A r : Flying(r)' = Flying(r)
      /\ \A r : Waits(r)' = Waits(r)
      /\ \A r : Armed(r)' = Armed(r)
  BY <1>1, <1>3 DEF InState, Interrupted, Flying, Waits, Armed
<1>7. PostFits'
  <2>1. \A c \in Op : run[c].pc # "expand"
    BY <1>2 DEF AttemptsFit, PostFits
  <2> QED BY <1>1, <1>3, <1>6, <2>1 DEF AttemptsFit, PostFits
<1>8. StageFits' /\ OnceFits'
  BY <1>1, <1>3, <1>6 DEF AttemptsFit, StageFits, OnceFits
<1>9. FanoutFits'
  BY <1>5 DEF FanoutFits
<1>10. VerifyFits'
  <2> SUFFICES ASSUME NEW g \in FanoutID, NEW r \in Recipient, cell'[<<g, r>>] = "verify"
               PROVE  /\ row'[r].state \notin {"none", "Pending", "Recovery"}
                      /\ Waits(r)' => /\ ~Flying(r)'
                                      /\ \A h \in FanoutID : cell'[<<h, r>>] = "verify" => h = g
                                      /\ run'[<<g, r>>].pc = "missing" => mail'[r] = 0
    BY DEF VerifyFits
  <2>1. row'[r].state \notin {"none", "Pending", "Recovery"}
    BY <1>1, <1>4, <1>5 DEF AttemptsFit, VerifyFits
  <2>2. ASSUME Waits(r) PROVE g = f /\ run'[<<g, r>>].pc = "idle" /\ \A h \in FanoutID : cell'[<<h, r>>] = "verify" => h = f
    <3>1. g = f /\ \A h \in FanoutID : cell'[<<h, r>>] = "verify" => h = f
      BY <1>4, <1>5, <2>2
    <3>2. run[<<g, r>>].pc = "idle"
      BY <1>4, <2>2 DEF RunFits, VerifierFits
    <3> QED BY <1>3, <3>1, <3>2
  <2> QED BY <1>4, <1>6, <2>1, <2>2
<1> QED BY <1>7, <1>8, <1>9, <1>10 DEF AttemptsFit

(* Verify completes: what the log did not show is not there, and nothing   *)
(* is on its way.                                                          *)
LEMMA VerifyAttempt ==
  ASSUME TypeOK, RunFits, Alone, AttemptsFit, NEW v \in VerifyCell, VerifyCompletes(v)
  PROVE  AttemptsFit'
<1> USE CellKinds, KindsDiffer
<1>1. PICK f \in FanoutID, r \in Recipient : v = <<f, r>>
  BY DEF VerifyCell
<1>2. /\ run[v].pc \in {"found", "missing"} /\ UNCHANGED <<wire, mail, due, process>> /\ Finishes(v)
      /\ cell[v] = "verify" /\ cell'[v] = "absent"
      /\ \A d \in Cells : d # v => cell'[d] = cell[d]
      /\ v[2] = r
  BY <1>1 DEF VerifyCompletes, At, provider, TypeOK, RunFits, VerifierFits
<1>3. run'[v].pc = "idle" /\ \A d \in Cells : d # v => run'[d] = run[d]
  BY <1>2, FinishesEffect
<1>4. /\ \A d \in Op \cup FanoutID : run'[d] = run[d] /\ cell'[d] = cell[d]
      /\ \A w \in VerifyCell : cell'[w] \in {cell[w], "absent"} /\ (run'[w] = run[w] \/ run'[w].pc # "missing")
  BY <1>2, <1>3
<1>5. CASE ~Waits(r)
  <2>1. UNCHANGED row
    BY <1>2, <1>5 DEF VerifyCompletes, Waits
  <2> QED BY <1>2, <1>4, <2>1, QuietStep
<1>6. CASE Waits(r)
  <2>1. /\ \A g \in FanoutID : cell[g] # "fanout"
        /\ ~Flying(r) /\ (run[v].pc = "missing" => mail[r] = 0)
        /\ \A g \in FanoutID : cell'[<<g, r>>] # "verify"
    BY <1>1, <1>2, <1>6 DEF AttemptsFit, FanoutFits, VerifyFits
  <2>2. /\ \A x \in Recipient : x # r => row'[x] = row[x]
        /\ \/ row'[r].state = "Accepted" /\ row'[r].submitted = row[r].submitted /\ row'[r].ripe = row[r].ripe
           \/ row'[r].state = "Pending" /\ row'[r].submitted = FALSE /\ row'[r].ripe = FALSE /\ mail[r] = 0
    BY <1>2, <1>6, <2>1, VerifyRows DEF Waits
  <2>3. r \in InState("RecoveryWaiting")
    BY <1>6 DEF Waits, InState
  <2>4. \A c \in Op : run[c].pc \notin Posting \cup {"expand"}
    BY <2>3 DEF AttemptsFit, PostFits
  <2>5. InState("Recovery") = {} /\ Interrupted = {}
    BY <2>3 DEF AttemptsFit, StageFits
  <2>6. InState("Recovery")' = {} /\ Interrupted' = {}
    <3>1. \A x \in Recipient : row[x].state # "Recovery" /\ ~(row[x].state = "Pending" /\ row[x].submitted)
      BY <2>5 DEF InState, Interrupted
    <3> QED BY <2>2, <3>1 DEF InState, Interrupted
  <2>7. PostFits' /\ StageFits'
    BY <1>4, <2>4, <2>6 DEF PostFits, StageFits, Posting, Submitting
  <2>8. FanoutFits'
    BY <1>4, <2>1 DEF FanoutFits
  <2>9. \A x \in Recipient : /\ Flying(x)' = Flying(x) /\ ~Armed(x)' /\ mail'[x] = mail[x]
                             /\ x # r => Waits(x)' = Waits(x)
    BY <1>2, <1>4, <2>2, <2>4 DEF Flying, Armed, Waits, Posting, Submitting
  <2>10. VerifyFits'
    BY <1>4, <2>1, <2>2, <2>9 DEF AttemptsFit, VerifyFits
  <2>11. OnceFits'
    BY <1>2, <2>1, <2>2, <2>9 DEF AttemptsFit, OnceFits
  <2> QED BY <2>7, <2>8, <2>10, <2>11 DEF AttemptsFit
<1> QED BY <1>5, <1>6

(* A request is taken or lost: whoever it reaches had no message and no    *)
(* other request on its way.                                               *)
LEMMA DeliverAttempt ==
  ASSUME TypeOK, RunFits, AttemptsFit, NEW q \in wire, NEW S \in SUBSET q.to, NEW ok \in BOOLEAN,
         Deliver(q, S, ok)
  PROVE  AttemptsFit'
<1> USE CellKinds, KindsDiffer
<1>1. /\ UNCHANGED <<row, cell, due, process>> /\ wire' = wire \ {q}
      /\ \A r \in Recipient : mail'[r] = IF r \in S THEN mail[r] + 1 ELSE mail[r]
      /\ q.from \in Op
  BY DEF Deliver, durable, TypeOK
<1>2. /\ \A d \in Cells : d # q.from => run'[d] = run[d]
      /\ \/ run'[q.from] = run[q.from]
         \/ /\ run[q.from].pc = "sending" /\ run'[q.from].pc \in {"accepted", "uncertain"}
            /\ run'[q.from].to = run[q.from].to
  <2>1. CASE Awaited(q)
    <3>1. PICK pc \in {"accepted", "uncertain"} : Goes(q.from, pc, q.to)
      BY <2>1 DEF Deliver
    <3>2. q.to = run[q.from].to
      BY <1>1, <2>1 DEF Awaited, AttemptsFit, PostFits
    <3> QED BY <1>1, <2>1, <3>1, <3>2, GoesEffect DEF Awaited
  <2>2. CASE ~Awaited(q)
    BY <2>2 DEF Deliver
  <2> QED BY <2>1, <2>2
<1>3. /\ \A d \in FanoutID \cup VerifyCell : run'[d] = run[d]
      /\ \A c \in Op : \/ run'[c] = run[c]
                      \/ /\ run[c].pc = "sending" /\ run'[c].pc \in {"accepted", "uncertain"}
                         /\ run'[c].to = run[c].to
  BY <1>1, <1>2
<1>4. /\ \A s : InState(s)' = InState(s)
      /\ Interrupted' = Interrupted
      /\ \A r : Waits(r)' = Waits(r)
  BY <1>1 DEF InState, Interrupted, Waits
<1>5. /\ \A r : Flying(r)' => Flying(r)
      /\ \A r \in S : Flying(r)
      /\ \A r : Armed(r)' => Armed(r)
  BY <1>1, <1>3 DEF Flying, Armed
<1>6. PostFits'
  <2> SUFFICES ASSUME NEW c \in Op
               PROVE  /\ run'[c].pc = "expand" =>
                           /\ InState("Recovery")' \subseteq run'[c].to
                           /\ InState("Pending")' = {} /\ InState("RecoveryWaiting")' = {}
                           /\ \A f \in FanoutID : cell'[f] = "absent"
                      /\ run'[c].pc \in Posting => InState("Recovery")' = {} /\ InState("RecoveryWaiting")' = {}
                      /\ run'[c].pc = "policy" =>
                           /\ run'[c].to = InState("Pending")'
                           /\ \A r \in run'[c].to : ~row'[r].submitted
                      /\ run'[c].pc \in Submitting =>
                           \A r \in InState("Pending")' : r \in run'[c].to /\ row'[r].submitted
                      /\ run'[c].pc = "marked" => \A p \in wire' : p.n # run'[c].n
                      /\ run'[c].pc = "sending" => \A p \in wire' : p.n = run'[c].n => p.to = run'[c].to
    BY DEF PostFits
  <2>1. CASE run'[c] = run[c]
    BY <1>1, <1>4, <2>1 DEF AttemptsFit, PostFits
  <2>2. CASE /\ run[c].pc = "sending" /\ run'[c].pc \in {"accepted", "uncertain"}
             /\ run'[c].to = run[c].to
    <3>1. /\ InState("Recovery") = {} /\ InState("RecoveryWaiting") = {}
          /\ \A r \in InState("Pending") : r \in run[c].to /\ row[r].submitted
      BY <2>2 DEF AttemptsFit, PostFits, Posting, Submitting
    <3> QED BY <1>1, <1>4, <2>2, <3>1
  <2> QED BY <1>3, <2>1, <2>2
<1>7. StageFits'
  BY <1>1, <1>3, <1>4 DEF AttemptsFit, StageFits, Submitting
<1>8. FanoutFits' /\ VerifyFits'
  <2>1. \A r \in Recipient : Flying(r) \/ mail'[r] = mail[r]
    BY <1>1, <1>5
  <2>2. \A f \in FanoutID : cell[f] = "fanout" => InState("Pending")' = {} /\ InState("Recovery")' = {}
    BY <1>4 DEF AttemptsFit, FanoutFits
  <2> QED BY <1>1, <1>3, <1>4, <1>5, <2>1, <2>2, RecoveryKept DEF AttemptsFit
<1>9. OnceFits'
  <2>1. ASSUME NEW r \in Recipient, r \in S
        PROVE  mail'[r] = 1 /\ ~Flying(r)' /\ ~Armed(r)'
    <3>1. mail[r] \in Nat
      BY DEF TypeOK
    <3>2. mail[r] <= 1 /\ mail[r] # 1 /\ ~Armed(r)
      BY <1>5, <2>1 DEF AttemptsFit, OnceFits
    <3>3. ~Flying(r)'
      BY <1>1, <2>1 DEF AttemptsFit, OnceFits, Flying
    <3> QED BY <1>1, <1>5, <2>1, <3>1, <3>2, <3>3
  <2>2. ASSUME NEW r \in Recipient, r \notin S
        PROVE  mail'[r] = mail[r]
    BY <1>1, <2>2
  <2>3. ASSUME NEW r \in Recipient
        PROVE  /\ mail'[r] <= 1
               /\ mail'[r] = 1 => ~Flying(r)' /\ ~Armed(r)'
               /\ Armed(r)' => ~Flying(r)'
               /\ \A p, x \in wire' : r \in p.to /\ r \in x.to => p = x
               /\ row'[r].state = "Pending" /\ ~row'[r].submitted => mail'[r] = 0 /\ ~Flying(r)' /\ ~Armed(r)'
               /\ row'[r].ripe => ~Flying(r)' /\ ~Armed(r)'
    <3>1. /\ row'[r] = row[r] /\ wire' \subseteq wire
      BY <1>1
    <3>2. row[r].state = "Pending" /\ ~row[r].submitted => r \notin S
      BY <1>5 DEF AttemptsFit, OnceFits
    <3>3. CASE r \in S
      BY <2>1, <3>1, <3>2, <3>3 DEF AttemptsFit, OnceFits
    <3>4. CASE r \notin S
      BY <1>5, <2>2, <3>1, <3>4 DEF AttemptsFit, OnceFits
    <3> QED BY <3>3, <3>4
  <2> QED BY <2>3 DEF OnceFits
<1> QED BY <1>6, <1>7, <1>8, <1>9 DEF AttemptsFit

(* The delay of r has passed: with a provider that settles nothing is on   *)
(* its way to r then.                                                      *)
LEMMA DelayAttempt ==
  ASSUME TypeOK, RunFits, Settles, AttemptsFit, NEW r \in Recipient, DelayPasses(r)
  PROVE  AttemptsFit'
<1> USE CellKinds
<1>1. /\ UNCHANGED <<wire, mail, cell, process, run>>
      /\ \A c \in Cells : due'[c] = due[c] \ {r}
  BY DEF DelayPasses, provider
<1>2. ~Flying(r) /\ ~Armed(r)
  BY DEF DelayPasses, Flying, Armed, At
<1>3. \A x \in Recipient : /\ row'[x].state = row[x].state /\ row'[x].submitted = row[x].submitted
                           /\ x # r => row'[x].ripe = row[x].ripe
  BY DelayRows
<1>4. /\ \A s : InState(s)' = InState(s)
      /\ Interrupted' = Interrupted
      /\ \A x \in Recipient : Waits(x)' = Waits(x)
      /\ \A x : Flying(x)' = Flying(x) /\ Armed(x)' = Armed(x)
  <2>1. \A s : InState(s)' = InState(s)
    BY <1>3 DEF InState
  <2>2. \A s : \A x \in InState(s) : x \in Recipient
    BY DEF InState
  <2> QED BY <1>1, <1>3, <2>1, <2>2 DEF Interrupted, Waits, Flying, Armed
<1>5. \A s : \A x \in InState(s) : x \in Recipient /\ row'[x].submitted = row[x].submitted
  BY <1>3 DEF InState
<1>6. PostFits'
  BY <1>1, <1>4, <1>5 DEF AttemptsFit, PostFits
<1>7. StageFits'
  BY <1>1, <1>4, <1>5 DEF AttemptsFit, StageFits
<1>8. FanoutFits'
  <2>1. \A f \in FanoutID : \A x \in run[f].to : x \in Recipient
    BY StepTypes
  <2> QED BY <1>1, <1>2, <1>3, <1>4, <2>1 DEF AttemptsFit, FanoutFits
<1>9. VerifyFits'
  BY <1>1, <1>3, <1>4 DEF AttemptsFit, VerifyFits
<1>10. OnceFits'
  BY <1>1, <1>2, <1>3, <1>4 DEF AttemptsFit, OnceFits
<1> QED BY <1>6, <1>7, <1>8, <1>9, <1>10 DEF AttemptsFit

(* A delivery report: its recipient has a message, so no handler that is   *)
(* about to submit holds it.                                               *)
LEMMA EventAttempt ==
  ASSUME TypeOK, RunFits, AttemptsFit, NEW r \in Recipient, NEW e \in Event, RecordEvent(r, e)
  PROVE  AttemptsFit'
<1> USE CellKinds
<1>1. UNCHANGED <<wire, mail, cell, due, process, run>> /\ mail[r] > 0
  BY DEF RecordEvent, provider
<1>2. \A x \in Recipient : /\ row'[x].submitted = row[x].submitted /\ row'[x].ripe = row[x].ripe
                           /\ row'[x].state \in {row[x].state} \cup Evidence
                           /\ x # r => row'[x].state = row[x].state
  <2>1. row[r].state \in State
    BY DEF TypeOK, Row
  <2> QED BY <2>1, EventRows, EventAdvances
<1>3. \A s \in {"none", "Pending", "Recovery", "RecoveryWaiting"} : s \notin Evidence
  BY DEF Evidence
<1>4. /\ InState("Pending")' \subseteq InState("Pending")
      /\ InState("Recovery")' \subseteq InState("Recovery")
      /\ InState("RecoveryWaiting")' \subseteq InState("RecoveryWaiting")
      /\ Interrupted' \subseteq Interrupted
      /\ \A x \in Recipient : Waits(x)' => Waits(x)
      /\ \A x : Flying(x)' = Flying(x) /\ Armed(x)' = Armed(x)
  BY <1>1, <1>2, <1>3 DEF InState, Interrupted, Waits, Flying, Armed
<1>5. \A x \in InState("Pending") : x \in Recipient /\ row'[x].submitted = row[x].submitted
  BY <1>2 DEF InState
<1>6. ASSUME NEW c \in Op, run[c].pc = "policy" PROVE InState("Pending")' = InState("Pending")
  <2>1. r \notin InState("Pending")
    BY <1>1, <1>6 DEF AttemptsFit, PostFits, OnceFits, InState
  <2> QED BY <1>2, <1>4, <2>1 DEF InState
<1>7. PostFits'
  BY <1>1, <1>4, <1>5, <1>6 DEF AttemptsFit, PostFits
<1>8. StageFits'
  BY <1>1, <1>4, <1>5 DEF AttemptsFit, StageFits
<1>9. FanoutFits' /\ VerifyFits'
  <2>1. \A f \in FanoutID : cell[f] = "fanout" => InState("Pending")' = {} /\ InState("Recovery")' = {}
    BY <1>4 DEF AttemptsFit, FanoutFits
  <2>2. \A x \in Recipient : row'[x].state \in {"none", "Pending", "Recovery"} =>
                             row[x].state \in {"none", "Pending", "Recovery"}
    BY <1>2, <1>3
  <2> QED BY <1>1, <1>4, <2>1, <2>2, RecoveryKept DEF AttemptsFit
<1>10. OnceFits'
  BY <1>1, <1>2, <1>3, <1>4 DEF AttemptsFit, OnceFits
<1> QED BY <1>7, <1>8, <1>9, <1>10 DEF AttemptsFit

(* Every handler's step. *)
LEMMA HandlerAttempt ==
  ASSUME TypeOK, RunFits, NumbersFit, RequestFits, Settles, Alone, AttemptsFit, NEW c \in Cells, Handle(c)
  PROVE  AttemptsFit'
<1>1. ASSUME Setup(c) \/ SetupConflicts(c) \/ ReadCandidates(c) \/ ReadWaiting(c) PROVE AttemptsFit'
  <2>1. c \in Op
    BY <1>1, HandlerKinds DEF Setup, SetupConflicts, ReadCandidates, ReadWaiting, At
  <2> QED BY <1>1, <2>1, SetupAttempt, QuietActions, ReadingActions
<1>2. ASSUME NEW f \in FanoutID, Expand(c, f) PROVE AttemptsFit'
  BY <1>2, HandlerKinds, ExpandAttempt DEF Expand, At
<1>3. ASSUME FanoutReads(c) \/ FanoutCompletes(c) PROVE AttemptsFit'
  <2>1. c \in FanoutID
    BY <1>3, HandlerKinds DEF FanoutReads, FanoutCompletes, At
  <2> QED BY <1>3, <2>1, ReadingActions, FanoutAttempt
<1>4. ASSUME c \in VerifyCell, VerifyNotNeeded(c) \/ Verify(c) \/ VerifyCompletes(c) PROVE AttemptsFit'
  BY <1>4, QuietActions, ReadingActions, VerifyAttempt
<1>5. ASSUME ReadUnresolved(c) \/ ReadPending(c) \/ Defer(c) \/ BestEffort(c) PROVE AttemptsFit'
  <2>1. c \in Op
    BY <1>5, HandlerKinds DEF ReadUnresolved, ReadPending, Defer, BestEffort, At
  <2> QED BY <1>5, <2>1, ReadingActions, QuietActions, PostingActions
<1>6. ASSUME BestEffortRefused(c) \/ BestEffortCompletes(c) \/ MarkSubmitted(c) \/ Send(c) PROVE AttemptsFit'
  <2>1. c \in Op
    BY <1>6, HandlerKinds DEF BestEffortRefused, BestEffortCompletes, MarkSubmitted, Send, At
  <2> QED BY <1>6, <2>1, QuietActions, PostingActions
<1>7. ASSUME Accept(c) \/ Recover(c) PROVE AttemptsFit'
  <2>1. c \in Op
    BY <1>7, HandlerKinds DEF Accept, Recover, At
  <2> QED BY <1>7, <2>1, ResultActions
<1> QED BY <1>1, <1>2, <1>3, <1>4, <1>5, <1>6, <1>7 DEF Handle

LEMMA AttemptsStep ==
  ASSUME TypeOK, RunFits, NumbersFit, RequestFits, Settles, Alone, AttemptsFit, [Next]_vars
  PROVE  AttemptsFit'
<1>1. ASSUME NEW c \in Cells, Claim(c) \/ Fail(c) \/ Handle(c) PROVE AttemptsFit'
  BY <1>1, QuietActions, HandlerAttempt
<1>2. ASSUME NEW c \in Op, AddSend(c) \/ SendTimesOut(c) PROVE AttemptsFit'
  BY <1>2, QuietActions, ReadingActions
<1>3. CASE Stop \/ Exit \/ Crash \/ Restart \/ UNCHANGED vars
  BY <1>3, QuietActions, ResultActions
<1>4. ASSUME NEW q \in wire, \E S \in SUBSET q.to, ok \in BOOLEAN : Deliver(q, S, ok) PROVE AttemptsFit'
  BY <1>4, DeliverAttempt
<1>5. ASSUME NEW r \in Recipient, DelayPasses(r) PROVE AttemptsFit'
  BY <1>5, DelayAttempt
<1>6. ASSUME NEW r \in Recipient, NEW e \in Event, RecordEvent(r, e) PROVE AttemptsFit'
  BY <1>6, EventAttempt
<1> QED BY <1>1, <1>2, <1>3, <1>4, <1>5, <1>6 DEF Next, Network

--------------------------------------------------------------------------------
(* The inductive invariant.                                                *)

LEMMA InitInvariant ==
  ASSUME Init
  PROVE  IInv
<1> USE CellKinds, EmailConstants
<1>1. Idle \in Handling /\ NoRow \in Row
  BY DEF Idle, Handling, Pc, NoRow, Row, State
<1>2. /\ \A c \in Cells : run[c] = Idle /\ run[c].pc = "idle" /\ cell[c] = "absent"
      /\ \A r \in Recipient : row[r] = NoRow /\ row[r].state = "none" /\ mail[r] = 0
      /\ wire = {} /\ suppressed = {} /\ sends = 0
  BY DEF Init, Idle, NoRow
<1>3. TypeOK
  BY <1>1 DEF Init, TypeOK
<1>4. RunFits
  BY <1>2 DEF RunFits, SequenceFits, RecoveryFits, VerifierFits, BusyFits, Busy
<1>5. NumbersFit /\ RequestFits /\ AnswerFits /\ SuppressedFits
  BY <1>2 DEF NumbersFit, RequestFits, AnswerFits, SuppressedFits
<1>6. AcceptedIsReal /\ WaitingIsVerified
  BY <1>2 DEF AcceptedIsReal, WaitingIsVerified, InState, Evidence
<1>7. AttemptsFit
  <2>1. \A r : ~Flying(r) /\ ~Armed(r)
    BY <1>2 DEF Flying, Armed
  <2>2. \A s : s # "none" => InState(s) = {}
    BY <1>2 DEF InState
  <2>3. Interrupted = {}
    BY <2>2 DEF Interrupted
  <2>4. PostFits /\ StageFits
    BY <1>2, <2>2, <2>3 DEF PostFits, StageFits, Posting, Submitting
  <2>5. FanoutFits /\ VerifyFits
    BY <1>2 DEF FanoutFits, VerifyFits
  <2>6. OnceFits
    BY <1>2, <2>1 DEF OnceFits, NoRow
  <2> QED BY <2>4, <2>5, <2>6 DEF AttemptsFit
<1> QED BY <1>3, <1>4, <1>5, <1>6, <1>7 DEF IInv

LEMMA Invariance == IInv /\ [Next]_vars => IInv'
<1> SUFFICES ASSUME IInv, [Next]_vars
             PROVE  IInv'
  OBVIOUS
<1> USE DEF IInv
<1>1. TypeOK'
  BY TypeStep
<1>2. RunFits'
  BY CellsStep, BusyStep DEF RunFits
<1>3. NumbersFit' /\ RequestFits' /\ AnswerFits'
  BY NumbersStep, RequestStep, AnswerStep
<1>4. AcceptedIsReal' /\ WaitingIsVerified' /\ SuppressedFits'
  BY AcceptedStep, WaitingStep, SuppressedStep
<1>5. Settles /\ Alone => AttemptsFit'
  BY AttemptsStep
<1> QED BY <1>1, <1>2, <1>3, <1>4, <1>5

(* The inductive invariant of a token's email holds in every behaviour,    *)
(* whatever the policy decides and the provider answers or reports.        *)
THEOREM InvariantHolds == Spec => []IInv
BY InitInvariant, Invariance, PTL DEF Spec

(* Every row, cell, handler and request keeps its type: in particular a    *)
(* delivery report never leaves a state that no statement of the store     *)
(* knows.                                                                  *)
THEOREM TypeCorrect == Spec => []TypeOK
<1>1. IInv => TypeOK
  BY DEF IInv
<1> QED BY <1>1, InvariantHolds, PTL

(* Acceptance is never invented, whatever is lost, late, repeated or       *)
(* crashes: any number of workers and sequences may race for the token,    *)
(* and the provider need not settle.                                       *)
THEOREM AcceptanceIsReal == Spec => []AcceptedIsReal
<1>1. IInv => AcceptedIsReal
  BY DEF IInv
<1> QED BY <1>1, InvariantHolds, PTL

(* A waiting recipient always has the cell that will verify it: recovery   *)
(* never forgets anyone.                                                   *)
THEOREM WaitingAlwaysVerified == Spec => []WaitingIsVerified
<1>1. IInv => WaitingIsVerified
  BY DEF IInv
<1> QED BY <1>1, InvariantHolds, PTL

(* No step of a handler, a restart or a late verification takes delivery   *)
(* evidence back: in particular a repeated Setup never resets a row.       *)
THEOREM EvidenceIsFinal == Spec => EvidenceKept
<1>1. IInv /\ [Next]_vars
        => [\A r \in Recipient : row[r].state \in Evidence => row'[r].state \in Evidence]_vars
  BY EvidenceStep DEF IInv
<1> QED BY <1>1, InvariantHolds, PTL DEF Spec, EvidenceKept

(* A best-effort decision is final: with one worker or one sequence for    *)
(* the token no request goes out for a suppressed recipient, also not from *)
(* a handler that read its recipients before the decision.                 *)
THEOREM SuppressionIsFinal == Spec => SuppressedStaysSilent
<1>1. ASSUME IInv, [Next]_vars, Alone, NEW q \in wire' \ wire
      PROVE  q.to \cap suppressed = {}
  <2>1. ASSUME NEW c \in Op, MarkSubmitted(c) PROVE FALSE
    BY <1>1, <2>1 DEF MarkSubmitted
  <2>2. PICK c \in Op : Send(c)
    BY <1>1, <2>1, WireSteps DEF IInv
  <2>3. q.to = run[c].to /\ run[c].pc = "marked"
    BY <1>1, <2>2 DEF Send, At
  <2> QED BY <1>1, <2>3 DEF IInv, SuppressedFits
<1>2. IInv /\ [Next]_vars => [Alone => \A q \in wire' \ wire : q.to \cap suppressed = {}]_vars
  BY <1>1
<1> QED BY <1>2, InvariantHolds, PTL DEF Spec, SuppressedStaysSilent

(* No recipient is sent the message twice, for every number of recipients, *)
(* attempts, crashes and lost answers: with one worker or one sequence for *)
(* the token, and a provider that has taken or lost a request, and shows   *)
(* it, by the time VerifyDelay has passed.                                 *)
THEOREM NoDuplicates == Spec => []NoDuplicate
<1>1. IInv => NoDuplicate
  BY DEF IInv, AttemptsFit, OnceFits, NoDuplicate
<1> QED BY <1>1, InvariantHolds, PTL
================================================================================
