--------------------------- MODULE AdminDeleteProofs ---------------------------
(***************************************************************************)
(* Proofs that the outcome of an admin-delete request is true, final and   *)
(* never lost, for any set of configurations and any number of crashes,    *)
(* lost answers, pauses and sign-ins.                                      *)
(***************************************************************************)
EXTENDS AdminDelete, TLAPS

(* What the worker's record may become.                                    *)
LEMMA WorkTypes ==
  /\ Resting \in Work
  /\ \A p \in Phase, j \in {"evaluate", "persist"}, pc \in Place :
       [Resting EXCEPT !.job = j, !.phase = p, !.pc = pc] \in Work
  /\ \A w \in Work, pc \in Place : [w EXCEPT !.pc = pc] \in Work
  /\ \A w \in Work, pc \in Place, seen \in SUBSET Doc :
       [w EXCEPT !.pc = pc, !.seen = seen] \in Work
  /\ \A w \in Work, out \in Outcome :
       [w EXCEPT !.pc = "conclude", !.seen = {}, !.out = out] \in Work
<1>1. Resting \in Work
  BY DEF Resting, Work, Phase, Place
<1>2. \A p \in Phase, j \in {"evaluate", "persist"}, pc \in Place :
        [Resting EXCEPT !.job = j, !.phase = p, !.pc = pc] \in Work
  BY DEF Resting, Work
<1>3. \A w \in Work, pc \in Place : [w EXCEPT !.pc = pc] \in Work
  BY DEF Work
<1>4. \A w \in Work, pc \in Place, seen \in SUBSET Doc :
        [w EXCEPT !.pc = pc, !.seen = seen] \in Work
  BY DEF Work
<1>5. \A w \in Work, out \in Outcome :
        [w EXCEPT !.pc = "conclude", !.seen = {}, !.out = out] \in Work
  BY DEF Work, Place
<1> QED BY <1>1, <1>2, <1>3, <1>4, <1>5

LEMMA DisturbType == TypeOK /\ Disturb => disturbed' \in 0..MaxDisturb
BY AdminDeleteConstants DEF TypeOK, Disturb

LEMMA InitialInvariant == Init => IInv
<1> SUFFICES ASSUME Init PROVE IInv
  OBVIOUS
<1>1. TypeOK
  <2>1. work \in Work /\ audit \in Audit /\ persist \in [Phase -> Payload \cup {NoPayload}]
    BY WorkTypes DEF Init, Audit
  <2>2. valid \in BOOLEAN /\ account \in BOOLEAN /\ paused \in BOOLEAN /\ pauseEvent \in BOOLEAN
    BY DEF Init
  <2> QED BY <2>1, <2>2, AdminDeleteConstants DEF Init, TypeOK, Status
<1>2. WorkFits /\ KeyFits /\ DeletedFits /\ PendingIsServed
  BY DEF Init, WorkFits, KeyFits, DeletedFits, AuthDeletedIsReal, PendingIsServed,
         Resting, NoPayload, Phase
<1> QED BY <1>1, <1>2 DEF IInv

(* The administrator, the operators and the user's client.                 *)
LEMMA EnvironmentSteps ==
  ASSUME IInv, Environment
  PROVE  IInv'
<1>1. CASE Request
  <2>1. TypeOK'
    BY <1>1 DEF Request, IInv, TypeOK, store, bounds, Status
  <2>2. WorkFits' /\ KeyFits' /\ DeletedFits' /\ PendingIsServed'
    BY <1>1 DEF Request, IInv, TypeOK, Work, WorkFits, KeyFits, DeletedFits, AuthDeletedIsReal,
                PendingIsServed, store, bounds
  <2> QED BY <2>1, <2>2 DEF IInv
<1>2. CASE Scrub
  <2>1. TypeOK'
    BY <1>2 DEF Scrub, IInv, TypeOK, store, watches, bounds, Status
  <2>2. WorkFits' /\ KeyFits' /\ DeletedFits' /\ PendingIsServed'
    BY <1>2
       DEF Scrub, IInv, TypeOK, WorkFits, KeyFits, DeletedFits, AuthDeletedIsReal, PendingIsServed,
           store, watches, bounds
  <2> QED BY <2>1, <2>2 DEF IInv
<1>3. CASE SignIn
  <2>1. TypeOK'
    BY <1>3, AdminDeleteConstants DEF SignIn, IInv, TypeOK, store, watches, Status
  <2>2. WorkFits' /\ KeyFits' /\ DeletedFits' /\ PendingIsServed'
    BY <1>3
       DEF SignIn, IInv, TypeOK, WorkFits, KeyFits, DeletedFits, AuthDeletedIsReal,
           PendingIsServed, store, watches
  <2> QED BY <2>1, <2>2 DEF IInv
<1>4. CASE Toggle
  <2>1. TypeOK'
    BY <1>4, AdminDeleteConstants DEF Toggle, IInv, TypeOK, store, Status
  <2>2. WorkFits' /\ KeyFits' /\ DeletedFits' /\ PendingIsServed'
    BY <1>4
       DEF Toggle, IInv, TypeOK, WorkFits, KeyFits, DeletedFits, AuthDeletedIsReal,
           PendingIsServed, store
  <2> QED BY <2>1, <2>2 DEF IInv
<1> QED BY <1>1, <1>2, <1>3, <1>4 DEF Environment

(* Starts with any configuration, and crashes.                             *)
LEMMA ProcessSteps ==
  ASSUME IInv, (\E m \in Mode : Start(m)) \/ Crash
  PROVE  IInv'
<1>1. CASE \E m \in Mode : Start(m)
  <2>1. TypeOK'
    BY <1>1 DEF Start, Running, IInv, TypeOK, firebase, store, bounds, Status
  <2>2. WorkFits' /\ KeyFits' /\ DeletedFits' /\ PendingIsServed'
    BY <1>1
       DEF Start, Running, IInv, TypeOK, WorkFits, KeyFits, DeletedFits, AuthDeletedIsReal,
           PendingIsServed, firebase, store, bounds
  <2> QED BY <2>1, <2>2 DEF IInv
<1>2. CASE Crash
  <2>1. work' \in Work /\ disturbed' \in 0..MaxDisturb
    BY <1>2, WorkTypes, DisturbType DEF Crash, IInv
  <2>2. pauseEvent' \in BOOLEAN
    BY <1>2 DEF Crash
  <2>3. TypeOK'
    BY <1>2, <2>1, <2>2 DEF Crash, IInv, TypeOK, firebase, store, Status
  <2>4. WorkFits' /\ KeyFits' /\ DeletedFits' /\ PendingIsServed'
    BY <1>2 DEF Crash, Resting, IInv, TypeOK, WorkFits, KeyFits, DeletedFits, AuthDeletedIsReal,
                PendingIsServed, firebase, store
  <2> QED BY <2>3, <2>4 DEF IInv
<1> QED BY <1>1, <1>2

(* The listener's two watches.                                             *)
LEMMA ListenerSteps ==
  ASSUME IInv, Watch \/ WatchBreaks \/ WatchPause \/ PauseWatchBreaks
  PROVE  IInv'
<1>1. CASE SeeRequest
  <2>1. TypeOK'
    BY <1>1 DEF SeeRequest, IInv, TypeOK, firebase, store, bounds, Status
  <2>2. WorkFits' /\ KeyFits' /\ DeletedFits' /\ PendingIsServed'
    BY <1>1
       DEF SeeRequest, IInv, TypeOK, WorkFits, KeyFits, DeletedFits, AuthDeletedIsReal,
           PendingIsServed, firebase, store, bounds
  <2> QED BY <2>1, <2>2 DEF IInv
<1>2. CASE GateRequest
  <2>1. TypeOK'
    BY <1>2 DEF GateRequest, IInv, TypeOK, firebase, store, bounds, Status
  <2>2. WorkFits' /\ KeyFits' /\ DeletedFits' /\ PendingIsServed'
    BY <1>2
       DEF GateRequest, IInv, TypeOK, WorkFits, KeyFits, DeletedFits, AuthDeletedIsReal,
           PendingIsServed, firebase, store, bounds
  <2> QED BY <2>1, <2>2 DEF IInv
<1>3. CASE EnqueueRequest
  <2>1. TypeOK'
    BY <1>3 DEF EnqueueRequest, Enqueue, PhaseOf, IInv, TypeOK, firebase, bounds, Status, Phase
  <2>2. WorkFits' /\ KeyFits' /\ DeletedFits' /\ PendingIsServed'
    BY <1>3
       DEF EnqueueRequest, Enqueue, PhaseOf, IInv, TypeOK, WorkFits, KeyFits, DeletedFits,
           AuthDeletedIsReal, PendingIsServed, firebase, bounds
  <2> QED BY <2>1, <2>2 DEF IInv
<1>4. CASE WatchBreaks
  <2>1. TypeOK'
    BY <1>4, AdminDeleteConstants DEF WatchBreaks, Disturb, IInv, TypeOK, firebase, store, Status
  <2>2. WorkFits' /\ KeyFits' /\ DeletedFits' /\ PendingIsServed'
    BY <1>4
       DEF WatchBreaks, Disturb, IInv, TypeOK, WorkFits, KeyFits, DeletedFits, AuthDeletedIsReal,
           PendingIsServed, firebase, store
  <2> QED BY <2>1, <2>2 DEF IInv
<1>5. CASE SeePause
  <2>1. pauseEvent' \in BOOLEAN
    BY <1>5 DEF SeePause
  <2>2. TypeOK'
    BY <1>5, <2>1 DEF SeePause, IInv, TypeOK, firebase, store, bounds
  <2>3. WorkFits' /\ KeyFits' /\ DeletedFits' /\ PendingIsServed'
    BY <1>5 DEF SeePause, IInv, TypeOK, WorkFits, KeyFits, DeletedFits, AuthDeletedIsReal,
                PendingIsServed, firebase, store, bounds
  <2> QED BY <2>2, <2>3 DEF IInv
<1>6. CASE ReadPause
  <2>1. TypeOK'
    BY <1>6 DEF ReadPause, IInv, TypeOK, firebase, store, bounds, Status
  <2>2. WorkFits' /\ KeyFits' /\ DeletedFits' /\ PendingIsServed'
    BY <1>6
       DEF ReadPause, IInv, TypeOK, WorkFits, KeyFits, DeletedFits, AuthDeletedIsReal,
           PendingIsServed, firebase, store, bounds
  <2> QED BY <2>1, <2>2 DEF IInv
<1>7. CASE GateScan
  <2>1. TypeOK'
    BY <1>7 DEF GateScan, IInv, TypeOK, firebase, store, bounds, Status
  <2>2. WorkFits' /\ KeyFits' /\ DeletedFits' /\ PendingIsServed'
    BY <1>7
       DEF GateScan, IInv, TypeOK, WorkFits, KeyFits, DeletedFits, AuthDeletedIsReal,
           PendingIsServed, firebase, store, bounds
  <2> QED BY <2>1, <2>2 DEF IInv
<1>8. CASE Scan
  <2>1. observed' \subseteq Phase
    BY <1>8 DEF Scan, Enqueue, PhaseOf, Phase, IInv, TypeOK
  <2>2. TypeOK'
    BY <1>8, <2>1 DEF Scan, IInv, TypeOK, firebase, bounds
  <2>3. WorkFits' /\ KeyFits' /\ DeletedFits' /\ PendingIsServed'
    BY <1>8 DEF Scan, Enqueue, isEligible, IInv, TypeOK, WorkFits, KeyFits, DeletedFits, AuthDeletedIsReal,
                PendingIsServed, firebase, bounds
  <2> QED BY <2>2, <2>3 DEF IInv
<1>9. CASE PauseWatchBreaks
  <2>1. TypeOK'
    BY <1>9, AdminDeleteConstants
       DEF PauseWatchBreaks, Disturb, IInv, TypeOK, firebase, store, Status
  <2>2. WorkFits' /\ KeyFits' /\ DeletedFits' /\ PendingIsServed'
    BY <1>9
       DEF PauseWatchBreaks, Disturb, IInv, TypeOK, WorkFits, KeyFits, DeletedFits,
           AuthDeletedIsReal, PendingIsServed, firebase, store
  <2> QED BY <2>1, <2>2 DEF IInv
<1> QED BY <1>1, <1>2, <1>3, <1>4, <1>5, <1>6, <1>7, <1>8, <1>9 DEF Watch, WatchPause

(* The transaction of PersistOutcome.                                      *)
LEMMA PersistedStep ==
  ASSUME IInv, work.pc = "commit", Persisted(persist[work.phase])
  PROVE  /\ persist[work.phase] \in Payload
         /\ status' \in Status /\ audit' \in Audit /\ event' \in Status
         /\ status' # "pending"
         /\ status = "none" <=> status' = "none"
         /\ status' = "none" => event' = event
         /\ status' = "auth_deleted" => ~account
<1> DEFINE o == persist[work.phase]
<1>1. work.phase \in Phase /\ o \in Payload
  BY DEF IInv, TypeOK, WorkFits, Work
<1>2. o.outcome \in Outcome /\ o.real \in BOOLEAN
  BY <1>1 DEF Payload
<1>3. o.outcome = "auth_deleted" => ~account
  BY <1>1 DEF IInv, DeletedFits
<1>4. Promoting(o) \in BOOLEAN
  BY DEF Promoting
<1>5. [outcome |-> o.outcome, dryRun |-> Promoting(o)] \in Audit
  BY <1>2, <1>4 DEF Audit
<1>6. audit' \in Audit
  BY <1>5 DEF Persisted, IInv, TypeOK
<1> HIDE DEF o
<1>7. Persisted(o)
  BY DEF o
<1> QED BY <1>1, <1>2, <1>3, <1>6, <1>7
        DEF o, Persisted, IInv, TypeOK, DeletedFits, AuthDeletedIsReal, Status, Outcome, Promoting

(* The worker: cells claimed, handlers executed, results applied.          *)
LEMMA WorkerSteps ==
  ASSUME IInv,
         \/ \E p \in Phase : EmitTruth(p) \/ ClaimEvaluate(p) \/ ClaimPersist(p)
         \/ Handle \/ RetryLater \/ DeleteUnanswered \/ PersistUnanswered
  PROVE  IInv'
<1>1. CASE \E p \in Phase : EmitTruth(p)
  <2>1. work' \in Work
    BY <1>1 DEF EmitTruth, IInv, TypeOK
  <2>2. TypeOK'
    BY <1>1, <2>1 DEF EmitTruth, IInv, TypeOK, firebase, watches, bounds
  <2>3. WorkFits' /\ KeyFits' /\ DeletedFits' /\ PendingIsServed'
    BY <1>1
       DEF EmitTruth, IInv, TypeOK, WorkFits, KeyFits, DeletedFits, AuthDeletedIsReal,
           PendingIsServed, firebase, watches, bounds, Work
  <2> QED BY <2>2, <2>3 DEF IInv
<1>2. CASE \E p \in Phase : ClaimEvaluate(p)
  <2>1. work' \in Work
    <3>1. PICK p \in Phase : work' = [Resting EXCEPT !.job = "evaluate", !.phase = p, !.pc = "status"]
      BY <1>2 DEF ClaimEvaluate
    <3>2. "evaluate" \in {"evaluate", "persist"} /\ "status" \in Place
      BY DEF Place
    <3>3. [Resting EXCEPT !.job = "evaluate", !.phase = p, !.pc = "status"] \in Work
      BY <3>2, WorkTypes, Zenon
    <3> QED BY <3>1, <3>3, Zenon
  <2>2. TypeOK'
    <3>1. UNCHANGED <<firebase, store, mode, watches, bounds>>
      BY <1>2 DEF ClaimEvaluate
    <3> QED BY <2>1, <3>1 DEF IInv, TypeOK, firebase, store, watches, bounds
  <2>3. WorkFits' /\ KeyFits' /\ DeletedFits' /\ PendingIsServed'
    BY <1>2
       DEF ClaimEvaluate, Resting, IInv, TypeOK, WorkFits, KeyFits, DeletedFits, AuthDeletedIsReal,
           PendingIsServed, firebase, store, watches, bounds, Phase, Work
  <2> QED BY <2>2, <2>3 DEF IInv
<1>3. CASE \E p \in Phase : ClaimPersist(p)
  <2>1. work' \in Work
    <3>1. PICK p \in Phase : work' = [Resting EXCEPT !.job = "persist", !.phase = p, !.pc = "commit"]
      BY <1>3 DEF ClaimPersist
    <3>2. "persist" \in {"evaluate", "persist"} /\ "commit" \in Place
      BY DEF Place
    <3>3. [Resting EXCEPT !.job = "persist", !.phase = p, !.pc = "commit"] \in Work
      BY <3>2, WorkTypes, Zenon
    <3> QED BY <3>1, <3>3, Zenon
  <2>2. TypeOK'
    <3>1. UNCHANGED <<firebase, store, mode, watches, bounds>>
      BY <1>3 DEF ClaimPersist
    <3> QED BY <2>1, <3>1 DEF IInv, TypeOK, firebase, store, watches, bounds
  <2>3. WorkFits' /\ KeyFits' /\ DeletedFits' /\ PendingIsServed'
    BY <1>3
       DEF ClaimPersist, Resting, IInv, TypeOK, WorkFits, KeyFits, DeletedFits, AuthDeletedIsReal,
           PendingIsServed, firebase, store, watches, bounds, Phase, Work
  <2> QED BY <2>2, <2>3 DEF IInv
<1>4. CASE RetryLater
  <2>1. work' \in Work /\ disturbed' \in 0..MaxDisturb
    BY <1>4, WorkTypes, DisturbType DEF RetryLater, IInv
  <2>2. TypeOK'
    BY <1>4, <2>1 DEF RetryLater, IInv, TypeOK, firebase, store, watches
  <2>3. WorkFits' /\ KeyFits' /\ DeletedFits' /\ PendingIsServed'
    BY <1>4 DEF RetryLater, Resting, IInv, TypeOK, WorkFits, KeyFits, DeletedFits, AuthDeletedIsReal,
                PendingIsServed, firebase, store, watches
  <2> QED BY <2>2, <2>3 DEF IInv
<1>5. CASE ReadStatus
  <2>1. work' \in Work
    BY <1>5, WorkTypes DEF ReadStatus, isEligible, At, Goes, Resting, IInv, TypeOK, Place
  <2>2. TypeOK'
    BY <1>5, <2>1
       DEF ReadStatus, isEligible, At, Goes, Resting, IInv, TypeOK, firebase, watches, bounds
  <2>3. WorkFits' /\ KeyFits' /\ DeletedFits' /\ PendingIsServed'
    BY <1>5
       DEF ReadStatus, isEligible, At, Goes, Resting, IInv, TypeOK, WorkFits, KeyFits, DeletedFits,
           AuthDeletedIsReal, PendingIsServed, firebase, watches, bounds, Work
  <2> QED BY <2>2, <2>3 DEF IInv
<1>6. CASE ReadPaused
  <2>1. work' \in Work
    BY <1>6, WorkTypes DEF ReadPaused, At, Goes, Decides, IInv, TypeOK, Place, Outcome
  <2>2. TypeOK'
    BY <1>6, <2>1 DEF ReadPaused, IInv, TypeOK, firebase, store, watches, bounds
  <2>3. /\ work'.pc \in {"none", "users", "conclude"}
        /\ work'.pc = "none" => work'.job = "none"
        /\ work'.pc # "none" => work'.job = work.job /\ work'.phase = work.phase
        /\ work'.pc = "conclude" => work'.out = "invalid_request"
    <3>1. work' = Resting \/ Decides("invalid_request") \/ Goes("users")
      BY <1>6 DEF ReadPaused
    <3>2. work.pc = "paused" /\ work \in Work
      BY <1>6 DEF ReadPaused, At, IInv, TypeOK
    <3>3. CASE work' = Resting
      BY <3>3 DEF Resting
    <3>4. CASE Decides("invalid_request")
      BY <3>2, <3>4 DEF Decides, Work
    <3>5. CASE Goes("users")
      BY <3>2, <3>5 DEF Goes, Work
    <3> QED BY <3>1, <3>3, <3>4, <3>5
  <2>4. WorkFits'
    BY <1>6, <2>3 DEF ReadPaused, At, IInv, WorkFits, Outcome, firebase, store
  <2>5. KeyFits' /\ PendingIsServed'
    BY <1>6 DEF ReadPaused, IInv, KeyFits, PendingIsServed, firebase, store, watches
  <2>6. DeletedFits'
    BY <1>6, <2>3 DEF ReadPaused, IInv, DeletedFits, AuthDeletedIsReal, firebase, store
  <2> QED BY <2>2, <2>4, <2>5, <2>6 DEF IInv
<1>7. CASE ReadUsers
  <2>1. work' \in Work
    BY <1>7, WorkTypes DEF ReadUsers, At, IInv, TypeOK, Place
  <2>2. TypeOK'
    BY <1>7, <2>1 DEF ReadUsers, At, IInv, TypeOK, firebase, store, watches, bounds
  <2>3. WorkFits' /\ KeyFits' /\ DeletedFits' /\ PendingIsServed'
    BY <1>7
       DEF ReadUsers, At, IInv, TypeOK, WorkFits, KeyFits, DeletedFits, AuthDeletedIsReal,
           PendingIsServed, firebase, store, watches, bounds, Work
  <2> QED BY <2>2, <2>3 DEF IInv
<1>8. CASE ReadPublic
  <2>1. work' \in Work
    BY <1>8, WorkTypes DEF ReadPublic, At, Goes, Decides, IInv, TypeOK, Place, Outcome
  <2>2. TypeOK'
    BY <1>8, <2>1 DEF ReadPublic, At, Goes, Decides, IInv, TypeOK, firebase, store, watches, bounds
  <2>3. WorkFits' /\ KeyFits' /\ DeletedFits' /\ PendingIsServed'
    BY <1>8
       DEF ReadPublic, At, Goes, Decides, IInv, TypeOK, WorkFits, KeyFits, DeletedFits,
           AuthDeletedIsReal, PendingIsServed, firebase, store, watches, bounds, Outcome, Work
  <2> QED BY <2>2, <2>3 DEF IInv
<1>9. CASE DeleteUser
  <2>1. work' \in Work
    BY <1>9, WorkTypes DEF DeleteUser, At, Decides, IInv, TypeOK, Outcome
  <2>2. TypeOK'
    BY <1>9, <2>1 DEF DeleteUser, At, Decides, IInv, TypeOK, store, watches, bounds
  <2>3. WorkFits' /\ KeyFits' /\ DeletedFits' /\ PendingIsServed'
    BY <1>9
       DEF DeleteUser, At, Decides, IInv, TypeOK, WorkFits, KeyFits, DeletedFits,
           AuthDeletedIsReal, PendingIsServed, store, watches, bounds, Outcome, Work
  <2> QED BY <2>2, <2>3 DEF IInv
<1>10. CASE DeleteRefused
  <2>1. work' \in Work
    BY <1>10, WorkTypes DEF DeleteRefused, At, Decides, IInv, TypeOK, Outcome
  <2>2. TypeOK'
    BY <1>10, <2>1 DEF DeleteRefused, At, Decides, IInv, TypeOK, firebase, store, watches, bounds
  <2>3. WorkFits' /\ KeyFits' /\ DeletedFits' /\ PendingIsServed'
    BY <1>10
       DEF DeleteRefused, At, Decides, IInv, TypeOK, WorkFits, KeyFits, DeletedFits,
           AuthDeletedIsReal, PendingIsServed, firebase, store, watches, bounds, Outcome, Work
  <2> QED BY <2>2, <2>3 DEF IInv
<1>11. CASE DeleteUnanswered
  <2>1. work' \in Work /\ disturbed' \in 0..MaxDisturb
    BY <1>11, WorkTypes, DisturbType DEF DeleteUnanswered, IInv
  <2>2. account' \in BOOLEAN
    BY <1>11 DEF DeleteUnanswered
  <2>3. TypeOK'
    BY <1>11, <2>1, <2>2 DEF DeleteUnanswered, IInv, TypeOK, store, watches
  <2>4. WorkFits' /\ KeyFits' /\ DeletedFits' /\ PendingIsServed'
    BY <1>11 DEF DeleteUnanswered, Resting, IInv, TypeOK, WorkFits, KeyFits, DeletedFits, AuthDeletedIsReal,
                PendingIsServed, store, watches
  <2> QED BY <2>3, <2>4 DEF IInv
<1>12. CASE Conclude
  <2> DEFINE payload == [outcome |-> work.out, real |-> (mode = "real")]
  <2>1. work.phase \in evaluate /\ work.phase \in Phase /\ work.out \in Outcome
    BY <1>12 DEF Conclude, At, IInv, TypeOK, WorkFits, Work
  <2>2. (mode = "real") \in BOOLEAN
    OBVIOUS
  <2>3. payload \in Payload
    BY <2>1, <2>2 DEF Payload
  <2>4. payload # NoPayload
    BY <2>1 DEF NoPayload, Outcome
  <2>5. persist' = [persist EXCEPT ![work.phase] = payload]
    BY <1>12 DEF Conclude
  <2> HIDE DEF payload
  <2>6. work' = Resting /\ evaluate' = evaluate \ {work.phase}
    BY <1>12 DEF Conclude
  <2>7. persist' \in [Phase -> Payload \cup {NoPayload}]
    BY <2>3, <2>5 DEF IInv, TypeOK
  <2>8. TypeOK'
    BY <1>12, <2>7, WorkTypes DEF Conclude, IInv, TypeOK, firebase, watches, bounds
  <2>9. WorkFits'
    BY <2>6 DEF WorkFits, Resting
  <2>10. KeyFits' /\ PendingIsServed'
    BY <1>12, <2>1, <2>4, <2>5, <2>6
       DEF Conclude, IInv, TypeOK, KeyFits, PendingIsServed, firebase, watches
  <2>11. payload.outcome = work.out
    BY DEF payload
  <2>12. DeletedFits'
    BY <1>12, <2>1, <2>5, <2>6, <2>11
       DEF Conclude, At, Resting, IInv, TypeOK, DeletedFits, AuthDeletedIsReal, firebase
  <2> QED BY <2>8, <2>9, <2>10, <2>12 DEF IInv
<1>13. CASE PersistOutcome
  <2>1. work' \in Work
    BY <1>13, WorkTypes DEF PersistOutcome, Goes, IInv, TypeOK, Place
  <2>2. work.pc = "commit" /\ Persisted(persist[work.phase])
    BY <1>13 DEF PersistOutcome, At
  <2>3. TypeOK'
    BY <1>13, <2>1, <2>2, PersistedStep DEF PersistOutcome, IInv, TypeOK, store, bounds
  <2>4. WorkFits'
    BY <1>13, <2>2, PersistedStep
       DEF PersistOutcome, Goes, Resting, IInv, TypeOK, Work, WorkFits, store
  <2>5. KeyFits' /\ DeletedFits' /\ PendingIsServed'
    BY <1>13, <2>2, PersistedStep
       DEF PersistOutcome, Goes, Resting, IInv, TypeOK, Work, KeyFits, DeletedFits, AuthDeletedIsReal,
           PendingIsServed, store
  <2> QED BY <2>3, <2>4, <2>5 DEF IInv
<1>14. CASE PersistUnanswered
  <2>1. work' \in Work /\ disturbed' \in 0..MaxDisturb
    BY <1>14, WorkTypes, DisturbType DEF PersistUnanswered, Goes, IInv, TypeOK, Place
  <2>2. work.pc = "commit" /\ Persisted(persist[work.phase])
    BY <1>14 DEF PersistUnanswered, At
  <2>3. TypeOK'
    BY <1>14, <2>1, <2>2, PersistedStep DEF PersistUnanswered, IInv, TypeOK, store
  <2>4. WorkFits'
    BY <1>14, <2>2, PersistedStep
       DEF PersistUnanswered, Goes, Resting, IInv, TypeOK, Work, WorkFits, store
  <2>5. KeyFits' /\ DeletedFits' /\ PendingIsServed'
    BY <1>14, <2>2, PersistedStep
       DEF PersistUnanswered, Goes, Resting, IInv, TypeOK, Work, KeyFits, DeletedFits, AuthDeletedIsReal,
           PendingIsServed, store
  <2> QED BY <2>3, <2>4, <2>5 DEF IInv
<1>15. CASE PersistCompletes
  <2>1. work' \in Work
    BY <1>15, WorkTypes DEF PersistCompletes, At, Payload, NoPayload, Resting, IInv, TypeOK
  <2>2. TypeOK'
    <3>1. persist' \in [Phase -> Payload \cup {NoPayload}]
      BY <1>15 DEF PersistCompletes, IInv, TypeOK
    <3>2. UNCHANGED <<firebase, observed, key, evaluate, mode, watches, bounds>>
      BY <1>15 DEF PersistCompletes
    <3> QED BY <2>1, <3>1, <3>2 DEF IInv, TypeOK, firebase, watches, bounds
  <2>3. WorkFits' /\ KeyFits' /\ DeletedFits' /\ PendingIsServed'
    BY <1>15
       DEF PersistCompletes, At, Payload, NoPayload, Resting, IInv, TypeOK, WorkFits, KeyFits,
           DeletedFits, AuthDeletedIsReal, PendingIsServed, firebase, watches, bounds, Work
  <2> QED BY <2>2, <2>3 DEF IInv
<1> QED BY <1>1, <1>2, <1>3, <1>4, <1>5, <1>6, <1>7, <1>8, <1>9, <1>10, <1>11, <1>12, <1>13, <1>14, <1>15 DEF Handle

LEMMA Stutter == IInv /\ UNCHANGED vars => IInv'
BY DEF IInv, vars, firebase, store, watches, bounds, TypeOK, WorkFits, KeyFits, DeletedFits, AuthDeletedIsReal, PendingIsServed

LEMMA InductiveInvariant == Spec => []IInv
<1>1. IInv /\ [Next]_vars => IInv'
  BY EnvironmentSteps, ProcessSteps, ListenerSteps, WorkerSteps, Stutter DEF Next
<1> QED BY <1>1, InitialInvariant, PTL DEF Spec

(* The variables of the listener and the service keep their types: in      *)
(* particular PersistOutcome only ever writes outcomes that                *)
(* validateOutcome knows.                                                  *)
THEOREM TypeCorrect == Spec => []TypeOK
<1>1. IInv => TypeOK
  BY DEF IInv
<1> QED BY <1>1, InductiveInvariant, PTL

(* Whatever configurations the service is restarted with, and whichever    *)
(* answers of Firebase Auth are lost, a request that says auth_deleted is  *)
(* right: the account is gone.                                             *)
THEOREM DeletedIsTrue == Spec => []AuthDeletedIsReal
<1>1. IInv => AuthDeletedIsReal
  BY DEF IInv, DeletedFits
<1> QED BY <1>1, InductiveInvariant, PTL

(* As long as a request is pending, each phase whose idempotency key is    *)
(* used up has its Evaluate or Persist cell in the store.                  *)
THEOREM PendingIsKept == Spec => []PendingIsServed
<1>1. IInv => PendingIsServed
  BY DEF IInv
<1> QED BY <1>1, InductiveInvariant, PTL

(* Persist cells of both phases, repeated, late or unanswered, write the   *)
(* status and its audit together, and only over pending or, promoting, a   *)
(* validation whose evidence stays.                                        *)
LEMMA FinalStep ==
  ASSUME IInv, Next
  PROVE  audit' # audit \/ (status' # status /\ status # "none") =>
           /\ status \in {"pending", "dry_run_validated"}
           /\ status' = audit'.outcome
           /\ status' # status
           /\ audit'.dryRun <=> status = "dry_run_validated"
<1>1. CASE PersistOutcome \/ PersistUnanswered
  <2>1. persist[work.phase] \in Payload
    BY <1>1, PersistedStep DEF PersistOutcome, PersistUnanswered, At
  <2>2. Persisted(persist[work.phase])
    BY <1>1 DEF PersistOutcome, PersistUnanswered
  <2> DEFINE o == persist[work.phase]
  <2>3. o.outcome \in Outcome
    BY <2>1 DEF Payload
  <2>4. CASE status = "pending" \/ Promoting(o)
    <3>1. status' = o.outcome /\ audit' = [outcome |-> o.outcome, dryRun |-> Promoting(o)]
      BY <2>2, <2>4 DEF Persisted
    <3>2. audit'.outcome = o.outcome /\ audit'.dryRun = Promoting(o)
      BY <3>1
    <3>3. status \in {"pending", "dry_run_validated"} /\ status' # status
      BY <3>1, <2>3, <2>4 DEF Promoting, Outcome
    <3>4. Promoting(o) <=> status = "dry_run_validated"
      BY <2>4 DEF Promoting
    <3> QED BY <3>1, <3>2, <3>3, <3>4
  <2>5. CASE ~(status = "pending" \/ Promoting(o))
    BY <2>2, <2>5 DEF Persisted
  <2> QED BY <2>4, <2>5
<1>2. CASE Request
  BY <1>2 DEF Request
<1>3. CASE UNCHANGED <<status, audit>>
  BY <1>3
<1>4. UNCHANGED <<status, audit>> \/ Request \/ PersistOutcome \/ PersistUnanswered
  <2>1. CASE Environment \/ (\E m \in Mode : Start(m)) \/ Crash
    BY <2>1 DEF Environment, Scrub, SignIn, Toggle, Start, Crash, firebase
  <2>2. CASE Watch \/ WatchBreaks \/ WatchPause \/ PauseWatchBreaks
    BY <2>2 DEF Watch, SeeRequest, GateRequest, EnqueueRequest, WatchBreaks, WatchPause, SeePause,
                ReadPause, GateScan, Scan, PauseWatchBreaks, firebase
  <2>3. CASE \E p \in Phase : EmitTruth(p) \/ ClaimEvaluate(p) \/ ClaimPersist(p)
    BY <2>3 DEF EmitTruth, ClaimEvaluate, ClaimPersist, firebase
  <2>4. CASE Handle \/ RetryLater \/ DeleteUnanswered
    BY <2>4 DEF Handle, ReadStatus, ReadPaused, ReadUsers, ReadPublic, DeleteUser, DeleteRefused,
                Conclude, PersistCompletes, RetryLater, DeleteUnanswered, firebase
  <2> QED BY <2>1, <2>2, <2>3, <2>4 DEF Next
<1> QED BY <1>1, <1>2, <1>3, <1>4

(* Outcomes and audits are final: PersistOutcome's transaction reads what  *)
(* it overwrites, and its guards are enough for any history.               *)
THEOREM OutcomesAreFinal == Spec => TerminalIsFinal
<1>1. IInv /\ [Next]_vars =>
        [audit' # audit \/ (status' # status /\ status # "none") =>
           /\ status \in {"pending", "dry_run_validated"}
           /\ status' = audit'.outcome
           /\ status' # status
           /\ audit'.dryRun <=> status = "dry_run_validated"]_vars
  BY FinalStep
<1> QED BY <1>1, InductiveInvariant, PTL DEF Spec, TerminalIsFinal
================================================================================
