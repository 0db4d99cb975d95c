----------------------------- MODULE CellarProofs ------------------------------
(***************************************************************************)
(* Proofs about Cellar: whatever the cells, their steps, the number of     *)
(* workers, the builds and the bounds, a claim has one owner, capacity     *)
(* tokens are conserved and a run that returns nil leaves nothing claimed. *)
(***************************************************************************)
EXTENDS Cellar, FiniteSetTheorems, TLAPS

(* The rows that actions write are rows. *)
LEMMA NewCellType ==
  ASSUME now \in Nat, NEW nb \in Nat
  PROVE  NewCell(nb) \in Cell
BY DEF NewCell, Cell

LEMMA RowUpdates ==
  ASSUME NEW r \in Cell, NEW n \in Nat, NEW t \in Nat, NEW st \in {"READY", "CLAIMED"}
  PROVE  /\ [r EXCEPT !.state = st] \in Cell
         /\ [r EXCEPT !.step = n, !.state = st] \in Cell
         /\ [r EXCEPT !.state = st, !.notBefore = t] \in Cell
         /\ [r EXCEPT !.state = st, !.step = n, !.notBefore = t] \in Cell
<1>1. [r EXCEPT !.state = st] \in Cell
  BY DEF Cell
<1>2. [r EXCEPT !.step = n, !.state = st] \in Cell
  BY DEF Cell
<1>3. [r EXCEPT !.state = st, !.notBefore = t] \in Cell
  BY DEF Cell
<1>4. [r EXCEPT !.state = st, !.step = n, !.notBefore = t] \in Cell
  BY DEF Cell
<1> QED BY <1>1, <1>2, <1>3, <1>4

LEMMA AfterResultType ==
  ASSUME TypeOK, NEW c \in CellID, NEW kind \in Kinds, NEW at \in Nat
  PROVE  AfterResult(c, kind, at) \in Cell
<1>1. cells[c] \in Cell /\ now \in Nat
  BY DEF TypeOK
<1>2. NoCell \in Cell
  BY DEF NoCell, Cell
<1>3. CASE kind = "Complete"
  <2>1. cells[c].step + 1 \in Nat
    BY <1>1 DEF Cell
  <2>2. [cells[c] EXCEPT !.step = cells[c].step + 1, !.state = "READY"] \in Cell
    BY <1>1, <2>1, RowUpdates
  <2> QED BY <1>2, <1>3, <2>2 DEF AfterResult
<1>4. CASE kind = "Retry"
  BY <1>1, <1>4, RowUpdates DEF AfterResult
<1>5. CASE kind = "RetrySequence"
  <2>1. now + at \in Nat
    BY <1>1
  <2>2. [cells[c] EXCEPT !.state = "READY", !.step = 0, !.notBefore = now + at] \in Cell
    BY <1>1, <2>1, RowUpdates
  <2> QED BY <1>5, <2>2 DEF AfterResult
<1>6. CASE kind = "Kill"
  BY <1>2, <1>6 DEF AfterResult
<1> QED BY <1>3, <1>4, <1>5, <1>6 DEF Kinds

(* A goroutine that owns its claim holds a cell and a step. *)
LEMMA WorkerType ==
  ASSUME TypeOK, NEW w \in Workers, worker[w].pc # "idle"
  PROVE  worker[w] \in Dispatch
BY DEF TypeOK, Idle

LEMMA WorkerGoesType ==
  ASSUME TypeOK, NEW w \in Workers, NEW pc \in {"run", "apply", "done", "failed"},
         worker[w].pc # "idle", WorkerGoes(w, pc)
  PROVE  worker' \in [Workers -> Dispatch \cup {Idle}]
<1>1. worker[w] \in Dispatch
  BY WorkerType
<1>2. [worker[w] EXCEPT !.pc = pc] \in Dispatch
  BY <1>1 DEF Dispatch
<1> QED BY <1>2 DEF WorkerGoes, TypeOK

(* Type correctness, action by action. *)
LEMMA TypeStep == TypeOK /\ [Next]_vars => TypeOK'
<1> SUFFICES ASSUME TypeOK, [Next]_vars
             PROVE  TypeOK'
  OBVIOUS
<1> USE CellarConstants
<1>1. CASE Boot
  BY <1>1 DEF Boot, TypeOK, schedVars
<1>2. ASSUME NEW c \in CellID, NEW nb \in 0..MaxTime, AddCell(c, nb)
      PROVE  TypeOK'
  <2>1. NewCell(nb) \in Cell
    BY NewCellType DEF TypeOK
  <2> QED BY <1>2, <2>1 DEF AddCell, TypeOK, schedVars, processVars
<1>3. CASE Start
  <2>1. Recovered \in [CellID -> Cell]
    BY RowUpdates DEF Recovered, TypeOK
  <2>2. Cardinality(Workers) \in Nat
    BY FS_CardinalityType
  <2>3. cells' \in [CellID -> Cell] /\ capacity' \in Nat
    BY <1>3, <2>1, <2>2 DEF Start
  <2>4. cancelled' \in BOOLEAN
    BY <1>3, Zenon DEF Start
  <2>5. now' \in Nat /\ disturbed' \in 0..MaxDisturb /\ errors' \in 0..1
    BY <1>3 DEF Start, TypeOK
  <2>6. /\ registry' \in SUBSET Handler /\ used' \in SUBSET CellID
        /\ worker' \in [Workers -> Dispatch \cup {Idle}]
    BY <1>3 DEF Start, TypeOK
  <2>7. process' = "started" /\ sched' = "select" /\ outcome' = "none"
    BY <1>3 DEF Start
  <2> QED BY <2>3, <2>4, <2>5, <2>6, <2>7 DEF TypeOK
<1>4. ASSUME ProcessEnds PROVE
         /\ cells' \in [CellID -> Cell] /\ process' \in {"down", "open", "started"}
         /\ registry' \in SUBSET Handler /\ sched' = "off" /\ cancelled' \in BOOLEAN
         /\ capacity' \in Nat /\ errors' \in 0..1 /\ outcome' = "none"
         /\ worker' \in [Workers -> Dispatch \cup {Idle}] /\ now' \in Nat /\ used' \in SUBSET CellID
  <2>1. worker' \in [Workers -> Dispatch \cup {Idle}]
    BY <1>4 DEF ProcessEnds
  <2>2. cancelled' \in BOOLEAN
    BY <1>4, Zenon DEF ProcessEnds
  <2>3. cells' \in [CellID -> Cell] /\ now' \in Nat /\ used' \in SUBSET CellID
    BY <1>4 DEF ProcessEnds, TypeOK
  <2>4. registry' \in SUBSET Handler /\ capacity' \in Nat /\ errors' \in 0..1
    BY <1>4 DEF ProcessEnds
  <2>5. process' = "down" /\ sched' = "off" /\ outcome' = "none"
    BY <1>4 DEF ProcessEnds
  <2> QED BY <2>1, <2>2, <2>3, <2>4, <2>5
<1>5. ASSUME Disturb PROVE disturbed' \in 0..MaxDisturb
  BY <1>5 DEF Disturb, TypeOK
<1>6. CASE StartRefused
  <2>1. disturbed' \in 0..MaxDisturb
    BY <1>6, <1>5 DEF StartRefused, TypeOK
  <2> QED BY <1>4, <1>6, <2>1 DEF StartRefused, TypeOK
<1>7. CASE Exit
  BY <1>4, <1>7 DEF Exit, TypeOK
<1>8. CASE Crash
  BY <1>4, <1>5, <1>8 DEF Crash, TypeOK
<1>9. CASE Stop
  BY <1>5, <1>9 DEF Stop, TypeOK, processVars
<1>10. CASE Scheduler
  <2>1. ASSUME TokenBack PROVE capacity' \in Nat
    BY <2>1 DEF TokenBack, TypeOK
  <2>2. CASE SeeCancel
    BY <2>1, <2>2 DEF SeeCancel, TypeOK, processVars
  <2>3. CASE SeeError
    BY <2>1, <2>3 DEF SeeError, TypeOK, processVars
  <2>4. CASE TakeToken
    BY <2>4 DEF TakeToken, TypeOK, processVars
  <2>5. CASE RecheckPasses
    BY <2>5 DEF RecheckPasses, TypeOK, processVars
  <2>6. ASSUME NEW c \in CellID, NEW w \in Workers, ClaimNext(c, w)
        PROVE  TypeOK'
    <3>1. [cells[c] EXCEPT !.state = "CLAIMED"] \in Cell
      BY RowUpdates DEF TypeOK
    <3>2. [pc |-> "run", cell |-> c, step |-> cells[c].step] \in Dispatch
      BY DEF TypeOK, Cell, Dispatch
    <3>3. cells' \in [CellID -> Cell]
      BY <2>6, <3>1 DEF ClaimNext, TypeOK
    <3>4. worker' \in [Workers -> Dispatch \cup {Idle}]
      BY <2>6, <3>2 DEF ClaimNext, TypeOK
    <3> QED BY <2>6, <3>3, <3>4 DEF ClaimNext, TypeOK, processVars
  <2>7. CASE ClaimNothing
    BY <2>1, <2>7 DEF ClaimNothing, TypeOK, processVars
  <2>8. CASE ClaimError
    BY <2>1, <1>5, <2>8 DEF ClaimError, TypeOK, processVars
  <2>9. CASE PollDelayOver
    BY <2>9 DEF PollDelayOver, TypeOK, processVars
  <2>10. CASE RunReturns
    BY <2>10 DEF RunReturns, TypeOK, processVars
  <2> QED BY <1>10, <2>2, <2>3, <2>4, <2>5, <2>6, <2>7, <2>8, <2>9, <2>10 DEF Scheduler
<1>11. ASSUME NEW w \in Workers, WorkerStep(w)
       PROVE  TypeOK'
  <2>1. CASE HandlerReturns(w)
    <3>1. worker' \in [Workers -> Dispatch \cup {Idle}]
      BY <2>1, WorkerGoesType DEF HandlerReturns
    <3> QED BY <2>1, <3>1 DEF HandlerReturns, TypeOK, processVars, schedVars
  <2>2. CASE HandlerFails(w)
    <3>1. worker' \in [Workers -> Dispatch \cup {Idle}]
      BY <2>2, WorkerGoesType DEF HandlerFails
    <3>2. disturbed' \in 0..MaxDisturb
      BY <2>2, <1>5 DEF HandlerFails, TypeOK
    <3> QED BY <2>2, <3>1, <3>2 DEF HandlerFails, TypeOK, processVars, schedVars
  <2>3. ASSUME NEW kind \in Kinds, NEW at \in 0..MaxTime, NEW kids \in Batches,
               NEW due \in 0..MaxTime,
               ApplyResult(w, kind, at, kids, due)
        PROVE  TypeOK'
    <3>1. worker' \in [Workers -> Dispatch \cup {Idle}]
      BY <2>3, WorkerGoesType DEF ApplyResult
    <3>2. worker[w].cell \in CellID
      BY <2>3, WorkerType DEF ApplyResult, Dispatch
    <3>3. AfterResult(worker[w].cell, kind, at) \in Cell
      BY <3>2, AfterResultType
    <3>4. NewCell(due) \in Cell
      BY NewCellType DEF TypeOK
    <3>5. cells' \in [CellID -> Cell]
      BY <2>3, <3>3, <3>4 DEF ApplyResult, TypeOK
    <3>6. used' \in SUBSET CellID
      BY <2>3 DEF ApplyResult, TypeOK
    <3> QED BY <2>3, <3>1, <3>5, <3>6 DEF ApplyResult, TypeOK, processVars, schedVars
  <2>4. ASSUME NEW kids \in Batches, ApplyRejected(w, kids)
        PROVE  TypeOK'
    <3>1. worker' \in [Workers -> Dispatch \cup {Idle}]
      BY <2>4, WorkerGoesType DEF ApplyRejected
    <3> QED BY <2>4, <3>1 DEF ApplyRejected, TypeOK, processVars, schedVars
  <2>5. CASE ApplyFails(w)
    <3>1. worker' \in [Workers -> Dispatch \cup {Idle}]
      BY <2>5, WorkerGoesType DEF ApplyFails
    <3> QED BY <2>5, <1>5, <3>1 DEF ApplyFails, TypeOK, processVars, schedVars
  <2>6. CASE DispatchEnds(w)
    BY <2>6 DEF DispatchEnds, TypeOK, processVars
  <2> QED BY <1>11, <2>1, <2>2, <2>3, <2>4, <2>5, <2>6 DEF WorkerStep
<1>12. CASE Tick
  BY <1>12 DEF Tick, TypeOK, processVars, schedVars
<1>13. CASE UNCHANGED vars
  BY <1>13 DEF vars, TypeOK, processVars, schedVars
<1> QED BY <1>1, <1>2, <1>3, <1>6, <1>7, <1>8, <1>9, <1>10, <1>11, <1>12, <1>13 DEF Next

LEMMA InitType ==
  ASSUME Init
  PROVE  TypeOK
<1>1. NoCell \in Cell
  BY DEF NoCell, Cell
<1>2. cells \in [CellID -> Cell]
  BY <1>1 DEF Init
<1>3. worker \in [Workers -> Dispatch \cup {Idle}]
  BY DEF Init
<1>4. cancelled \in BOOLEAN
  BY Zenon DEF Init
<1>5. /\ registry \in SUBSET Handler /\ used \in SUBSET CellID
      /\ capacity \in Nat /\ errors \in 0..1 /\ now \in Nat
  BY DEF Init
<1>6. disturbed \in 0..MaxDisturb
  BY CellarConstants DEF Init
<1>7. process = "down" /\ sched = "off" /\ outcome = "none"
  BY DEF Init
<1> QED BY <1>2, <1>3, <1>4, <1>5, <1>6, <1>7 DEF TypeOK

(* Every variable of the runtime keeps its type; in particular the error   *)
(* channel never holds more than the one error it has room for.            *)
THEOREM TypeCorrect == Spec => []TypeOK
<1>1. Init => TypeOK
  BY InitType
<1> QED BY <1>1, TypeStep, PTL DEF Spec

--------------------------------------------------------------------------------
(* Facts about the claim invariant that several actions share.             *)

LEMMA BusyFinite ==
  /\ IsFiniteSet(Busy)
  /\ Cardinality(Busy) \in Nat
  /\ Cardinality(Workers) \in Nat
<1>1. Busy \subseteq Workers
  BY DEF Busy
<1>2. IsFiniteSet(Workers)
  BY CellarConstants
<1> QED BY <1>1, <1>2, FS_Subset, FS_CardinalityType

(* Neither the rows nor the goroutines move: claims stay where they are.   *)
LEMMA ClaimsStay ==
  ASSUME ExclusiveClaim, UNCHANGED <<cells, worker>>
  PROVE  ExclusiveClaim' /\ Busy' = Busy
BY DEF ExclusiveClaim, Owns, StillClaimed, Busy

(* A goroutine moves on without giving up its claim.                       *)
LEMMA OwnerMovesOn ==
  ASSUME TypeOK, ExclusiveClaim, NEW w \in Workers, NEW pc \in {"apply", "failed"},
         worker[w].pc \in {"run", "apply"}, WorkerGoes(w, pc), UNCHANGED cells
  PROVE  /\ ExclusiveClaim'
         /\ Busy' = Busy
         /\ \A v \in Workers, c \in CellID : Owns(v, c) => Owns(v, c)'
<1>1. worker[w] \in Dispatch
  BY WorkerType
<1>2. worker'[w].pc = pc /\ worker'[w].cell = worker[w].cell /\ worker'[w].step = worker[w].step
  BY <1>1 DEF WorkerGoes, TypeOK, Dispatch
<1>3. \A v \in Workers : v # w => worker'[v] = worker[v]
  BY DEF WorkerGoes, TypeOK
<1>4. \A v \in Workers, c \in CellID : Owns(v, c) <=> Owns(v, c)'
  BY <1>2, <1>3 DEF Owns
<1>5. \A v \in Workers : worker'[v].pc \in {"run", "apply", "failed"} => StillClaimed(v)'
  <2> SUFFICES ASSUME NEW v \in Workers, worker'[v].pc \in {"run", "apply", "failed"}
               PROVE  StillClaimed(v)'
    OBVIOUS
  <2>1. StillClaimed(v)
    BY <1>2, <1>3 DEF ExclusiveClaim
  <2> QED BY <1>2, <1>3, <2>1 DEF StillClaimed
<1>6. Busy' = Busy
  BY <1>2, <1>3 DEF Busy
<1> QED BY <1>4, <1>5, <1>6 DEF ExclusiveClaim

(* Every slot is idle: nothing to own.                                     *)
LEMMA NobodyOwns ==
  ASSUME worker = [w \in Workers |-> Idle]
  PROVE  ExclusiveClaim /\ Busy = {}
BY DEF ExclusiveClaim, Owns, Busy, Idle

LEMMA AllIdle ==
  ASSUME TypeOK, Busy = {}
  PROVE  worker = [w \in Workers |-> Idle]
<1>1. \A w \in Workers : worker[w] = Idle
  <2> SUFFICES ASSUME NEW w \in Workers PROVE worker[w] = Idle
    OBVIOUS
  <2>1. worker[w].pc = "idle"
    BY DEF Busy
  <2>2. worker[w] \notin Dispatch
    BY <2>1 DEF Dispatch
  <2> QED BY <2>2 DEF TypeOK
<1> QED BY <1>1 DEF TypeOK

--------------------------------------------------------------------------------
(* The inductive step, for each kind of action.                            *)

(* Actions of the scheduler that neither claim nor start a goroutine, and  *)
(* actions of the environment.                                             *)
LEMMA QuietStep ==
  ASSUME IInv, UNCHANGED <<cells, worker, process>>,
         \/ SeeCancel \/ SeeError \/ TakeToken \/ RecheckPasses \/ ClaimNothing
         \/ ClaimError \/ PollDelayOver \/ RunReturns \/ Stop
         \/ UNCHANGED schedVars
  PROVE  RunShape' /\ ExclusiveClaim' /\ NoSilentOrphan' /\ TokensConserved'
<1>1. ExclusiveClaim' /\ Busy' = Busy
  BY ClaimsStay DEF IInv
<1>2. \A w \in Workers, c \in CellID : Owns(w, c)' <=> Owns(w, c)
  BY DEF Owns
<1> USE DEF IInv, TypeOK
<1>3. RunShape'
  BY <1>1 DEF RunShape, SeeCancel, SeeError, TakeToken, RecheckPasses, ClaimNothing,
              ClaimError, PollDelayOver, RunReturns, Stop, schedVars, Waiting
<1>4. NoSilentOrphan'
  <2> SUFFICES ASSUME process = "started", NEW c \in CellID, cells[c].state = "CLAIMED",
                      ~\E w \in Workers : Owns(w, c)
               PROVE  errors' = 1 \/ outcome' = "error"
    BY <1>2 DEF NoSilentOrphan
  <2>1. errors = 1 \/ outcome = "error"
    BY DEF NoSilentOrphan
  <2>2. CASE SeeError \/ ClaimError
    BY <2>2 DEF SeeError, ClaimError
  <2>3. CASE RunReturns
    BY <2>1, <2>3 DEF RunReturns
  <2>4. CASE UNCHANGED <<errors, outcome>>
    BY <2>1, <2>4
  <2> QED BY <2>2, <2>3, <2>4 DEF SeeCancel, TakeToken, RecheckPasses, ClaimNothing,
                                  PollDelayOver, Stop, schedVars
<1>5. TokensConserved'
  <2>1. Cardinality(Busy) \in Nat /\ Cardinality(Workers) \in Nat
    BY BusyFinite
  <2> QED BY <1>1, <2>1 DEF TokensConserved, HoldsToken, TokenBack, Waiting, SeeCancel,
             SeeError, TakeToken, RecheckPasses, ClaimNothing, ClaimError, PollDelayOver,
             RunReturns, Stop, schedVars
<1> QED BY <1>1, <1>3, <1>4, <1>5

(* The process ends: nothing runs, nothing is owned.                       *)
LEMMA EndStep ==
  ASSUME ProcessEnds
  PROVE  RunShape' /\ ExclusiveClaim' /\ NoSilentOrphan' /\ TokensConserved'
<1>1. worker' = [w \in Workers |-> Idle]
  BY DEF ProcessEnds
<1>2. ExclusiveClaim' /\ Busy' = {}
  BY <1>1 DEF ExclusiveClaim, Owns, Busy, Idle
<1> QED BY <1>2 DEF ProcessEnds, RunShape, NoSilentOrphan, TokensConserved

LEMMA BootStep ==
  ASSUME IInv, Boot
  PROVE  RunShape' /\ ExclusiveClaim' /\ NoSilentOrphan' /\ TokensConserved'
<1>1. ExclusiveClaim' /\ Busy' = Busy
  BY ClaimsStay DEF IInv, Boot
<1> QED BY <1>1 DEF IInv, Boot, schedVars, RunShape, NoSilentOrphan, TokensConserved

(* Recovery happens before there is any goroutine.                         *)
LEMMA StartStep ==
  ASSUME IInv, Start
  PROVE  RunShape' /\ ExclusiveClaim' /\ NoSilentOrphan' /\ TokensConserved'
<1>1. worker' = [w \in Workers |-> Idle]
  BY AllIdle DEF IInv, RunShape, Start
<1>2. ExclusiveClaim' /\ Busy' = {}
  BY <1>1 DEF ExclusiveClaim, Owns, Busy, Idle
<1>3. RunShape'
  BY <1>2 DEF Start, RunShape
<1>4. \A c \in CellID : cells'[c].state # "CLAIMED"
  BY DEF Start, Recovered, IInv, TypeOK, Cell
<1>5. TokensConserved'
  <2>1. Cardinality({}) = 0 /\ Cardinality(Workers) \in Nat
    BY FS_EmptySet, BusyFinite
  <2> QED BY <1>2, <2>1 DEF Start, TokensConserved, HoldsToken
<1> QED BY <1>2, <1>3, <1>4, <1>5 DEF NoSilentOrphan

(* A new row is nobody's claim.                                            *)
LEMMA AddStep ==
  ASSUME IInv, NEW c \in CellID, NEW nb \in 0..MaxTime, AddCell(c, nb)
  PROVE  RunShape' /\ ExclusiveClaim' /\ NoSilentOrphan' /\ TokensConserved'
<1>1. /\ UNCHANGED worker
      /\ cells[c].state = "ABSENT"
      /\ cells'[c].state = "READY"
      /\ \A d \in CellID : d # c => cells'[d] = cells[d]
  BY DEF AddCell, Insertable, Active, NewCell, IInv, TypeOK
<1>2. Busy' = Busy /\ \A w \in Workers, d \in CellID : Owns(w, d)' <=> Owns(w, d)
  BY <1>1 DEF Busy, Owns
<1>3. \A w \in Workers : worker'[w].pc \in {"run", "apply", "failed"} => StillClaimed(w)'
  <2> SUFFICES ASSUME NEW w \in Workers, worker[w].pc \in {"run", "apply", "failed"}
               PROVE  StillClaimed(w)'
    BY <1>1
  <2>1. StillClaimed(w)
    BY DEF IInv, ExclusiveClaim
  <2>2. worker[w].cell \in CellID
    BY WorkerType DEF IInv, Dispatch
  <2>3. worker[w].cell # c
    BY <1>1, <2>1 DEF StillClaimed
  <2> QED BY <1>1, <2>1, <2>2, <2>3 DEF StillClaimed
<1>4. ExclusiveClaim'
  BY <1>2, <1>3 DEF ExclusiveClaim, IInv
<1>5. NoSilentOrphan'
  BY <1>1, <1>2 DEF NoSilentOrphan, IInv, AddCell, processVars, schedVars
<1>6. RunShape' /\ TokensConserved'
  BY <1>2 DEF IInv, AddCell, RunShape, TokensConserved, HoldsToken, processVars, schedVars
<1> QED BY <1>4, <1>5, <1>6

(* ClaimNext takes a READY row, which no goroutine owns.                   *)
LEMMA ClaimStep ==
  ASSUME IInv, NEW c \in CellID, NEW w \in Workers, ClaimNext(c, w)
  PROVE  RunShape' /\ ExclusiveClaim' /\ NoSilentOrphan' /\ TokensConserved'
<1>1. /\ worker[w].pc = "idle"
      /\ worker'[w].pc = "run" /\ worker'[w].cell = c /\ worker'[w].step = cells[c].step
      /\ \A v \in Workers : v # w => worker'[v] = worker[v]
  BY DEF ClaimNext, IInv, TypeOK, Idle
<1>2. /\ cells[c].state = "READY"
      /\ cells'[c].state = "CLAIMED" /\ cells'[c].step = cells[c].step
      /\ \A d \in CellID : d # c => cells'[d] = cells[d]
  BY DEF ClaimNext, IsNext, Runnable, IInv, TypeOK, Cell
<1>3. \A v \in Workers : v # w /\ worker[v].pc \in {"run", "apply", "failed"}
        => worker[v].cell \in CellID /\ worker[v].cell # c /\ StillClaimed(v)
  <2> SUFFICES ASSUME NEW v \in Workers, worker[v].pc \in {"run", "apply", "failed"}
               PROVE  worker[v].cell \in CellID /\ worker[v].cell # c /\ StillClaimed(v)
    OBVIOUS
  <2>1. StillClaimed(v)
    BY DEF IInv, ExclusiveClaim
  <2>2. worker[v].cell \in CellID
    BY WorkerType DEF IInv, Dispatch
  <2> QED BY <1>2, <2>1, <2>2 DEF StillClaimed
<1>4. \A u, v \in Workers, d \in CellID : Owns(u, d)' /\ Owns(v, d)' => u = v
  BY <1>1, <1>3 DEF Owns, IInv, ExclusiveClaim
<1>5. \A v \in Workers : worker'[v].pc \in {"run", "apply", "failed"} => StillClaimed(v)'
  <2> SUFFICES ASSUME NEW v \in Workers, worker'[v].pc \in {"run", "apply", "failed"}
               PROVE  StillClaimed(v)'
    OBVIOUS
  <2>1. CASE v = w
    BY <1>1, <1>2, <2>1 DEF StillClaimed
  <2>2. CASE v # w
    BY <1>1, <1>2, <1>3, <2>2 DEF StillClaimed
  <2> QED BY <2>1, <2>2
<1>6. NoSilentOrphan'
  <2> SUFFICES ASSUME NEW d \in CellID, cells'[d].state = "CLAIMED", process = "started"
               PROVE  (\E v \in Workers : Owns(v, d)') \/ errors = 1 \/ outcome = "error"
    BY DEF NoSilentOrphan, ClaimNext, processVars
  <2>1. CASE d = c
    BY <1>1, <2>1 DEF Owns
  <2>2. CASE d # c
    <3>1. (\E v \in Workers : Owns(v, d)) \/ errors = 1 \/ outcome = "error"
      BY <1>2, <2>2 DEF NoSilentOrphan, IInv
    <3> QED BY <1>1, <3>1 DEF Owns
  <2> QED BY <2>1, <2>2
<1>7. Busy' = Busy \cup {w} /\ w \notin Busy
  BY <1>1 DEF Busy
<1>8. Cardinality(Busy') = Cardinality(Busy) + 1
  BY <1>7, BusyFinite, FS_AddElement
<1>9. RunShape' /\ TokensConserved'
  BY <1>8, BusyFinite DEF ClaimNext, RunShape, TokensConserved, HoldsToken, IInv, TypeOK, processVars
<1> QED BY <1>4, <1>5, <1>6, <1>9 DEF ExclusiveClaim

(* A goroutine moves on and keeps its claim.                               *)
LEMMA OwnerStep ==
  ASSUME IInv, NEW w \in Workers, NEW pc \in {"apply", "failed"},
         worker[w].pc \in {"run", "apply"}, WorkerGoes(w, pc),
         UNCHANGED <<cells, processVars, schedVars>>
  PROVE  RunShape' /\ ExclusiveClaim' /\ NoSilentOrphan' /\ TokensConserved'
<1>1. /\ ExclusiveClaim' /\ Busy' = Busy
      /\ \A v \in Workers, c \in CellID : Owns(v, c) => Owns(v, c)'
  BY OwnerMovesOn DEF IInv
<1>2. NoSilentOrphan'
  BY <1>1 DEF NoSilentOrphan, IInv, processVars, schedVars
<1> QED BY <1>1, <1>2 DEF IInv, RunShape, TokensConserved, HoldsToken, processVars, schedVars

(* The row a result leaves is never claimed.                               *)
LEMMA AfterResultState ==
  ASSUME TypeOK, NEW c \in CellID, NEW kind \in Kinds, NEW at \in Nat
  PROVE  AfterResult(c, kind, at).state # "CLAIMED"
<1>1. cells[c] \in Cell
  BY DEF TypeOK
<1> QED BY <1>1 DEF AfterResult, NoCell, Cell, Kinds

(* The transaction settles the claim and touches no other claimed row:     *)
(* children are inserted only where there was no row.                      *)
LEMMA ApplyStep ==
  ASSUME IInv, NEW w \in Workers, NEW kind \in Kinds, NEW at \in 0..MaxTime,
         NEW kids \in Batches, NEW due \in 0..MaxTime, ApplyResult(w, kind, at, kids, due)
  PROVE  RunShape' /\ ExclusiveClaim' /\ NoSilentOrphan' /\ TokensConserved'
<1> DEFINE c == worker[w].cell
<1>1. worker[w] \in Dispatch /\ worker[w].pc = "apply" /\ c \in CellID
  BY WorkerType DEF ApplyResult, IInv, Dispatch
<1>2. /\ worker'[w].pc = "done"
      /\ \A v \in Workers : v # w => worker'[v] = worker[v]
  BY <1>1 DEF ApplyResult, WorkerGoes, IInv, TypeOK, Dispatch
<1>3. \A d \in CellID : d # c /\ cells[d].state = "CLAIMED" => cells'[d] = cells[d]
  BY DEF ApplyResult, Insertable, Active
<1>4. \A d \in CellID : cells'[d].state = "CLAIMED" => d # c /\ cells[d].state = "CLAIMED"
  <2>1. AfterResult(c, kind, at).state # "CLAIMED"
    BY <1>1, AfterResultState, CellarConstants DEF IInv
  <2>2. NewCell(due).state = "READY"
    BY DEF NewCell
  <2> QED BY <2>1, <2>2 DEF ApplyResult
<1>5. \A v \in Workers, d \in CellID : Owns(v, d)' <=> v # w /\ Owns(v, d)
  BY <1>2 DEF Owns
<1>6. \A v \in Workers : worker'[v].pc \in {"run", "apply", "failed"} => StillClaimed(v)'
  <2> SUFFICES ASSUME NEW v \in Workers, worker'[v].pc \in {"run", "apply", "failed"}
               PROVE  StillClaimed(v)'
    OBVIOUS
  <2>1. v # w /\ worker'[v] = worker[v]
    BY <1>2
  <2>2. StillClaimed(v) /\ worker[v].cell \in CellID
    BY <2>1, WorkerType DEF IInv, ExclusiveClaim, Dispatch
  <2>3. worker[v].cell # c
    BY <1>1, <2>1, <2>2 DEF IInv, ExclusiveClaim, Owns
  <2> QED BY <1>3, <2>1, <2>2, <2>3 DEF StillClaimed
<1>7. ExclusiveClaim'
  BY <1>5, <1>6 DEF ExclusiveClaim, IInv
<1>8. NoSilentOrphan'
  <2> SUFFICES ASSUME NEW d \in CellID, cells'[d].state = "CLAIMED", process = "started"
               PROVE  (\E v \in Workers : Owns(v, d)') \/ errors = 1 \/ outcome = "error"
    BY DEF NoSilentOrphan, ApplyResult, processVars, schedVars
  <2>1. d # c /\ cells[d].state = "CLAIMED"
    BY <1>4
  <2>2. (\E v \in Workers : Owns(v, d)) \/ errors = 1 \/ outcome = "error"
    BY <2>1 DEF NoSilentOrphan, IInv
  <2>3. ~Owns(w, d)
    BY <2>1 DEF Owns
  <2> QED BY <1>5, <2>2, <2>3
<1>9. Busy' = Busy
  BY <1>1, <1>2 DEF Busy
<1> QED BY <1>7, <1>8, <1>9 DEF IInv, ApplyResult, RunShape, TokensConserved, HoldsToken, processVars, schedVars

(* The goroutine ends: a claim it gives up unsettled is an error reported. *)
LEMMA DispatchEndsStep ==
  ASSUME IInv, NEW w \in Workers, DispatchEnds(w)
  PROVE  RunShape' /\ ExclusiveClaim' /\ NoSilentOrphan' /\ TokensConserved'
<1>1. /\ worker[w].pc \in {"done", "failed"}
      /\ worker'[w].pc = "idle"
      /\ \A v \in Workers : v # w => worker'[v] = worker[v]
  BY DEF DispatchEnds, IInv, TypeOK, Idle
<1>2. \A v \in Workers, d \in CellID : Owns(v, d)' <=> v # w /\ Owns(v, d)
  BY <1>1 DEF Owns
<1>3. \A v \in Workers : worker'[v].pc \in {"run", "apply", "failed"} => StillClaimed(v)'
  BY <1>1 DEF StillClaimed, IInv, ExclusiveClaim, DispatchEnds
<1>4. ExclusiveClaim'
  BY <1>2, <1>3 DEF ExclusiveClaim, IInv
<1>5. NoSilentOrphan'
  <2>1. CASE worker[w].pc = "failed"
    BY <2>1 DEF NoSilentOrphan, DispatchEnds
  <2>2. CASE worker[w].pc = "done"
    <3>1. \A d \in CellID : ~Owns(w, d)
      BY <2>2 DEF Owns
    <3> QED BY <1>2, <2>2, <3>1 DEF NoSilentOrphan, IInv, DispatchEnds, processVars
  <2> QED BY <1>1, <2>1, <2>2
<1>6. Busy' = Busy \ {w} /\ w \in Busy
  BY <1>1 DEF Busy
<1>7. Cardinality(Busy') = Cardinality(Busy) - 1
  BY <1>6, BusyFinite, FS_RemoveElement
<1>8. process = "started" /\ sched # "returned"
  BY <1>6 DEF IInv, RunShape, TypeOK
<1>9. TokensConserved'
  BY <1>7, <1>8, BusyFinite DEF IInv, DispatchEnds, TokensConserved, HoldsToken, TypeOK, processVars
<1>10. RunShape'
  BY <1>8 DEF IInv, DispatchEnds, RunShape, processVars
<1> QED BY <1>4, <1>5, <1>9, <1>10

(* IInv is preserved by every step.                                        *)
LEMMA IInvStep == IInv /\ [Next]_vars => IInv'
<1> SUFFICES ASSUME IInv, [Next]_vars
             PROVE  IInv'
  OBVIOUS
<1> DEFINE Parts == RunShape /\ ExclusiveClaim /\ NoSilentOrphan /\ TokensConserved
<1>1. TypeOK'
  BY TypeStep DEF IInv
<1> SUFFICES Parts'
  BY <1>1 DEF IInv
<1>2. CASE Boot
  BY <1>2, BootStep
<1>3. ASSUME NEW c \in CellID, NEW nb \in 0..MaxTime, AddCell(c, nb) PROVE Parts'
  BY <1>3, AddStep
<1>4. CASE Start
  BY <1>4, StartStep
<1>5. CASE StartRefused \/ Exit \/ Crash
  BY <1>5, EndStep DEF StartRefused, Exit, Crash
<1>6. CASE Stop \/ Tick \/ UNCHANGED vars
  BY <1>6, QuietStep DEF Stop, Tick, vars, processVars
<1>7. CASE Scheduler
  <2>1. ASSUME NEW c \in CellID, NEW w \in Workers, ClaimNext(c, w) PROVE Parts'
    BY <2>1, ClaimStep
  <2>2. ASSUME \/ SeeCancel \/ SeeError \/ TakeToken \/ RecheckPasses \/ ClaimNothing
               \/ ClaimError \/ PollDelayOver \/ RunReturns
        PROVE  Parts'
    <3>1. UNCHANGED <<cells, worker, process>>
      BY <2>2 DEF SeeCancel, SeeError, TakeToken, RecheckPasses, ClaimNothing, ClaimError,
                  PollDelayOver, RunReturns, processVars
    <3> QED BY <2>2, <3>1, QuietStep
  <2> QED BY <1>7, <2>1, <2>2 DEF Scheduler
<1>8. ASSUME NEW w \in Workers, WorkerStep(w) PROVE Parts'
  <2>1. CASE HandlerReturns(w)
    BY <2>1, OwnerStep DEF HandlerReturns
  <2>2. CASE HandlerFails(w)
    BY <2>2, OwnerStep DEF HandlerFails
  <2>3. ASSUME NEW kind \in Kinds, NEW at \in 0..MaxTime, NEW kids \in Batches,
               NEW due \in 0..MaxTime,
               ApplyResult(w, kind, at, kids, due)
        PROVE  Parts'
    BY <2>3, ApplyStep
  <2>4. ASSUME NEW kids \in Batches, ApplyRejected(w, kids) PROVE Parts'
    BY <2>4, OwnerStep DEF ApplyRejected
  <2>5. CASE ApplyFails(w)
    BY <2>5, OwnerStep DEF ApplyFails
  <2>6. CASE DispatchEnds(w)
    BY <2>6, DispatchEndsStep
  <2> QED BY <1>8, <2>1, <2>2, <2>3, <2>4, <2>5, <2>6 DEF WorkerStep
<1> QED BY <1>2, <1>3, <1>4, <1>5, <1>6, <1>7, <1>8 DEF Next

LEMMA IInvHolds == Spec => []IInv
<1>1. Init => IInv
  <2> SUFFICES ASSUME Init PROVE IInv
    OBVIOUS
  <2>1. TypeOK
    BY InitType
  <2>2. ExclusiveClaim /\ Busy = {}
    BY NobodyOwns DEF Init
  <2>3. RunShape /\ NoSilentOrphan /\ TokensConserved
    BY <2>2 DEF Init, RunShape, NoSilentOrphan, TokensConserved
  <2> QED BY <2>1, <2>2, <2>3 DEF IInv
<1> QED BY <1>1, IInvStep, PTL DEF Spec

(* No claim ever has two goroutines, and no goroutine ever works on a row  *)
(* that is no longer claimed at its step: for any number of workers.       *)
THEOREM ClaimsAreExclusive == Spec => []ExclusiveClaim
BY IInvHolds, PTL DEF IInv

(* Capacity tokens are conserved for any number of workers.                *)
THEOREM CapacityIsConserved == Spec => []TokensConserved
BY IInvHolds, PTL DEF IInv

(* A claimed cell without a goroutine means an error that Run reports.     *)
THEOREM OrphansAreReported == Spec => []NoSilentOrphan
BY IInvHolds, PTL DEF IInv

(* Run returns only after every dispatch, and nil only with every claim    *)
(* settled.                                                                *)
THEOREM ReturnIsClean == Spec => []CleanReturn
<1>1. IInv => CleanReturn
  <2> SUFFICES ASSUME IInv, sched = "returned"
               PROVE  Busy = {} /\ (outcome = "nil" => \A c \in CellID : cells[c].state # "CLAIMED")
    BY DEF CleanReturn
  <2>1. Busy = {} /\ process = "started"
    BY DEF IInv, RunShape, TypeOK
  <2>2. \A w \in Workers, c \in CellID : ~Owns(w, c)
    BY <2>1 DEF Busy, Owns
  <2>3. outcome = "nil" => errors = 0
    BY DEF IInv, RunShape
  <2> QED BY <2>1, <2>2, <2>3 DEF IInv, NoSilentOrphan
<1> QED BY <1>1, IInvHolds, PTL
--------------------------------------------------------------------------------
(* The runtime implements the lifecycle.                                   *)

(* A cursor is inside the steps of its cell, and a cell that is not there  *)
(* has none.                                                               *)
CursorFits ==
  \A c \in CellID :
    /\ cells[c].step < Len(StepsOf[c])
    /\ cells[c].state = "ABSENT" => cells[c].step = 0

LEMMA StepsAreNumbers == \A c \in CellID : Len(StepsOf[c]) \in Nat /\ Len(StepsOf[c]) > 0
BY CellarConstants

(* What a result leaves of a claimed cell: the cursor is inside the steps, *)
(* and the transition is one of the lifecycle's.                           *)
LEMMA AfterResultMoves ==
  ASSUME TypeOK, CursorFits, NEW c \in CellID, NEW kind \in Kinds, NEW at \in Nat
  PROVE  LET new == AfterResult(c, kind, at)
         IN  \/ new.state = "READY" /\ new.step = cells[c].step + 1
                  /\ cells[c].step + 1 < Len(StepsOf[c])
             \/ new.state = "READY" /\ new.step = cells[c].step
             \/ new.state = "READY" /\ new.step = 0
             \/ new.state = "ABSENT" /\ new.step = 0
<1>1. cells[c] \in Cell /\ now \in Nat /\ cells[c].step \in Nat
  BY DEF TypeOK, Cell
<1>2. cells[c].step < Len(StepsOf[c]) /\ Len(StepsOf[c]) \in Nat
  BY StepsAreNumbers DEF CursorFits
<1>3. CASE kind = "Complete"
  BY <1>1, <1>2, <1>3 DEF AfterResult, NoCell, Cell
<1>4. CASE kind = "Retry"
  BY <1>1, <1>4 DEF AfterResult, Cell
<1>5. CASE kind = "RetrySequence"
  BY <1>1, <1>5 DEF AfterResult, Cell
<1>6. CASE kind = "Kill"
  BY <1>6 DEF AfterResult, NoCell
<1> QED BY <1>3, <1>4, <1>5, <1>6 DEF Kinds

LEMMA CursorStep == TypeOK /\ CursorFits /\ [Next]_vars => CursorFits'
<1> SUFFICES ASSUME TypeOK, CursorFits, [Next]_vars
             PROVE  CursorFits'
  OBVIOUS
<1>0. \A c \in CellID : cells[c] \in Cell /\ cells[c].step \in Nat
  BY DEF TypeOK, Cell
<1>1. ASSUME cells' = cells PROVE CursorFits'
  BY <1>1 DEF CursorFits
<1>2. ASSUME NEW c \in CellID, NEW nb \in 0..MaxTime, AddCell(c, nb) PROVE CursorFits'
  BY <1>2, StepsAreNumbers DEF AddCell, NewCell, CursorFits, TypeOK
<1>3. CASE Start
  BY <1>0, <1>3 DEF Start, Recovered, CursorFits, Cell
<1>4. ASSUME NEW c \in CellID, NEW w \in Workers, ClaimNext(c, w) PROVE CursorFits'
  BY <1>0, <1>4 DEF ClaimNext, CursorFits, Cell, TypeOK
<1>5. ASSUME NEW w \in Workers, NEW kind \in Kinds, NEW at \in 0..MaxTime, NEW kids \in Batches,
             NEW due \in 0..MaxTime, ApplyResult(w, kind, at, kids, due)
      PROVE  CursorFits'
  <2> DEFINE c == worker[w].cell
  <2>1. c \in CellID
    BY <1>5, WorkerType DEF ApplyResult, Dispatch
  <2>2. /\ AfterResult(c, kind, at).step < Len(StepsOf[c])
        /\ AfterResult(c, kind, at).state = "ABSENT" => AfterResult(c, kind, at).step = 0
    BY <1>0, <2>1, AfterResultMoves, StepsAreNumbers DEF CursorFits
  <2>3. \A d \in CellID : cells'[d] = IF d \in kids THEN NewCell(due)
                                      ELSE IF d = c THEN AfterResult(c, kind, at) ELSE cells[d]
    BY <1>5 DEF ApplyResult
  <2>4. NewCell(due).step = 0 /\ NewCell(due).state = "READY"
    BY DEF NewCell
  <2> QED BY <2>2, <2>3, <2>4, StepsAreNumbers DEF CursorFits
<1> QED
  BY <1>1, <1>2, <1>3, <1>4, <1>5
     DEF Next, Boot, StartRefused, Exit, Crash, ProcessEnds, Stop, Tick, vars, Scheduler, WorkerStep,
         SeeCancel, SeeError, TakeToken, RecheckPasses, ClaimNothing, ClaimError, PollDelayOver,
         RunReturns, HandlerReturns, HandlerFails, ApplyRejected, ApplyFails, DispatchEnds

(* What a step does to the rows, if anything, is a step of the lifecycle.  *)
LEMMA LifecycleStep ==
  ASSUME IInv, CursorFits, [Next]_vars
  PROVE  [Lifecycle!LifecycleNext]_(Lifecycle!lifecycleVars)
<1> DEFINE State(c) == cells[c].state
           Cursor(c) == cells[c].step
           Abstract == [Lifecycle!LifecycleNext]_(Lifecycle!lifecycleVars)
<1>0. TypeOK /\ \A c \in CellID : cells[c] \in Cell /\ Cursor(c) \in Nat
  BY DEF IInv, TypeOK, Cell
<1>1. ASSUME cells' = cells PROVE Abstract
  BY <1>1 DEF Lifecycle!lifecycleVars
<1>2. ASSUME NEW c \in CellID, NEW nb \in 0..MaxTime, AddCell(c, nb) PROVE Abstract
  <2>1. cells' = [cells EXCEPT ![c] = NewCell(nb)] /\ State(c) = "ABSENT" /\ Cursor(c) = 0
    BY <1>2 DEF AddCell, Insertable, Active, CursorFits
  <2>2. Lifecycle!AddCells({c})
    BY <1>0, <2>1 DEF Lifecycle!AddCells, Lifecycle!Absent, NewCell, TypeOK
  <2> QED BY <2>2 DEF Lifecycle!LifecycleNext
<1>3. CASE Start
  <2>1. Lifecycle!RecoverAll
    BY <1>0, <1>3 DEF Start, Recovered, Lifecycle!RecoverAll, Cell
  <2> QED BY <2>1 DEF Lifecycle!LifecycleNext
<1>4. ASSUME NEW c \in CellID, NEW w \in Workers, ClaimNext(c, w) PROVE Abstract
  <2>1. Lifecycle!Claim(c)
    BY <1>0, <1>4 DEF ClaimNext, IsNext, Runnable, Lifecycle!Claim, Cell, TypeOK
  <2> QED BY <2>1 DEF Lifecycle!LifecycleNext
<1>5. ASSUME NEW w \in Workers, NEW kind \in Kinds, NEW at \in 0..MaxTime, NEW kids \in Batches,
             NEW due \in 0..MaxTime, ApplyResult(w, kind, at, kids, due)
      PROVE  Abstract
  <2>0. worker[w].cell \in CellID
    BY <1>0, <1>5, WorkerType DEF ApplyResult, Dispatch
  <2> PICK c \in CellID : c = worker[w].cell
    BY <2>0
  <2> DEFINE new == AfterResult(c, kind, at)
  <2>1. State(c) = "CLAIMED"
    BY <1>5 DEF ApplyResult, StillClaimed
  <2>2. kids \in SUBSET CellID
    BY CellarConstants
  <2>3. \A d \in kids : State(d) = "ABSENT"
    BY <1>5 DEF ApplyResult, Insertable, Active
  <2>4. \A d \in CellID : cells'[d] = IF d \in kids THEN NewCell(due)
                                      ELSE IF d = c THEN new ELSE cells[d]
    BY <1>5 DEF ApplyResult
  <2>5. NewCell(due).step = 0 /\ NewCell(due).state = "READY"
    BY DEF NewCell
  <2>6. \/ new.state = "READY" /\ new.step = cells[c].step + 1
             /\ cells[c].step + 1 < Len(StepsOf[c])
        \/ new.state = "READY" /\ new.step = cells[c].step
        \/ new.state = "READY" /\ new.step = 0
        \/ new.state = "ABSENT" /\ new.step = 0
    BY <1>0, AfterResultMoves
  <2> HIDE DEF new
  <2>7. \/ Lifecycle!Advance(c, kids)
        \/ Lifecycle!RetryStep(c, kids)
        \/ Lifecycle!RetryFromStart(c, kids)
        \/ Lifecycle!Delete(c, kids)
    BY <2>1, <2>2, <2>3, <2>4, <2>5, <2>6
       DEF Lifecycle!Advance, Lifecycle!RetryStep, Lifecycle!RetryFromStart, Lifecycle!Delete,
           Lifecycle!Move, Lifecycle!Absent
  <2> QED BY <2>2, <2>7 DEF Lifecycle!LifecycleNext
<1> QED
  BY <1>1, <1>2, <1>3, <1>4, <1>5
     DEF Next, Boot, StartRefused, Exit, Crash, ProcessEnds, Stop, Tick, vars, Scheduler, WorkerStep,
         SeeCancel, SeeError, TakeToken, RecheckPasses, ClaimNothing, ClaimError, PollDelayOver,
         RunReturns, HandlerReturns, HandlerFails, ApplyRejected, ApplyFails, DispatchEnds

LEMMA CursorHolds == Spec => []CursorFits
<1>1. Init => CursorFits
  BY StepsAreNumbers DEF Init, CursorFits, NoCell
<1>2. CursorFits /\ IInv /\ [Next]_vars => CursorFits'
  BY CursorStep DEF IInv
<1> QED BY <1>1, <1>2, IInvHolds, PTL DEF Spec

(* The scheduler, its goroutines, crashes, restarts and failed             *)
(* transactions keep what the lifecycle promises of a cell: it only moves  *)
(* while claimed, one step on or back to the first, and its children       *)
(* appear with its move.  For any cells, steps, workers and builds.        *)
THEOREM RuntimeKeepsLifecycle == Spec => ImplementsLifecycle
<1>1. Init => Lifecycle!LifecycleInit
  BY DEF Init, NoCell, Lifecycle!LifecycleInit
<1>2. IInv /\ CursorFits /\ [Next]_vars => [Lifecycle!LifecycleNext]_(Lifecycle!lifecycleVars)
  BY LifecycleStep
<1> QED
  BY <1>1, <1>2, IInvHolds, CursorHolds, PTL DEF Spec, ImplementsLifecycle, Lifecycle!LifecycleSpec
================================================================================
