-------------------------------- MODULE Cellar ---------------------------------
(***************************************************************************)
(* The Cellar runtime: the cell store, the scheduler with its capacity     *)
(* tokens and its one-place error channel, the dispatch goroutines that    *)
(* run handlers and apply their results, and the process around them,      *)
(* which starts, stops, fails and crashes.                                 *)
(*                                                                         *)
(* The store survives a crash; everything else is memory of one process.   *)
(* A store operation is one SQLite transaction (or one critical section of *)
(* MemoryStore), hence one step.  A handler is whatever the application    *)
(* registered: it takes its time and returns any of the five results that  *)
(* package cellar defines.  Result cannot be implemented elsewhere, and no *)
(* handler of the repository returns nil, a pointer or an embedded result: *)
(* for one of those the default branch of StoreResultApplier would report  *)
(* success and leave the cell claimed.  It stands for ErrorResult alone.   *)
(***************************************************************************)
EXTENDS Naturals, Sequences, FiniteSets

CONSTANTS
  CellID,      \* identifiers of cells
  Named,       \* those chosen by the application (timers, fanout children):
               \* usable again after deletion; the others are allocated once
  Handler,     \* handler names
  StepsOf,     \* StepsOf[c]: the handler names of cell c's steps, in order
  Builds,      \* the sets of handlers that builds of the application register
  Batches,     \* sets of children a handler may ask for in one result
  Workers,     \* goroutine slots, one for each of Config.Workers
  MaxTime,     \* bound: last instant of the clock
  MaxDisturb   \* bound: handler errors, failed store calls, crashes and stops

ASSUME CellarConstants ==
  /\ Named \subseteq CellID
  /\ StepsOf \in [CellID -> Seq(Handler)]
  /\ \A c \in CellID : Len(StepsOf[c]) > 0
  /\ Builds \subseteq SUBSET Handler
  /\ Batches \subseteq SUBSET CellID
  /\ IsFiniteSet(Workers) /\ Workers # {}
  /\ MaxTime \in Nat
  /\ MaxDisturb \in Nat

VARIABLES
  (* durable *)
  cells,       \* cells[c]: the persisted row of cell c
  (* the process *)
  process,     \* "down", "open" (New and Register done), "started"
  registry,    \* handlers this process registered
  sched,       \* where Scheduler.Run is
  cancelled,   \* the run context is cancelled
  capacity,    \* tokens in the capacity channel
  errors,      \* errors in the dispatchErrors channel (it has one place)
  outcome,     \* what Run returns: "none" yet, "nil" or "error"
  worker,      \* the dispatch goroutine in each slot
  (* environment and history *)
  now,         \* wall clock
  used,        \* identifiers ever persisted
  disturbed    \* disturbances so far

processVars == <<process, registry>>
schedVars == <<sched, cancelled, capacity, errors, outcome>>
vars == <<cells, processVars, schedVars, worker, now, used, disturbed>>

--------------------------------------------------------------------------------
(* The store.  notBefore = 0 is "no NotBefore"; created orders ClaimNext.  *)

Cell == [state: {"ABSENT", "READY", "CLAIMED"}, step: Nat, notBefore: Nat, created: Nat]

NoCell == [state |-> "ABSENT", step |-> 0, notBefore |-> 0, created |-> 0]

Active(c) == cells[c].state # "ABSENT"

NewCell(nb) == [state |-> "READY", step |-> 0, notBefore |-> nb, created |-> now]

(* Identifiers the caller may hand to the store: its own, or fresh ones.   *)
Allocatable(ids) == \A c \in ids : c \in Named \/ c \notin used

(* insertRequests: all of the batch, or ErrCellAlreadyExists and none.     *)
Insertable(ids) == \A c \in ids : ~Active(c)

(* Mutant: the claim query forgets WHERE state = READY.                    *)
RunnableAnyState(c) == Active(c) /\ cells[c].notBefore <= now

Runnable(c) == cells[c].state = "READY" /\ cells[c].notBefore <= now

(* ORDER BY created_at, id LIMIT 1: created_at has a resolution of one     *)
(* second, and within a second the order of identifiers is arbitrary.      *)
IsNext(c) == Runnable(c) /\ \A d \in CellID : Runnable(d) => cells[c].created <= cells[d].created

(* Mutant: the last step is taken for one before the last.                 *)
AfterResultOffByOne(c, kind, at) ==
  CASE kind = "Complete" ->
         IF cells[c].step + 1 > Len(StepsOf[c]) THEN NoCell
         ELSE [cells[c] EXCEPT !.step = @ + 1, !.state = "READY"]
    [] kind = "Retry"         -> [cells[c] EXCEPT !.state = "READY", !.notBefore = at]
    [] kind = "RetrySequence" -> [cells[c] EXCEPT !.state = "READY", !.step = 0, !.notBefore = now + at]
    [] kind = "Kill"          -> NoCell

(* The row that a result leaves of the claimed cell c.                     *)
AfterResult(c, kind, at) ==
  CASE kind = "Complete" ->
         IF cells[c].step + 1 = Len(StepsOf[c]) THEN NoCell
         ELSE [cells[c] EXCEPT !.step = @ + 1, !.state = "READY"]
    [] kind = "Retry"         -> [cells[c] EXCEPT !.state = "READY", !.notBefore = at]
    [] kind = "RetrySequence" -> [cells[c] EXCEPT !.state = "READY", !.step = 0, !.notBefore = now + at]
    [] kind = "Kill"          -> NoCell

Kinds == {"Complete", "Retry", "RetrySequence", "Kill"}

Recovered == [c \in CellID |-> IF cells[c].state = "CLAIMED"
                               THEN [cells[c] EXCEPT !.state = "READY"]
                               ELSE cells[c]]

--------------------------------------------------------------------------------
(* Dispatch goroutines.  "run": claimed, the handler has not returned yet; *)
(* "apply": it returned a result for the store; "done": the result is      *)
(* applied; "failed": Dispatch returns an error.                           *)

Dispatch == [pc: {"run", "apply", "done", "failed"}, cell: CellID, step: Nat]

Idle == [pc |-> "idle"]

Busy == {w \in Workers : worker[w].pc # "idle"}

(* Disturbances are counted so that a behaviour has finitely many.         *)
Disturb == disturbed < MaxDisturb /\ disturbed' = disturbed + 1

--------------------------------------------------------------------------------
Init ==
  /\ cells = [c \in CellID |-> NoCell]
  /\ process = "down"
  /\ registry = {}
  /\ sched = "off"
  /\ cancelled = FALSE
  /\ capacity = 0
  /\ errors = 0
  /\ outcome = "none"
  /\ worker = [w \in Workers |-> Idle]
  /\ now = 0
  /\ used = {}
  /\ disturbed = 0

(* cellar.New and the application's calls of Register.                     *)
Boot ==
  /\ process = "down"
  /\ process' = "open"
  /\ registry' \in Builds
  /\ UNCHANGED <<cells, schedVars, worker, now, used, disturbed>>

(* Add, AddSequence, AddCell: any goroutine of the application, any time   *)
(* the process lives.  No check that the handlers are registered.          *)
AddCell(c, nb) ==
  /\ process # "down"
  /\ Allocatable({c})
  /\ Insertable({c})
  /\ cells' = [cells EXCEPT ![c] = NewCell(nb)]
  /\ used' = used \cup {c}
  /\ UNCHANGED <<processVars, schedVars, worker, now, disturbed>>

(* validateHandlers: every step of every active cell has its handler.      *)
HandlersRegistered ==
  \A c \in CellID : Active(c) => \A i \in DOMAIN StepsOf[c] : StepsOf[c][i] \in registry

(* Mutant: Start does not recover claimed cells.                           *)
StartWithoutRecover ==
  /\ process = "open"
  /\ HandlersRegistered
  /\ process' = "started"
  /\ sched' = "select"
  /\ cancelled' = FALSE
  /\ capacity' = Cardinality(Workers)
  /\ errors' = 0
  /\ outcome' = "none"
  /\ UNCHANGED <<cells, registry, worker, now, used, disturbed>>

(* Start: validate, Store.Recover, freeze, then Scheduler.Run.             *)
Start ==
  /\ process = "open"
  /\ HandlersRegistered
  /\ cells' = Recovered
  /\ process' = "started"
  /\ sched' = "select"
  /\ cancelled' = FALSE
  /\ capacity' = Cardinality(Workers)
  /\ errors' = 0
  /\ outcome' = "none"
  /\ UNCHANGED <<registry, worker, now, used, disturbed>>

(* Everything the process keeps in memory is gone.                         *)
ProcessEnds ==
  /\ process' = "down"
  /\ registry' = {}
  /\ sched' = "off"
  /\ cancelled' = FALSE
  /\ capacity' = 0
  /\ errors' = 0
  /\ outcome' = "none"
  /\ worker' = [w \in Workers |-> Idle]
  /\ UNCHANGED <<cells, now, used>>

(* Start fails and the application ends: a handler is missing, or          *)
(* Store.ListActive or Store.Recover (one UPDATE) returns an error.        *)
StartRefused ==
  /\ process = "open"
  /\ \/ ~HandlersRegistered /\ UNCHANGED disturbed
     \/ Disturb
  /\ ProcessEnds

(* Run has returned, with or without an error, and the application ends.   *)
Exit ==
  /\ sched = "returned"
  /\ ProcessEnds
  /\ UNCHANGED disturbed

Crash ==
  /\ process # "down"
  /\ Disturb
  /\ ProcessEnds

(* Stop, or the caller's context is cancelled.                             *)
Stop ==
  /\ process = "started"
  /\ ~cancelled
  /\ Disturb
  /\ cancelled' = TRUE
  /\ UNCHANGED <<cells, processVars, sched, capacity, errors, outcome, worker, now, used>>

--------------------------------------------------------------------------------
(* Scheduler.Run.  "select" and "recheck" are the two select statements    *)
(* before a claim, a token being held in "recheck" and "claim"; "poll" is  *)
(* the wait after an empty claim; "draining" is stop()'s dispatches.Wait.  *)

Waiting == {"select", "recheck", "poll"}

HoldsToken == sched \in {"recheck", "claim"}

TokenBack == capacity' = IF HoldsToken THEN capacity + 1 ELSE capacity

(* Mutant: a break that leaves the select and not the loop.                *)
SeeCancelBreaks ==
  /\ sched \in Waiting
  /\ cancelled
  /\ sched' = "select"
  /\ TokenBack
  /\ UNCHANGED <<cells, processVars, cancelled, errors, outcome, worker, now, used, disturbed>>

(* A select sees the context done: stop(nil).                              *)
SeeCancel ==
  /\ sched \in Waiting
  /\ cancelled
  /\ sched' = "draining"
  /\ TokenBack
  /\ UNCHANGED <<cells, processVars, cancelled, errors, outcome, worker, now, used, disturbed>>

(* A select receives from dispatchErrors: stop(err), which cancels.        *)
SeeError ==
  /\ sched \in Waiting
  /\ errors = 1
  /\ errors' = 0
  /\ outcome' = "error"
  /\ sched' = "draining"
  /\ cancelled' = TRUE
  /\ TokenBack
  /\ UNCHANGED <<cells, processVars, worker, now, used, disturbed>>

TakeToken ==
  /\ sched = "select"
  /\ capacity > 0
  /\ capacity' = capacity - 1
  /\ sched' = "recheck"
  /\ UNCHANGED <<cells, processVars, cancelled, errors, outcome, worker, now, used, disturbed>>

(* The default branch: nothing to report at this moment.                   *)
RecheckPasses ==
  /\ sched = "recheck"
  /\ ~cancelled
  /\ errors = 0
  /\ sched' = "claim"
  /\ UNCHANGED <<cells, processVars, cancelled, capacity, errors, outcome, worker, now, used, disturbed>>

(* ClaimNext finds a cell; the goroutine that dispatches it starts.        *)
ClaimNext(c, w) ==
  /\ sched = "claim"
  /\ IsNext(c)
  /\ worker[w] = Idle
  /\ cells' = [cells EXCEPT ![c].state = "CLAIMED"]
  /\ worker' = [worker EXCEPT ![w] = [pc |-> "run", cell |-> c, step |-> cells[c].step]]
  /\ sched' = "select"
  /\ UNCHANGED <<processVars, cancelled, capacity, errors, outcome, now, used, disturbed>>

(* Mutant: an empty claim keeps its token.                                 *)
ClaimNothingKeepsToken ==
  /\ sched = "claim"
  /\ \A c \in CellID : ~Runnable(c)
  /\ sched' = "poll"
  /\ UNCHANGED <<cells, processVars, cancelled, capacity, errors, outcome, worker, now, used, disturbed>>

ClaimNothing ==
  /\ sched = "claim"
  /\ \A c \in CellID : ~Runnable(c)
  /\ sched' = "poll"
  /\ TokenBack
  /\ UNCHANGED <<cells, processVars, cancelled, errors, outcome, worker, now, used, disturbed>>

(* The store fails: stop(err).                                             *)
ClaimError ==
  /\ sched = "claim"
  /\ Disturb
  /\ sched' = "draining"
  /\ outcome' = "error"
  /\ cancelled' = TRUE
  /\ TokenBack
  /\ UNCHANGED <<cells, processVars, errors, worker, now, used>>

PollDelayOver ==
  /\ sched = "poll"
  /\ sched' = "select"
  /\ UNCHANGED <<cells, processVars, cancelled, capacity, errors, outcome, worker, now, used, disturbed>>

(* Mutant: stop does not look into dispatchErrors after the wait.          *)
RunReturnsUndrained ==
  /\ sched = "draining"
  /\ Busy = {}
  /\ sched' = "returned"
  /\ cancelled' = TRUE
  /\ outcome' = IF outcome = "error" THEN "error" ELSE "nil"
  /\ UNCHANGED <<cells, processVars, capacity, errors, worker, now, used, disturbed>>

(* dispatches.Wait is over: stop(nil) still looks for an error.            *)
RunReturns ==
  /\ sched = "draining"
  /\ Busy = {}
  /\ sched' = "returned"
  /\ cancelled' = TRUE
  /\ outcome' = IF outcome = "error" \/ errors = 1 THEN "error" ELSE "nil"
  /\ errors' = IF outcome = "error" THEN errors ELSE 0
  /\ UNCHANGED <<cells, processVars, capacity, worker, now, used, disturbed>>

--------------------------------------------------------------------------------
(* Worker.Run.                                                             *)

WorkerGoes(w, pc) == worker' = [worker EXCEPT ![w].pc = pc]

(* The cursor is inside the steps and the current step has its handler.    *)
Executable(w) ==
  LET c == worker[w].cell  s == worker[w].step
  IN  s < Len(StepsOf[c]) /\ StepsOf[c][s + 1] \in registry

HandlerReturns(w) ==
  /\ worker[w].pc = "run"
  /\ Executable(w)
  /\ WorkerGoes(w, "apply")
  /\ UNCHANGED <<cells, processVars, schedVars, now, used, disturbed>>

(* ErrorResult: StoreResultApplier does nothing, the cell stays claimed.   *)
HandlerFails(w) ==
  /\ worker[w].pc = "run"
  /\ \/ Executable(w) /\ Disturb
     \/ ~Executable(w) /\ UNCHANGED disturbed
  /\ WorkerGoes(w, "failed")
  /\ UNCHANGED <<cells, processVars, schedVars, now, used>>

(* The checks at the head of ApplyResult.                                  *)
StillClaimed(w) ==
  LET c == worker[w].cell
  IN  cells[c].state = "CLAIMED" /\ cells[c].step = worker[w].step

(* ApplyResult, one transaction: application work, children (due is their  *)
(* NotBefore), transition.                                                 *)
ApplyResult(w, kind, at, kids, due) ==
  LET c == worker[w].cell
  IN  /\ worker[w].pc = "apply"
      /\ StillClaimed(w)
      /\ Allocatable(kids)
      /\ Insertable(kids)
      /\ kind = "RetrySequence" => now + at <= MaxTime
      /\ cells' = [d \in CellID |-> IF d \in kids THEN NewCell(due)
                                    ELSE IF d = c THEN AfterResult(c, kind, at)
                                    ELSE cells[d]]
      /\ used' = used \cup kids
      /\ WorkerGoes(w, "done")
      /\ UNCHANGED <<processVars, schedVars, now, disturbed>>

(* A child identifier is taken, or the cell is no longer what was claimed: *)
(* the transaction rolls back and Dispatch returns an error.               *)
ApplyRejected(w, kids) ==
  /\ worker[w].pc = "apply"
  /\ Allocatable(kids)
  /\ ~StillClaimed(w) \/ ~Insertable(kids)
  /\ WorkerGoes(w, "failed")
  /\ UNCHANGED <<cells, processVars, schedVars, now, used, disturbed>>

(* Application work or the database fails: rolled back as well.            *)
ApplyFails(w) ==
  /\ worker[w].pc = "apply"
  /\ Disturb
  /\ WorkerGoes(w, "failed")
  /\ UNCHANGED <<cells, processVars, schedVars, now, used>>

(* Mutant: the channel has no room but the error is sent all the same.     *)
DispatchEndsUnbounded(w) ==
  /\ worker[w].pc \in {"done", "failed"}
  /\ errors' = IF worker[w].pc = "failed" THEN errors + 1 ELSE errors
  /\ capacity' = capacity + 1
  /\ worker' = [worker EXCEPT ![w] = Idle]
  /\ UNCHANGED <<cells, processVars, sched, cancelled, outcome, now, used, disturbed>>

(* Mutant: an error of Dispatch is dropped.                                *)
DispatchEndsSilently(w) ==
  /\ worker[w].pc \in {"done", "failed"}
  /\ capacity' = capacity + 1
  /\ worker' = [worker EXCEPT ![w] = Idle]
  /\ UNCHANGED <<cells, processVars, sched, cancelled, errors, outcome, now, used, disturbed>>

(* The goroutine ends: an error goes into the channel if there is room,    *)
(* and the token goes back.                                                *)
DispatchEnds(w) ==
  /\ worker[w].pc \in {"done", "failed"}
  /\ errors' = IF worker[w].pc = "failed" THEN 1 ELSE errors
  /\ capacity' = capacity + 1
  /\ worker' = [worker EXCEPT ![w] = Idle]
  /\ UNCHANGED <<cells, processVars, sched, cancelled, outcome, now, used, disturbed>>

--------------------------------------------------------------------------------
Tick ==
  /\ now < MaxTime
  /\ now' = now + 1
  /\ UNCHANGED <<cells, processVars, schedVars, worker, used, disturbed>>

Scheduler ==
  \/ SeeCancel
  \/ SeeError
  \/ TakeToken
  \/ RecheckPasses
  \/ \E c \in CellID, w \in Workers : ClaimNext(c, w)
  \/ ClaimNothing
  \/ ClaimError
  \/ PollDelayOver
  \/ RunReturns

WorkerStep(w) ==
  \/ HandlerReturns(w)
  \/ HandlerFails(w)
  \/ \E kind \in Kinds, at, due \in 0..MaxTime, kids \in Batches : ApplyResult(w, kind, at, kids, due)
  \/ \E kids \in Batches : ApplyRejected(w, kids)
  \/ ApplyFails(w)
  \/ DispatchEnds(w)

Next ==
  \/ Boot
  \/ \E c \in CellID, nb \in 0..MaxTime : AddCell(c, nb)
  \/ Start
  \/ StartRefused
  \/ Exit
  \/ Crash
  \/ Stop
  \/ Scheduler
  \/ \E w \in Workers : WorkerStep(w)
  \/ Tick

Spec == Init /\ [][Next]_vars

--------------------------------------------------------------------------------
(* Safety.                                                                 *)

TypeOK ==
  /\ cells \in [CellID -> Cell]
  /\ process \in {"down", "open", "started"}
  /\ registry \in SUBSET Handler
  /\ sched \in {"off", "select", "recheck", "claim", "poll", "draining", "returned"}
  /\ cancelled \in BOOLEAN
  /\ capacity \in Nat
  /\ errors \in 0..1
  /\ outcome \in {"none", "nil", "error"}
  /\ worker \in [Workers -> Dispatch \cup {Idle}]
  /\ now \in Nat
  /\ used \in SUBSET CellID
  /\ disturbed \in 0..MaxDisturb

(* Slots that have not finished with the claim they were started for.      *)
Owns(w, c) == worker[w].pc \in {"run", "apply", "failed"} /\ worker[w].cell = c

(* "A claimed Cell must not be scheduled again" (ADR-0002): no two         *)
(* goroutines ever own the same claim, and until a goroutine has applied   *)
(* its result the persisted row is still claimed at the step the goroutine *)
(* was given, so ApplyResult's guards never find a stale claim.            *)
ExclusiveClaim ==
  /\ \A v, w \in Workers, c \in CellID : Owns(v, c) /\ Owns(w, c) => v = w
  /\ \A w \in Workers : worker[w].pc \in {"run", "apply", "failed"} => StillClaimed(w)

(* Capacity tokens are neither lost nor made: a send on the capacity       *)
(* channel never blocks and the scheduler never runs out of workers.       *)
TokensConserved ==
  process = "started" =>
    capacity + (IF HoldsToken THEN 1 ELSE 0) + Cardinality(Busy) = Cardinality(Workers)

(* A cell that is claimed and has no goroutine was left by a failure that  *)
(* the run reports: the error is in the channel or on its way out of Run.  *)
NoSilentOrphan ==
  process = "started" =>
    \A c \in CellID : cells[c].state = "CLAIMED" =>
      (\E w \in Workers : Owns(w, c)) \/ errors = 1 \/ outcome = "error"

(* When Run has returned no handler is running any more, and when it       *)
(* returned nil every claim was settled: no cell waits for a restart.      *)
CleanReturn ==
  sched = "returned" =>
    /\ Busy = {}
    /\ outcome = "nil" => \A c \in CellID : cells[c].state # "CLAIMED"

(* How the process, the scheduler and the goroutines go together; with the *)
(* above it is inductive (CellarProofs).                                   *)
RunShape ==
  /\ process = "started" <=> sched # "off"
  /\ process # "started" \/ sched = "returned" => Busy = {}
  /\ outcome = "nil" => sched = "returned" /\ errors = 0

IInv ==
  /\ TypeOK
  /\ RunShape
  /\ ExclusiveClaim
  /\ NoSilentOrphan
  /\ TokensConserved

(* The runtime implements the lifecycle that ADR-0002 and ADR-0016 state:  *)
(* crashes, stops and failed transactions included, a cell only moves as   *)
(* CellLifecycle allows, and its children appear with its move.            *)
Lifecycle == INSTANCE CellLifecycle WITH
  LenOf <- [c \in CellID |-> Len(StepsOf[c])],
  state <- [c \in CellID |-> cells[c].state],
  step  <- [c \in CellID |-> cells[c].step]

ImplementsLifecycle == Lifecycle!LifecycleSpec

--------------------------------------------------------------------------------
(* Liveness.  The goroutines run, handlers return, polling timers fire and *)
(* Start follows Open: weak fairness.  A process manager that starts the   *)
(* application again and again starts a build with every handler some day, *)
(* and a step that is executed again and again completes some day (the     *)
(* operator's and the application's part of the bargain): strong fairness. *)

CompletesStep(c, s) ==
  \E w \in Workers, kids \in Batches :
    worker[w].pc = "apply" /\ worker[w].cell = c /\ worker[w].step = s
    /\ ApplyResult(w, "Complete", 0, kids, 0)

CompleteBuild == Boot /\ registry' = Handler

Fairness ==
  /\ WF_vars(Start \/ StartRefused \/ Exit)
  /\ WF_vars(Scheduler)
  /\ SF_vars(CompleteBuild)
  /\ \A w \in Workers : WF_vars(WorkerStep(w))
  /\ WF_vars(Tick)
  /\ \A c \in CellID : \A i \in DOMAIN StepsOf[c] : SF_vars(CompletesStep(c, i - 1))

FairSpec == Spec /\ Fairness

(* A requested stop ends the run (or the process dies first): the select   *)
(* statements and dispatches.Wait cannot hang while handlers return.       *)
StopReturns == cancelled ~> sched \in {"returned", "off"}

(* A failed dispatch ends the run, even when its error found the channel   *)
(* full and was dropped.                                                   *)
FailureEndsRun ==
  (\E w \in Workers : worker[w].pc = "failed") ~> sched \in {"returned", "off"}

(* "A process crash should not silently lose accepted work" (ADR-0000):    *)
(* every accepted cell runs to its end, through any finite number of       *)
(* crashes, stops, handler errors, failed transactions and builds that     *)
(* lack a handler.  Cells that are added again under their fixed name for  *)
(* ever may starve the others: ClaimNext has no fairness between cells.    *)
AcceptedWorkCompletes ==
  \/ []<><<\E c \in Named, nb \in 0..MaxTime : AddCell(c, nb)>>_vars
  \/ \A c \in CellID : Active(c) ~> ~Active(c)
================================================================================
