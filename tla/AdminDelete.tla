------------------------------ MODULE AdminDelete ------------------------------
(***************************************************************************)
(* Admin delete: one request in admin_delete_requests, the listener with   *)
(* its two watches (the requests and the kill switch), the Evaluate and    *)
(* Persist cells of the service, and Firebase around them: the documents   *)
(* of the target user, the Auth account, the request and its audit.        *)
(*                                                                         *)
(* The listener's sequence cell runs through TruthEmission: a key (one per *)
(* phase) is emitted at most once, and an observation leads to it.  Cells  *)
(* behave as Cellar.tla says; last_orders runs them with one worker.       *)
(*                                                                         *)
(* A read of Firestore is a step of its own: what it returned may be stale *)
(* when it is used.  The delays of RetrySequence only order attempts and   *)
(* are left out.                                                           *)
(***************************************************************************)
EXTENDS Naturals

CONSTANTS
  Mode,        \* configurations the service is started with, of those in Modes
  MaxOutside,  \* bound: changes of the kill switch and writes of the user's client
  MaxDisturb   \* bound: crashes, broken watches, failed and unanswered calls

(* "off": not enabled; "dry": ADMIN_DELETE_DRY_RUN; "blocked": not dry-run *)
(* and no real-delete capability; "real": both gates open.                 *)
Modes == {"off", "dry", "blocked", "real"}

ASSUME AdminDeleteConstants ==
  /\ Mode \subseteq Modes
  /\ MaxOutside \in Nat
  /\ MaxDisturb \in Nat

VARIABLES
  (* Firebase *)
  valid,         \* the request has schemaVersion 1 and a targetUid
  status,        \* status of the request document, or "none"
  audit,         \* its audit document
  docs,          \* documents of the target user
  account,       \* the Auth account exists
  paused,        \* config/admin_delete.paused
  (* the base database and the idempotency keys *)
  observed,      \* phases whose sequence cell waits
  key,           \* phases whose Truth was emitted
  evaluate,      \* phases whose Evaluate cell is in the store
  persist,       \* persist[p]: the Persist cell's payload
  (* the process *)
  mode,          \* its configuration, or "down"
  work,          \* what the worker does
  event,         \* latest undelivered status of the request, or "none"
  watcher,       \* where watchOnce is
  pauseEvent,    \* an undelivered snapshot of the kill switch
  pauseWatcher,  \* where watchPause is
  lastPaused,    \* lastPaused and known of watchPause
  (* bounds *)
  outside, disturbed

firebase == <<valid, status, audit, docs, account, paused>>
store == <<observed, key, evaluate, persist>>
watches == <<event, watcher, pauseEvent, pauseWatcher, lastPaused>>
bounds == <<outside, disturbed>>
vars == <<firebase, store, mode, work, watches, bounds>>

--------------------------------------------------------------------------------
Outcome == {"invalid_request", "failed_precondition", "auth_delete_blocked",
            "dry_run_validated", "auth_deleted", "auth_delete_failed"}

Status == {"none", "pending"} \cup Outcome

(* The idempotency namespace: listener name with or without .real_delete.  *)
Phase == {"validate", "real_delete"}

PhaseOf(m) == IF m = "real" THEN "real_delete" ELSE "validate"

isEligible(m, s) == s = "pending" \/ (m = "real" /\ s = "dry_run_validated")

Doc == {"users", "user-public"}

(* OutcomePayload: what PersistOutcome decides by.                         *)
Payload == [outcome: Outcome, real: BOOLEAN]

NoPayload == [outcome |-> "none", real |-> FALSE]

(* The audit document; dryRun: it has dryRunEvidence of a validation.      *)
Audit == [outcome: Outcome \cup {"none"}, dryRun: BOOLEAN]

(* The cell that the worker executes, where its handler is, the documents  *)
(* it has seen and the outcome it decided on.                              *)
Place == {"none", "status", "paused", "users", "public", "delete", "conclude", "commit", "complete"}

Work == [job: {"none", "evaluate", "persist"}, phase: Phase, pc: Place,
         seen: SUBSET Doc, out: Outcome \cup {"none"}]

Resting == [job |-> "none", phase |-> "validate", pc |-> "none", seen |-> {}, out |-> "none"]

Disturb == disturbed < MaxDisturb /\ disturbed' = disturbed + 1

Init ==
  /\ valid \in BOOLEAN
  /\ status = "none"
  /\ audit = [outcome |-> "none", dryRun |-> FALSE]
  /\ docs = {}
  /\ account = TRUE
  /\ paused = FALSE
  /\ observed = {}
  /\ key = {}
  /\ evaluate = {}
  /\ persist = [p \in Phase |-> NoPayload]
  /\ mode = "down"
  /\ work = Resting
  /\ event = "none"
  /\ watcher = "next"
  /\ pauseEvent = FALSE
  /\ pauseWatcher = "next"
  /\ lastPaused = "unknown"
  /\ outside = 0
  /\ disturbed = 0

--------------------------------------------------------------------------------
(* The administrator, the operators and the user's client.                 *)

(* The administrator's client, having scrubbed the user, files a request.  *)
Request ==
  /\ status = "none"
  /\ status' = "pending"
  /\ event' = IF mode \in {"down", "off"} THEN event ELSE "pending"
  /\ UNCHANGED <<valid, audit, docs, account, paused, store, mode, work,
                 watcher, pauseEvent, pauseWatcher, lastPaused, bounds>>

(* An administrator scrubs the user's documents once more.                 *)
Scrub ==
  /\ docs # {}
  /\ docs' = {}
  /\ UNCHANGED <<valid, status, audit, account, paused, store, mode, work, watches, bounds>>

(* A signed-in client writes a document of the user again (useSelf,        *)
(* PreferencesForm); its session outlives the account for a while.         *)
SignIn ==
  /\ outside < MaxOutside
  /\ outside' = outside + 1
  /\ \E d \in Doc : docs' = docs \cup {d}
  /\ UNCHANGED <<valid, status, audit, account, paused, store, mode, work, watches, disturbed>>

Toggle ==
  /\ outside < MaxOutside
  /\ outside' = outside + 1
  /\ paused' = ~paused
  /\ pauseEvent' = (mode \notin {"down", "off"})
  /\ UNCHANGED <<valid, status, audit, docs, account, store, mode, work,
                 event, watcher, pauseWatcher, lastPaused, disturbed>>

--------------------------------------------------------------------------------
(* The process.                                                            *)

(* App.Run with configuration m; both watches deliver a first snapshot.    *)
Start(m) ==
  /\ mode = "down"
  /\ mode' = m
  /\ event' = IF m = "off" THEN "none" ELSE status
  /\ pauseEvent' = (m # "off")
  /\ UNCHANGED <<firebase, store, work, watcher, pauseWatcher, lastPaused, bounds>>

(* A crash, or a stop: both leave the store as it is.                      *)
Crash ==
  /\ mode # "down"
  /\ Disturb
  /\ mode' = "down"
  /\ work' = Resting
  /\ event' = "none"
  /\ watcher' = "next"
  /\ pauseEvent' = FALSE
  /\ pauseWatcher' = "next"
  /\ lastPaused' = "unknown"
  /\ UNCHANGED <<firebase, store, outside>>

Running == mode \notin {"down", "off"}

--------------------------------------------------------------------------------
(* The listener.                                                           *)

(* enqueue: the sequence cell of the phase that the configuration asks for *)
Enqueue == observed' = observed \cup {PhaseOf(mode)}

SeeRequest ==
  /\ Running
  /\ watcher = "next"
  /\ event # "none"
  /\ event' = "none"
  /\ watcher' = IF isEligible(mode, event) THEN "gate" ELSE "next"
  /\ UNCHANGED <<firebase, store, mode, work, pauseEvent, pauseWatcher, lastPaused, bounds>>

GateRequest ==
  /\ Running
  /\ watcher = "gate"
  /\ watcher' = IF paused THEN "next" ELSE "enqueue"
  /\ UNCHANGED <<firebase, store, mode, work, event, pauseEvent, pauseWatcher, lastPaused, bounds>>

EnqueueRequest ==
  /\ Running
  /\ watcher = "enqueue"
  /\ Enqueue
  /\ watcher' = "next"
  /\ UNCHANGED <<firebase, key, evaluate, persist, mode, work,
                 event, pauseEvent, pauseWatcher, lastPaused, bounds>>

(* Mutant: a watch that broke goes on where it was.                        *)
WatchBreaksOff ==
  /\ Running
  /\ Disturb
  /\ watcher' = "next"
  /\ UNCHANGED <<firebase, store, mode, work, event, pauseEvent, pauseWatcher, lastPaused,
                 outside>>

(* The watch, IsPaused or Add fails: a new watch shows the request again.  *)
WatchBreaks ==
  /\ Running
  /\ Disturb
  /\ watcher' = "next"
  /\ event' = status
  /\ UNCHANGED <<firebase, store, mode, work, pauseEvent, pauseWatcher, lastPaused, outside>>

SeePause ==
  /\ Running
  /\ pauseWatcher = "next"
  /\ pauseEvent
  /\ pauseEvent' = FALSE
  /\ pauseWatcher' = "read"
  /\ UNCHANGED <<firebase, store, mode, work, event, watcher, lastPaused, bounds>>

(* IsPaused, then RunOnce if the switch is open and was not known open.    *)
ReadPause ==
  /\ Running
  /\ pauseWatcher = "read"
  /\ pauseWatcher' = IF ~paused /\ lastPaused # "open" THEN "gate" ELSE "next"
  /\ lastPaused' = IF paused THEN "paused" ELSE "open"
  /\ UNCHANGED <<firebase, store, mode, work, event, watcher, pauseEvent, bounds>>

GateScan ==
  /\ Running
  /\ pauseWatcher = "gate"
  /\ pauseWatcher' = IF paused THEN "next" ELSE "scan"
  /\ UNCHANGED <<firebase, store, mode, work, event, watcher, pauseEvent, lastPaused, bounds>>

(* ListEligible and the loop of RunOnce.                                   *)
Scan ==
  /\ Running
  /\ pauseWatcher = "scan"
  /\ IF isEligible(mode, status) THEN Enqueue ELSE UNCHANGED observed
  /\ pauseWatcher' = "next"
  /\ UNCHANGED <<firebase, key, evaluate, persist, mode, work,
                 event, watcher, pauseEvent, lastPaused, bounds>>

PauseWatchBreaks ==
  /\ Running
  /\ Disturb
  /\ pauseEvent' = TRUE
  /\ pauseWatcher' = "next"
  /\ lastPaused' = "unknown"
  /\ UNCHANGED <<firebase, store, mode, work, event, watcher, outside>>

--------------------------------------------------------------------------------
(* The worker.                                                             *)

(* The sequence cell of phase p: the key is claimed and the Truth emitted, *)
(* or the key was claimed before and the cell is killed.                   *)
EmitTruth(p) ==
  /\ mode # "down"
  /\ work = Resting
  /\ p \in observed
  /\ observed' = observed \ {p}
  /\ key' = key \cup {p}
  /\ evaluate' = IF p \in key THEN evaluate ELSE evaluate \cup {p}
  /\ UNCHANGED <<firebase, persist, mode, work, watches, bounds>>

ClaimEvaluate(p) ==
  /\ mode # "down"
  /\ work = Resting
  /\ p \in evaluate
  /\ work' = [Resting EXCEPT !.job = "evaluate", !.phase = p, !.pc = "status"]
  /\ UNCHANGED <<firebase, store, mode, watches, bounds>>

ClaimPersist(p) ==
  /\ mode # "down"
  /\ work = Resting
  /\ persist[p] # NoPayload
  /\ work' = [Resting EXCEPT !.job = "persist", !.phase = p, !.pc = "commit"]
  /\ UNCHANGED <<firebase, store, mode, watches, bounds>>

(* A call to Firestore or Auth fails: RetrySequence, the cell stays.       *)
RetryLater ==
  /\ work.job # "none"
  /\ work.pc \notin {"conclude", "complete"}
  /\ Disturb
  /\ work' = Resting
  /\ UNCHANGED <<firebase, store, mode, watches, outside>>

At(pc) == work.pc = pc

Goes(pc) == work' = [work EXCEPT !.pc = pc]

Decides(out) == work' = [work EXCEPT !.pc = "conclude", !.seen = {}, !.out = out]

(* Evaluator.Handle: a disabled service retries; a request that is not     *)
(* eligible under the present configuration completes the cell.            *)
ReadStatus ==
  /\ At("status")
  /\ IF mode = "off" \/ isEligible(mode, status)
     THEN UNCHANGED evaluate
     ELSE evaluate' = evaluate \ {work.phase}
  /\ IF mode # "off" /\ isEligible(mode, status) THEN Goes("paused") ELSE work' = Resting
  /\ UNCHANGED <<firebase, observed, key, persist, mode, watches, bounds>>

(* Mutant: the kill switch completes the cell.                             *)
ReadPausedCompletes ==
  /\ At("paused")
  /\ evaluate' = IF paused THEN evaluate \ {work.phase} ELSE evaluate
  /\ \/ paused /\ work' = Resting
     \/ ~paused /\ ~valid /\ Decides("invalid_request")
     \/ ~paused /\ valid /\ Goes("users")
  /\ UNCHANGED <<firebase, observed, key, persist, mode, watches, bounds>>

ReadPaused ==
  /\ At("paused")
  /\ \/ paused /\ work' = Resting
     \/ ~paused /\ ~valid /\ Decides("invalid_request")
     \/ ~paused /\ valid /\ Goes("users")
  /\ UNCHANGED <<firebase, store, mode, watches, bounds>>

ReadUsers ==
  /\ At("users")
  /\ work' = [work EXCEPT !.pc = "public", !.seen = docs \cap {"users"}]
  /\ UNCHANGED <<firebase, store, mode, watches, bounds>>

ReadPublic ==
  /\ At("public")
  /\ LET seen == work.seen \cup (docs \cap {"user-public"})
     IN  \/ seen # {} /\ Decides("failed_precondition")
         \/ seen = {} /\ mode = "dry" /\ Decides("dry_run_validated")
         \/ seen = {} /\ mode = "blocked" /\ Decides("auth_delete_blocked")
         \/ seen = {} /\ mode = "real" /\ Goes("delete")
  /\ UNCHANGED <<firebase, store, mode, watches, bounds>>

(* DeleteUser succeeds or says UserNotFound.                               *)
DeleteUser ==
  /\ At("delete")
  /\ account' = FALSE
  /\ Decides("auth_deleted")
  /\ UNCHANGED <<valid, status, audit, docs, paused, store, mode, watches, bounds>>

(* Mutant: every error counts as UserNotFound.                             *)
DeleteRefusedAsGone ==
  /\ At("delete")
  /\ Decides("auth_deleted")
  /\ UNCHANGED <<firebase, store, mode, watches, bounds>>

(* Mutant: an outcome that validateOutcome does not know.                  *)
DeleteRefusedUnknown ==
  /\ At("delete")
  /\ Decides("auth_refused")
  /\ UNCHANGED <<firebase, store, mode, watches, bounds>>

(* permanentDeleteError: credentials or permissions, account or not.       *)
DeleteRefused ==
  /\ At("delete")
  /\ Decides("auth_delete_failed")
  /\ UNCHANGED <<firebase, store, mode, watches, bounds>>

(* The account is deleted and the answer lost: RetrySequence.              *)
DeleteUnanswered ==
  /\ At("delete")
  /\ account
  /\ Disturb
  /\ account' = FALSE
  /\ work' = Resting
  /\ UNCHANGED <<valid, status, audit, docs, paused, store, mode, watches, outside>>

(* Complete with the Persist cell, one transaction.                        *)
Conclude ==
  /\ At("conclude")
  /\ evaluate' = evaluate \ {work.phase}
  /\ persist' = [persist EXCEPT ![work.phase] = [outcome |-> work.out, real |-> mode = "real"]]
  /\ work' = Resting
  /\ UNCHANGED <<firebase, observed, key, mode, watches, bounds>>

(* PersistOutcome, one Firestore transaction.                              *)
Promoting(o) == status = "dry_run_validated" /\ o.real /\ o.outcome # "dry_run_validated"

(* Mutant: the transaction does not read the status before it writes.      *)
PersistedRegardless(o) ==
  /\ status' = o.outcome
  /\ audit' = [outcome |-> o.outcome, dryRun |-> Promoting(o)]
  /\ event' = IF Running THEN o.outcome ELSE event

Persisted(o) ==
  IF status = "pending" \/ Promoting(o)
  THEN /\ status' = o.outcome
       /\ audit' = [outcome |-> o.outcome, dryRun |-> Promoting(o)]
       /\ event' = IF Running THEN o.outcome ELSE event
  ELSE UNCHANGED <<status, audit, event>>

PersistOutcome ==
  /\ At("commit")
  /\ Persisted(persist[work.phase])
  /\ Goes("complete")
  /\ UNCHANGED <<valid, docs, account, paused, store, mode,
                 watcher, pauseEvent, pauseWatcher, lastPaused, bounds>>

(* The transaction commits and the answer is lost: RetrySequence.          *)
PersistUnanswered ==
  /\ At("commit")
  /\ Disturb
  /\ Persisted(persist[work.phase])
  /\ work' = Resting
  /\ UNCHANGED <<valid, docs, account, paused, store, mode,
                 watcher, pauseEvent, pauseWatcher, lastPaused, outside>>

PersistCompletes ==
  /\ At("complete")
  /\ persist' = [persist EXCEPT ![work.phase] = NoPayload]
  /\ work' = Resting
  /\ UNCHANGED <<firebase, observed, key, evaluate, mode, watches, bounds>>

--------------------------------------------------------------------------------
Environment == Request \/ Scrub \/ SignIn \/ Toggle

Watch == SeeRequest \/ GateRequest \/ EnqueueRequest

WatchPause == SeePause \/ ReadPause \/ GateScan \/ Scan

Handle ==
  \/ ReadStatus
  \/ ReadPaused
  \/ ReadUsers
  \/ ReadPublic
  \/ DeleteUser
  \/ DeleteRefused
  \/ Conclude
  \/ PersistOutcome
  \/ PersistCompletes

Next ==
  \/ Environment
  \/ \E m \in Mode : Start(m)
  \/ Crash
  \/ Watch
  \/ WatchBreaks
  \/ WatchPause
  \/ PauseWatchBreaks
  \/ \E p \in Phase : EmitTruth(p) \/ ClaimEvaluate(p) \/ ClaimPersist(p)
  \/ Handle
  \/ RetryLater
  \/ DeleteUnanswered
  \/ PersistUnanswered

Spec == Init /\ [][Next]_vars

--------------------------------------------------------------------------------
(* Safety.                                                                 *)

TypeOK ==
  /\ valid \in BOOLEAN
  /\ status \in Status
  /\ audit \in Audit
  /\ docs \subseteq Doc
  /\ account \in BOOLEAN
  /\ paused \in BOOLEAN
  /\ observed \subseteq Phase
  /\ key \subseteq Phase
  /\ evaluate \subseteq Phase
  /\ persist \in [Phase -> Payload \cup {NoPayload}]
  /\ mode \in Mode \cup {"down"}
  /\ work \in Work
  /\ event \in Status
  /\ watcher \in {"next", "gate", "enqueue"}
  /\ pauseEvent \in BOOLEAN
  /\ pauseWatcher \in {"next", "read", "gate", "scan"}
  /\ lastPaused \in {"unknown", "paused", "open"}
  /\ outside \in 0..MaxOutside
  /\ disturbed \in 0..MaxDisturb

(* "A request enters auth_deleted only when the desired Firebase           *)
(* Authentication state has been established" (0003-admin-delete.md, 13):  *)
(* lost answers, retries by another phase and restarts with another        *)
(* configuration included.                                                 *)
AuthDeletedIsReal == status = "auth_deleted" => ~account

(* "A stale persistence Cell cannot overwrite a terminal or superseded     *)
(* request" (10), every outcome has its audit (13), and a promotion keeps  *)
(* the evidence of the validation (11): whatever Persist cells of the two  *)
(* phases are repeated or late, status and audit move together, once from  *)
(* pending and once more from dry_run_validated.                           *)
TerminalIsFinal ==
  [][audit' # audit \/ (status' # status /\ status # "none") =>
       /\ status \in {"pending", "dry_run_validated"}
       /\ status' = audit'.outcome
       /\ status' # status
       /\ audit'.dryRun <=> status = "dry_run_validated"]_vars

(* A pending request whose Truth was emitted is never dropped: until it    *)
(* has an outcome each emitted phase has its Evaluate or Persist cell, for *)
(* the key will not let the Truth be emitted again.                        *)
PendingIsServed ==
  status = "pending" => \A p \in key : p \in evaluate \/ persist[p] # NoPayload

(* The inductive invariant behind the three (AdminDeleteProofs).  Where    *)
(* the worker is agrees with the cell it executes, with the process and    *)
(* with the request.                                                       *)
WorkFits ==
  /\ work.job = "none" <=> work.pc = "none"
  /\ work.job # "none" => mode # "down"
  /\ work.pc \in {"status", "paused", "users", "public", "delete", "conclude"} => work.phase \in evaluate
  /\ work.pc = "conclude" => work.out \in Outcome
  /\ work.pc \in {"commit", "complete"} => persist[work.phase] # NoPayload
  /\ work.pc = "complete" => status # "pending"

(* Cells of the service stand for a claimed key, and nothing stands for a  *)
(* request that has not been made.                                         *)
KeyFits ==
  /\ evaluate \subseteq key
  /\ \A p \in Phase : persist[p] # NoPayload => p \in key
  /\ status = "none" => event = "none" /\ watcher = "next" /\ observed = {} /\ key = {}

(* The outcome auth_deleted is true wherever it is kept on its way to the  *)
(* request: in the handler's hand, in the Persist cell, in the document.   *)
DeletedFits ==
  /\ work.pc = "conclude" /\ work.out = "auth_deleted" => ~account
  /\ \A p \in Phase : persist[p].outcome = "auth_deleted" => ~account
  /\ AuthDeletedIsReal

IInv ==
  /\ TypeOK
  /\ WorkFits
  /\ KeyFits
  /\ DeletedFits
  /\ PendingIsServed

--------------------------------------------------------------------------------
(* Liveness.  The process manager starts the application again, watches    *)
(* deliver, and the worker executes what is in the store.                  *)

Fairness ==
  /\ WF_vars(\E m \in Mode : Start(m))
  /\ WF_vars(Watch)
  /\ WF_vars(WatchPause)
  /\ WF_vars(Handle)
  /\ \A p \in Phase : SF_vars(EmitTruth(p) \/ ClaimEvaluate(p) \/ ClaimPersist(p))

FairSpec == Spec /\ Fairness

(* "Clearing the switch makes a pending request eligible for observation   *)
(* again" (4.2): a pending request gets an outcome, once the switch stays  *)
(* open and the service enabled.                                           *)
PendingSettles ==
  <>[](~paused /\ mode # "off") => (status = "pending" ~> status # "pending")

(* "This allows a prior dry-run to be followed by real deletion without    *)
(* changing the request ID" (3.2): once the service stays configured for   *)
(* real deletion a validated request goes on to an outcome of that phase.  *)
PromotionHappens ==
  <>[](~paused /\ mode = "real")
    => (status = "dry_run_validated" ~> status # "dry_run_validated")
================================================================================
