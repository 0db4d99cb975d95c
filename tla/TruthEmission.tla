----------------------------- MODULE TruthEmission -----------------------------
(***************************************************************************)
(* Firebase-backed idempotency: the three-step sequence Check, Populate    *)
(* Remote, Emit Truth, for one identity (listener, event key).             *)
(*                                                                         *)
(* The same document is observed again and again: by listeners that        *)
(* reconnect, after restarts, by several deployments.  Each observation is *)
(* a sequence cell with an owner name of its own (a UUID).  A deployment,  *)
(* or site, has a base database of its own, which holds its cells and its  *)
(* local cache of identities; the Firestore key is shared by all.          *)
(*                                                                         *)
(* A sequence cell behaves as Cellar.tla says: claimed by one worker,      *)
(* executed again at the same step after a crash, its step and the         *)
(* application work of its result moving in one transaction.               *)
(***************************************************************************)
EXTENDS Naturals, FiniteSets

CONSTANTS
  Site,         \* deployments of the application
  Observation,  \* sequence cells, by their owner names
  SiteOf,       \* SiteOf[o]: the deployment that observed o
  NoOwner,      \* "there is no remote key"
  Workers,      \* Config.Workers of each deployment
  MaxDisturb    \* bound: crashes, stops, failed calls and lost databases

ASSUME EmissionConstants ==
  /\ SiteOf \in [Observation -> Site]
  /\ NoOwner \notin Observation
  /\ Workers \in Nat \ {0}
  /\ MaxDisturb \in Nat

VARIABLES
  cell,         \* cell[o]: "new", the step it is at, or "ended"
  run,          \* run[o]: how far the handler executing it is, or "idle"
  process,      \* process[s]: "up", "stopping" or "down"
  local,        \* local[s]: s has the identity in firebase_idempotency_records
  remote,       \* owner of the remote key, or NoOwner
  truths,       \* Truth fanout cells created for the identity
  lost,         \* history: sites that have lost their base database
  disturbed     \* disturbances so far

vars == <<cell, run, process, local, remote, truths, lost, disturbed>>

Steps == {"check", "populate", "emit"}

Here(o) == SiteOf[o]

Busy(s) == {o \in Observation : Here(o) = s /\ run[o] # "idle"}

Goes(o, pc) == run' = [run EXCEPT ![o] = pc]

(* The transaction that settles the claim of o.                            *)
Settles(o, step) == cell' = [cell EXCEPT ![o] = step] /\ Goes(o, "idle")

(* Dispatch returns an error: the cell stays at its step, the site stops.  *)
Errs(o) == Goes(o, "idle") /\ process' = [process EXCEPT ![Here(o)] = "stopping"]

Disturb == disturbed < MaxDisturb /\ disturbed' = disturbed + 1

Init ==
  /\ cell = [o \in Observation |-> "new"]
  /\ run = [o \in Observation |-> "idle"]
  /\ process = [s \in Site |-> "down"]
  /\ local = [s \in Site |-> FALSE]
  /\ remote = NoOwner
  /\ truths = 0
  /\ lost = {}
  /\ disturbed = 0

--------------------------------------------------------------------------------
(* Observing and executing.                                                *)

(* A listener sees the document and adds a sequence cell.  A failed Add is *)
(* only logged: it is this action not being taken.                         *)
Observe(o) ==
  /\ process[Here(o)] # "down"
  /\ cell[o] = "new"
  /\ cell' = [cell EXCEPT ![o] = "check"]
  /\ UNCHANGED <<run, process, local, remote, truths, lost, disturbed>>

Claim(o) ==
  /\ process[Here(o)] = "up"
  /\ cell[o] \in Steps
  /\ run[o] = "idle"
  /\ Cardinality(Busy(Here(o))) < Workers
  /\ Goes(o, cell[o])
  /\ UNCHANGED <<cell, process, local, remote, truths, lost, disturbed>>

(* A handler's call fails, or its transaction does.                        *)
Fail(o) ==
  /\ run[o] # "idle"
  /\ Disturb
  /\ Errs(o)
  /\ UNCHANGED <<cell, local, remote, truths, lost>>

Stop(s) ==
  /\ process[s] = "up"
  /\ Disturb
  /\ process' = [process EXCEPT ![s] = "stopping"]
  /\ UNCHANGED <<cell, run, local, remote, truths, lost>>

Exit(s) ==
  /\ process[s] = "stopping"
  /\ Busy(s) = {}
  /\ process' = [process EXCEPT ![s] = "down"]
  /\ UNCHANGED <<cell, run, local, remote, truths, lost, disturbed>>

Crash(s) ==
  /\ process[s] # "down"
  /\ Disturb
  /\ process' = [process EXCEPT ![s] = "down"]
  /\ run' = [o \in Observation |-> IF Here(o) = s THEN "idle" ELSE run[o]]
  /\ UNCHANGED <<cell, local, remote, truths, lost>>

Restart(s) ==
  /\ process[s] = "down"
  /\ process' = [process EXCEPT ![s] = "up"]
  /\ UNCHANGED <<cell, run, local, remote, truths, lost, disturbed>>

(* The base database is gone, with its cells and its cache.                *)
LoseDatabase(s) ==
  /\ process[s] = "down"
  /\ Disturb
  /\ local' = [local EXCEPT ![s] = FALSE]
  /\ cell' = [o \in Observation |-> IF Here(o) = s /\ cell[o] # "new" THEN "ended" ELSE cell[o]]
  /\ lost' = lost \cup {s}
  /\ UNCHANGED <<run, process, remote, truths>>

--------------------------------------------------------------------------------
(* Step 1, Check.                                                          *)

(* Mutant: the identity is claimed while it is looked up, outside the      *)
(* transaction that advances the step.                                     *)
CheckLocalClaims(o) ==
  /\ run[o] = "check"
  /\ local' = [local EXCEPT ![Here(o)] = TRUE]
  /\ IF local[Here(o)] THEN Settles(o, "ended") ELSE Goes(o, "remote") /\ UNCHANGED cell
  /\ UNCHANGED <<process, remote, truths, lost, disturbed>>

(* Store.Exists: Kill, or ask the remote.                                  *)
CheckLocal(o) ==
  /\ run[o] = "check"
  /\ IF local[Here(o)] THEN Settles(o, "ended") ELSE Goes(o, "remote") /\ UNCHANGED cell
  /\ UNCHANGED <<process, local, remote, truths, lost, disturbed>>

(* Remote.HasKey: established elsewhere (cache), or to be claimed.         *)
CheckRemote(o) ==
  /\ run[o] = "remote"
  /\ Goes(o, IF remote = NoOwner THEN "claim" ELSE "cache")
  /\ UNCHANGED <<cell, process, local, remote, truths, lost, disturbed>>

(* InsertUnlessExistsWork with Complete, or with Kill.                     *)
CheckApplies(o) ==
  /\ run[o] \in {"claim", "cache"}
  /\ ~local[Here(o)]
  /\ local' = [local EXCEPT ![Here(o)] = TRUE]
  /\ Settles(o, IF run[o] = "claim" THEN "populate" ELSE "ended")
  /\ UNCHANGED <<process, remote, truths, lost, disturbed>>

(* ErrClaimRejected: another worker claimed the identity first.            *)
ClaimRejected(o) ==
  /\ run[o] \in {"claim", "cache"}
  /\ local[Here(o)]
  /\ Errs(o)
  /\ UNCHANGED <<cell, local, remote, truths, lost, disturbed>>

--------------------------------------------------------------------------------
(* Step 2, Populate Remote.                                                *)

(* Mutant: a key that exists is taken for one's own.                       *)
CreateKeyAnyOwner(o) ==
  /\ run[o] = "populate"
  /\ remote' = IF remote = NoOwner THEN o ELSE remote
  /\ Goes(o, "owner")
  /\ UNCHANGED <<cell, process, local, truths, lost, disturbed>>

(* Mutant: a key that exists is taken for another's.                       *)
CreateKeyForgetsOwner(o) ==
  /\ run[o] = "populate"
  /\ remote' = IF remote = NoOwner THEN o ELSE remote
  /\ Goes(o, IF remote = NoOwner THEN "owner" ELSE "foreign")
  /\ UNCHANGED <<cell, process, local, truths, lost, disturbed>>

(* Create the document; when it exists, read whose it is.                  *)
CreateKey(o) ==
  /\ run[o] = "populate"
  /\ remote' = IF remote = NoOwner THEN o ELSE remote
  /\ Goes(o, IF remote' = o THEN "owner" ELSE "foreign")
  /\ UNCHANGED <<cell, process, local, truths, lost, disturbed>>

(* The document was created but the answer is lost.                        *)
CreateKeyUnanswered(o) ==
  /\ run[o] = "populate"
  /\ remote = NoOwner
  /\ remote' = o
  /\ Disturb
  /\ Errs(o)
  /\ UNCHANGED <<cell, local, truths, lost>>

(* Mutant: the sequence goes on to a step that has no handler.             *)
PopulateAppliesAstray(o) ==
  /\ run[o] \in {"owner", "foreign"}
  /\ Settles(o, IF run[o] = "owner" THEN "truth" ELSE "ended")
  /\ UNCHANGED <<process, local, remote, truths, lost, disturbed>>

(* Mutant: the owner's step is retried instead of completed.               *)
PopulateAppliesRetry(o) ==
  /\ run[o] \in {"owner", "foreign"}
  /\ Settles(o, IF run[o] = "owner" THEN "populate" ELSE "ended")
  /\ UNCHANGED <<process, local, remote, truths, lost, disturbed>>

(* Complete for the owner, Kill for any other.                             *)
PopulateApplies(o) ==
  /\ run[o] \in {"owner", "foreign"}
  /\ Settles(o, IF run[o] = "owner" THEN "emit" ELSE "ended")
  /\ UNCHANGED <<process, local, remote, truths, lost, disturbed>>

--------------------------------------------------------------------------------
(* Step 3, Emit Truth: the Truth's fanout cell with the completion.        *)
EmitTruth(o) ==
  /\ run[o] = "emit"
  /\ truths' = truths + 1
  /\ Settles(o, "ended")
  /\ UNCHANGED <<process, local, remote, lost, disturbed>>

--------------------------------------------------------------------------------
Handle(o) ==
  \/ CheckLocal(o)
  \/ CheckRemote(o)
  \/ CheckApplies(o)
  \/ ClaimRejected(o)
  \/ CreateKey(o)
  \/ CreateKeyUnanswered(o)
  \/ PopulateApplies(o)
  \/ EmitTruth(o)

SiteStep(s) == Stop(s) \/ Exit(s) \/ Crash(s) \/ Restart(s) \/ LoseDatabase(s)

Next ==
  \/ \E o \in Observation : Observe(o) \/ Claim(o) \/ Fail(o) \/ Handle(o)
  \/ \E s \in Site : SiteStep(s)

Spec == Init /\ [][Next]_vars

--------------------------------------------------------------------------------
(* Safety.                                                                 *)

TypeOK ==
  /\ cell \in [Observation -> {"new", "ended"} \cup Steps]
  /\ run \in [Observation -> {"idle", "remote", "claim", "cache", "owner", "foreign"} \cup Steps]
  /\ process \in [Site -> {"up", "stopping", "down"}]
  /\ local \in [Site -> BOOLEAN]
  /\ remote \in Observation \cup {NoOwner}
  /\ truths \in Nat
  /\ lost \subseteq Site
  /\ disturbed \in Nat

(* "A particular Truth is emitted for application processing at most once  *)
(* for a particular idempotency key" (CDD-0001, 1): whatever the number of *)
(* observations, deployments and workers, and through crashes, lost        *)
(* answers and lost databases.                                             *)
AtMostOnce == truths <= 1

(* A cached identity is no false alarm: whenever a site would kill an      *)
(* observation because of its local record, the remote key exists or one   *)
(* of the site's own cells is on its way to create it.  Losing a base      *)
(* database takes record and cells together and spoils this at no site.    *)
LocalIsBacked ==
  \A s \in Site : local[s] =>
    remote # NoOwner \/ \E o \in Observation : Here(o) = s /\ cell[o] = "populate"

(* The remote key is a promise: its owner has emitted the Truth or still   *)
(* has the steps to do so before it, also when the answer to CreateKey was *)
(* lost and the step is executed again.  Only losing the base database of  *)
(* the very site that owns the key breaks it.                              *)
RemoteIsServed ==
  remote # NoOwner /\ Here(remote) \notin lost => truths = 1 \/ cell[remote] \in {"populate", "emit"}

(* The inductive invariant behind the three (TruthEmissionProofs): where a *)
(* handler is agrees with its cell's step, no handler outlives its         *)
(* process, and who holds the remote key agrees with who may emit.         *)
StepOf(pc) ==
  CASE pc \in {"check", "remote", "claim", "cache"} -> "check"
    [] pc \in {"populate", "owner", "foreign"}      -> "populate"
    [] pc = "emit"                                  -> "emit"

RunFits ==
  \A o \in Observation : run[o] # "idle" =>
    cell[o] = StepOf(run[o]) /\ process[Here(o)] # "down"

KeyFits ==
  /\ \A o \in Observation : run[o] = "owner" \/ cell[o] = "emit" => remote = o
  /\ \A o \in Observation : run[o] = "foreign" => remote # o
  /\ \A o \in Observation : run[o] \in {"foreign", "cache"} => remote # NoOwner

TruthFits == truths # 0 => truths = 1 /\ remote # NoOwner /\ cell[remote] = "ended"

IInv ==
  /\ TypeOK
  /\ RunFits
  /\ KeyFits
  /\ TruthFits
  /\ LocalIsBacked
  /\ RemoteIsServed

--------------------------------------------------------------------------------
(* Liveness: workers, handlers and process managers go on.                 *)

Fairness ==
  /\ \A o \in Observation : SF_vars(Claim(o)) /\ WF_vars(Handle(o))
  /\ \A s \in Site : WF_vars(Exit(s)) /\ WF_vars(Restart(s))

FairSpec == Spec /\ Fairness

(* An observation that was accepted leads to the Truth, from whichever of  *)
(* the competing sequences, unless a base database is lost.                *)
ObservedIsEmitted ==
  (\E o \in Observation : cell[o] # "new") ~> (truths = 1 \/ lost # {})
================================================================================
