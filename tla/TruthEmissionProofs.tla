-------------------------- MODULE TruthEmissionProofs --------------------------
(***************************************************************************)
(* Proofs that the idempotency sequence emits a Truth at most once, that   *)
(* its local cache raises no false alarm and that a remote key is served,  *)
(* for any number of observations, sites and workers.                      *)
(***************************************************************************)
EXTENDS TruthEmission, TLAPS

(* Facts of KeyFits, TruthFits, LocalIsBacked and RemoteIsServed survive a *)
(* step that changes neither key, cache nor truths, moves no cell of a     *)
(* step beyond "check", and starts no handler at a telling place.          *)
LEMMA QuietStep ==
  ASSUME IInv,
         UNCHANGED <<remote, truths, local, lost>>,
         cell' = cell,
         \A o \in Observation : run'[o] \in {"owner", "foreign", "cache"} => run'[o] = run[o]
  PROVE  KeyFits' /\ TruthFits' /\ LocalIsBacked' /\ RemoteIsServed'
BY DEF IInv, KeyFits, TruthFits, LocalIsBacked, RemoteIsServed, Here

(* A handler that stops, for whatever reason, leaves its cell as it was.   *)
LEMMA ErrsStep ==
  ASSUME IInv, NEW o \in Observation, Errs(o),
         UNCHANGED <<cell, local, remote, truths, lost>>, disturbed' \in Nat
  PROVE  IInv'
<1>1. TypeOK'
  BY EmissionConstants DEF IInv, TypeOK, Errs, Goes, Here
<1>2. RunFits'
  BY EmissionConstants DEF IInv, TypeOK, RunFits, Errs, Goes, Here, StepOf
<1>3. KeyFits' /\ TruthFits' /\ LocalIsBacked' /\ RemoteIsServed'
  BY QuietStep DEF Errs, Goes, IInv, TypeOK
<1> QED BY <1>1, <1>2, <1>3 DEF IInv

LEMMA InitialInvariant == Init => IInv
BY EmissionConstants
   DEF Init, IInv, TypeOK, RunFits, KeyFits, TruthFits, LocalIsBacked, RemoteIsServed, Steps

(* What is not a handler: observations, claims, failures, processes.       *)
LEMMA OutsideSteps ==
  ASSUME IInv,
         \/ \E o \in Observation : Observe(o) \/ Claim(o) \/ Fail(o)
         \/ \E s \in Site : SiteStep(s)
  PROVE  IInv'
<1>1. ASSUME NEW o \in Observation, Observe(o) PROVE IInv'
  <2>1. TypeOK' /\ RunFits'
    BY <1>1 DEF Observe, IInv, TypeOK, RunFits, StepOf, Steps, Here
  <2>2. KeyFits' /\ TruthFits' /\ LocalIsBacked' /\ RemoteIsServed'
    BY <1>1 DEF Observe, IInv, TypeOK, KeyFits, TruthFits, LocalIsBacked, RemoteIsServed, Here
  <2> QED BY <2>1, <2>2 DEF IInv
<1>2. ASSUME NEW o \in Observation, Claim(o) PROVE IInv'
  <2>1. TypeOK' /\ RunFits'
    BY <1>2 DEF Claim, Goes, IInv, TypeOK, RunFits, StepOf, Steps, Here
  <2>2. KeyFits' /\ TruthFits' /\ LocalIsBacked' /\ RemoteIsServed'
    BY <1>2, QuietStep DEF Claim, Goes, IInv, TypeOK, Steps
  <2> QED BY <2>1, <2>2 DEF IInv
<1>3. ASSUME NEW o \in Observation, Fail(o) PROVE IInv'
  BY <1>3, ErrsStep DEF Fail, Disturb, IInv, TypeOK
<1>4. ASSUME NEW s \in Site, Stop(s) \/ Exit(s) \/ Restart(s) PROVE IInv'
  <2>1. TypeOK'
    BY <1>4 DEF Stop, Exit, Restart, Disturb, IInv, TypeOK
  <2>2. RunFits'
    BY <1>4, EmissionConstants
       DEF Stop, Exit, Restart, Busy, IInv, TypeOK, RunFits, StepOf, Here
  <2>3. KeyFits' /\ TruthFits' /\ LocalIsBacked' /\ RemoteIsServed'
    BY <1>4, QuietStep DEF Stop, Exit, Restart
  <2> QED BY <2>1, <2>2, <2>3 DEF IInv
<1>5. ASSUME NEW s \in Site, Crash(s) PROVE IInv'
  <2>1. TypeOK'
    BY <1>5 DEF Crash, Disturb, IInv, TypeOK, Here
  <2>2. RunFits'
    BY <1>5, EmissionConstants DEF Crash, IInv, TypeOK, RunFits, StepOf, Here
  <2>3. KeyFits' /\ TruthFits' /\ LocalIsBacked' /\ RemoteIsServed'
    BY <1>5, QuietStep DEF Crash
  <2> QED BY <2>1, <2>2, <2>3 DEF IInv
<1>6. ASSUME NEW s \in Site, LoseDatabase(s) PROVE IInv'
  <2>1. TypeOK'
    BY <1>6 DEF LoseDatabase, Disturb, IInv, TypeOK, Here
  <2>2. RunFits'
    BY <1>6 DEF LoseDatabase, IInv, TypeOK, RunFits, StepOf, Here
  <2>3. KeyFits' /\ TruthFits'
    BY <1>6 DEF LoseDatabase, IInv, TypeOK, KeyFits, TruthFits, Here
  <2>4. LocalIsBacked' /\ RemoteIsServed'
    BY <1>6 DEF LoseDatabase, IInv, TypeOK, LocalIsBacked, RemoteIsServed, Here
  <2> QED BY <2>1, <2>2, <2>3, <2>4 DEF IInv
<1> QED BY <1>1, <1>2, <1>3, <1>4, <1>5, <1>6 DEF SiteStep

(* The three steps of the sequence.                                        *)
LEMMA HandlerSteps ==
  ASSUME IInv, NEW o \in Observation, Handle(o)
  PROVE  IInv'
<1>1. CASE CheckLocal(o)
  <2>1. TypeOK' /\ RunFits'
    BY <1>1 DEF CheckLocal, Settles, Goes, IInv, TypeOK, RunFits, StepOf, Steps, Here
  <2>2. KeyFits' /\ TruthFits' /\ LocalIsBacked' /\ RemoteIsServed'
    BY <1>1 DEF CheckLocal, Settles, Goes, IInv, TypeOK, RunFits, StepOf, KeyFits, TruthFits,
                LocalIsBacked, RemoteIsServed, Here
  <2> QED BY <2>1, <2>2 DEF IInv
<1>2. CASE CheckRemote(o)
  <2>1. TypeOK' /\ RunFits'
    BY <1>2 DEF CheckRemote, Goes, IInv, TypeOK, RunFits, StepOf, Steps, Here
  <2>2. KeyFits' /\ TruthFits' /\ LocalIsBacked' /\ RemoteIsServed'
    BY <1>2 DEF CheckRemote, Goes, IInv, TypeOK, KeyFits, TruthFits, LocalIsBacked, RemoteIsServed, Here
  <2> QED BY <2>1, <2>2 DEF IInv
<1>3. CASE CheckApplies(o)
  <2>1. TypeOK' /\ RunFits'
    BY <1>3, EmissionConstants
       DEF CheckApplies, Settles, Goes, IInv, TypeOK, RunFits, StepOf, Steps, Here
  <2>2. KeyFits' /\ TruthFits' /\ RemoteIsServed'
    BY <1>3 DEF CheckApplies, Settles, Goes, IInv, TypeOK, RunFits, StepOf, KeyFits, TruthFits,
                RemoteIsServed
  <2>3. LocalIsBacked'
    BY <1>3, EmissionConstants
       DEF CheckApplies, Settles, Goes, IInv, TypeOK, RunFits, StepOf, KeyFits, LocalIsBacked, Here
  <2> QED BY <2>1, <2>2, <2>3 DEF IInv
<1>4. CASE ClaimRejected(o)
  BY <1>4, ErrsStep DEF ClaimRejected, IInv, TypeOK
<1>5. CASE CreateKey(o)
  <2>1. TypeOK' /\ RunFits'
    BY <1>5 DEF CreateKey, Goes, IInv, TypeOK, RunFits, StepOf, Steps, Here
  <2>2. KeyFits'
    BY <1>5, EmissionConstants DEF CreateKey, Goes, IInv, TypeOK, KeyFits
  <2>3. TruthFits' /\ LocalIsBacked' /\ RemoteIsServed'
    BY <1>5, EmissionConstants
       DEF CreateKey, Goes, IInv, TypeOK, RunFits, StepOf, TruthFits, LocalIsBacked, RemoteIsServed, Here
  <2> QED BY <2>1, <2>2, <2>3 DEF IInv
<1>6. CASE CreateKeyUnanswered(o)
  <2>1. TypeOK'
    <3>1. run' \in [Observation -> {"idle", "remote", "claim", "cache", "owner", "foreign"} \cup Steps]
      BY <1>6 DEF CreateKeyUnanswered, Errs, Goes, IInv, TypeOK
    <3>2. process' \in [Site -> {"up", "stopping", "down"}]
      BY <1>6, EmissionConstants DEF CreateKeyUnanswered, Errs, IInv, TypeOK, Here
    <3>3. disturbed' \in Nat
      BY <1>6, EmissionConstants DEF CreateKeyUnanswered, Disturb, IInv, TypeOK
    <3> QED BY <1>6, <3>1, <3>2, <3>3 DEF CreateKeyUnanswered, IInv, TypeOK
  <2>2. RunFits'
    BY <1>6, EmissionConstants
       DEF CreateKeyUnanswered, Errs, Goes, IInv, TypeOK, RunFits, StepOf, Here
  <2>3. KeyFits'
    BY <1>6, EmissionConstants DEF CreateKeyUnanswered, Errs, Goes, IInv, TypeOK, KeyFits
  <2>4. TruthFits' /\ LocalIsBacked' /\ RemoteIsServed'
    BY <1>6, EmissionConstants
       DEF CreateKeyUnanswered, Errs, Goes, IInv, TypeOK, RunFits, StepOf, TruthFits,
           LocalIsBacked, RemoteIsServed, Here
  <2> QED BY <2>1, <2>2, <2>3, <2>4 DEF IInv
<1>7. CASE PopulateApplies(o)
  <2>1. TypeOK' /\ RunFits'
    BY <1>7 DEF PopulateApplies, Settles, Goes, IInv, TypeOK, RunFits, StepOf, Steps, Here
  <2>2. KeyFits'
    BY <1>7 DEF PopulateApplies, Settles, Goes, IInv, TypeOK, KeyFits
  <2>3. TruthFits' /\ RemoteIsServed'
    BY <1>7 DEF PopulateApplies, Settles, Goes, IInv, TypeOK, RunFits, StepOf, KeyFits, TruthFits,
                RemoteIsServed
  <2>4. LocalIsBacked'
    BY <1>7, EmissionConstants
       DEF PopulateApplies, Settles, Goes, IInv, TypeOK, KeyFits, LocalIsBacked, Here
  <2> QED BY <2>1, <2>2, <2>3, <2>4 DEF IInv
<1>8. CASE EmitTruth(o)
  <2>1. cell[o] = "emit" /\ remote = o /\ truths = 0
    BY <1>8 DEF EmitTruth, IInv, TypeOK, RunFits, StepOf, KeyFits, TruthFits
  <2>2. TypeOK' /\ RunFits'
    BY <1>8 DEF EmitTruth, Settles, Goes, IInv, TypeOK, RunFits, StepOf, Steps, Here
  <2>3. KeyFits' /\ TruthFits' /\ LocalIsBacked' /\ RemoteIsServed'
    BY <1>8, <2>1, EmissionConstants
       DEF EmitTruth, Settles, Goes, IInv, TypeOK, KeyFits, TruthFits, LocalIsBacked,
           RemoteIsServed, Here
  <2> QED BY <2>2, <2>3 DEF IInv
<1> QED BY <1>1, <1>2, <1>3, <1>4, <1>5, <1>6, <1>7, <1>8 DEF Handle

LEMMA Stutter == IInv /\ UNCHANGED vars => IInv'
BY DEF IInv, vars, TypeOK, RunFits, KeyFits, TruthFits, LocalIsBacked, RemoteIsServed, Here

LEMMA InductiveInvariant == Spec => []IInv
<1>1. IInv /\ [Next]_vars => IInv'
  BY OutsideSteps, HandlerSteps, Stutter DEF Next
<1> QED BY <1>1, InitialInvariant, PTL DEF Spec

(* Whatever steps the deployments take, the cells, the handlers, both      *)
(* records of the key and the emitted Truths keep the forms the code gives *)
(* them.                                                                   *)
THEOREM TypeCorrect == Spec => []TypeOK
<1>1. IInv => TypeOK
  BY DEF IInv
<1> QED BY <1>1, InductiveInvariant, PTL

(* However many observations, deployments and workers compete, and through *)
(* crashes, lost answers and lost databases, the Truth of one idempotency  *)
(* key is emitted at most once.                                            *)
THEOREM EmittedAtMostOnce == Spec => []AtMostOnce
<1>1. IInv => AtMostOnce
  BY DEF IInv, TypeOK, TruthFits, AtMostOnce
<1> QED BY <1>1, InductiveInvariant, PTL

(* An observation is only ever killed for a key that exists or is being    *)
(* created by a cell of the same site, through crashes, lost answers and   *)
(* lost databases.                                                         *)
THEOREM CacheIsBacked == Spec => []LocalIsBacked
<1>1. IInv => LocalIsBacked
  BY DEF IInv
<1> QED BY <1>1, InductiveInvariant, PTL

(* Unless its own site's base database is lost, the owner of a remote key  *)
(* has emitted the Truth or is still at a step that leads there.           *)
THEOREM KeyIsServed == Spec => []RemoteIsServed
<1>1. IInv => RemoteIsServed
  BY DEF IInv
<1> QED BY <1>1, InductiveInvariant, PTL
================================================================================
