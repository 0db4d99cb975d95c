----------------------------- MODULE DurableEmail ------------------------------
(***************************************************************************)
(* Durable email delivery: one idempotency token, its recipients' progress *)
(* rows, the Send sequences that carry the token (Setup, Recovery, Post),  *)
(* the recovery fanout and its Verify cells, the provider at the far end   *)
(* of an unreliable request, and delivery events from its webhooks.        *)
(*                                                                         *)
(* Cells are Cellar's: claimed by a bounded number of workers, executed    *)
(* again at the same step after a crash, settled in one transaction with   *)
(* the application work of the result (Cellar.tla).  Rows of different     *)
(* tokens never meet: every statement selects one token.                   *)
(*                                                                         *)
(* A handler's database read is a step of its own where what it read is    *)
(* used after other steps may have come between; a read whose result only  *)
(* moves the handler's own cell is merged with the transaction that does.  *)
(*                                                                         *)
(* Time: ripe says that VerifyDelay has passed since submitted_at, and a   *)
(* NotBefore deadline is the set of recipients whose delay is still on.    *)
(***************************************************************************)
EXTENDS Naturals, FiniteSets

CONSTANTS
  Recipient,   \* the recipients of the request
  Op,          \* Send sequences with this token
  Content,     \* Content[c]: the immutable request that sequence c carries
  FanoutID,    \* identifiers of recovery fanout cells (bound: recoveries at once)
  Workers,     \* Config.Workers
  Settles,     \* TRUE: VerifyDelay after submitted_at the request has gone out, the
               \* provider has taken or lost it, and its log shows which
  Event,       \* delivery events that the webhook reports
  MaxSends,    \* bound: submission attempts
  MaxDisturb   \* bound: crashes, stops, failed calls and uncertain requests

ASSUME EmailConstants ==
  /\ IsFiniteSet(Recipient)
  /\ IsFiniteSet(Op)
  /\ Op \cap FanoutID = {}
  /\ (Op \cup FanoutID) \cap (FanoutID \X Recipient) = {}
  /\ \A c \in Op : Content[c] # "none"
  /\ Workers \in Nat \ {0}
  /\ Settles \in BOOLEAN
  /\ Event \subseteq {"Sent", "SoftBounce", "ProxyOpen", "Delivered", "HumanOpen", "Click",
                      "SpamComplaint", "HardBounce"}
  /\ MaxSends \in Nat
  /\ MaxDisturb \in Nat

VerifyCell == FanoutID \X Recipient

Cells == Op \cup FanoutID \cup VerifyCell

VARIABLES
  (* durable *)
  row,         \* row[r]: recipient r's line of email_progress
  request,     \* the stored request, or "none"
  cell,        \* cell[c]: the step that cell c is at, or "absent"
  due,         \* due[c]: recipients whose delay keeps c from being claimed
  (* the process *)
  process,     \* "down", "up", "stopping"
  run,         \* run[c]: the handler executing cell c
  (* the provider *)
  wire,        \* requests neither taken nor lost
  mail,        \* mail[r]: messages to r that the provider accepted
  (* history and bounds *)
  suppressed,  \* recipients settled by a best-effort decision
  sends,       \* submission attempts so far
  disturbed    \* disturbances so far

durable == <<row, request, cell, due>>
provider == <<wire, mail, sends>>
vars == <<durable, process, run, provider, suppressed, disturbed>>

--------------------------------------------------------------------------------
(* email_progress.  Before Setup there is no row.                          *)

Unsure == {"Recovery", "RecoveryWaiting"}

Evidence == {"Sent", "Delivered", "Opened", "Clicked", "SpamComplaint", "HardBounced"}

State == {"none", "Pending", "Accepted", "Refused"} \cup Unsure \cup Evidence

Row == [state: State, submitted: BOOLEAN, ripe: BOOLEAN]

NoRow == [state |-> "none", submitted |-> FALSE, ripe |-> FALSE]

InState(s) == {r \in Recipient : row[r].state = s}

(* UPDATE email_progress SET state = s WHERE recipient IN rs.              *)
SetState(rs, s) == row' = [r \in Recipient |-> IF r \in rs THEN [row[r] EXCEPT !.state = s] ELSE row[r]]

(* Pending rows with a submission time: what recoverWork and               *)
(* RecoverSubmissions select.                                              *)
Interrupted == {r \in InState("Pending") : row[r].submitted}

Advanced(s, target) == IF s \in {"Pending", "Accepted"} \cup Unsure THEN target ELSE s

(* Mutant: reports get a state that no other statement knows.              *)
EventStateUnknown(s, e) == Advanced(s, "Reported")

(* Mutant: a soft bounce makes the recipient eligible again.               *)
EventStateRetries(s, e) == IF e = "SoftBounce" THEN "Pending" ELSE Advanced(s, "Sent")

(* eventState: what event e makes of state s.                              *)
EventState(s, e) ==
  CASE s \in {"Refused", "HardBounced", "SpamComplaint"} -> s
    [] e \in {"Sent", "SoftBounce", "ProxyOpen"}         -> Advanced(s, "Sent")
    [] e = "Delivered"     -> IF s = "Sent" THEN "Delivered" ELSE Advanced(s, "Delivered")
    [] e = "HumanOpen"     -> IF s \in {"Sent", "Delivered"} THEN "Opened" ELSE Advanced(s, "Opened")
    [] e = "Click"         -> IF s \in {"Sent", "Delivered", "Opened"} THEN "Clicked"
                              ELSE Advanced(s, "Clicked")
    [] e = "SpamComplaint" -> "SpamComplaint"
    [] e = "HardBounce"    -> IF s \in {"Clicked", "Opened", "Delivered"} THEN s ELSE "HardBounced"

--------------------------------------------------------------------------------
Idle == [pc |-> "idle", to |-> {}, n |-> 0]

Busy == {c \in Cells : run[c].pc # "idle"}

(* The handler of c goes on with pc, holding the recipients to.            *)
Goes(c, pc, to) == run' = [run EXCEPT ![c].pc = pc, ![c].to = to]

Finishes(c) == run' = [run EXCEPT ![c] = Idle]

At(c, pc) == c \in Cells /\ run[c].pc = pc

Disturb == disturbed < MaxDisturb /\ disturbed' = disturbed + 1

Init ==
  /\ row = [r \in Recipient |-> NoRow]
  /\ request = "none"
  /\ cell = [c \in Cells |-> "absent"]
  /\ due = [c \in Cells |-> {}]
  /\ process = "down"
  /\ run = [c \in Cells |-> Idle]
  /\ wire = {}
  /\ mail = [r \in Recipient |-> 0]
  /\ suppressed = {}
  /\ sends = 0
  /\ disturbed = 0

--------------------------------------------------------------------------------
(* The process and its Cellar.                                             *)

(* The application adds a Send sequence.                                   *)
AddSend(c) ==
  /\ process = "up"
  /\ cell[c] = "absent"
  /\ run[c] = Idle
  /\ cell' = [cell EXCEPT ![c] = "setup"]
  /\ due' = [due EXCEPT ![c] = {}]
  /\ UNCHANGED <<row, request, process, run, provider, suppressed, disturbed>>

Claim(c) ==
  /\ process = "up"
  /\ cell[c] # "absent"
  /\ run[c] = Idle
  /\ due[c] = {}
  /\ Cardinality(Busy) < Workers
  /\ Goes(c, cell[c], {})
  /\ UNCHANGED <<durable, process, provider, suppressed, disturbed>>

(* A handler returns ErrorResult, or its transaction fails and rolls back: *)
(* the cell stays claimed and the runtime stops.  An error of              *)
(* EmailClient.Send is not among them.                                     *)
Fail(c) ==
  /\ c \in Busy
  /\ run[c].pc # "sending"
  /\ Disturb
  /\ Finishes(c)
  /\ process' = "stopping"
  /\ UNCHANGED <<durable, provider, suppressed>>

Stop ==
  /\ process = "up"
  /\ Disturb
  /\ process' = "stopping"
  /\ UNCHANGED <<durable, run, provider, suppressed>>

Exit ==
  /\ process = "stopping"
  /\ Busy = {}
  /\ process' = "down"
  /\ UNCHANGED <<durable, run, provider, suppressed, disturbed>>

Crash ==
  /\ process # "down"
  /\ Disturb
  /\ process' = "down"
  /\ run' = [c \in Cells |-> Idle]
  /\ UNCHANGED <<durable, provider, suppressed>>

(* Mutant: Run does not call RecoverSubmissions.                           *)
RestartWithoutRecovery ==
  /\ process = "down"
  /\ process' = "up"
  /\ UNCHANGED <<durable, run, provider, suppressed, disturbed>>

(* App.Run: RecoverSubmissions, then Cellar.Start.                         *)
Restart ==
  /\ process = "down"
  /\ process' = "up"
  /\ SetState(Interrupted, "Recovery")
  /\ UNCHANGED <<request, cell, due, run, provider, suppressed, disturbed>>

--------------------------------------------------------------------------------
(* Setup.                                                                  *)

(* insertRequestWork: insert the rows, or find the same request stored.    *)
Setup(c) ==
  /\ At(c, "setup")
  /\ request \in {"none", Content[c]}
  /\ request' = Content[c]
  /\ IF request = "none" THEN SetState(Recipient, "Pending") ELSE UNCHANGED row
  /\ cell' = [cell EXCEPT ![c] = "recovery"]
  /\ Finishes(c)
  /\ UNCHANGED <<due, process, provider, suppressed, disturbed>>

(* The token is taken by another request: the transaction fails.           *)
SetupConflicts(c) ==
  /\ At(c, "setup")
  /\ request \notin {"none", Content[c]}
  /\ Finishes(c)
  /\ process' = "stopping"
  /\ UNCHANGED <<durable, provider, suppressed, disturbed>>

--------------------------------------------------------------------------------
(* Recovery, its fanout and the Verify cells.                              *)

ReadCandidates(c) ==
  /\ At(c, "recovery")
  /\ IF InState("Recovery") = {} THEN Goes(c, "noCandidates", {})
                                 ELSE Goes(c, "expand", InState("Recovery"))
  /\ UNCHANGED <<durable, process, provider, suppressed, disturbed>>

(* Retry in a second while recipients are waiting, else Complete.          *)
ReadWaiting(c) ==
  /\ At(c, "noCandidates")
  /\ cell' = IF InState("RecoveryWaiting") = {} THEN [cell EXCEPT ![c] = "post"] ELSE cell
  /\ due' = IF InState("RecoveryWaiting") = {} THEN due ELSE [due EXCEPT ![c] = {}]
  /\ Finishes(c)
  /\ UNCHANGED <<row, request, process, provider, suppressed, disturbed>>

(* A new identifier: neither the cell nor a child of it exists.            *)
Unused(f) ==
  /\ f \in FanoutID
  /\ cell[f] = "absent"
  /\ \A r \in Recipient : cell[<<f, r>>] = "absent"

Unripe(rs) == {r \in rs : ~row[r].ripe}

(* Mutant: the Retry of Recovery forgets its child cell.                   *)
ExpandWithoutFanout(c, f) ==
  /\ At(c, "expand")
  /\ Unused(f)
  /\ SetState(InState("Recovery"), "RecoveryWaiting")
  /\ due' = [due EXCEPT ![c] = Unripe(run[c].to)]
  /\ Finishes(c)
  /\ UNCHANGED <<request, cell, process, provider, suppressed, disturbed>>

(* Retry at the last deadline, with the fanout cell due at that time and   *)
(* waitWork, in one transaction.                                           *)
Expand(c, f) ==
  /\ At(c, "expand")
  /\ Unused(f)
  /\ SetState(InState("Recovery"), "RecoveryWaiting")
  /\ cell' = [cell EXCEPT ![f] = "fanout"]
  /\ due' = [due EXCEPT ![c] = Unripe(run[c].to), ![f] = Unripe(run[c].to)]
  /\ Finishes(c)
  /\ UNCHANGED <<request, process, provider, suppressed, disturbed>>

FanoutReads(f) ==
  /\ At(f, "fanout")
  /\ Goes(f, "children", InState("RecoveryWaiting"))
  /\ UNCHANGED <<durable, process, provider, suppressed, disturbed>>

FanoutCompletes(f) ==
  LET kids == {f} \X run[f].to
  IN  /\ At(f, "children")
      /\ cell' = [c \in Cells |-> IF c = f THEN "absent"
                                  ELSE IF c \in kids THEN "verify" ELSE cell[c]]
      /\ due' = [c \in Cells |-> IF c = f \/ c \in kids THEN {} ELSE due[c]]
      /\ Finishes(f)
      /\ UNCHANGED <<row, request, process, provider, suppressed, disturbed>>

(* The recipient is no longer waiting: nothing to verify.                  *)
VerifyNotNeeded(v) ==
  /\ At(v, "verify")
  /\ row[v[2]].state # "RecoveryWaiting"
  /\ cell' = [cell EXCEPT ![v] = "absent"]
  /\ Finishes(v)
  /\ UNCHANGED <<row, request, due, process, provider, suppressed, disturbed>>

(* What the provider's log may show of r's message: never one that was not *)
(* accepted; whether it shows every one is what Settles says.              *)
LogShows(r) == {found \in BOOLEAN : /\ found => mail[r] > 0
                                    /\ Settles /\ mail[r] > 0 => found}

(* EmailVerifier.Verify.  A query that fails is an error that ends the run *)
(* (Fail), as is a second message in Mailtrap's log.                       *)
Verify(v) ==
  /\ At(v, "verify")
  /\ row[v[2]].state = "RecoveryWaiting"
  /\ \E found \in LogShows(v[2]) : Goes(v, IF found THEN "found" ELSE "missing", {})
  /\ UNCHANGED <<durable, process, provider, suppressed, disturbed>>

(* Mutant: an absent message counts as accepted.                           *)
VerifyCompletesAccepted(v) ==
  LET r == v[2]
  IN  /\ At(v, "found") \/ At(v, "missing")
      /\ row' = IF row[r].state # "RecoveryWaiting" THEN row
                ELSE [row EXCEPT ![r].state = "Accepted"]
      /\ cell' = [cell EXCEPT ![v] = "absent"]
      /\ Finishes(v)
      /\ UNCHANGED <<request, due, process, provider, suppressed, disturbed>>

(* acceptRecoveredWork or absentWork, with the cell's completion.          *)
VerifyCompletes(v) ==
  LET r == v[2]
  IN  /\ At(v, "found") \/ At(v, "missing")
      /\ row' = IF row[r].state # "RecoveryWaiting" THEN row
                ELSE IF run[v].pc = "found" THEN [row EXCEPT ![r].state = "Accepted"]
                ELSE [row EXCEPT ![r] = [NoRow EXCEPT !.state = "Pending"]]
      /\ cell' = [cell EXCEPT ![v] = "absent"]
      /\ Finishes(v)
      /\ UNCHANGED <<request, due, process, provider, suppressed, disturbed>>

--------------------------------------------------------------------------------
(* Post.                                                                   *)

(* Mutant: Post does not ask whether recipients are unresolved.            *)
ReadUnresolvedNot(c) ==
  /\ At(c, "post")
  /\ Goes(c, "clear", {})
  /\ UNCHANGED <<durable, process, provider, suppressed, disturbed>>

(* hasUnresolved: RetrySequence from Setup, or go on.                      *)
ReadUnresolved(c) ==
  /\ At(c, "post")
  /\ \/ /\ InState("Recovery") \cup InState("RecoveryWaiting") # {}
        /\ cell' = [cell EXCEPT ![c] = "setup"]
        /\ due' = [due EXCEPT ![c] = {}]
        /\ Finishes(c)
     \/ /\ InState("Recovery") \cup InState("RecoveryWaiting") = {}
        /\ Goes(c, "clear", {})
        /\ UNCHANGED <<cell, due>>
  /\ UNCHANGED <<row, request, process, provider, suppressed, disturbed>>

ReadPending(c) ==
  /\ At(c, "clear")
  /\ \/ /\ InState("Pending") = {}
        /\ cell' = [cell EXCEPT ![c] = "absent"]
        /\ Finishes(c)
     \/ /\ InState("Pending") # {}
        /\ Goes(c, "policy", InState("Pending"))
        /\ UNCHANGED cell
  /\ UNCHANGED <<row, request, due, process, provider, suppressed, disturbed>>

(* The policy or the guard asks for a delay: Retry.                        *)
Defer(c) ==
  /\ At(c, "policy")
  /\ due' = [due EXCEPT ![c] = {}]
  /\ Finishes(c)
  /\ UNCHANGED <<row, request, cell, process, provider, suppressed, disturbed>>

AllUntouched(rs) == \A r \in rs : row[r].state = "Pending" /\ ~row[r].submitted

(* Mutant: the provider is called before acceptance is committed.          *)
BestEffortUnrecorded(c) ==
  /\ At(c, "policy")
  /\ AllUntouched(run[c].to)
  /\ suppressed' = suppressed \cup run[c].to
  /\ Goes(c, "besteffort", run[c].to)
  /\ UNCHANGED <<durable, process, provider, disturbed>>

(* acceptBestEffort, a transaction of its own before the non-live send.    *)
BestEffort(c) ==
  /\ At(c, "policy")
  /\ AllUntouched(run[c].to)
  /\ SetState(run[c].to, "Accepted")
  /\ suppressed' = suppressed \cup run[c].to
  /\ Goes(c, "besteffort", run[c].to)
  /\ UNCHANGED <<request, cell, due, process, provider, disturbed>>

BestEffortRefused(c) ==
  /\ At(c, "policy")
  /\ ~AllUntouched(run[c].to)
  /\ Finishes(c)
  /\ process' = "stopping"
  /\ UNCHANGED <<durable, provider, suppressed, disturbed>>

(* The non-live client has returned, whatever it returned.                 *)
BestEffortCompletes(c) ==
  /\ At(c, "besteffort")
  /\ cell' = [cell EXCEPT ![c] = "absent"]
  /\ Finishes(c)
  /\ UNCHANGED <<row, request, due, process, provider, suppressed, disturbed>>

(* markSubmitted: every row that is Pending now, listed or not.            *)
MarkSubmitted(c) ==
  /\ At(c, "policy")
  /\ sends < MaxSends
  /\ row' = [r \in Recipient |-> IF row[r].state = "Pending"
                                 THEN [row[r] EXCEPT !.submitted = TRUE, !.ripe = FALSE]
                                 ELSE row[r]]
  /\ sends' = sends + 1
  /\ run' = [run EXCEPT ![c].pc = "marked", ![c].n = sends']
  /\ UNCHANGED <<request, cell, due, process, wire, mail, suppressed, disturbed>>

(* EmailClient.Send puts one request on the wire.                          *)
Send(c) ==
  /\ At(c, "marked")
  /\ wire' = wire \cup {[n |-> run[c].n, from |-> c, to |-> run[c].to]}
  /\ Goes(c, "sending", run[c].to)
  /\ UNCHANGED <<durable, process, mail, sends, suppressed, disturbed>>

(* Mutant: acceptWork sets the state unconditionally.                      *)
AcceptRegardless(c) ==
  /\ At(c, "accepted")
  /\ SetState(run[c].to, "Accepted")
  /\ cell' = [cell EXCEPT ![c] = "absent"]
  /\ Finishes(c)
  /\ UNCHANGED <<request, due, process, provider, suppressed, disturbed>>

(* Complete with acceptWork for every recipient of the request.            *)
Accept(c) ==
  /\ At(c, "accepted")
  /\ SetState(run[c].to \cap InState("Pending"), "Accepted")
  /\ cell' = [cell EXCEPT ![c] = "absent"]
  /\ Finishes(c)
  /\ UNCHANGED <<request, due, process, provider, suppressed, disturbed>>

(* RetrySequence with recoverWork.                                         *)
Recover(c) ==
  /\ At(c, "uncertain")
  /\ SetState(Interrupted, "Recovery")
  /\ cell' = [cell EXCEPT ![c] = "setup"]
  /\ due' = [due EXCEPT ![c] = {}]
  /\ Finishes(c)
  /\ UNCHANGED <<request, process, provider, suppressed, disturbed>>

--------------------------------------------------------------------------------
(* The provider, the network and the clock.                                *)

Awaited(q) == run[q.from].pc = "sending" /\ run[q.from].n = q.n

(* Send returns without an error only when every recipient has an          *)
(* identifier.                                                             *)
Identified(q, S) == S = q.to

(* The provider takes request q for the recipients S, or it is lost for    *)
(* all of them (S empty); the client hears of it if it still waits, with   *)
(* an identifier for every recipient (ok) or with an error, a short or an  *)
(* incomplete answer.                                                      *)
Deliver(q, S, ok) ==
  /\ ok => Identified(q, S) /\ Awaited(q)
  /\ IF Awaited(q) /\ ~ok THEN Disturb ELSE UNCHANGED disturbed
  /\ wire' = wire \ {q}
  /\ mail' = [r \in Recipient |-> IF r \in S THEN mail[r] + 1 ELSE mail[r]]
  /\ IF Awaited(q) THEN Goes(q.from, IF ok THEN "accepted" ELSE "uncertain", q.to)
                   ELSE UNCHANGED run
  /\ UNCHANGED <<durable, process, sends, suppressed>>

(* The client times out or is cancelled while the request is on its way.   *)
SendTimesOut(c) ==
  /\ At(c, "sending")
  /\ Disturb
  /\ Goes(c, "uncertain", run[c].to)
  /\ UNCHANGED <<durable, process, provider, suppressed>>

(* VerifyDelay has passed since r was submitted: deadlines are over, also  *)
(* those computed for a submission that the row has meanwhile forgotten.   *)
DelayPasses(r) ==
  /\ (row[r].submitted /\ ~row[r].ripe) \/ \E c \in Cells : r \in due[c]
  /\ Settles => /\ \A q \in wire : r \notin q.to
                /\ \A c \in Op : ~(At(c, "marked") /\ r \in run[c].to)
  /\ row' = [row EXCEPT ![r].ripe = row[r].submitted]
  /\ due' = [c \in Cells |-> due[c] \ {r}]
  /\ UNCHANGED <<request, cell, process, run, provider, suppressed, disturbed>>

(* RecordEvent: the provider reports on a message it accepted.             *)
RecordEvent(r, e) ==
  /\ process # "down"
  /\ mail[r] > 0
  /\ row' = [row EXCEPT ![r].state = EventState(@, e)]
  /\ UNCHANGED <<request, cell, due, process, run, provider, suppressed, disturbed>>

--------------------------------------------------------------------------------
Handle(c) ==
  \/ Setup(c)
  \/ SetupConflicts(c)
  \/ ReadCandidates(c)
  \/ ReadWaiting(c)
  \/ \E f \in FanoutID : Expand(c, f)
  \/ FanoutReads(c)
  \/ FanoutCompletes(c)
  \/ c \in VerifyCell /\ (VerifyNotNeeded(c) \/ Verify(c) \/ VerifyCompletes(c))
  \/ ReadUnresolved(c)
  \/ ReadPending(c)
  \/ Defer(c)
  \/ BestEffort(c)
  \/ BestEffortRefused(c)
  \/ BestEffortCompletes(c)
  \/ MarkSubmitted(c)
  \/ Send(c)
  \/ Accept(c)
  \/ Recover(c)

Network ==
  \/ \E q \in wire : \E S \in SUBSET q.to, ok \in BOOLEAN : Deliver(q, S, ok)
  \/ \E c \in Op : SendTimesOut(c)

Next ==
  \/ \E c \in Op : AddSend(c)
  \/ \E c \in Cells : Claim(c) \/ Fail(c) \/ Handle(c)
  \/ Stop
  \/ Exit
  \/ Crash
  \/ Restart
  \/ Network
  \/ \E r \in Recipient : DelayPasses(r)
  \/ \E r \in Recipient, e \in Event : RecordEvent(r, e)

Spec == Init /\ [][Next]_vars

--------------------------------------------------------------------------------
(* Safety.                                                                 *)

Pc == {"idle", "setup", "recovery", "noCandidates", "expand", "fanout", "children", "verify", "found",
       "missing", "post", "clear", "policy", "besteffort", "marked", "sending", "accepted", "uncertain"}

Handling == [pc: Pc, to: SUBSET Recipient, n: 0..MaxSends]

TypeOK ==
  /\ row \in [Recipient -> Row]
  /\ cell \in [Cells -> {"absent", "setup", "recovery", "post", "fanout", "verify"}]
  /\ due \in [Cells -> SUBSET Recipient]
  /\ process \in {"down", "up", "stopping"}
  /\ run \in [Cells -> Handling]
  /\ wire \subseteq [n: 1..MaxSends, from: Op, to: SUBSET Recipient]
  /\ mail \in [Recipient -> Nat]
  /\ suppressed \subseteq Recipient
  /\ sends \in 0..MaxSends
  /\ disturbed \in 0..MaxDisturb

(* One worker, or one sequence per token: what last_orders provides.       *)
Alone == Workers = 1 \/ Cardinality(Op) = 1

(* "A provider submission is never blindly retried immediately after an    *)
(* ambiguous result" (overview.md, 17): with a provider that settles       *)
(* within VerifyDelay no recipient is ever sent the message twice, however *)
(* crashes, lost answers, late requests and restarts fall between          *)
(* markSubmitted, Send and the transaction that records its result.        *)
NoDuplicate == Settles /\ Alone => \A r \in Recipient : mail[r] <= 1

(* Acceptance is never invented: a row is Accepted, or further, only if    *)
(* the provider accepted a message for the recipient or a best-effort      *)
(* decision suppressed it.                                                 *)
AcceptedIsReal ==
  \A r \in Recipient :
    row[r].state \in {"Accepted"} \cup Evidence => mail[r] > 0 \/ r \in suppressed

(* A waiting recipient is never forgotten: the fanout cell that will       *)
(* create its Verify cell, or the Verify cell, is in the store.            *)
WaitingIsVerified ==
  \A r \in InState("RecoveryWaiting") :
    \E f \in FanoutID :
      \/ cell[f] = "fanout" /\ (run[f].pc = "children" => r \in run[f].to)
      \/ cell[<<f, r>>] = "verify"

(* "A crash after acceptance may lose the best-effort provider call, but   *)
(* cannot replay it as an ordinary submission on restart" (overview.md,    *)
(* 2.3): no request goes out for a suppressed recipient any more.          *)
SuppressedStaysSilent ==
  [][Alone => \A q \in wire' \ wire : q.to \cap suppressed = {}]_vars

(* A delivery report is evidence that no later step of a handler, a        *)
(* restart or a late verification takes back.                              *)
EvidenceKept ==
  [][\A r \in Recipient : row[r].state \in Evidence => row'[r].state \in Evidence]_vars

--------------------------------------------------------------------------------
(* What makes the safety properties inductive (DurableEmailProofs).        *)

(* Where a handler is agrees with its cell's kind and step.                *)
SequenceFits ==
  \A c \in Op :
    /\ cell[c] \in {"absent", "setup", "recovery", "post"}
    /\ \/ run[c].pc = "idle"
       \/ cell[c] = "setup" /\ run[c].pc = "setup"
       \/ cell[c] = "recovery" /\ run[c].pc \in {"recovery", "noCandidates", "expand"}
       \/ cell[c] = "post" /\ run[c].pc \in {"post", "clear", "policy", "besteffort", "marked",
                                             "sending", "accepted", "uncertain"}

RecoveryFits ==
  \A f \in FanoutID :
    /\ cell[f] \in {"absent", "fanout"}
    /\ run[f].pc \in {"idle", "fanout", "children"}
    /\ run[f].pc # "idle" => cell[f] = "fanout" /\ due[f] = {}

VerifierFits ==
  \A v \in VerifyCell :
    /\ cell[v] \in {"absent", "verify"}
    /\ run[v].pc \in {"idle", "verify", "found", "missing"}
    /\ run[v].pc # "idle" => cell[v] = "verify"

(* Handlers die with their process, and one worker runs one at a time.     *)
BusyFits ==
  /\ process = "down" => Busy = {}
  /\ Workers = 1 => \A c, d \in Busy : c = d

RunFits == SequenceFits /\ RecoveryFits /\ VerifierFits /\ BusyFits

(* Every attempt has a number of its own.                                  *)
NumbersFit ==
  /\ \A q \in wire : q.n <= sends
  /\ \A c \in Op : run[c].pc \in {"marked", "sending"} => 1 <= run[c].n /\ run[c].n <= sends

(* Before a request is stored nothing has happened.                        *)
RequestFits ==
  request = "none" =>
    /\ \A r \in Recipient : row[r] = NoRow /\ mail[r] = 0
    /\ wire = {}
    /\ \A c \in Op : cell[c] \in {"absent", "setup"}
    /\ \A f \in FanoutID : cell[f] = "absent"

(* An answer that a handler holds is true.                                 *)
AnswerFits ==
  /\ \A c \in Op : run[c].pc = "accepted" => \A r \in run[c].to : mail[r] > 0
  /\ \A v \in VerifyCell : run[v].pc = "found" => mail[v[2]] > 0

(* A best-effort decision settles its recipients for good, and nobody who  *)
(* is about to submit holds one of them.                                   *)
SuppressedFits ==
  /\ \A r \in suppressed : row[r].state \in {"Accepted"} \cup Evidence
  /\ Alone => \A c \in Op : run[c].pc \in {"policy", "marked"} => run[c].to \cap suppressed = {}

Flying(r) == \E q \in wire : r \in q.to

Armed(r) == \E c \in Op : run[c].pc = "marked" /\ r \in run[c].to

Waits(r) == row[r].state = "RecoveryWaiting"

Submitting == {"marked", "sending", "accepted", "uncertain"}

Posting == Submitting \cup {"clear", "policy", "besteffort"}

(* A sequence that expands, posts or submits still sees the rows it read.  *)
PostFits ==
  \A c \in Op :
    /\ run[c].pc = "expand" =>
         /\ InState("Recovery") \subseteq run[c].to
         /\ InState("Pending") = {} /\ InState("RecoveryWaiting") = {}
         /\ \A f \in FanoutID : cell[f] = "absent"
    /\ run[c].pc \in Posting => InState("Recovery") = {} /\ InState("RecoveryWaiting") = {}
    /\ run[c].pc = "policy" =>
         /\ run[c].to = InState("Pending")
         /\ \A r \in run[c].to : ~row[r].submitted
    /\ run[c].pc \in Submitting =>
         \A r \in InState("Pending") : r \in run[c].to /\ row[r].submitted
    /\ run[c].pc = "marked" => \A q \in wire : q.n # run[c].n
    /\ run[c].pc = "sending" => \A q \in wire : q.n = run[c].n => q.to = run[c].to

(* The rows of an attempt go through recovery together.                    *)
StageFits ==
  /\ InState("Recovery") # {} => InState("RecoveryWaiting") = {} /\ InState("Pending") = {}
  /\ Interrupted # {} =>
       /\ InState("Recovery") = {} /\ InState("RecoveryWaiting") = {}
       /\ \A r \in InState("Pending") : row[r].submitted
       /\ \/ \E c \in Op : run[c].pc \in Submitting
          \/ process # "up" /\ \A c \in Op : run[c].pc = "idle"

(* While a fanout is stored every open recipient waits for it, and its     *)
(* deadline covers those whose request may still be on its way.            *)
FanoutFits ==
  \A f \in FanoutID : cell[f] = "fanout" =>
    /\ InState("Pending") = {} /\ InState("Recovery") = {}
    /\ \A g \in FanoutID : cell[g] = "fanout" => g = f
    /\ \A r \in Recipient : Waits(r) => ~Flying(r) \/ r \in due[f]
    /\ \A g \in FanoutID, r \in Recipient : cell[<<g, r>>] = "verify" => ~Waits(r)
    /\ run[f].pc = "children" => \A r \in run[f].to : row[r].state \notin {"none", "Pending", "Recovery"}

(* A recipient has one Verify cell at a time, no request of it is on its   *)
(* way by then, and what the log did not show is not there.                *)
VerifyFits ==
  \A f \in FanoutID, r \in Recipient : cell[<<f, r>>] = "verify" =>
    /\ row[r].state \notin {"none", "Pending", "Recovery"}
    /\ Waits(r) => /\ ~Flying(r)
                   /\ \A g \in FanoutID : cell[<<g, r>>] = "verify" => g = f
                   /\ run[<<f, r>>].pc = "missing" => mail[r] = 0

(* A recipient has at most one of: a message, a request on its way, a      *)
(* handler about to send one.                                              *)
OnceFits ==
  \A r \in Recipient :
    /\ mail[r] <= 1
    /\ mail[r] = 1 => ~Flying(r) /\ ~Armed(r)
    /\ Armed(r) => ~Flying(r)
    /\ \A p, q \in wire : r \in p.to /\ r \in q.to => p = q
    /\ row[r].state = "Pending" /\ ~row[r].submitted => mail[r] = 0 /\ ~Flying(r) /\ ~Armed(r)
    /\ row[r].ripe => ~Flying(r) /\ ~Armed(r)

AttemptsFit == PostFits /\ StageFits /\ FanoutFits /\ VerifyFits /\ OnceFits

IInv ==
  /\ TypeOK
  /\ RunFits
  /\ NumbersFit
  /\ RequestFits
  /\ AnswerFits
  /\ AcceptedIsReal
  /\ WaitingIsVerified
  /\ SuppressedFits
  /\ Settles /\ Alone => AttemptsFit

--------------------------------------------------------------------------------
(* Liveness.  Workers claim what is runnable, handlers and the process     *)
(* manager go on, time passes, requests are taken or lost, and the policy  *)
(* lets a submission through some day.                                     *)

Fairness ==
  /\ SF_vars(\E c \in FanoutID \cup VerifyCell : Claim(c))
  /\ SF_vars(\E c \in Op : Claim(c))
  /\ WF_vars(\E c \in Cells : Handle(c))
  /\ WF_vars(Exit)
  /\ WF_vars(Restart)
  /\ WF_vars(Network)
  /\ WF_vars(\E r \in Recipient : DelayPasses(r))
  /\ SF_vars(\E c \in Op : MarkSubmitted(c))

FairSpec == Spec /\ Fairness

(* A sequence whose content conflicts with the stored request fails in     *)
(* Setup at every start, and the application with it.                      *)
Poisoned == \E c \in Op : cell[c] = "setup" /\ request \notin {"none", Content[c]}

(* Every recipient of a stored request is settled some day: accepted,      *)
(* suppressed or reported on, through any finite number of disturbances,   *)
(* unless a conflicting request keeps the application from working.        *)
RecipientsSettle ==
  <>[](~Poisoned)
    => (request # "none" ~> \A r \in Recipient : row[r].state \in {"Accepted"} \cup Evidence)
================================================================================
