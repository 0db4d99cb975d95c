----------------------------- MODULE PushDelivery ------------------------------
(***************************************************************************)
(* One push notification: the handler of its Truth that selects endpoints  *)
(* and commits the population, a Deliver cell per endpoint with retry,     *)
(* expiry, silencing, the daily token limit and the removal of dead        *)
(* endpoints, the cell that waits for all of them, and what then records   *)
(* the notification as done in Firestore.                                  *)
(*                                                                         *)
(* The Truth is emitted once (TruthEmission) and cells behave as Cellar    *)
(* says; last_orders runs one worker.  A row that is not Pending has no    *)
(* Deliver cell, so the handler's early return for one is left out.        *)
(* Firestore's endpoints and their local projection are one set here       *)
(* (Projection says how they follow each other).  The clock counts from    *)
(* the population, in units of the shortest back-off.                      *)
(***************************************************************************)
EXTENDS Naturals, FiniteSets

CONSTANTS
  User,
  Endpoint,
  UserOf,        \* UserOf[e]: the owner of endpoint e
  Actor,         \* who wrote the message, opened or completed the poll
  ServedBefore,  \* what the subscriber may have delivered, a set of sets of endpoints
  Configs,       \* settings an administrator may choose, a set of Settings
  TTL,           \* life time of the notification
  Midnight,      \* the instant at which the token source starts a new day
  Maximum,       \* tokens of a day
  MaxChanges,    \* bound: changes of settings and endpoints by people
  MaxDisturb     \* bound: crashes and errors that end the run, missing venues

Kind == {"poll_opened", "poll_completed", "poll_rescheduled", "global_chat", "event_chat",
         "push_test", "manual_completion"}

Settings == [silence: BOOLEAN, actor: BOOLEAN, chat: BOOLEAN]

Unknown == [silence |-> "unknown"]

ASSUME PushConstants ==
  /\ UserOf \in [Endpoint -> User]
  /\ Actor \in User
  /\ ServedBefore \subseteq SUBSET Endpoint
  /\ Configs \subseteq Settings /\ Configs # {}
  /\ TTL \in Nat \ {0}
  /\ Midnight \in Nat
  /\ Maximum \in Nat \ {0}
  /\ MaxChanges \in Nat /\ MaxDisturb \in Nat

VARIABLES
  kind,          \* the purpose of this notification
  delivered,     \* endpoints that got this message from the subscriber last_orders replaces
  (* Firestore *)
  wants,         \* users with web push and this kind enabled
  members,       \* completers, unmuted members of the event, or the tested user
  active,        \* active endpoints
  config,        \* config/diagnostics
  noted,         \* recorded as done: "no", "before" (this population) or "here"
  asked,         \* the push-test request is there
  (* the base database *)
  truth,         \* the cell of the Truth's handler: "none", "cell" or "done"
  row,           \* row[e]: state in push_deliveries, "none" without a row
  cells,         \* endpoints with a Deliver cell
  due,           \* due[e]: its NotBefore
  follow,        \* the cell after the deliveries: "none", "wait", "then", "clear", "done"
  (* the process *)
  up,
  settings,      \* last known settings, or Unknown
  tokens,        \* period and remaining of the token source
  work,          \* the delivery whose call is under way
  (* time, bounds and history *)
  clock, changes, disturbed,
  sent,          \* sent[e]: messages the push service took for e
  lost,          \* lost[e]: those of them whose answer or record was lost
  silenced,      \* endpoints whose delivery was suppressed
  deactivated    \* endpoints that InvalidateEndpoint deactivated

notification == <<kind, delivered>>
firestore == <<wants, members, active, config, noted, asked>>
store == <<truth, row, cells, due, follow>>
process == <<up, settings, tokens, work>>
history == <<sent, lost, silenced, deactivated>>
vars == <<notification, firestore, store, process, clock, changes, disturbed, history>>

Resting == [pc |-> "none"]
Idle == up /\ work = Resting

Disturb == disturbed < MaxDisturb /\ disturbed' = disturbed + 1

Init ==
  /\ kind \in Kind
  /\ delivered \in IF kind \in {"global_chat", "event_chat"} THEN ServedBefore ELSE {{}}
  /\ wants \in SUBSET User
  /\ members \in SUBSET User
  /\ kind = "push_test" => Cardinality(members) = 1
  /\ kind \in {"poll_opened", "poll_completed", "poll_rescheduled", "global_chat"} => members = {}
  /\ active = Endpoint
  /\ config \in Configs
  /\ noted \in {"no", "before"}
  /\ kind = "manual_completion" => noted = "no"
  /\ asked = (kind = "push_test")
  /\ truth = "none"
  /\ row = [e \in Endpoint |-> "none"]
  /\ cells = {}
  /\ due = [e \in Endpoint |-> 0]
  /\ follow = "none"
  /\ up = FALSE
  /\ settings = Unknown
  /\ tokens = [period |-> 0, remaining |-> Maximum]
  /\ work = Resting
  /\ clock = 0
  /\ changes = 0
  /\ disturbed = 0
  /\ sent = [e \in Endpoint |-> 0]
  /\ lost = [e \in Endpoint |-> 0]
  /\ silenced = {}
  /\ deactivated = {}

--------------------------------------------------------------------------------
(* People.                                                                 *)

ChangeSettings(c) ==
  /\ changes < MaxChanges
  /\ changes' = changes + 1
  /\ c # config
  /\ config' = c
  /\ UNCHANGED <<notification, wants, members, active, noted, asked, store, process, clock, disturbed, history>>

(* A browser unsubscribes, or subscribes again.                            *)
ToggleEndpoint(e) ==
  /\ changes < MaxChanges
  /\ changes' = changes + 1
  /\ active' = IF e \in active THEN active \ {e} ELSE active \cup {e}
  /\ UNCHANGED <<notification, wants, members, config, noted, asked, store, process, clock, disturbed, history>>

--------------------------------------------------------------------------------
(* The process.                                                            *)

Restart ==
  /\ ~up
  /\ up' = TRUE
  /\ UNCHANGED <<notification, firestore, store, settings, tokens, work, clock, changes, disturbed, history>>

(* The process dies, or a handler's error ends the run.  A message that    *)
(* was on its way may have been taken (n = 1); nobody records it.          *)
Crash(n) ==
  /\ up
  /\ n = 1 => work.pc = "sending"
  /\ Disturb
  /\ up' = FALSE
  /\ settings' = Unknown
  /\ tokens' = [period |-> 0, remaining |-> Maximum]
  /\ work' = Resting
  /\ sent' = IF n = 1 THEN [sent EXCEPT ![work.to] = @ + 1] ELSE sent
  /\ lost' = IF n = 1 \/ work.pc = "accepted" THEN [lost EXCEPT ![work.to] = @ + 1] ELSE lost
  /\ follow' = IF follow = "clear" THEN "then" ELSE follow
  /\ UNCHANGED <<notification, firestore, truth, row, cells, due, clock, changes, silenced, deactivated>>

(* A snapshot of the settings; one that does not decode, or a watch that   *)
(* breaks, leaves the last known value.                                    *)
SeeSettings ==
  /\ up
  /\ settings # config
  /\ settings' = config
  /\ UNCHANGED <<notification, firestore, store, up, tokens, work, clock, changes, disturbed, history>>

Tick ==
  /\ truth = "done"
  /\ clock < TTL
  /\ clock' = clock + 1
  /\ UNCHANGED <<notification, firestore, store, process, changes, disturbed, history>>

--------------------------------------------------------------------------------
(* The handlers of the Truths.                                             *)

(* A listener shows the document, and its Truth is emitted: a message,     *)
(* added or changed, a field of the push-test document, or a poll.         *)
ObserveMessage == kind \in {"global_chat", "event_chat"}

ObserveRequest == kind = "push_test" /\ asked

ObservePoll == kind \in {"poll_opened", "poll_completed", "poll_rescheduled", "manual_completion"}

Observe ==
  /\ Idle
  /\ truth = "none"
  /\ ObserveMessage \/ ObserveRequest \/ ObservePoll
  /\ truth' = "cell"
  /\ UNCHANGED <<notification, firestore, row, cells, due, follow, process, clock, changes, disturbed, history>>

(* No identifiers mean everyone who wants this kind.                       *)
EligibleEndpoints(ids) == {e \in active : UserOf[e] \in wants /\ (ids = {} \/ UserOf[e] \in ids)}

NothingToDo == UNCHANGED <<row, cells, follow, asked>>

Populated == \E e \in Endpoint : row[e] # "none"

(* One transaction: the rows, a cell each, and the cell that waits; the    *)
(* cell of the Truth completes.  A notification is populated once.         *)
Populate(E, then) ==
  IF Populated THEN NothingToDo
  ELSE /\ row' = [e \in Endpoint |-> IF e \in E THEN "Pending" ELSE "none"]
       /\ cells' = E
       /\ follow' = IF E # {} THEN "wait" ELSE then
       /\ asked' = asked

(* What chat_push_actions, the acknowledged test value and the completion  *)
(* history say: this message, value or poll is done with.                  *)
ChatHistory == noted # "no"
PushTestAck == noted # "no"
NeedsAction == noted = "no"

PollOpenedPush ==
  /\ kind = "poll_opened"
  /\ IF NeedsAction THEN Populate(EligibleEndpoints({}), "then") ELSE NothingToDo

(* Rescheduled: another completion of the poll was marked before.          *)
PollCompletedPush ==
  /\ kind \in {"poll_completed", "poll_rescheduled"}
  /\ IF NeedsAction THEN Populate(EligibleEndpoints({}), "then") ELSE NothingToDo

(* Mutant: a role that nobody has selects everyone.                        *)
ManualCompletionPushAll ==
  /\ kind = "manual_completion"
  /\ Populate(EligibleEndpoints(members), "done")

(* "An empty selector audience means everyone, so no completers must mean  *)
(* no push."                                                               *)
ManualCompletionPush ==
  /\ kind = "manual_completion"
  /\ IF members = {} THEN NothingToDo ELSE Populate(EligibleEndpoints(members), "done")

(* Without the author and the endpoints served before; in an event its     *)
(* unmuted members only.                                                   *)
recipients(E) == {e \in E : /\ UserOf[e] # Actor
                            /\ e \notin delivered
                            /\ kind = "event_chat" => UserOf[e] \in members}

ChatPush ==
  /\ kind \in {"global_chat", "event_chat"}
  /\ IF ChatHistory THEN NothingToDo ELSE Populate(recipients(EligibleEndpoints({})), "then")

(* A value that is acknowledged only has its request removed.              *)
PushTest ==
  /\ kind = "push_test"
  /\ IF PushTestAck THEN asked' = FALSE /\ UNCHANGED <<row, cells, follow>>
     ELSE Populate(EligibleEndpoints(members), "then")

Handle ==
  /\ Idle
  /\ truth = "cell"
  /\ PollOpenedPush \/ PollCompletedPush \/ ManualCompletionPush \/ ChatPush \/ PushTest
  /\ truth' = "done"
  /\ UNCHANGED <<notification, wants, members, active, config, noted, due, process, clock, changes,
                 disturbed, history>>

(* The venue of the completed poll is not there: try again later.          *)
MissingVenue ==
  /\ Idle
  /\ truth = "cell"
  /\ kind \in {"poll_completed", "poll_rescheduled"}
  /\ Disturb
  /\ UNCHANGED <<notification, firestore, store, process, clock, changes, history>>

--------------------------------------------------------------------------------
(* deliverHandler.                                                         *)

AllowsLive(s, u) ==
  \/ ~s.silence
  \/ kind \in {"poll_opened", "poll_completed"} /\ s.actor /\ u = Actor
  \/ kind \in {"global_chat", "event_chat"} /\ s.chat

Period == IF clock < Midnight THEN 0 ELSE 1

(* AcquireN(1): tokens left, counting a new day.                           *)
Remaining == IF tokens.period # Period THEN Maximum ELSE tokens.remaining

Runnable(e) == Idle /\ e \in cells /\ due[e] <= clock

(* The row gets its final state and the cell completes.                    *)
Finished(e, state) ==
  /\ row' = [row EXCEPT ![e] = state]
  /\ cells' = cells \ {e}
  /\ UNCHANGED <<truth, due, follow>>

(* Retry, never later than the expiry.                                     *)
RetryAt(e, t) ==
  /\ due' = [due EXCEPT ![e] = IF t > TTL THEN TTL ELSE t]
  /\ UNCHANGED <<truth, row, cells, follow>>

(* Mutant: expiry is only looked at before the first attempt.              *)
ExpireUntried(e) ==
  /\ Runnable(e)
  /\ clock >= TTL
  /\ IF due[e] = 0 THEN Finished(e, "Expired") ELSE RetryAt(e, clock + 1)
  /\ UNCHANGED <<notification, firestore, process, clock, changes, disturbed, history>>

Expire(e) ==
  /\ Runnable(e)
  /\ clock >= TTL
  /\ Finished(e, "Expired")
  /\ UNCHANGED <<notification, firestore, process, clock, changes, disturbed, history>>

AwaitSettings(e) ==
  /\ Runnable(e)
  /\ clock < TTL
  /\ settings = Unknown
  /\ RetryAt(e, clock + 1)
  /\ UNCHANGED <<notification, firestore, process, clock, changes, disturbed, history>>

(* Mutant: a silenced delivery is put off.                                 *)
SilenceForNow(e) ==
  /\ Runnable(e)
  /\ clock < TTL
  /\ settings # Unknown /\ ~AllowsLive(settings, UserOf[e])
  /\ RetryAt(e, clock + 1)
  /\ silenced' = silenced \cup {e}
  /\ UNCHANGED <<notification, firestore, process, clock, changes, disturbed, sent, lost, deactivated>>

Silence(e) ==
  /\ Runnable(e)
  /\ clock < TTL
  /\ settings # Unknown /\ ~AllowsLive(settings, UserOf[e])
  /\ Finished(e, "Accepted")
  /\ silenced' = silenced \cup {e}
  /\ UNCHANGED <<notification, firestore, process, clock, changes, disturbed, sent, lost, deactivated>>

MaySend(e) ==
  /\ Runnable(e)
  /\ clock < TTL
  /\ settings # Unknown /\ AllowsLive(settings, UserOf[e])

(* Exhausted: wait for the next midnight.                                  *)
AwaitToken(e) ==
  /\ MaySend(e)
  /\ Remaining = 0
  /\ RetryAt(e, IF clock < Midnight THEN Midnight ELSE TTL)
  /\ UNCHANGED <<notification, firestore, process, clock, changes, disturbed, history>>

(* Sender.Send: one request to the push service.                           *)
Send(e) == work' = [pc |-> "sending", to |-> e]

BeginSend(e) ==
  /\ MaySend(e)
  /\ Remaining > 0
  /\ tokens' = [period |-> Period, remaining |-> Remaining - 1]
  /\ Send(e)
  /\ UNCHANGED <<notification, firestore, store, up, settings, clock, changes, disturbed, history>>

SendAccepted ==
  /\ work.pc = "sending"
  /\ sent' = [sent EXCEPT ![work.to] = @ + 1]
  /\ work' = [work EXCEPT !.pc = "accepted"]
  /\ UNCHANGED <<notification, firestore, store, up, settings, tokens, clock, changes, disturbed, lost,
                 silenced, deactivated>>

(* permanentFailure: the endpoint is dead.                                 *)
SendRefused ==
  /\ work.pc = "sending"
  /\ work' = [work EXCEPT !.pc = "dead"]
  /\ UNCHANGED <<notification, firestore, store, up, settings, tokens, clock, changes, disturbed, history>>

(* Any other status, or no answer (n = 1: the message was taken): retry    *)
(* after a back-off that grows with the attempts.                          *)
SendFails(n) ==
  /\ work.pc = "sending"
  /\ \E t \in clock + 1 .. TTL + 1 : RetryAt(work.to, t)
  /\ sent' = [sent EXCEPT ![work.to] = @ + n]
  /\ lost' = [lost EXCEPT ![work.to] = @ + n]
  /\ work' = Resting
  /\ UNCHANGED <<notification, firestore, up, settings, tokens, clock, changes, disturbed, silenced,
                 deactivated>>

InvalidateEndpoint ==
  /\ work.pc = "dead"
  /\ active' = active \ {work.to}
  /\ deactivated' = deactivated \cup {work.to}
  /\ work' = [work EXCEPT !.pc = "rejected"]
  /\ UNCHANGED <<notification, wants, members, config, noted, asked, store, up, settings, tokens, clock,
                 changes, disturbed, sent, lost, silenced>>

InvalidateFails ==
  /\ work.pc = "dead"
  /\ \E t \in clock + 1 .. TTL + 1 : RetryAt(work.to, t)
  /\ work' = Resting
  /\ UNCHANGED <<notification, firestore, up, settings, tokens, clock, changes, disturbed, history>>

Finish ==
  /\ work.pc \in {"accepted", "rejected"}
  /\ Finished(work.to, IF work.pc = "accepted" THEN "Accepted" ELSE "Rejected")
  /\ work' = Resting
  /\ UNCHANGED <<notification, firestore, up, settings, tokens, clock, changes, disturbed, history>>

--------------------------------------------------------------------------------
(* What follows the deliveries.                                            *)

Pending == {e \in Endpoint : row[e] = "Pending"}
Accepted == {e \in Endpoint : row[e] = "Accepted"}

(* waitHandler.                                                            *)
Wait ==
  /\ Idle
  /\ follow = "wait"
  /\ Pending = {}
  /\ follow' = IF kind = "manual_completion" THEN "done" ELSE "then"
  /\ UNCHANGED <<notification, firestore, truth, row, cells, due, process, clock, changes, disturbed, history>>

(* The completion of a poll, or its opening, is marked as pushed.          *)
CompletionMarked == kind \in {"poll_opened", "poll_completed", "poll_rescheduled"} /\ noted' = "here"

MarkChatProcessed == kind \in {"global_chat", "event_chat"} /\ noted' = "here"

Mark ==
  /\ Idle
  /\ follow = "then"
  /\ CompletionMarked \/ MarkChatProcessed
  /\ follow' = "done"
  /\ UNCHANGED <<notification, wants, members, active, config, asked, truth, row, cells, due, process,
                 clock, changes, disturbed, history>>

(* PushTestCompleted acknowledges what somebody got ...                    *)
AckPushTest ==
  /\ Idle
  /\ follow = "then"
  /\ kind = "push_test"
  /\ noted' = IF Accepted # {} THEN "here" ELSE noted
  /\ follow' = "clear"
  /\ UNCHANGED <<notification, wants, members, active, config, asked, truth, row, cells, due, process,
                 clock, changes, disturbed, history>>

(* ... and removes the request; an error or a crash in between repeats     *)
(* both.                                                                   *)
DeletePushTestRequest ==
  /\ Idle
  /\ follow = "clear"
  /\ asked' = FALSE
  /\ follow' = "done"
  /\ UNCHANGED <<notification, wants, members, active, config, noted, truth, row, cells, due, process,
                 clock, changes, disturbed, history>>

--------------------------------------------------------------------------------
Deliver(e) == Expire(e) \/ AwaitSettings(e) \/ Silence(e) \/ AwaitToken(e) \/ BeginSend(e)

Sending ==
  \/ SendAccepted
  \/ SendRefused
  \/ \E n \in 0..1 : SendFails(n)
  \/ InvalidateEndpoint
  \/ InvalidateFails
  \/ Finish

Following == Wait \/ Mark \/ AckPushTest \/ DeletePushTestRequest

Work == Observe \/ Handle \/ (\E e \in Endpoint : Deliver(e)) \/ Sending \/ Following

Next ==
  \/ \E c \in Configs : ChangeSettings(c)
  \/ \E e \in Endpoint : ToggleEndpoint(e)
  \/ Restart
  \/ \E n \in 0..1 : Crash(n)
  \/ SeeSettings
  \/ Tick
  \/ MissingVenue
  \/ Work

Spec == Init /\ [][Next]_vars

--------------------------------------------------------------------------------
(* Safety.                                                                 *)

TypeOK ==
  /\ kind \in Kind
  /\ delivered \subseteq Endpoint
  /\ wants \subseteq User /\ members \subseteq User /\ active \subseteq Endpoint
  /\ config \in Configs
  /\ noted \in {"no", "before", "here"}
  /\ asked \in BOOLEAN
  /\ truth \in {"none", "cell", "done"}
  /\ row \in [Endpoint -> {"none", "Pending", "Accepted", "Rejected", "Expired"}]
  /\ cells \subseteq Endpoint
  /\ due \in [Endpoint -> 0..TTL]
  /\ follow \in {"none", "wait", "then", "clear", "done"}
  /\ up \in BOOLEAN
  /\ settings \in Configs \cup {Unknown}
  /\ tokens \in [period: 0..1, remaining: 0..Maximum]
  /\ work \in [pc: {"sending", "accepted", "dead", "rejected"}, to: Endpoint] \cup {Resting}
  /\ clock \in 0..TTL /\ changes \in 0..MaxChanges /\ disturbed \in 0..MaxDisturb
  /\ sent \in [Endpoint -> Nat] /\ lost \in [Endpoint -> Nat]
  /\ silenced \subseteq Endpoint /\ deactivated \subseteq Endpoint

(* Whom a notification is for.                                             *)
Addressed(u) ==
  /\ u \in wants
  /\ kind \in {"global_chat", "event_chat"} => u # Actor
  /\ kind \in {"event_chat", "push_test", "manual_completion"} => u \in members

(* A row says what happened: only addressees have one, and no endpoint     *)
(* that got the message before; Pending rows and Deliver cells go          *)
(* together, Accepted means sent or silenced, Rejected that Firestore was  *)
(* told of the dead endpoint, and beyond one message an endpoint only gets *)
(* what an unanswered call or a crash before the commit repeats.           *)
RowsAreTrue ==
  \A e \in Endpoint :
    /\ row[e] # "none" => Addressed(UserOf[e]) /\ e \notin delivered
    /\ row[e] = "Pending" <=> e \in cells
    /\ row[e] = "Accepted" => sent[e] > lost[e] \/ e \in silenced
    /\ row[e] = "Rejected" => e \in deactivated
    /\ sent[e] <= lost[e] + 1

(* "then runs once every delivery is terminal" (push.go), and a test is    *)
(* acknowledged "only if some endpoint was accepted or silenced"           *)
(* (pushevents.go); what was recorded before is not populated again.       *)
NoteIsEarned ==
  /\ noted = "here" => /\ Pending = {}
                       /\ kind = "push_test" => Accepted # {}
  /\ noted = "before" => \A e \in Endpoint : row[e] = "none"
  /\ follow \in {"then", "clear", "done"} => Pending = {}

Sound == TypeOK /\ RowsAreTrue /\ NoteIsEarned

(* Suppressed "deliveries are terminal and never replayed live"            *)
(* (0008-notifications.md, 5): a silenced endpoint gets nothing of this    *)
(* notification, whatever the settings become.                             *)
SilencedStaysSilent ==
  [][\A e \in silenced : sent'[e] = sent[e]]_vars

--------------------------------------------------------------------------------
(* What makes Sound and SilencedStaysSilent inductive (PushDeliveryProofs). *)

(* The call under way belongs to a Deliver cell, so to a Pending row, and  *)
(* what it has learnt is true.                                             *)
WorkFits ==
  work # Resting =>
    /\ work.to \in cells
    /\ work.pc = "accepted" => sent[work.to] = lost[work.to] + 1
    /\ work.pc = "rejected" => work.to \in deactivated

(* While a delivery is open every message of it is one whose answer was    *)
(* lost, except the one that is being recorded.                            *)
CountsFit ==
  \A e \in Endpoint :
    row[e] \in {"none", "Pending"} /\ work # [pc |-> "accepted", to |-> e] => sent[e] = lost[e]

(* Until the handler of the Truth has committed there is nothing.          *)
StageFits ==
  truth # "done" =>
    /\ \A e \in Endpoint : row[e] = "none"
    /\ follow = "none"
    /\ noted # "here"

(* A suppressed delivery is over; a test has a user, nothing records a     *)
(* manual completion, and only messages were delivered before.             *)
KindFits ==
  /\ kind \notin {"global_chat", "event_chat"} => delivered = {}
  /\ \A e \in silenced : row[e] = "Accepted"
  /\ kind = "push_test" => members # {}
  /\ kind = "manual_completion" => noted = "no"

IInv == Sound /\ WorkFits /\ CountsFit /\ StageFits /\ KindFits

--------------------------------------------------------------------------------
(* Liveness.  The process is started again, its one worker executes what   *)
(* is runnable, calls end with some answer, and time passes.  Nothing is   *)
(* assumed of the answers: the push service may fail for ever, and the     *)
(* settings may stay unknown.                                              *)

Fairness == WF_vars(Restart) /\ WF_vars(Work) /\ WF_vars(Tick)

FairSpec == Spec /\ Fairness

(* Every notification comes to an end: each delivery is terminal by the    *)
(* expiry, and then the notification is recorded and the request removed.  *)
NotificationEnds ==
  truth = "cell" ~> (truth = "done" /\ Pending = {} /\ follow \in {"none", "done"} /\ ~asked)
================================================================================
