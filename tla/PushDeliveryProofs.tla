-------------------------- MODULE PushDeliveryProofs ---------------------------
(***************************************************************************)
(* Proofs about PushDelivery: for every set of users and endpoints, every  *)
(* life time and token limit, and any number of crashes and lost answers   *)
(* a row of push_deliveries says what happened, a notification is recorded *)
(* only when all its deliveries are over, and a silenced endpoint stays    *)
(* silent.                                                                 *)
(***************************************************************************)
EXTENDS PushDelivery, FiniteSetTheorems, TLAPS

USE DEF notification

(* The call under way names an endpoint and how far it is.                 *)
LEMMA WorkShape ==
  ASSUME TypeOK
  PROVE  /\ Resting.pc = "none"
         /\ work # Resting => /\ work.to \in Endpoint
                              /\ work.pc \in {"sending", "accepted", "dead", "rejected"}
                              /\ work = [pc |-> work.pc, to |-> work.to]
         /\ work = Resting => work.pc = "none"
BY DEF TypeOK, Resting

LEMMA WorkMoves ==
  ASSUME TypeOK, work # Resting, NEW pc \in {"sending", "accepted", "dead", "rejected"},
         work' = [work EXCEPT !.pc = pc]
  PROVE  work' = [pc |-> pc, to |-> work.to] /\ work' # Resting /\ work'.pc = pc /\ work'.to = work.to
<1>1. work' = [pc |-> pc, to |-> work.to]
  BY WorkShape
<1>2. work'.pc = pc /\ work'.to = work.to
  BY <1>1
<1> QED BY <1>1, <1>2 DEF Resting

--------------------------------------------------------------------------------
(* Types.                                                                  *)

LEMMA RetryType ==
  ASSUME TypeOK, NEW e, NEW t \in Nat, RetryAt(e, t)
  PROVE  due' \in [Endpoint -> 0..TTL] /\ UNCHANGED <<truth, row, cells, follow>>
<1>1. (IF t > TTL THEN TTL ELSE t) \in 0..TTL
  BY PushConstants
<1> QED BY <1>1 DEF TypeOK, RetryAt

LEMMA FinishedType ==
  ASSUME TypeOK, NEW e \in Endpoint, NEW s \in {"Accepted", "Rejected", "Expired"}, Finished(e, s)
  PROVE  /\ row' \in [Endpoint -> {"none", "Pending", "Accepted", "Rejected", "Expired"}]
         /\ cells' \subseteq Endpoint
         /\ UNCHANGED <<truth, due, follow>>
         /\ row'[e] = s /\ cells' = cells \ {e}
         /\ \A x \in Endpoint : x # e => row'[x] = row[x]
BY DEF TypeOK, Finished

LEMMA TokenType ==
  ASSUME TypeOK
  PROVE  /\ Remaining \in 0..Maximum /\ Period \in 0..1
         /\ Remaining > 0 => [period |-> Period, remaining |-> Remaining - 1] \in [period: 0..1, remaining: 0..Maximum]
BY PushConstants DEF TypeOK, Remaining, Period

LEMMA CountType ==
  ASSUME NEW f \in [Endpoint -> Nat], NEW e \in Endpoint, NEW n \in Nat
  PROVE  [f EXCEPT ![e] = @ + n] \in [Endpoint -> Nat]
<1>1. f[e] + n \in Nat
  OBVIOUS
<1> QED BY <1>1

(* What a handler of a Truth commits.                                      *)
LEMMA HandleEffect ==
  ASSUME TypeOK, Handle
  PROVE  /\ truth = "cell" /\ truth' = "done" /\ work = Resting
         /\ UNCHANGED <<notification, wants, members, noted, process, history>>
         /\ asked' \in BOOLEAN
         /\ \/ UNCHANGED <<row, cells, follow>>
            \/ \E E \in SUBSET Endpoint :
                 /\ row' = [e \in Endpoint |-> IF e \in E THEN "Pending" ELSE "none"]
                 /\ cells' = E
                 /\ follow' \in {"wait", "then", "done"}
                 /\ follow' # "wait" => E = {}
                 /\ noted = "no" \/ kind = "manual_completion"
                 /\ \A e \in E : /\ UserOf[e] \in wants
                                 /\ kind \in {"global_chat", "event_chat"} => UserOf[e] # Actor /\ e \notin delivered
                                 /\ kind \in {"event_chat", "manual_completion"} => UserOf[e] \in members
                                 /\ kind = "push_test" => members = {} \/ UserOf[e] \in members
<1>1. /\ truth = "cell" /\ truth' = "done" /\ work = Resting
      /\ UNCHANGED <<notification, wants, members, noted, process, history>>
  BY DEF Handle, Idle
<1> DEFINE Commits(E) ==
      /\ row' = [e \in Endpoint |-> IF e \in E THEN "Pending" ELSE "none"]
      /\ cells' = E
      /\ follow' \in {"wait", "then", "done"}
      /\ follow' # "wait" => E = {}
      /\ asked' = asked
<1>3. \A E : Populate(E, "then") \/ Populate(E, "done") => NothingToDo \/ Commits(E)
  BY DEF Populate
<1>4. \A ids : /\ EligibleEndpoints(ids) \subseteq Endpoint
               /\ \A e \in EligibleEndpoints(ids) : UserOf[e] \in wants /\ (ids = {} \/ UserOf[e] \in ids)
  BY DEF EligibleEndpoints, TypeOK
<1>5. asked \in BOOLEAN
  BY DEF TypeOK
<1> HIDE DEF Commits
<1>6. CASE NothingToDo
  BY <1>1, <1>5, <1>6 DEF NothingToDo
<1>7. CASE kind \in {"poll_opened", "poll_completed", "poll_rescheduled"} /\ noted = "no" /\ Commits(EligibleEndpoints({}))
  BY <1>1, <1>4, <1>5, <1>7 DEF Commits
<1>8. CASE kind = "manual_completion" /\ members # {} /\ Commits(EligibleEndpoints(members))
  BY <1>1, <1>4, <1>5, <1>8 DEF Commits
<1>9. CASE kind \in {"global_chat", "event_chat"} /\ noted = "no" /\ Commits(recipients(EligibleEndpoints({})))
  <2>1. /\ recipients(EligibleEndpoints({})) \subseteq EligibleEndpoints({})
        /\ \A e \in recipients(EligibleEndpoints({})) :
             UserOf[e] # Actor /\ e \notin delivered /\ (kind = "event_chat" => UserOf[e] \in members)
    BY DEF recipients
  <2> QED BY <1>1, <1>4, <1>5, <1>9, <2>1 DEF Commits
<1>10. CASE kind = "push_test" /\ asked' = FALSE /\ UNCHANGED <<row, cells, follow>>
  BY <1>1, <1>10
<1>11. CASE kind = "push_test" /\ noted = "no" /\ Commits(EligibleEndpoints(members))
  BY <1>1, <1>4, <1>5, <1>11 DEF Commits
<1>12. PollOpenedPush \/ PollCompletedPush =>
         \/ NothingToDo
         \/ /\ kind \in {"poll_opened", "poll_completed", "poll_rescheduled"}
            /\ noted = "no" /\ Commits(EligibleEndpoints({}))
  BY <1>3 DEF PollOpenedPush, PollCompletedPush, NeedsAction
<1>13. ManualCompletionPush =>
         \/ NothingToDo
         \/ kind = "manual_completion" /\ members # {} /\ Commits(EligibleEndpoints(members))
  BY <1>3 DEF ManualCompletionPush
<1>14. ChatPush =>
         \/ NothingToDo
         \/ /\ kind \in {"global_chat", "event_chat"} /\ noted = "no"
            /\ Commits(recipients(EligibleEndpoints({})))
  BY <1>3 DEF ChatPush, ChatHistory
<1>15. PushTest => \/ NothingToDo
                   \/ kind = "push_test" /\ asked' = FALSE /\ UNCHANGED <<row, cells, follow>>
                   \/ kind = "push_test" /\ noted = "no" /\ Commits(EligibleEndpoints(members))
  BY <1>3 DEF PushTest, PushTestAck
<1> QED BY <1>6, <1>7, <1>8, <1>9, <1>10, <1>11, <1>12, <1>13, <1>14, <1>15 DEF Handle

LEMMA TypeStep == TypeOK /\ [Next]_vars => TypeOK'
<1> SUFFICES ASSUME TypeOK, [Next]_vars
             PROVE  TypeOK'
  OBVIOUS
<1> USE PushConstants, WorkShape DEF firestore, store, process, history
<1>1. ASSUME NEW c \in Configs, ChangeSettings(c) PROVE TypeOK'
  BY <1>1 DEF ChangeSettings, TypeOK
<1>2. ASSUME NEW e \in Endpoint, ToggleEndpoint(e) PROVE TypeOK'
  BY <1>2 DEF ToggleEndpoint, TypeOK
<1>3. CASE Restart
  BY <1>3 DEF Restart, TypeOK
<1>4. ASSUME NEW n \in 0..1, Crash(n) PROVE TypeOK'
  <2>1. sent' \in [Endpoint -> Nat] /\ lost' \in [Endpoint -> Nat]
    <3>1. CASE work = Resting
      BY <1>4, <3>1 DEF Crash, TypeOK
    <3>2. CASE work # Resting
      BY <1>4, <3>2, CountType DEF Crash, TypeOK
    <3> QED BY <3>1, <3>2
  <2>2. tokens' \in [period: 0..1, remaining: 0..Maximum]
    BY <1>4 DEF Crash
  <2>3. follow' \in {"none", "wait", "then", "clear", "done"} /\ disturbed' \in 0..MaxDisturb
    BY <1>4 DEF Crash, TypeOK, Disturb
  <2> QED BY <1>4, <2>1, <2>2, <2>3 DEF Crash, TypeOK
<1>5. CASE SeeSettings
  BY <1>5 DEF SeeSettings, TypeOK
<1>6. CASE Tick
  BY <1>6 DEF Tick, TypeOK
<1>7. CASE MissingVenue
  BY <1>7 DEF MissingVenue, Disturb, TypeOK
<1>8. CASE Observe
  BY <1>8 DEF Observe, TypeOK
<1>9. CASE Handle
  <2>1. /\ row' \in [Endpoint -> {"none", "Pending", "Accepted", "Rejected", "Expired"}]
        /\ cells' \subseteq Endpoint /\ follow' \in {"none", "wait", "then", "clear", "done"}
    BY <1>9, HandleEffect DEF TypeOK
  <2> QED BY <1>9, <2>1, HandleEffect DEF Handle, TypeOK
<1>10. ASSUME NEW e \in Endpoint, Expire(e) \/ Silence(e) PROVE TypeOK'
  <2>1. PICK s \in {"Accepted", "Expired"} : Finished(e, s)
    BY <1>10 DEF Expire, Silence
  <2>2. /\ row' \in [Endpoint -> {"none", "Pending", "Accepted", "Rejected", "Expired"}]
        /\ cells' \subseteq Endpoint /\ UNCHANGED <<truth, due, follow>>
    BY <2>1, FinishedType
  <2>3. UNCHANGED <<notification, firestore, process, clock, changes, disturbed, sent, lost, deactivated>>
        /\ silenced' \subseteq Endpoint
    BY <1>10 DEF Expire, Silence, TypeOK
  <2> QED BY <2>2, <2>3 DEF TypeOK
<1>11. ASSUME NEW e \in Endpoint, AwaitSettings(e) \/ AwaitToken(e) PROVE TypeOK'
  <2>1. PICK t \in Nat : RetryAt(e, t)
    BY <1>11 DEF AwaitSettings, AwaitToken, TypeOK
  <2>2. due' \in [Endpoint -> 0..TTL] /\ UNCHANGED <<truth, row, cells, follow>>
    BY <2>1, RetryType
  <2>3. UNCHANGED <<notification, firestore, process, clock, changes, disturbed, history>>
    BY <1>11 DEF AwaitSettings, AwaitToken
  <2> QED BY <2>2, <2>3 DEF TypeOK
<1>12. ASSUME NEW e \in Endpoint, BeginSend(e) PROVE TypeOK'
  <2>1. tokens' \in [period: 0..1, remaining: 0..Maximum]
    BY <1>12, TokenType DEF BeginSend
  <2> QED BY <1>12, <2>1 DEF BeginSend, Send, TypeOK
<1>13. CASE SendAccepted
  <2>1. work # Resting
    BY <1>13 DEF SendAccepted
  <2>2. sent' \in [Endpoint -> Nat]
    BY <1>13, <2>1, CountType DEF SendAccepted, TypeOK
  <2>3. work' = [pc |-> "accepted", to |-> work.to]
    BY <1>13, <2>1, WorkMoves DEF SendAccepted
  <2> QED BY <1>13, <2>1, <2>2, <2>3 DEF SendAccepted, TypeOK
<1>14. CASE SendRefused
  <2>1. work # Resting
    BY <1>14 DEF SendRefused
  <2>2. work' = [pc |-> "dead", to |-> work.to]
    BY <1>14, <2>1, WorkMoves DEF SendRefused
  <2> QED BY <1>14, <2>1, <2>2 DEF SendRefused, TypeOK
<1>15. ASSUME NEW n \in 0..1, SendFails(n) PROVE TypeOK'
  <2>1. work # Resting
    BY <1>15 DEF SendFails
  <2>2. sent' \in [Endpoint -> Nat] /\ lost' \in [Endpoint -> Nat]
    BY <1>15, <2>1, CountType DEF SendFails, TypeOK
  <2>3. PICK t \in clock + 1 .. TTL + 1 : RetryAt(work.to, t)
    BY <1>15 DEF SendFails
  <2>4. t \in Nat
    BY DEF TypeOK
  <2>5. due' \in [Endpoint -> 0..TTL] /\ UNCHANGED <<truth, row, cells, follow>>
    BY <2>3, <2>4, RetryType
  <2> QED BY <1>15, <2>2, <2>5 DEF SendFails, TypeOK
<1>16. CASE InvalidateEndpoint
  <2>1. work # Resting
    BY <1>16 DEF InvalidateEndpoint
  <2>2. work' = [pc |-> "rejected", to |-> work.to]
    BY <1>16, <2>1, WorkMoves DEF InvalidateEndpoint
  <2>3. work' \in [pc: {"sending", "accepted", "dead", "rejected"}, to: Endpoint]
    BY <2>1, <2>2 DEF TypeOK
  <2>4. active' \subseteq Endpoint /\ deactivated' \subseteq Endpoint
    BY <1>16, <2>1 DEF InvalidateEndpoint, TypeOK
  <2>5. UNCHANGED <<kind, delivered, wants, members, config, noted, asked, store, up, settings, tokens,
                    clock, changes, disturbed, sent, lost, silenced>>
    BY <1>16 DEF InvalidateEndpoint, notification
  <2> QED BY <2>3, <2>4, <2>5 DEF TypeOK, store
<1>17. CASE InvalidateFails
  <2>1. PICK t \in clock + 1 .. TTL + 1 : RetryAt(work.to, t)
    BY <1>17 DEF InvalidateFails
  <2>2. t \in Nat
    BY DEF TypeOK
  <2>3. due' \in [Endpoint -> 0..TTL] /\ UNCHANGED <<truth, row, cells, follow>>
    BY <2>1, <2>2, RetryType
  <2> QED BY <1>17, <2>3 DEF InvalidateFails, TypeOK
<1>18. CASE Finish
  <2>1. work # Resting
    BY <1>18 DEF Finish
  <2>2. PICK s \in {"Accepted", "Rejected"} : Finished(work.to, s)
    BY <1>18 DEF Finish
  <2>3. /\ row' \in [Endpoint -> {"none", "Pending", "Accepted", "Rejected", "Expired"}]
        /\ cells' \subseteq Endpoint /\ UNCHANGED <<truth, due, follow>>
    BY <2>1, <2>2, FinishedType
  <2> QED BY <1>18, <2>3 DEF Finish, TypeOK
<1>19. CASE Wait
  BY <1>19 DEF Wait, TypeOK
<1>20. CASE Mark
  BY <1>20 DEF Mark, CompletionMarked, MarkChatProcessed, TypeOK
<1>21. CASE AckPushTest
  BY <1>21 DEF AckPushTest, TypeOK
<1>22. CASE DeletePushTestRequest
  BY <1>22 DEF DeletePushTestRequest, TypeOK
<1>23. CASE UNCHANGED vars
  BY <1>23 DEF vars, TypeOK
<1> QED BY <1>1, <1>2, <1>3, <1>4, <1>5, <1>6, <1>7, <1>8, <1>9, <1>10, <1>11, <1>12, <1>13, <1>14, <1>15,
           <1>16, <1>17, <1>18, <1>19, <1>20, <1>21, <1>22, <1>23
        DEF Next, Work, Deliver, Sending, Following

--------------------------------------------------------------------------------
(* The inductive invariant.                                                *)

Rest == RowsAreTrue /\ NoteIsEarned /\ WorkFits /\ CountsFit /\ StageFits /\ KindFits

LEMMA Quiet ==
  ASSUME Rest, UNCHANGED <<notification, wants, members, noted, truth, row, cells, follow, work, history>>
  PROVE  Rest'
BY DEF Rest, RowsAreTrue, NoteIsEarned, WorkFits, CountsFit, StageFits, KindFits, Addressed, Pending,
       Accepted, history

(* A call belongs to a delivery that is open.                              *)
LEMMA OpenDelivery ==
  ASSUME TypeOK, Rest, NEW e \in cells
  PROVE  /\ e \in Endpoint /\ row[e] = "Pending" /\ e \in Pending /\ e \notin silenced /\ truth = "done"
         /\ noted = "no" /\ follow \in {"none", "wait"}
<1>1. e \in Endpoint
  BY DEF TypeOK
<1>2. row[e] = "Pending"
  BY <1>1 DEF Rest, RowsAreTrue
<1>3. e \in Pending
  BY <1>1, <1>2 DEF Pending
<1>4. noted = "no" /\ follow \in {"none", "wait"}
  BY <1>1, <1>2, <1>3 DEF Rest, NoteIsEarned, TypeOK
<1> QED BY <1>1, <1>2, <1>3, <1>4 DEF Rest, KindFits, StageFits

(* A step of the call under way, or its end without a result.              *)
LEMMA CallStep ==
  ASSUME TypeOK, Rest, work # Resting,
         UNCHANGED <<notification, wants, members, noted, truth, row, cells, follow, silenced>>,
         deactivated \subseteq deactivated',
         \A x \in Endpoint : x # work.to => sent'[x] = sent[x] /\ lost'[x] = lost[x],
         sent'[work.to] <= lost'[work.to] + 1,
         work' # [pc |-> "accepted", to |-> work.to] => sent'[work.to] = lost'[work.to],
         WorkFits'
  PROVE  Rest'
<1>1. work.to \in Endpoint /\ work.to \in cells /\ row[work.to] = "Pending"
  BY WorkShape, OpenDelivery DEF Rest, WorkFits
<1>2. RowsAreTrue'
  BY <1>1 DEF Rest, RowsAreTrue, Addressed
<1>3. \A x \in Endpoint : x # work.to => work # [pc |-> "accepted", to |-> x]
  OBVIOUS
<1>4. CountsFit'
  BY <1>1, <1>3 DEF Rest, CountsFit
<1>5. NoteIsEarned' /\ StageFits' /\ KindFits'
  BY DEF Rest, NoteIsEarned, StageFits, KindFits, Pending, Accepted
<1> QED BY <1>2, <1>4, <1>5 DEF Rest

(* A delivery gets its final state.                                        *)
LEMMA FinishStep ==
  ASSUME TypeOK, Rest, NEW e \in cells, NEW s \in {"Accepted", "Rejected", "Expired"}, Finished(e, s),
         UNCHANGED <<notification, wants, members, noted, sent, lost, deactivated>>,
         work = Resting \/ work.to = e, work' = Resting,
         silenced \subseteq silenced', silenced' \subseteq silenced \cup {e},
         e \in silenced' => s = "Accepted",
         s = "Accepted" => sent[e] > lost[e] \/ e \in silenced',
         s = "Rejected" => e \in deactivated
  PROVE  Rest'
<1>1. /\ e \in Endpoint /\ row[e] = "Pending" /\ e \in Pending /\ e \notin silenced /\ truth = "done"
      /\ noted = "no" /\ follow \in {"none", "wait"}
  BY OpenDelivery
<1>2. /\ row'[e] = s /\ cells' = cells \ {e} /\ UNCHANGED <<truth, follow>>
      /\ \A x \in Endpoint : x # e => row'[x] = row[x]
  BY <1>1, FinishedType
<1>3. RowsAreTrue'
  BY <1>1, <1>2 DEF Rest, RowsAreTrue, Addressed
<1>4. \A x \in Endpoint : x # e => work # [pc |-> "accepted", to |-> x]
  BY DEF Resting
<1>5. CountsFit'
  BY <1>1, <1>2, <1>4 DEF Rest, CountsFit
<1>6. NoteIsEarned' /\ StageFits' /\ WorkFits'
  BY <1>1, <1>2 DEF NoteIsEarned, StageFits, WorkFits
<1>7. KindFits'
  BY <1>1, <1>2 DEF Rest, KindFits, TypeOK
<1> QED BY <1>3, <1>5, <1>6, <1>7 DEF Rest

LEMMA HandleStep ==
  ASSUME TypeOK, Rest, Handle
  PROVE  Rest'
<1>1. /\ truth = "cell" /\ truth' = "done" /\ work = Resting /\ work' = Resting
      /\ UNCHANGED <<notification, wants, members, noted, sent, lost, silenced, deactivated>>
  BY HandleEffect DEF process, history
<1>2. (\A e \in Endpoint : row[e] = "none") /\ follow = "none" /\ noted # "here"
  BY <1>1 DEF Rest, StageFits
<1>3. silenced = {} /\ \A e \in Endpoint : sent[e] = lost[e]
  BY <1>1, <1>2 DEF Rest, KindFits, CountsFit, TypeOK, Resting
<1>4. StageFits' /\ WorkFits' /\ KindFits'
  BY <1>1, <1>3 DEF Rest, StageFits, WorkFits, KindFits
<1>5. CountsFit'
  BY <1>1, <1>3 DEF CountsFit
<1>6. CASE UNCHANGED <<row, cells, follow>>
  <2>1. RowsAreTrue' /\ NoteIsEarned'
    BY <1>1, <1>6 DEF Rest, RowsAreTrue, NoteIsEarned, Addressed, Pending, Accepted
  <2> QED BY <1>4, <1>5, <2>1 DEF Rest
<1>7. ASSUME NEW E \in SUBSET Endpoint,
             /\ row' = [e \in Endpoint |-> IF e \in E THEN "Pending" ELSE "none"]
             /\ cells' = E
             /\ follow' \in {"wait", "then", "done"}
             /\ follow' # "wait" => E = {}
             /\ noted = "no" \/ kind = "manual_completion"
             /\ \A e \in E : /\ UserOf[e] \in wants
                             /\ kind \in {"global_chat", "event_chat"} => UserOf[e] # Actor /\ e \notin delivered
                             /\ kind \in {"event_chat", "manual_completion"} => UserOf[e] \in members
                             /\ kind = "push_test" => members = {} \/ UserOf[e] \in members
      PROVE  Rest'
  <2>1. noted' = "no" /\ (kind = "push_test" => members # {})
    BY <1>1, <1>7 DEF Rest, KindFits
  <2>2. \A e \in Endpoint : row'[e] = IF e \in E THEN "Pending" ELSE "none"
    BY <1>7
  <2>3. RowsAreTrue'
    <3> SUFFICES ASSUME NEW e \in Endpoint
                 PROVE  /\ row'[e] # "none" => Addressed(UserOf[e])' /\ e \notin delivered'
                        /\ row'[e] = "Pending" <=> e \in cells'
                        /\ row'[e] \notin {"Accepted", "Rejected"}
                        /\ sent'[e] <= lost'[e] + 1
      BY DEF RowsAreTrue
    <3>0. kind \notin {"global_chat", "event_chat"} => delivered = {}
      BY DEF Rest, KindFits
    <3>1. row'[e] # "none" => Addressed(UserOf[e])' /\ e \notin delivered'
      BY <1>1, <1>7, <2>1, <2>2, <3>0 DEF Addressed
    <3>2. sent'[e] <= lost'[e] + 1
      BY <1>1, <1>3 DEF TypeOK
    <3> QED BY <1>7, <2>2, <3>1, <3>2
  <2>4. NoteIsEarned'
    BY <1>7, <2>1, <2>2 DEF NoteIsEarned, Pending
  <2> QED BY <1>4, <1>5, <2>3, <2>4 DEF Rest
<1> QED BY <1>6, <1>7, HandleEffect

LEMMA CrashStep ==
  ASSUME TypeOK, Rest, NEW n \in 0..1, Crash(n)
  PROVE  Rest'
<1>1. /\ UNCHANGED <<notification, wants, members, noted, truth, row, cells, silenced, deactivated>> /\ work' = Resting
      /\ follow' = IF follow = "clear" THEN "then" ELSE follow
  BY DEF Crash, firestore
<1>2. CASE work = Resting
  <2>1. sent' = sent /\ lost' = lost
    BY <1>2, WorkShape DEF Crash
  <2> QED BY <1>1, <1>2, <2>1 DEF Rest, RowsAreTrue, NoteIsEarned, WorkFits, CountsFit, StageFits, KindFits,
                                  Addressed, Pending, Accepted
<1>3. CASE work # Resting
  <2>1. /\ work.to \in Endpoint /\ work.to \in cells
        /\ work = [pc |-> work.pc, to |-> work.to]
    BY <1>3, WorkShape DEF Rest, WorkFits
  <2>2. row[work.to] = "Pending" /\ follow' = follow
    BY <1>1, <2>1, OpenDelivery
  <2>3. /\ sent[work.to] \in Nat /\ lost[work.to] \in Nat
        /\ work.pc = "accepted" => sent[work.to] = lost[work.to] + 1
        /\ work.pc # "accepted" => sent[work.to] = lost[work.to]
    BY <1>3, <2>1, <2>2 DEF TypeOK, Rest, WorkFits, CountsFit
  <2>4. /\ \A x \in Endpoint : x # work.to => sent'[x] = sent[x] /\ lost'[x] = lost[x]
        /\ sent'[work.to] = IF n = 1 THEN sent[work.to] + 1 ELSE sent[work.to]
        /\ lost'[work.to] = IF n = 1 \/ work.pc = "accepted" THEN lost[work.to] + 1 ELSE lost[work.to]
        /\ n = 1 => work.pc = "sending"
    BY <2>1 DEF Crash, TypeOK
  <2>5. sent'[work.to] = lost'[work.to]
    BY <2>3, <2>4
  <2>6. sent'[work.to] <= lost'[work.to] + 1
    BY <2>3, <2>4, <2>5
  <2>7. WorkFits'
    BY <1>1 DEF WorkFits
  <2> QED BY <1>1, <1>3, <2>2, <2>4, <2>5, <2>6, <2>7, CallStep
<1> QED BY <1>2, <1>3

(* The call under way, step by step.                                       *)
LEMMA SendingStep ==
  ASSUME TypeOK, Rest, Sending
  PROVE  Rest'
<1>1. work # Resting /\ work.to \in Endpoint /\ work.to \in cells /\ work = [pc |-> work.pc, to |-> work.to]
  <2>1. work.pc \in {"sending", "accepted", "dead", "rejected"}
    BY DEF Sending, SendAccepted, SendRefused, SendFails, InvalidateEndpoint, InvalidateFails, Finish
  <2>2. work # Resting
    BY <2>1, WorkShape
  <2> QED BY <2>2, WorkShape DEF Rest, WorkFits
<1>2. row[work.to] = "Pending"
  BY <1>1, OpenDelivery
<1>3. /\ sent[work.to] \in Nat /\ lost[work.to] \in Nat
      /\ work.pc = "accepted" => sent[work.to] = lost[work.to] + 1
      /\ work.pc # "accepted" => sent[work.to] = lost[work.to]
  BY <1>1, <1>2 DEF TypeOK, Rest, WorkFits, CountsFit
<1>4. CASE SendAccepted
  <2>1. /\ UNCHANGED <<notification, wants, members, noted, truth, row, cells, follow, silenced, deactivated, lost>>
        /\ work.pc = "sending" /\ work' = [pc |-> "accepted", to |-> work.to]
    BY <1>1, <1>4, WorkMoves DEF SendAccepted, firestore, store
  <2>2. /\ \A x \in Endpoint : x # work.to => sent'[x] = sent[x] /\ lost'[x] = lost[x]
        /\ sent'[work.to] = sent[work.to] + 1 /\ lost'[work.to] = lost[work.to]
    BY <1>1, <1>4 DEF SendAccepted, TypeOK
  <2>3. sent'[work.to] <= lost'[work.to] + 1
    BY <1>3, <2>1, <2>2
  <2>4. WorkFits'
    BY <1>1, <1>3, <2>1, <2>2 DEF WorkFits
  <2> QED BY <1>1, <2>1, <2>2, <2>3, <2>4, CallStep
<1>5. CASE SendRefused
  <2>1. /\ UNCHANGED <<notification, wants, members, noted, truth, row, cells, follow, history>>
        /\ work.pc = "sending" /\ work' = [pc |-> "dead", to |-> work.to]
    BY <1>1, <1>5, WorkMoves DEF SendRefused, firestore, store
  <2>2. WorkFits'
    BY <1>1, <2>1 DEF WorkFits
  <2> QED BY <1>1, <1>3, <2>1, <2>2, CallStep DEF history
<1>6. ASSUME NEW n \in 0..1, SendFails(n) PROVE Rest'
  <2>1. /\ UNCHANGED <<notification, wants, members, noted, truth, row, cells, follow, silenced, deactivated>>
        /\ work.pc = "sending" /\ work' = Resting
    BY <1>6 DEF SendFails, firestore, RetryAt
  <2>2. /\ \A x \in Endpoint : x # work.to => sent'[x] = sent[x] /\ lost'[x] = lost[x]
        /\ sent'[work.to] = sent[work.to] + n /\ lost'[work.to] = lost[work.to] + n
    BY <1>1, <1>6 DEF SendFails, TypeOK
  <2>3. sent'[work.to] = lost'[work.to] /\ sent'[work.to] <= lost'[work.to] + 1
    BY <1>3, <2>1, <2>2
  <2>4. WorkFits'
    BY <2>1 DEF WorkFits
  <2> QED BY <1>1, <2>1, <2>2, <2>3, <2>4, CallStep
<1>7. CASE InvalidateEndpoint
  <2>1. /\ UNCHANGED <<notification, wants, members, noted, truth, row, cells, follow, sent, lost, silenced>>
        /\ deactivated' = deactivated \cup {work.to}
        /\ work.pc = "dead" /\ work' = [pc |-> "rejected", to |-> work.to]
    BY <1>1, <1>7, WorkMoves DEF InvalidateEndpoint, store
  <2>2. WorkFits'
    BY <1>1, <2>1 DEF WorkFits
  <2> QED BY <1>1, <1>3, <2>1, <2>2, CallStep
<1>8. CASE InvalidateFails
  <2>1. /\ UNCHANGED <<notification, wants, members, noted, truth, row, cells, follow, history>>
        /\ work.pc = "dead" /\ work' = Resting
    BY <1>8 DEF InvalidateFails, firestore, RetryAt
  <2>2. WorkFits'
    BY <2>1 DEF WorkFits
  <2> QED BY <1>1, <1>3, <2>1, <2>2, CallStep DEF history
<1>9. CASE Finish
  <2>1. /\ UNCHANGED <<notification, wants, members, noted, sent, lost, silenced, deactivated>> /\ work' = Resting
        /\ work.to \notin silenced
    BY <1>1, <1>9, OpenDelivery DEF Finish, firestore, history
  <2>2. CASE work.pc = "accepted"
    <3>1. Finished(work.to, "Accepted") /\ sent[work.to] > lost[work.to]
      BY <1>3, <1>9, <2>2 DEF Finish
    <3> QED BY <1>1, <2>1, <3>1, FinishStep
  <2>3. CASE work.pc = "rejected"
    <3>1. Finished(work.to, "Rejected") /\ work.to \in deactivated
      BY <1>1, <1>9, <2>3 DEF Finish, Rest, WorkFits
    <3> QED BY <1>1, <2>1, <3>1, FinishStep
  <2> QED BY <1>9, <2>2, <2>3 DEF Finish
<1> QED BY <1>4, <1>5, <1>6, <1>7, <1>8, <1>9 DEF Sending

(* What a worker does with a Deliver cell.                                 *)
LEMMA DeliverStep ==
  ASSUME TypeOK, Rest, NEW e \in Endpoint, Deliver(e)
  PROVE  Rest'
<1>1. e \in cells /\ work = Resting
  BY DEF Deliver, Expire, AwaitSettings, Silence, AwaitToken, BeginSend, MaySend, Runnable, Idle
<1>2. e \notin silenced /\ row[e] = "Pending"
  BY <1>1, OpenDelivery
<1>3. CASE Expire(e)
  BY <1>1, <1>2, <1>3, FinishStep DEF Expire, firestore, process, history
<1>4. CASE Silence(e)
  BY <1>1, <1>2, <1>4, FinishStep DEF Silence, firestore, process
<1>5. CASE AwaitSettings(e) \/ AwaitToken(e)
  <2>1. UNCHANGED <<notification, wants, members, noted, truth, row, cells, follow, work, history>>
    BY <1>5 DEF AwaitSettings, AwaitToken, RetryAt, firestore, process
  <2> QED BY <2>1, Quiet
<1>6. CASE BeginSend(e)
  <2>1. /\ UNCHANGED <<notification, wants, members, noted, truth, row, cells, follow, sent, lost, silenced, deactivated>>
        /\ work' = [pc |-> "sending", to |-> e]
    BY <1>6 DEF BeginSend, Send, firestore, store, history
  <2>2. WorkFits' /\ CountsFit'
    BY <1>1, <2>1 DEF Rest, WorkFits, CountsFit, Resting
  <2>3. RowsAreTrue' /\ NoteIsEarned' /\ StageFits' /\ KindFits'
    BY <2>1 DEF Rest, RowsAreTrue, NoteIsEarned, StageFits, KindFits, Addressed, Pending, Accepted
  <2> QED BY <2>2, <2>3 DEF Rest
<1> QED BY <1>3, <1>4, <1>5, <1>6 DEF Deliver

(* What follows the deliveries.                                            *)
LEMMA FollowingStep ==
  ASSUME TypeOK, Rest, Following
  PROVE  Rest'
<1>1. UNCHANGED <<notification, wants, members, truth, row, cells, work, history>>
  BY DEF Following, Wait, Mark, AckPushTest, DeletePushTestRequest, firestore, process
<1>2. RowsAreTrue' /\ WorkFits' /\ CountsFit'
  BY <1>1 DEF Rest, RowsAreTrue, WorkFits, CountsFit, Addressed, history
<1>3. Pending' = Pending /\ Accepted' = Accepted
  BY <1>1 DEF Pending, Accepted
<1>4. Pending = {}
  BY DEF Following, Wait, Mark, AckPushTest, DeletePushTestRequest, Rest, NoteIsEarned
<1>5. truth = "done" /\ follow # "none"
  BY DEF Following, Wait, Mark, AckPushTest, DeletePushTestRequest, Rest, StageFits, TypeOK
<1>6. /\ noted' \in {noted, "here"}
      /\ noted' # noted => /\ kind # "manual_completion"
                           /\ kind = "push_test" => Accepted # {}
  BY DEF Following, Wait, Mark, AckPushTest, DeletePushTestRequest, CompletionMarked, MarkChatProcessed,
         firestore
<1>7. NoteIsEarned'
  BY <1>1, <1>3, <1>4, <1>6 DEF Rest, NoteIsEarned
<1>8. StageFits' /\ KindFits'
  BY <1>1, <1>5, <1>6 DEF Rest, StageFits, KindFits, history
<1> QED BY <1>2, <1>7, <1>8 DEF Rest

LEMMA RestStep == TypeOK /\ Rest /\ [Next]_vars => Rest'
<1> SUFFICES ASSUME TypeOK, Rest, [Next]_vars
             PROVE  Rest'
  OBVIOUS
<1>1. ASSUME \/ \E c \in Configs : ChangeSettings(c)
             \/ \E e \in Endpoint : ToggleEndpoint(e)
             \/ Restart \/ SeeSettings \/ Tick \/ MissingVenue \/ UNCHANGED vars
      PROVE  Rest'
  <2>1. UNCHANGED <<notification, wants, members, noted, truth, row, cells, follow, work, history>>
    BY <1>1 DEF ChangeSettings, ToggleEndpoint, Restart, SeeSettings, Tick, MissingVenue, vars, firestore,
                store, process
  <2> QED BY <2>1, Quiet
<1>2. CASE Observe
  BY <1>2 DEF Observe, Rest, RowsAreTrue, NoteIsEarned, WorkFits, CountsFit, StageFits, KindFits, Addressed,
              Pending, Accepted, firestore, process, history
<1> QED BY <1>1, <1>2, CrashStep, HandleStep, DeliverStep, SendingStep, FollowingStep DEF Next, Work

LEMMA InitInvariant ==
  ASSUME Init
  PROVE  IInv
<1>0. kind = "push_test" => members # {}
  <2>1. Cardinality({}) = 0
    BY FS_EmptySet
  <2> QED BY <2>1 DEF Init
<1> USE PushConstants
<1>1. TypeOK
  <2>1. tokens \in [period: 0..1, remaining: 0..Maximum]
    BY DEF Init
  <2>2. due \in [Endpoint -> 0..TTL] /\ clock \in 0..TTL
    BY DEF Init
  <2>3. kind \in Kind /\ delivered \subseteq Endpoint /\ noted \in {"no", "before", "here"} /\ asked \in BOOLEAN
    BY DEF Init
  <2>4. /\ row \in [Endpoint -> {"none", "Pending", "Accepted", "Rejected", "Expired"}]
        /\ sent \in [Endpoint -> Nat] /\ lost \in [Endpoint -> Nat]
        /\ changes \in 0..MaxChanges /\ disturbed \in 0..MaxDisturb
    BY DEF Init
  <2> QED BY <2>1, <2>2, <2>3, <2>4 DEF Init, TypeOK
<1>3. RowsAreTrue /\ NoteIsEarned
  BY DEF Init, RowsAreTrue, NoteIsEarned, Pending
<1>4. WorkFits /\ CountsFit /\ StageFits /\ KindFits
  BY <1>0 DEF Init, WorkFits, CountsFit, StageFits, KindFits
<1> QED BY <1>1, <1>3, <1>4 DEF IInv, Sound

LEMMA Invariance == IInv /\ [Next]_vars => IInv'
BY TypeStep, RestStep DEF IInv, Sound, Rest

(* The inductive invariant of a notification holds in every behaviour,     *)
(* whatever the push service answers and the settings become.              *)
THEOREM InvariantHolds == Spec => []IInv
BY InitInvariant, Invariance, PTL DEF Spec

(* A row says what happened, beyond one message an endpoint only gets what *)
(* an unanswered call or a crash repeats, and nothing is recorded as done  *)
(* before all its deliveries are over.                                     *)
THEOREM DeliveriesAreSound == Spec => []Sound
<1>1. IInv => Sound
  BY DEF IInv
<1> QED BY <1>1, InvariantHolds, PTL

(* A silenced endpoint gets nothing of this notification any more,         *)
(* whatever the settings become and however often the process restarts.    *)
THEOREM SilenceIsFinal == Spec => SilencedStaysSilent
<1>1. ASSUME IInv, [Next]_vars, NEW e \in silenced PROVE sent'[e] = sent[e]
  <2>1. TypeOK /\ Rest
    BY <1>1 DEF IInv, Sound, Rest
  <2>2. e \in Endpoint /\ e \notin cells
    BY <1>1, <2>1, OpenDelivery DEF TypeOK
  <2>3. work # Resting => work.to # e
    BY <2>1, <2>2 DEF Rest, WorkFits
  <2>4. CASE sent' = sent
    BY <2>4
  <2>5. CASE work # Resting /\ \E n \in 0..1 : sent' = [sent EXCEPT ![work.to] = @ + n]
    BY <2>1, <2>2, <2>3, <2>5 DEF TypeOK
  <2>6. sent' = sent \/ (work # Resting /\ \E n \in 0..1 : sent' = [sent EXCEPT ![work.to] = @ + n])
    <3> USE DEF history
    <3>1. ASSUME NEW n \in 0..1, Crash(n) \/ SendFails(n)
          PROVE  sent' = sent \/ (work # Resting /\ sent' = [sent EXCEPT ![work.to] = @ + n])
      BY <2>1, <3>1, WorkShape DEF Crash, SendFails
    <3>2. CASE SendAccepted
      BY <2>1, <3>2, WorkShape DEF SendAccepted
    <3>3. CASE Observe \/ Handle \/ SendRefused \/ InvalidateEndpoint \/ InvalidateFails \/ Finish \/ Following
      BY <3>3 DEF Observe, Handle, SendRefused, InvalidateEndpoint, InvalidateFails, Finish, Following, Wait,
                  Mark, AckPushTest, DeletePushTestRequest
    <3>4. ASSUME NEW x \in Endpoint, Deliver(x) PROVE sent' = sent
      BY <3>4 DEF Deliver, Expire, AwaitSettings, Silence, AwaitToken, BeginSend
    <3>5. ASSUME \/ \E c \in Configs : ChangeSettings(c)
                 \/ \E x \in Endpoint : ToggleEndpoint(x)
                 \/ Restart \/ SeeSettings \/ Tick \/ MissingVenue \/ UNCHANGED vars
          PROVE  sent' = sent
      BY <3>5 DEF ChangeSettings, ToggleEndpoint, Restart, SeeSettings, Tick, MissingVenue, vars
    <3> QED BY <1>1, <3>1, <3>2, <3>3, <3>4, <3>5 DEF Next, Work, Sending
  <2> QED BY <2>4, <2>5, <2>6
<1>2. IInv /\ [Next]_vars => [\A e \in silenced : sent'[e] = sent[e]]_vars
  BY <1>1
<1> QED BY <1>2, InvariantHolds, PTL DEF Spec, SilencedStaysSilent
================================================================================
