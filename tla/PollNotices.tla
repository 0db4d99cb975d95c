------------------------------ MODULE PollNotices ------------------------------
(***************************************************************************)
(* Emails about polls: the listeners of opened and completed polls, the    *)
(* handlers of their Truths and the action history (open_actions and       *)
(* comp_actions), composed with automatic completion.                      *)
(*                                                                         *)
(* An identity of Firebase idempotency is claimed and its Truth created    *)
(* with the request for it, as TruthEmission justifies; the send steps of  *)
(* a token are one step that sends once, as DurableEmail shows.            *)
(***************************************************************************)
EXTENDS AutoComplete, Sequences

CONSTANTS
  MailingList,  \* the address of the list
  Subscribed    \* Subscribed[about]: users who want the personal email

ASSUME NoticeConstants ==
  /\ MailingList \notin User
  /\ Subscribed \in [{"opened", "completed"} -> SUBSET User]

(* The evidence a Truth carries.                                           *)
PollObservedPayload ==
  [about: {"opened", "completed"}, poll: Poll, venue: Venue \cup {NoVenue},
   actor: User \cup {Nobody}]

VARIABLES
  since,        \* pollsSince: the listeners ignore polls of earlier dates
  changed,      \* what the watches have not delivered yet
  keys,         \* identities claimed in Firestore
  mail,         \* cells of the handlers, and of the send sequences they create
  actions,      \* the action history
  sent,         \* emails that went out
  lost          \* observations whose Add failed

noticeVars == <<since, changed, keys, mail, actions, sent, lost>>
vars == <<autoVars, noticeVars>>

Watch == [about: {"opened", "completed"}, poll: Poll]

(* The query of a watch.                                                   *)
Matches(w) ==
  /\ poll[w.poll].state = IF w.about = "opened" THEN "open" ELSE "completed"
  /\ poll[w.poll].date >= since

(* The change arrives as one the listener takes: as Added, and for         *)
(* completed polls also as Modified.                                       *)
Arises(w) == IF w.about = "opened" THEN ~Matches(w) ELSE poll'[w.poll] # poll[w.poll]

(* The evidence of a Truth: venue is the selected one of a completed poll, *)
(* actor who created or completed it.                                      *)
Evidence(w) ==
  LET doc == poll[w.poll]
  IN  IF w.about = "opened"
      THEN [about |-> w.about, poll |-> w.poll, venue |-> NoVenue, actor |-> doc.creator]
      ELSE [about |-> w.about, poll |-> w.poll, venue |-> doc.selected, actor |-> doc.completer]

EventKey(e) == [about |-> e.about, poll |-> e.poll, venue |-> e.venue]

(* A watch that starts delivers the documents of its query.  A change      *)
(* whose identity is claimed is suppressed there, and is left out here.    *)
Delivers ==
  /\ changed' = IF ~up' THEN {}
                ELSE {w \in Watch : /\ Matches(w)' /\ EventKey(Evidence(w))' \notin keys
                                    /\ ~up \/ w \in changed \/ Arises(w)}
  /\ lost' = IF up /\ up' THEN lost ELSE {}

Identity == [about: {"opened", "completed"}, poll: Poll, venue: Venue \cup {NoVenue}]
Action == {"email", "pemail"}
Marks == [about: {"opened", "completed"}, poll: Poll, venue: Venue \cup {NoVenue}, action: Action]

(* A handler's cell, and a send sequence with whom it still writes to.     *)
Recipients == User \cup {MailingList}
Mail ==
  [kind: {"notify"}, about: {"opened", "completed"}, poll: Poll, venue: Venue \cup {NoVenue},
   actor: User \cup {Nobody}]
    \cup [kind: {"send"}, about: {"opened", "completed"}, poll: Poll,
          venue: Venue \cup {NoVenue}, action: Action, left: Seq(SUBSET Recipients)]

Mark(c, action) == [about |-> c.about, poll |-> c.poll, venue |-> c.venue, action |-> action]

(* A poll of today was announced when it was created; one of a later day   *)
(* is new.                                                                 *)
Old == {p \in Poll : poll[p].date = 0}
OpenedMark(p) == [about |-> "opened", poll |-> p, venue |-> NoVenue, action |-> "email"]

Init ==
  /\ AutoInit
  /\ since = 0
  /\ changed = {}
  /\ keys = {[about |-> "opened", poll |-> p, venue |-> NoVenue] : p \in Old}
  /\ mail = {}
  /\ actions = {OpenedMark(p) : p \in Old}
  /\ sent = {[mark |-> OpenedMark(p), to |-> Subscribed["opened"]] : p \in Old}
  /\ lost = {}

--------------------------------------------------------------------------------
(* Starting: the cutoff is the stored one, or a later one from the command *)
(* line, which is stored.                                                  *)
ResolvePollsSince ==
  \/ since' = since
  \/ \E requested \in Day : requested > since /\ since' = requested

StartApp ==
  /\ Start
  /\ ResolvePollsSince
  /\ Delivers
  /\ UNCHANGED <<keys, mail, actions, sent>>

--------------------------------------------------------------------------------
(* The listeners.                                                          *)

createTruth(w) ==
  LET e == Evidence(w)
  IN  /\ keys' = keys \cup {EventKey(e)}
      /\ mail' = mail \cup {[kind |-> "notify", about |-> e.about, poll |-> e.poll,
                               venue |-> e.venue, actor |-> e.actor]}

Observe(w) ==
  /\ up /\ w \in changed
  /\ changed' = changed \ {w}
  /\ createTruth(w)
  /\ lost' = lost \ {w}
  /\ UNCHANGED <<autoVars, since, actions, sent>>

(* A failed Add is only logged: until the next start the change is lost.   *)
ObserveFails(w) ==
  /\ up /\ w \in changed
  /\ Disturb
  /\ changed' = changed \ {w}
  /\ lost' = lost \cup {w}
  /\ UNCHANGED <<docVars, now, up, timerVars, cells, claimed, discovered, manual,
                 edits, since, keys, mail, actions, sent>>

--------------------------------------------------------------------------------
(* The handlers.                                                           *)

(* Get: the history of the poll.                                           *)
Record(c) == {m \in actions : m.about = c.about /\ m.poll = c.poll}

(* The action has run for some selection of the poll.                      *)
PreviouslyActioned(c, action) == \E m \in Record(c) : m.action = action

(* Mutant: an action that ran for any selection is not needed again.       *)
NeedsFirstAction(c, action) == ~PreviouslyActioned(c, action)

(* It has not run for this one.                                            *)
NeedsAction(c, action) == Mark(c, action) \notin Record(c)

(* Who wants the personal email and has an address.                        *)
EmailRecipients(about) == Subscribed[about]

(* Who gets the emails of a personal send: whoever acted gets one of their *)
(* own, under a token of its own, after the others.                        *)
personalSendSteps(to, actor) ==
  IF actor \in to
  THEN (IF to = {actor} THEN <<>> ELSE <<to \ {actor}>>) \o <<{actor}>>
  ELSE IF to = {} THEN <<>> ELSE <<to>>

(* The sequence of an action: its sends, and then the mark.                *)
actionCell(c, action) ==
  LET personal == c.about = "opened" \/ action = "pemail"
      split == c.about = "opened" \/ ~PreviouslyActioned(c, action)
      left == IF personal
              THEN personalSendSteps(EmailRecipients(c.about), IF split THEN c.actor ELSE Nobody)
              ELSE <<{MailingList}>>
  IN  [kind |-> "send", about |-> c.about, poll |-> c.poll, venue |-> c.venue,
       action |-> action, left |-> left]

PollOpenedEmail(c) ==
  /\ up /\ c.kind = "notify" /\ c.about = "opened"
  /\ mail' = (mail \ {c}) \cup {actionCell(c, a) : a \in {b \in {"email"} : NeedsAction(c, b)}}
  /\ UNCHANGED <<autoVars, since, changed, keys, actions, sent, lost>>

(* The venue is read between the history and the cells.  One that is not   *)
(* found has the handler retry after five minutes, which changes nothing.  *)
PollCompletedEmail(c) ==
  LET needed == {a \in {"email", "pemail"} : NeedsAction(c, a)}
  IN  /\ up /\ c.kind = "notify" /\ c.about = "completed"
      /\ needed = {} \/ c.venue \in pubs
      /\ mail' = (mail \ {c}) \cup {actionCell(c, a) : a \in needed}
      /\ UNCHANGED <<autoVars, since, changed, keys, actions, sent, lost>>

(* Adds the key of the selection to the field of the action.               *)
MarkAction(mark) == actions' = actions \cup {mark}

(* The sequence is executed to its end.  Between its steps nobody but the  *)
(* handler above reads what they write, and a crash resumes it: the steps  *)
(* are taken together, when the mark is written.                           *)
CompletionMarked(c) ==
  LET mark == Mark(c, c.action)
  IN  /\ up /\ c.kind = "send"
      /\ sent' = sent \cup {[mark |-> mark, to |-> c.left[i]] : i \in DOMAIN c.left}
      /\ MarkAction(mark)
      /\ mail' = mail \ {c}
      /\ UNCHANGED <<autoVars, since, changed, keys, lost>>

Deliver(c) ==
  \/ PollOpenedEmail(c)
  \/ PollCompletedEmail(c)
  \/ CompletionMarked(c)

(* Whoever deletes a poll deletes its open_actions too.                    *)
DeletedWith(m) == m.about = "opened" /\ poll'[m.poll].state = "gone" /\ poll[m.poll].state # "gone"

(* What a step of automatic completion does to the emails.                 *)
Noticed ==
  /\ UNCHANGED <<since, keys, mail, sent>>
  /\ actions' = {m \in actions : ~DeletedWith(m)}
  /\ Delivers

Next ==
  \/ AutoNext /\ Noticed
  \/ StartApp
  \/ \E w \in Watch : Observe(w)
  \/ \E w \in Watch : ObserveFails(w)
  \/ \E c \in mail : Deliver(c)

Spec == Init /\ [][Next]_vars

--------------------------------------------------------------------------------
NoticeTypeOK ==
  /\ since \in Day
  /\ changed \subseteq Watch /\ lost \subseteq Watch
  /\ keys \subseteq Identity
  /\ mail \subseteq Mail
  /\ actions \subseteq Marks
  /\ sent \subseteq [mark: Marks, to: SUBSET Recipients]
  /\ \A c \in mail : EventKey(c) \in keys
  /\ \A w \in Watch : Matches(w) => Evidence(w) \in PollObservedPayload

Wanted(m) ==
  IF m.about = "opened" \/ m.action = "pemail" THEN Subscribed[m.about] ELSE {MailingList}

(* "History is written only after provider acceptance"                     *)
(* (completion_email.go): an action is recorded when everyone was written  *)
(* to, whoever acted included.                                             *)
MarkedIsSent ==
  \A m \in actions : Wanted(m) \subseteq UNION {e.to : e \in {f \in sent : f.mark = m}}

(* Nobody is written to twice about one selection.                         *)
NobodyTwice == \A e, f \in sent : e.mark = f.mark /\ e # f => e.to \cap f.to = {}

(* What makes the two inductive (PollNoticesProofs).  What a watch has not *)
(* delivered has an identity nobody has claimed.                           *)
ChangedIsNew == \A w \in changed : Matches(w) /\ EventKey(Evidence(w)) \notin keys

(* The sends of a sequence are the wanted ones, nobody in two of them.     *)
SendsFit ==
  \A c \in mail : c.kind = "send" =>
    /\ Wanted(Mark(c, c.action)) \subseteq UNION {c.left[i] : i \in DOMAIN c.left}
    /\ \A i, j \in DOMAIN c.left : i # j => c.left[i] \cap c.left[j] = {}

(* An identity has one handler, or one sequence for an action.             *)
MailIsAlone ==
  \A c, d \in mail : EventKey(c) = EventKey(d) =>
    c = d \/ (c.kind = "send" /\ d.kind = "send" /\ c.action # d.action)

(* What was sent has a claimed identity, and is not to be sent again.      *)
SentIsDone ==
  \A e \in sent :
    /\ EventKey(e.mark) \in keys
    /\ \A c \in mail : EventKey(e.mark) = EventKey(c) =>
         c.kind = "send" /\ c.action # e.mark.action

IInv ==
  /\ AutoInv /\ NoticeTypeOK
  /\ ChangedIsNew /\ SendsFit /\ MailIsAlone /\ SentIsDone
  /\ MarkedIsSent /\ NobodyTwice

(* What must hold of polls at any time: a day is discovered once, a        *)
(* completed poll has a venue, the timers wait for the next boundary, the  *)
(* history is true of what was sent, and nobody is written to twice.       *)
PollsSound ==
  /\ AutoTypeOK /\ NoticeTypeOK
  /\ OneDiscovery /\ CompletedHasVenue
  /\ DeadlineIsNext /\ FixedRateIsNext
  /\ MarkedIsSent /\ NobodyTwice

(* "Manual completion wins": what changes a completed poll is a person,    *)
(* whatever Candidate had decided and however often Close is executed.     *)
ManualWins ==
  [][\A p \in Poll : Completed(p) /\ edits' = edits => poll'[p] = poll[p]]_vars

--------------------------------------------------------------------------------
(* Liveness.  The supervisor starts the application again; the worker goes *)
(* on with the cells it holds, of either kind; the watches deliver.        *)
Fairness ==
  /\ WF_vars(StartApp)
  /\ WF_vars((RunOnce \/ TimerRetries) /\ Noticed)
  /\ WF_vars((\E c \in cells : Execute(c)) /\ Noticed)
  /\ WF_vars(\E w \in Watch : Observe(w))
  /\ WF_vars(\E c \in mail : Deliver(c))

FairSpec == Spec /\ Fairness

ActionsOf(about) == IF about = "opened" THEN {"email"} ELSE {"email", "pemail"}

Announced(w) == \A a \in ActionsOf(w.about) : Mark(Evidence(w), a) \in actions

(* An overdue timer is served; a poll that was there when its day was      *)
(* discovered ends completed or handed to people; an opened poll and the   *)
(* selection of a completed one end announced, through crashes, edits and  *)
(* a selection that changes while it is announced.  What can prevent it: a *)
(* cell about a deleted poll, which ends every run; a failed Add, until    *)
(* the next start; a selected venue whose document is gone.                *)
PollsServed ==
  \/ <>[](\E c \in cells : Poison(c))
  \/ /\ <>[](timer # NoTimer => now < timer)
     /\ \A p \in Poll :
          <>[](Open(p) /\ DailyKey(poll[p].date) \in claimed => p \in manual)
     /\ \A w \in Watch :
          <>[](Matches(w) /\ w \notin lost =>
                 Announced(w) \/ (w.about = "completed" /\ poll[w.poll].selected \notin pubs))
================================================================================
