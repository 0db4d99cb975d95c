------------------------------- MODULE Projection -------------------------------
(***************************************************************************)
(* The local copies of Firestore collections: the notification profile     *)
(* (users and push endpoints), the venue cache and the notification        *)
(* mirror, with the listeners that keep them, the read-through of the      *)
(* venue cache and the invalidation of push endpoints.                     *)
(*                                                                         *)
(* A document is in one of the collections, its contents are abstract: a   *)
(* row is the projection of a document that has its required fields, and   *)
(* "malformed" is a document that has not.  Of the contents only Inactive  *)
(* of an endpoint means something here.                                    *)
(*                                                                         *)
(* Each collection has its own stream and its own table; nothing joins     *)
(* them but the process.  A behaviour therefore follows one group of them  *)
(* (focus), the documents of the others do not change.                     *)
(***************************************************************************)
EXTENDS Naturals, FiniteSets

CONSTANTS
  Doc,          \* documents of all collections
  StreamOf,     \* StreamOf[d]: the collection of d
  PushTest,     \* the request documents named push_test
  Groups,       \* groups of streams a behaviour may follow
  Content,      \* contents of a document with its required fields
  Inactive,     \* the contents InvalidateEndpoint gives it
  MaxChanges,   \* bound: writes of clients
  MaxDisturb    \* bound: crashes, failed writes, lost local updates

Stream == {"users", "endpoints", "venues", "requests"}

ASSUME ProjectionConstants ==
  /\ StreamOf \in [Doc -> Stream]
  /\ Groups \subseteq SUBSET Stream
  /\ Inactive \in Content
  /\ {"absent", "malformed"} \cap Content = {}
  /\ MaxChanges \in Nat /\ MaxDisturb \in Nat

ASSUME PushTestsAreRequests == \A d \in PushTest : d \in Doc /\ StreamOf[d] = "requests"

VARIABLES
  focus,        \* the streams this behaviour follows
  docs,         \* docs[d]: the document in Firestore
  table,        \* table[d]: its row (of notification_ack for a request)
  process,      \* "down", "loading" (projections not ready) or "serving"
  stream,       \* stream[s]: "closed", "first" (no snapshot yet), "open" or "failed"
  view,         \* view[d]: d as the last snapshot of its stream showed it
  unseen,       \* documents written since that snapshot
  pending,      \* changes of that snapshot that are still to be applied
  loaded,       \* streams whose first snapshot has been applied in this process
  work,         \* what the Cellar worker does to a row
  follows,      \* history: documents the present stream applied, whose row the worker left alone since
  moved,        \* history: documents written since the process started
  changes,      \* writes of clients so far
  disturbed     \* disturbances so far

remote == <<docs, unseen, moved, changes>>
listening == <<stream, view, pending, loaded, follows>>
vars == <<focus, docs, table, process, stream, view, unseen, pending, loaded, work, follows,
          moved, changes, disturbed>>

Value == Content \cup {"absent", "malformed"}
Rows == Content \cup {"absent"}
Work == [job: {"fill", "invalidate"}, doc: Doc, value: Content]
NoWork == [job |-> "none"]

In(s) == {d \in Doc : StreamOf[d] = s}

(* The streams whose readiness the application waits for; the mirror is    *)
(* started with the other listeners, after them.                           *)
Projecting == focus \ {"requests"}

Disturb == disturbed < MaxDisturb /\ disturbed' = disturbed + 1

Init ==
  /\ focus \in Groups
  /\ docs \in [Doc -> {"absent"} \cup Content]
  /\ \A d \in Doc : StreamOf[d] \notin focus => docs[d] = "absent"
  /\ table = [d \in Doc |-> "absent"]
  /\ process = "down"
  /\ stream = [s \in Stream |-> "closed"]
  /\ view = [d \in Doc |-> "absent"]
  /\ unseen = {}
  /\ pending = {}
  /\ loaded = {}
  /\ work = NoWork
  /\ follows = {}
  /\ moved = {}
  /\ changes = 0
  /\ disturbed = 0

--------------------------------------------------------------------------------
(* The application.                                                        *)

Boot ==
  /\ process = "down"
  /\ process' = "loading"
  /\ moved' = {}
  /\ UNCHANGED <<focus, docs, table, listening, unseen, work, changes, disturbed>>

(* Run has seen every projection ready and starts Cellar and the listeners *)
(* that make work.                                                         *)
Serve ==
  /\ process = "loading"
  /\ Projecting \subseteq loaded
  /\ process' = "serving"
  /\ UNCHANGED <<focus, remote, table, listening, work, disturbed>>

Down ==
  /\ process' = "down"
  /\ stream' = [s \in Stream |-> "closed"]
  /\ pending' = {}
  /\ loaded' = {}
  /\ work' = NoWork
  /\ follows' = {}
  /\ UNCHANGED <<focus, remote, table, view>>

Crash == process # "down" /\ Disturb /\ Down

(* Mutant: Run does not listen to the errors of the profile listener.      *)
RunFailsVenues ==
  /\ process # "down"
  /\ \E s \in Projecting \cap {"venues"} : stream[s] = "failed"
  /\ Down
  /\ UNCHANGED disturbed

(* Run returns the error of a projection listener.                         *)
RunFails ==
  /\ process # "down"
  /\ \E s \in Projecting : stream[s] = "failed"
  /\ Down
  /\ UNCHANGED disturbed

--------------------------------------------------------------------------------
(* Clients and the worker write documents.                                 *)

Written(d, v) ==
  /\ docs' = [docs EXCEPT ![d] = v]
  /\ unseen' = unseen \cup {d}
  /\ moved' = moved \cup {d}

(* PreferencesFromDocument has no required field: only endpoints and       *)
(* venues can be malformed.                                                *)
Write(d, v) ==
  /\ StreamOf[d] \in focus
  /\ changes < MaxChanges
  /\ docs[d] # v
  /\ v = "malformed" => StreamOf[d] \in {"endpoints", "venues"}
  /\ Written(d, v)
  /\ changes' = changes + 1
  /\ UNCHANGED <<focus, table, process, listening, work, disturbed>>

--------------------------------------------------------------------------------
(* A listener: watchStream, watchOnce.                                     *)

(* Every stream is a new one: Firestore replays the collection on it.      *)
Open(s) ==
  /\ s \in focus
  /\ process # "down"
  /\ s = "requests" => process = "serving"
  /\ stream[s] = "closed"
  /\ stream' = [stream EXCEPT ![s] = "first"]
  /\ view' = [d \in Doc |-> IF d \in In(s) THEN "absent" ELSE view[d]]
  /\ follows' = follows \ In(s)
  /\ UNCHANGED <<focus, remote, table, process, pending, loaded, work, disturbed>>

(* The changes of the next snapshot of s: what was written since the last  *)
(* one, or everything there is.                                            *)
Changed(s) ==
  IF stream[s] = "first" THEN {d \in In(s) : docs[d] # "absent"}
                         ELSE {d \in In(s) \cap unseen : view[d] # "absent" \/ docs[d] # "absent"}

(* Mutant: a stream counts as loaded when its first snapshot arrives.      *)
NextSnapshotLoads(s) ==
  /\ stream[s] \in {"first", "open"}
  /\ pending \cap In(s) = {}
  /\ stream[s] = "first" \/ Changed(s) # {}
  /\ stream' = [stream EXCEPT ![s] = "open"]
  /\ view' = [d \in Doc |-> IF d \in In(s) THEN docs[d] ELSE view[d]]
  /\ unseen' = unseen \ In(s)
  /\ pending' = pending \cup Changed(s)
  /\ loaded' = loaded \cup {s}
  /\ UNCHANGED <<focus, docs, table, process, work, follows, moved, changes, disturbed>>

(* Mutant: removed documents are skipped for every collection.             *)
NextSnapshotKeeps(s) ==
  /\ stream[s] \in {"first", "open"}
  /\ pending \cap In(s) = {}
  /\ stream[s] = "first" \/ Changed(s) # {}
  /\ stream' = [stream EXCEPT ![s] = "open"]
  /\ view' = [d \in Doc |-> IF d \in In(s) THEN docs[d] ELSE view[d]]
  /\ unseen' = unseen \ In(s)
  /\ pending' = pending \cup {d \in Changed(s) : docs[d] # "absent"}
  /\ loaded' = IF pending' \cap In(s) = {} THEN loaded \cup {s} ELSE loaded
  /\ UNCHANGED <<focus, docs, table, process, work, follows, moved, changes, disturbed>>

(* stream.Next: one snapshot may stand for several writes.  The mirror     *)
(* skips removed documents.                                                *)
NextSnapshot(s) ==
  /\ stream[s] \in {"first", "open"}
  /\ pending \cap In(s) = {}
  /\ stream[s] = "first" \/ Changed(s) # {}
  /\ stream' = [stream EXCEPT ![s] = "open"]
  /\ view' = [d \in Doc |-> IF d \in In(s) THEN docs[d] ELSE view[d]]
  /\ unseen' = unseen \ In(s)
  /\ pending' = pending \cup {d \in Changed(s) : s = "requests" => docs[d] # "absent"}
  /\ loaded' = IF pending' \cap In(s) = {} THEN loaded \cup {s} ELSE loaded
  /\ UNCHANGED <<focus, docs, table, process, work, follows, moved, changes, disturbed>>

(* stream.Next fails: the stream is opened again after a delay.            *)
Break(s) ==
  /\ stream[s] \in {"first", "open"}
  /\ pending \cap In(s) = {}
  /\ Disturb
  /\ stream' = [stream EXCEPT ![s] = "closed"]
  /\ UNCHANGED <<focus, remote, table, process, view, pending, loaded, work, follows>>

(* The change of d is done with; the last one of the first snapshot makes  *)
(* the stream loaded.                                                      *)
Applied(d) ==
  /\ pending' = pending \ {d}
  /\ follows' = follows \cup {d}
  /\ loaded' = IF pending' \cap In(StreamOf[d]) = {} THEN loaded \cup {StreamOf[d]} ELSE loaded

(* Mutant: a malformed document is projected all the same.                 *)
ApplyUnchecked(d) ==
  /\ d \in pending
  /\ table' = [table EXCEPT ![d] = view[d]]
  /\ Applied(d)
  /\ UNCHANGED <<focus, remote, process, stream, view, work, disturbed>>

SetRow(d) == table' = [table EXCEPT ![d] = view[d]]

(* The rows of the other tables are put and deleted in the same way.       *)
PutEndpoint(d) == SetRow(d)
PutVenue(d) == SetRow(d)

(* A document without its required fields has no projection.               *)
Projects(d) == view[d] # "malformed"

(* Put or delete; preferences have no required field.                      *)
applyUser(d) == StreamOf[d] = "users" /\ SetRow(d)

(* A malformed document is skipped: its row stays as it was.               *)
applyEndpoint(d) ==
  /\ StreamOf[d] = "endpoints"
  /\ IF Projects(d) THEN PutEndpoint(d) ELSE UNCHANGED table

applyVenue(d) ==
  /\ StreamOf[d] = "venues"
  /\ IF Projects(d) THEN PutVenue(d) ELSE UNCHANGED table

(* The acknowledgement takes over the fields of the request that differ.   *)
(* A push test is skipped: its handler acknowledges it (PushDelivery).     *)
Mirror(d) ==
  /\ StreamOf[d] = "requests"
  /\ IF d \in PushTest THEN UNCHANGED table ELSE SetRow(d)

Apply(d) ==
  /\ d \in pending
  /\ applyUser(d) \/ applyEndpoint(d) \/ applyVenue(d) \/ Mirror(d)
  /\ Applied(d)
  /\ UNCHANGED <<focus, remote, process, stream, view, work, disturbed>>

(* A change that writes nothing: the document is malformed or a push test. *)
Skipped(d) == ~Projects(d) \/ d \in PushTest

(* The write fails.  A projection listener reports it and ends that        *)
(* stream; the mirror opens a new one.                                     *)
ApplyFails(d) ==
  /\ d \in pending
  /\ ~Skipped(d)
  /\ Disturb
  /\ stream' = [stream EXCEPT ![StreamOf[d]] = IF StreamOf[d] = "requests" THEN "closed" ELSE "failed"]
  /\ pending' = pending \ In(StreamOf[d])
  /\ UNCHANGED <<focus, remote, table, process, view, loaded, work, follows>>

--------------------------------------------------------------------------------
(* The Cellar worker.                                                      *)

CacheMiss(d) == StreamOf[d] = "venues" /\ table[d] = "absent"

(* venuecache.Service.Get misses and reads the document.                   *)
Miss(d) ==
  /\ process = "serving"
  /\ work = NoWork
  /\ CacheMiss(d)
  /\ docs[d] \in Content
  /\ work' = [job |-> "fill", doc |-> d, value |-> docs[d]]
  /\ UNCHANGED <<focus, remote, table, process, listening, disturbed>>

(* DeactivateEndpoint: an Update, which fails on a document that is gone.  *)
Deactivate(d) ==
  /\ process = "serving"
  /\ work = NoWork
  /\ StreamOf[d] = "endpoints"
  /\ docs[d] \in Content
  /\ Written(d, Inactive)
  /\ work' = [job |-> "invalidate", doc |-> d, value |-> Inactive]
  /\ UNCHANGED <<focus, table, process, listening, changes, disturbed>>

(* The local half: Put of what was read, or SetEndpointActive, an UPDATE   *)
(* that makes no row.  A failed Put is only logged, a failed update is     *)
(* left to the listener.                                                   *)
LocalWrite(ok) ==
  /\ work # NoWork
  /\ IF ok THEN UNCHANGED disturbed ELSE Disturb
  /\ table' = IF ok /\ (work.job = "fill" \/ table[work.doc] # "absent")
              THEN [table EXCEPT ![work.doc] = work.value] ELSE table
  /\ work' = NoWork
  /\ follows' = follows \ {work.doc}
  /\ UNCHANGED <<focus, remote, process, stream, view, pending, loaded>>

--------------------------------------------------------------------------------
Next ==
  \/ Boot
  \/ Serve
  \/ Crash
  \/ RunFails
  \/ \E d \in Doc, v \in Value : Write(d, v)
  \/ \E s \in Stream : Open(s) \/ NextSnapshot(s) \/ Break(s)
  \/ \E d \in Doc : Apply(d) \/ ApplyFails(d) \/ Miss(d) \/ Deactivate(d)
  \/ \E ok \in BOOLEAN : LocalWrite(ok)

Spec == Init /\ [][Next]_vars

--------------------------------------------------------------------------------
(* Safety.                                                                 *)

TypeOK ==
  /\ focus \in Groups
  /\ docs \in [Doc -> Value]
  /\ table \in [Doc -> Rows]
  /\ process \in {"down", "loading", "serving"}
  /\ stream \in [Stream -> {"closed", "first", "open", "failed"}]
  /\ view \in [Doc -> Value]
  /\ unseen \subseteq Doc /\ pending \subseteq Doc /\ follows \subseteq Doc /\ moved \subseteq Doc
  /\ loaded \subseteq Stream
  /\ work \in Work \cup {NoWork}
  /\ changes \in 0..MaxChanges /\ disturbed \in 0..MaxDisturb

(* "Recipient and venue reads must see complete projections before any     *)
(* work runs" (app.go): when the application serves, every well-formed     *)
(* document that nobody wrote since the process started has its row,       *)
(* whatever was on disk, and however often its streams broke meanwhile.    *)
ServesFresh ==
  process = "serving" =>
    \A d \in Doc : StreamOf[d] \in Projecting /\ docs[d] \in Content /\ d \notin moved
                     => table[d] = docs[d]

(* "Firestore replays a full snapshot on each new stream, which is what    *)
(* rebuilds a lost projection" (notificationprofile/listener.go): once the *)
(* present stream has applied a document, and has nothing more to tell of  *)
(* it, its row is the document's, put or removed, unless the worker wrote  *)
(* the row since.  The mirror keeps the acknowledgement of a request that  *)
(* is gone.  A document that was removed while its stream was closed is in *)
(* no replay: nothing deletes its row, and it is not among the followed.   *)
CaughtUp ==
  \A d \in follows \ (unseen \cup pending \cup PushTest) : stream[StreamOf[d]] = "open" =>
    /\ docs[d] \in Content => table[d] = docs[d]
    /\ docs[d] = "absent" /\ StreamOf[d] # "requests" => table[d] = "absent"

--------------------------------------------------------------------------------
(* What makes them inductive (ProjectionProofs).                           *)

(* Streams die with the process, changes belong to an open stream, which   *)
(* shows a document as it is unless it was written since, and a served     *)
(* projection stays loaded.                                                *)
StreamFits ==
  /\ process = "down" => /\ \A s \in Stream : stream[s] = "closed"
                         /\ loaded = {} /\ work = NoWork
  /\ \A d \in pending : stream[StreamOf[d]] = "open"
  /\ \A d \in follows : stream[StreamOf[d]] # "first"
  /\ \A d \in Doc : stream[StreamOf[d]] = "open" =>
       IF d \in unseen THEN d \in moved ELSE view[d] = docs[d]
  /\ process = "serving" => Projecting \subseteq loaded

(* Only a projection with required fields meets a malformed document.      *)
FieldsFit ==
  \A d \in Doc : "malformed" \in {docs[d], view[d]} => StreamOf[d] \in {"endpoints", "venues"}

(* What a stream has told, now or before it broke, is in the table as long *)
(* as the document is what it was when the process started; and so is what *)
(* the worker is about to write.                                           *)
LoadedFits ==
  /\ \A d \in Doc \ (moved \cup PushTest) :
       /\ docs[d] \in Content
       /\ StreamOf[d] \in loaded \/ (stream[StreamOf[d]] = "open" /\ d \notin pending)
       => table[d] = docs[d]
  /\ work # NoWork /\ work.doc \notin moved => work.value = docs[work.doc]

(* A row that follows its stream is what the last snapshot showed.         *)
ViewFits ==
  \A d \in follows \ (pending \cup PushTest) : stream[StreamOf[d]] = "open" =>
    /\ view[d] \in Content => table[d] = view[d]
    /\ view[d] = "absent" /\ StreamOf[d] # "requests" => table[d] = "absent"

IInv == TypeOK /\ StreamFits /\ FieldsFit /\ LoadedFits /\ ViewFits

--------------------------------------------------------------------------------
(* Liveness.  The process is started again, each listener goes on, and     *)
(* calls of the worker return.                                             *)

Listen(s) == Open(s) \/ NextSnapshot(s) \/ \E d \in In(s) : Apply(d)

Fairness ==
  /\ WF_vars(Boot \/ Serve \/ RunFails)
  /\ \A s \in Stream : WF_vars(Listen(s))
  /\ WF_vars(LocalWrite(TRUE))

FairSpec == Spec /\ Fairness

(* Where only the listener writes rows a document that stays as it is gets *)
(* its row, whatever failed, broke or crashed before: a user, or the       *)
(* acknowledgement of a request that is mirrored.  A user that is removed  *)
(* loses it if the stream that is open in the end has shown the user; one  *)
(* that was removed between two streams keeps it for good, so the listener *)
(* does not converge on removals as it does on contents.                   *)
ListenerConverges ==
  \A d \in Doc \ PushTest :
    /\ StreamOf[d] \in {"users", "requests"} =>
         \A v \in Content : <>[](docs[d] = v) => <>[](table[d] = v)
    /\ StreamOf[d] = "users" =>
         (<>[](docs[d] = "absent") => <>[](d \in follows => table[d] = "absent"))
================================================================================
