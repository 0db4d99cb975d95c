--------------------------- MODULE ProjectionProofs ----------------------------
(***************************************************************************)
(* Proofs about Projection: for every set of documents and any number of   *)
(* writes, broken streams, failed local writes and crashes, the            *)
(* application serves complete projections, and a row that follows its     *)
(* stream is the document.                                                 *)
(***************************************************************************)
EXTENDS Projection, TLAPS

LEMMA WorkShape ==
  ASSUME TypeOK
  PROVE  work # NoWork => work.doc \in Doc /\ work.value \in Content /\ work.job \in {"fill", "invalidate"}
BY DEF TypeOK, Work, NoWork

LEMMA Kinds ==
  /\ \A d \in Doc : StreamOf[d] \in Stream
  /\ Content \subseteq Rows /\ Rows \subseteq Value /\ Inactive \in Content
  /\ "absent" \notin Content /\ "malformed" \notin Content
  /\ \A s : \A d \in In(s) : d \in Doc /\ StreamOf[d] = s
  /\ \A d \in Doc : d \in In(StreamOf[d])
BY ProjectionConstants DEF Rows, Value, In

LEMMA ChangedDocs ==
  ASSUME TypeOK, NEW s \in Stream
  PROVE  Changed(s) \subseteq In(s)
BY DEF Changed

(* What a change of d does to its row.                                     *)
LEMMA ApplyEffect ==
  ASSUME TypeOK, FieldsFit, NEW d \in Doc, Apply(d)
  PROVE  /\ d \in pending
         /\ \A x \in Doc : x # d => table'[x] = table[x]
         /\ table'[d] = IF Skipped(d) THEN table[d] ELSE view[d]
         /\ table' \in [Doc -> Rows]
         /\ UNCHANGED <<focus, docs, unseen, moved, changes, process, stream, view, work, disturbed>>
         /\ pending' = pending \ {d} /\ follows' = follows \cup {d}
         /\ loaded' = IF pending' \cap In(StreamOf[d]) = {} THEN loaded \cup {StreamOf[d]} ELSE loaded
<1>1. /\ d \in pending
      /\ UNCHANGED <<focus, docs, unseen, moved, changes, process, stream, view, work, disturbed>>
      /\ pending' = pending \ {d} /\ follows' = follows \cup {d}
      /\ loaded' = IF pending' \cap In(StreamOf[d]) = {} THEN loaded \cup {StreamOf[d]} ELSE loaded
  BY DEF Apply, Applied, remote
<1>2. IF Skipped(d) THEN table' = table ELSE SetRow(d)
  <2>1. /\ view[d] = "malformed" => StreamOf[d] \in {"endpoints", "venues"}
        /\ d \in PushTest => StreamOf[d] = "requests"
    BY PushTestsAreRequests DEF FieldsFit
  <2>2. CASE Skipped(d)
    BY <2>1, <2>2 DEF Skipped, Apply, applyUser, applyEndpoint, applyVenue, Mirror, Projects
  <2>3. CASE ~Skipped(d)
    BY <2>3 DEF Skipped, Apply, applyUser, applyEndpoint, applyVenue, Mirror, Projects,
                PutEndpoint, PutVenue, SetRow
  <2> QED BY <2>2, <2>3
<1>3. view[d] \in Value
  BY DEF TypeOK
<1>4. ~Skipped(d) => view[d] \in Rows
  BY <1>3 DEF Skipped, Projects, Rows, Value
<1> QED BY <1>1, <1>2, <1>4 DEF TypeOK, SetRow

LEMMA SnapshotEffect ==
  ASSUME TypeOK, NEW s \in Stream, NextSnapshot(s)
  PROVE  /\ stream[s] \in {"first", "open"} /\ stream'[s] = "open"
         /\ \A x \in Stream : x # s => stream'[x] = stream[x]
         /\ \A d \in Doc : view'[d] = IF StreamOf[d] = s THEN docs[d] ELSE view[d]
         /\ \A d \in Doc : d \in unseen' <=> d \in unseen /\ StreamOf[d] # s
         /\ \A d \in Doc : StreamOf[d] = s => d \notin pending
         /\ \A d \in Doc : StreamOf[d] # s => (d \in pending' <=> d \in pending)
         /\ \A d \in Doc : StreamOf[d] = s =>
              (d \in pending' <=> /\ s = "requests" => docs[d] # "absent"
                                  /\ \/ stream[s] = "first" /\ docs[d] # "absent"
                                     \/ stream[s] = "open" /\ d \in unseen /\ (view[d] # "absent" \/ docs[d] # "absent"))
         /\ UNCHANGED <<focus, docs, table, process, work, follows, moved, changes, disturbed>>
         /\ loaded' = IF pending' \cap In(s) = {} THEN loaded \cup {s} ELSE loaded
<1>1. /\ stream[s] \in {"first", "open"} /\ stream'[s] = "open"
      /\ \A x \in Stream : x # s => stream'[x] = stream[x]
      /\ UNCHANGED <<focus, docs, table, process, work, follows, moved, changes, disturbed>>
      /\ loaded' = IF pending' \cap In(s) = {} THEN loaded \cup {s} ELSE loaded
  BY DEF NextSnapshot, TypeOK
<1>2. /\ \A d \in Doc : view'[d] = IF StreamOf[d] = s THEN docs[d] ELSE view[d]
      /\ \A d \in Doc : d \in unseen' <=> d \in unseen /\ StreamOf[d] # s
      /\ \A d \in Doc : StreamOf[d] = s => d \notin pending
  BY DEF NextSnapshot, In
<1>3. \A d \in Doc : d \in Changed(s) <=>
        /\ StreamOf[d] = s
        /\ \/ stream[s] = "first" /\ docs[d] # "absent"
           \/ stream[s] = "open" /\ d \in unseen /\ (view[d] # "absent" \/ docs[d] # "absent")
  BY <1>1 DEF Changed, In
<1>4. \A d \in Doc : d \in pending' <=> d \in pending \/ (d \in Changed(s) /\ (s = "requests" => docs[d] # "absent"))
  BY DEF NextSnapshot
<1> QED BY <1>1, <1>2, <1>3, <1>4

LEMMA LocalEffect ==
  ASSUME TypeOK, NEW ok \in BOOLEAN, LocalWrite(ok)
  PROVE  /\ work # NoWork /\ work.doc \in Doc /\ work' = NoWork
         /\ \A x \in Doc : x # work.doc => table'[x] = table[x]
         /\ table'[work.doc] \in {table[work.doc], work.value}
         /\ table' \in [Doc -> Rows]
         /\ follows' = follows \ {work.doc}
         /\ disturbed' \in 0..MaxDisturb
         /\ UNCHANGED <<focus, docs, unseen, moved, changes, process, stream, view, pending, loaded>>
<1>1. work # NoWork /\ work.doc \in Doc /\ work.value \in Rows
  BY WorkShape, Kinds DEF LocalWrite
<1>2. disturbed' \in 0..MaxDisturb
  BY ProjectionConstants DEF LocalWrite, Disturb, TypeOK
<1> QED BY <1>1, <1>2 DEF LocalWrite, TypeOK, remote

LEMMA WrittenEffect ==
  ASSUME TypeOK, NEW d \in Doc, NEW v \in Value, Written(d, v)
  PROVE  /\ docs' \in [Doc -> Value] /\ docs'[d] = v /\ \A x \in Doc : x # d => docs'[x] = docs[x]
         /\ unseen' = unseen \cup {d} /\ moved' = moved \cup {d}
BY DEF Written, TypeOK

--------------------------------------------------------------------------------
LEMMA TypeStep == TypeOK /\ FieldsFit /\ [Next]_vars => TypeOK'
<1> SUFFICES ASSUME TypeOK, FieldsFit, [Next]_vars
             PROVE  TypeOK'
  OBVIOUS
<1> USE ProjectionConstants, Kinds DEF remote, listening
<1>1. CASE Boot \/ Serve
  BY <1>1 DEF Boot, Serve, TypeOK
<1>2. CASE Crash \/ RunFails
  <2>1. Down /\ disturbed' \in 0..MaxDisturb
    BY <1>2 DEF Crash, RunFails, Disturb, TypeOK
  <2> QED BY <2>1 DEF Down, TypeOK
<1>3. ASSUME NEW d \in Doc, NEW v \in Value, Write(d, v) PROVE TypeOK'
  BY <1>3, WrittenEffect DEF Write, TypeOK
<1>4. ASSUME NEW s \in Stream, Open(s) PROVE TypeOK'
  <2>1. view' \in [Doc -> Value]
    BY <1>4 DEF Open, TypeOK, Value
  <2> QED BY <1>4, <2>1 DEF Open, TypeOK
<1>5. ASSUME NEW s \in Stream, NextSnapshot(s) PROVE TypeOK'
  <2>1. view' \in [Doc -> Value]
    BY <1>5 DEF NextSnapshot, TypeOK
  <2>2. pending' \subseteq Doc
    BY <1>5, ChangedDocs DEF NextSnapshot, TypeOK
  <2> QED BY <1>5, <2>1, <2>2 DEF NextSnapshot, TypeOK
<1>6. ASSUME NEW s \in Stream, Break(s) PROVE TypeOK'
  BY <1>6 DEF Break, Disturb, TypeOK
<1>7. ASSUME NEW d \in Doc, Apply(d) PROVE TypeOK'
  BY <1>7, ApplyEffect DEF TypeOK
<1>8. ASSUME NEW d \in Doc, ApplyFails(d) PROVE TypeOK'
  BY <1>8 DEF ApplyFails, Disturb, TypeOK
<1>9. ASSUME NEW d \in Doc, Miss(d) PROVE TypeOK'
  BY <1>9 DEF Miss, TypeOK, Work
<1>10. ASSUME NEW d \in Doc, Deactivate(d) PROVE TypeOK'
  <2>1. Inactive \in Value
    OBVIOUS
  <2> QED BY <1>10, <2>1, WrittenEffect DEF Deactivate, TypeOK, Work
<1>11. ASSUME NEW ok \in BOOLEAN, LocalWrite(ok) PROVE TypeOK'
  BY <1>11, LocalEffect DEF TypeOK
<1>12. CASE UNCHANGED vars
  BY <1>12 DEF vars, TypeOK
<1> QED BY <1>1, <1>2, <1>3, <1>4, <1>5, <1>6, <1>7, <1>8, <1>9, <1>10, <1>11, <1>12 DEF Next

--------------------------------------------------------------------------------
(* The inductive invariant.                                                *)

Rest == StreamFits /\ FieldsFit /\ LoadedFits /\ ViewFits

(* The process comes and goes.                                             *)
LEMMA ProcessStep ==
  ASSUME TypeOK, Rest, Boot \/ Serve \/ Crash \/ RunFails \/ UNCHANGED vars
  PROVE  Rest'
<1> USE Kinds DEF Rest
<1>1. CASE Boot
  <2>1. /\ UNCHANGED <<focus, docs, table, stream, view, pending, loaded, follows, unseen, work>>
        /\ process = "down" /\ process' = "loading"
    BY <1>1 DEF Boot, listening
  <2>2. \A d \in Doc : stream[StreamOf[d]] = "closed" /\ StreamOf[d] \notin loaded
    BY <2>1 DEF StreamFits
  <2>3. pending \subseteq Doc /\ follows \subseteq Doc
    BY DEF TypeOK
  <2>4. StreamFits'
    BY <2>1, <2>2, <2>3 DEF StreamFits
  <2>5. FieldsFit' /\ ViewFits'
    BY <2>1 DEF FieldsFit, ViewFits
  <2>6. LoadedFits'
    BY <2>1, <2>2 DEF LoadedFits, StreamFits
  <2> QED BY <2>4, <2>5, <2>6
<1>2. CASE Serve
  BY <1>2 DEF Serve, remote, listening, StreamFits, FieldsFit, LoadedFits, ViewFits, Projecting
<1>3. CASE Crash \/ RunFails
  <2>1. /\ process' = "down" /\ stream' = [s \in Stream |-> "closed"] /\ pending' = {} /\ loaded' = {}
        /\ work' = NoWork /\ follows' = {} /\ UNCHANGED <<focus, docs, unseen, moved, table, view>>
    BY <1>3 DEF Crash, RunFails, Down, remote
  <2>2. \A s \in Stream : stream'[s] = "closed"
    BY <2>1
  <2>3. \A d \in Doc : stream'[StreamOf[d]] = "closed"
    BY <2>2
  <2>4. StreamFits' /\ FieldsFit' /\ ViewFits'
    BY <2>1, <2>2, <2>3 DEF StreamFits, FieldsFit, ViewFits
  <2>5. LoadedFits'
    BY <2>1, <2>3 DEF LoadedFits
  <2> QED BY <2>4, <2>5
<1>4. CASE UNCHANGED vars
  BY <1>4 DEF vars, StreamFits, FieldsFit, LoadedFits, ViewFits, Projecting
<1> QED BY <1>1, <1>2, <1>3, <1>4

(* A document is written: its open stream has not seen it, and it has      *)
(* moved.                                                                  *)
LEMMA WriteStep ==
  ASSUME TypeOK, Rest,
         \/ \E d \in Doc, v \in Value : Write(d, v)
         \/ \E d \in Doc : Deactivate(d)
  PROVE  Rest'
<1> USE Kinds DEF Rest
<1>1. ASSUME NEW d \in Doc, NEW v \in Value, Written(d, v),
             UNCHANGED <<focus, table, process, stream, view, pending, loaded, follows>>,
             v = "malformed" => StreamOf[d] \in {"endpoints", "venues"},
             \/ work' = work
             \/ work' # NoWork /\ work'.doc = d /\ process = "serving"
      PROVE  Rest'
  <2>1. /\ docs'[d] = v /\ \A x \in Doc : x # d => docs'[x] = docs[x]
        /\ unseen' = unseen \cup {d} /\ moved' = moved \cup {d}
    BY <1>1, WrittenEffect
  <2>2. StreamFits'
    BY <1>1, <2>1 DEF StreamFits, Projecting
  <2>3. FieldsFit'
    BY <1>1, <2>1 DEF FieldsFit
  <2>4. LoadedFits'
    <3>1. work' # NoWork /\ work'.doc \notin moved' => work'.value = docs'[work'.doc]
      BY <1>1, <2>1, WorkShape DEF LoadedFits
    <3> QED BY <1>1, <2>1, <3>1 DEF LoadedFits
  <2>5. ViewFits'
    BY <1>1 DEF ViewFits
  <2> QED BY <2>2, <2>3, <2>4, <2>5
<1>2. ASSUME NEW d \in Doc, NEW v \in Value, Write(d, v) PROVE Rest'
  BY <1>1, <1>2 DEF Write, listening
<1>3. ASSUME NEW d \in Doc, Deactivate(d) PROVE Rest'
  <2>1. work' # NoWork /\ work'.doc = d
    BY <1>3 DEF Deactivate, NoWork
  <2>2. Inactive \in Value /\ Inactive # "malformed"
    OBVIOUS
  <2> QED BY <1>1, <1>3, <2>1, <2>2 DEF Deactivate, listening
<1> QED BY <1>2, <1>3

(* A stream opens, breaks, or stops at a change it could not apply.        *)
LEMMA StreamStep ==
  ASSUME TypeOK, Rest,
         \/ \E s \in Stream : Open(s) \/ Break(s)
         \/ \E d \in Doc : ApplyFails(d)
  PROVE  Rest'
<1> USE Kinds DEF Rest
<1>1. ASSUME NEW s \in Stream, NEW x \in {"closed", "failed", "first"}, stream' = [stream EXCEPT ![s] = x],
             UNCHANGED <<focus, docs, table, process, unseen, moved, loaded, work>>,
             pending' = pending \ In(s),
             process # "down",
             x = "first" => follows' = follows \ In(s) /\ stream[s] = "closed",
             x # "first" => follows' = follows,
             \A d \in Doc : view'[d] \in {view[d], "absent"},
             \A d \in Doc : StreamOf[d] # s => view'[d] = view[d]
      PROVE  Rest'
  <2>1. /\ \A d \in Doc : StreamOf[d] # s => stream'[StreamOf[d]] = stream[StreamOf[d]]
        /\ \A d \in Doc : StreamOf[d] = s => stream'[StreamOf[d]] = x /\ d \in In(s)
    BY <1>1 DEF TypeOK
  <2>2. pending \subseteq Doc /\ follows \subseteq Doc
    BY DEF TypeOK
  <2>3. StreamFits'
    BY <1>1, <2>1, <2>2 DEF StreamFits, Projecting
  <2>4. FieldsFit'
    BY <1>1 DEF FieldsFit
  <2>5. LoadedFits'
    BY <1>1, <2>1 DEF LoadedFits
  <2>6. ViewFits'
    BY <1>1, <2>1, <2>2 DEF ViewFits
  <2> QED BY <2>3, <2>4, <2>5, <2>6
<1>2. ASSUME NEW s \in Stream, Open(s) PROVE Rest'
  <2>1. pending' = pending \ In(s)
    BY <1>2 DEF Open, StreamFits
  <2>2. /\ \A d \in Doc : view'[d] \in {view[d], "absent"}
        /\ \A d \in Doc : StreamOf[d] # s => view'[d] = view[d]
    BY <1>2 DEF Open
  <2> QED BY <1>1, <1>2, <2>1, <2>2 DEF Open, remote
<1>3. ASSUME NEW s \in Stream, Break(s) PROVE Rest'
  <2>1. pending' = pending \ In(s) /\ process # "down"
    BY <1>3 DEF Break, StreamFits
  <2> QED BY <1>1, <1>3, <2>1 DEF Break, remote
<1>4. ASSUME NEW d \in Doc, ApplyFails(d) PROVE Rest'
  <2>1. process # "down"
    BY <1>4 DEF ApplyFails, StreamFits
  <2> QED BY <1>1, <1>4, <2>1 DEF ApplyFails, remote
<1> QED BY <1>2, <1>3, <1>4

(* A snapshot arrives.                                                     *)
LEMMA SnapshotStep ==
  ASSUME TypeOK, Rest, NEW s \in Stream, NextSnapshot(s)
  PROVE  Rest'
<1> USE Kinds, SnapshotEffect DEF Rest
<1>1. pending' \subseteq Doc /\ pending \subseteq Doc /\ follows \subseteq Doc
  BY TypeStep DEF TypeOK, Next
<1>2. StreamFits'
  <2>1. process # "down"
    BY DEF StreamFits
  <2>2. loaded \subseteq loaded'
    OBVIOUS
  <2>3. \A d \in pending' : stream'[StreamOf[d]] = "open"
    BY <1>1 DEF StreamFits
  <2>4. \A d \in follows' : stream'[StreamOf[d]] # "first"
    BY <1>1 DEF StreamFits
  <2>5. \A d \in Doc : stream'[StreamOf[d]] = "open" =>
          IF d \in unseen' THEN d \in moved' ELSE view'[d] = docs'[d]
    BY DEF StreamFits
  <2> QED BY <2>1, <2>2, <2>3, <2>4, <2>5 DEF StreamFits, Projecting
<1>3. FieldsFit'
  BY DEF FieldsFit
<1>4. LoadedFits'
  <2> SUFFICES ASSUME NEW d \in Doc \ (moved \cup PushTest), docs[d] \in Content,
                      StreamOf[d] \in loaded' \/ (stream'[StreamOf[d]] = "open" /\ d \notin pending')
               PROVE  table[d] = docs[d]
    BY DEF LoadedFits
  <2>1. CASE StreamOf[d] # s
    BY <2>1 DEF LoadedFits
  <2>2. CASE StreamOf[d] = s /\ d \notin pending'
    <3>1. stream[s] = "open" /\ d \notin pending
      BY <2>2
    <3> QED BY <2>2, <3>1 DEF LoadedFits
  <2>3. CASE StreamOf[d] = s /\ d \in pending'
    <3>1. StreamOf[d] \in loaded
      BY <2>3
    <3> QED BY <3>1 DEF LoadedFits
  <2> QED BY <2>1, <2>2, <2>3
<1>5. ViewFits'
  <2> SUFFICES ASSUME NEW d \in follows \ (pending' \cup PushTest), stream'[StreamOf[d]] = "open"
               PROVE  /\ view'[d] \in Content => table[d] = view'[d]
                      /\ view'[d] = "absent" /\ StreamOf[d] # "requests" => table[d] = "absent"
    BY DEF ViewFits
  <2>0. d \in Doc
    BY <1>1
  <2>1. CASE StreamOf[d] # s
    BY <2>0, <2>1 DEF ViewFits
  <2>2. CASE StreamOf[d] = s
    <3>1. stream[s] = "open" /\ d \notin pending /\ view'[d] = docs[d]
      BY <2>0, <2>2 DEF StreamFits
    <3>2. CASE d \notin unseen
      BY <2>0, <2>2, <3>1, <3>2 DEF ViewFits, StreamFits
    <3>3. CASE d \in unseen
      BY <2>0, <2>2, <3>1, <3>3 DEF ViewFits
    <3> QED BY <3>2, <3>3
  <2> QED BY <2>1, <2>2
<1> QED BY <1>2, <1>3, <1>4, <1>5

(* A change is applied.                                                    *)
LEMMA ApplyStep ==
  ASSUME TypeOK, Rest, NEW d \in Doc, Apply(d)
  PROVE  Rest'
<1> USE Kinds, ApplyEffect DEF Rest
<1>0. pending \subseteq Doc /\ follows \subseteq Doc
  BY DEF TypeOK
<1>1. stream[StreamOf[d]] = "open" /\ process # "down"
  BY DEF StreamFits
<1>2. StreamFits'
  <2>1. loaded \subseteq loaded'
    OBVIOUS
  <2> QED BY <1>1, <2>1 DEF StreamFits, Projecting
<1>3. FieldsFit'
  BY DEF FieldsFit
<1>4. LoadedFits'
  <2> SUFFICES ASSUME NEW x \in Doc \ (moved \cup PushTest), docs[x] \in Content,
                      StreamOf[x] \in loaded' \/ (stream[StreamOf[x]] = "open" /\ x \notin pending')
               PROVE  table'[x] = docs[x]
    BY DEF LoadedFits
  <2>1. CASE x = d
    <3>1. view[d] = docs[d]
      BY <1>1, <2>1 DEF StreamFits
    <3>2. ~Skipped(d)
      BY <2>1, <3>1 DEF Skipped, Projects
    <3> QED BY <2>1, <3>1, <3>2
  <2>2. CASE x # d
    <3>1. CASE StreamOf[x] \in loaded \/ (stream[StreamOf[x]] = "open" /\ x \notin pending)
      BY <2>2, <3>1 DEF LoadedFits
    <3>2. CASE StreamOf[x] = StreamOf[d] /\ x \notin pending'
      BY <1>1, <2>2, <3>2 DEF LoadedFits
    <3> QED BY <2>2, <3>1, <3>2
  <2> QED BY <2>1, <2>2
<1>5. ViewFits'
  BY <1>0 DEF ViewFits, Skipped, Projects
<1> QED BY <1>2, <1>3, <1>4, <1>5

(* The worker reads a document, and writes a row.                          *)
LEMMA WorkerStep ==
  ASSUME TypeOK, Rest,
         \/ \E d \in Doc : Miss(d)
         \/ \E ok \in BOOLEAN : LocalWrite(ok)
  PROVE  Rest'
<1> USE Kinds DEF Rest
<1>1. ASSUME NEW d \in Doc, Miss(d) PROVE Rest'
  <2>1. /\ UNCHANGED <<focus, docs, table, process, stream, view, pending, loaded, follows, unseen, moved>>
        /\ process = "serving" /\ work' = [job |-> "fill", doc |-> d, value |-> docs[d]]
    BY <1>1 DEF Miss, remote, listening
  <2>2. StreamFits' /\ FieldsFit' /\ ViewFits'
    BY <2>1 DEF StreamFits, FieldsFit, ViewFits, Projecting
  <2>3. LoadedFits'
    BY <2>1 DEF LoadedFits
  <2> QED BY <2>2, <2>3
<1>2. ASSUME NEW ok \in BOOLEAN, LocalWrite(ok) PROVE Rest'
  <2>1. /\ work # NoWork /\ work.doc \in Doc /\ work' = NoWork
        /\ \A x \in Doc : x # work.doc => table'[x] = table[x]
        /\ table'[work.doc] \in {table[work.doc], work.value}
        /\ follows' = follows \ {work.doc}
        /\ UNCHANGED <<focus, docs, unseen, moved, process, stream, view, pending, loaded>>
    BY <1>2, LocalEffect
  <2>2. StreamFits' /\ FieldsFit'
    BY <2>1 DEF StreamFits, FieldsFit, Projecting
  <2>3. LoadedFits'
    BY <2>1 DEF LoadedFits
  <2>4. ViewFits'
    <3>1. \A d \in follows' : d \in Doc /\ table'[d] = table[d]
      BY <2>1 DEF TypeOK
    <3> QED BY <2>1, <3>1 DEF ViewFits
  <2> QED BY <2>2, <2>3, <2>4
<1> QED BY <1>1, <1>2

LEMMA RestStep == TypeOK /\ Rest /\ [Next]_vars => Rest'
BY ProcessStep, WriteStep, StreamStep, SnapshotStep, ApplyStep, WorkerStep DEF Next

LEMMA InitInvariant ==
  ASSUME Init
  PROVE  IInv
<1> USE ProjectionConstants, Kinds
<1>1. TypeOK
  BY DEF Init, TypeOK, Value, Rows
<1>2. \A d \in Doc : stream[StreamOf[d]] = "closed"
  BY DEF Init
<1>3. StreamFits /\ ViewFits
  BY <1>2 DEF Init, StreamFits, ViewFits
<1>4. FieldsFit
  BY DEF Init, FieldsFit
<1>5. LoadedFits
  BY <1>2 DEF Init, LoadedFits
<1> QED BY <1>1, <1>3, <1>4, <1>5 DEF IInv

LEMMA Invariance == IInv /\ [Next]_vars => IInv'
BY TypeStep, RestStep DEF IInv, Rest

(* The inductive invariant of the local copies holds in every behaviour:   *)
(* whatever clients write, streams break or the worker updates itself.     *)
THEOREM InvariantHolds == Spec => []IInv
BY InitInvariant, Invariance, PTL DEF Spec

(* Rows and documents keep their types: a document without its required    *)
(* fields never becomes a row.                                             *)
THEOREM TypeCorrect == Spec => []TypeOK
<1>1. IInv => TypeOK
  BY DEF IInv
<1> QED BY <1>1, InvariantHolds, PTL

(* When the application serves, every well-formed document that nobody     *)
(* wrote since the process started has its row.                            *)
THEOREM ServesComplete == Spec => []ServesFresh
<1>1. IInv => ServesFresh
  BY PushTestsAreRequests DEF IInv, StreamFits, LoadedFits, ServesFresh, Projecting
<1> QED BY <1>1, InvariantHolds, PTL

(* A row that follows its stream, with nothing more to come, is the        *)
(* document.                                                               *)
THEOREM FollowersCaughtUp == Spec => []CaughtUp
<1>1. IInv => CaughtUp
  BY DEF IInv, TypeOK, StreamFits, ViewFits, CaughtUp
<1> QED BY <1>1, InvariantHolds, PTL
================================================================================
