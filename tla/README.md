# A TLA+ model of pubnightpicker's durable core

pubnightpicker helps a group choose a pub by polling. A React application writes
polls, users and requests to Firestore. `last_orders`, a Go service, watches
Firestore and turns what it sees into emails, push notifications, completed
polls and deleted accounts. It does all of its work in *cells*, small durable
state machines kept in SQLite and executed by a library of this repository,
`cellar`; email goes through another one, `durable_email`.

This directory specifies the parts of that system where a mistake is easy to
make and hard to test: what happens when processes die between two steps, when
an answer is lost after the work was done, when two observers see the same
event, when a timer races a reply. `PROJECT.json` lists the components, the
hazards found in the code (each at its line), the runs, the source lines behind
every definition, and the theorems.

To run a model: `tlc -workers 2 -config MCCellar.cfg MCCellar`. To check a proof:
`tlapm CellarProofs.tla`. The list of runs is below.

## 1. Inventory

| part | state it keeps | operations | modelled in |
|---|---|---|---|
| cellar runtime (`cellar/pkg/cellar`, `cellar/internal/sqlite`) | rows of cells: state, cursor, NotBefore, creation time; in memory the capacity channel, a one-place error channel, dispatch goroutines | Add, Start (validate handlers, Recover), claim, dispatch, ApplyResult (Complete, Retry, RetrySequence, Kill, children, application work), Stop | `Cellar`, promise in `CellLifecycle` |
| cellar fanout | a parent cell, children with derived identifiers | identify targets, create children | `DurableEmail` (the recovery fanout) |
| cellar timers | a cell per timer, its deadline | Schedule, Execute, next deadline, a failing callback | `AutoComplete` |
| durable email (`durable_email`) | `email_progress` rows per token and recipient, the stored request, Send / fanout / Verify cells | Setup, Recovery, Verify, Post, RecoverSubmissions, RecordEvent | `DurableEmail` |
| Firebase idempotency (`components/firebaseidempotency`) | local record per site, shared Firestore key with an owner | Check, Populate Remote, Emit Truth | `TruthEmission` |
| local idempotency (`components/idempotency`) | a record per identity | look, then claim in the transaction of the result | `AutoComplete` |
| admin delete (`services/admindelete`, its listener) | request and audit documents, kill switch, Evaluate and Persist cells, two watches | observe, pause, evaluate, delete the account, persist the outcome | `AdminDelete` |
| projections (`components/notificationprofile`, `venuecache`, the mirror) | SQLite copies of users, endpoints, venues; acknowledgements; one stream each | snapshot, put, remove, read through, invalidate | `Projection` |
| push (`plugins/push`, `plugins/pushevents`, `plugins/polls`) with the rate limit | `push_deliveries` rows, Deliver and Wait cells, tokens of a day, last known settings | populate, deliver, retry, silence, expire, invalidate, then record | `PushDelivery` |
| recurring events (`components/recurrence`, its listener) | `next_occurrence_date` of venues, claimed identities, created polls | observe, evaluate, advance, create the poll | `Recurrence`, `EventVenues` |
| automatic completion (`services/autocomplete`) | timer cell, cells of a discovery | daily timer, discover, candidate, close, ambiguous | `AutoComplete` |
| poll emails (`plugins/polls`, `components/completionactions`, `database/listeners/newpolls`, `completedpolls`) | watches, cutoff date, `open_actions` and `comp_actions` | observe, notify, send, mark | `PollNotices` |

How they interact. A listener turns a Firestore document into a sequence cell.
The idempotency sequence decides whether the event is new and, if so, creates the
*Truth* fanout cell, whose children are the application's actions: an email
sequence, push deliveries, an admin-delete evaluation, a poll. Handlers read
recipients and venues from the projections. Every handler returns a result, and
cellar applies it in one SQLite transaction: move the cursor, create children, run
application SQL. Actions write to Firestore, and what they write comes back
through the listeners: automatic completion completes a poll, which is announced;
an advanced event venue is observed again and gets its poll. `App.Run` calls
`RecoverSubmissions` of durable email, waits until the projections are complete,
then starts cellar (which releases the claims a dead process left) and the
listeners. Firestore, Firebase Auth, the push services and the mail provider are
outside: calls to them can fail, and can succeed without anyone learning of it.

What is hard here:

- *Crash between two effects.* Handlers have at-least-once execution; whatever
  they do outside the transaction may be repeated.
- *Lost answers.* `CreateKey`, `DeleteUser`, `Send` and the Firestore transaction
  of `PersistOutcome` may take effect and return an error.
- *Races inside a process.* Scheduler, dispatch goroutines and Stop share two
  channels; two watches of the admin-delete listener share a switch; the worker
  and a listener write the same row of a projection.
- *Races between deployments.* The Firestore key is shared, the databases are not.
- *Stale reads.* Handlers read, then act in a later transaction: a candidate whose
  poll is completed by hand, a venue that is edited before its poll is created.
- *Identities.* Suppression is for ever. An identity that is used up before its
  work is done, or that comes back for different work, loses that work.
- *Time.* `VerifyDelay` stands for "the provider knows by now"; notifications
  expire; deadlines, days and tokens turn over at boundaries.

What makes each part correct is stated in section 4, run by run.

## 2. Modules

| module | what it is |
|---|---|
| `CellLifecycle` | abstract: what cellar promises of a cell (ADR-0002, ADR-0016) |
| `Cellar` | the runtime: store, scheduler, goroutines, process |
| `CellarProofs` | proofs about `Cellar` for every value of its constants |
| `TruthEmission` | the idempotency sequence of one identity, across deployments |
| `TruthEmissionProofs` | proofs about it |
| `DurableEmail` | one token's email: rows, sequences, recovery, provider, webhook |
| `DurableEmailProofs` | proofs about it |
| `AdminDelete` | one request: listener, kill switch, service, Firebase |
| `AdminDeleteProofs` | proofs about it |
| `Projection` | local copies of collections: streams, tables, readiness |
| `ProjectionProofs` | proofs about it |
| `PushDelivery` | one notification: population, deliveries, what follows |
| `PushDeliveryProofs` | proofs about it |
| `Recurrence` | calendar and rules as operators, with a reference definition |
| `EventVenues` | event venues: observe, advance, create polls |
| `EventVenuesProofs` | proofs about it, and about the calculation in `Recurrence` |
| `AutoComplete` | the daily timer, local idempotency, discovery to close |
| `PollNotices` | emails about polls, composed with `AutoComplete` |
| `PollNoticesProofs` | proofs about both |
| `MC…` | instances for TLC; each `MC….cfg` is one run |

The modules about the application do not repeat the scheduler. They use cells the
way `Cellar` shows they behave: exclusively claimed, executed again at the same
step after a crash, moved in one transaction with their children and application
work. In turn `AdminDelete`, `PushDelivery`, `EventVenues` and `PollNotices` use
what `TruthEmission` shows (a key is emitted once and an observation leads to it)
and `PollNotices` what `DurableEmail` shows (a token is sent once, some day).

Definitions whose comment begins with "Mutant" are variants of the definition
that follows them, with a plausible bug. They are not part of the specification;
each shows that a property can fail.

### Cellar

`cells[c]` is a row of the store (`ABSENT` when there is none). A store operation
is one transaction in SQLite and one critical section in `MemoryStore`, so it is
one step. `sched` is the place in `Scheduler.Run`: `select` (the first select),
`recheck` (the non-blocking look at the context and errors once a token is held),
`claim`, `poll` (waiting for the next poll), `draining` (`dispatches.Wait`),
`returned`. Each worker slot holds one dispatch goroutine: `run` (handler), `apply`
(transaction), then `done` or `failed`, and `DispatchEnds` hands an error to the
channel if there is room and gives the token back. A handler is arbitrary: it may
fail, or return any result with any of the allowed children and NotBefore. A result
is one of the five types of package `cellar`: the interface has an unexported method,
and no handler of the repository returns nil, a pointer or a type that embeds a
result. For such a value the default branch of `StoreResultApplier`
(`pkg/cellar/result.go:157`) would report success and leave the cell claimed, and
`NoSilentOrphan` would not hold; as it is, the branch is reached by `ErrorResult` alone.
`Boot`, `Start`, `StartRefused` (a stored step has no handler in this build, or the
store fails in `ListActive` or `Recover`),
`Stop`, `Exit` and `Crash` are the process; `Builds` lets a restart bring another
set of handlers. `ClaimNext` takes the oldest runnable row; rows of equal age are
ordered by identifier in the code; identifiers are arbitrary, so any of them may be next.

### TruthEmission

One identity (listener and event key). `cell[o]` is the step of observation
`o`'s sequence cell, `run[o]` how far its handler has come: Check reads the
local record, then the remote key, then applies `InsertUnlessExistsWork`; Populate
Remote creates the key or reads its owner; Emit Truth creates the fanout cell. A
rejected insert (`ErrClaimRejected`) is an error that ends the run of the process
(it starts again and the repeated Check is killed by the local record).
`LoseDatabase` is not something the code does; it is the operational accident that
the remote key exists for.

### DurableEmail

One token. `row[r]` is a line of `email_progress`; of `submitted_at` only "set or
not" and "`VerifyDelay` ago" (`ripe`) matter. Sequences `Op` carry the token
through Setup, Recovery and Post; recovery creates a fanout cell, which creates a
Verify cell per waiting recipient. `wire` holds requests the provider has neither
taken nor lost, also after the client gave up on them; `mail[r]` counts what it
accepted. The submission policy and the guard are a free choice between Defer,
BestEffort and MarkSubmitted. Reads whose result is used after other steps could
intervene are separate steps (`ReadCandidates`, `ReadWaiting`, `ReadUnresolved`,
`ReadPending`).

Two assumptions are explicit. `Settles`: `VerifyDelay` after `submitted_at` the
request has left, has been taken or lost, and the provider's log tells which. The
code rests on it; a process suspended between `markSubmitted` and `Send` for longer
than `VerifyDelay`, or a lagging provider log, breaks it and with it the argument
against duplicates. `Alone`: one worker, or one sequence per token. `last_orders`
runs one worker; with two, `pendingRecipients` and `markSubmitted` of two sequences
interleave.

### AdminDelete

One request document. `mode` is the configuration of the running process; each
start chooses one. The listener's `watchOnce` is `SeeRequest`, `GateRequest`,
`EnqueueRequest`; `watchPause` is `SeePause`, `ReadPause` (a Get of its own, not the
snapshot), and `RunOnce` is `GateScan`, `Scan`. Undelivered snapshots coalesce, so
`event` holds the latest status only and `pauseEvent` is a flag. Evaluate is
`ReadStatus` … `Conclude`, one step per external call; Persist is `PersistOutcome`
(one Firestore transaction) and `PersistCompletes`. The phase is fixed when the
cell is enqueued (`PhaseOf`), while Evaluate decides by the `mode` it finds.

### Projection

A document belongs to one collection; its contents are abstract. `table[d]` is its
row, `view[d]` what the last snapshot showed, `unseen` what was written since,
`pending` the changes of a snapshot that are still to be applied one by one.
`NextSnapshot` folds several writes into one snapshot, and a new stream replays the
collection. Applying a change is `applyUser`, `applyEndpoint`, `applyVenue` or
`Mirror`: a malformed document keeps its old row, a removed one loses it, the mirror
skips removals, and push tests (`PushTest`), whose handler writes the acknowledgement
itself. A failed write ends a projection's stream and with it the run
(`RunFails`), the mirror's stream is opened again. What is removed while a stream is
closed is in no replay, so its row stays (section 6): `CaughtUp` and
`ListenerConverges` speak of removals that the present stream has shown. The worker races the listener
in two places: the read-through of the venue cache (`Miss`, then `LocalWrite`) and
the invalidation of an endpoint (`Deactivate`, then `LocalWrite`). `focus` chooses the
collections a behaviour follows, since nothing but the process joins them.

### PushDelivery

One notification of any of seven kinds. `Handle` is the handler of its Truth: it
selects endpoints (eligible users, without the author of a message and without
endpoints that the earlier subscriber served (`delivered`, one of `ServedBefore`), members
of the event or holders of the role only) and commits rows, Deliver cells and the cell
that waits, once: a notification that has rows already is left alone. A delivery is one of `Expire`, `AwaitSettings`, `Silence`, `AwaitToken`,
`BeginSend`, in the order of the guards of `deliverHandler`, and then the answer of
the push service: accepted, refused (the endpoint is deactivated in Firestore and
locally before the row is Rejected), or failed with or without having been taken.
`Remaining` is the token source with its reset at midnight; tokens and settings are
lost with the process. `Wait`, `Mark`, `AckPushTest` and `DeletePushTestRequest` are
what follows. The clock counts in units of the shortest back-off; `RetryAt` caps every
retry at the expiry, as the code does.

### Recurrence and EventVenues

`Recurrence` translates `rules.go` and `eligibility.go`: a day is a number, a missing
field an empty set, London midnights carry the hour of summer time because the code
counts weeks from hours. `TakesPlace` and `IsFirst` say what a rule means, without
the scan the code makes. The daily listing asks the venue cache, but
`venuecache.Service.ListEventVenues` forwards to the query of Firestore and does not
read the local table, so `ListEventVenues` is over the documents. `EventVenues` is the sequence from an observation to a
poll. An identity is claimed together with its Truth, and the evaluation, which
reads nothing but the evidence, together with the observation. `Advance` and `Create`
are Firestore transactions; `CreateReads` is a read before one. `Occurrence` is the
table of what `computeOccurrence` gives on the days of the model, so that TLC does
not scan years in every state; an ASSUME of `MCEventVenues` compares the table with
the operator, and says which tables are `Steady` (section 5).

### AutoComplete and PollNotices

Time is counted in half days, split at 16:00. The timer cell is `RunOnce` (the
callback adds a cell), `TimerRetries` (the Retry is stored) and `RunOnceFails` (an error
deletes the timer). Local idempotency is `Exists`, then `InsertUnlessExistsWork` or
`ClaimRejected`, which ends the run. Candidate makes three reads that anyone may
write between; `Decide` is its decision. Cells are a set, any number of them in
execution. `PollNotices` adds the two watches, the handlers, the send sequences and
the action history. `Delivers` says which changes reach a watch: a start delivers
everything that matches, the opened listener takes Added only, the completed one
Added and Modified. A sequence of sends and its mark are one step, because nobody
else reads what lies between.

## 3. Bounds

Every bound is a constant. `MaxDisturb` limits what the environment does to the
system (crashes, stops, failures, lost answers): two allow a second failure during
the recovery from the first, which is where recovery code goes wrong; three in
`TruthEmission`, where that is cheap; one in `admin_delete`, `events` and `polls`, whose
handlers are many and write to Firestore in one place each, so that a single
repetition shows what repetition does. `MaxTime` is a clock with an instant before
and one after a deadline. `MaxSends` limits submissions; three are one more than two
recipients in separate attempts need. `ServedBefore` is nothing or one of the two
endpoints, so that a message can find its recipients served in part. `MaxOutside` (the operator and the user's
client), `MaxChanges` (writes of clients, changes of settings and subscriptions) and
`MaxEdits` (edits of polls and venues) bound people: one edit during the work, two
where a first one has to prepare the case (a document removed and written again, a
rule changed and changed back).

`TTL` = 2, `Midnight` = 1, `Maximum` = 1: with two endpoints the second finds no token,
waits for midnight and still has an instant before the expiry. `LastTime` = 2 holds a
morning, the timer's half day and the next morning; `MaxVotes` = 1 with two venues
gives a winner, a tie and no votes. `FirstDay`..`LastDay` are a Monday and a Tuesday for
`events`, a fortnight for `events_fortnight`. `SampleRule` and `SampleDay` are the rules
and days on which the calculation is compared with its meaning: ends of months and
of a year, a leap day, both clock changes, every frequency, intervals, last and
fifth weekdays, and malformed rules.

Instances are chosen so that the cases happen: two workers so that goroutines
race; a cell of two steps and a child whose identifier the application chose, so
that it can be used again; two observations at one site and one at another, so
that both the local and the remote check decide; two recipients, so that a request
can concern some of them. Symmetry is used only in `email_race`, which has no liveness.

## 4. Runs

| run | result | question |
|---|---|---|
| `cellar` | holds | are claims exclusive, tokens conserved, failures reported, clean returns clean; is `CellLifecycle` implemented; do a stop and a failure end the run, does accepted work complete? |
| `truth_emission` | holds | is a Truth emitted at most once, is neither cache nor key an empty promise, does an observation lead to the Truth? |
| `email_recovery` | holds | does nobody get the message twice, is acceptance never invented, are suppression and evidence final, is every recipient settled some day? |
| `email_race` | holds | two workers, late log, every event: is recorded evidence kept when `Alone` and `Settles` do not hold? |
| `admin_delete` | holds | is `auth_deleted` true of the account, are outcomes final, is a pending request never dropped, does it get an outcome? |
| `projection` | holds | does no work run on rows older than the process, does a stream that caught up leave the document's row, do rows converge on the contents of their documents, and on removals that the stream has shown? |
| `push` | holds | do rows and records say what happened, is silence final, does every notification end? |
| `events` | holds | has an event one poll for a date, is the calculated day the first its rule means, are stored date and poll brought up to date? |
| `polls` | holds | is a day discovered once, is the action history true, does a person's completion win, are due polls and announcements served? |
| `admin_delete_unpause` | **violated** | does a pending request get an outcome when the switch is closed and opened again? |
| `admin_delete_promotion` | **violated** | does a validated request go on to real deletion? |
| `events_fortnight` | **violated** | does the recalculation of an every-second-week event converge? |

`email_race` does not check `NoDuplicate`: without the two assumptions the
property does not hold, and the documents do not claim it. The duplicate that a
suspended process or a lagging log causes happens in this run; what it checks is that
evidence is kept nevertheless.

`ApplyResult` of the store is one SQLite transaction and one step of `Cellar`, and
`ApplyFails` changes no row: that a transaction is not half applied is taken from
SQLite, not checked. In `PollsSound` what was sent is a set, so an identical second
send by a repeated handler does not show there; that the provider does not get it
twice is the subject of `DurableEmail`.

The liveness properties name what the code cannot overcome, and these are its
limits rather than conveniences of the model: a sequence whose content conflicts
with the stored request (`Poisoned`), a cell about a deleted poll or venue that ends
every run (`Poison`), an observation whose Add failed (lost until the next start), an
event without a name, which fails the daily list, and the identities that edits use
up (`Stuck`, `Dropped`). Each is a hazard in `PROJECT.json`.

The deadlock check is on for `Cellar` and `DurableEmail`. It is off for the other
modules, which follow one event, document or span of days to its end and then rest.

### Fairness

Weak fairness of the scheduler, goroutines, handlers, watches and the provider's
answers: Go runs runnable goroutines, calls have timeouts, watches that break are
opened again after a delay (`listeners/admindelete/listener.go:77`). Weak fairness of
starting: a process manager restarts the service. In `Cellar` claiming is a step of
the scheduler, which has weak fairness like the goroutines; which cell it takes is
`ClaimNext`'s order, not an assumption. What is strongly fair there is the completion
of a step that is executed again and again, and a boot of a build with every handler
among the builds that are booted again and again: the application's and the
operator's part of the bargain (a handler that retries for ever starves younger cells
under one worker, and a build without the handler refuses to start; both are hazards
in `PROJECT.json` that no property covers). `AdminDelete` and `DurableEmail` leave the
order of cells out, and assume strong fairness of claiming instead, because
`ClaimNext` prefers the oldest runnable row and rows that wait let others pass: per
phase in `AdminDelete`, and per kind of cell in `DurableEmail`, where the recovery
cells are younger than the sequence that waits for them. In
`DurableEmail` the policy lets a submission through some day. `PushDelivery` assumes
only that the worker goes on and that time passes: the push service may fail for
ever and the settings may stay unknown. `EventVenues` and `PollNotices` assume that the worker
executes some cell it can execute, that watches deliver and that timers fire.
Disturbances, edits and the passing of days are never fair: they need not happen,
and they are finite.

## 5. Proofs

TLAPS checks these for every value of the constants: any number of cells, handlers,
workers, deployments, recipients, endpoints, documents, polls and days, and with no
bound on disturbances but its being a number. Every safety property of the passing
runs is a theorem. The assumptions are the named
ASSUMEs of the modules; TLC evaluates them in the runs. Each inductive invariant
(`IInv`, in the module it is about) was an invariant of TLC runs before it was proved.

**CellarProofs**: `TypeCorrect`, `ClaimsAreExclusive`, `CapacityIsConserved`,
`OrphansAreReported`, `ReturnIsClean`, `RuntimeKeepsLifecycle`. The inductive invariant
is `TypeOK`, `RunShape`, `ExclusiveClaim`, `NoSilentOrphan` and `TokensConserved`. None of
the last three is inductive alone. That `ApplyResult` settles a claim without making an
orphan needs `ExclusiveClaim` (no other goroutine owns the row); that a crash or an
exit leaves no goroutine needs `RunShape`, which ties process, scheduler and slots
together; `CleanReturn` follows because a nil outcome means an empty error channel.
Token counting uses lemmas on the cardinality of `Busy`. `RuntimeKeepsLifecycle` is the
refinement: `Cellar` implements `CellLifecycle`. A claim, a move with its children and a
recovery are steps of the lifecycle, by the same invariant (a result is applied to
the row as it was claimed) and one on cursors, which stay inside the steps of their
cell; everything else leaves the mapped state alone.

**TruthEmissionProofs**: `TypeCorrect`, `EmittedAtMostOnce`, `CacheIsBacked`, `KeyIsServed`. The
inductive invariant adds `RunFits` (where a handler is agrees with its cell's step,
and handlers die with their process), `KeyFits` (only the owner of the key gets to
Emit Truth; who was told "foreign" is not the owner) and `TruthFits` (an emitted
Truth has an owner whose cell has ended). At-most-once is then: Emit Truth is only
reached by the owner, there is one owner for ever, and its cell ends with the step.

**DurableEmailProofs**: `TypeCorrect`, `AcceptanceIsReal`, `WaitingAlwaysVerified`,
`EvidenceIsFinal`, `SuppressionIsFinal`, `NoDuplicates`. The first four hold for any number
of workers and sequences racing for a token and for a provider that never settles.
The last two carry the hypotheses of their properties (`Alone`, and `Settles` for
duplicates): the runs show both with and without them. The invariant: where a
handler is agrees with its cell, its process and the recipients it holds (`RunFits`);
attempts are numbered (`NumbersFit`); nothing precedes a stored request
(`RequestFits`); an answer in a handler's hand is true (`AnswerFits`); a suppressed
recipient is settled, and nobody about to submit holds it (`SuppressedFits`). Against
duplicates, `AttemptsFit` says that a recipient has at most one of a message, a request
on the wire and a handler about to send one, none of them while its row is Pending
without `submitted_at` (`OnceFits`); and it ties the rows through recovery (`PostFits`,
`StageFits`, `FanoutFits`, `VerifyFits`): the rows of an attempt move together, a
recipient has one Verify cell at a time, no request of it is on its way by then, and
what the log did not show is not there. `EmailConstants` says that operations, fanout and Verify
cells have different identifiers, and that a request has some content.

**AdminDeleteProofs**: `TypeCorrect`, `DeletedIsTrue`, `PendingIsKept`,
`OutcomesAreFinal`, for any set of configurations and any number of disturbances.
`AuthDeletedIsReal` alone is not inductive: the outcome travels from the handler's
hand through the Persist cell to the document, so `DeletedFits` says it is true at
each place. `WorkFits` ties the worker's place to the cell it executes (a handler
at "conclude" still has its Evaluate cell, one at "complete" has written the
status), and `KeyFits` says that cells stand for claimed keys and that nothing
stands for a request that was not made. `OutcomesAreFinal` is an action property: only
the two Persist steps write status and audit, and `PersistedStep` shows what they
write.

**ProjectionProofs**: `TypeCorrect`, `ServesComplete`, `FollowersCaughtUp`, for any
documents and collections. `StreamFits` says that streams and what they still have to
deliver die with the process, and that an open stream shows a document as it is
unless it was written since; `LoadedFits` that what a stream has told, now or before
it broke, is in the table; `ViewFits` that a row which follows its stream is what
the last snapshot showed, also when the worker writes the row itself.

**PushDeliveryProofs**: `DeliveriesAreSound`, `SilenceIsFinal`. `WorkFits` says that the
call under way belongs to a Pending row and that what it has learnt is true,
`CountsFit` that of an open delivery every message is one whose answer was lost,
`StageFits` that there is nothing before the Truth's handler has committed.

**EventVenuesProofs**: `OnePollPerDate` for any rules; `EventsAreSound` for rules that
are `Steady`: an occurrence is not in the past and stands until it has passed, and an
event that is over stays over. Without that the statement is false, which is finding
3. Of a venue nobody has edited the stored date was calculated on some day so far
(`NextFits`); so one that is wrong today has passed, and every stale identity names a
date that has passed or none. Advancing stores a date that has not passed, or none
for good: no identity is met a second time (`KeysFit`).

The second half of the module is about `Recurrence`. `OccurrencesAreFirst`: for every
well-formed rule and every day, `computeOccurrence` gives the first day from then on
that the rule means and its interval does not skip, or nothing if there is none for
400 days; excepted are weeks counted across the day the clocks go forward
(`ShortWeek`), the same case that `NextIsFirst` leaves out. `NextIsFirstHolds` says so of
any sample of rules and days, where TLC looks at nineteen rules and twenty-eight days.
Its hypothesis `Sampled` is what TLC checks of the instance's rules (`Tables` in
`MCEventVenues`): a field that is not a list has one value or none (`WellFormed`), and
an interval of weeks is at most 29 (`Counted`). Some bound is needed: summer time lasts
thirty weeks at least, so an occurrence the lost hour hides is followed, before the
clocks go back, by a day that is taken for one (`HitAcrossSpring`). With an interval of
52 weeks that is no longer so (section 6). Integers are unbounded here and the
code's have 64 bits: intervals of billions, which take the steps past the last year
Go can represent, are not covered.

The argument, in the order of the lemmas. The calendar: a day lies in one year and
one month (`YearOfDay`, `YearUnique`, `MonthOfDay`, `MonthUnique`), from the lengths of years
and months alone. Within a month, counting weekdays and counting by sevens agree
(`CountWeekdays`), so what `monthlyOccurrenceInMonth` returns is the days that
`MatchesMonth` describes, at most one of them (`OccurrencesOfMonth`, `OneInMonth`). The loops
over months and years are one search (`StepSearch`): the least step that hits, which
exists because the numbers are well-founded, finds the first day (`FirstStep`); no
induction is needed. The loop over days counts hours: `WeeklyMatch` says when that
agrees with counting weeks, and `WeeklyIsFirst` that the first hit is right. Last, a rule
that has a day at all has one again within what the loops reach: every fifth weekday
and every 29 February of a weekday come back (`FifthOfYear`, `LeapYearsAhead`).

With that, `PlainRulesAreSteady` proves `Steady` from the code's calculation for every
rule that skips no week, month or year, and for single dates: `PlainEventsAreSound`
is `EventsSound` without an assumption about the table of occurrences.

**PollNoticesProofs**: `PollsAreSound`, `ManualCompletionWins`, `FixedRateKeepsCadence`.
One invariant for both modules. `DiscoveryFits`: a day's count of discoveries is
whether it is claimed, and a claim is for ever. For the emails, `MailIsAlone` and
`SentIsDone` say that an identity has one handler, or one sequence for an action, and
nothing sent that is still to be sent; they rest on `ChangedIsNew` (a watch holds only
changes whose identity is unclaimed) and `SendsFit` (a sequence writes to everyone who
wants the email, nobody twice, whoever acted included). `ManualCompletionWins` is an
action property: only Close writes a poll without a person, and not a completed one.
`FixedRateKeepsCadence` is about every cadence, where TLC looks at small numbers.

Only model-checked: every liveness property (fairness is out of the prover's
reach). The three violations of section 6 are runs by nature.

## 6. Findings

1. *A lost wake-up on unpause* (`listeners/admindelete/listener.go:99`, run
   `admin_delete_unpause`). `watchPause` runs its scan only if an earlier read saw
   the switch paused. The read is a Get after the snapshot, so closing and opening
   the switch quickly is seen as open both times, and a request that `watchOnce`
   skipped in between stays pending until a restart.
2. *A real-delete key used up by a dry run* (`services/admindelete/service.go:110`, run
   `admin_delete_promotion`). A cell enqueued for the `real_delete` phase and executed by
   a process restarted in dry-run mode concludes the phase without a deletion; the
   idempotency key suppresses it for ever after.
3. *An interval of weeks never settles* (`components/recurrence/eligibility.go:31`, run
   `events_fortnight`). A stale event is identified by venue, stored date and rule,
   and an interval greater than one is counted from the week of the evaluation. The
   stored date therefore swings, comes back to a value whose identity was claimed a
   fortnight before, and stays in the past for good.

Seen while modelling, without a run of their own:

- *Removals are lost while nobody listens.* `notificationprofile/listener.go:25` says
  that the listener keeps the projection converged with Firebase, and CDD-0009
  (`docs/cdd/0009-notification-projection.md:103`) that the service "MUST be able to
  recover from interruption and restore convergence with Firebase". A new stream
  replays the documents that exist (line 119: "which is what rebuilds a lost
  projection"). A user, an endpoint or a venue removed between two streams, or while
  the process is down, is not among them: no change of kind Removed ever comes, and
  nothing but such a change deletes a row (lines 122-150, and the same in the venue
  cache's listener). The row is served for good: a removed user's endpoints stay
  eligible until the push service refuses them, and a removed venue is found without a
  read of Firestore. `Projection` has exactly these behaviours. With "absent" among the
  contents of the first clause of `ListenerConverges` TLC finds one in a few steps
  (first snapshot, break, removal, new stream), which is why the property is confined
  to contents and to removals that the stream has shown.
- `services/admindelete/service.go:153` checks the user's documents and deletes the
  account in two calls. A client that is still signed in may write between them; no
  code between two services can exclude it, though the design document does in words.
- `isWeeklyIntervalMatch` (`rules.go:177`) divides elapsed hours by the hours of a week.
  The week in which the clocks go forward is an hour short, so every interval that
  crosses it is counted one week too few. `NextIsFirst` leaves exactly this case out
  (`CrossesSpring`). An interval as long as a year can miss its days altogether: every
  52 weeks on a Monday, evaluated on Tuesday 27 October 2026, gives no date, because
  each Monday that should match lies in the last week of a summer time and is
  counted one week short.
- `CompletePoll` sets its `completed` flag inside the Firestore transaction and does
  not reset it when Firestore runs the transaction again (`source.go:99`; the comment
  on lines 31-32 says what the flag means). An attempt that lost to a manual
  completion can so be audited as `backend:auto`. The audit is not modelled.
- The handler of a completed poll does not read the poll again: announcements of
  two selections may arrive in either order, and a selection that is changed and
  changed back is not announced a third time.
- A poll of one venue may be completed with a venue whose document was deleted;
  its email then retries every five minutes for ever (CDD-0004, 8).
- A day on which the process is down from before 16:00 to midnight is never
  discovered: its polls stay open.
- A delivery whose answer was lost is sent again, up to once per back-off until the
  expiry; `RowsAreTrue` states this bound exactly.

## 7. Not modelled, and the plan

Left out for good: the Python subscriber `firebase_sub` (replaced by `last_orders`),
the React application (its writes are environment steps), provider HTTP clients
beyond what `Send` and `Verify` may answer, message composition, reports, audit
entries, the inspection command line with its offline edits (`ForceUpdate`,
`ForceDelete`), HTTP endpoints and configuration. How the email policy and its guard
arrive at a decision is not modelled either: any decision is a step of
`DurableEmail`, and the settings and token source they share with push are in
`PushDelivery`.

Small parts that remain: the test-email listener and its handler (the pattern of
the push test without the deliveries), the one-shot admin-delete command with its
isolated database, a malformed admin-delete request, the plain interval mode of
the timers, a fanout as a step of a longer sequence (no application has one).

What is left to prove: intervals of more than 29 weeks. From 30 to 51 the statement
may hold (TLC found no counterexample on a sample), by an argument about the second
multiple of the interval instead of the first; at 52 it is false.
