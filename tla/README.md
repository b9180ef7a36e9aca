# A verification development for the reactive segmentation engine

The repository is a NestJS server that keeps *segments* of customers.  Writes
(customers, transactions, simulated clock advances) record `DataChangeEvent`
rows; a debounced worker turns pending events into evaluations of all dynamic
segments; an evaluation diffs the customers its rule selects against the
persisted membership, writes memberships and delta rows in one transaction,
publishes the difference and cascades into dependent segments.

This directory holds TLA+ models of that core, the TLC runs that check them and
TLAPS proofs of their main properties.  Paths below are relative to
`src/backend/src/modules/` unless they start with `src/`.

## 1. Inventory

| Component | State | Operations | Works with |
|---|---|---|---|
| Recalculation worker (`segment-evaluation/segment-recalculation-processor.service.ts`) | per process: `inProcess`, `fallbackNextRunAtMs`; Redis: the keys `segment-recalc:next-run-at-ms` and `segment-recalc:lock` | `notifyDataChangeRecorded`, a timer `tick` every 1.5 s, `processPendingEventChunk`, `acquireLock`, `releaseLock` | Redis, the database, `evaluateSegment` |
| Event recording (`events/events.service.ts`) | `DataChangeEvent` rows: PENDING, PROCESSED, FAILED | four `record...` functions | runs inside the writer's transaction, then notifies the worker |
| Customers, transactions (`customers/`, `transactions/`) | their rows | create, update | record an event in the same transaction |
| Simulation clock (`simulations/`) | one `SimulationClock` row | `advanceTime`, `getEffectiveNow`, simulated writes | records an event; every rule reads the clock |
| Segments (`segments/`) | `Segment` and `SegmentDependency` rows | create, update, soft delete; dependencies extracted from the rules tree | read by the worker and the evaluation |
| Segment evaluation (`segment-evaluation/segment-evaluation.service.ts`) | `SegmentMembership`, `SegmentMembershipDelta`, `SegmentEvaluationRun` rows | `evaluateSegment`, `refreshStaticSegment`, the cascade, read-only history | called by the worker and by two HTTP endpoints, publishes signals |
| Delta signals (`segment-delta-signals/`) | the last 50 signals, in memory | `publish`, `observe`, `getRecent` | fed by the evaluation, read by SSE clients |
| Redis service (`src/backend/src/common/redis/`) | one client, one retry per command | commands | the worker |
| RabbitMQ, health, Prisma, configuration, logging, seed | connections | start, stop, ping | nothing else depends on their state |

What is hard here:

* **Concurrency.**  Several processes share two Redis keys and one database.
  `inProcess` is tested before an await and set after it; the lock and the
  schedule are read and deleted with separate commands; direct evaluations take
  no lock; two evaluations read the same previous membership.
* **Failure.**  Redis may be away (the worker then works without a lock), a
  process may die anywhere, an evaluation may throw in the middle of a batch or
  of a cascade.
* **Ordering.**  The worker is notified before the writer commits; events are
  taken in `occurredAt` order, which may lie in the simulated future; a batch
  meets segments in creation order, not in dependency order.
* **Time.**  A debounce window, a lock TTL shorter than a long run, a schedule
  key that expires.

What makes each part correct: at most one worker; every event settled once, only
after the segments have seen its data, and never forgotten; membership never
older than a processed event; delta rows that replay to the membership; every
change of a dependency reaching what depends on it; static lists changed only by
their owner; no clock advance lost; dependency rows that match the rules; the
recent buffer holding the latest signals in order.

## 2. Modules

| Module | What it is |
|---|---|
| `Recalculation` | writers, schedule, lock, ticks, chunk processing, faults |
| `EventLedger` | the abstract ledger of events that the recalculation promises |
| `SegmentEvaluation` | one evaluation statement by statement, the cascade, the batch, the signals |
| `MembershipLedger` | the abstract ledger that membership persistence promises |
| `Segments` | create, update and remove of segments by overlapping calls |
| `RuleDocuments` | the extraction of dependencies from a rules tree, and a reference for it |
| `SegmentRules` | `Segments` whose documents are rules trees |
| `DeltaSignals` | rows, signals, the recent buffer, the stream and their readers |
| `SimulationClock` | the transactions of `advanceTime` on the only clock row |
| `CustomerActivity` | extends the clock: transactions dated by it, and the three rules that read them |

Each of `Recalculation`, `SegmentEvaluation`, `Segments`, `DeltaSignals`,
`CustomerActivity` and `SimulationClock` has an `MC_` module with its instances and
a `_proofs` module with its theorems; `DeltaHistory_proofs` holds those of the
delta history and `SegmentCascade_proofs` those of the cascade.

How they compose: `CustomerActivity` runs beside the steps of `SimulationClock`,
which it EXTENDS; `SegmentRules` joins `Segments` and `RuleDocuments`;
`Recalculation` implements `EventLedger` and `SegmentEvaluation` implements
`MembershipLedger`.  The other boundaries are abstractions of one side by the
other: a write is `Record` and `Commit` in `Recalculation`, an evaluation is a
set of events there and a sequence of statements in `SegmentEvaluation`, an
administrator's update is one step in `SegmentEvaluation` and several in
`Segments`, the persistence of rows is one step in `DeltaSignals`.

`PROJECT.json` maps every definition to the lines it models.

### 2.1 Recalculation

One action is what a process does between two awaits of `tick` and of what it
calls; `pc[t]` names the await tick `t` is at.  A tick is a pair of a process and
a slot: the timer does not wait for the previous tick, so two ticks of a process
can pass `if (this.inProcess)` together; `Slots` bounds how many.

| Code | Actions |
|---|---|
| `record...` in the caller's transaction, its end | `Record`, `Commit`, `Rollback` |
| `tick` | `TimerFires`, `NotDue`, `Due`, `AcquireLock`, `EndTick` |
| `processPendingEventChunk` | `FetchEvents`, `FetchSegments`, `EvaluateRule`, `WriteMembership`, `EvaluationThrows`, `MarkProcessed`, `ScheduleRerun`; in the catch `FailBatch`, `RequeueBatch`, `ScheduleBackoff` |
| `releaseLock` | `CheckLockOwner`, `DeleteLock`, `KeepSchedule`, `ScheduleIsSpent`, `ClearSchedule`, `ReleaseFails` |
| `POST :id/evaluate` | `DirectEvaluate`, `DirectWrite` |
| TTLs and the clock | `ElapseSchedule`, `ElapseFallback`, `ExpireSchedule`, `ExpireLock` |
| Redis and processes failing | `RedisFails`, `RedisReturns`, `LoseReply`, `Crash` |

Abstractions:

* An instant is `none`, `future` or `due`; `Math.max` of two instants is
  `Latest`.  A later write moves an instant that is due back to the future, as
  the debounce does.
* A membership is the set of events whose data the evaluation had read
  (`reflects`).  Two history variables go with it: `covered` adds up all the sets
  ever persisted, and `before[s]` is what was committed before s was created, so
  that `Concerned(e)` are the live segments that existed when e was committed.
* A token is fresh when no other running tick carries it (`FreshTokens`); which
  value it is does not matter.  With the fault "same ms" it may also be one that
  another tick has just drawn: a process id and a millisecond do not tell two
  ticks of one process apart, nor those of two hosts whose processes happen to
  have one pid.
* The lock value `Orphan` stands for a token that no running tick carries.
* `scheduleNextRunAt` sets the fallback before its await and the key after it;
  the model does both at once.
* A Redis command that fails has no effect.  One whose reply is lost takes effect
  (`LoseReply`) and is sent again, as the client of `RedisService` does.  Reads are
  left out of this, and writes of an instant: a second one can only put an older
  instant back, which wakes the worker once too often or too early.
* The two requeue updates are one action; both select rows in the batch that are
  still PENDING, and the increments cannot exceed 3.
* A failing database in `findMany`, in the catch block or in the final update
  appears as `Crash` (the tick is over, nothing more happens) or not at all.
* The client of `RedisService` is created at start-up whether or not Redis
  answers, so the branches without a client behave as the ones where it fails.

`EventLedger` has no process, lock, schedule or batch: a row is open, then
PENDING, then settled once.  `Process` settles a set of PENDING rows that every
older live segment has covered, `Fail` a set of them with one retry counted, and
`Evaluate` persists committed data only.  `ImplementsEventLedger` is the
refinement: a crash is one `Rollback` of all open writes of its process, and
`RequeueBatch` is a stutter, whatever its two updates seem to say.

### 2.2 SegmentEvaluation and MembershipLedger

`Evaluators` are calls in progress, the worker's batch (`EvaluateAll`) or an HTTP
request (`EvaluateSegment`, `RefreshStaticSegment`).  `EvaluateRule`, `Filter`,
`ReadPrevious`, `Commit` and `Publish` are the statements of
`evaluateSegmentOnce` and of its static counterpart, which differ only in the
type they accept and in where the customers come from.  `Cascade`, `Visit`,
`Skip` and `Return` are the recursive `cascadeDependentDynamicSegments`, with
`stack` holding what is left at each level and `visited` the set shared by the
levels.  `Abort` is any error or crash between two statements.  `UpdateSegment`
and `DeleteSegment` change the rules, the dependency rows and the live segments
under running calls.

History variables only delimit properties: `quiet` says that nothing changed
since a batch began, `lagging` that dependency rows have been replaced or that a
cascade has thrown before its last dependent.
A third, `retyped`, says that the type of a segment has changed since a running
evaluation looked it up.  The transaction does not look at the type again, so the
membership may then be written by the kind of evaluation that no longer applies;
`StaticProtected` allows that write and no other.
`outdated` and `torn` say what overlapping calls do to a segment: a call about to
commit is outdated once another commit has changed the membership it read, and a
segment is torn once an outdated call has written it.

Of overlapping calls two things are left standing.  `TrailUntorn`: the rows of a
segment replay to its membership unless it is torn, so the read that another
commit overtakes is the only way to break a trail; data that change, aborts,
cascades, updates of the type or a commit that changes nothing are not.
`EveryDeltaPublished`: whatever the order in which the calls publish, each row
goes out exactly once, and a call that dies between its commit and its publication
takes the one signal of its own with it, of one segment; nobody sends it later.  With one call at a time nothing is torn, and the
signals come in the order of the rows if none dies (`CorrectnessTrail`,
`DeltasPublished`).

`BatchFresh` is stated for `Untangled` graphs, where no segment is reached along
two paths; `BatchFreshWithoutCycles`, for every acyclic graph, is what the
visited set breaks.  `DependenciesRespected` excludes both: no evaluation follows
an update until the next event, and nothing resumes a cascade.

Abstractions: a rule is the set of customers its queries return now (`matches`,
changed by `ChangeData`; the queries themselves are in `CustomerActivity`); an update is one step, since nothing but a deletion can
come between its checks and its transaction (a deletion there appears as one just
after it); the dependency filter reads all dependencies at once;
the evaluation run row is left out; the membership writes of a transaction are
one step, which is what row locks held until the commit amount to, while its
reads are separate steps, as READ COMMITTED makes them.

`MembershipLedger` says what persistence promises: one step moves the ACTIVE set
of one segment and appends exactly the ADDED and REMOVED rows of that move.
`ImplementsLedger` is the refinement, with `active` read off the status column.

### 2.3 Segments and RuleDocuments

`pc[c]` names the statement the call of client `c` is at.

| Code | Actions |
|---|---|
| `create` | `Create`, `EnsureDependenciesExist`, `NextCandidate`, `KeyFound`, `Insert`, `KeyConflict` |
| `update` | `Update`, `EnsureSegmentExists`, `EnsureDependenciesExist`, `UpdateRow` |
| `remove` | `Remove`, `EnsureRemovable`, `RemoveRow` |
| the exceptions, the answer, a failing statement | `Reject`, `Respond`, `Fail` |

A check and the write it guards are separate steps, so a dependency, or the
segment itself, may be removed in between.  What a transaction writes is one
step, because its first write locks the row, or the index entry, until the end.
A key is a slug followed by the suffix the loop gives it, so that "a 2" given as
a name and "a" with the suffix 2 are one key, as in the code.  `overtaken` and
`raced` are histories: which segments were removed, and whether a segment was
inserted, since a call began.

`RuleDocuments` models `extractDependencySegmentIds` on JSON values: `FromNode` is
one call of its inner function, and `Traverse` the function that calls itself.
`JsonAssumption` says that JSON values are finite trees, in the form in which a
request body or a JSON column gives them: whatever values one takes, some contain
none of the others.  `Mentioned` is the reference and knows no traversal: all that
is inside the document (`Inside`, the least set that has the document and what its
members contain), and the ids each object in there names under the two keys.
`DependenciesMentioned`, in `SegmentRules`, compares the rows with it on every
document stored.

Abstractions: `slugify` and the columns nothing else reads are left out.  A
creation whose body has no `rules` stores null and no dependency, as one with
null does.

### 2.4 DeltaSignals

An evaluation run inserts rows in a transaction (`Persist`) and, after it,
publishes one signal (`Publish`): the buffer and every open stream get it in one
synchronous call.  Rows and signal carry the number of the run; one row stands
for the rows of a run.  `LoseReply` is a transaction that commits while its call
throws; `Crash` empties the buffer and closes the streams.  `Connect`,
`ReadRecent` and `ReadHistory` are a client's `GET stream`, `GET recent` and
`GET :id/deltas`, the last two with every kind of limit.  A row's `at` is the
effective instant read before the transaction and `id` its random id, by which
the history orders rows of one instant.  The `total` of an answer is left out: it
comes from a count beside the read of the page, and may be of another moment.  `seen`, `asked` and `lost` are histories.

`Reconciled` is what the two reads are for: a client that opens the stream first
and then reads the history, a page as long as there are rows, misses only what a crash or a lost reply swallowed.
`HistoryReplays` says when a page of the history is the last commits in order:
while effective instants grow.  On a frozen clock they do not, and rows of one
instant come in the order of random ids.

### 2.5 SimulationClock and CustomerActivity

`Request`, `FindClock`, `CreateClock`, `UpdateClock` and `Commit` are the
statements of `advanceTime`; `writer` is the transaction that has written the row
and so locks it until its end.  A first advance creates the row with the present
time; `KeyTaken` is the one that finds the key taken when it inserts.  `Fail` is
any rollback.  The event becomes visible with the clock, and `notify` is modelled
in `Recalculation`.  `total` and `start` are history variables.

`CustomerActivity` adds the transactions and the rules; one unit of time is a
day.

| Code | Actions |
|---|---|
| `simulateTransaction` | `SimulateTransaction`, `DateTransaction`, then as below |
| `TransactionsService.create` | `CreateTransaction`, `FindCustomer`, `InsertTransaction`, `FailRecording` |
| `parseDirectRule`, `getEffectiveNow` | `ReadRule`, `SetWindow` |
| the `groupBy` of active buyers and of VIP customers | `QueryGroups` |
| the two queries of the risk group, in either order | `QueryRecent`, `QueryPast`, `JoinQueries` |
| `filterExistingCustomerIds` | `FilterExisting` |
| `deletedAt` set outside the server | `DeleteCustomer` (external) |

`Meets` says, for the properties, what a rule means at one moment; it counts in
another way than the queries.  `ever` and `always` collect, while an evaluation
asks, who met its rule at some moment and at all of them.  `NobodyInvented` has
one exception, which occurs: the risk group is read with two queries, and a
back-dated transaction recorded between them, with a recent one that the first
query did not see, makes a customer look at risk who at no moment was.

Abstractions: type, currency and payload of a transaction, which no rule reads;
the optional fields of a rule are a number, absent or refused;
`simulateCustomerUpdate` is an ordinary update followed by a read of the clock,
and is left out.

## 3. Runs

| Run | Instance | Shows |
|---|---|---|
| `rc_healthy` | 2 processes, 2 events, chunk of 1, no fault, fairness | `UnsettledScheduled`, `PendingSettles`, `FullChunkReruns` |
| `rc_crash` | 2 processes that crash, 2 events, 1 segment created meanwhile, chunk of 1 | `TypeOK`, `SingleWorker`, `ProcessedReflected` |
| `rc_faults` | 1 process, 2 overlapping ticks, 1 event, 1 segment, a direct request, every fault, lost replies included | `ProcessedCovered`, `SettledOnce`, `ImplementsEventLedger` |
| `ev_serial` | segments 1 -> 2 -> 4 <- 3, 4 static, 1 customer, 1 data change, update (of rule, dependencies or type) or deletion, 1 abort | `TypeOK`, `CorrectnessTrail`, `DeltasPublished`, `EveryDeltaPublished`, `DependenciesRespected`, `BatchFresh`, `StaticProtected`, `ImplementsLedger` |
| `seg_admin` | 2 clients, 3 requests, 2 segments "a" and "a 2" at the start, ids for 2 more, 4 documents, any failure, fairness | the six properties of `Segments`, `DependenciesMentioned` |
| `sig_readers` | 2 evaluators, 1 client, 3 runs, 2 instants, both caps 2, 4 limits, 1 crash or lost reply | the six properties of `DeltaSignals` |
| `clk_overlap` | 2 clients that advance by 1 or 3 days, 1 recording and 1 evaluation at a time, 3 requests in all, 1 customer, 4 rules, any failure, fairness | the clock's `TypeOK`, `NothingCountedTwice`, `StartsFromThePast`, `Answered`; `ActivityTypeOK`, `NobodyMissed`, `NobodyInvented` |
| `rc_two_workers` | 2 processes, runs longer than the lock's TTL | `SingleWorker` **violated** |
| `rc_bad_rule` | a segment whose rule is rejected | `SettledReflected` **violated** |
| `clk_lost_update` | 2 overlapping advances | `MovesForward` **violated** |
| `ev_concurrent` | two evaluations of one segment | `CorrectnessTrail` **violated** |
| `ev_diamond` | a segment with two dependencies on one changed segment | `BatchFreshWithoutCycles` **violated** |

Why the bounds are enough.

*Worker.*  A chunk of one makes every chunk full, so the re-run path is taken,
and two events leave one behind.  `FullChunkReruns` speaks of the process that
finished the chunk: if it recorded no event itself, only the schedule it writes
then can wake it.  Two processes are the least that compete for
the lock, and two slots the least that overlap in one process; the proofs do not
depend on these numbers.  A segment created after the start is younger than some
events, which say nothing of it, and older than others, which it must reflect.
One segment is enough under crashes: a tick that dies in the middle of a sweep
leaves nothing that the next sweep reads, and the proofs cover a sweep of any
number of segments.
`retries` needs no bound because an event fails once.

*Evaluation.*  The tree has two levels of cascade and two dependents on one
level, the createdAt order of the numbers is opposite to the dependency order, so
the batch meets dependents first, and its static root is where only a refresh
starts a cascade.  All rule results are tried at the start, so one change makes a
member leave or a customer come, and an update may make a diamond or a cycle of
the tree, or turn a segment static under an evaluation; one dead call leaves any
prefix of a cascade behind.  A member that leaves and comes back needs two
changes, which the proofs of the trail and of the ledger cover for every number
of changes.  One customer is enough because no statement relates two customers;
each is filtered, written and logged on its own.
`TrailUntorn` and `EveryDeltaPublished` are proved for any number of overlapping
calls.  `ev_serial` checks the second with one call at a time and one that dies;
`ev_concurrent` ends at the first broken trail.  TLC finds no error when the two
take the place of `CorrectnessTrail` in `ev_concurrent.cfg`, also with two data
changes and a call that dies.

What a run leaves out on purpose, and what TLC shows when it is put in:
`ProcessedReflected` needs a lock that lasts and no evaluation on request
(`rc_crash` with `Requests = {1}`, or with "slow run" on two events, has a
membership older than a PROCESSED event); `StaticProtected` excepts the write of an
evaluation that had looked the segment up before its type changed, which occurs;
`HistoryReplays` speaks of growing instants, and pages with equal or inverted ones
do not replay.

*Segments.*  A race for a key needs two creations, a race for a dependency or a
removed row one removal under another call; the third request lets a removal
precede both.  One name with a suffix already taken sends the search past two
keys; the two ids left are as many as can be created at once (two clients).  The
four documents are null, a reference under each key, nested or not, and a list
that is none because one entry is not a string.

*Signals.*  Three runs overflow a buffer and a page of two, and two evaluations
commit and publish in opposite orders.  Two instants let rows share one or not.
The limits are none, too small, fitting and too large.

*Clock and activity.*  Three requests are two transactions and a rule, or two
advances and one of the others; two transactions reach a minimum of two, add up
to a total or cancel it (amounts 2 and -1), and are the old and the recent one of
a customer at risk.  A date that is absent or 0, and advances of 1 and 3 days,
put transactions on both sides of windows of 1 and 2 days.  One customer is
enough, as each is grouped on its own.

The bounds are the constants `MaxChanges`, `MaxAborts`, `MaxRequests`, `MaxRuns`,
`MaxLosses`, `MaxTime`, `MaxDeletions`, `MaxWall`, `MaxAdvances`, `EventChunk` and
the sizes of the sets.

Symmetry is used only where the run checks no liveness property (`ProcSymmetry`,
`SlotSymmetry`, `Symmetry` of the evaluators in `sig_readers`).  Deadlock is not
checked in `rc_healthy`, `seg_admin` and the runs of the clock: with finitely
many events or requests the system comes to rest when all are settled or
answered; that no event or request waits for ever is what their liveness
properties say.

**Fairness** (`FairSpec`): weak fairness of each tick (Node's interval timer
fires again and every await resolves), of the commit of an open transaction, of
the passing of time towards each scheduled instant, and of the expiry of the
lock.  None on new writes, on requests, on the expiry of the schedule key or on
faults.  `PendingSettles` and `FullChunkReruns` hold without crashes and with
Redis up only; the code promises nothing else (see the note in section 4).  Time
has no length, so the "immediately" of a re-run is not expressed.
`FairSpec` of `SimulationClock`, `ActivitySpec` and `FairSpec` of `Segments` are
weak fairness of the statements of each call: the database answers each one that
waits for no row.  None on requests and failures.

## 4. Disagreements found

1. `rc_two_workers`: the lock's TTL (30 s) is never renewed.  A run that takes
   longer loses the lock, and a second worker works beside it
   (`src/backend/README.md:317` promises one).  What the overlap cannot break is
   proved: `EventsSettleOnce` and `ProcessedIsCovered`.
2. `rc_bad_rule`: one segment that throws fails the whole batch for good; the
   requeue updates select nothing (`src/backend/README.md:14`).
3. `ev_concurrent`: two evaluations of one segment log an addition twice, and
   the deltas stop replaying to the membership (`src/backend/README.md:303`).
4. `ev_diamond`: the visited set, meant to avoid cycles, also skips a second
   evaluation that a diamond needs (`src/backend/README.md:129`).  A later batch
   repairs it; until then a customer is missing.
5. `clk_lost_update`: of two overlapping clock advances one is lost, and the clock
   may even go back (`simulations/dto/advance-simulation-time.dto.ts:6`).

Two notes without a run of their own:

* Without Redis, the immediate re-run after a full chunk
  (`src/backend/README.md:322`) is forgotten: `releaseLock` resets the fallback
  instant it finds passed.  TLC shows it on `rc_healthy` with
  `RedisAtStart = FALSE`.
* The rules count transactions of every type and add negative amounts, while the
  seed script describes its segments in terms of purchases
  (`src/backend/prisma/seed.ts:196`, `:210`, `:224`).  `CustomerActivity` follows
  the code.

## 5. Proofs

All theorems hold for every value of the constants that meets the named
assumptions; `tlapm` checks them to the last leaf.

| Theorem | Assumes | States |
|---|---|---|
| `Recalculation_proofs!TypeCorrect` | | `TypeOK` |
| `EventsSettleOnce` | | `SettledOnce` |
| `ProcessedIsCovered` | | `ProcessedCovered` |
| `EventLedgerImplemented` | | `ImplementsEventLedger` |
| `LedgerCovers` | | `ProcessedCovered`, of the ledger alone |
| `OneWorkerAtATime` | `SafeLock` | `SingleWorker` |
| `ProcessedStaysReflected` | `SafeLock`, `NoRequests` | `ProcessedReflected` |
| `UnsettledStaysScheduled` | `HealthyRuntime` | `UnsettledScheduled` |
| `SegmentEvaluation_proofs!TypeCorrect` | | `TypeOK` |
| `StaticStaysProtected` | | `StaticProtected` |
| `TrailsReplayUnlessTorn` | | `TrailUntorn` |
| `EveryDeltaIsPublished` | | `EveryDeltaPublished` |
| `TrailReplaysSerially` | `Serial` | `CorrectnessTrail` |
| `LedgerImplementedSerially` | `Serial` | `ImplementsLedger` |
| `DeltasArePublishedSerially` | `Serial`, an evaluator | `DeltasPublished` |
| `SegmentCascade_proofs!BatchesEndFresh` | `Serial` | `BatchFresh` |
| `DependenciesStayRespected` | `Serial`, an evaluator, `Untangled` at the start | `DependenciesRespected` |
| `Segments_proofs!TypeCorrect` | | `TypeOK` |
| `DependenciesFollowRules` | | `DependenciesOfRules` |
| `ExtractionIsExact` | | `ExtractDependencySegmentIds` returns what is `Mentioned` |
| `DependenciesAreMentioned` | | `DependenciesMentioned` |
| `ConflictsNeedARace` | | `ConflictsAreRaces` |
| `RemovedSegmentsRest` | | `RemovedRowsRest` |
| `DependenciesAreChecked` | | `DependenciesChecked` |
| `DeltaSignals_proofs!RecentSignalsAreLatest` | | `RecentIsLatest` |
| `SignalsArePersisted` | | `SignalsPersisted` |
| `ClientsCatchUp` | | `CaughtUp` |
| `DeltaHistory_proofs!TypeCorrect` | | `TypeOK` of `DeltaSignals` |
| `ReadersReconcile` | | `Reconciled` |
| `PagesReplay` | | `HistoryReplays` |
| `SimulationClock_proofs!TypeCorrect` | | `TypeOK` |
| `SecondsCountOnce` | | `NothingCountedTwice` |
| `AdvancesStartFromThePast` | | `StartsFromThePast` |
| `SerialAdvancesMoveForward` | `Serial` | `MovesForward` |
| `CustomerActivity_proofs!ActivityTypeCorrect` | | `ActivityTypeOK` |
| `StayersAreSelected` | | `NobodyMissed` |
| `SelectedHaveMet` | | `NobodyInvented` |

* `SafeLock`: Redis answers and no reply is lost, no run outlives the lock's TTL,
  and every tick draws a token of its own: no two with one pid in the same
  millisecond.  The one backend container of `src/docker-compose.yml` gives no two
  processes one pid; several hosts may.  Crashes are allowed.
* `NoRequests`: nobody calls the evaluate endpoint.  With it, the slower of two
  evaluations may persist the older data.
* `HealthyRuntime`: no outage and no crash; a reply may be lost.
* `Serial`: one call at a time; `ev_concurrent` and `clk_lost_update` show that it
  is needed.
* `Untangled`: no cycle, and no segment reached along two paths.  It is a premise
  about the graph, not about its size; an update makes it hold or not, and
  `DependenciesRespected` says nothing after one.  `ev_diamond` shows what becomes
  of a batch without it, and a diamond with two customers and two data changes
  leaves a member without one of its dependencies.

The arguments:

* **Types of the worker.**  `TypeOK` alone is not inductive: the lock takes the
  value of a token, so `TokensDrawn` (a running tick carries a token) goes with it.
* **Coverage.**  `CoverInv`: the batch of a tick past `FetchEvents` is committed;
  what it is about to write includes its batch; every segment it has finished has
  covered the batch, or is younger than the events it has not covered, as one
  created meanwhile is younger than all that is committed (`SegmentFrame`).  No mutual exclusion is used: a second worker can only add to
  `covered`.
* **Mutual exclusion.**  `MutexInv`: tokens of running ticks differ, and whoever
  works or is about to delete the lock holds it.  Without `TokensDistinct` a tick
  could delete the lock of its twin, and without the `unlock` case the gap
  between GET and DEL would not be covered.
* **The ledger of events.**  `SightInv`: what a tick or a request has read is
  committed, so no evaluation persists an open write; and a batch that has failed
  holds no PENDING row, so the requeue selects nothing.  With `CoverInv` every step
  is one of the ledger.  `LedgerCovers` goes the other way: the ledger is strong
  enough to give `ProcessedCovered` back.
* **No regression.**  `ReflectInv` adds, for the one tick that works, that its
  draft includes everything PROCESSED so far.
* **Wake-ups.**  `WakeInv`: the fallback instant of the process that recorded an
  unsettled event is never `none`, since only a Redis error or a crash resets it.
* **Static segments.**  `RightType`: a call past its lookup evaluates a segment
  of the type it asked for; only `Commit` writes memberships.
* **The trail under any overlap.**  `HonestRead`: what a call about to commit has
  read is still the membership, unless another commit has changed it since and so
  outdated the read.  It is inductive for any number of calls: a commit that
  outdates nobody wrote back the members it had honestly read.  A commit of an
  honest read continues every trail (`TrailContinues`; an addition always follows
  a removal by `TrailGrows`, on the parity of the log), one of an outdated read
  tears the segment.
* **The trail and the ledger, one call at a time.**  `NothingTorn`: a call that
  runs alone cannot outdate its own read.  So `FreshRead` holds, every read is
  honest at its commit, and a commit is a `Move` of the ledger.

* **The clock.**  `ClockInv`: a call about to write started from a time in `Past`,
  the committed times, or is the only creator of the row, since it holds it.
  `Current`, for one call at a time, says that what it read is still the clock.

* **Publication of every row.**  `Gap`: of a segment, customer and change, the rows
  that are neither signals nor owed by a call on its way from the commit to the
  publication (`Owing`).  A commit adds its call to those that owe, a publication
  takes it out (`CommitOwes`, `PublishPays`), a log grows by what a call records
  (`LoggedCount`, counting by cardinalities), so only the death of a call moves a
  gap, by one and in the segment the call was at (`AbortLoses`).  `OwingInv`: every
  gap lies between 0 and `aborts`, and no more segments than `aborts` have one.
  The evaluators and the segments may be infinitely many; those that owe and those
  with a gap are finitely many.
* **Publication in order.**  `PublishInv`: the signals are the rows, except for the one
  evaluation between its commit and its publication, whose step then adds to the
  signals what it added to the rows (`Unpublished`).  `Serial` makes that
  evaluation unique; `DeltasPublished` itself speaks of runs without aborts only.
* **The walk.**  A call visits a root and then what is behind what changed.
  `Walk`: any two segments visited or left on the stack have something upstream in
  common, the root (`Related`), and nothing left lies behind something else that is
  left, or was visited, in a way that would reach it again (`Ahead`); nothing
  visited or left lies behind the segment entered last (`Front`).  A dependent
  pushed on the stack that broke this would depend on that root along two paths.
  So nothing left has been visited (`WalkSkipsNothing`): the visited set skips
  nothing.
* **What is owed.**  `Awaiting` are the segments still to be evaluated because a
  dependency changed: those left on the stack, the one a cascade is at, and, once a
  segment has changed, all that depend on it.  `MembersInv`: every other segment
  has its members among those of its dependencies.  `BatchInv`: every segment that
  is neither owed nor in the queue of the batch is fresh, while nothing disturbs
  the batch (`quiet`).  When the call ends nothing is owed.
* **Dependency rows.**  `DependenciesOfRules` is inductive once the values of a
  call are tied to its step: a call at `update` has checked rules whose ids are
  segments, and a call without rules leaves both sides alone.
* **The extraction.**  `Mentioned` satisfies the equation of the traversal
  (`FromNodeMentioned`): what is inside a value is the value and what is inside
  its children (`InsideUnfolds`).  So there is a function that satisfies it, and
  `Traverse`, chosen as such a function, does too (`TraverseDefined`).  If some
  value were treated wrongly, then by `JsonAssumption` one all of whose children
  are treated rightly, against the equation.
* **Keys.**  A creation at `insert` has seen its candidate free; if the index
  refuses it now, a row came in between, and `Insert` has marked every creation
  still searching or inserting as `raced`.
* **Removed segments and checked dependencies.**  A call past its check has found
  the segment, and each dependency, live, or it is in `overtaken`; removals only
  add to `overtaken` while the call runs.
* **Signals.**  The buffer is the reverse of the end of `published`, which one
  `Publish` extends at one end of each.  A signal is published by an evaluation
  past `Persist`, whose row is there; rows are never removed.  A client's answer
  covers `published` from its oldest element to `seen`, and its stream all that
  follows `seen`; both hold for every capacity, burst and number of clients.

* **The history.**  The order of the code, by instant and then by id, is modelled
  by the number of rows that come before each one.  Ids are distinct, so the order
  is strict and these numbers are different; there are as many as rows, so by
  counting they are all of 0 to n - 1 and the history holds every row once
  (`OrderedIsPermutation`).  A page as long as the rows are many then misses none.
  While the instants grow (`Chain`), the row at place i comes after exactly those
  written after it, and the history is the reverse of the rows.
* **Rules and their queries.**  `AnswersInv` says of an evaluation that asks:
  `ever` and `always` are true up to the present (`Observed`); only a risk group
  between its queries holds partial answers, and `first` splits the transactions
  into those its first query could see and the later ones (`Asked`);
  who met the rule all the time is in every set that selects it and in
  none that excludes it (`Kept`); who is about to be selected has met the rule at
  some moment, or is back-dated (`Earned`).  `MeetsActive`, `MeetsVip` and
  `MeetsRisk` tie the queries to `Meets`, which counts and compares in another
  way.  The clock may move, or even go back, between any two statements.

**Model-checked only**: the liveness properties `Answered`, `PendingSettles` and
`FullChunkReruns`, whose proofs would need fairness and ENABLED.

## 6. Plan

| Module | Left to do |
|---|---|
| `SegmentEvaluation` | the evaluation run rows and the snapshot query beside running evaluations |
| `Recalculation`, `SegmentEvaluation` | an evaluation of the worker as the sequence of statements of `SegmentEvaluation`, instead of a set of events read |

Instances stay at two or three of everything.

## 7. Not modelled

RabbitMQ (connected, never used), health checks, logging, configuration, the seed
script and HTTP validation change no state the core depends on.  The snapshot and
run history endpoints are plain reads, and the run rows they return are read by
nothing else.  `slugify` is a pure function of the name, of which only the
equality of its results matters.  Real time (how long a debounce or a TTL is) is
abstract; so is how fast writes arrive, hence nothing is said about writes that
come faster than the debounce window for ever.
