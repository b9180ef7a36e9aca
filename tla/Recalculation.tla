---------------------------- MODULE Recalculation ----------------------------
(***************************************************************************)
(* The recalculation worker: writers that record DataChangeEvent rows, the *)
(* debounce schedule and the lock they share through Redis, and the timer  *)
(* ticks of every server process that turn PENDING events into evaluations *)
(* of all dynamic segments (SegmentRecalculationProcessorService with      *)
(* EventsService).                                                         *)
(*                                                                         *)
(* Time is abstract: a scheduled instant is "none", "future" or "due".     *)
(* A membership is abstract: the set of events whose data change the last  *)
(* evaluation of the segment had read (SegmentEvaluation has the details). *)
(* One step is what a process does between two awaits.                     *)
(***************************************************************************)
EXTENDS Naturals, FiniteSets

CONSTANTS
    Procs,            \* server processes
    Slots,            \* ticks of one process that may overlap
    Events,           \* data changes, numbered in (occurredAt, id) order
    Segments,         \* dynamic segments, numbered in createdAt order
    InitialSegments,  \* those that exist from the start
    Invalid,          \* those whose definitionJson parseDirectRule rejects
    Requests,         \* clients of POST /segment-evaluation/:id/evaluate
    EventChunk,       \* RECALC_EVENT_CHUNK_SIZE
    RedisAtStart,     \* whether Redis answers at the start
    Faults,           \* what may go wrong, see FaultKinds
    Free, Orphan,     \* lock values: no key; a value no running tick carries
    NoToken, NoProc

FaultKinds == {"crash", "outage", "lost reply", "slow run", "same ms", "db error",
               "rollback"}

ASSUME EventsAssumption == Events \subseteq Nat /\ IsFiniteSet(Events)
ASSUME SegmentsAssumption ==
    /\ Segments \subseteq Nat
    /\ InitialSegments \subseteq Segments
    /\ Invalid \subseteq Segments
ASSUME EventChunkAssumption == EventChunk \in Nat \ {0}
ASSUME NullAssumption ==
    /\ Free # Orphan
    /\ {Free, Orphan, NoToken} \cap (Procs \X Slots) = {}
    /\ NoToken \notin {Free, Orphan}
    /\ NoProc \notin Procs
ASSUME FaultsAssumption == RedisAtStart \in BOOLEAN /\ Faults \subseteq FaultKinds

VARIABLES
    event,      \* event[e]: its row, "none" before and "open" inside the write
    retries,    \* retries[e]: the retryCount column
    origin,     \* origin[e]: the process that recorded e, until e is settled
    segment,    \* segment[s]: "absent", "live" or "deleted"
    before,     \* before[s]: events committed before s was created
    reflects,   \* reflects[s]: events the persisted membership of s reflects
    covered,    \* covered[s]: events some membership of s has ever reflected
    redisUp,    \* Redis answers
    nextRun,    \* Redis key segment-recalc:next-run-at-ms
    lock,       \* Redis key segment-recalc:lock
    inProcess,  \* inProcess[p]
    fallback,   \* fallback[p]: fallbackNextRunAtMs, "none" for 0
    pc,         \* pc[t]: the await tick t is at
    token,      \* token[t]: its lockToken
    batch,      \* batch[t]: pendingEvents
    todo,       \* todo[t]: dynamicSegments not yet evaluated
    draft,      \* draft[t]: what the evaluation in progress has read
    direct      \* evaluations the Requests have in progress

database == <<event, retries, origin, segment, before, reflects, covered>>
redis    == <<redisUp, nextRun, lock>>
process  == <<inProcess, fallback>>
ticks    == <<pc, token, batch, todo, draft>>
vars     == <<database, redis, process, ticks, direct>>

Ticks    == Procs \X Slots
Proc(t)  == t[1]
Instants == {"none", "future", "due"}

Committed == {e \in Events : event[e] \in {"PENDING", "PROCESSED", "FAILED"}}

\* Mutant of Pending: events are recorded outside the caller's transaction.
PendingOrOpen == {e \in Events : event[e] \in {"open", "PENDING"}}

Pending   == {e \in Events : event[e] = "PENDING"}
Live      == {s \in Segments : segment[s] = "live"}
Least(S)  == CHOOSE x \in S : \A y \in S : x =< y

\* The first EventChunk rows in (occurredAt, id) order.
FirstChunk(S) == {e \in S : Cardinality({f \in S : f < e}) < EventChunk}

\* Mutant of Latest: a fallback that starts undefined instead of 0.
LatestOfUndefined(a, b) == IF a = "none" THEN "NaN" ELSE b

\* Math.max over scheduled instants.
Latest(a, b) == IF "future" \in {a, b} THEN "future"
                ELSE IF "due" \in {a, b} THEN "due" ELSE "none"

-----------------------------------------------------------------------------
(* The schedule                                                            *)

\* Mutant of ScheduleNextRunAt: the fallback is kept only when Redis fails.
ScheduleOnce(p, when) ==
    /\ fallback' = IF redisUp THEN fallback ELSE [fallback EXCEPT ![p] = Latest(@, when)]
    /\ nextRun' = IF redisUp THEN when ELSE nextRun

\* scheduleNextRunAt in process p; a Redis error is logged and dropped.
ScheduleNextRunAt(p, when) ==
    /\ fallback' = [fallback EXCEPT ![p] = Latest(@, when)]
    /\ nextRun' = IF redisUp THEN when ELSE nextRun

\* getScheduledRunAtMs in process p.
ScheduledRunAt(p) ==
    IF redisUp /\ nextRun # "none" THEN nextRun ELSE fallback[p]

\* The clock reaches an instant that was in the future.
ElapseSchedule ==
    /\ nextRun = "future"
    /\ nextRun' = "due"
    /\ UNCHANGED <<database, redisUp, lock, process, ticks, direct>>

ElapseFallback(p) ==
    /\ fallback[p] = "future"
    /\ fallback' = [fallback EXCEPT ![p] = "due"]
    /\ UNCHANGED <<database, redis, inProcess, ticks, direct>>

\* The PX of the schedule key, never shorter than the debounce window.
ExpireSchedule ==
    /\ nextRun = "due"
    /\ nextRun' = "none"
    /\ UNCHANGED <<database, redisUp, lock, process, ticks, direct>>

-----------------------------------------------------------------------------
(* Writers: one transaction inserts the event, notifies, and commits       *)

Record(e, p) ==
    /\ event[e] = "none"
    /\ event' = [event EXCEPT ![e] = "open"]
    /\ origin' = [origin EXCEPT ![e] = p]
    /\ ScheduleNextRunAt(p, "future")
    /\ UNCHANGED <<retries, segment, before, reflects, covered, redisUp, lock,
                   inProcess, ticks, direct>>

Commit(e) ==
    /\ event[e] = "open"
    /\ event' = [event EXCEPT ![e] = "PENDING"]
    /\ UNCHANGED <<retries, origin, segment, before, reflects, covered, redis, process,
                   ticks, direct>>

Rollback(e) ==
    /\ "rollback" \in Faults
    /\ event[e] = "open"
    /\ event' = [event EXCEPT ![e] = "none"]
    /\ origin' = [origin EXCEPT ![e] = NoProc]
    /\ UNCHANGED <<retries, segment, before, reflects, covered, redis, process, ticks,
                   direct>>

CreateSegment(s) ==
    /\ segment[s] = "absent"
    /\ \A r \in Segments : segment[r] # "absent" => r < s
    /\ segment' = [segment EXCEPT ![s] = "live"]
    /\ before' = [before EXCEPT ![s] = Committed]
    /\ UNCHANGED <<event, retries, origin, reflects, covered, redis, process,
                   ticks, direct>>

DeleteSegment(s) ==
    /\ segment[s] = "live"
    /\ segment' = [segment EXCEPT ![s] = "deleted"]
    /\ UNCHANGED <<event, retries, origin, before, reflects, covered, redis, process,
                   ticks, direct>>

-----------------------------------------------------------------------------
(* tick: the guard, the due check, the lock                                *)

Carried(id, t) == \E u \in Ticks \ {t} : pc[u] \notin {"idle", "due"} /\ token[u] = id

\* A token no other running tick carries: which one is immaterial.
FreshTokens(t) == IF Carried(t, t) THEN {id \in Ticks : ~Carried(id, t)} ELSE {t}

\* `${process.pid}-${Date.now()}` is fresh, unless a tick with the same pid took its
\* token in the same millisecond: one of this process, or of a process on another
\* host that happens to have its pid.
TokenChoices(t) ==
    FreshTokens(t)
    \cup IF "same ms" \in Faults
         THEN {token[u] : u \in {v \in Ticks : pc[v] = "acquire"}}
         ELSE {}

TimerFires(t) ==
    /\ pc[t] = "idle"
    /\ ~inProcess[Proc(t)]
    /\ pc' = [pc EXCEPT ![t] = "due"]
    /\ UNCHANGED <<database, redis, process, token, batch, todo, draft, direct>>

NotDue(t) ==
    /\ pc[t] = "due"
    /\ ScheduledRunAt(Proc(t)) # "due"
    /\ pc' = [pc EXCEPT ![t] = "idle"]
    /\ UNCHANGED <<database, redis, process, token, batch, todo, draft, direct>>

\* inProcess is set without being read again after the await.
Due(t) ==
    /\ pc[t] = "due"
    /\ ScheduledRunAt(Proc(t)) = "due"
    /\ inProcess' = [inProcess EXCEPT ![Proc(t)] = TRUE]
    /\ \E id \in TokenChoices(t) : token' = [token EXCEPT ![t] = id]
    /\ pc' = [pc EXCEPT ![t] = "acquire"]
    /\ UNCHANGED <<database, redis, fallback, batch, todo, draft, direct>>

\* Mutant of LockFree: SET without NX.
LockIgnored == TRUE

LockFree == lock = Free

\* SET NX PX; an error counts as acquired.
AcquireLock(t) ==
    /\ pc[t] = "acquire"
    /\ \/ /\ redisUp
          /\ LockFree
          /\ lock' = token[t]
          /\ pc' = [pc EXCEPT ![t] = "fetch"]
       \/ /\ redisUp
          /\ ~LockFree
          /\ pc' = [pc EXCEPT ![t] = "release"]
          /\ UNCHANGED lock
       \/ /\ ~redisUp
          /\ pc' = [pc EXCEPT ![t] = "fetch"]
          /\ UNCHANGED lock
    /\ UNCHANGED <<database, redisUp, nextRun, process, token, batch, todo,
                   draft, direct>>

-----------------------------------------------------------------------------
(* processPendingEventChunk                                                *)

\* Mutants of Settling: one condition of the where clause is missing.
SettlingAllPending(t) == Pending
SettlingWholeBatch(t) == batch[t]

\* The rows an updateMany of the chunk selects: in the batch and still PENDING.
Settling(t) == batch[t] \cap Pending

FetchEvents(t) ==
    /\ pc[t] = "fetch"
    /\ batch' = [batch EXCEPT ![t] = FirstChunk(Pending)]
    /\ pc' = [pc EXCEPT ![t] = IF Pending = {} THEN "release" ELSE "segments"]
    /\ UNCHANGED <<database, redis, process, token, todo, draft, direct>>

FetchSegments(t) ==
    /\ pc[t] = "segments"
    /\ todo' = [todo EXCEPT ![t] = Live]
    /\ pc' = [pc EXCEPT ![t] = "evaluate"]
    /\ UNCHANGED <<database, redis, process, token, batch, draft, direct>>

\* evaluateSegment up to its transaction: the rule sees all committed data.
EvaluateRule(t) ==
    /\ pc[t] = "evaluate"
    /\ todo[t] # {}
    /\ Least(todo[t]) \in Live \ Invalid
    /\ draft' = [draft EXCEPT ![t] = Committed]
    /\ pc' = [pc EXCEPT ![t] = "write"]
    /\ UNCHANGED <<database, redis, process, token, batch, todo, direct>>

\* The transaction of evaluateSegment persists the membership.
WriteMembership(t) ==
    LET s == Least(todo[t]) IN
    /\ pc[t] = "write"
    /\ reflects' = [reflects EXCEPT ![s] = draft[t]]
    /\ covered' = [covered EXCEPT ![s] = @ \cup draft[t]]
    /\ todo' = [todo EXCEPT ![t] = @ \ {s}]
    /\ draft' = [draft EXCEPT ![t] = {}]
    /\ pc' = [pc EXCEPT ![t] = "evaluate"]
    /\ UNCHANGED <<event, retries, origin, segment, before, redis, process, token,
                   batch, direct>>

\* evaluateSegment throws: segment gone, rule rejected, or database error.
EvaluationThrows(t) ==
    /\ \/ /\ pc[t] = "evaluate"
          /\ todo[t] # {}
          /\ Least(todo[t]) \notin Live \ Invalid
       \/ /\ pc[t] \in {"evaluate", "write"}
          /\ "db error" \in Faults
    /\ pc' = [pc EXCEPT ![t] = "fail"]
    /\ todo' = [todo EXCEPT ![t] = {}]
    /\ draft' = [draft EXCEPT ![t] = {}]
    /\ UNCHANGED <<database, redis, process, token, batch, direct>>

MarkProcessed(t) ==
    /\ pc[t] = "evaluate"
    /\ todo[t] = {}
    /\ event' = [e \in Events |->
                    IF e \in Settling(t) THEN "PROCESSED" ELSE event[e]]
    /\ origin' = [e \in Events |-> IF e \in Settling(t) THEN NoProc ELSE origin[e]]
    /\ pc' = [pc EXCEPT ![t] =
                IF Cardinality(batch[t]) = EventChunk THEN "rerun" ELSE "release"]
    /\ batch' = [batch EXCEPT ![t] = {}]
    /\ UNCHANGED <<retries, segment, before, reflects, covered, redis, process,
                   token, todo, draft, direct>>

\* Mutant of ScheduleRerun: the full chunk schedules nothing.
ForgetRerun(t) ==
    /\ pc[t] = "rerun"
    /\ pc' = [pc EXCEPT ![t] = "release"]
    /\ UNCHANGED <<database, redis, process, token, batch, todo, draft, direct>>

ScheduleRerun(t) ==
    /\ pc[t] = "rerun"
    /\ ScheduleNextRunAt(Proc(t), "due")
    /\ pc' = [pc EXCEPT ![t] = "release"]
    /\ UNCHANGED <<database, redisUp, lock, inProcess, token, batch, todo,
                   draft, direct>>

\* catch: the whole batch fails ...
FailBatch(t) ==
    /\ pc[t] = "fail"
    /\ event' = [e \in Events |-> IF e \in Settling(t) THEN "FAILED" ELSE event[e]]
    /\ retries' = [e \in Events |-> IF e \in Settling(t) THEN retries[e] + 1 ELSE retries[e]]
    /\ origin' = [e \in Events |-> IF e \in Settling(t) THEN NoProc ELSE origin[e]]
    /\ pc' = [pc EXCEPT ![t] = "requeue"]
    /\ UNCHANGED <<segment, before, reflects, covered, redis, process, token,
                   batch, todo, draft, direct>>

\* ... then its rows still PENDING are requeued, or given up at three retries.
RequeueBatch(t) ==
    LET requeued == {e \in Settling(t) : retries[e] < 3} IN
    /\ pc[t] = "requeue"
    /\ retries' = [e \in Events |-> IF e \in requeued THEN retries[e] + 1 ELSE retries[e]]
    /\ event' = [e \in Events |->
                    IF e \in Settling(t) /\ retries'[e] >= 3 THEN "FAILED"
                    ELSE IF e \in requeued THEN "PENDING" ELSE event[e]]
    /\ batch' = [batch EXCEPT ![t] = {}]
    /\ pc' = [pc EXCEPT ![t] = "backoff"]
    /\ UNCHANGED <<origin, segment, before, reflects, covered, redis, process, token,
                   todo, draft, direct>>

ScheduleBackoff(t) ==
    /\ pc[t] = "backoff"
    /\ ScheduleNextRunAt(Proc(t), "future")
    /\ pc' = [pc EXCEPT ![t] = "release"]
    /\ UNCHANGED <<database, redisUp, lock, inProcess, token, batch, todo,
                   draft, direct>>

-----------------------------------------------------------------------------
(* releaseLock and the end of tick's finally                               *)

\* tick returns; a lock value it leaves behind belongs to nobody.
EndTick(t, lockNow) ==
    /\ inProcess' = [inProcess EXCEPT ![Proc(t)] = FALSE]
    /\ pc' = [pc EXCEPT ![t] = "idle"]
    /\ token' = [token EXCEPT ![t] = NoToken]
    /\ batch' = [batch EXCEPT ![t] = {}]
    /\ todo' = [todo EXCEPT ![t] = {}]
    /\ draft' = [draft EXCEPT ![t] = {}]
    /\ lock' = IF lockNow = token[t] /\ ~Carried(token[t], t) THEN Orphan ELSE lockNow

\* Any Redis error on the way: forget a fallback instant that is due.
ReleaseFails(t) ==
    /\ pc[t] \in {"release", "unlock", "peek", "clear"}
    /\ ~redisUp
    /\ fallback' = [fallback EXCEPT ![Proc(t)] = IF @ = "due" THEN "none" ELSE @]
    /\ EndTick(t, lock)
    /\ UNCHANGED <<database, redisUp, nextRun, direct>>

\* GET lock, compared with the token.
CheckLockOwner(t) ==
    /\ pc[t] = "release"
    /\ redisUp
    /\ pc' = [pc EXCEPT ![t] = IF lock = token[t] THEN "unlock" ELSE "peek"]
    /\ UNCHANGED <<database, redis, process, token, batch, todo, draft, direct>>

\* DEL lock, whatever it holds by now.
DeleteLock(t) ==
    /\ pc[t] = "unlock"
    /\ redisUp
    /\ lock' = Free
    /\ pc' = [pc EXCEPT ![t] = "peek"]
    /\ UNCHANGED <<database, redisUp, nextRun, process, token, batch, todo,
                   draft, direct>>

\* GET schedule: done unless it is due.
KeepSchedule(t) ==
    /\ pc[t] = "peek"
    /\ redisUp
    /\ nextRun # "due"
    /\ EndTick(t, lock)
    /\ UNCHANGED <<database, redisUp, nextRun, fallback, direct>>

ScheduleIsSpent(t) ==
    /\ pc[t] = "peek"
    /\ redisUp
    /\ nextRun = "due"
    /\ pc' = [pc EXCEPT ![t] = "clear"]
    /\ UNCHANGED <<database, redis, process, token, batch, todo, draft, direct>>

\* DEL schedule, whatever it holds by now.
ClearSchedule(t) ==
    /\ pc[t] = "clear"
    /\ redisUp
    /\ nextRun' = "none"
    /\ EndTick(t, lock)
    /\ UNCHANGED <<database, redisUp, fallback, direct>>

-----------------------------------------------------------------------------
(* Evaluation requested directly over HTTP, under no lock                  *)

DirectEvaluate(r, s) ==
    /\ \A d \in direct : d.client # r
    /\ s \in Live \ Invalid
    /\ direct' = direct \cup {[client |-> r, segment |-> s, sees |-> Committed]}
    /\ UNCHANGED <<database, redis, process, ticks>>

DirectWrite(d) ==
    /\ reflects' = [reflects EXCEPT ![d.segment] = d.sees]
    /\ covered' = [covered EXCEPT ![d.segment] = @ \cup d.sees]
    /\ direct' = direct \ {d}
    /\ UNCHANGED <<event, retries, origin, segment, before, redis, process, ticks>>

-----------------------------------------------------------------------------
(* Faults                                                                  *)

\* The lock's PX: without "slow run" a tick is always faster than it.
ExpireLock ==
    /\ lock # Free
    /\ lock = Orphan \/ "slow run" \in Faults
    /\ lock' = Free
    /\ UNCHANGED <<database, redisUp, nextRun, process, ticks, direct>>

RedisFails ==
    /\ "outage" \in Faults
    /\ redisUp
    /\ redisUp' = FALSE
    /\ UNCHANGED <<database, nextRun, lock, process, ticks, direct>>

\* Redis comes back, with its keys or empty.
RedisReturns ==
    /\ "outage" \in Faults
    /\ ~redisUp
    /\ redisUp' = TRUE
    /\ \/ UNCHANGED <<nextRun, lock>>
       \/ nextRun' = "none" /\ lock' = Free
    /\ UNCHANGED <<database, process, ticks, direct>>

\* The connection breaks after Redis took a command and before its reply: the
\* client sends the command again, or it fails if Redis is away.
LoseReply(t) ==
    /\ "lost reply" \in Faults
    /\ redisUp
    /\ \/ pc[t] = "acquire" /\ LockFree /\ lock' = token[t] /\ UNCHANGED nextRun
       \/ pc[t] = "unlock" /\ lock' = Free /\ UNCHANGED nextRun
       \/ pc[t] = "clear" /\ nextRun' = "none" /\ UNCHANGED lock
    /\ UNCHANGED <<database, redisUp, process, ticks, direct>>

\* Process p dies and starts again: its memory is lost, its open
\* transactions roll back, its lock stays until it expires.
Crash(p) ==
    LET mine(t)   == Proc(t) = p
        lost      == {e \in Events : event[e] = "open" /\ origin[e] = p}
        survivors == {token[t] : t \in {u \in Ticks : ~mine(u) /\ pc[u] \notin {"idle", "due"}}} IN
    /\ "crash" \in Faults
    /\ event' = [e \in Events |-> IF e \in lost THEN "none" ELSE event[e]]
    /\ origin' = [e \in Events |-> IF e \in lost THEN NoProc ELSE origin[e]]
    /\ inProcess' = [inProcess EXCEPT ![p] = FALSE]
    /\ fallback' = [fallback EXCEPT ![p] = "none"]
    /\ pc' = [t \in Ticks |-> IF mine(t) THEN "idle" ELSE pc[t]]
    /\ token' = [t \in Ticks |-> IF mine(t) THEN NoToken ELSE token[t]]
    /\ batch' = [t \in Ticks |-> IF mine(t) THEN {} ELSE batch[t]]
    /\ todo' = [t \in Ticks |-> IF mine(t) THEN {} ELSE todo[t]]
    /\ draft' = [t \in Ticks |-> IF mine(t) THEN {} ELSE draft[t]]
    /\ lock' = IF lock \in survivors \cup {Free} THEN lock ELSE Orphan
    /\ UNCHANGED <<retries, segment, before, reflects, covered, redisUp, nextRun, direct>>

-----------------------------------------------------------------------------
Init ==
    /\ event = [e \in Events |-> "none"]
    /\ retries = [e \in Events |-> 0]
    /\ origin = [e \in Events |-> NoProc]
    /\ segment = [s \in Segments |-> IF s \in InitialSegments THEN "live" ELSE "absent"]
    /\ before = [s \in Segments |-> {}]
    /\ reflects = [s \in Segments |-> {}]
    /\ covered = [s \in Segments |-> {}]
    /\ redisUp = RedisAtStart
    /\ nextRun = "none"
    /\ lock = Free
    /\ inProcess = [p \in Procs |-> FALSE]
    /\ fallback = [p \in Procs |-> "none"]
    /\ pc = [t \in Ticks |-> "idle"]
    /\ token = [t \in Ticks |-> NoToken]
    /\ batch = [t \in Ticks |-> {}]
    /\ todo = [t \in Ticks |-> {}]
    /\ draft = [t \in Ticks |-> {}]
    /\ direct = {}

Process(t) ==
    \/ FetchEvents(t)
    \/ FetchSegments(t)
    \/ EvaluateRule(t)
    \/ WriteMembership(t)
    \/ EvaluationThrows(t)
    \/ MarkProcessed(t)
    \/ ScheduleRerun(t)
    \/ FailBatch(t)
    \/ RequeueBatch(t)
    \/ ScheduleBackoff(t)

ReleaseLock(t) ==
    \/ ReleaseFails(t)
    \/ CheckLockOwner(t)
    \/ DeleteLock(t)
    \/ KeepSchedule(t)
    \/ ScheduleIsSpent(t)
    \/ ClearSchedule(t)

Tick(t) ==
    \/ TimerFires(t)
    \/ NotDue(t)
    \/ Due(t)
    \/ AcquireLock(t)
    \/ Process(t)
    \/ ReleaseLock(t)

Write ==
    \/ \E e \in Events, p \in Procs : Record(e, p)
    \/ \E e \in Events : Commit(e) \/ Rollback(e)
    \/ \E s \in Segments : CreateSegment(s) \/ DeleteSegment(s)

Evaluate ==
    \/ \E r \in Requests, s \in Segments : DirectEvaluate(r, s)
    \/ \E d \in direct : DirectWrite(d)

Time ==
    \/ ElapseSchedule
    \/ \E p \in Procs : ElapseFallback(p)
    \/ ExpireSchedule
    \/ ExpireLock

Connection ==
    \/ RedisFails
    \/ RedisReturns
    \/ \E t \in Ticks : LoseReply(t)

Fault ==
    \/ Connection
    \/ \E p \in Procs : Crash(p)

Next ==
    \/ Write
    \/ \E t \in Ticks : Tick(t)
    \/ Evaluate
    \/ Time
    \/ Fault

Spec == Init /\ [][Next]_vars

-----------------------------------------------------------------------------
(* Properties                                                              *)

PC == {"idle", "due", "acquire", "fetch", "segments", "evaluate", "write",
       "rerun", "fail", "requeue", "backoff", "release", "unlock", "peek",
       "clear"}

\* Types of all variables.
TypeOK ==
    /\ event \in [Events -> {"none", "open", "PENDING", "PROCESSED", "FAILED"}]
    /\ retries \in [Events -> Nat]
    /\ origin \in [Events -> Procs \cup {NoProc}]
    /\ segment \in [Segments -> {"absent", "live", "deleted"}]
    /\ before \in [Segments -> SUBSET Events]
    /\ reflects \in [Segments -> SUBSET Events]
    /\ covered \in [Segments -> SUBSET Events]
    /\ redisUp \in BOOLEAN
    /\ nextRun \in Instants
    /\ lock \in Ticks \cup {Free, Orphan}
    /\ inProcess \in [Procs -> BOOLEAN]
    /\ fallback \in [Procs -> Instants]
    /\ pc \in [Ticks -> PC]
    /\ token \in [Ticks -> Ticks \cup {NoToken}]
    /\ batch \in [Ticks -> SUBSET Events]
    /\ todo \in [Ticks -> SUBSET Segments]
    /\ draft \in [Ticks -> SUBSET Events]
    /\ direct \subseteq [client : Requests, segment : Segments, sees : SUBSET Events]

Working(t) == pc[t] \in {"fetch", "segments", "evaluate", "write", "rerun",
                         "fail", "requeue", "backoff"}

\* At most one tick, of all processes together, is between taking the lock and
\* releasing it: "Acquires a Redis lock to ensure only one worker runs at a
\* time" (src/backend/README.md:317).
SingleWorker == \A t, u \in Ticks : Working(t) /\ Working(u) => t = u

\* The live segments that existed when e was committed.
Concerned(e) == {s \in Live : e \notin before[s]}

\* The persisted membership of every segment that existed before the event
\* still reflects an event marked PROCESSED: no later or slower write takes it
\* back to data older than the event.
ProcessedReflected ==
    \A e \in Events : event[e] = "PROCESSED" => \A s \in Concerned(e) : e \in reflects[s]

\* Whatever fails, an event is PROCESSED only after some evaluation of each
\* segment that existed before it has read its data and persisted the result.
ProcessedCovered ==
    \A e \in Events : event[e] = "PROCESSED" => \A s \in Concerned(e) : e \in covered[s]

\* A settled event, PROCESSED or FAILED, has been evaluated for every live
\* segment older than it with a rule that parses: "The worker evaluates all dynamic segments
\* and persists membership + deltas" (src/backend/README.md:14).
SettledReflected ==
    \A e \in Events : event[e] \in {"PROCESSED", "FAILED"} =>
        \A s \in Concerned(e) \ Invalid : e \in reflects[s]

\* A write that is not settled keeps a wake-up outstanding in the memory of the
\* process that recorded it, whatever becomes of the Redis key.
UnsettledScheduled ==
    \A e \in Events : event[e] \in {"open", "PENDING"} => fallback[origin[e]] # "none"

\* PROCESSED and FAILED are final, and an event fails at most once: a second
\* worker holding the same batch, or the requeue after a failure, never takes
\* a settled event back to PENDING nor counts it twice.
SettledOnce ==
    [][\A e \in Events :
        event[e] \in {"PROCESSED", "FAILED"} =>
            event'[e] = event[e] /\ retries'[e] = retries[e]]_vars

\* However many workers run and whatever fails, the rows, the segments and what
\* has been evaluated follow the ledger of events: under the lock or without it,
\* no step settles a row but a whole batch of PENDING ones that every segment
\* has covered, or a failed batch, once; the requeue after a failure does nothing.
Ledger == INSTANCE EventLedger

ImplementsEventLedger == Ledger!Spec

\* Every PENDING event is settled in the end.
PendingSettles ==
    \A e \in Events : event[e] = "PENDING" ~> event[e] \in {"PROCESSED", "FAILED"}

\* A worker that finished a full chunk runs again: the schedule it writes is due for
\* its own process too, although its lock release deletes the due key at once and
\* no event may have been recorded there ("If the event chunk was full (indicating
\* more work remains), the worker schedules another run immediately",
\* src/backend/README.md:322; the model has no durations for the "immediately").
FullChunkReruns ==
    \A p \in Procs :
        (\E t \in Ticks : Proc(t) = p /\ pc[t] = "rerun")
            ~> (\E t \in Ticks : Proc(t) = p /\ pc[t] = "acquire")

-----------------------------------------------------------------------------
\* Timers keep firing, awaits resolve, open transactions end, time passes;
\* no fairness on new writes, on requests or on faults.
Fairness ==
    /\ \A t \in Ticks : WF_vars(Tick(t))
    /\ \A e \in Events : WF_vars(Commit(e))
    /\ WF_vars(ElapseSchedule)
    /\ \A p \in Procs : WF_vars(ElapseFallback(p))
    /\ WF_vars(ExpireLock)

FairSpec == Spec /\ Fairness
=============================================================================
