------------------------ MODULE Recalculation_proofs ------------------------
(***************************************************************************)
(* Proofs about the recalculation worker: types, what holds whatever fails *)
(* (SettledOnce, ProcessedCovered), what needs the lock to outlive the     *)
(* work (SingleWorker, ProcessedReflected) and what needs a healthy Redis  *)
(* (UnsettledScheduled).                                                   *)
(***************************************************************************)
EXTENDS Recalculation, TLAPS

-----------------------------------------------------------------------------
(* Lemmas on the operators                                                 *)

\* A tick belongs to a process.
LEMMA ProcOfTick == \A t \in Ticks : Proc(t) \in Procs
BY DEF Ticks, Proc

\* A tick past its due check carries a token.
Running(t)   == pc[t] \notin {"idle", "due"}
TokensDrawn  == \A t \in Ticks : Running(t) => token[t] \in Ticks

\* What a tick may draw is a token.
LEMMA TokenChoicesType ==
    ASSUME TokensDrawn, NEW t \in Ticks
    PROVE  TokenChoices(t) \subseteq Ticks
BY DEF TokenChoices, FreshTokens, TokensDrawn, Running

\* Math.max of scheduled instants is one.
LEMMA LatestType == \A a, b \in Instants : Latest(a, b) \in Instants
BY DEF Latest, Instants

-----------------------------------------------------------------------------
(* Type correctness                                                        *)

\* Initially every variable has its type.
LEMMA TypeInit == Init => TypeOK
BY SegmentsAssumption, FaultsAssumption, NullAssumption
DEF Init, TypeOK, Instants, PC

\* Every step keeps the types; that a lock value is a tick needs TokensDrawn.
LEMMA TypeStep == TypeOK /\ TokensDrawn /\ [Next]_vars => TypeOK'
<1> SUFFICES ASSUME TypeOK, TokensDrawn, [Next]_vars PROVE TypeOK'
  OBVIOUS
<1> USE ProcOfTick, LatestType DEF TypeOK
<1>1. CASE Write
  <2>1. ASSUME NEW e \in Events, NEW p \in Procs, Record(e, p) PROVE TypeOK'
    BY <2>1 DEF Record, ScheduleNextRunAt, Instants, ticks
  <2>2. ASSUME NEW e \in Events, Commit(e) PROVE TypeOK'
    BY <2>2 DEF Commit, redis, process, ticks
  <2>3. ASSUME NEW e \in Events, Rollback(e) PROVE TypeOK'
    BY <2>3 DEF Rollback, redis, process, ticks
  <2>4. ASSUME NEW s \in Segments, CreateSegment(s) PROVE TypeOK'
    BY <2>4 DEF CreateSegment, Committed, redis, process, ticks
  <2>5. ASSUME NEW s \in Segments, DeleteSegment(s) PROVE TypeOK'
    BY <2>5 DEF DeleteSegment, redis, process, ticks
  <2> QED
    BY <1>1, <2>1, <2>2, <2>3, <2>4, <2>5 DEF Write
<1>2. ASSUME NEW t \in Ticks, Tick(t) PROVE TypeOK'
  <2>1. CASE TimerFires(t)
    BY <2>1 DEF TimerFires, PC, database, redis, process
  <2>2. CASE NotDue(t)
    BY <2>2 DEF NotDue, PC, database, redis, process
  <2>3. CASE Due(t)
    BY <2>3, TokenChoicesType DEF Due, PC, database, redis
  <2>4. CASE AcquireLock(t)
    BY <2>4 DEF AcquireLock, TokensDrawn, Running, PC, database, process
  <2>5. CASE FetchEvents(t)
    BY <2>5 DEF FetchEvents, FirstChunk, Pending, PC, database, redis, process
  <2>6. CASE FetchSegments(t)
    BY <2>6 DEF FetchSegments, Live, PC, database, redis, process
  <2>7. CASE EvaluateRule(t)
    BY <2>7 DEF EvaluateRule, Committed, PC, database, redis, process
  <2>8. CASE WriteMembership(t)
    BY <2>8 DEF WriteMembership, PC, redis, process
  <2>9. CASE EvaluationThrows(t)
    BY <2>9 DEF EvaluationThrows, PC, database, redis, process
  <2>10. CASE MarkProcessed(t)
    BY <2>10 DEF MarkProcessed, PC, redis, process
  <2>11. CASE ScheduleRerun(t)
    BY <2>11 DEF ScheduleRerun, ScheduleNextRunAt, Instants, PC, database
  <2>12. CASE FailBatch(t)
    BY <2>12 DEF FailBatch, PC, redis, process
  <2>13. CASE RequeueBatch(t)
    BY <2>13 DEF RequeueBatch, Settling, Pending, PC, redis, process
  <2>14. CASE ScheduleBackoff(t)
    BY <2>14 DEF ScheduleBackoff, ScheduleNextRunAt, Instants, PC, database
  <2>15. CASE ReleaseFails(t)
    BY <2>15 DEF ReleaseFails, EndTick, Instants, PC, database
  <2>16. CASE CheckLockOwner(t)
    BY <2>16 DEF CheckLockOwner, PC, database, redis, process
  <2>17. CASE DeleteLock(t)
    BY <2>17 DEF DeleteLock, PC, database, process
  <2>18. CASE KeepSchedule(t)
    BY <2>18 DEF KeepSchedule, EndTick, PC, database
  <2>19. CASE ScheduleIsSpent(t)
    BY <2>19 DEF ScheduleIsSpent, PC, database, redis, process
  <2>20. CASE ClearSchedule(t)
    BY <2>20 DEF ClearSchedule, EndTick, Instants, PC, database
  <2> QED
    BY <1>2, <2>1, <2>2, <2>3, <2>4, <2>5, <2>6, <2>7, <2>8, <2>9, <2>10,
       <2>11, <2>12, <2>13, <2>14, <2>15, <2>16, <2>17, <2>18, <2>19, <2>20
    DEF Tick, Process, ReleaseLock
<1>3. CASE Evaluate
  <2>1. ASSUME NEW r \in Requests, NEW s \in Segments, DirectEvaluate(r, s) PROVE TypeOK'
    BY <2>1 DEF DirectEvaluate, Committed, database, redis, process, ticks
  <2>2. ASSUME NEW d \in direct, DirectWrite(d) PROVE TypeOK'
    BY <2>2 DEF DirectWrite, redis, process, ticks
  <2> QED
    BY <1>3, <2>1, <2>2 DEF Evaluate
<1>4. CASE Time
  BY <1>4 DEF Time, ElapseSchedule, ElapseFallback, ExpireSchedule, ExpireLock,
              Instants, database, redis, process, ticks
<1>5. CASE Connection
  <2>1. CASE RedisFails \/ RedisReturns
    BY <2>1 DEF RedisFails, RedisReturns, Instants, database, process, ticks
  <2>2. ASSUME NEW t \in Ticks, LoseReply(t) PROVE TypeOK'
    <3>1. lock' \in Ticks \cup {Free, Orphan} /\ nextRun' \in Instants
      BY <2>2 DEF LoseReply, TokensDrawn, Running, Instants
    <3> QED
      BY <2>2, <3>1 DEF LoseReply, database, process, ticks
  <2> QED
    BY <1>5, <2>1, <2>2 DEF Connection
<1>6. ASSUME NEW p \in Procs, Crash(p) PROVE TypeOK'
  BY <1>6 DEF Crash, Instants, PC
<1>7. CASE UNCHANGED vars
  BY <1>7 DEF vars, database, redis, process, ticks
<1> QED
  BY <1>1, <1>2, <1>3, <1>4, <1>5, <1>6, <1>7 DEF Next, Fault

-----------------------------------------------------------------------------
(* Tokens                                                                  *)

\* A step leaves the token of every running tick alone and starts no tick,
\* except for the one tick that passes its due check and picks a token.
LEMMA TokenFrame ==
    ASSUME TypeOK, [Next]_vars
    PROVE  \/ \A u \in Ticks : Running(u)' => Running(u) /\ token'[u] = token[u]
           \/ \E t \in Ticks : Due(t)
<1> USE DEF TypeOK, Running
<1>1. CASE Write \/ Evaluate \/ Time \/ Connection \/ UNCHANGED vars
  <2>1. pc' = pc /\ token' = token
    BY <1>1 DEF Write, Record, Commit, Rollback, CreateSegment, DeleteSegment,
                Evaluate, DirectEvaluate, DirectWrite, Time, ElapseSchedule,
                ElapseFallback, ExpireSchedule, ExpireLock, Connection, RedisFails,
                RedisReturns, LoseReply, ticks, vars
  <2> QED
    BY <2>1
<1>2. ASSUME NEW t \in Ticks, Tick(t), ~Due(t)
      PROVE  \A u \in Ticks : Running(u)' => Running(u) /\ token'[u] = token[u]
  <2>1. CASE TimerFires(t) \/ NotDue(t)
    BY <2>1 DEF TimerFires, NotDue
  <2>2. CASE AcquireLock(t)
    BY <2>2 DEF AcquireLock
  <2>3. CASE Process(t)
    BY <2>3 DEF Process, FetchEvents, FetchSegments, EvaluateRule,
                WriteMembership, EvaluationThrows, MarkProcessed, ScheduleRerun,
                FailBatch, RequeueBatch, ScheduleBackoff
  <2>4. CASE ReleaseFails(t) \/ KeepSchedule(t) \/ ClearSchedule(t)
    <3>1. EndTick(t, lock)
      BY <2>4 DEF ReleaseFails, KeepSchedule, ClearSchedule
    <3> QED
      BY <3>1 DEF EndTick
  <2>5. CASE CheckLockOwner(t) \/ DeleteLock(t) \/ ScheduleIsSpent(t)
    BY <2>5 DEF CheckLockOwner, DeleteLock, ScheduleIsSpent
  <2> QED
    BY <1>2, <2>1, <2>2, <2>3, <2>4, <2>5 DEF Tick, ReleaseLock
<1>3. ASSUME NEW p \in Procs, Crash(p)
      PROVE  \A u \in Ticks : Running(u)' => Running(u) /\ token'[u] = token[u]
  BY <1>3 DEF Crash
<1> QED
  BY <1>1, <1>2, <1>3 DEF Next, Fault

\* Every step leaves each running tick with a token.
LEMMA TokensStep == TypeOK /\ TokensDrawn /\ [Next]_vars => TokensDrawn'
<1> SUFFICES ASSUME TypeOK, TokensDrawn, [Next]_vars PROVE TokensDrawn'
  OBVIOUS
<1>1. CASE \E t \in Ticks : Due(t)
  <2> PICK t \in Ticks : Due(t)
    BY <1>1
  <2>1. PICK id \in TokenChoices(t) : token' = [token EXCEPT ![t] = id]
    BY DEF Due
  <2>2. id \in Ticks
    BY TokenChoicesType
  <2> QED
    BY <2>1, <2>2 DEF Due, TokensDrawn, Running, TypeOK
<1>2. CASE \A u \in Ticks : Running(u)' => Running(u) /\ token'[u] = token[u]
  BY <1>2 DEF TokensDrawn
<1> QED
  BY <1>1, <1>2, TokenFrame

\* The invariant the later proofs start from.
LEMMA TypedTokens == Spec => [](TypeOK /\ TokensDrawn)
<1>1. Init => TypeOK /\ TokensDrawn
  BY TypeInit DEF Init, TokensDrawn, Running
<1>2. TypeOK /\ TokensDrawn /\ [Next]_vars => (TypeOK /\ TokensDrawn)'
  BY TypeStep, TokensStep
<1> QED
  BY <1>1, <1>2, PTL DEF Spec

\* Every variable keeps its type.
THEOREM TypeCorrect == Spec => []TypeOK
BY TypedTokens, PTL

-----------------------------------------------------------------------------
(* Settled events                                                          *)

\* No step touches the row of a settled event: both catch updates and the
\* PROCESSED update select PENDING rows only.
LEMMA SettledStep ==
    ASSUME TypeOK, [Next]_vars, NEW e \in Events, event[e] \in {"PROCESSED", "FAILED"}
    PROVE  event'[e] = event[e] /\ retries'[e] = retries[e]
<1> USE DEF TypeOK
<1>1. CASE Write
  BY <1>1 DEF Write, Record, Commit, Rollback, CreateSegment, DeleteSegment
<1>2. ASSUME NEW t \in Ticks, Tick(t)
      PROVE  event'[e] = event[e] /\ retries'[e] = retries[e]
  <2>1. CASE MarkProcessed(t) \/ FailBatch(t) \/ RequeueBatch(t)
    <3>1. e \notin Settling(t)
      BY DEF Settling, Pending
    <3> QED
      BY <2>1, <3>1 DEF MarkProcessed, FailBatch, RequeueBatch
  <2>2. CASE Process(t) /\ ~(MarkProcessed(t) \/ FailBatch(t) \/ RequeueBatch(t))
    BY <2>2 DEF Process, FetchEvents, FetchSegments, EvaluateRule, WriteMembership,
                EvaluationThrows, ScheduleRerun, ScheduleBackoff, database
  <2>3. CASE ReleaseLock(t)
    BY <2>3 DEF ReleaseLock, ReleaseFails, CheckLockOwner, DeleteLock, KeepSchedule,
                ScheduleIsSpent, ClearSchedule, database
  <2>4. CASE TimerFires(t) \/ NotDue(t) \/ Due(t) \/ AcquireLock(t)
    BY <2>4 DEF TimerFires, NotDue, Due, AcquireLock, database
  <2> QED
    BY <1>2, <2>1, <2>2, <2>3, <2>4 DEF Tick
<1>3. CASE Evaluate \/ Time
  BY <1>3 DEF Evaluate, DirectEvaluate, DirectWrite, Time, ElapseSchedule,
              ElapseFallback, ExpireSchedule, ExpireLock, database
<1>4. CASE Connection
  BY <1>4 DEF Connection, RedisFails, RedisReturns, LoseReply, database
<1>5. ASSUME NEW p \in Procs, Crash(p)
      PROVE  event'[e] = event[e] /\ retries'[e] = retries[e]
  BY <1>5 DEF Crash
<1>6. CASE UNCHANGED vars
  BY <1>6 DEF vars, database
<1> QED
  BY <1>1, <1>2, <1>3, <1>4, <1>5, <1>6 DEF Next, Fault

\* Whatever fails, PROCESSED and FAILED are final and no event is counted as
\* failed twice: two workers that hold the same batch do not undo each other.
THEOREM EventsSettleOnce == Spec => SettledOnce
<1>1. TypeOK /\ [Next]_vars =>
        [\A e \in Events :
            event[e] \in {"PROCESSED", "FAILED"} =>
                event'[e] = event[e] /\ retries'[e] = retries[e]]_vars
  BY SettledStep
<1> QED
  BY <1>1, TypeCorrect, PTL DEF Spec, SettledOnce

-----------------------------------------------------------------------------
(* Coverage: at-least-once evaluation, whatever fails                      *)

Evaluating(t) == pc[t] \in {"evaluate", "write"}

\* While a tick evaluates, its batch is committed and every segment it is done
\* with is covered, unless it is younger than the event; the data it is about to
\* persist includes its batch.
CoverInv ==
    /\ \A t \in Ticks : pc[t] \in {"segments", "evaluate", "write"} => batch[t] \subseteq Committed
    /\ \A t \in Ticks : pc[t] = "write" => batch[t] \subseteq draft[t]
    /\ \A t \in Ticks, s \in Segments :
          Evaluating(t) /\ segment[s] = "live" /\ s \notin todo[t]
              => batch[t] \subseteq before[s] \cup covered[s]
    /\ ProcessedCovered

\* Only CreateSegment and DeleteSegment touch segments: one that is live was live
\* before the step, or is younger than all that is committed.
LEMMA SegmentFrame ==
    ASSUME TypeOK, [Next]_vars, NEW s \in Segments, segment'[s] = "live"
    PROVE  \/ segment[s] = "live" /\ before'[s] = before[s]
           \/ Committed \subseteq before'[s]
<1> USE DEF TypeOK
<1>1. CASE Write
  BY <1>1 DEF Write, Record, Commit, Rollback, CreateSegment, DeleteSegment
<1>2. ASSUME NEW t \in Ticks, Tick(t) PROVE UNCHANGED <<segment, before>>
  BY <1>2 DEF Tick, TimerFires, NotDue, Due, AcquireLock, Process, FetchEvents,
       FetchSegments, EvaluateRule, WriteMembership, EvaluationThrows,
       MarkProcessed, ScheduleRerun, FailBatch, RequeueBatch, ScheduleBackoff,
       ReleaseLock, ReleaseFails, CheckLockOwner, DeleteLock, KeepSchedule,
       ScheduleIsSpent, ClearSchedule, database
<1>3. CASE Evaluate \/ Time \/ Fault \/ UNCHANGED vars
  BY <1>3 DEF Evaluate, DirectEvaluate, DirectWrite, Time, ElapseSchedule,
       ElapseFallback, ExpireSchedule, ExpireLock, Fault, Connection, RedisFails,
       RedisReturns, LoseReply, Crash, database, vars
<1> QED
  BY <1>1, <1>2, <1>3 DEF Next

\* Committed data is never uncommitted.
LEMMA CommittedGrows ==
    ASSUME TypeOK, [Next]_vars PROVE Committed \subseteq Committed'
<1> USE DEF TypeOK, Committed
<1>1. CASE Write
  BY <1>1 DEF Write, Record, Commit, Rollback, CreateSegment, DeleteSegment
<1>2. ASSUME NEW t \in Ticks, Tick(t) PROVE Committed \subseteq Committed'
  <2>1. CASE MarkProcessed(t) \/ FailBatch(t) \/ RequeueBatch(t)
    BY <2>1 DEF MarkProcessed, FailBatch, RequeueBatch
  <2>2. CASE ~(MarkProcessed(t) \/ FailBatch(t) \/ RequeueBatch(t))
    BY <1>2, <2>2 DEF Tick, TimerFires, NotDue, Due, AcquireLock, Process,
         FetchEvents, FetchSegments, EvaluateRule, WriteMembership,
         EvaluationThrows, ScheduleRerun, ScheduleBackoff, ReleaseLock,
         ReleaseFails, CheckLockOwner, DeleteLock, KeepSchedule,
         ScheduleIsSpent, ClearSchedule, database
  <2> QED
    BY <2>1, <2>2
<1>3. CASE Evaluate \/ Time \/ Connection \/ UNCHANGED vars
  BY <1>3 DEF Evaluate, DirectEvaluate, DirectWrite, Time, ElapseSchedule,
       ElapseFallback, ExpireSchedule, ExpireLock, Connection, RedisFails,
       RedisReturns, LoseReply, database, vars
<1>4. ASSUME NEW p \in Procs, Crash(p) PROVE Committed \subseteq Committed'
  BY <1>4 DEF Crash
<1> QED
  BY <1>1, <1>2, <1>3, <1>4 DEF Next, Fault

\* A step by which no tick moves inside the evaluation of its batch and no
\* event becomes PROCESSED keeps CoverInv, as coverage only grows.
LEMMA CoverFrame ==
    ASSUME TypeOK, CoverInv, [Next]_vars,
           \A s \in Segments : covered[s] \subseteq covered'[s],
           \A e \in Events : event'[e] = "PROCESSED" => event[e] = "PROCESSED",
           \A t \in Ticks : pc'[t] \in {"segments", "evaluate", "write"} =>
               /\ pc'[t] = pc[t]
               /\ batch'[t] = batch[t] /\ todo'[t] = todo[t] /\ draft'[t] = draft[t]
    PROVE  CoverInv'
<1>1. Committed \subseteq Committed'
  BY CommittedGrows
<1>2. ASSUME NEW t \in Ticks, NEW s \in Segments,
             Evaluating(t)', segment'[s] = "live", s \notin todo'[t]
      PROVE  batch'[t] \subseteq before'[s] \cup covered'[s]
  <2>1. Evaluating(t) /\ s \notin todo[t] /\ batch'[t] = batch[t] /\ batch[t] \subseteq Committed
    BY <1>2 DEF CoverInv, Evaluating
  <2>2. covered[s] \subseteq covered'[s]
    OBVIOUS
  <2> QED
    BY <1>2, <2>1, <2>2, SegmentFrame DEF CoverInv
<1>3. ProcessedCovered'
  <2> SUFFICES ASSUME NEW e \in Events, event'[e] = "PROCESSED",
                      NEW s \in Segments, segment'[s] = "live", e \notin before'[s]
               PROVE  e \in covered'[s]
    BY DEF ProcessedCovered, Concerned, Live
  <2>1. event[e] = "PROCESSED" /\ e \in Committed
    BY DEF Committed
  <2>2. segment[s] = "live" /\ e \notin before[s]
    BY <2>1, SegmentFrame
  <2> QED
    BY <2>1, <2>2 DEF CoverInv, ProcessedCovered, Concerned, Live
<1> QED
  BY <1>1, <1>2, <1>3 DEF CoverInv

\* Every step keeps CoverInv; only MarkProcessed makes an event PROCESSED, and
\* then no segment is left to evaluate.
LEMMA CoverStep == TypeOK /\ CoverInv /\ [Next]_vars => CoverInv'
<1> SUFFICES ASSUME TypeOK, CoverInv, [Next]_vars PROVE CoverInv'
  OBVIOUS
<1> USE DEF TypeOK
<1>1. CASE Write \/ Evaluate \/ Time \/ Connection \/ UNCHANGED vars
  <2>1. UNCHANGED <<pc, batch, todo, draft>>
    BY <1>1 DEF Write, Record, Commit, Rollback, CreateSegment, DeleteSegment,
         Evaluate, DirectEvaluate, DirectWrite, Time, ElapseSchedule,
         ElapseFallback, ExpireSchedule, ExpireLock, Connection, RedisFails,
         RedisReturns, LoseReply, ticks, vars
  <2>2. CASE Write
    <3>1. \A e \in Events : event'[e] = "PROCESSED" => event[e] = "PROCESSED"
      BY <2>2 DEF Write, Record, Commit, Rollback, CreateSegment, DeleteSegment
    <3>2. UNCHANGED covered
      BY <2>2 DEF Write, Record, Commit, Rollback, CreateSegment, DeleteSegment
    <3> QED
      BY <2>1, <3>1, <3>2, CoverFrame
  <2>3. CASE Evaluate
    <3>1. UNCHANGED event
      BY <2>3 DEF Evaluate, DirectEvaluate, DirectWrite, database
    <3>2. \A s \in Segments : covered[s] \subseteq covered'[s]
      BY <2>3 DEF Evaluate, DirectEvaluate, DirectWrite, database
    <3> QED
      BY <2>1, <3>1, <3>2, CoverFrame
  <2>4. CASE Time \/ Connection \/ UNCHANGED vars
    <3>1. UNCHANGED <<event, covered>>
      BY <2>4 DEF Time, ElapseSchedule, ElapseFallback, ExpireSchedule,
           ExpireLock, Connection, RedisFails, RedisReturns, LoseReply, database, vars
    <3> QED
      BY <2>1, <3>1, CoverFrame
  <2> QED
    BY <1>1, <2>2, <2>3, <2>4
<1>2. ASSUME NEW t \in Ticks, Tick(t) PROVE CoverInv'
  <2>1. CASE FetchEvents(t)
    <3>1. FirstChunk(Pending) \subseteq Committed
      BY DEF FirstChunk, Pending, Committed
    <3> QED
      BY <2>1, <3>1 DEF FetchEvents, CoverInv, Evaluating, ProcessedCovered, Concerned, Live,
         Committed, database
  <2>2. CASE FetchSegments(t)
    BY <2>2 DEF FetchSegments, CoverInv, Evaluating, ProcessedCovered, Concerned, Committed,
       Live, database
  <2>3. CASE EvaluateRule(t)
    BY <2>3 DEF EvaluateRule, CoverInv, Evaluating, ProcessedCovered, Concerned, Live,
       Committed, database
  <2>4. CASE WriteMembership(t)
    <3>1. \A s \in Segments : covered[s] \subseteq covered'[s]
      BY <2>4 DEF WriteMembership
    <3>2. \A s \in Segments :
              segment'[s] = "live" /\ s \notin todo'[t]
                  => batch[t] \subseteq before'[s] \cup covered'[s]
      BY <2>4 DEF WriteMembership, CoverInv, Evaluating
    <3>3. UNCHANGED <<event, segment, before, batch>>
      BY <2>4 DEF WriteMembership
    <3>4. ProcessedCovered'
      BY <3>1, <3>3 DEF CoverInv, ProcessedCovered, Concerned, Live
    <3> QED
      BY <2>4, <3>1, <3>2, <3>3, <3>4 DEF WriteMembership, CoverInv, Evaluating, Committed
  <2>5. CASE MarkProcessed(t)
    <3>1. \A s \in Segments : segment[s] = "live" => batch[t] \subseteq before[s] \cup covered[s]
      BY <2>5 DEF MarkProcessed, CoverInv, Evaluating
    <3>2. \A e \in Events : event'[e] = "PROCESSED" => event[e] = "PROCESSED" \/ e \in batch[t]
      BY <2>5 DEF MarkProcessed, Settling
    <3>3. Committed \subseteq Committed'
      BY CommittedGrows
    <3>4. ProcessedCovered'
      BY <2>5, <3>1, <3>2 DEF MarkProcessed, CoverInv, ProcessedCovered, Concerned, Live
    <3> QED
      BY <2>5, <3>3, <3>4 DEF MarkProcessed, CoverInv, Evaluating
  <2>6. CASE EvaluationThrows(t) \/ ScheduleRerun(t) \/ ScheduleBackoff(t)
             \/ FailBatch(t) \/ RequeueBatch(t)
    <3>1. \A e \in Events : event'[e] = "PROCESSED" => event[e] = "PROCESSED"
      <4>1. CASE FailBatch(t)
        BY <4>1 DEF FailBatch
      <4>2. CASE RequeueBatch(t)
        BY <4>2 DEF RequeueBatch
      <4> QED
        BY <2>6, <4>1, <4>2 DEF EvaluationThrows, ScheduleRerun, ScheduleBackoff, database
    <3>2. UNCHANGED covered
      BY <2>6 DEF EvaluationThrows, ScheduleRerun, ScheduleBackoff, FailBatch,
           RequeueBatch, database
    <3>3. \A u \in Ticks : pc'[u] \in {"segments", "evaluate", "write"} =>
              /\ pc'[u] = pc[u]
              /\ batch'[u] = batch[u] /\ todo'[u] = todo[u] /\ draft'[u] = draft[u]
      <4>1. CASE EvaluationThrows(t)
        BY <4>1 DEF EvaluationThrows
      <4>2. CASE RequeueBatch(t)
        BY <4>2 DEF RequeueBatch
      <4>3. CASE ScheduleRerun(t) \/ ScheduleBackoff(t) \/ FailBatch(t)
        BY <4>3 DEF ScheduleRerun, ScheduleBackoff, FailBatch
      <4> QED
        BY <2>6, <4>1, <4>2, <4>3
    <3> QED
      BY <3>1, <3>2, <3>3, CoverFrame
  <2>7. CASE TimerFires(t) \/ NotDue(t) \/ Due(t) \/ AcquireLock(t)
             \/ CheckLockOwner(t) \/ DeleteLock(t) \/ ScheduleIsSpent(t)
    <3>1. /\ UNCHANGED <<event, covered, batch, todo, draft>>
          /\ \A u \in Ticks : pc'[u] \in {"segments", "evaluate", "write"} => pc'[u] = pc[u]
      BY <2>7 DEF TimerFires, NotDue, Due, AcquireLock, CheckLockOwner, DeleteLock,
           ScheduleIsSpent, database
    <3> QED
      BY <3>1, CoverFrame
  <2>8. CASE ReleaseFails(t) \/ KeepSchedule(t) \/ ClearSchedule(t)
    <3>1. EndTick(t, lock) /\ UNCHANGED <<event, covered>>
      BY <2>8 DEF ReleaseFails, KeepSchedule, ClearSchedule, database
    <3>2. \A u \in Ticks : pc'[u] \in {"segments", "evaluate", "write"} =>
              /\ pc'[u] = pc[u]
              /\ batch'[u] = batch[u] /\ todo'[u] = todo[u] /\ draft'[u] = draft[u]
      BY <3>1 DEF EndTick
    <3> QED
      BY <3>1, <3>2, CoverFrame
  <2> QED
    BY <1>2, <2>1, <2>2, <2>3, <2>4, <2>5, <2>6, <2>7, <2>8 DEF Tick, Process, ReleaseLock
<1>3. ASSUME NEW p \in Procs, Crash(p) PROVE CoverInv'
  <2>1. /\ \A e \in Events : event'[e] = "PROCESSED" => event[e] = "PROCESSED"
        /\ UNCHANGED covered
        /\ \A u \in Ticks : pc'[u] \in {"segments", "evaluate", "write"} =>
              /\ pc'[u] = pc[u]
              /\ batch'[u] = batch[u] /\ todo'[u] = todo[u] /\ draft'[u] = draft[u]
    BY <1>3 DEF Crash
  <2> QED
    BY <2>1, CoverFrame
<1> QED
  BY <1>1, <1>2, <1>3 DEF Next, Fault

\* Whatever fails and however many workers run, an event is PROCESSED only after
\* every segment that existed before it has been evaluated on data that includes
\* it.
THEOREM ProcessedIsCovered == Spec => []ProcessedCovered
<1>1. Init => CoverInv
  BY SegmentsAssumption DEF Init, CoverInv, Evaluating, ProcessedCovered
<1>2. TypeOK /\ CoverInv /\ [Next]_vars => CoverInv'
  BY CoverStep
<1>3. CoverInv => ProcessedCovered
  BY DEF CoverInv
<1> QED
  BY <1>1, <1>2, <1>3, TypeCorrect, PTL DEF Spec

-----------------------------------------------------------------------------
(* Mutual exclusion                                                        *)

\* Redis always answers, no reply is lost, the lock's TTL is longer than any run,
\* and no two ticks draw one token, none with the same pid in the same millisecond.
SafeLock == RedisAtStart /\ Faults \cap {"outage", "lost reply", "slow run", "same ms"} = {}

Holding(t) == Working(t) \/ pc[t] = "unlock"

TokensDistinct ==
    \A t, u \in Ticks : Running(t) /\ Running(u) /\ token[t] = token[u] => t = u

\* Tokens of running ticks differ, and whoever works, or is about to delete the
\* lock it has just found to be its own, holds it.
MutexInv ==
    /\ redisUp
    /\ TokensDistinct
    /\ \A t \in Ticks : Holding(t) => lock = token[t]

\* Initially no tick runs.
LEMMA MutexInit == SafeLock /\ Init => MutexInv
<1> SUFFICES ASSUME SafeLock, Init PROVE MutexInv
  OBVIOUS
<1>1. redisUp
  BY Zenon DEF SafeLock, Init
<1>2. \A t \in Ticks : ~Running(t) /\ ~Holding(t)
  BY DEF Init, Running, Holding, Working
<1> QED
  BY <1>1, <1>2 DEF MutexInv, TokensDistinct

\* Without outages Redis keeps answering.
LEMMA RedisStaysUp ==
    ASSUME SafeLock, redisUp, [Next]_vars PROVE redisUp'
<1>1. CASE Write \/ Evaluate \/ Time \/ UNCHANGED vars
  BY <1>1 DEF Write, Record, Commit, Rollback, CreateSegment, DeleteSegment,
     Evaluate, DirectEvaluate, DirectWrite, Time, ElapseSchedule, ElapseFallback,
     ExpireSchedule, ExpireLock, redis, vars
<1>2. ASSUME NEW t \in Ticks, Tick(t) PROVE redisUp'
  BY <1>2 DEF Tick, TimerFires, NotDue, Due, AcquireLock, Process, FetchEvents,
     FetchSegments, EvaluateRule, WriteMembership, EvaluationThrows,
     MarkProcessed, ScheduleRerun, FailBatch, RequeueBatch, ScheduleBackoff,
     ReleaseLock, ReleaseFails, CheckLockOwner, DeleteLock, KeepSchedule,
     ScheduleIsSpent, ClearSchedule, redis
<1>3. CASE Fault
  BY <1>3 DEF Fault, Connection, RedisFails, RedisReturns, LoseReply, Crash, SafeLock
<1> QED
  BY <1>1, <1>2, <1>3 DEF Next

\* A tick that passes its due check takes a token no other running tick carries.
LEMMA TokensStayDistinct ==
    ASSUME SafeLock, TypeOK, TokensDrawn, TokensDistinct, [Next]_vars
    PROVE  TokensDistinct'
<1>1. CASE \E t \in Ticks : Due(t)
  <2> PICK t \in Ticks : Due(t)
    BY <1>1
  <2>1. PICK id \in TokenChoices(t) : token' = [token EXCEPT ![t] = id]
    BY DEF Due
  <2>2. \A u \in Ticks \ {t} : Running(u) => token[u] # id
    BY DEF TokenChoices, FreshTokens, SafeLock, Carried, Running
  <2> QED
    BY <2>1, <2>2 DEF Due, TokensDistinct, Running, TypeOK
<1>2. CASE \A u \in Ticks : Running(u)' => Running(u) /\ token'[u] = token[u]
  BY <1>2 DEF TokensDistinct
<1> QED
  BY <1>1, <1>2, TokenFrame

\* A step that leaves the lock to whoever holds it, and lets nobody work who did
\* not, keeps the lock with its holder.
LEMMA HoldersKeep ==
    ASSUME SafeLock, TypeOK, TokensDrawn, MutexInv, [Next]_vars
    PROVE  \A t \in Ticks : Holding(t)' => lock' = token'[t]
<1> SUFFICES ASSUME NEW h \in Ticks, Holding(h)' PROVE lock' = token'[h]
  OBVIOUS
<1> USE DEF TypeOK, MutexInv
<1>1. ASSUME Holding(h), UNCHANGED <<lock, token>> PROVE lock' = token'[h]
  BY <1>1
<1>2. Holding(h) => Running(h) /\ token[h] \in Ticks
  BY DEF Holding, Working, Running, TokensDrawn
<1>3. CASE Write \/ Evaluate \/ ElapseSchedule \/ ExpireSchedule
           \/ (\E p \in Procs : ElapseFallback(p)) \/ UNCHANGED vars
  <2>1. UNCHANGED <<pc, lock, token>>
    BY <1>3 DEF Write, Record, Commit, Rollback, CreateSegment, DeleteSegment,
       Evaluate, DirectEvaluate, DirectWrite, ElapseSchedule, ElapseFallback,
       ExpireSchedule, redis, ticks, vars
  <2> QED
    BY <2>1, <1>1 DEF Holding, Working
<1>4. CASE ExpireLock
  BY <1>4, <1>2, NullAssumption DEF ExpireLock, SafeLock, ticks, Holding, Working, Ticks
<1>5. CASE Connection
  BY <1>5 DEF Connection, RedisFails, RedisReturns, LoseReply, SafeLock
<1>6. ASSUME NEW p \in Procs, Crash(p) PROVE lock' = token'[h]
  <2>1. Proc(h) # p /\ Holding(h)
    BY <1>6 DEF Crash, Holding, Working
  <2>2. lock = token[h] /\ pc[h] \notin {"idle", "due"}
    BY <2>1, <1>2 DEF Running
  <2> QED
    BY <1>6, <2>1, <2>2 DEF Crash
<1>7. ASSUME NEW t \in Ticks, Tick(t) PROVE lock' = token'[h]
  <2>1. CASE TimerFires(t) \/ NotDue(t)
    BY <2>1 DEF TimerFires, NotDue, redis, Holding, Working
  <2>2. CASE Due(t)
    BY <2>2 DEF Due, redis, Holding, Working
  <2>3. CASE AcquireLock(t)
    <3>1. CASE h = t
      BY <2>3, <3>1 DEF AcquireLock, Holding, Working
    <3>2. CASE h # t
      <4>1. Holding(h)
        BY <2>3, <3>2 DEF AcquireLock, Holding, Working
      <4>2. lock # Free
        BY <4>1, <1>2, NullAssumption DEF Ticks
      <4> QED
        BY <2>3, <4>1, <4>2 DEF AcquireLock, LockFree
    <3> QED
      BY <3>1, <3>2
  <2>4. CASE Process(t)
    <3>1. UNCHANGED <<lock, token>>
      BY <2>4 DEF Process, FetchEvents, FetchSegments, EvaluateRule,
         WriteMembership, EvaluationThrows, MarkProcessed, ScheduleRerun,
         FailBatch, RequeueBatch, ScheduleBackoff, redis
    <3>2. Holding(h)
      <4>1. Working(t) /\ \A u \in Ticks \ {t} : pc'[u] = pc[u]
        BY <2>4 DEF Process, FetchEvents, FetchSegments, EvaluateRule,
           WriteMembership, EvaluationThrows, MarkProcessed, ScheduleRerun,
           FailBatch, RequeueBatch, ScheduleBackoff, Working
      <4> QED
        BY <4>1 DEF Holding, Working
    <3> QED
      BY <3>1, <3>2, <1>1
  <2>5. CASE ReleaseFails(t) \/ KeepSchedule(t) \/ ClearSchedule(t)
    <3>1. EndTick(t, lock) /\ Running(t) /\ ~Holding(t)
      BY <2>5 DEF ReleaseFails, KeepSchedule, ClearSchedule, Running, Holding, Working
    <3>2. h # t /\ Holding(h) /\ token'[h] = token[h]
      BY <3>1 DEF EndTick, Holding, Working
    <3>3. lock # token[t]
      BY <3>1, <3>2, <1>2 DEF TokensDistinct
    <3> QED
      BY <3>1, <3>2, <3>3 DEF EndTick
  <2>6. CASE CheckLockOwner(t)
    BY <2>6 DEF CheckLockOwner, redis, Holding, Working
  <2>7. CASE DeleteLock(t)
    <3>1. h # t /\ Holding(h) /\ Holding(t)
      BY <2>7 DEF DeleteLock, Holding, Working
    <3>2. Running(t) /\ token[t] = token[h]
      BY <3>1 DEF Holding, Working, Running
    <3> QED
      BY <3>1, <3>2, <1>2 DEF TokensDistinct
  <2>8. CASE ScheduleIsSpent(t)
    BY <2>8 DEF ScheduleIsSpent, redis, Holding, Working
  <2> QED
    BY <1>7, <2>1, <2>2, <2>3, <2>4, <2>5, <2>6, <2>7, <2>8 DEF Tick, ReleaseLock
<1> QED
  BY <1>3, <1>4, <1>5, <1>6, <1>7 DEF Next, Time, Fault

\* Every step keeps the lock with the tick that holds it.
LEMMA MutexStep ==
    SafeLock /\ TypeOK /\ TokensDrawn /\ MutexInv /\ [Next]_vars => MutexInv'
<1> SUFFICES ASSUME SafeLock, TypeOK, TokensDrawn, MutexInv, [Next]_vars
             PROVE  MutexInv'
  OBVIOUS
<1>1. redisUp' /\ TokensDistinct'
  BY RedisStaysUp, TokensStayDistinct DEF MutexInv
<1> QED
  BY <1>1, HoldersKeep DEF MutexInv

\* Two working ticks would both hold the lock, hence carry one token.
LEMMA MutexExcludes == TokensDrawn /\ MutexInv => SingleWorker
BY DEF MutexInv, TokensDistinct, SingleWorker, Holding, Working, Running

\* With a lock that never fails or expires under its owner, one tick at most is
\* between acquiring and releasing it, whatever crashes, rolls back or throws.
THEOREM OneWorkerAtATime == ASSUME SafeLock PROVE Spec => []SingleWorker
<1>1. Init => MutexInv
  BY MutexInit
<1>2. TypeOK /\ TokensDrawn /\ MutexInv /\ [Next]_vars => MutexInv'
  BY MutexStep
<1>3. TokensDrawn /\ MutexInv => SingleWorker
  BY MutexExcludes
<1> QED
  BY <1>1, <1>2, <1>3, TypedTokens, PTL DEF Spec

-----------------------------------------------------------------------------
(* Freshness: what is PROCESSED stays reflected                            *)

Processed == {e \in Events : event[e] = "PROCESSED"}

\* What the single worker is about to persist is not older than anything that
\* is PROCESSED, and what it has persisted reflects its batch.
ReflectInv ==
    /\ \A t \in Ticks : pc[t] = "write" => Processed \subseteq draft[t]
    /\ \A t \in Ticks, s \in Segments :
          Evaluating(t) /\ segment[s] = "live" /\ s \notin todo[t]
              => batch[t] \subseteq before[s] \cup reflects[s]
    /\ ProcessedReflected

\* No client asks for an evaluation of its own.
NoRequests == Requests = {}

\* A step that writes no membership, marks no event PROCESSED and moves no tick
\* into the evaluation keeps ReflectInv.
LEMMA ReflectFrame ==
    ASSUME TypeOK, CoverInv, ReflectInv, [Next]_vars,
           UNCHANGED reflects, Processed' \subseteq Processed,
           \A t \in Ticks : pc'[t] \in {"evaluate", "write"} =>
               /\ pc'[t] = pc[t]
               /\ batch'[t] = batch[t] /\ todo'[t] = todo[t] /\ draft'[t] = draft[t]
    PROVE  ReflectInv'
<1>1. ASSUME NEW t \in Ticks, NEW s \in Segments,
             Evaluating(t)', segment'[s] = "live", s \notin todo'[t]
      PROVE  batch'[t] \subseteq before'[s] \cup reflects'[s]
  <2>1. Evaluating(t) /\ s \notin todo[t] /\ batch'[t] = batch[t] /\ batch[t] \subseteq Committed
    BY <1>1 DEF CoverInv, Evaluating
  <2> QED
    BY <1>1, <2>1, SegmentFrame DEF ReflectInv
<1>2. ProcessedReflected'
  <2> SUFFICES ASSUME NEW e \in Events, event'[e] = "PROCESSED",
                      NEW s \in Segments, segment'[s] = "live", e \notin before'[s]
               PROVE  e \in reflects'[s]
    BY DEF ProcessedReflected, Concerned, Live
  <2>1. event[e] = "PROCESSED" /\ e \in Committed
    BY DEF Processed, Committed
  <2>2. segment[s] = "live" /\ e \notin before[s]
    BY <2>1, SegmentFrame
  <2> QED
    BY <2>1, <2>2 DEF ReflectInv, ProcessedReflected, Concerned, Live
<1> QED
  BY <1>1, <1>2 DEF ReflectInv

\* Every step keeps ReflectInv: the one working tick writes data that includes
\* every PROCESSED event.
LEMMA ReflectStep ==
    NoRequests /\ TypeOK /\ CoverInv /\ SingleWorker /\ ReflectInv /\ [Next]_vars => ReflectInv'
<1> SUFFICES ASSUME NoRequests, TypeOK, CoverInv, SingleWorker, ReflectInv, [Next]_vars
             PROVE  ReflectInv'
  OBVIOUS
<1> USE DEF TypeOK
<1>1. CASE Write \/ Time \/ Connection \/ UNCHANGED vars
  <2>1. UNCHANGED <<reflects, pc, batch, todo, draft>>
    BY <1>1 DEF Write, Record, Commit, Rollback, CreateSegment, DeleteSegment,
       Time, ElapseSchedule, ElapseFallback, ExpireSchedule, ExpireLock,
       Connection, RedisFails, RedisReturns, LoseReply, ticks, database, vars
  <2>2. Processed' \subseteq Processed
    <3>1. CASE Write
      BY <3>1 DEF Write, Record, Commit, Rollback, CreateSegment, DeleteSegment, Processed
    <3>2. CASE ~Write
      BY <1>1, <3>2 DEF Time, ElapseSchedule, ElapseFallback, ExpireSchedule,
         ExpireLock, Connection, RedisFails, RedisReturns, LoseReply, database,
         vars, Processed
    <3> QED
      BY <3>1, <3>2
  <2> QED
    BY <2>1, <2>2, ReflectFrame
<1>2. ~Evaluate
  BY DEF Evaluate, NoRequests
<1>3. ASSUME NEW p \in Procs, Crash(p) PROVE ReflectInv'
  <2>1. /\ UNCHANGED reflects
        /\ Processed' \subseteq Processed
        /\ \A u \in Ticks : pc'[u] \in {"evaluate", "write"} =>
              /\ pc'[u] = pc[u]
              /\ batch'[u] = batch[u] /\ todo'[u] = todo[u] /\ draft'[u] = draft[u]
    BY <1>3 DEF Crash, Processed
  <2> QED
    BY <2>1, ReflectFrame
<1>4. ASSUME NEW t \in Ticks, Tick(t) PROVE ReflectInv'
  <2>0. Working(t) => \A u \in Ticks \ {t} : ~Working(u)
    BY DEF SingleWorker
  <2>1. CASE FetchSegments(t)
    <3>1. Working(t) /\ UNCHANGED <<event, segment, before, reflects>>
      BY <2>1 DEF FetchSegments, Working, database
    <3> QED
      BY <2>0, <2>1, <3>1
      DEF FetchSegments, Live, ReflectInv, Evaluating, ProcessedReflected, Concerned,
          Processed, Working
  <2>2. CASE EvaluateRule(t)
    <3>1. Processed \subseteq Committed
      BY DEF Processed, Committed
    <3>2. UNCHANGED <<event, segment, before, reflects>>
      BY <2>2 DEF EvaluateRule, database
    <3> QED
      BY <2>2, <3>1, <3>2 DEF EvaluateRule, ReflectInv, Evaluating, ProcessedReflected,
         Concerned, Live, Processed
  <2>3. CASE WriteMembership(t)
    <3>1. Working(t) /\ UNCHANGED <<event, segment, before>>
      BY <2>3 DEF WriteMembership, Working
    <3>2. batch[t] \subseteq draft[t] /\ Processed \subseteq draft[t]
      BY <2>3 DEF WriteMembership, CoverInv, ReflectInv
    <3>3. \A s \in Segments : reflects'[s] = reflects[s] \/ reflects'[s] = draft[t]
      BY <2>3 DEF WriteMembership
    <3>4. ProcessedReflected'
      BY <3>1, <3>2, <3>3 DEF ReflectInv, ProcessedReflected, Concerned, Live, Processed
    <3>5. \A s \in Segments :
              segment[s] = "live" /\ s \notin todo'[t]
                  => batch[t] \subseteq before[s] \cup reflects'[s]
      BY <2>3, <3>2 DEF WriteMembership, ReflectInv, Evaluating
    <3>6. \A u \in Ticks : u # t => ~Evaluating(u)' /\ pc'[u] # "write"
      BY <2>0, <2>3, <3>1 DEF WriteMembership, Evaluating, Working
    <3> QED
      BY <2>3, <3>1, <3>4, <3>5, <3>6 DEF WriteMembership, ReflectInv, Evaluating, Processed
  <2>4. CASE MarkProcessed(t)
    <3>1. \A s \in Segments : segment[s] = "live" => batch[t] \subseteq before[s] \cup reflects[s]
      BY <2>4 DEF MarkProcessed, ReflectInv, Evaluating
    <3>2. \A e \in Events : event'[e] = "PROCESSED" => event[e] = "PROCESSED" \/ e \in batch[t]
      BY <2>4 DEF MarkProcessed, Settling
    <3>3. ProcessedReflected'
      BY <2>4, <3>1, <3>2 DEF MarkProcessed, ReflectInv, ProcessedReflected, Concerned, Live
    <3>4. \A u \in Ticks : ~Evaluating(u)' /\ pc'[u] # "write"
      BY <2>0, <2>4 DEF MarkProcessed, Evaluating, Working
    <3> QED
      BY <3>3, <3>4 DEF ReflectInv
  <2>5. CASE EvaluationThrows(t) \/ ScheduleRerun(t) \/ ScheduleBackoff(t)
             \/ FailBatch(t) \/ RequeueBatch(t) \/ FetchEvents(t)
    <3>1. Processed' \subseteq Processed
      <4>1. CASE FailBatch(t)
        BY <4>1 DEF FailBatch, Processed
      <4>2. CASE RequeueBatch(t)
        BY <4>2 DEF RequeueBatch, Processed
      <4> QED
        BY <2>5, <4>1, <4>2 DEF EvaluationThrows, ScheduleRerun, ScheduleBackoff,
           FetchEvents, database, Processed
    <3>2. UNCHANGED reflects
      BY <2>5 DEF EvaluationThrows, ScheduleRerun, ScheduleBackoff, FailBatch,
         RequeueBatch, FetchEvents, database
    <3>3. \A u \in Ticks : pc'[u] \in {"evaluate", "write"} =>
              /\ pc'[u] = pc[u]
              /\ batch'[u] = batch[u] /\ todo'[u] = todo[u] /\ draft'[u] = draft[u]
      <4>1. CASE EvaluationThrows(t)
        BY <4>1 DEF EvaluationThrows
      <4>2. CASE RequeueBatch(t) \/ FetchEvents(t)
        BY <4>2 DEF RequeueBatch, FetchEvents
      <4>3. CASE ScheduleRerun(t) \/ ScheduleBackoff(t) \/ FailBatch(t)
        BY <4>3 DEF ScheduleRerun, ScheduleBackoff, FailBatch
      <4> QED
        BY <2>5, <4>1, <4>2, <4>3
    <3> QED
      BY <3>1, <3>2, <3>3, ReflectFrame
  <2>6. CASE TimerFires(t) \/ NotDue(t) \/ Due(t) \/ AcquireLock(t)
             \/ CheckLockOwner(t) \/ DeleteLock(t) \/ ScheduleIsSpent(t)
    <3>1. /\ UNCHANGED <<event, reflects, batch, todo, draft>>
          /\ \A u \in Ticks : pc'[u] \in {"evaluate", "write"} => pc'[u] = pc[u]
      BY <2>6 DEF TimerFires, NotDue, Due, AcquireLock, CheckLockOwner, DeleteLock,
         ScheduleIsSpent, database
    <3> QED
      BY <3>1, ReflectFrame DEF Processed
  <2>7. CASE ReleaseFails(t) \/ KeepSchedule(t) \/ ClearSchedule(t)
    <3>1. EndTick(t, lock) /\ UNCHANGED <<event, reflects>>
      BY <2>7 DEF ReleaseFails, KeepSchedule, ClearSchedule, database
    <3>2. \A u \in Ticks : pc'[u] \in {"evaluate", "write"} =>
              /\ pc'[u] = pc[u]
              /\ batch'[u] = batch[u] /\ todo'[u] = todo[u] /\ draft'[u] = draft[u]
      BY <3>1 DEF EndTick
    <3> QED
      BY <3>1, <3>2, ReflectFrame DEF Processed
  <2> QED
    BY <1>4, <2>1, <2>2, <2>3, <2>4, <2>5, <2>6, <2>7 DEF Tick, Process, ReleaseLock
<1> QED
  BY <1>1, <1>2, <1>3, <1>4 DEF Next, Fault

\* With the same lock and no evaluation outside it, the persisted membership of
\* a segment never goes back to data older than an event marked PROCESSED.
THEOREM ProcessedStaysReflected ==
    ASSUME SafeLock, NoRequests PROVE Spec => []ProcessedReflected
<1>1. Init => CoverInv /\ ReflectInv
  BY SegmentsAssumption DEF Init, CoverInv, ReflectInv, Evaluating,
     ProcessedCovered, ProcessedReflected, Processed
<1>2. TypeOK /\ CoverInv /\ [Next]_vars => CoverInv'
  BY CoverStep
<1>3. TypeOK /\ CoverInv /\ SingleWorker /\ ReflectInv /\ [Next]_vars => ReflectInv'
  BY ReflectStep
<1>4. ReflectInv => ProcessedReflected
  BY DEF ReflectInv
<1>5. Spec => []SingleWorker
  BY OneWorkerAtATime
<1> QED
  BY <1>1, <1>2, <1>3, <1>4, <1>5, TypeCorrect, PTL DEF Spec

-----------------------------------------------------------------------------
(* Wake-ups: an unsettled event is never forgotten                         *)

\* Redis always answers, if need be a second time, and no process dies.
HealthyRuntime == RedisAtStart /\ Faults \cap {"outage", "crash"} = {}

WakeInv ==
    /\ redisUp
    /\ \A e \in Events : event[e] \in {"open", "PENDING"} =>
          origin[e] \in Procs /\ fallback[origin[e]] # "none"

\* Every step keeps WakeInv: the fallback instant is only ever moved later.
LEMMA WakeStep == HealthyRuntime /\ TypeOK /\ WakeInv /\ [Next]_vars => WakeInv'
<1> SUFFICES ASSUME HealthyRuntime, TypeOK, WakeInv, [Next]_vars PROVE WakeInv'
  OBVIOUS
<1> USE DEF TypeOK, WakeInv
<1>1. \A a : Latest(a, "due") # "none" /\ Latest(a, "future") # "none"
  BY DEF Latest
<1>2. CASE Write
  <2>1. ASSUME NEW e \in Events, NEW p \in Procs, Record(e, p) PROVE WakeInv'
    BY <2>1, <1>1 DEF Record, ScheduleNextRunAt
  <2>2. ASSUME NEW e \in Events, Commit(e) PROVE WakeInv'
    BY <2>2 DEF Commit, redis, process
  <2>3. ASSUME NEW e \in Events, Rollback(e) PROVE WakeInv'
    BY <2>3 DEF Rollback, redis, process
  <2>4. ASSUME NEW s \in Segments, CreateSegment(s) \/ DeleteSegment(s) PROVE WakeInv'
    BY <2>4 DEF CreateSegment, DeleteSegment, redis, process
  <2> QED
    BY <1>2, <2>1, <2>2, <2>3, <2>4 DEF Write
<1>3. CASE Evaluate \/ Time \/ UNCHANGED vars
  <2>1. UNCHANGED <<event, origin, redisUp>>
    BY <1>3 DEF Evaluate, DirectEvaluate, DirectWrite, Time, ElapseSchedule,
       ElapseFallback, ExpireSchedule, ExpireLock, database, redis, vars
  <2>2. ASSUME NEW p \in Procs, ElapseFallback(p) PROVE WakeInv'
    BY <2>1, <2>2 DEF ElapseFallback
  <2>3. CASE Evaluate \/ ElapseSchedule \/ ExpireSchedule \/ ExpireLock \/ UNCHANGED vars
    <3>1. UNCHANGED fallback
      BY <2>3 DEF Evaluate, DirectEvaluate, DirectWrite, ElapseSchedule,
         ExpireSchedule, ExpireLock, process, vars
    <3> QED
      BY <2>1, <3>1
  <2> QED
    BY <1>3, <2>2, <2>3 DEF Time
<1>4. CASE Fault
  <2>1. ~RedisFails /\ ~RedisReturns /\ \A p \in Procs : ~Crash(p)
    BY DEF RedisFails, RedisReturns, Crash, HealthyRuntime
  <2>2. UNCHANGED <<event, origin, redisUp, fallback>>
    BY <1>4, <2>1 DEF Fault, Connection, LoseReply, database, process
  <2> QED
    BY <2>2
<1>5. ASSUME NEW t \in Ticks, Tick(t) PROVE WakeInv'
  <2>1. CASE ScheduleRerun(t) \/ ScheduleBackoff(t)
    <3>1. UNCHANGED <<event, origin, redisUp>>
      BY <2>1 DEF ScheduleRerun, ScheduleBackoff, database
    <3>2. PICK when \in {"due", "future"} : ScheduleNextRunAt(Proc(t), when)
      BY <2>1 DEF ScheduleRerun, ScheduleBackoff
    <3>3. \A p \in Procs : fallback[p] # "none" => fallback'[p] # "none"
      BY <3>2, <1>1 DEF ScheduleNextRunAt
    <3> QED
      BY <3>1, <3>3
  <2>2. CASE MarkProcessed(t) \/ FailBatch(t) \/ RequeueBatch(t)
    <3>1. UNCHANGED <<redisUp, fallback>>
      BY <2>2 DEF MarkProcessed, FailBatch, RequeueBatch, redis, process
    <3>2. \A e \in Events : event'[e] \in {"open", "PENDING"} =>
              event[e] \in {"open", "PENDING"} /\ origin'[e] = origin[e]
      <4>1. CASE MarkProcessed(t)
        BY <4>1 DEF MarkProcessed
      <4>2. CASE FailBatch(t)
        BY <4>2 DEF FailBatch
      <4>3. CASE RequeueBatch(t)
        BY <4>3 DEF RequeueBatch, Settling, Pending
      <4> QED
        BY <2>2, <4>1, <4>2, <4>3
    <3> QED
      BY <3>1, <3>2
  <2>3. CASE FetchEvents(t) \/ FetchSegments(t) \/ EvaluateRule(t)
             \/ WriteMembership(t) \/ EvaluationThrows(t)
    BY <2>3 DEF FetchEvents, FetchSegments, EvaluateRule, WriteMembership,
       EvaluationThrows, database, redis, process
  <2>4. CASE ReleaseLock(t)
    BY <2>4 DEF ReleaseLock, ReleaseFails, CheckLockOwner, DeleteLock,
       KeepSchedule, ScheduleIsSpent, ClearSchedule, database, redis, process
  <2>5. CASE TimerFires(t) \/ NotDue(t) \/ Due(t) \/ AcquireLock(t)
    BY <2>5 DEF TimerFires, NotDue, Due, AcquireLock, database, redis, process
  <2> QED
    BY <1>5, <2>1, <2>2, <2>3, <2>4, <2>5 DEF Tick, Process
<1> QED
  BY <1>2, <1>3, <1>4, <1>5 DEF Next

\* With a healthy Redis and no crash, the process that recorded an unsettled
\* event keeps an instant to wake up at, although every release of the lock
\* deletes the shared key.
THEOREM UnsettledStaysScheduled ==
    ASSUME HealthyRuntime PROVE Spec => []UnsettledScheduled
<1>1. Init => WakeInv
  <2> SUFFICES ASSUME Init PROVE WakeInv
    OBVIOUS
  <2>1. redisUp
    BY Zenon DEF HealthyRuntime, Init
  <2> QED
    BY <2>1 DEF Init, WakeInv
<1>2. TypeOK /\ WakeInv /\ [Next]_vars => WakeInv'
  BY WakeStep
<1>3. WakeInv => UnsettledScheduled
  BY DEF WakeInv, UnsettledScheduled
<1> QED
  BY <1>1, <1>2, <1>3, TypeCorrect, PTL DEF Spec

-----------------------------------------------------------------------------
(* The ledger of events                                                    *)

\* What a tick has read is committed: its draft, and its batch until the batch
\* has failed, after which none of its rows is PENDING.
Sighted(t) ==
    /\ draft[t] \subseteq Committed
    /\ pc[t] \in {"segments", "evaluate", "write", "fail"} => batch[t] \subseteq Committed
    /\ pc[t] = "requeue" => batch[t] \subseteq Committed \ Pending

SightInv ==
    /\ \A t \in Ticks : Sighted(t)
    /\ \A d \in direct : d.sees \subseteq Committed

\* Committed rows stay committed, and settled ones settled.
LEMMA SettledGrow ==
    ASSUME TypeOK, [Next]_vars
    PROVE  Committed \subseteq Committed' /\ (Committed \ Pending) \subseteq (Committed \ Pending)'
<1>1. Committed \subseteq Committed'
  BY CommittedGrows
<1>2. ASSUME NEW e \in Committed \ Pending PROVE e \in (Committed \ Pending)'
  <2>1. e \in Events /\ event[e] \in {"PROCESSED", "FAILED"}
    BY <1>2 DEF Committed, Pending
  <2>2. event'[e] = event[e]
    BY <2>1, SettledStep
  <2> QED
    BY <2>1, <2>2 DEF Committed, Pending
<1> QED
  BY <1>1, <1>2

\* A tick that does not move keeps what it has read.
LEMMA SightKept ==
    ASSUME TypeOK, [Next]_vars, NEW t \in Ticks, Sighted(t),
           pc'[t] = pc[t], batch'[t] = batch[t], draft'[t] = draft[t]
    PROVE  Sighted(t)'
BY SettledGrow DEF Sighted

\* A step of a tick moves no other tick, and no request.
LEMMA OtherTicks ==
    ASSUME NEW t \in Ticks, Tick(t), TypeOK
    PROVE  /\ UNCHANGED direct
           /\ \A u \in Ticks \ {t} :
                 pc'[u] = pc[u] /\ batch'[u] = batch[u] /\ draft'[u] = draft[u]
<1> USE DEF TypeOK
<1>1. CASE TimerFires(t) \/ NotDue(t) \/ Due(t) \/ AcquireLock(t)
  BY <1>1 DEF TimerFires, NotDue, Due, AcquireLock
<1>2. CASE Process(t)
  <2>1. CASE FetchEvents(t) \/ FetchSegments(t) \/ EvaluateRule(t) \/ WriteMembership(t)
             \/ EvaluationThrows(t)
    BY <2>1 DEF FetchEvents, FetchSegments, EvaluateRule, WriteMembership, EvaluationThrows
  <2>2. CASE MarkProcessed(t) \/ FailBatch(t) \/ RequeueBatch(t) \/ ScheduleRerun(t)
             \/ ScheduleBackoff(t)
    BY <2>2 DEF MarkProcessed, FailBatch, RequeueBatch, ScheduleRerun, ScheduleBackoff
  <2> QED
    BY <1>2, <2>1, <2>2 DEF Process
<1>3. CASE ReleaseLock(t)
  BY <1>3 DEF ReleaseLock, ReleaseFails, CheckLockOwner, DeleteLock, KeepSchedule,
     ScheduleIsSpent, ClearSchedule, EndTick
<1> QED
  BY <1>1, <1>2, <1>3 DEF Tick

\* A batch that has failed holds no PENDING row any more.
LEMMA FailedBatchSettled ==
    ASSUME TypeOK, NEW t \in Ticks, FailBatch(t), batch[t] \subseteq Committed
    PROVE  batch[t] \subseteq (Committed \ Pending)'
BY DEF FailBatch, Settling, Committed, Pending, TypeOK

\* Every step of a tick keeps what it has read committed.
LEMMA SightMoves ==
    ASSUME TypeOK, [Next]_vars, NEW t \in Ticks, Tick(t), Sighted(t)
    PROVE  Sighted(t)'
<1> USE DEF TypeOK
<1>1. Committed \subseteq Committed' /\ (Committed \ Pending) \subseteq (Committed \ Pending)'
  BY SettledGrow
<1>2. CASE FetchEvents(t)
  <2>1. FirstChunk(Pending) \subseteq Committed
    BY DEF FirstChunk, Pending, Committed
  <2> QED
    BY <1>1, <1>2, <2>1 DEF FetchEvents, Sighted
<1>3. CASE FetchSegments(t) \/ EvaluateRule(t) \/ WriteMembership(t) \/ EvaluationThrows(t)
  BY <1>1, <1>3 DEF FetchSegments, EvaluateRule, WriteMembership, EvaluationThrows, Sighted
<1>4. CASE MarkProcessed(t) \/ RequeueBatch(t) \/ ScheduleRerun(t) \/ ScheduleBackoff(t)
  BY <1>1, <1>4 DEF MarkProcessed, RequeueBatch, ScheduleRerun, ScheduleBackoff, Sighted
<1>5. CASE FailBatch(t)
  <2>1. batch[t] \subseteq (Committed \ Pending)'
    BY <1>5, FailedBatchSettled DEF FailBatch, Sighted
  <2> QED
    BY <1>1, <1>5, <2>1 DEF FailBatch, Sighted
<1>6. CASE TimerFires(t) \/ NotDue(t) \/ Due(t) \/ AcquireLock(t)
  BY <1>1, <1>6 DEF TimerFires, NotDue, Due, AcquireLock, Sighted
<1>7. CASE ReleaseLock(t)
  BY <1>1, <1>7 DEF ReleaseLock, ReleaseFails, CheckLockOwner, DeleteLock, KeepSchedule,
     ScheduleIsSpent, ClearSchedule, EndTick, Sighted
<1> QED
  BY <1>2, <1>3, <1>4, <1>5, <1>6, <1>7 DEF Tick, Process

\* Every step keeps SightInv.
LEMMA SightStep == TypeOK /\ SightInv /\ [Next]_vars => SightInv'
<1> SUFFICES ASSUME TypeOK, SightInv, [Next]_vars PROVE SightInv'
  OBVIOUS
<1>1. Committed \subseteq Committed'
  BY CommittedGrows
<1>2. CASE Write \/ Time \/ Connection \/ UNCHANGED vars
  <2>1. UNCHANGED <<pc, batch, draft, direct>>
    BY <1>2 DEF Write, Record, Commit, Rollback, CreateSegment, DeleteSegment, Time, ElapseSchedule,
       ElapseFallback, ExpireSchedule, ExpireLock, Connection, RedisFails, RedisReturns, LoseReply,
       ticks, vars
  <2> QED
    BY <1>1, <2>1, SightKept DEF SightInv
<1>3. CASE Evaluate
  <2>1. UNCHANGED <<pc, batch, draft>>
    BY <1>3 DEF Evaluate, DirectEvaluate, DirectWrite, ticks
  <2>2. \A d \in direct' : d \in direct \/ d.sees = Committed
    BY <1>3 DEF Evaluate, DirectEvaluate, DirectWrite
  <2> QED
    BY <1>1, <2>1, <2>2, SightKept DEF SightInv
<1>4. ASSUME NEW t \in Ticks, Tick(t) PROVE SightInv'
  BY <1>1, <1>4, OtherTicks, SightKept, SightMoves DEF SightInv
<1>5. ASSUME NEW p \in Procs, Crash(p) PROVE SightInv'
  <2>1. direct' = direct
    BY <1>5 DEF Crash
  <2>2. ASSUME NEW t \in Ticks, Proc(t) = p PROVE Sighted(t)'
    BY <1>5, <2>2 DEF Crash, Sighted
  <2>3. ASSUME NEW t \in Ticks, Proc(t) # p PROVE Sighted(t)'
    BY <1>5, <2>3, SightKept DEF Crash, SightInv
  <2> QED
    BY <1>1, <2>1, <2>2, <2>3 DEF SightInv
<1> QED
  BY <1>2, <1>3, <1>4, <1>5 DEF Next, Fault

\* After a failure the requeue selects nothing: it changes no row.
LEMMA RequeueDoesNothing ==
    ASSUME TypeOK, SightInv, NEW t \in Ticks, RequeueBatch(t)
    PROVE  UNCHANGED <<event, retries, segment, before, covered>>
<1>1. Settling(t) = {}
  BY DEF RequeueBatch, SightInv, Sighted, Settling
<1> QED
  BY <1>1 DEF RequeueBatch, TypeOK

\* Every step is one of the ledger, or leaves it alone.
LEMMA EventLedgerStep ==
    ASSUME TypeOK, CoverInv, SightInv, [Next]_vars
    PROVE  [Ledger!Next]_<<event, retries, segment, before, covered>>
<1> USE DEF TypeOK
<1>1. CASE Write
  <2>1. ASSUME NEW e \in Events, NEW p \in Procs, Record(e, p) PROVE Ledger!Record(e)
    BY <2>1 DEF Record, Ledger!Record, Ledger!Become
  <2>2. ASSUME NEW e \in Events, Commit(e) PROVE Ledger!Commit(e)
    BY <2>2 DEF Commit, Ledger!Commit, Ledger!Become
  <2>3. ASSUME NEW e \in Events, Rollback(e) PROVE Ledger!Rollback({e})
    BY <2>3 DEF Rollback, Ledger!Rollback, Ledger!Become
  <2>4. ASSUME NEW s \in Segments, CreateSegment(s) PROVE Ledger!CreateSegment(s)
    BY <2>4 DEF CreateSegment, Committed, Ledger!CreateSegment, Ledger!Committed
  <2>5. ASSUME NEW s \in Segments, DeleteSegment(s) PROVE Ledger!DeleteSegment(s)
    BY <2>5 DEF DeleteSegment, Ledger!DeleteSegment
  <2>6. CASE \E e \in Events : (\E p \in Procs : Record(e, p)) \/ Commit(e)
    BY <2>6, <2>1, <2>2 DEF Ledger!Next
  <2>7. ASSUME NEW e \in Events, Rollback(e) PROVE Ledger!Next
    BY <2>7, <2>3 DEF Ledger!Next
  <2>8. CASE \E s \in Segments : CreateSegment(s) \/ DeleteSegment(s)
    BY <2>8, <2>4, <2>5 DEF Ledger!Next
  <2> QED
    BY <1>1, <2>6, <2>7, <2>8 DEF Write
<1>2. ASSUME NEW t \in Ticks, Tick(t)
      PROVE  Ledger!Next \/ UNCHANGED <<event, retries, segment, before, covered>>
  <2>1. CASE WriteMembership(t)
    <3> DEFINE s == Least(todo[t])
    <3>1. draft[t] \subseteq Committed /\ draft[t] \in SUBSET Events
      BY DEF SightInv, Sighted
    <3>2. CASE s \in Segments
      <4>1. Ledger!Evaluate(s, draft[t])
        BY <2>1, <3>1 DEF WriteMembership, Ledger!Evaluate, Ledger!Committed, Committed
      <4> QED
        BY <3>1, <3>2, <4>1 DEF Ledger!Next
    <3>3. CASE s \notin Segments
      BY <2>1, <3>3 DEF WriteMembership
    <3> QED
      BY <3>2, <3>3
  <2>2. CASE MarkProcessed(t)
    <3>1. Settling(t) \subseteq Ledger!Pending /\ Settling(t) \in SUBSET Events
      BY DEF Settling, Pending, Ledger!Pending
    <3>2. \A s \in Segments :
              segment[s] = "live" => Settling(t) \subseteq before[s] \cup covered[s]
      BY <2>2 DEF MarkProcessed, CoverInv, Evaluating, Settling
    <3>3. Ledger!Process(Settling(t))
      BY <2>2, <3>1, <3>2 DEF MarkProcessed, Ledger!Process, Ledger!Become
    <3> QED
      BY <3>1, <3>3 DEF Ledger!Next
  <2>3. CASE FailBatch(t)
    <3>1. Settling(t) \subseteq Ledger!Pending /\ Settling(t) \in SUBSET Events
      BY DEF Settling, Pending, Ledger!Pending
    <3>2. Ledger!Fail(Settling(t))
      BY <2>3, <3>1 DEF FailBatch, Ledger!Fail, Ledger!Become
    <3> QED
      BY <3>1, <3>2 DEF Ledger!Next
  <2>4. CASE RequeueBatch(t)
    BY <2>4, RequeueDoesNothing
  <2>5. CASE Process(t) /\ ~(WriteMembership(t) \/ MarkProcessed(t) \/ FailBatch(t) \/ RequeueBatch(t))
    BY <2>5 DEF Process, FetchEvents, FetchSegments, EvaluateRule, EvaluationThrows, ScheduleRerun,
       ScheduleBackoff, database
  <2>6. CASE TimerFires(t) \/ NotDue(t) \/ Due(t) \/ AcquireLock(t)
    BY <2>6 DEF TimerFires, NotDue, Due, AcquireLock, database
  <2>7. CASE ReleaseLock(t)
    BY <2>7 DEF ReleaseLock, ReleaseFails, CheckLockOwner, DeleteLock, KeepSchedule,
       ScheduleIsSpent, ClearSchedule, database
  <2> QED
    BY <1>2, <2>1, <2>2, <2>3, <2>4, <2>5, <2>6, <2>7 DEF Tick
<1>3. CASE Evaluate
  <2>1. ASSUME NEW d \in direct, DirectWrite(d) PROVE Ledger!Next
    <3>1. d.segment \in Segments /\ d.sees \in SUBSET Events /\ d.sees \subseteq Committed
      BY DEF SightInv
    <3>2. Ledger!Evaluate(d.segment, d.sees)
      BY <2>1, <3>1 DEF DirectWrite, Ledger!Evaluate, Ledger!Committed, Committed
    <3> QED
      BY <3>1, <3>2 DEF Ledger!Next
  <2>2. CASE \E r \in Requests, s \in Segments : DirectEvaluate(r, s)
    BY <2>2 DEF DirectEvaluate, database
  <2> QED
    BY <1>3, <2>1, <2>2 DEF Evaluate
<1>4. CASE Time \/ Connection \/ UNCHANGED vars
  BY <1>4 DEF Time, ElapseSchedule, ElapseFallback, ExpireSchedule, ExpireLock, Connection,
     RedisFails, RedisReturns, LoseReply, database, vars
<1>5. ASSUME NEW p \in Procs, Crash(p) PROVE Ledger!Next
  <2> DEFINE lost == {e \in Events : event[e] = "open" /\ origin[e] = p}
  <2>1. Ledger!Rollback(lost)
    BY <1>5 DEF Crash, Ledger!Rollback, Ledger!Become
  <2> QED
    BY <2>1 DEF Ledger!Next
<1> QED
  BY <1>1, <1>2, <1>3, <1>4, <1>5 DEF Next, Fault

\* However many workers run and whatever fails, the recalculation implements the
\* ledger of events: rows are settled once, a batch at a time, PROCESSED only when
\* every segment has covered them, and never retried.
THEOREM EventLedgerImplemented == Spec => ImplementsEventLedger
<1>1. Init => CoverInv
  BY SegmentsAssumption DEF Init, CoverInv, Evaluating, ProcessedCovered
<1>2. Init => SightInv /\ Ledger!Init
  BY DEF Init, SightInv, Sighted, Ledger!Init
<1>3. TypeOK /\ CoverInv /\ [Next]_vars => CoverInv'
  BY CoverStep
<1>4. TypeOK /\ SightInv /\ [Next]_vars => SightInv'
  BY SightStep
<1>5. TypeOK /\ CoverInv /\ SightInv /\ [Next]_vars
        => [Ledger!Next]_<<event, retries, segment, before, covered>>
  BY EventLedgerStep
<1> QED
  BY <1>1, <1>2, <1>3, <1>4, <1>5, TypeCorrect, PTL
  DEF Spec, ImplementsEventLedger, Ledger!Spec, Ledger!ledger

-----------------------------------------------------------------------------
(* What the ledger alone promises                                          *)

LedgerType ==
    /\ event \in [Events -> {"none", "open", "PENDING", "PROCESSED", "FAILED"}]
    /\ segment \in [Segments -> {"absent", "live", "deleted"}]
    /\ before \in [Segments -> SUBSET Events]
    /\ covered \in [Segments -> SUBSET Events]

\* Every step of the ledger keeps the types of its variables.
LEMMA LedgerTypeStep ==
    LedgerType /\ [Ledger!Next]_(Ledger!ledger) => LedgerType'
<1> SUFFICES ASSUME LedgerType, [Ledger!Next]_(Ledger!ledger) PROVE LedgerType'
  OBVIOUS
<1> USE DEF LedgerType, Ledger!Become
<1>1. ASSUME NEW e \in Events, Ledger!Record(e) \/ Ledger!Commit(e) PROVE LedgerType'
  BY <1>1 DEF Ledger!Record, Ledger!Commit
<1>2. ASSUME NEW S \in SUBSET Events, Ledger!Rollback(S) \/ Ledger!Process(S) \/ Ledger!Fail(S)
      PROVE  LedgerType'
  BY <1>2 DEF Ledger!Rollback, Ledger!Process, Ledger!Fail
<1>3. ASSUME NEW s \in Segments, Ledger!CreateSegment(s) \/ Ledger!DeleteSegment(s)
      PROVE  LedgerType'
  BY <1>3 DEF Ledger!CreateSegment, Ledger!DeleteSegment, Ledger!Committed
<1>4. ASSUME NEW s \in Segments, NEW seen \in SUBSET Events, Ledger!Evaluate(s, seen)
      PROVE  LedgerType'
  BY <1>4 DEF Ledger!Evaluate
<1>5. CASE UNCHANGED Ledger!ledger
  BY <1>5 DEF Ledger!ledger
<1> QED
  BY <1>1, <1>2, <1>3, <1>4, <1>5 DEF Ledger!Next

\* Only Process makes a row PROCESSED, when every older segment has covered it;
\* a segment created later is younger than it.
LEMMA LedgerCoversStep ==
    LedgerType /\ ProcessedCovered /\ [Ledger!Next]_(Ledger!ledger) => ProcessedCovered'
<1> SUFFICES ASSUME LedgerType, ProcessedCovered, [Ledger!Next]_(Ledger!ledger)
             PROVE  ProcessedCovered'
  OBVIOUS
<1> USE DEF LedgerType, Ledger!Become, ProcessedCovered, Concerned, Live
<1>1. ASSUME NEW e \in Events, Ledger!Record(e) \/ Ledger!Commit(e) PROVE ProcessedCovered'
  BY <1>1 DEF Ledger!Record, Ledger!Commit
<1>2. ASSUME NEW S \in SUBSET Events, Ledger!Rollback(S) \/ Ledger!Fail(S)
      PROVE  ProcessedCovered'
  BY <1>2 DEF Ledger!Rollback, Ledger!Fail
<1>3. ASSUME NEW S \in SUBSET Events, Ledger!Process(S) PROVE ProcessedCovered'
  BY <1>3 DEF Ledger!Process
<1>4. ASSUME NEW s \in Segments, Ledger!CreateSegment(s) PROVE ProcessedCovered'
  BY <1>4 DEF Ledger!CreateSegment, Ledger!Committed
<1>5. ASSUME NEW s \in Segments, Ledger!DeleteSegment(s) PROVE ProcessedCovered'
  BY <1>5 DEF Ledger!DeleteSegment
<1>6. ASSUME NEW s \in Segments, NEW seen \in SUBSET Events, Ledger!Evaluate(s, seen)
      PROVE  ProcessedCovered'
  BY <1>6 DEF Ledger!Evaluate
<1>7. CASE UNCHANGED Ledger!ledger
  BY <1>7 DEF Ledger!ledger
<1> QED
  BY <1>1, <1>2, <1>3, <1>4, <1>5, <1>6, <1>7 DEF Ledger!Next

\* The ledger is as strong as it is meant to be: whatever implements it marks an
\* event PROCESSED only after every segment older than it has covered it.
THEOREM LedgerCovers == Ledger!Spec => []ProcessedCovered
<1>1. Ledger!Init => LedgerType /\ ProcessedCovered
  BY DEF Ledger!Init, LedgerType, ProcessedCovered
<1> QED
  BY <1>1, LedgerTypeStep, LedgerCoversStep, PTL DEF Ledger!Spec
=============================================================================
