------------------------- MODULE SegmentEvaluation -------------------------
(***************************************************************************)
(* SegmentEvaluationService: the evaluation of one segment as the database *)
(* statements it issues, the cascade into dependent dynamic segments, the  *)
(* static refresh, and the signal published after each commit.  Evaluators *)
(* are the worker and the HTTP requests; they share nothing but the        *)
(* database, read under READ COMMITTED.                                    *)
(*                                                                         *)
(* A direct rule is abstract: matches[s] is what its queries return now.   *)
(***************************************************************************)
EXTENDS Naturals, Sequences, FiniteSets

CONSTANTS
    Segments,       \* numbered in createdAt order
    Customers,
    InitialStatic,  \* the segments of type STATIC at the start
    InitialDeps,    \* deps at the start
    Evaluators,     \* calls that may run at the same time
    MaxAborts,      \* bound: calls that die between two statements
    MaxChanges      \* bound: data changes, updates and deletions in one behaviour

ASSUME SegmentsAssumption == Segments \subseteq Nat /\ InitialStatic \subseteq Segments
ASSUME DepsAssumption == InitialDeps \in [Segments -> SUBSET Segments]
ASSUME BoundsAssumption == MaxChanges \in Nat /\ MaxAborts \in Nat

VARIABLES
    matches,   \* matches[s]: customers the rule of s selects, static: lists
    live,      \* segments with deletedAt null
    statics,   \* segments of type STATIC
    deps,      \* deps[s]: dependsOnSegmentId of the dependency rows of s
    lagging,   \* whether dependency rows have changed or a cascade has ended
               \* early, so that members may lag behind dependencies (history)
    changes,   \* data changes, updates and deletions so far
    aborts,    \* calls that have died on their way so far
    member,    \* member[s][c]: status of the membership row, "none" without one
    deltas,    \* deltas[s][c]: change types of the delta rows, in order
    signals,   \* signals[s][c]: change types published for c, in order
    pc,        \* pc[v]: the await the call of evaluator v is at
    batch,     \* batch[v]: whether it is the worker's
    quiet,     \* quiet[v]: whether no data changed since it began (history)
    queue,     \* queue[v]: segments of the batch still to evaluate
    visited,   \* visited[v]: visitedSegmentIds
    stack,     \* stack[v]: dependents left at each level of the cascade
    current,   \* current[v]: the segment being evaluated
    static,    \* static[v]: whether by evaluateStaticSegmentOnce
    matched,   \* matched[v]: the customers its rule returned
    kept,      \* kept[v]: those the dependencies let through, customerIds
    previous,  \* previous[v]: previousCustomerIds
    retyped,   \* retyped[v]: whether the type has changed since its lookup (history)
    outdated,  \* outdated[v]: whether a commit of another call has changed the
               \* membership since v read previous[v] (history)
    torn       \* torn[s]: whether a call with an outdated read has written s (history)

data  == <<matches, live, statics, deps, lagging, changes, aborts>>
store == <<member, deltas, signals, torn>>
call  == <<batch, quiet, queue>>
walk  == <<visited, stack, current, static>>
diff  == <<matched, kept, previous, retyped, outdated>>
vars  == <<data, store, pc, call, walk, diff>>

Dynamic   == Segments \ statics
Active(s) == {c \in Customers : member[s][c] = "ACTIVE"}

\* Customers of `from` that are ACTIVE members of every dependency of s.
\* (A dependency that was deleted still filters, with its last membership.)
FilterByDependencies(s, from) == {c \in from : \A d \in deps[s] : c \in Active(d)}

\* Live dynamic segments with a dependency row on s.
Dependents(s) == {d \in live \cap Dynamic : s \in deps[d]}

Added(v)   == kept[v] \ previous[v]
Removed(v) == previous[v] \ kept[v]

\* Mutant of Changed: removals do not count.
Grown(v) == Added(v) # {}

\* hasMembershipChanges
Changed(v) == kept[v] # previous[v]

\* Between the lookup of the segment and the commit.
LookedUp(v) == pc[v] \in {"filter", "previous", "commit"}

-----------------------------------------------------------------------------
(* The data the rules read                                                 *)

ChangeData(s, now) ==
    /\ changes < MaxChanges
    /\ matches[s] # now
    /\ matches' = [matches EXCEPT ![s] = now]
    /\ changes' = changes + 1
    /\ quiet' = [v \in Evaluators |-> FALSE]
    /\ UNCHANGED <<live, statics, deps, lagging, aborts, store, pc, batch, queue, walk, diff>>

\* SegmentsService.update with new rules and a type: no event is recorded for it,
\* and no evaluation that has looked the segment up notices.
UpdateSegment(s, now, on, isStatic) ==
    /\ changes < MaxChanges
    /\ s \in live
    /\ on \subseteq live \ {s}
    /\ deps[s] # on \/ isStatic # (s \in statics)
    /\ matches' = [matches EXCEPT ![s] = now]
    /\ deps' = [deps EXCEPT ![s] = on]
    /\ statics' = IF isStatic THEN statics \cup {s} ELSE statics \ {s}
    /\ retyped' = [v \in Evaluators |->
                     \/ retyped[v]
                     \/ LookedUp(v) /\ current[v] = s /\ isStatic # (s \in statics)]
    /\ lagging' = TRUE
    /\ changes' = changes + 1
    /\ quiet' = [v \in Evaluators |-> FALSE]
    /\ UNCHANGED <<live, aborts, store, pc, batch, queue, walk, matched, kept, previous,
                   outdated>>

DeleteSegment(s) ==
    /\ changes < MaxChanges
    /\ s \in live
    /\ live' = live \ {s}
    /\ changes' = changes + 1
    /\ UNCHANGED <<matches, statics, deps, lagging, aborts, store, pc, call, walk, diff>>

-----------------------------------------------------------------------------
(* Entry points                                                            *)

\* The call enters evaluateSegmentOnce, or its static counterpart, for s.
Enter(v, s, isStatic) ==
    /\ pc' = [pc EXCEPT ![v] = "lookup"]
    /\ current' = [current EXCEPT ![v] = s]
    /\ static' = [static EXCEPT ![v] = isStatic]

EvaluateSegment(v, s) ==
    /\ pc[v] = "idle"
    /\ Enter(v, s, FALSE)
    /\ visited' = [visited EXCEPT ![v] = {s}]
    /\ UNCHANGED <<data, store, call, stack, diff>>

RefreshStaticSegment(v, s) ==
    /\ pc[v] = "idle"
    /\ Enter(v, s, TRUE)
    /\ visited' = [visited EXCEPT ![v] = {s}]
    /\ UNCHANGED <<data, store, call, stack, diff>>

\* The worker calls evaluateSegment for all live dynamic segments in turn.
EvaluateAll(v) ==
    /\ pc[v] = "idle"
    /\ pc' = [pc EXCEPT ![v] = "next"]
    /\ batch' = [batch EXCEPT ![v] = TRUE]
    /\ quiet' = [quiet EXCEPT ![v] = TRUE]
    /\ queue' = [queue EXCEPT ![v] = live \cap Dynamic]
    /\ UNCHANGED <<data, store, walk, diff>>

\* The call is over: evaluator v is idle and remembers nothing.
Finish(v) ==
    /\ pc' = [pc EXCEPT ![v] = "idle"]
    /\ batch' = [batch EXCEPT ![v] = FALSE]
    /\ quiet' = [quiet EXCEPT ![v] = FALSE]
    /\ queue' = [queue EXCEPT ![v] = {}]
    /\ visited' = [visited EXCEPT ![v] = {}]
    /\ stack' = [stack EXCEPT ![v] = <<>>]
    /\ current' = [current EXCEPT ![v] = 0]
    /\ static' = [static EXCEPT ![v] = FALSE]
    /\ matched' = [matched EXCEPT ![v] = {}]
    /\ kept' = [kept EXCEPT ![v] = {}]
    /\ previous' = [previous EXCEPT ![v] = {}]
    /\ retyped' = [retyped EXCEPT ![v] = FALSE]
    /\ outdated' = [outdated EXCEPT ![v] = FALSE]

-----------------------------------------------------------------------------
(* evaluateSegmentOnce and evaluateStaticSegmentOnce                       *)

\* Mutant of Evaluable: the type check is missing.
EvaluableOfAnyType(s, isStatic) == s \in live

\* The segment exists and has the type this function evaluates.
Evaluable(s, isStatic) == s \in live /\ (isStatic <=> s \in statics)

\* The segment row and the rule's customers, read outside the transaction.
EvaluateRule(v) ==
    /\ pc[v] = "lookup"
    /\ Evaluable(current[v], static[v])
    /\ matched' = [matched EXCEPT ![v] = matches[current[v]]]
    /\ pc' = [pc EXCEPT ![v] = "filter"]
    /\ UNCHANGED <<data, store, call, walk, kept, previous, retyped, outdated>>

\* NotFoundException, BadRequestException: they end the whole call.
Reject(v) ==
    /\ pc[v] = "lookup"
    /\ ~Evaluable(current[v], static[v])
    /\ lagging' = (lagging \/ stack[v] # <<>>)
    /\ Finish(v)
    /\ UNCHANGED <<matches, live, statics, deps, changes, aborts, store>>

Filter(v) ==
    /\ pc[v] = "filter"
    /\ kept' = [kept EXCEPT ![v] = FilterByDependencies(current[v], matched[v])]
    /\ pc' = [pc EXCEPT ![v] = "previous"]
    /\ UNCHANGED <<data, store, call, walk, matched, previous, retyped, outdated>>

ReadPrevious(v) ==
    /\ pc[v] = "previous"
    /\ previous' = [previous EXCEPT ![v] = Active(current[v])]
    /\ pc' = [pc EXCEPT ![v] = "commit"]
    /\ UNCHANGED <<data, store, call, walk, matched, kept, retyped, outdated>>

\* Mutant of StatusAfter: members no longer selected are left ACTIVE.
StatusWithoutRemoval(v, c, status) == IF c \in kept[v] THEN "ACTIVE" ELSE status

\* Upserts for added and retained customers, update for removed ones; all by
\* customer id, whatever another transaction has made of the row since.
StatusAfter(v, c, status) ==
    IF c \in kept[v] THEN "ACTIVE"
    ELSE IF c \in Removed(v) THEN "REMOVED" ELSE status

\* Mutants of Logged: rows for retained customers too.
LoggedAsRetained(v, c, log) ==
    IF c \in Added(v) THEN Append(log, "ADDED")
    ELSE IF c \in Removed(v) THEN Append(log, "REMOVED")
    ELSE IF c \in kept[v] THEN Append(log, "RETAINED") ELSE log

LoggedAsAdded(v, c, log) ==
    IF c \in kept[v] THEN Append(log, "ADDED")
    ELSE IF c \in Removed(v) THEN Append(log, "REMOVED") ELSE log

\* log with the row for customer c that this evaluation adds to it, if any.
Logged(v, c, log) ==
    IF c \in Added(v) THEN Append(log, "ADDED")
    ELSE IF c \in Removed(v) THEN Append(log, "REMOVED") ELSE log

\* The commit of v moves the membership that w has read and is about to write.
Outdates(v, w) ==
    /\ pc[w] = "commit"
    /\ current[w] = current[v]
    /\ Changed(v) \/ outdated[v]

\* The transaction commits memberships and delta rows together.
Commit(v) ==
    /\ pc[v] = "commit"
    /\ member' = [member EXCEPT ![current[v]] =
                    [c \in Customers |-> StatusAfter(v, c, @[c])]]
    /\ deltas' = [deltas EXCEPT ![current[v]] =
                    [c \in Customers |-> Logged(v, c, @[c])]]
    /\ pc' = [pc EXCEPT ![v] = IF Changed(v) THEN "publish" ELSE "next"]
    /\ retyped' = [retyped EXCEPT ![v] = FALSE]
    /\ outdated' = [w \in Evaluators |-> w # v /\ (outdated[w] \/ Outdates(v, w))]
    /\ torn' = [torn EXCEPT ![current[v]] = @ \/ outdated[v]]
    /\ UNCHANGED <<data, signals, call, walk, matched, kept, previous>>

\* SegmentDeltaSignalBridgeService.publish, after the commit.
Publish(v) ==
    /\ pc[v] = "publish"
    /\ signals' = [signals EXCEPT ![current[v]] =
                    [c \in Customers |-> Logged(v, c, @[c])]]
    /\ pc' = [pc EXCEPT ![v] = "cascade"]
    /\ UNCHANGED <<data, member, deltas, torn, call, walk, diff>>

-----------------------------------------------------------------------------
(* cascadeDependentDynamicSegments: one stack entry per recursive call     *)

Top(v) == stack[v][Len(stack[v])]
Pop(v) == SubSeq(stack[v], 1, Len(stack[v]) - 1)

Cascade(v) ==
    /\ pc[v] = "cascade"
    /\ stack' = [stack EXCEPT ![v] = Append(@, Dependents(current[v]))]
    /\ pc' = [pc EXCEPT ![v] = "next"]
    /\ UNCHANGED <<data, store, call, visited, current, static, diff>>

\* The next dependent of the innermost call, in no order the query promises.
NextDependent(v, d) ==
    /\ pc[v] = "next"
    /\ stack[v] # <<>>
    /\ d \in Top(v)
    /\ stack' = [stack EXCEPT ![v] = Append(Pop(v), Top(v) \ {d})]

Visit(v, d) ==
    /\ NextDependent(v, d)
    /\ d \notin visited[v]
    /\ visited' = [visited EXCEPT ![v] = @ \cup {d}]
    /\ Enter(v, d, FALSE)
    /\ UNCHANGED <<data, store, call, diff>>

Skip(v, d) ==
    /\ NextDependent(v, d)
    /\ d \in visited[v]
    /\ UNCHANGED <<data, store, pc, call, visited, current, static, diff>>

Return(v) ==
    /\ pc[v] = "next"
    /\ stack[v] # <<>>
    /\ Top(v) = {}
    /\ stack' = [stack EXCEPT ![v] = Pop(v)]
    /\ UNCHANGED <<data, store, pc, call, visited, current, static, diff>>

\* The next segment of the batch, in createdAt order, with a visited set of its
\* own.
NextInBatch(v, s) ==
    /\ pc[v] = "next"
    /\ stack[v] = <<>>
    /\ s \in queue[v]
    /\ \A r \in queue[v] : s =< r
    /\ queue' = [queue EXCEPT ![v] = @ \ {s}]
    /\ visited' = [visited EXCEPT ![v] = {s}]
    /\ Enter(v, s, FALSE)
    /\ UNCHANGED <<data, store, batch, quiet, stack, diff>>

EndCall(v) ==
    /\ pc[v] = "next"
    /\ stack[v] = <<>>
    /\ queue[v] = {}
    /\ pc' = [pc EXCEPT ![v] = "done"]
    /\ UNCHANGED <<data, store, call, walk, diff>>

Respond(v) ==
    /\ pc[v] = "done"
    /\ Finish(v)
    /\ UNCHANGED <<data, store>>

\* A database error, a transaction timeout or a crash: the open transaction
\* rolls back and nothing that was to follow happens.
Abort(v) ==
    /\ aborts < MaxAborts
    /\ pc[v] \notin {"idle", "done"}
    /\ aborts' = aborts + 1
    /\ lagging' = TRUE
    /\ Finish(v)
    /\ UNCHANGED <<matches, live, statics, deps, changes, store>>

-----------------------------------------------------------------------------
Init ==
    /\ matches \in [Segments -> SUBSET Customers]
    /\ live = Segments
    /\ statics = InitialStatic
    /\ deps = InitialDeps
    /\ lagging = FALSE
    /\ changes = 0
    /\ aborts = 0
    /\ member = [s \in Segments |-> [c \in Customers |-> "none"]]
    /\ deltas = [s \in Segments |-> [c \in Customers |-> <<>>]]
    /\ signals = [s \in Segments |-> [c \in Customers |-> <<>>]]
    /\ pc = [v \in Evaluators |-> "idle"]
    /\ batch = [v \in Evaluators |-> FALSE]
    /\ quiet = [v \in Evaluators |-> FALSE]
    /\ queue = [v \in Evaluators |-> {}]
    /\ visited = [v \in Evaluators |-> {}]
    /\ stack = [v \in Evaluators |-> <<>>]
    /\ current = [v \in Evaluators |-> 0]
    /\ static = [v \in Evaluators |-> FALSE]
    /\ matched = [v \in Evaluators |-> {}]
    /\ kept = [v \in Evaluators |-> {}]
    /\ previous = [v \in Evaluators |-> {}]
    /\ retyped = [v \in Evaluators |-> FALSE]
    /\ outdated = [v \in Evaluators |-> FALSE]
    /\ torn = [s \in Segments |-> FALSE]

Step(v) ==
    \/ \E s \in Segments : EvaluateSegment(v, s)
    \/ \E s \in Segments : RefreshStaticSegment(v, s)
    \/ EvaluateAll(v)
    \/ EvaluateRule(v)
    \/ Reject(v)
    \/ Filter(v)
    \/ ReadPrevious(v)
    \/ Commit(v)
    \/ Publish(v)
    \/ Cascade(v)
    \/ \E d \in Segments : Visit(v, d)
    \/ \E d \in Segments : Skip(v, d)
    \/ Return(v)
    \/ \E s \in Segments : NextInBatch(v, s)
    \/ EndCall(v)
    \/ Respond(v)
    \/ Abort(v)

Next ==
    \/ \E s \in Segments, now \in SUBSET Customers : ChangeData(s, now)
    \/ \E s \in Segments, now \in SUBSET Customers, on \in SUBSET Segments,
          isStatic \in BOOLEAN : UpdateSegment(s, now, on, isStatic)
    \/ \E s \in Segments : DeleteSegment(s)
    \/ \E v \in Evaluators : Step(v)

Spec == Init /\ [][Next]_vars

-----------------------------------------------------------------------------
(* Properties                                                              *)

Changes == {"ADDED", "REMOVED"}

PC == {"idle", "lookup", "filter", "previous", "commit", "publish", "cascade",
       "next", "done"}

\* Types of all variables.
TypeOK ==
    /\ matches \in [Segments -> SUBSET Customers]
    /\ live \subseteq Segments
    /\ statics \subseteq Segments
    /\ deps \in [Segments -> SUBSET Segments]
    /\ lagging \in BOOLEAN
    /\ changes \in 0 .. MaxChanges
    /\ aborts \in 0 .. MaxAborts
    /\ member \in [Segments -> [Customers -> {"none", "ACTIVE", "REMOVED"}]]
    /\ deltas \in [Segments -> [Customers -> Seq(Changes)]]
    /\ signals \in [Segments -> [Customers -> Seq(Changes)]]
    /\ pc \in [Evaluators -> PC]
    /\ batch \in [Evaluators -> BOOLEAN]
    /\ quiet \in [Evaluators -> BOOLEAN]
    /\ queue \in [Evaluators -> SUBSET Segments]
    /\ visited \in [Evaluators -> SUBSET Segments]
    /\ stack \in [Evaluators -> Seq(SUBSET Segments)]
    /\ current \in [Evaluators -> Segments \cup {0}]
    /\ static \in [Evaluators -> BOOLEAN]
    /\ matched \in [Evaluators -> SUBSET Customers]
    /\ kept \in [Evaluators -> SUBSET Customers]
    /\ previous \in [Evaluators -> SUBSET Customers]
    /\ retyped \in [Evaluators -> BOOLEAN]
    /\ outdated \in [Evaluators -> BOOLEAN]
    /\ torn \in [Segments -> BOOLEAN]

\* A log that starts with ADDED and alternates, and ends with ADDED exactly for
\* an ACTIVE customer: replaying it gives the membership.
Trail(log, status) ==
    /\ \A i \in 1 .. Len(log) : log[i] = IF i % 2 = 1 THEN "ADDED" ELSE "REMOVED"
    /\ status = "ACTIVE" <=> Len(log) % 2 = 1

\* The delta rows of a segment replay to its membership: "a correctness trail
\* (via persisted deltas)" (src/backend/README.md:303).
CorrectnessTrail ==
    \A s \in Segments, c \in Customers : Trail(deltas[s][c], member[s][c])

\* The same under any overlap of calls, of every segment but those written by a
\* call that had read the membership before another call changed it: that is the
\* only way to break a trail.
TrailUntorn ==
    \A s \in Segments : ~torn[s] =>
        \A c \in Customers : Trail(deltas[s][c], member[s][c])

AtRest == \A v \in Evaluators : pc[v] \in {"idle", "done"}

\* Once no call is running, unless one died, every delta row has been published,
\* in the order of the commits.
DeltasPublished == AtRest /\ aborts = 0 => signals = deltas

Count(log, change) == Cardinality({i \in DOMAIN log : log[i] = change})

\* The segments with more rows of a change than signals of it, or fewer.
Unsignalled ==
    {s \in Segments : \E c \in Customers, change \in Changes :
        Count(signals[s][c], change) # Count(deltas[s][c], change)}

\* Under any overlap of calls, as soon as none is running, every delta row has been
\* published exactly once, though perhaps not in the order of the commits; a call
\* that dies between its commit and its publication swallows the one signal of its
\* own, of one segment, and nothing makes up for it or publishes a row twice.
EveryDeltaPublished ==
    AtRest =>
        /\ Cardinality(Unsignalled) =< aborts
        /\ \A s \in Segments, c \in Customers, change \in Changes :
              LET rows == Count(deltas[s][c], change)
                  sent == Count(signals[s][c], change) IN
              sent =< rows /\ rows =< sent + aborts

\* Once no call is running, unless dependencies were changed or a cascade ended
\* early, the dependencies of a segment hold for its members: "only customers that are
\* ACTIVE members of all dependent segments are kept"
\* (src/backend/README.md:91).  Each change of a dependency has to reach all
\* segments behind it.
DependenciesRespected ==
    AtRest /\ ~lagging =>
        \A s \in live \cap Dynamic : \A d \in deps[s] : Active(s) \subseteq Active(d)

\* s and what it depends on, directly or not.
Upstream(s) ==
    {r \in Segments : \A S \in SUBSET Segments :
        s \in S /\ (\A x \in S : deps[x] \subseteq S) => r \in S}

\* No cycle, and no segment depends on another along two paths.
Untangled ==
    \A s \in Segments : \A d \in deps[s] :
        /\ s \notin Upstream(d)
        /\ \A e \in deps[s] \ {d} : Upstream(d) \cap Upstream(e) = {}

Fresh == \A s \in live \cap Dynamic : Active(s) = FilterByDependencies(s, matches[s])

\* When a whole batch ends and nothing changed since it began, every live
\* dynamic segment has exactly the members its rule and dependencies give, in
\* whatever order the batch met dependents and dependencies, and whatever
\* updates, deletions and dead calls left behind.
BatchFresh ==
    \A v \in Evaluators : pc[v] = "done" /\ batch[v] /\ quiet[v] /\ Untangled => Fresh

\* The same of every graph without cycles: "we keep visitedSegmentIds to avoid
\* cycles" (src/backend/README.md:129) means that nothing else is left out.
BatchFreshWithoutCycles ==
    \A v \in Evaluators : pc[v] = "done" /\ batch[v] /\ quiet[v]
                          /\ (\A s \in Segments : \A d \in deps[s] : s \notin Upstream(d))
                            => Fresh

\* The membership of a static segment moves only inside its manual refresh: "The
\* only way to update static membership is the manual endpoint"
\* (src/backend/README.md:142).  The one exception is an evaluation that had
\* looked the segment up before its type changed.
StaticProtected ==
    [][\A s \in statics : member'[s] # member[s] =>
        \E v \in Evaluators : current[v] = s /\ (static[v] \/ retyped[v])]_vars

\* One evaluation at a time implements the ledger.
Ledger == INSTANCE MembershipLedger WITH
    active <- [s \in Segments |-> Active(s)]

\* Every step moves at most one segment's ACTIVE set and appends exactly the
\* rows of that move.
ImplementsLedger == Ledger!Spec
=============================================================================
