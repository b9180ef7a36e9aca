---------------------- MODULE SegmentEvaluation_proofs ----------------------
(***************************************************************************)
(* Proofs about the evaluation of segments.  Under any concurrency: types, *)
(* the protection of static segments, the replay of the delta rows where   *)
(* no call writes after an outdated read, and the publication of every     *)
(* row.  For one call at a time: the replay everywhere, the refinement of  *)
(* the membership ledger and the publication in order.                     *)
(***************************************************************************)
EXTENDS SegmentEvaluation, FiniteSetTheorems, TLAPS

-----------------------------------------------------------------------------
(* Type correctness                                                        *)

\* Initially every variable has its type.
LEMMA TypeInit == Init => TypeOK
<1> SUFFICES ASSUME Init PROVE TypeOK
  OBVIOUS
<1>1. /\ matches \in [Segments -> SUBSET Customers]
      /\ live \subseteq Segments
      /\ statics \subseteq Segments
      /\ deps \in [Segments -> SUBSET Segments]
      /\ lagging \in BOOLEAN
      /\ changes = 0
      /\ aborts = 0
  BY DepsAssumption, SegmentsAssumption, Zenon DEF Init
<1>6. 0 \in 0 .. MaxChanges /\ 0 \in 0 .. MaxAborts
  BY BoundsAssumption
<1>2. <<>> \in Seq(Changes) /\ <<>> \in Seq(SUBSET Segments)
  OBVIOUS
<1>3. /\ member \in [Segments -> [Customers -> {"none", "ACTIVE", "REMOVED"}]]
      /\ deltas \in [Segments -> [Customers -> Seq(Changes)]]
      /\ signals \in [Segments -> [Customers -> Seq(Changes)]]
  BY <1>2 DEF Init
<1>4. /\ pc \in [Evaluators -> PC]
      /\ batch \in [Evaluators -> BOOLEAN]
      /\ quiet \in [Evaluators -> BOOLEAN]
      /\ queue \in [Evaluators -> SUBSET Segments]
      /\ visited \in [Evaluators -> SUBSET Segments]
      /\ stack \in [Evaluators -> Seq(SUBSET Segments)]
  BY <1>2 DEF Init, PC
<1>5. /\ current \in [Evaluators -> Segments \cup {0}]
      /\ static \in [Evaluators -> BOOLEAN]
      /\ matched \in [Evaluators -> SUBSET Customers]
      /\ kept \in [Evaluators -> SUBSET Customers]
      /\ previous \in [Evaluators -> SUBSET Customers]
      /\ retyped \in [Evaluators -> BOOLEAN]
      /\ outdated \in [Evaluators -> BOOLEAN]
      /\ torn \in [Segments -> BOOLEAN]
  BY DEF Init
<1> QED
  BY <1>1, <1>3, <1>4, <1>5, <1>6 DEF TypeOK

\* A non-empty stack gives the dependents left in the innermost cascade, and
\* the stack of the callers.
LEMMA StackType ==
    ASSUME TypeOK, NEW v \in Evaluators, stack[v] # <<>>
    PROVE  Top(v) \in SUBSET Segments /\ Pop(v) \in Seq(SUBSET Segments)
<1>1. stack[v] \in Seq(SUBSET Segments)
  BY DEF TypeOK
<1>2. Len(stack[v]) \in Nat \ {0}
  BY <1>1
<1> QED
  BY <1>1, <1>2 DEF Top, Pop

\* The rows an evaluation adds to a log, and the status it leaves, are typed.
LEMMA RowTypes ==
    ASSUME NEW v, NEW c
    PROVE  /\ \A log \in Seq(Changes) : Logged(v, c, log) \in Seq(Changes)
           /\ \A status \in {"none", "ACTIVE", "REMOVED"} :
                 StatusAfter(v, c, status) \in {"none", "ACTIVE", "REMOVED"}
BY DEF Logged, StatusAfter, Changes

\* Leaving a call resets its variables to typed values.
LEMMA FinishType ==
    ASSUME TypeOK, NEW v \in Evaluators, Finish(v), aborts' \in 0 .. MaxAborts, lagging' \in BOOLEAN,
           UNCHANGED <<matches, live, statics, deps, changes, store>>
    PROVE  TypeOK'
BY DEF TypeOK, Finish, store, PC

\* Every step keeps the types.
LEMMA TypeStep == TypeOK /\ [Next]_vars => TypeOK'
<1> SUFFICES ASSUME TypeOK, [Next]_vars PROVE TypeOK'
  OBVIOUS
<1>1. ASSUME NEW s \in Segments, NEW now \in SUBSET Customers, ChangeData(s, now)
      PROVE  TypeOK'
  BY <1>1, BoundsAssumption DEF ChangeData, TypeOK, store, walk, diff
<1>2. ASSUME NEW s \in Segments, DeleteSegment(s) PROVE TypeOK'
  BY <1>2, BoundsAssumption DEF DeleteSegment, TypeOK, store, call, walk, diff
<1>5. ASSUME NEW s \in Segments, NEW now \in SUBSET Customers,
             NEW on \in SUBSET Segments, NEW isStatic \in BOOLEAN,
             UpdateSegment(s, now, on, isStatic)
      PROVE  TypeOK'
  <2>1. retyped' \in [Evaluators -> BOOLEAN]
    BY <1>5, Zenon DEF UpdateSegment, TypeOK
  <2>2. statics' \subseteq Segments
    BY <1>5 DEF UpdateSegment, TypeOK
  <2> QED
    BY <1>5, <2>1, <2>2, BoundsAssumption DEF UpdateSegment, TypeOK, store, walk
<1>3. ASSUME NEW v \in Evaluators, Step(v) PROVE TypeOK'
  <2>1. ASSUME NEW s \in Segments, EvaluateSegment(v, s) PROVE TypeOK'
    BY <2>1 DEF EvaluateSegment, Enter, TypeOK, PC, data, store, call, diff
  <2>2. ASSUME NEW s \in Segments, RefreshStaticSegment(v, s) PROVE TypeOK'
    BY <2>2 DEF RefreshStaticSegment, Enter, TypeOK, PC, data, store, call, diff
  <2>3. CASE EvaluateAll(v)
    BY <2>3 DEF EvaluateAll, TypeOK, PC, data, store, walk, diff, Dynamic
  <2>4. CASE EvaluateRule(v)
    <3>1. current[v] \in Segments
      BY <2>4 DEF EvaluateRule, Evaluable, TypeOK
    <3> QED
      BY <2>4, <3>1 DEF EvaluateRule, TypeOK, PC, data, store, call, walk
  <2>5. CASE Reject(v)
    BY <2>5, FinishType DEF Reject, data, TypeOK
  <2>6. CASE Filter(v)
    BY <2>6 DEF Filter, FilterByDependencies, TypeOK, PC, data, store, call, walk
  <2>7. CASE ReadPrevious(v)
    BY <2>7 DEF ReadPrevious, Active, TypeOK, PC, data, store, call, walk
  <2>8. CASE Commit(v)
    <3>1. member' \in [Segments -> [Customers -> {"none", "ACTIVE", "REMOVED"}]]
      <4>1. current[v] \in Segments =>
              [c \in Customers |-> StatusAfter(v, c, member[current[v]][c])]
                \in [Customers -> {"none", "ACTIVE", "REMOVED"}]
        <5> SUFFICES ASSUME current[v] \in Segments, NEW c \in Customers
                     PROVE  StatusAfter(v, c, member[current[v]][c])
                              \in {"none", "ACTIVE", "REMOVED"}
          OBVIOUS
        <5>1. member[current[v]][c] \in {"none", "ACTIVE", "REMOVED"}
          BY DEF TypeOK
        <5> QED
          BY <5>1 DEF StatusAfter
      <4> QED
        BY <2>8, <4>1 DEF Commit, TypeOK
    <3>2. deltas' \in [Segments -> [Customers -> Seq(Changes)]]
      BY <2>8, RowTypes DEF Commit, TypeOK
    <3>3. pc' \in [Evaluators -> PC]
      BY <2>8 DEF Commit, TypeOK, PC
    <3>4. outdated' \in [Evaluators -> BOOLEAN]
      BY <2>8, Zenon DEF Commit, TypeOK
    <3>5. torn' \in [Segments -> BOOLEAN]
      BY <2>8, Zenon DEF Commit, TypeOK
    <3> QED
      BY <2>8, <3>1, <3>2, <3>3, <3>4, <3>5 DEF Commit, TypeOK, data, call, walk, diff
  <2>9. CASE Publish(v)
    BY <2>9, RowTypes DEF Publish, TypeOK, PC, data, call, walk, diff
  <2>10. CASE Cascade(v)
    <3>1. Dependents(current[v]) \in SUBSET Segments
      BY DEF Dependents, TypeOK
    <3> QED
      BY <2>10, <3>1 DEF Cascade, TypeOK, PC, data, store, call, diff
  <2>11. ASSUME NEW d \in Segments, Visit(v, d) PROVE TypeOK'
    BY <2>11, StackType DEF Visit, NextDependent, Enter, TypeOK, PC, data, store, call, diff
  <2>12. ASSUME NEW d \in Segments, Skip(v, d) PROVE TypeOK'
    BY <2>12, StackType DEF Skip, NextDependent, TypeOK, data, store, call, diff
  <2>13. CASE Return(v)
    BY <2>13, StackType DEF Return, TypeOK, data, store, call, diff
  <2>14. ASSUME NEW s \in Segments, NextInBatch(v, s) PROVE TypeOK'
    BY <2>14 DEF NextInBatch, Enter, TypeOK, PC, data, store, diff
  <2>15. CASE EndCall(v)
    BY <2>15 DEF EndCall, TypeOK, PC, data, store, call, walk, diff
  <2>16. CASE Respond(v)
    BY <2>16, FinishType DEF Respond, data, TypeOK
  <2>17. CASE Abort(v)
    BY <2>17, FinishType, BoundsAssumption DEF Abort, TypeOK
  <2> QED
    BY <1>3, <2>1, <2>2, <2>3, <2>4, <2>5, <2>6, <2>7, <2>8, <2>9, <2>10,
       <2>11, <2>12, <2>13, <2>14, <2>15, <2>16, <2>17 DEF Step
<1>4. CASE UNCHANGED vars
  BY <1>4 DEF vars, data, store, call, walk, diff, TypeOK
<1> QED
  BY <1>1, <1>2, <1>3, <1>4, <1>5 DEF Next

\* Every variable keeps its type.
THEOREM TypeCorrect == Spec => []TypeOK
<1>1. Init => TypeOK
  BY TypeInit
<1>2. TypeOK /\ [Next]_vars => TypeOK'
  BY TypeStep
<1> QED
  BY <1>1, <1>2, PTL DEF Spec

-----------------------------------------------------------------------------
(* Static segments                                                         *)

\* A call that passed the lookup evaluates a segment of the type it asked for,
\* unless an update has changed the type since.
RightType ==
    \A v \in Evaluators : LookedUp(v) =>
        /\ current[v] \in Segments
        /\ retyped[v] \/ (static[v] <=> current[v] \in statics)

\* Only Commit touches memberships and delta rows.
LEMMA StoreFrame ==
    ASSUME [Next]_vars, \A v \in Evaluators : ~Commit(v)
    PROVE  UNCHANGED <<member, deltas>>
<1>1. ASSUME NEW v \in Evaluators, Step(v) PROVE UNCHANGED <<member, deltas>>
  <2>1. CASE Publish(v)
    BY <2>1 DEF Publish
  <2>2. CASE ~Publish(v)
    BY <1>1, <2>2 DEF Step, EvaluateSegment, RefreshStaticSegment, EvaluateAll,
       EvaluateRule, Reject, Filter, ReadPrevious, Cascade, Visit, Skip, Return,
       NextInBatch, EndCall, Respond, Abort, store
  <2> QED
    BY <2>1, <2>2
<1>2. CASE \/ \E s \in Segments, now \in SUBSET Customers : ChangeData(s, now)
           \/ \E s \in Segments, now \in SUBSET Customers, on \in SUBSET Segments,
                 isStatic \in BOOLEAN : UpdateSegment(s, now, on, isStatic)
  BY <1>2 DEF ChangeData, UpdateSegment, store
<1>3. CASE \E s \in Segments : DeleteSegment(s)
  BY <1>3 DEF DeleteSegment, store
<1>4. CASE UNCHANGED vars
  BY <1>4 DEF vars, store
<1> QED
  BY <1>1, <1>2, <1>3, <1>4 DEF Next

\* A step moves at most one evaluator, and a call that is past the lookup after
\* it keeps the segment and the type it had.
LEMMA WalkFrame ==
    ASSUME TypeOK, [Next]_vars, NEW v \in Evaluators,
           pc'[v] \in {"filter", "previous", "commit"}
    PROVE  /\ current'[v] = current[v] /\ static'[v] = static[v]
           /\ \/ pc[v] = pc'[v] /\ previous'[v] = previous[v]
              \/ EvaluateRule(v)
              \/ Filter(v)
              \/ ReadPrevious(v)
<1> USE DEF TypeOK
<1>1. CASE UNCHANGED <<pc, current, static, previous>>
  BY <1>1
<1>2. ASSUME NEW w \in Evaluators, Step(w)
      PROVE  /\ current'[v] = current[v] /\ static'[v] = static[v]
             /\ \/ pc[v] = pc'[v] /\ previous'[v] = previous[v]
                \/ EvaluateRule(v)
                \/ Filter(v)
                \/ ReadPrevious(v)
  <2>1. CASE \E s \in Segments : EvaluateSegment(w, s) \/ RefreshStaticSegment(w, s)
                                   \/ Visit(w, s) \/ NextInBatch(w, s)
    <3>1. PICK s \in Segments, isStatic \in BOOLEAN : Enter(w, s, isStatic) /\ UNCHANGED previous
      BY <2>1 DEF EvaluateSegment, RefreshStaticSegment, Visit, NextInBatch, diff
    <3> QED
      BY <3>1 DEF Enter
  <2>2. CASE EvaluateAll(w) \/ Commit(w) \/ Publish(w) \/ Cascade(w) \/ EndCall(w)
             \/ Return(w) \/ \E d \in Segments : Skip(w, d)
    BY <2>2 DEF EvaluateAll, Commit, Publish, Cascade, EndCall, Return, Skip, walk, diff
  <2>3. CASE EvaluateRule(w) \/ Filter(w) \/ ReadPrevious(w)
    <3>1. /\ UNCHANGED <<current, static>>
          /\ \A u \in Evaluators \ {w} : pc'[u] = pc[u] /\ previous'[u] = previous[u]
      BY <2>3 DEF EvaluateRule, Filter, ReadPrevious, walk
    <3> QED
      BY <2>3, <3>1
  <2>4. CASE Reject(w) \/ Respond(w) \/ Abort(w)
    <3>1. Finish(w)
      BY <2>4 DEF Reject, Respond, Abort
    <3> QED
      BY <3>1 DEF Finish
  <2> QED
    BY <1>2, <2>1, <2>2, <2>3, <2>4 DEF Step
<1>3. CASE \/ \E s \in Segments, now \in SUBSET Customers : ChangeData(s, now)
           \/ \E s \in Segments, now \in SUBSET Customers, on \in SUBSET Segments,
                 isStatic \in BOOLEAN : UpdateSegment(s, now, on, isStatic)
           \/ \E s \in Segments : DeleteSegment(s)
           \/ UNCHANGED vars
  BY <1>1, <1>3 DEF ChangeData, UpdateSegment, DeleteSegment, vars, walk, diff
<1> QED
  BY <1>2, <1>3 DEF Next

\* Types change only by updates, which tell the calls that have looked them up;
\* what an update has told is forgotten at the end of the call or at its commit.
LEMMA TypeFrame ==
    ASSUME TypeOK, [Next]_vars, NEW v \in Evaluators, LookedUp(v), LookedUp(v)'
    PROVE  \/ retyped'[v]
           \/ /\ retyped'[v] = retyped[v]
              /\ current[v] \in statics' <=> current[v] \in statics
<1>1. ASSUME NEW s \in Segments, NEW now \in SUBSET Customers,
             NEW on \in SUBSET Segments, NEW isStatic \in BOOLEAN,
             UpdateSegment(s, now, on, isStatic), ~retyped'[v]
      PROVE  /\ ~retyped[v]
             /\ current[v] \in statics' <=> current[v] \in statics
  <2>1. ~(retyped[v] \/ (LookedUp(v) /\ current[v] = s /\ isStatic # (s \in statics)))
    BY <1>1, Zenon DEF UpdateSegment
  <2>2. statics' = IF isStatic THEN statics \cup {s} ELSE statics \ {s}
    BY <1>1 DEF UpdateSegment
  <2>3. CASE current[v] # s
    BY <2>1, <2>2, <2>3
  <2>4. CASE current[v] = s
    <3>1. isStatic = (s \in statics)
      BY <2>1, <2>4
    <3> QED
      BY <2>1, <2>2, <2>4, <3>1
  <2> QED
    BY <2>3, <2>4
<1>2. ASSUME NEW w \in Evaluators, Step(w)
      PROVE  statics' = statics /\ retyped'[v] = retyped[v]
  <2>1. CASE Reject(w) \/ Respond(w) \/ Abort(w)
    <3>1. w # v /\ Finish(w) /\ statics' = statics
      BY <2>1 DEF Reject, Respond, Abort, Finish, LookedUp, TypeOK, data
    <3> QED
      BY <3>1 DEF Finish, TypeOK
  <2>2. CASE Commit(w)
    <3>1. w # v
      BY <2>2 DEF Commit, LookedUp, TypeOK
    <3> QED
      BY <2>2, <3>1 DEF Commit, data, TypeOK
  <2>3. CASE ~(Reject(w) \/ Respond(w) \/ Abort(w) \/ Commit(w))
    BY <1>2, <2>3 DEF Step, EvaluateSegment, RefreshStaticSegment, EvaluateAll, EvaluateRule,
       Filter, ReadPrevious, Publish, Cascade, Visit, Skip, Return, NextInBatch, EndCall,
       data, diff
  <2> QED
    BY <2>1, <2>2, <2>3
<1>3. CASE \/ \E s \in Segments, now \in SUBSET Customers : ChangeData(s, now)
           \/ \E s \in Segments : DeleteSegment(s)
           \/ UNCHANGED vars
  BY <1>3 DEF ChangeData, DeleteSegment, vars, data, diff
<1>4. CASE \E s \in Segments, now \in SUBSET Customers, on \in SUBSET Segments,
              isStatic \in BOOLEAN : UpdateSegment(s, now, on, isStatic)
  <2>1. retyped[v] \in BOOLEAN /\ retyped'[v] \in BOOLEAN
    BY TypeStep DEF TypeOK
  <2> QED
    BY <1>1, <1>4, <2>1
<1> QED
  BY <1>2, <1>3, <1>4 DEF Next

\* The lookup establishes RightType; an update of the type only weakens it.
LEMMA RightTypeStep == TypeOK /\ RightType /\ [Next]_vars => RightType'
<1> SUFFICES ASSUME TypeOK, RightType, [Next]_vars, NEW v \in Evaluators, LookedUp(v)'
             PROVE  /\ current'[v] \in Segments
                    /\ retyped'[v] \/ (static'[v] <=> current'[v] \in statics')
  BY DEF RightType
<1>1. current'[v] = current[v] /\ static'[v] = static[v]
  BY WalkFrame DEF LookedUp
<1>2. CASE EvaluateRule(v)
  BY <1>1, <1>2 DEF EvaluateRule, Evaluable, TypeOK, data
<1>3. CASE pc[v] = pc'[v] \/ Filter(v) \/ ReadPrevious(v)
  <2>1. LookedUp(v)
    BY <1>3 DEF Filter, ReadPrevious, LookedUp
  <2> QED
    BY <1>1, <2>1, TypeFrame DEF RightType
<1> QED
  BY <1>2, <1>3, WalkFrame DEF LookedUp

\* The invariant the later proofs start from.
LEMMA TypedCalls == Spec => [](TypeOK /\ RightType)
<1>1. Init => RightType
  BY DEF Init, RightType, LookedUp
<1> QED
  BY <1>1, RightTypeStep, TypeInit, TypeStep, PTL DEF Spec

\* However calls interleave, abort or cascade, the membership of a static
\* segment moves only in the commit of its own refresh, or of an evaluation under
\* which its type was changed.
THEOREM StaticStaysProtected == Spec => StaticProtected
<1>1. TypeOK /\ RightType /\ [Next]_vars =>
        [\A s \in statics : member'[s] # member[s] =>
            \E v \in Evaluators : current[v] = s /\ (static[v] \/ retyped[v])]_vars
  <2> SUFFICES ASSUME TypeOK, RightType, [Next]_vars,
                      NEW s \in statics, member'[s] # member[s]
               PROVE  \E v \in Evaluators : current[v] = s /\ (static[v] \/ retyped[v])
    OBVIOUS
  <2>1. PICK v \in Evaluators : Commit(v)
    BY StoreFrame
  <2>2. current[v] = s
    BY <2>1 DEF Commit, TypeOK
  <2>3. LookedUp(v)
    BY <2>1 DEF Commit, LookedUp
  <2> QED
    BY <2>2, <2>3 DEF RightType
<1> QED
  BY <1>1, TypedCalls, PTL DEF Spec, StaticProtected

-----------------------------------------------------------------------------
(* The correctness trail                                                   *)

\* What a call that is about to commit has read is still the ACTIVE set, unless
\* another commit has changed it since.
HonestRead ==
    \A v \in Evaluators :
        pc[v] = "commit" /\ ~outdated[v] => previous[v] = Active(current[v])

\* With a read that still holds, an evaluation sets the ACTIVE set to the
\* customers it kept.
LEMMA CommitSets ==
    ASSUME TypeOK, RightType, NEW v \in Evaluators, Commit(v),
           previous[v] = Active(current[v])
    PROVE  /\ current[v] \in Segments
           /\ Active(current[v])' = kept[v]
           /\ \A s \in Segments \ {current[v]} :
                 member'[s] = member[s] /\ deltas'[s] = deltas[s]
           /\ deltas'[current[v]] =
                 [c \in Customers |-> Logged(v, c, deltas[current[v]][c])]
<1>1. current[v] \in Segments
  BY DEF Commit, RightType, LookedUp
<1>2. \A c \in Customers :
          member'[current[v]][c] = StatusAfter(v, c, member[current[v]][c])
  BY <1>1 DEF Commit, TypeOK
<1>3. \A c \in Customers : member'[current[v]][c] = "ACTIVE" <=> c \in kept[v]
  BY <1>1, <1>2 DEF StatusAfter, Removed, Active
<1>4. Active(current[v])' = kept[v]
  <2>1. current'[v] = current[v]
    BY DEF Commit, walk
  <2>2. kept[v] \subseteq Customers
    BY DEF TypeOK
  <2> QED
    BY <1>3, <2>1, <2>2 DEF Active
<1> QED
  BY <1>1, <1>4 DEF Commit, TypeOK

\* A commit leaves the other segments alone, and marks its own torn if its read
\* was outdated.
LEMMA CommitFrame ==
    ASSUME TypeOK, RightType, NEW v \in Evaluators, Commit(v)
    PROVE  /\ current[v] \in Segments
           /\ torn'[current[v]] = (torn[current[v]] \/ outdated[v])
           /\ \A s \in Segments \ {current[v]} :
                 /\ member'[s] = member[s] /\ deltas'[s] = deltas[s]
                 /\ torn'[s] = torn[s]
<1>1. current[v] \in Segments
  BY DEF Commit, RightType, LookedUp
<1>2. torn'[current[v]] = (torn[current[v]] \/ outdated[v])
  BY <1>1, Zenon DEF Commit, TypeOK
<1>3. \A s \in Segments \ {current[v]} : torn'[s] = torn[s]
  BY Zenon DEF Commit, TypeOK
<1> QED
  BY <1>1, <1>2, <1>3 DEF Commit, TypeOK

\* Only commits mark a read as outdated or a segment as torn.
LEMMA OutdatedFrame ==
    ASSUME TypeOK, [Next]_vars, \A v \in Evaluators : ~Commit(v)
    PROVE  /\ torn' = torn
           /\ \A v \in Evaluators : outdated'[v] => outdated[v]
           /\ \A v \in Evaluators : pc'[v] = "commit" => outdated'[v] = outdated[v]
<1>1. ASSUME NEW w \in Evaluators, Step(w)
      PROVE  /\ torn' = torn
             /\ \A v \in Evaluators : outdated'[v] => outdated[v]
             /\ \A v \in Evaluators : pc'[v] = "commit" => outdated'[v] = outdated[v]
  <2>1. CASE Reject(w) \/ Respond(w) \/ Abort(w)
    <3>1. Finish(w) /\ torn' = torn
      BY <2>1 DEF Reject, Respond, Abort, store
    <3> QED
      BY <3>1 DEF Finish, TypeOK
  <2>2. CASE ~(Reject(w) \/ Respond(w) \/ Abort(w))
    BY <1>1, <2>2 DEF Step, EvaluateSegment, RefreshStaticSegment, EvaluateAll,
       EvaluateRule, Filter, ReadPrevious, Publish, Cascade, Visit, Skip, Return,
       NextInBatch, EndCall, store, diff
  <2> QED
    BY <2>1, <2>2
<1>2. CASE \/ \E s \in Segments, now \in SUBSET Customers : ChangeData(s, now)
           \/ \E s \in Segments, now \in SUBSET Customers, on \in SUBSET Segments,
                 isStatic \in BOOLEAN : UpdateSegment(s, now, on, isStatic)
           \/ \E s \in Segments : DeleteSegment(s)
           \/ UNCHANGED vars
  BY <1>2 DEF ChangeData, UpdateSegment, DeleteSegment, vars, store, diff
<1> QED
  BY <1>1, <1>2 DEF Next

\* Whatever calls overlap, a read holds until a commit marks it as outdated: a
\* commit that marks no read of its segment leaves the ACTIVE set as it is.
LEMMA HonestReadStep == TypeOK /\ RightType /\ HonestRead /\ [Next]_vars => HonestRead'
<1> SUFFICES ASSUME TypeOK, RightType, HonestRead, [Next]_vars,
                    NEW v \in Evaluators, pc'[v] = "commit", ~outdated'[v]
             PROVE  previous'[v] = Active(current[v])'
  BY DEF HonestRead
<1>1. current'[v] = current[v] /\ ~EvaluateRule(v) /\ ~Filter(v)
  BY WalkFrame DEF EvaluateRule, Filter, TypeOK
<1>2. CASE ReadPrevious(v)
  <2>1. member' = member
    BY <1>2 DEF ReadPrevious, store
  <2> QED
    BY <1>1, <1>2, <2>1 DEF ReadPrevious, Active, TypeOK
<1>3. CASE pc[v] = pc'[v] /\ previous'[v] = previous[v]
  <2>1. CASE \A w \in Evaluators : ~Commit(w)
    <3>1. member' = member /\ outdated'[v] = outdated[v]
      BY <2>1, StoreFrame, OutdatedFrame
    <3> QED
      BY <1>1, <1>3, <3>1 DEF HonestRead, Active
  <2>2. ASSUME NEW w \in Evaluators, Commit(w) PROVE previous'[v] = Active(current[v])'
    <3>1. w # v
      BY <2>2 DEF Commit, TypeOK
    <3>2. ~outdated[v] /\ ~Outdates(w, v)
      BY <2>2, <3>1, Zenon DEF Commit
    <3>3. previous[v] = Active(current[v]) /\ current[v] \in Segments
      BY <1>3, <3>2 DEF HonestRead, RightType, LookedUp
    <3>4. CASE current[v] # current[w]
      <4>1. member'[current[v]] = member[current[v]]
        BY <2>2, <3>3, <3>4, CommitFrame
      <4> QED
        BY <1>1, <1>3, <3>3, <4>1 DEF Active
    <3>5. CASE current[v] = current[w]
      <4>1. ~Changed(w) /\ ~outdated[w]
        BY <1>3, <3>2, <3>5 DEF Outdates
      <4>2. kept[w] = previous[w] /\ previous[w] = Active(current[w])
        BY <2>2, <4>1 DEF Changed, HonestRead, Commit
      <4>3. Active(current[w])' = kept[w]
        BY <2>2, <4>2, CommitSets
      <4>4. current'[w] = current[w]
        BY <2>2 DEF Commit, walk
      <4> QED
        BY <1>1, <1>3, <3>3, <3>5, <4>2, <4>3, <4>4
    <3> QED
      BY <3>4, <3>5
  <2> QED
    BY <2>1, <2>2
<1> QED
  BY <1>1, <1>2, <1>3, WalkFrame

\* A trail continues with ADDED from a customer that is not ACTIVE, with
\* REMOVED from one that is.
LEMMA TrailGrows ==
    ASSUME NEW log \in Seq(Changes), NEW status, Trail(log, status)
    PROVE  /\ status # "ACTIVE" => Trail(Append(log, "ADDED"), "ACTIVE")
           /\ \A next : status = "ACTIVE" /\ next # "ACTIVE"
                            => Trail(Append(log, "REMOVED"), next)
<1> DEFINE n == Len(log)
<1>1. n \in Nat
  OBVIOUS
<1>2. n % 2 = 1 <=> (n + 1) % 2 # 1
  BY <1>1
<1>3. ASSUME NEW change \in Changes
      PROVE  /\ Len(Append(log, change)) = n + 1
             /\ Append(log, change)[n + 1] = change
             /\ \A i \in 1 .. n : Append(log, change)[i] = log[i]
  OBVIOUS
<1>4. \A i \in 1 .. n + 1 : i \in 1 .. n \/ i = n + 1
  BY <1>1
<1>5. "ADDED" \in Changes /\ "REMOVED" \in Changes
  BY DEF Changes
<1> HIDE DEF n
<1>6. ASSUME status # "ACTIVE" PROVE Trail(Append(log, "ADDED"), "ACTIVE")
  BY <1>1, <1>2, <1>3, <1>4, <1>5, <1>6 DEF Trail, n
<1>7. ASSUME NEW next, status = "ACTIVE", next # "ACTIVE"
      PROVE  Trail(Append(log, "REMOVED"), next)
  BY <1>1, <1>2, <1>3, <1>4, <1>5, <1>7 DEF Trail, n
<1> QED
  BY <1>6, <1>7

\* A commit after a read that still holds continues the trail of each customer.
LEMMA TrailContinues ==
    ASSUME TypeOK, RightType, NEW v \in Evaluators, Commit(v),
           previous[v] = Active(current[v]), NEW c \in Customers,
           Trail(deltas[current[v]][c], member[current[v]][c])
    PROVE  Trail(deltas'[current[v]][c], member'[current[v]][c])
<1> DEFINE s == current[v]
<1>1. s \in Segments /\ deltas[s][c] \in Seq(Changes)
  BY CommitFrame DEF TypeOK
<1>2. /\ member'[s][c] = StatusAfter(v, c, member[s][c])
      /\ deltas'[s][c] = Logged(v, c, deltas[s][c])
  BY <1>1 DEF Commit, TypeOK
<1>3. c \in previous[v] <=> member[s][c] = "ACTIVE"
  BY DEF Active
<1>4. Trail(deltas[s][c], member[s][c])
  OBVIOUS
<1>5. CASE c \in Added(v)
  <2>1. member'[s][c] = "ACTIVE" /\ deltas'[s][c] = Append(deltas[s][c], "ADDED")
    BY <1>2, <1>5 DEF Added, StatusAfter, Logged
  <2>2. member[s][c] # "ACTIVE"
    BY <1>3, <1>5 DEF Added
  <2> QED
    BY <1>1, <1>4, <2>1, <2>2, TrailGrows
<1>6. CASE c \in Removed(v)
  <2>1. member'[s][c] = "REMOVED" /\ deltas'[s][c] = Append(deltas[s][c], "REMOVED")
    BY <1>2, <1>6 DEF Added, Removed, StatusAfter, Logged
  <2>2. member[s][c] = "ACTIVE"
    BY <1>3, <1>6 DEF Removed
  <2> QED
    BY <1>1, <1>4, <2>1, <2>2, TrailGrows
<1>7. CASE c \notin Added(v) /\ c \notin Removed(v)
  <2>1. deltas'[s][c] = deltas[s][c]
    BY <1>2, <1>7 DEF Logged
  <2>2. member'[s][c] = "ACTIVE" <=> member[s][c] = "ACTIVE"
    BY <1>2, <1>3, <1>7 DEF StatusAfter, Added, Removed
  <2> QED
    BY <1>4, <2>1, <2>2 DEF Trail
<1> QED
  BY <1>5, <1>6, <1>7

\* Every step keeps the trails of the segments that are not torn.
LEMMA TrailStep ==
    TypeOK /\ RightType /\ HonestRead /\ TrailUntorn /\ [Next]_vars => TrailUntorn'
<1> SUFFICES ASSUME TypeOK, RightType, HonestRead, TrailUntorn, [Next]_vars,
                    NEW s \in Segments, ~torn'[s], NEW c \in Customers
             PROVE  Trail(deltas'[s][c], member'[s][c])
  BY DEF TrailUntorn
<1>1. ASSUME NEW v \in Evaluators, Commit(v) PROVE Trail(deltas'[s][c], member'[s][c])
  <2>1. CASE s = current[v]
    <3>1. ~torn[s] /\ ~outdated[v]
      BY <1>1, <2>1, CommitFrame
    <3>2. previous[v] = Active(current[v])
      BY <1>1, <3>1 DEF HonestRead, Commit
    <3>3. Trail(deltas[s][c], member[s][c])
      BY <3>1 DEF TrailUntorn
    <3> QED
      BY <1>1, <2>1, <3>2, <3>3, TrailContinues
  <2>2. CASE s # current[v]
    <3>1. ~torn[s] /\ member'[s] = member[s] /\ deltas'[s] = deltas[s]
      BY <1>1, <2>2, CommitFrame
    <3> QED
      BY <3>1 DEF TrailUntorn
  <2> QED
    BY <2>1, <2>2
<1>2. CASE \A v \in Evaluators : ~Commit(v)
  BY <1>2, StoreFrame, OutdatedFrame DEF TrailUntorn
<1> QED
  BY <1>1, <1>2

\* However many calls overlap, abort or cascade, the delta rows of a segment
\* replay to its membership until a call writes it that had read the membership
\* before another call changed it.
THEOREM TrailsReplayUnlessTorn == Spec => []TrailUntorn
<1>1. Init => HonestRead /\ TrailUntorn
  <2>1. Init => HonestRead
    BY DEF Init, HonestRead
  <2>2. Init => TrailUntorn
    BY DEF Init, TrailUntorn, Trail
  <2> QED
    BY <2>1, <2>2
<1>2. TypeOK /\ RightType /\ HonestRead /\ TrailUntorn /\ [Next]_vars
        => HonestRead' /\ TrailUntorn'
  BY HonestReadStep, TrailStep
<1> QED
  BY <1>1, <1>2, TypedCalls, PTL DEF Spec

-----------------------------------------------------------------------------
(* The same for one call at a time                                         *)

\* At most one evaluator: no call overlaps another.
Serial == \A v, w \in Evaluators : v = w

\* What a call that is about to commit has read is still the ACTIVE set.
FreshRead ==
    \A v \in Evaluators : pc[v] = "commit" => previous[v] = Active(current[v])

\* No read is outdated and no segment torn.
NothingTorn ==
    /\ \A v \in Evaluators : ~outdated[v]
    /\ \A s \in Segments : ~torn[s]

\* The only call that runs cannot outdate its own read.
LEMMA NothingTornStep ==
    Serial /\ TypeOK /\ RightType /\ NothingTorn /\ [Next]_vars => NothingTorn'
<1> SUFFICES ASSUME Serial, TypeOK, RightType, NothingTorn, [Next]_vars PROVE NothingTorn'
  OBVIOUS
<1>1. ASSUME NEW v \in Evaluators, Commit(v) PROVE NothingTorn'
  <2>1. ~outdated[v]
    BY <1>1 DEF NothingTorn, Commit
  <2>2. \A s \in Segments : ~torn'[s]
    BY <1>1, <2>1, CommitFrame DEF NothingTorn
  <2>3. ~outdated'[v]
    BY <1>1, Zenon DEF Commit
  <2> QED
    BY <2>2, <2>3 DEF NothingTorn, Serial
<1>2. CASE \A v \in Evaluators : ~Commit(v)
  <2>1. torn' = torn
    BY <1>2, OutdatedFrame
  <2>2. \A v \in Evaluators : outdated'[v] => outdated[v]
    BY <1>2, OutdatedFrame, Zenon
  <2>3. \A v \in Evaluators : ~outdated'[v]
    BY <2>2, Zenon DEF NothingTorn
  <2> QED
    BY <2>1, <2>3 DEF NothingTorn
<1> QED
  BY <1>1, <1>2

\* For one call at a time every read holds at the commit, and every trail replays.
LEMMA SerialInvariant == ASSUME Serial PROVE Spec => [](FreshRead /\ CorrectnessTrail)
<1>1. Init => HonestRead /\ NothingTorn
  BY DEF Init, HonestRead, NothingTorn
<1>2. TypeOK /\ RightType /\ HonestRead /\ NothingTorn /\ [Next]_vars
        => HonestRead' /\ NothingTorn'
  BY HonestReadStep, NothingTornStep
<1>3. HonestRead /\ NothingTorn => FreshRead
  BY DEF HonestRead, NothingTorn, FreshRead
<1>4. TrailUntorn /\ NothingTorn => CorrectnessTrail
  BY DEF TrailUntorn, NothingTorn, CorrectnessTrail
<1> QED
  BY <1>1, <1>2, <1>3, <1>4, TypedCalls, TrailsReplayUnlessTorn, PTL DEF Spec

\* When no two calls overlap, whatever aborts, is deleted or cascades, the delta
\* rows of every segment replay to its membership.
THEOREM TrailReplaysSerially == ASSUME Serial PROVE Spec => []CorrectnessTrail
BY SerialInvariant, PTL

-----------------------------------------------------------------------------
(* The refinement of the membership ledger, for one call at a time         *)

\* A commit is one move of the ledger and every other step a stutter.
LEMMA LedgerStep ==
    ASSUME TypeOK, RightType, FreshRead, [Next]_vars
    PROVE  [Ledger!Next]_<<[s \in Segments |-> Active(s)], deltas>>
<1> DEFINE active == [s \in Segments |-> Active(s)]
<1>0. \A v \in Evaluators : Commit(v) => previous[v] = Active(current[v])
  BY DEF FreshRead, Commit
<1>1. ASSUME NEW v \in Evaluators, Commit(v) PROVE Ledger!Move(current[v], kept[v])
  <2>1. active' = [active EXCEPT ![current[v]] = kept[v]]
    <3>1. \A s \in Segments \ {current[v]} : Active(s)' = Active(s)
      BY <1>1, <1>0, CommitSets DEF Active
    <3>2. current'[v] = current[v]
      BY <1>1 DEF Commit, walk
    <3>3. ASSUME NEW s \in Segments, s = current[v] PROVE Active(s)' = kept[v]
      BY <1>1, <3>2, <3>3, <1>0, CommitSets DEF Active
    <3> QED
      BY <3>1, <3>3
  <2>2. deltas' = [deltas EXCEPT ![current[v]] = Ledger!Recorded(current[v], kept[v])]
    <3>1. active[current[v]] = previous[v]
      BY <1>1, <1>0, CommitSets DEF Commit
    <3>2. [c \in Customers |-> Logged(v, c, deltas[current[v]][c])]
            = Ledger!Recorded(current[v], kept[v])
      BY <3>1 DEF Ledger!Recorded, Logged, Added, Removed
    <3> QED
      BY <1>1, <3>2 DEF Commit
  <2> QED
    BY <2>1, <2>2 DEF Ledger!Move
<1>2. ASSUME NEW v \in Evaluators, Commit(v) PROVE Ledger!Next
  <2>1. current[v] \in Segments /\ kept[v] \in SUBSET Customers
    BY <1>2, <1>0, CommitSets DEF TypeOK
  <2> QED
    BY <1>1, <1>2, <2>1 DEF Ledger!Next
<1>3. CASE \A v \in Evaluators : ~Commit(v)
  <2>1. UNCHANGED <<member, deltas>>
    BY <1>3, StoreFrame
  <2> QED
    BY <2>1 DEF Active
<1> QED
  BY <1>2, <1>3

\* When no two calls overlap, SegmentEvaluation implements MembershipLedger: each
\* commit moves the ACTIVE set of one segment and records exactly that move.
THEOREM LedgerImplementedSerially == ASSUME Serial PROVE Spec => ImplementsLedger
<1>1. Init => Ledger!Init
  BY DEF Init, Ledger!Init, Active
<1>2. TypeOK /\ RightType /\ FreshRead /\ [Next]_vars
        => [Ledger!Next]_<<[s \in Segments |-> Active(s)], deltas>>
  BY LedgerStep
<1> QED
  BY <1>1, <1>2, TypedCalls, SerialInvariant, PTL DEF Spec, ImplementsLedger, Ledger!Spec
-----------------------------------------------------------------------------
(* The publication of every delta row, under any overlap of calls          *)

\* A step that is no commit, publication or death leaves rows and signals, and
\* what every call has to publish.
LEMMA QuietStep ==
    ASSUME TypeOK, [Next]_vars,
           \A w \in Evaluators : ~Commit(w) /\ ~Publish(w) /\ ~Abort(w)
    PROVE  /\ deltas' = deltas /\ signals' = signals /\ aborts' = aborts
           /\ \A v \in Evaluators :
                 /\ pc'[v] = "publish" <=> pc[v] = "publish"
                 /\ pc[v] = "publish" => /\ current'[v] = current[v]
                                         /\ kept'[v] = kept[v]
                                         /\ previous'[v] = previous[v]
<1>1. ASSUME NEW w \in Evaluators, Step(w)
      PROVE  /\ deltas' = deltas /\ signals' = signals /\ aborts' = aborts
             /\ \A v \in Evaluators :
                   /\ pc'[v] = "publish" <=> pc[v] = "publish"
                   /\ pc[v] = "publish" => /\ current'[v] = current[v]
                                           /\ kept'[v] = kept[v]
                                           /\ previous'[v] = previous[v]
  <2>1. CASE Reject(w) \/ Respond(w)
    BY <2>1 DEF Reject, Respond, Finish, TypeOK, data, store
  <2>2. CASE \E s \in Segments : EvaluateSegment(w, s) \/ RefreshStaticSegment(w, s)
                                   \/ Visit(w, s) \/ NextInBatch(w, s)
    BY <2>2 DEF EvaluateSegment, RefreshStaticSegment, Visit, NextInBatch, NextDependent,
                Enter, TypeOK, data, store, diff
  <2>3. CASE EvaluateAll(w) \/ EvaluateRule(w) \/ Filter(w) \/ ReadPrevious(w)
             \/ Cascade(w) \/ Return(w) \/ EndCall(w) \/ \E d \in Segments : Skip(w, d)
    BY <2>3 DEF EvaluateAll, EvaluateRule, Filter, ReadPrevious, Cascade, Return, EndCall,
                Skip, NextDependent, TypeOK, data, store, walk, diff
  <2> QED
    BY <1>1, <2>1, <2>2, <2>3 DEF Step
<1>2. CASE \/ \E s \in Segments, now \in SUBSET Customers : ChangeData(s, now)
           \/ \E s \in Segments, now \in SUBSET Customers, on \in SUBSET Segments,
                 isStatic \in BOOLEAN : UpdateSegment(s, now, on, isStatic)
           \/ \E s \in Segments : DeleteSegment(s)
           \/ UNCHANGED vars
  BY <1>2 DEF ChangeData, UpdateSegment, DeleteSegment, vars, data, store, walk, diff
<1> QED
  BY <1>1, <1>2 DEF Next

\* Counting a change in a log with one more entry.
LEMMA CountAppend ==
    ASSUME NEW log \in Seq(Changes), NEW y \in Changes, NEW x
    PROVE  /\ Count(log, x) \in Nat
           /\ Count(Append(log, y), x) = Count(log, x) + (IF x = y THEN 1 ELSE 0)
<1> DEFINE At == {i \in DOMAIN log : log[i] = x}
           Grown1 == {i \in DOMAIN Append(log, y) : Append(log, y)[i] = x}
           n == Len(log)
<1>1. n \in Nat /\ DOMAIN log = 1 .. n /\ DOMAIN Append(log, y) = 1 .. n + 1
  OBVIOUS
<1>2. /\ \A i \in 1 .. n : Append(log, y)[i] = log[i]
      /\ Append(log, y)[n + 1] = y
  OBVIOUS
<1>3. IsFiniteSet(At) /\ Cardinality(At) \in Nat
  <2>1. IsFiniteSet(1 .. n)
    BY <1>1, FS_Interval
  <2>2. At \subseteq 1 .. n
    BY <1>1
  <2> QED
    BY <2>1, <2>2, FS_Subset, FS_CardinalityType
<1>4. n + 1 \notin At
  BY <1>1
<1>5. Grown1 = IF x = y THEN At \cup {n + 1} ELSE At
  BY <1>1, <1>2
<1>6. Cardinality(At \cup {n + 1}) = Cardinality(At) + 1
  BY <1>3, <1>4, FS_AddElement
<1> HIDE DEF At, Grown1, n
<1>7. Cardinality(Grown1) = Cardinality(At) + (IF x = y THEN 1 ELSE 0)
  BY <1>3, <1>5, <1>6
<1> QED
  BY <1>3, <1>7 DEF Count, At, Grown1

\* v records the change x for customer c.
Records(v, c, x) ==
    \/ x = "ADDED" /\ c \in Added(v)
    \/ x = "REMOVED" /\ c \in Removed(v)

\* An evaluation adds to a log the one change it records, if any.
LEMMA LoggedCount ==
    ASSUME TypeOK, NEW v \in Evaluators, NEW c, NEW log \in Seq(Changes), NEW x \in Changes
    PROVE  /\ Count(log, x) \in Nat
           /\ Count(Logged(v, c, log), x)
                = Count(log, x) + (IF Records(v, c, x) THEN 1 ELSE 0)
<1>1. "ADDED" \in Changes /\ "REMOVED" \in Changes
  BY DEF Changes
<1>2. Count(log, x) \in Nat
  BY <1>1, CountAppend
<1>3. CASE c \in Added(v)
  <2>1. Logged(v, c, log) = Append(log, "ADDED") /\ c \notin Removed(v)
    BY <1>3 DEF Logged, Added, Removed
  <2>2. Records(v, c, x) <=> x = "ADDED"
    BY <1>3, <2>1 DEF Records
  <2> QED
    BY <1>1, <2>1, <2>2, CountAppend
<1>4. CASE c \in Removed(v)
  <2>1. Logged(v, c, log) = Append(log, "REMOVED") /\ c \notin Added(v)
    BY <1>4 DEF Logged, Added, Removed
  <2>2. Records(v, c, x) <=> x = "REMOVED"
    BY <1>4, <2>1 DEF Records
  <2> QED
    BY <1>1, <2>1, <2>2, CountAppend
<1>5. CASE c \notin Added(v) /\ c \notin Removed(v)
  BY <1>2, <1>5 DEF Logged, Records
<1> QED
  BY <1>3, <1>4, <1>5

\* The calls that have committed a row with change x for c and not published it.
Owing(s, c, x) ==
    {v \in Evaluators : pc[v] = "publish" /\ current[v] = s /\ Records(v, c, x)}

\* The rows with change x for c that are neither published nor owed: the calls
\* that were to publish them have died.
Gap(s, c, x) ==
    Count(deltas[s][c], x) - Count(signals[s][c], x) - Cardinality(Owing(s, c, x))

Lossy == {s \in Segments : \E c \in Customers, x \in Changes : Gap(s, c, x) # 0}

\* No row is published twice, and each call that has died leaves at most one gap,
\* in one segment.
OwingInv ==
    /\ \A s \in Segments, c \in Customers, x \in Changes :
          IsFiniteSet(Owing(s, c, x)) /\ Gap(s, c, x) \in 0 .. aborts
    /\ IsFiniteSet(Lossy)
    /\ Cardinality(Lossy) =< aborts

\* A commit adds its call to those that owe the rows it adds.
LEMMA CommitOwes ==
    ASSUME TypeOK, RightType, NEW v \in Evaluators, Commit(v),
           NEW s \in Segments, NEW c \in Customers, NEW x \in Changes
    PROVE  /\ v \notin Owing(s, c, x)
           /\ Owing(s, c, x)' = IF s = current[v] /\ Records(v, c, x)
                                THEN Owing(s, c, x) \cup {v} ELSE Owing(s, c, x)
<1>1. pc[v] = "commit" /\ UNCHANGED <<current, kept, previous>>
  BY DEF Commit, walk
<1>2. \A w \in Evaluators \ {v} : pc'[w] = pc[w]
  BY DEF Commit, TypeOK
<1>3. pc'[v] = "publish" <=> Changed(v)
  BY DEF Commit, TypeOK
<1>4. Records(v, c, x) => Changed(v)
  BY DEF Records, Changed, Added, Removed
<1>5. \A w \in Evaluators : Records(w, c, x)' <=> Records(w, c, x)
  BY <1>1 DEF Records, Added, Removed
<1> QED
  BY <1>1, <1>2, <1>3, <1>4, <1>5 DEF Owing

\* A publication settles what its call owes.
LEMMA PublishPays ==
    ASSUME TypeOK, NEW v \in Evaluators, Publish(v),
           NEW s \in Segments, NEW c \in Customers, NEW x \in Changes
    PROVE  /\ v \in Owing(s, c, x) <=> s = current[v] /\ Records(v, c, x)
           /\ Owing(s, c, x)' = Owing(s, c, x) \ {v}
<1>1. pc[v] = "publish" /\ UNCHANGED <<current, kept, previous>>
  BY DEF Publish, walk, diff
<1>2. pc'[v] # "publish" /\ \A w \in Evaluators \ {v} : pc'[w] = pc[w]
  BY DEF Publish, TypeOK
<1>3. \A w \in Evaluators : Records(w, c, x)' <=> Records(w, c, x)
  BY <1>1 DEF Records, Added, Removed
<1> QED
  BY <1>1, <1>2, <1>3 DEF Owing

\* A call that dies owes nothing any more, and published nothing for it.
LEMMA AbortLoses ==
    ASSUME TypeOK, NEW v \in Evaluators, Abort(v),
           NEW s \in Segments, NEW c \in Customers, NEW x \in Changes
    PROVE  /\ v \in Owing(s, c, x) => s = current[v]
           /\ Owing(s, c, x)' = Owing(s, c, x) \ {v}
           /\ deltas' = deltas /\ signals' = signals /\ aborts' = aborts + 1
<1>1. pc'[v] # "publish" /\ \A w \in Evaluators \ {v} : pc'[w] = pc[w] /\ current'[w] = current[w]
  BY DEF Abort, Finish, TypeOK
<1>2. \A w \in Evaluators \ {v} : Records(w, c, x)' <=> Records(w, c, x)
  BY DEF Abort, Finish, Records, Added, Removed, TypeOK
<1>3. deltas' = deltas /\ signals' = signals /\ aborts' = aborts + 1
  BY DEF Abort, store
<1> QED
  BY <1>1, <1>2, <1>3 DEF Owing

\* Counts of typed logs are numbers.
LEMMA CountTypes ==
    ASSUME TypeOK, NEW s \in Segments, NEW c \in Customers, NEW x
    PROVE  Count(deltas[s][c], x) \in Nat /\ Count(signals[s][c], x) \in Nat
<1>1. deltas[s][c] \in Seq(Changes) /\ signals[s][c] \in Seq(Changes)
  BY DEF TypeOK
<1> QED
  BY <1>1, CountAppend DEF Changes

\* Every step but the death of a call leaves the gaps alone.
LEMMA GapKept ==
    ASSUME TypeOK, RightType, [Next]_vars, \A v \in Evaluators : ~Abort(v),
           NEW s \in Segments, NEW c \in Customers, NEW x \in Changes,
           IsFiniteSet(Owing(s, c, x))
    PROVE  IsFiniteSet(Owing(s, c, x)') /\ Gap(s, c, x)' = Gap(s, c, x)
<1> DEFINE owing == Owing(s, c, x)
           rows  == Count(deltas[s][c], x)
           sent  == Count(signals[s][c], x)
<1>1. deltas[s][c] \in Seq(Changes) /\ signals[s][c] \in Seq(Changes)
  BY DEF TypeOK
<1>2. rows \in Nat /\ sent \in Nat /\ Cardinality(owing) \in Nat
  BY CountTypes, FS_CardinalityType
<1>3. ASSUME NEW v \in Evaluators
      PROVE  /\ Count(Logged(v, c, deltas[s][c]), x) = rows + (IF Records(v, c, x) THEN 1 ELSE 0)
             /\ Count(Logged(v, c, signals[s][c]), x) = sent + (IF Records(v, c, x) THEN 1 ELSE 0)
  BY <1>1, LoggedCount
<1> SUFFICES /\ IsFiniteSet(Owing(s, c, x)')
             /\ Count(deltas'[s][c], x) - Count(signals'[s][c], x) - Cardinality(Owing(s, c, x)')
                  = rows - sent - Cardinality(owing)
  BY DEF Gap, Count
<1>4. ASSUME NEW v \in Evaluators, Commit(v)
      PROVE  /\ IsFiniteSet(Owing(s, c, x)')
             /\ Count(deltas'[s][c], x) - Count(signals'[s][c], x) - Cardinality(Owing(s, c, x)')
                  = rows - sent - Cardinality(owing)
  <2>1. signals' = signals
    BY <1>4 DEF Commit
  <2>2. deltas'[s][c] = IF s = current[v] THEN Logged(v, c, deltas[s][c]) ELSE deltas[s][c]
    BY <1>4 DEF Commit, TypeOK
  <2>3. /\ v \notin owing
        /\ Owing(s, c, x)' = IF s = current[v] /\ Records(v, c, x)
                              THEN owing \cup {v} ELSE owing
    BY <1>4, CommitOwes
  <2>4. IsFiniteSet(owing \cup {v}) /\ Cardinality(owing \cup {v}) = Cardinality(owing) + 1
    BY <2>3, FS_AddElement
  <2> HIDE DEF owing
  <2>5. CASE s = current[v] /\ Records(v, c, x)
    BY <1>2, <1>3, <2>1, <2>2, <2>3, <2>4, <2>5
  <2>6. CASE ~(s = current[v] /\ Records(v, c, x))
    BY <1>2, <1>3, <2>1, <2>2, <2>3, <2>6 DEF owing
  <2> QED
    BY <2>5, <2>6
<1>5. ASSUME NEW v \in Evaluators, Publish(v)
      PROVE  /\ IsFiniteSet(Owing(s, c, x)')
             /\ Count(deltas'[s][c], x) - Count(signals'[s][c], x) - Cardinality(Owing(s, c, x)')
                  = rows - sent - Cardinality(owing)
  <2>1. deltas' = deltas
    BY <1>5 DEF Publish
  <2>2. signals'[s][c]
          = IF s = current[v] THEN Logged(v, c, signals[s][c]) ELSE signals[s][c]
    BY <1>5 DEF Publish, TypeOK
  <2>3. /\ v \in owing <=> s = current[v] /\ Records(v, c, x)
        /\ Owing(s, c, x)' = owing \ {v}
    BY <1>5, PublishPays
  <2>4. /\ IsFiniteSet(owing \ {v})
        /\ Cardinality(owing \ {v}) = IF v \in owing THEN Cardinality(owing) - 1
                                                    ELSE Cardinality(owing)
    BY FS_RemoveElement
  <2> HIDE DEF owing
  <2>5. CASE s = current[v] /\ Records(v, c, x)
    BY <1>2, <1>3, <2>1, <2>2, <2>3, <2>4, <2>5
  <2>6. CASE ~(s = current[v] /\ Records(v, c, x))
    BY <1>2, <1>3, <2>1, <2>2, <2>3, <2>4, <2>6
  <2> QED
    BY <2>5, <2>6
<1>6. CASE \A w \in Evaluators : ~Commit(w) /\ ~Publish(w)
  <2>1. deltas' = deltas /\ signals' = signals
    BY <1>6, QuietStep
  <2>2. Owing(s, c, x)' = owing
    BY <1>6, QuietStep DEF Owing, Records, Added, Removed
  <2> QED
    BY <2>1, <2>2
<1> QED
  BY <1>4, <1>5, <1>6

\* The death of a call opens at most one gap, in the segment it was at.
LEMMA AbortStep ==
    ASSUME TypeOK, OwingInv, NEW v \in Evaluators, Abort(v) PROVE OwingInv'
<1>1. aborts \in Nat /\ aborts' = aborts + 1
  BY BoundsAssumption DEF Abort, TypeOK
<1>2. ASSUME NEW s \in Segments, NEW c \in Customers, NEW x \in Changes
      PROVE  /\ IsFiniteSet(Owing(s, c, x)')
             /\ Gap(s, c, x)' = Gap(s, c, x) + (IF v \in Owing(s, c, x) THEN 1 ELSE 0)
             /\ v \in Owing(s, c, x) => s = current[v]
  <2> DEFINE owing == Owing(s, c, x)
             rows  == Count(deltas[s][c], x)
             sent  == Count(signals[s][c], x)
  <2>1. IsFiniteSet(owing) /\ Cardinality(owing) \in Nat
    BY FS_CardinalityType DEF OwingInv
  <2>2. rows \in Nat /\ sent \in Nat
    BY CountTypes
  <2>3. /\ v \in owing => s = current[v]
        /\ Owing(s, c, x)' = owing \ {v}
        /\ deltas' = deltas /\ signals' = signals
    BY AbortLoses
  <2>4. /\ IsFiniteSet(owing \ {v})
        /\ Cardinality(owing \ {v}) = IF v \in owing THEN Cardinality(owing) - 1
                                                    ELSE Cardinality(owing)
    BY <2>1, FS_RemoveElement
  <2>5. Gap(s, c, x) = rows - sent - Cardinality(owing)
    BY DEF Gap
  <2>6. Gap(s, c, x)' = rows - sent - Cardinality(owing \ {v})
    BY <2>3 DEF Gap, Count
  <2> HIDE DEF owing, rows, sent
  <2>7. Gap(s, c, x)' = Gap(s, c, x) + (IF v \in owing THEN 1 ELSE 0)
    BY <2>1, <2>2, <2>4, <2>5, <2>6
  <2> QED
    BY <2>3, <2>4, <2>7 DEF owing
<1>3. \A s \in Segments, c \in Customers, x \in Changes :
          IsFiniteSet(Owing(s, c, x)') /\ Gap(s, c, x)' \in 0 .. aborts'
  BY <1>1, <1>2 DEF OwingInv
<1>4. Lossy' \subseteq Lossy \cup {current[v]}
  BY <1>2 DEF Lossy
<1>5. /\ IsFiniteSet(Lossy \cup {current[v]}) /\ Cardinality(Lossy) \in Nat
      /\ Cardinality(Lossy \cup {current[v]}) =< Cardinality(Lossy) + 1
      /\ Cardinality(Lossy \cup {current[v]}) \in Nat
  <2>1. IsFiniteSet(Lossy)
    BY DEF OwingInv
  <2>2. Cardinality(Lossy) \in Nat
    BY <2>1, FS_CardinalityType
  <2>3. /\ IsFiniteSet(Lossy \cup {current[v]})
        /\ Cardinality(Lossy \cup {current[v]})
             = IF current[v] \in Lossy THEN Cardinality(Lossy) ELSE Cardinality(Lossy) + 1
    BY <2>1, FS_AddElement
  <2> QED
    BY <2>2, <2>3
<1>6. IsFiniteSet(Lossy') /\ Cardinality(Lossy') =< Cardinality(Lossy \cup {current[v]})
                          /\ Cardinality(Lossy') \in Nat
  BY <1>4, <1>5, FS_Subset, FS_CardinalityType
<1>7. Cardinality(Lossy') =< aborts'
  BY <1>1, <1>5, <1>6 DEF OwingInv
<1> QED
  BY <1>3, <1>6, <1>7 DEF OwingInv

\* Every step keeps OwingInv.
LEMMA OwingStep == TypeOK /\ RightType /\ OwingInv /\ [Next]_vars => OwingInv'
<1> SUFFICES ASSUME TypeOK, RightType, OwingInv, [Next]_vars,
                    \A v \in Evaluators : ~Abort(v)
             PROVE  OwingInv'
  BY AbortStep
<1>1. ASSUME NEW s \in Segments, NEW c \in Customers, NEW x \in Changes
      PROVE  IsFiniteSet(Owing(s, c, x)') /\ Gap(s, c, x)' = Gap(s, c, x)
  BY GapKept DEF OwingInv
<1>2. Lossy' = Lossy
  BY <1>1 DEF Lossy
<1>3. aborts' = aborts
  <2>1. CASE \E w \in Evaluators : Commit(w) \/ Publish(w)
    BY <2>1 DEF Commit, Publish, data
  <2>2. CASE \A w \in Evaluators : ~Commit(w) /\ ~Publish(w)
    BY <2>2, QuietStep
  <2> QED
    BY <2>1, <2>2
<1> QED
  BY <1>1, <1>2, <1>3 DEF OwingInv

\* However many calls overlap, every delta row has been published exactly once as
\* soon as none is running, but for the one signal each call that died may have
\* swallowed.
THEOREM EveryDeltaIsPublished == Spec => []EveryDeltaPublished
<1>1. Init => OwingInv
  <2> SUFFICES ASSUME Init PROVE OwingInv
    OBVIOUS
  <2>1. ASSUME NEW s \in Segments, NEW c \in Customers, NEW x \in Changes
        PROVE  IsFiniteSet(Owing(s, c, x)) /\ Gap(s, c, x) = 0
    <3>1. Owing(s, c, x) = {}
      BY DEF Init, Owing
    <3>2. deltas[s][c] = <<>> /\ signals[s][c] = <<>> /\ <<>> \in Seq(Changes)
      BY DEF Init
    <3>3. Count(<<>>, x) \in Nat
      BY <3>2, CountAppend DEF Changes
    <3> QED
      BY <3>1, <3>2, <3>3, FS_EmptySet DEF Gap
  <2>2. Lossy = {}
    BY <2>1 DEF Lossy
  <2> QED
    BY <2>1, <2>2, FS_EmptySet DEF OwingInv, Init
<1>2. TypeOK /\ RightType /\ OwingInv /\ [Next]_vars => OwingInv'
  BY OwingStep
<1>3. TypeOK /\ OwingInv => EveryDeltaPublished
  <2> SUFFICES ASSUME TypeOK, OwingInv, AtRest PROVE EveryDeltaPublished
    BY DEF EveryDeltaPublished
  <2>1. ASSUME NEW s \in Segments, NEW c \in Customers, NEW x \in Changes
        PROVE  /\ Gap(s, c, x) = Count(deltas[s][c], x) - Count(signals[s][c], x)
               /\ Count(deltas[s][c], x) \in Nat /\ Count(signals[s][c], x) \in Nat
               /\ Gap(s, c, x) \in 0 .. aborts
    <3>1. Cardinality(Owing(s, c, x)) = 0
      <4>1. Owing(s, c, x) = {}
        BY DEF AtRest, Owing
      <4> QED
        BY <4>1, FS_EmptySet
    <3>2. Count(deltas[s][c], x) \in Nat /\ Count(signals[s][c], x) \in Nat
      BY CountTypes
    <3> QED
      BY <3>1, <3>2 DEF Gap, OwingInv
  <2>2. Unsignalled = Lossy
    BY <2>1 DEF Unsignalled, Lossy
  <2>3. aborts \in Nat
    BY BoundsAssumption DEF TypeOK
  <2> QED
    BY <2>1, <2>2, <2>3 DEF EveryDeltaPublished, OwingInv
<1> QED
  BY <1>1, <1>2, <1>3, TypedCalls, PTL DEF Spec

-----------------------------------------------------------------------------
(* The publication of the delta rows, for one call at a time               *)

\* The rows that evaluator v has committed and not yet published.
Unpublished(v) ==
    /\ current[v] \in Segments
    /\ deltas = [signals EXCEPT ![current[v]] = [c \in Customers |-> Logged(v, c, @[c])]]

\* Unless a call has died, only a call at its publication has rows to publish.
PublishInv ==
    aborts = 0 =>
        /\ \A v \in Evaluators : pc[v] = "publish" => Unpublished(v)
        /\ (\A v \in Evaluators : pc[v] # "publish") => signals = deltas

\* An evaluation that changes nothing adds no row.
LEMMA NothingLogged ==
    ASSUME TypeOK, NEW v \in Evaluators, ~Changed(v), NEW c, NEW log
    PROVE  Logged(v, c, log) = log
BY DEF Changed, Logged, Added, Removed

\* Every step keeps PublishInv.
LEMMA PublishStep ==
    ASSUME Serial, TypeOK, RightType, PublishInv, [Next]_vars, NEW v \in Evaluators
    PROVE  PublishInv'
<1>1. \A w \in Evaluators : w = v
  BY DEF Serial
<1>2. CASE Commit(v)
  <2>1. current[v] \in Segments
    BY <1>2 DEF Commit, RightType, LookedUp
  <2>2. aborts' = aborts /\ signals' = signals /\ UNCHANGED <<current, kept, previous>>
    BY <1>2 DEF Commit, data, walk
  <2>3. aborts = 0 => signals = deltas
    BY <1>1, <1>2 DEF Commit, PublishInv
  <2>4. CASE Changed(v)
    <3>1. pc'[v] = "publish"
      BY <1>2, <2>4 DEF Commit, TypeOK
    <3>2. aborts = 0 => Unpublished(v)'
      BY <1>2, <2>1, <2>2, <2>3 DEF Commit, Unpublished, Logged, Added, Removed
    <3> QED
      BY <1>1, <2>2, <3>1, <3>2 DEF PublishInv
  <2>5. CASE ~Changed(v)
    <3>1. pc'[v] # "publish"
      BY <1>2, <2>5 DEF Commit, TypeOK
    <3>2. deltas' = deltas
      <4>1. [c \in Customers |-> Logged(v, c, deltas[current[v]][c])] = deltas[current[v]]
        BY <2>1, <2>5, NothingLogged DEF TypeOK
      <4> QED
        BY <1>2, <4>1 DEF Commit, TypeOK
    <3> QED
      BY <1>1, <2>2, <2>3, <3>1, <3>2 DEF PublishInv
  <2> QED
    BY <2>4, <2>5
<1>3. CASE Publish(v)
  <2>1. aborts' = aborts /\ deltas' = deltas /\ pc'[v] # "publish"
    BY <1>3 DEF Publish, data, TypeOK
  <2>2. aborts = 0 => signals' = deltas
    BY <1>3 DEF Publish, PublishInv, Unpublished
  <2> QED
    BY <1>1, <2>1, <2>2 DEF PublishInv
<1>4. CASE Abort(v)
  <2>1. aborts' # 0
    BY <1>4, BoundsAssumption DEF Abort, TypeOK
  <2> QED
    BY <2>1 DEF PublishInv
<1>5. CASE ~Commit(v) /\ ~Publish(v) /\ ~Abort(v)
  <2>1. /\ UNCHANGED <<deltas, signals, aborts>>
        /\ pc'[v] = "publish" <=> pc[v] = "publish"
        /\ pc[v] = "publish" => /\ current'[v] = current[v]
                                /\ kept'[v] = kept[v]
                                /\ previous'[v] = previous[v]
    BY <1>1, <1>5, QuietStep
  <2>2. pc[v] = "publish" /\ Unpublished(v) => Unpublished(v)'
    BY <2>1 DEF Unpublished, Logged, Added, Removed
  <2> QED
    BY <1>1, <2>1, <2>2 DEF PublishInv
<1> QED
  BY <1>2, <1>3, <1>4, <1>5

\* When no two calls overlap and none dies, every delta row has been published,
\* in order, as soon as the system is at rest.
THEOREM DeltasArePublishedSerially ==
    ASSUME Serial, Evaluators # {} PROVE Spec => []DeltasPublished
<1>1. Init => PublishInv
  BY DEF Init, PublishInv
<1>2. TypeOK /\ RightType /\ PublishInv /\ [Next]_vars => PublishInv'
  BY PublishStep
<1>3. PublishInv => DeltasPublished
  BY DEF PublishInv, DeltasPublished, AtRest
<1> QED
  BY <1>1, <1>2, <1>3, TypedCalls, PTL DEF Spec
=============================================================================
