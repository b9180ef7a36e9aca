-------------------------- MODULE Segments_proofs --------------------------
(***************************************************************************)
(* Theorems about Segments, for every number of clients, requests, ids,    *)
(* names and documents, and about the extraction of dependencies from any  *)
(* document.                                                               *)
(***************************************************************************)
EXTENDS SegmentRules, TLAPS

-----------------------------------------------------------------------------
(* Types                                                                   *)

\* No key is a sequence of no words.
LEMMA NoKeyType == NoKey \in Keys
BY DEF NoKey, Keys

\* A candidate is a sequence of words.
LEMMA CandidateType ==
    ASSUME NEW base \in Keys, NEW n \in Nat \ {0}
    PROVE  CandidateKey(base, n) \in Keys
BY DEF CandidateKey, Keys

\* A request keeps the types.
LEMMA BeginType ==
    ASSUME TypeOK, NEW c \in Clients, NEW first \in PC, NEW s \in Ids \cup {0},
           NEW base \in Keys, NEW isGiven \in BOOLEAN, NEW d \in Documents,
           Begin(c, first, s, base, isGiven, d)
    PROVE  TypeOK'
<1>1. requests' \in 0 .. MaxRequests
  BY RequestsAssumption DEF TypeOK, Begin
<1> QED
  BY <1>1 DEF TypeOK, Begin, FirstSuffix, table, past

\* The end of a call keeps the types.
LEMMA FinishType ==
    ASSUME TypeOK, NEW c \in Clients, Finish(c)
    PROVE  TypeOK'
BY DocumentsAssumption, NoKeyType DEF TypeOK, Finish, table, PC

\* A step that only moves a call on keeps the types.
LEMMA GotoType ==
    ASSUME TypeOK, NEW c \in Clients, NEW next \in PC, Goto(c, next)
    PROVE  TypeOK'
BY DEF TypeOK, Goto, table, values, past

\* The initial state is well typed.
LEMMA InitType == Init => TypeOK
<1> SUFFICES ASSUME Init PROVE TypeOK
  OBVIOUS
<1>1. key \in [Ids -> Keys]
  BY KeysAssumption DEF Init, Keys
<1>2. requests \in 0 .. MaxRequests
  BY RequestsAssumption DEF Init
<1> QED
  BY <1>1, <1>2, DocumentsAssumption, NoKeyType DEF Init, TypeOK, PC

\* Every step of a call keeps the types.
LEMMA StepType ==
    ASSUME TypeOK, NEW c \in Clients, Request(c) \/ Statement(c) \/ Fail(c)
    PROVE  TypeOK'
<1>1. ASSUME NEW base \in Slugs, NEW d \in Documents, Create(c, base, d) PROVE TypeOK'
  <2>1. base \in Keys
    BY KeysAssumption DEF Keys
  <2>2. "key" \in PC /\ "dependencies" \in PC /\ TRUE \in BOOLEAN /\ 0 \in Ids \cup {0}
    BY DEF PC
  <2> QED
    BY <1>1, <2>1, <2>2, BeginType DEF Create
<1>2. ASSUME NEW s \in Ids, NEW isGiven \in BOOLEAN, NEW d \in Documents,
             Update(c, s, isGiven, d)
      PROVE  TypeOK'
  <2>1. "exists" \in PC /\ s \in Ids \cup {0}
    BY DEF PC
  <2> QED
    BY <1>2, <2>1, BeginType, NoKeyType DEF Update
<1>3. ASSUME NEW s \in Ids, Remove(c, s) PROVE TypeOK'
  <2>1. "removable" \in PC /\ s \in Ids \cup {0} /\ FALSE \in BOOLEAN
    BY DEF PC
  <2> QED
    BY <1>3, <2>1, BeginType, NoKeyType, DocumentsAssumption DEF Remove
<1>4. CASE EnsureSegmentExists(c)
  BY <1>4, GotoType DEF EnsureSegmentExists, PC
<1>5. CASE EnsureRemovable(c)
  BY <1>5, GotoType DEF EnsureRemovable, PC
<1>6. CASE EnsureDependenciesExist(c)
  BY <1>6, GotoType DEF EnsureDependenciesExist, PC
<1>7. CASE Reject(c) \/ Respond(c) \/ Fail(c)
  BY <1>7, FinishType DEF Reject, Respond, Fail
<1>8. CASE NextCandidate(c)
  BY <1>8 DEF NextCandidate, TypeOK, table, past
<1>9. CASE KeyFound(c) \/ KeyConflict(c)
  BY <1>9, GotoType DEF KeyFound, KeyConflict, PC
<1>10. ASSUME NEW s \in Ids, Insert(c, s) PROVE TypeOK'
  <2>1. CandidateKey(slug[c], suffix[c]) \in Keys
    BY CandidateType DEF TypeOK
  <2>2. key' \in [Ids -> Keys]
    BY <1>10, <2>1 DEF Insert, TypeOK
  <2>3. raced' \in [Clients -> BOOLEAN]
    BY <1>10, Zenon DEF Insert, TypeOK
  <2>4. DependencyIds[document[c]] \in SUBSET Ids
    BY DocumentsAssumption DEF TypeOK
  <2>5. /\ rules' \in [Ids -> Documents]
        /\ deps' \in [Ids -> SUBSET Ids]
        /\ pc' \in [Clients -> PC]
    BY <1>10, <2>4 DEF Insert, TypeOK, PC
  <2> QED
    BY <1>10, <2>2, <2>3, <2>5 DEF Insert, TypeOK, values
<1>11. CASE UpdateRow(c)
  <2>1. deps' \in [Ids -> SUBSET Ids]
    BY <1>11, DocumentsAssumption DEF UpdateRow, DependenciesAfter, TypeOK
  <2>2. rules' \in [Ids -> Documents] /\ pc' \in [Clients -> PC]
    BY <1>11 DEF UpdateRow, TypeOK, PC
  <2> QED
    BY <1>11, <2>1, <2>2 DEF UpdateRow, TypeOK, values, past
<1>12. CASE RemoveRow(c)
  <2>1. overtaken' \in [Clients -> SUBSET (Ids \cup {0})]
    BY <1>12 DEF RemoveRow, TypeOK
  <2>2. pc' \in [Clients -> PC]
    BY <1>12 DEF RemoveRow, TypeOK, PC
  <2>3. deletedAt' \in [Ids -> Nat]
    <3>1. \A s \in Ids : deletedAt[s] \in Nat /\ deletedAt[s] + 1 \in Nat
      BY DEF TypeOK
    <3> QED
      BY <1>12, <3>1 DEF RemoveRow, TypeOK
  <2> QED
    BY <1>12, <2>1, <2>2, <2>3 DEF RemoveRow, TypeOK, values
<1> QED
  BY <1>1, <1>2, <1>3, <1>4, <1>5, <1>6, <1>7, <1>8, <1>9, <1>10, <1>11, <1>12
     DEF Request, Statement

\* All variables keep their types.
THEOREM TypeCorrect == Spec => []TypeOK
<1>1. TypeOK /\ [Next]_vars => TypeOK'
  <2>1. ASSUME TypeOK, UNCHANGED vars PROVE TypeOK'
    BY <2>1 DEF TypeOK, vars, table, values, past
  <2> QED
    BY <2>1, StepType DEF Next
<1> QED
  BY <1>1, InitType, PTL DEF Spec
-----------------------------------------------------------------------------
(* Dependency rows                                                         *)

\* A step writes rules and dependency rows of a segment together.
LEMMA DependenciesStep ==
    ASSUME TypeOK, DependenciesOfRules, [Next]_vars
    PROVE  DependenciesOfRules'
<1>1. CASE UNCHANGED <<rules, deps>>
  BY <1>1 DEF DependenciesOfRules
<1>2. ASSUME NEW c \in Clients, NEW s \in Ids, Insert(c, s) PROVE DependenciesOfRules'
  BY <1>2 DEF Insert, DependenciesOfRules, TypeOK
<1>3. ASSUME NEW c \in Clients, UpdateRow(c) PROVE DependenciesOfRules'
  <2>1. CASE given[c]
    BY <1>3, <2>1 DEF UpdateRow, DependenciesAfter, DependenciesOfRules, TypeOK
  <2>2. CASE ~given[c]
    BY <1>3, <2>2 DEF UpdateRow, DependenciesAfter, DependenciesOfRules, TypeOK
  <2> QED
    BY <2>1, <2>2
<1>4. ASSUME NEW c \in Clients, Request(c) \/ Fail(c) PROVE UNCHANGED <<rules, deps>>
  BY <1>4 DEF Request, Create, Update, Remove, Begin, Fail, Finish, table
<1>5. ASSUME NEW c \in Clients, Statement(c),
             ~UpdateRow(c), \A s \in Ids : ~Insert(c, s)
      PROVE  UNCHANGED <<rules, deps>>
  BY <1>5 DEF Statement, EnsureSegmentExists, EnsureRemovable, EnsureDependenciesExist,
              Reject, NextCandidate, KeyFound, KeyConflict, RemoveRow, Respond, Goto,
              Finish, table
<1>6. UNCHANGED vars => UNCHANGED <<rules, deps>>
  BY DEF vars, table
<1> QED
  BY <1>1, <1>2, <1>3, <1>4, <1>5, <1>6 DEF Next

\* The dependency rows of every segment are those of its stored rules.
THEOREM DependenciesFollowRules == Spec => []DependenciesOfRules
<1>1. Init => DependenciesOfRules
  BY DocumentsAssumption DEF Init, DependenciesOfRules
<1> QED
  BY <1>1, DependenciesStep, TypeCorrect, PTL DEF Spec

-----------------------------------------------------------------------------
(* What a step does to the rows and to the calls                           *)

\* A call that begins, or ends.
Bounded(c) == Request(c) \/ Reject(c) \/ Respond(c) \/ Fail(c)

\* A call that goes on without writing.
Moved(c) ==
    \/ EnsureSegmentExists(c) \/ EnsureRemovable(c) \/ EnsureDependenciesExist(c)
    \/ KeyFound(c) \/ KeyConflict(c)

\* The kinds of steps.
LEMMA StepKinds ==
    ASSUME NEW c \in Clients, Request(c) \/ Statement(c) \/ Fail(c)
    PROVE  \/ Bounded(c)
           \/ Moved(c)
           \/ NextCandidate(c)
           \/ \E s \in Ids : Insert(c, s)
           \/ UpdateRow(c)
           \/ RemoveRow(c)
BY DEF Statement, Bounded, Moved

\* No row changes, and no variable of another call.
OthersStay(c) ==
    /\ UNCHANGED table
    /\ \A b \in Clients \ {c} :
          /\ pc'[b] = pc[b]
          /\ segment'[b] = segment[b]
          /\ slug'[b] = slug[b]
          /\ suffix'[b] = suffix[b]
          /\ document'[b] = document[b]
          /\ overtaken'[b] = overtaken[b]
          /\ raced'[b] = raced[b]

\* Idle, or before its checks, or a creation that has nothing to check.
Unchecked(c) ==
    \/ pc[c] \in {"idle", "exists", "removable"}
    \/ pc[c] = "dependencies" /\ segment[c] = 0
    \/ pc[c] = "key" /\ DependencyIds[document[c]] = {}

\* A call that begins or ends touches no row and no other call.
LEMMA BoundedStep ==
    ASSUME TypeOK, NEW c \in Clients, Bounded(c)
    PROVE  OthersStay(c) /\ Unchecked(c)'
<1>1. CASE Reject(c) \/ Respond(c) \/ Fail(c)
  BY <1>1 DEF Reject, Respond, Fail, Finish, TypeOK, OthersStay, Unchecked
<1>2. ASSUME NEW first, NEW s, NEW base, NEW isGiven, NEW d,
             Begin(c, first, s, base, isGiven, d)
      PROVE  /\ OthersStay(c)
             /\ pc'[c] = first /\ segment'[c] = s /\ document'[c] = d
  BY <1>2 DEF Begin, TypeOK, past, OthersStay
<1>3. ASSUME NEW base \in Slugs, NEW d \in Documents, Create(c, base, d)
      PROVE  OthersStay(c) /\ Unchecked(c)'
  BY <1>2, <1>3 DEF Create, Unchecked
<1>4. ASSUME NEW s \in Ids, NEW isGiven \in BOOLEAN, NEW d \in Documents,
             Update(c, s, isGiven, d)
      PROVE  OthersStay(c) /\ Unchecked(c)'
  BY <1>2, <1>4 DEF Update, Unchecked
<1>5. ASSUME NEW s \in Ids, Remove(c, s)
      PROVE  OthersStay(c) /\ Unchecked(c)'
  BY <1>2, <1>5 DEF Remove, Unchecked
<1> QED
  BY <1>1, <1>3, <1>4, <1>5 DEF Bounded, Request

\* A call that goes on touches no row, no other call, and nothing of its own
\* but the statement it is at.
LEMMA MovedStep ==
    ASSUME TypeOK, NEW c \in Clients, Moved(c)
    PROVE  /\ OthersStay(c)
           /\ UNCHANGED <<values, past>>
BY DEF Moved, EnsureSegmentExists, EnsureRemovable, EnsureDependenciesExist, KeyFound,
       KeyConflict, Goto, TypeOK, OthersStay, values, past

-----------------------------------------------------------------------------
(* The unique key                                                          *)

\* No row has the candidate of the call.
Unused(c) == \A r \in Rows : key[r] # CandidateKey(slug[c], suffix[c])

\* A call about to insert has a free candidate, unless another insert came.
\* (What the call has found free stays free as long as nothing is inserted.)
RaceInv ==
    \A c \in Clients :
        /\ pc[c] = "insert" => raced[c] \/ Unused(c)
        /\ pc[c] = "conflict" => raced[c]

\* Every step keeps RaceInv.
LEMMA RaceStep ==
    ASSUME TypeOK, RaceInv, [Next]_vars
    PROVE  RaceInv'
<1>1. CASE UNCHANGED vars
  BY <1>1 DEF RaceInv, Unused, Rows, vars, table, values, past
<1>2. ASSUME NEW c \in Clients, Request(c) \/ Statement(c) \/ Fail(c)
      PROVE  RaceInv'
  <2>1. CASE Bounded(c)
    <3>1. OthersStay(c) /\ Unchecked(c)'
      BY <2>1, BoundedStep
    <3>2. ASSUME NEW b \in Clients \ {c}
          PROVE  Unused(b)' <=> Unused(b)
      BY <3>1 DEF OthersStay, Unused, Rows, table
    <3> QED
      BY <3>1, <3>2 DEF RaceInv, OthersStay, Unchecked
  <2>2. CASE Moved(c)
    <3>1. OthersStay(c) /\ UNCHANGED <<values, past>>
      BY <2>2, MovedStep
    <3>2. ASSUME NEW b \in Clients PROVE Unused(b)' <=> Unused(b)
      BY <3>1 DEF OthersStay, Unused, Rows, table, values
    <3>3. pc'[c] = "insert" => Unused(c)
      BY <2>2 DEF Moved, EnsureSegmentExists, EnsureRemovable, EnsureDependenciesExist,
                  KeyFound, KeyConflict, Goto, Taken, Unused, TypeOK
    <3>4. pc'[c] = "conflict" => pc[c] = "insert" /\ ~Unused(c)
      BY <2>2 DEF Moved, EnsureSegmentExists, EnsureRemovable, EnsureDependenciesExist,
                  KeyFound, KeyConflict, Goto, Unused, TypeOK
    <3> QED
      BY <3>1, <3>2, <3>3, <3>4 DEF RaceInv, OthersStay, past
  <2>3. CASE NextCandidate(c)
    <3>1. ASSUME NEW b \in Clients, pc[b] = "insert" PROVE Unused(b)' <=> Unused(b)
      BY <2>3, <3>1 DEF NextCandidate, Unused, Rows, TypeOK, table
    <3> QED
      BY <2>3, <3>1 DEF NextCandidate, RaceInv, past
  <2>4. ASSUME NEW s \in Ids, Insert(c, s) PROVE RaceInv'
    BY <2>4 DEF Insert, RaceInv, TypeOK
  <2>5. CASE UpdateRow(c)
    <3>1. ASSUME NEW b \in Clients PROVE Unused(b)' <=> Unused(b)
      BY <2>5 DEF UpdateRow, Unused, Rows, values
    <3> QED
      BY <2>5, <3>1 DEF UpdateRow, RaceInv, TypeOK, past
  <2>6. CASE RemoveRow(c)
    <3>1. ASSUME NEW b \in Clients PROVE Unused(b)' <=> Unused(b)
      BY <2>6 DEF RemoveRow, Unused, Rows, values
    <3> QED
      BY <2>6, <3>1 DEF RemoveRow, RaceInv, TypeOK
  <2> QED
    BY <1>2, <2>1, <2>2, <2>3, <2>4, <2>5, <2>6, StepKinds
<1> QED
  BY <1>1, <1>2 DEF Next

\* A creation that the unique index refuses has been overtaken by another one.
THEOREM ConflictsNeedARace == Spec => []ConflictsAreRaces
<1>1. Init => RaceInv
  BY DEF Init, RaceInv
<1>2. RaceInv => ConflictsAreRaces
  BY DEF RaceInv, ConflictsAreRaces
<1> QED
  BY <1>1, <1>2, RaceStep, TypeCorrect, PTL DEF Spec

-----------------------------------------------------------------------------
(* Checks that are out of date                                             *)

\* Live, or removed under the call.
Held(c, s) == s \in Rows /\ (s \in Live \/ s \in overtaken[c])

\* Whether the call has found its segment, and its dependencies.
SegmentChecked(c) ==
    \/ pc[c] \in {"update", "remove"}
    \/ pc[c] = "dependencies" /\ segment[c] # 0

ReferencesChecked(c) == pc[c] \in {"key", "insert", "update"}

\* What a check has found is still so, or was removed since.
CheckInv ==
    /\ \A s \in Ids : deletedAt[s] > 0 => s \in Rows
    /\ \A c \in Clients :
          /\ SegmentChecked(c) => Held(c, segment[c])
          /\ ReferencesChecked(c) => \A d \in DependencyIds[document[c]] : Held(c, d)

\* Rows do not go, and what was held stays held: a removal reaches overtaken.
LEMMA HeldStays ==
    ASSUME TypeOK, NEW b \in Clients, NEW s, Held(b, s), pc[b] # "idle",
           \A r \in Rows : key'[r] = key[r],
           \A r \in Rows : deletedAt'[r] = deletedAt[r] \/ r \in overtaken'[b],
           overtaken[b] \subseteq overtaken'[b]
    PROVE  Held(b, s)'
BY DEF Held, Rows, Live, TypeOK

\* Every step keeps CheckInv.
LEMMA CheckStep ==
    ASSUME TypeOK, CheckInv, [Next]_vars
    PROVE  CheckInv'
<1>1. CASE UNCHANGED vars
  BY <1>1 DEF CheckInv, SegmentChecked, ReferencesChecked, Held, Rows, Live,
              vars, table, values, past
<1>2. ASSUME NEW c \in Clients, Request(c) \/ Statement(c) \/ Fail(c)
      PROVE  CheckInv'
  <2>1. CASE Bounded(c)
    <3>1. OthersStay(c) /\ Unchecked(c)'
      BY <2>1, BoundedStep
    <3>2. ASSUME NEW b \in Clients \ {c}, NEW s PROVE Held(b, s)' <=> Held(b, s)
      BY <3>1 DEF OthersStay, Held, Rows, Live, table
    <3>3. ~SegmentChecked(c)' /\ (ReferencesChecked(c)' => DependencyIds[document'[c]] = {})
      BY <3>1 DEF Unchecked, SegmentChecked, ReferencesChecked
    <3>4. \A s \in Ids : deletedAt'[s] > 0 => s \in Rows'
      BY <3>1 DEF OthersStay, CheckInv, Rows, table
    <3>5. ASSUME NEW b \in Clients \ {c}
          PROVE  /\ SegmentChecked(b)' => Held(b, segment[b])' /\ segment'[b] = segment[b]
                 /\ ReferencesChecked(b)' => \A d \in DependencyIds[document'[b]] : Held(b, d)'
      BY <3>1, <3>2 DEF OthersStay, CheckInv, SegmentChecked, ReferencesChecked
    <3> QED
      BY <3>3, <3>4, <3>5 DEF CheckInv
  <2>2. CASE Moved(c)
    <3>1. OthersStay(c) /\ UNCHANGED <<values, past>>
      BY <2>2, MovedStep
    <3>2. ASSUME NEW b \in Clients, NEW s PROVE Held(b, s)' <=> Held(b, s)
      BY <3>1 DEF OthersStay, Held, Rows, Live, table, past
    <3>3. SegmentChecked(c)' => SegmentChecked(c) \/ segment[c] \in Live
      BY <2>2 DEF Moved, EnsureSegmentExists, EnsureRemovable, EnsureDependenciesExist,
                  KeyFound, KeyConflict, Goto, SegmentChecked, Exists, TypeOK, values
    <3>4. ReferencesChecked(c)' =>
             ReferencesChecked(c) \/ \A d \in DependencyIds[document[c]] : d \in Live
      BY <2>2 DEF Moved, EnsureSegmentExists, EnsureRemovable, EnsureDependenciesExist,
                  KeyFound, KeyConflict, Goto, ReferencesChecked, Exists, TypeOK
    <3>5. \A s \in Live : Held(c, s)
      BY DEF Held, Live
    <3>6. ASSUME NEW b \in Clients \ {c}
          PROVE  /\ SegmentChecked(b)' <=> SegmentChecked(b)
                 /\ ReferencesChecked(b)' <=> ReferencesChecked(b)
      BY <3>1 DEF OthersStay, SegmentChecked, ReferencesChecked
    <3>7. segment' = segment /\ document' = document /\ UNCHANGED table
      BY <3>1 DEF OthersStay, values
    <3>8. \A s \in Ids : deletedAt'[s] > 0 => s \in Rows'
      BY <3>7 DEF CheckInv, Rows, table
    <3> QED
      BY <3>2, <3>3, <3>4, <3>5, <3>6, <3>7, <3>8 DEF CheckInv
  <2>3. CASE NextCandidate(c)
    <3>1. ASSUME NEW b \in Clients, NEW s PROVE Held(b, s)' <=> Held(b, s)
      BY <2>3 DEF NextCandidate, Held, Rows, Live, table, past
    <3> QED
      BY <2>3, <3>1 DEF NextCandidate, CheckInv, SegmentChecked, ReferencesChecked, Rows,
                        table
  <2>4. ASSUME NEW s \in Ids, Insert(c, s) PROVE CheckInv'
    <3>1. \A r \in Rows : key'[r] = key[r]
      BY <2>4 DEF Insert, Rows, TypeOK
    <3>2. ASSUME NEW b \in Clients, NEW d, pc[b] # "idle", Held(b, d) PROVE Held(b, d)'
      BY <2>4, <3>1, <3>2, HeldStays DEF Insert
    <3>3. \A r \in Ids : deletedAt'[r] > 0 => r \in Rows'
      BY <2>4, <3>1 DEF Insert, CheckInv, Rows
    <3> QED
      BY <2>4, <3>2, <3>3 DEF Insert, CheckInv, SegmentChecked, ReferencesChecked, TypeOK,
                              values
  <2>5. CASE UpdateRow(c)
    <3>1. ASSUME NEW b \in Clients, NEW s PROVE Held(b, s)' <=> Held(b, s)
      BY <2>5 DEF UpdateRow, Held, Rows, Live, past
    <3> QED
      BY <2>5, <3>1 DEF UpdateRow, CheckInv, SegmentChecked, ReferencesChecked, Rows,
                        TypeOK, values
  <2>6. CASE RemoveRow(c)
    <3>1. Held(c, segment[c])
      <4>1. SegmentChecked(c)
        <5>1. pc[c] = "remove"
          BY <2>6 DEF RemoveRow
        <5> QED
          BY <5>1 DEF SegmentChecked
      <4> QED
        BY <4>1 DEF CheckInv
    <3>2. ASSUME NEW b \in Clients, NEW d, pc[b] # "idle", Held(b, d) PROVE Held(b, d)'
      <4>1. \A r \in Rows : key'[r] = key[r]
        BY <2>6 DEF RemoveRow
      <4>2. overtaken'[b] = overtaken[b] \cup {segment[c]}
        BY <2>6, <3>2 DEF RemoveRow
      <4>3. \A r \in Rows : deletedAt'[r] = deletedAt[r] \/ r = segment[c]
        BY <2>6 DEF RemoveRow, TypeOK, Rows
      <4> QED
        BY <3>2, <4>1, <4>2, <4>3, HeldStays
    <3>3. \A r \in Ids : deletedAt'[r] > 0 => r \in Rows'
      <4>1. \A r \in Ids : deletedAt'[r] = deletedAt[r] \/ r = segment[c]
        BY <2>6 DEF RemoveRow, TypeOK
      <4>2. Rows' = Rows /\ segment[c] \in Rows
        BY <2>6, <3>1 DEF RemoveRow, Rows, Held
      <4> QED
        BY <4>1, <4>2 DEF CheckInv
    <3> QED
      BY <2>6, <3>2, <3>3 DEF RemoveRow, CheckInv, SegmentChecked, ReferencesChecked, TypeOK,
                              values
  <2> QED
    BY <1>2, <2>1, <2>2, <2>3, <2>4, <2>5, <2>6, StepKinds
<1> QED
  BY <1>1, <1>2 DEF Next

\* CheckInv holds in every state.
LEMMA ChecksHold == Spec => [](TypeOK /\ CheckInv)
<1>1. Init => CheckInv
  BY IdsAssumption DEF Init, CheckInv, SegmentChecked, ReferencesChecked
<1> QED
  BY <1>1, CheckStep, TypeCorrect, PTL DEF Spec

\* A removed segment is written only by a call that had found it before.
THEOREM RemovedSegmentsRest == Spec => RemovedRowsRest
<1> DEFINE Rest == \A s \in Ids : deletedAt[s] > 0 =>
              \/ <<key'[s], deletedAt'[s], rules'[s], deps'[s]>>
                    = <<key[s], deletedAt[s], rules[s], deps[s]>>
              \/ \E c \in Clients : segment[c] = s /\ s \in overtaken[c]
<1>1. ASSUME TypeOK, CheckInv, [Next]_vars PROVE Rest
  <2>1. CASE UNCHANGED table
    BY <2>1 DEF table
  <2>2. ASSUME NEW c \in Clients, NEW s \in Ids, Insert(c, s) PROVE Rest
    BY <1>1, <2>2 DEF Insert, CheckInv, TypeOK
  <2>3. ASSUME NEW c \in Clients, UpdateRow(c) \/ RemoveRow(c) PROVE Rest
    <3>1. SegmentChecked(c)
      <4>1. pc[c] = "remove" \/ pc[c] = "update"
        BY <2>3 DEF UpdateRow, RemoveRow
      <4> QED
        BY <4>1 DEF SegmentChecked
    <3>2. Held(c, segment[c])
      BY <1>1, <3>1 DEF CheckInv
    <3>3. ASSUME NEW s \in Ids, s # segment[c]
          PROVE  <<key'[s], deletedAt'[s], rules'[s], deps'[s]>>
                   = <<key[s], deletedAt[s], rules[s], deps[s]>>
      BY <1>1, <2>3, <3>3 DEF UpdateRow, RemoveRow, TypeOK
    <3>4. deletedAt[segment[c]] > 0 => segment[c] \in overtaken[c]
      BY <3>2 DEF Held, Live
    <3> QED
      BY <3>3, <3>4
  <2>4. ASSUME NEW c \in Clients, Bounded(c) \/ Moved(c) \/ NextCandidate(c)
        PROVE  UNCHANGED table
    BY <1>1, <2>4, BoundedStep, MovedStep DEF OthersStay, NextCandidate
  <2>5. UNCHANGED vars => UNCHANGED table
    BY DEF vars
  <2> QED
    BY <1>1, <2>1, <2>2, <2>3, <2>4, <2>5, StepKinds DEF Next
<1>2. TypeOK /\ CheckInv /\ [Next]_vars => [Rest]_vars
  BY <1>1
<1> QED
  BY <1>2, ChecksHold, PTL DEF Spec, RemovedRowsRest

\* A new dependency was live when it was checked.
THEOREM DependenciesAreChecked == Spec => DependenciesChecked
<1> DEFINE Was == \A s \in Ids : \A d \in deps'[s] \ deps[s] :
              /\ d \in Rows
              /\ d \in Live \/ \E c \in Clients : pc'[c] # pc[c] /\ d \in overtaken[c]
<1>1. ASSUME TypeOK, CheckInv, [Next]_vars PROVE Was
  <2>1. CASE UNCHANGED deps
    BY <2>1
  <2>2. ASSUME NEW c \in Clients, NEW s \in Ids, Insert(c, s) PROVE Was
    BY <1>1, <2>2 DEF Insert, CheckInv, ReferencesChecked, Held, TypeOK
  <2>3. ASSUME NEW c \in Clients, UpdateRow(c) PROVE Was
    <3>1. ASSUME NEW s \in Ids, NEW d \in deps'[s] \ deps[s]
          PROVE  d \in DependencyIds[document[c]]
      BY <1>1, <2>3, <3>1 DEF UpdateRow, DependenciesAfter, TypeOK
    <3>2. pc[c] = "update" /\ pc'[c] = "done"
      BY <1>1, <2>3 DEF UpdateRow, TypeOK
    <3> QED
      BY <1>1, <3>1, <3>2 DEF CheckInv, ReferencesChecked, Held
  <2>4. ASSUME NEW c \in Clients,
               Bounded(c) \/ Moved(c) \/ NextCandidate(c) \/ RemoveRow(c)
        PROVE  UNCHANGED deps
    BY <1>1, <2>4, BoundedStep, MovedStep DEF OthersStay, NextCandidate, RemoveRow, table
  <2>5. UNCHANGED vars => UNCHANGED deps
    BY DEF vars, table
  <2> QED
    BY <1>1, <2>1, <2>2, <2>3, <2>4, <2>5, StepKinds DEF Next
<1>2. TypeOK /\ CheckInv /\ [Next]_vars => [Was]_vars
  BY <1>1
<1> QED
  BY <1>2, ChecksHold, PTL DEF Spec, DependenciesChecked

-----------------------------------------------------------------------------
(* What the traversal of a rule document finds                             *)

\* A document contains itself, and with a value all that is in it; its sets that
\* are closed in this way contain it all.
LEMMA InsideIsLeast ==
    ASSUME NEW root \in JsonValues
    PROVE  /\ Inside(root) \subseteq JsonValues
           /\ root \in Inside(root)
           /\ \A node \in Inside(root) : Children(node) \subseteq Inside(root)
           /\ \A S \in SUBSET JsonValues :
                 root \in S /\ (\A node \in S : Children(node) \subseteq S)
                    => Inside(root) \subseteq S
BY JsonAssumption DEF Inside

\* A document is itself and what its children contain.
LEMMA InsideUnfolds ==
    ASSUME NEW root \in JsonValues
    PROVE  Inside(root) = {root} \cup UNION {Inside(child) : child \in Children(root)}
<1> DEFINE all == {root} \cup UNION {Inside(child) : child \in Children(root)}
<1>1. \A child \in Children(root) : child \in JsonValues
  BY JsonAssumption
<1>2. all \subseteq Inside(root)
  <2>1. ASSUME NEW child \in Children(root) PROVE Inside(child) \subseteq Inside(root)
    BY <1>1, InsideIsLeast
  <2> QED
    BY <2>1, InsideIsLeast
<1>3. Inside(root) \subseteq all
  <2>1. all \in SUBSET JsonValues /\ root \in all
    BY <1>2, InsideIsLeast
  <2>2. ASSUME NEW node \in all PROVE Children(node) \subseteq all
    <3>1. CASE node = root
      BY <3>1, <1>1, InsideIsLeast
    <3>2. ASSUME NEW child \in Children(root), node \in Inside(child)
          PROVE  Children(node) \subseteq all
      BY <3>2, <1>1, InsideIsLeast
    <3> QED
      BY <2>2, <3>1, <3>2
  <2> HIDE DEF all
  <2> QED
    BY <2>1, <2>2, InsideIsLeast
<1> QED
  BY <1>2, <1>3

\* A document mentions what it names itself and what its children mention.
LEMMA MentionedUnfolds ==
    ASSUME NEW root \in JsonValues
    PROVE  Mentioned(root) =
              NamedBy(root) \cup UNION {Mentioned(child) : child \in Children(root)}
BY InsideUnfolds DEF Mentioned

\* A string mentions nothing, nor does a list of strings.
LEMMA StringsMentionNothing ==
    ASSUME NEW node \in JsonValues, node.kind = "string" \/ StringList(node)
    PROVE  Mentioned(node) = {}
<1>1. ASSUME NEW n \in JsonValues, n.kind = "string" PROVE Mentioned(n) = {}
  <2>1. Children(n) = {} /\ NamedBy(n) = {}
    BY <1>1 DEF Children, NamedBy
  <2> QED
    BY <2>1, MentionedUnfolds
<1>2. ASSUME StringList(node) PROVE Mentioned(node) = {}
  <2>1. Children(node) = Items(node) /\ NamedBy(node) = {}
    BY <1>2 DEF StringList, Children, NamedBy
  <2>2. \A child \in Children(node) : child \in JsonValues /\ child.kind = "string"
    BY <2>1, <1>2, JsonAssumption DEF StringList
  <2>3. \A child \in Children(node) : Mentioned(child) = {}
    BY <2>2, <1>1
  <2> QED
    BY <2>1, <2>3, MentionedUnfolds
<1> QED
  BY <1>1, <1>2

\* One call of the traversal, if the calls it makes return what the values they
\* are given mention, returns what its own value mentions.
LEMMA FromNodeMentioned ==
    ASSUME NEW node \in JsonValues, NEW traverse,
           \A child \in Children(node) : traverse[child] = Mentioned(child)
    PROVE  FromNode(node, traverse) = Mentioned(node)
<1>1. CASE node.kind = "array"
  <2>1. Children(node) = Items(node) /\ NamedBy(node) = {}
    BY <1>1 DEF Children, NamedBy
  <2> QED
    BY <1>1, <2>1, MentionedUnfolds DEF FromNode
<1>2. CASE node.kind = "object"
  <2> DEFINE names == DOMAIN node.fields
             named(name) ==
                IF name = "segmentId" THEN Texts({node.fields[name]})
                ELSE IF name = "segmentIds" /\ StringList(node.fields[name])
                THEN Texts(Items(node.fields[name])) ELSE {}
  <2>1. Children(node) = {node.fields[name] : name \in names}
    BY <1>2 DEF Children
  <2>2. \A name \in names : /\ node.fields[name] \in JsonValues
                           /\ traverse[node.fields[name]] = Mentioned(node.fields[name])
    BY <2>1, JsonAssumption
  <2>3. NamedBy(node) = UNION {named(name) : name \in names}
    BY <1>2 DEF NamedBy, Texts
  <2>4. ASSUME NEW name \in names
        PROVE  FromEntry(name, node.fields[name], traverse)
                  = named(name) \cup Mentioned(node.fields[name])
    <3>1. CASE name = "segmentId" /\ node.fields[name].kind = "string"
      BY <3>1, <2>2, StringsMentionNothing DEF FromEntry, Texts
    <3>2. CASE name = "segmentIds" /\ StringList(node.fields[name])
      BY <3>2, <2>2, StringsMentionNothing DEF FromEntry
    <3>3. CASE /\ ~(name = "segmentId" /\ node.fields[name].kind = "string")
               /\ ~(name = "segmentIds" /\ StringList(node.fields[name]))
      <4>1. named(name) = {}
        BY <3>3 DEF Texts
      <4> QED
        BY <3>3, <2>2, <4>1 DEF FromEntry
    <3> QED
      BY <3>1, <3>2, <3>3
  <2>5. FromNode(node, traverse)
          = UNION {FromEntry(name, node.fields[name], traverse) : name \in names}
    BY <1>2 DEF FromNode, FromObject
  <2>6. Mentioned(node)
          = NamedBy(node) \cup UNION {Mentioned(node.fields[name]) : name \in names}
    BY <2>1, MentionedUnfolds
  <2> HIDE DEF named, names
  <2>7. UNION {FromEntry(name, node.fields[name], traverse) : name \in names}
          = UNION {named(name) \cup Mentioned(node.fields[name]) : name \in names}
    BY <2>4
  <2> QED
    BY <2>3, <2>5, <2>6, <2>7
<1>3. CASE node.kind \notin {"array", "object"}
  <2>1. Children(node) = {} /\ NamedBy(node) = {}
    BY <1>3 DEF Children, NamedBy
  <2> QED
    BY <1>3, <2>1, MentionedUnfolds DEF FromNode
<1> QED
  BY <1>1, <1>2, <1>3

\* The traversal is a function that satisfies its own definition: there is one.
LEMMA TraverseDefined == Traverse = [node \in JsonValues |-> FromNode(node, Traverse)]
<1> DEFINE found == [node \in JsonValues |-> Mentioned(node)]
<1>1. found = [node \in JsonValues |-> FromNode(node, found)]
  <2>1. ASSUME NEW node \in JsonValues PROVE FromNode(node, found) = Mentioned(node)
    <3>1. \A child \in Children(node) : found[child] = Mentioned(child)
      BY JsonAssumption
    <3> HIDE DEF found
    <3> QED
      BY <3>1, FromNodeMentioned
  <2> QED
    BY <2>1
<1> HIDE DEF found
<1> QED
  BY <1>1 DEF Traverse

\* The extraction finds exactly the ids that a document mentions, whatever the
\* document and however deep: of the documents for which it does not, one would
\* have only children for which it does.
THEOREM ExtractionIsExact ==
    \A root \in JsonValues : ExtractDependencySegmentIds(root) = Mentioned(root)
<1> DEFINE wrong == {node \in JsonValues : Traverse[node] # Mentioned(node)}
<1>1. CASE wrong # {}
  <2>1. PICK node \in wrong : Children(node) \cap wrong = {}
    BY <1>1, JsonAssumption
  <2>2. \A child \in Children(node) : Traverse[child] = Mentioned(child)
    BY <2>1, JsonAssumption
  <2>3. FromNode(node, Traverse) = Mentioned(node)
    BY <2>2, FromNodeMentioned
  <2>4. Traverse[node] = FromNode(node, Traverse)
    BY TraverseDefined
  <2> QED
    BY <2>3, <2>4
<1> QED
  BY <1>1 DEF ExtractDependencySegmentIds

\* Whatever calls overlap, the dependency rows of every segment are exactly the
\* ids that its stored document mentions.
THEOREM DependenciesAreMentioned == Spec => []DependenciesMentioned
<1>1. TypeOK /\ DependenciesOfRules => DependenciesMentioned
  <2> SUFFICES ASSUME TypeOK, DependenciesOfRules, NEW s \in Ids
               PROVE  <<rules[s], deps[s]>> \in Readings
    BY DEF DependenciesMentioned
  <2>1. rules[s] \in Documents /\ deps[s] = DependencyIds[rules[s]]
    BY DEF TypeOK, DependenciesOfRules
  <2>2. rules[s] \in JsonValues /\ deps[s] = ExtractDependencySegmentIds(rules[s])
    BY <2>1, RulesAssumption
  <2> QED
    BY <2>1, <2>2, ExtractionIsExact DEF Readings
<1> QED
  BY <1>1, TypeCorrect, DependenciesFollowRules, PTL
=============================================================================
