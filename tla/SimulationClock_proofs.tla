----------------------- MODULE SimulationClock_proofs -----------------------
(***************************************************************************)
(* Proofs about the simulation clock: types, what overlapping advances     *)
(* cannot break, and that the clock moves forward when none overlap.       *)
(***************************************************************************)
EXTENDS SimulationClock, TLAPS

\* What a call holds is natural.
LEMMA NaturalData ==
    ASSUME TypeOK, NEW c \in Calls
    PROVE  base[c] \in Nat /\ seconds[c] \in Nat
<1>1. base \in [Calls -> Nat] /\ seconds \in [Calls -> Seconds \cup {0}]
  BY Zenon DEF TypeOK
<1>2. base[c] \in Nat /\ seconds[c] \in Seconds \cup {0}
  BY <1>1
<1>3. Seconds \cup {0} \subseteq Nat
  BY SecondsAssumption
<1> QED
  BY <1>2, <1>3

\* Every step keeps the types.
LEMMA TypeStep == TypeOK /\ [Next]_vars => TypeOK'
<1> SUFFICES ASSUME TypeOK, [Next]_vars PROVE TypeOK'
  OBVIOUS
<1> USE SecondsAssumption, BoundsAssumption
<1>1. CASE Tick
  BY <1>1 DEF Tick, TypeOK, row, call
<1>2. ASSUME NEW c \in Calls, NEW n \in Seconds, Request(c, n) PROVE TypeOK'
  BY <1>2 DEF Request, TypeOK, PC, row
<1>3. ASSUME NEW c \in Calls, FindClock(c) PROVE TypeOK'
  BY <1>3 DEF FindClock, BaseTime, TypeOK, PC, row
<1>4. ASSUME NEW c \in Calls, CreateClock(c) \/ UpdateClock(c) PROVE TypeOK'
  BY <1>4 DEF CreateClock, UpdateClock, TypeOK, PC, row, call
<1>5. ASSUME NEW c \in Calls, Commit(c) PROVE TypeOK'
  <2>1. base[c] \in Nat /\ seconds[c] \in Nat
    BY NaturalData
  <2>2. Advanced(c) \in Nat
    BY <2>1 DEF Advanced
  <2>3. events' \in Seq([from : Nat, to : Nat])
    BY <1>5, <2>1, <2>2 DEF Commit, TypeOK
  <2> QED
    BY <1>5, <2>1, <2>2, <2>3 DEF Commit, Answer, TypeOK, PC
<1>6. ASSUME NEW c \in Calls, KeyTaken(c) \/ Fail(c) PROVE TypeOK'
  <2>1. UNCHANGED row /\ Answer(c) /\ writer' \in Calls \cup {NoCall}
    BY <1>6 DEF KeyTaken, Fail, TypeOK
  <2> QED
    BY <2>1 DEF Answer, TypeOK, PC, row
<1>7. CASE UNCHANGED vars
  BY <1>7 DEF vars, TypeOK, row, call
<1> QED
  BY <1>1, <1>2, <1>3, <1>4, <1>5, <1>6, <1>7 DEF Next, Statement

\* Every variable keeps its type.
THEOREM TypeCorrect == Spec => []TypeOK
<1>1. Init => TypeOK
  BY BoundsAssumption DEF Init, TypeOK, PC
<1> QED
  BY <1>1, TypeStep, PTL DEF Spec

-----------------------------------------------------------------------------
(* Overlapping advances                                                    *)

\* The times the clock has had.
Past == {start} \cup {events[i].to : i \in 1 .. Len(events)}

\* The committed clock.
RowInv ==
    /\ exists => clock \in Past /\ clock =< start + total
    /\ ~exists => events = <<>> /\ total = 0

\* A call about to write started from the past, or is the only creator; who is
\* about to commit holds the row.
CallInv ==
    \A c \in Calls :
        /\ pc[c] \in {"update", "commit"} =>
              \/ exists /\ base[c] \in Past /\ base[c] =< start + total
              \/ ~exists /\ writer = c
        /\ pc[c] = "commit" => writer = c

ClockInv == RowInv /\ CallInv /\ StartsFromThePast

\* Steps that commit nothing keep the row.
LEMMA RowFrame ==
    ASSUME [Next]_vars, \A c \in Calls : ~Commit(c)
    PROVE  UNCHANGED row
BY DEF Next, Statement, Tick, Request, FindClock, CreateClock, KeyTaken,
       UpdateClock, Fail, vars

\* A commit keeps the past and adds its own time to it.
LEMMA CommitExtends ==
    ASSUME TypeOK, ClockInv, NEW c \in Calls, Commit(c)
    PROVE  /\ RowInv' /\ StartsFromThePast'
           /\ exists => start' = start /\ total =< total' /\ Past \subseteq Past'
<1> DEFINE n == Len(events)
<1>1. /\ n \in Nat /\ base[c] \in Nat /\ seconds[c] \in Nat
      /\ start \in Nat /\ total \in Nat
  BY NaturalData DEF TypeOK
<1>2. /\ exists' /\ clock' = base[c] + seconds[c]
      /\ total' = total + seconds[c]
      /\ Len(events') = n + 1
      /\ events'[n + 1] = [from |-> base[c], to |-> base[c] + seconds[c]]
      /\ \A i \in 1 .. n : events'[i] = events[i]
  BY <1>1 DEF Commit, Advanced, TypeOK
<1>3. clock' \in Past'
  <2>1. n + 1 \in 1 .. Len(events') /\ events'[n + 1].to = clock'
    BY <1>1, <1>2
  <2> QED
    BY <2>1 DEF Past
<1>4. CASE exists
  <2>1. start' = start /\ base[c] \in Past /\ base[c] =< start + total
    BY <1>4 DEF Commit, ClockInv, CallInv
  <2>2. Past \subseteq Past'
    BY <1>1, <1>2, <2>1 DEF Past
  <2>3. clock' =< start' + total'
    BY <1>1, <1>2, <2>1
  <2>4. StartsFromThePast'
    <3> SUFFICES ASSUME NEW i \in 1 .. n + 1
                 PROVE  \/ events'[i].from = start'
                        \/ \E j \in 1 .. i - 1 : events'[j].to = events'[i].from
      BY <1>2 DEF StartsFromThePast
    <3>1. CASE i \in 1 .. n
      <4>1. events'[i] = events[i] /\ \A j \in 1 .. i - 1 : events'[j] = events[j]
        BY <1>1, <1>2, <3>1
      <4>2. \/ events[i].from = start
            \/ \E j \in 1 .. i - 1 : events[j].to = events[i].from
        BY <3>1 DEF ClockInv, StartsFromThePast
      <4>3. ASSUME NEW j \in 1 .. i - 1, events[j].to = events[i].from
            PROVE  events'[j].to = events'[i].from
        BY <4>1, <4>3
      <4> QED
        BY <2>1, <4>1, <4>2, <4>3
    <3>2. CASE i = n + 1
      <4>1. events'[i].from = base[c]
        BY <1>1, <1>2, <3>2
      <4>2. base[c] = start \/ \E j \in 1 .. n : events[j].to = base[c]
        BY <2>1 DEF Past
      <4>3. ASSUME NEW j \in 1 .. n, events[j].to = base[c]
            PROVE  j \in 1 .. i - 1 /\ events'[j].to = events'[i].from
        BY <1>1, <1>2, <3>2, <4>1, <4>3
      <4> QED
        BY <2>1, <4>1, <4>2, <4>3
    <3> QED
      BY <1>1, <3>1, <3>2
  <2> QED
    BY <1>1, <1>2, <1>3, <2>1, <2>2, <2>3, <2>4 DEF RowInv
<1>5. CASE ~exists
  <2>1. start' = base[c] /\ n = 0 /\ total = 0
    BY <1>5 DEF Commit, ClockInv, RowInv
  <2>2. StartsFromThePast'
    BY <1>2, <2>1 DEF StartsFromThePast
  <2> QED
    BY <1>1, <1>2, <1>3, <1>5, <2>1, <2>2 DEF RowInv
<1> QED
  BY <1>4, <1>5

\* Every step keeps the invariant.
LEMMA ClockInvStep == TypeOK /\ ClockInv /\ [Next]_vars => ClockInv'
<1> SUFFICES ASSUME TypeOK, ClockInv, [Next]_vars PROVE ClockInv'
  OBVIOUS
<1>1. ASSUME NEW c \in Calls, Commit(c) PROVE ClockInv'
  <2>1. CallInv'
    <3> SUFFICES ASSUME NEW d \in Calls, pc'[d] \in {"update", "commit"}
                 PROVE  /\ exists' /\ base'[d] \in Past' /\ base'[d] =< start' + total'
                        /\ pc'[d] # "commit"
      BY <1>1 DEF CallInv, Commit
    <3>1. d # c /\ pc[d] = pc'[d] /\ base'[d] = base[d]
      BY <1>1 DEF Commit, Answer, TypeOK
    <3>2. writer = c
      BY <1>1 DEF Commit, ClockInv, CallInv
    <3>3. pc[d] # "commit" /\ exists /\ base[d] \in Past /\ base[d] =< start + total
      BY <3>1, <3>2 DEF ClockInv, CallInv
    <3>4. start' = start /\ total =< total' /\ Past \subseteq Past'
      BY <1>1, <3>3, CommitExtends
    <3>5. /\ base[d] \in Nat /\ start \in Nat /\ total \in Nat /\ total' \in Nat
      BY TypeStep DEF TypeOK
    <3> QED
      BY <1>1, <3>1, <3>3, <3>4, <3>5 DEF Commit
  <2> QED
    BY <1>1, <2>1, CommitExtends DEF ClockInv
<1>2. CASE \A c \in Calls : ~Commit(c)
  <2>1. UNCHANGED row
    BY <1>2, RowFrame
  <2>2. RowInv' /\ StartsFromThePast' /\ Past' = Past
    BY <2>1 DEF row, RowInv, StartsFromThePast, Past, ClockInv
  <2>3. CallInv'
    <3> SUFFICES ASSUME NEW d \in Calls
                 PROVE  /\ pc'[d] \in {"update", "commit"} =>
                              \/ exists /\ base'[d] \in Past /\ base'[d] =< start + total
                              \/ ~exists /\ writer' = d
                        /\ pc'[d] = "commit" => writer' = d
      BY <2>1, <2>2 DEF row, CallInv
    <3>1. CASE Tick \/ UNCHANGED vars
      BY <3>1 DEF Tick, vars, call, ClockInv, CallInv
    <3>2. ASSUME NEW c \in Calls, NEW n \in Seconds, Request(c, n)
          PROVE  /\ pc'[d] \in {"update", "commit"} =>
                       \/ exists /\ base'[d] \in Past /\ base'[d] =< start + total
                       \/ ~exists /\ writer' = d
                 /\ pc'[d] = "commit" => writer' = d
      BY <3>2 DEF Request, ClockInv, CallInv, TypeOK
    <3>3. ASSUME NEW c \in Calls, FindClock(c)
          PROVE  /\ pc'[d] \in {"update", "commit"} =>
                       \/ exists /\ base'[d] \in Past /\ base'[d] =< start + total
                       \/ ~exists /\ writer' = d
                 /\ pc'[d] = "commit" => writer' = d
      BY <3>3 DEF FindClock, BaseTime, ClockInv, RowInv, CallInv, TypeOK
    <3>4. ASSUME NEW c \in Calls, CreateClock(c) \/ UpdateClock(c)
          PROVE  /\ pc'[d] \in {"update", "commit"} =>
                       \/ exists /\ base'[d] \in Past /\ base'[d] =< start + total
                       \/ ~exists /\ writer' = d
                 /\ pc'[d] = "commit" => writer' = d
      BY <3>4, CallsAssumption DEF CreateClock, UpdateClock, RowFree, call, ClockInv, CallInv, TypeOK
    <3>5. ASSUME NEW c \in Calls, KeyTaken(c) \/ Fail(c)
          PROVE  /\ pc'[d] \in {"update", "commit"} =>
                       \/ exists /\ base'[d] \in Past /\ base'[d] =< start + total
                       \/ ~exists /\ writer' = d
                 /\ pc'[d] = "commit" => writer' = d
      BY <3>5 DEF KeyTaken, Fail, Answer, ClockInv, CallInv, TypeOK
    <3> QED
      BY <1>2, <3>1, <3>2, <3>3, <3>4, <3>5 DEF Next, Statement
  <2> QED
    BY <2>2, <2>3 DEF ClockInv
<1> QED
  BY <1>1, <1>2

\* The invariant holds in every behaviour.
LEMMA ClockInvariant == Spec => [](TypeOK /\ ClockInv)
<1>1. Init => ClockInv
  BY DEF Init, ClockInv, RowInv, CallInv, StartsFromThePast, Past
<1>2. TypeOK /\ ClockInv /\ [Next]_vars => ClockInv'
  BY ClockInvStep
<1> QED
  BY <1>1, <1>2, TypeCorrect, PTL DEF Spec

\* Overlapping advances may lose seconds, but never count them twice.
THEOREM SecondsCountOnce == Spec => []NothingCountedTwice
<1>1. TypeOK /\ ClockInv => NothingCountedTwice
  BY DEF ClockInv, RowInv, NothingCountedTwice
<1> QED
  BY <1>1, ClockInvariant, PTL

\* No advance starts from a time that was never committed.
THEOREM AdvancesStartFromThePast == Spec => []StartsFromThePast
<1>1. TypeOK /\ ClockInv => StartsFromThePast
  BY DEF ClockInv
<1> QED
  BY <1>1, ClockInvariant, PTL

-----------------------------------------------------------------------------
(* One advance at a time                                                   *)

\* At most one request is served at a time.
Serial == \A c, d \in Calls : c = d

\* A call about to write has read the clock that is still there, and asks for
\* at least one second.
Current ==
    \A c \in Calls :
        /\ pc[c] # "idle" => seconds[c] \in Seconds
        /\ pc[c] \in {"update", "commit"} /\ exists => base[c] = clock

\* With one call at a time no clock changes between a read and its write.
LEMMA CurrentStep ==
    ASSUME Serial, TypeOK, Current, [Next]_vars
    PROVE  Current'
<1>1. CASE Tick \/ UNCHANGED vars
  BY <1>1 DEF Tick, vars, row, call, Current
<1>2. ASSUME NEW c \in Calls, NEW n \in Seconds, Request(c, n) PROVE Current'
  BY <1>2 DEF Request, Current, TypeOK, row
<1>3. ASSUME NEW c \in Calls, FindClock(c) PROVE Current'
  BY <1>3 DEF FindClock, BaseTime, Current, TypeOK, row
<1>4. ASSUME NEW c \in Calls, CreateClock(c) \/ UpdateClock(c) PROVE Current'
  BY <1>4 DEF CreateClock, UpdateClock, Current, TypeOK, row, call
<1>5. ASSUME NEW c \in Calls, Commit(c) \/ KeyTaken(c) \/ Fail(c) PROVE Current'
  <2> SUFFICES ASSUME NEW d \in Calls PROVE pc'[d] = "idle"
    BY DEF Current
  <2> QED
    BY <1>5 DEF Serial, Commit, KeyTaken, Fail, Answer, TypeOK
<1> QED
  BY <1>1, <1>2, <1>3, <1>4, <1>5 DEF Next, Statement

\* When advances do not overlap, each of them moves the clock forward.
THEOREM SerialAdvancesMoveForward == ASSUME Serial PROVE Spec => MovesForward
<1>1. Init => Current
  BY DEF Init, Current
<1>2. TypeOK /\ Current /\ [Next]_vars => Current'
  BY CurrentStep
<1>3. ASSUME TypeOK, Current, [Next]_vars, exists, events' # events
      PROVE  clock' > clock
  <2>1. PICK c \in Calls : Commit(c)
    BY <1>3, RowFrame DEF row
  <2>2. base[c] = clock /\ seconds[c] \in Nat \ {0} /\ clock \in Nat
    BY <1>3, <2>1, SecondsAssumption DEF Commit, Current, TypeOK
  <2> QED
    BY <2>1, <2>2 DEF Commit, Advanced
<1>4. TypeOK /\ Current /\ [Next]_vars => [exists /\ events' # events => clock' > clock]_vars
  BY <1>3
<1> QED
  BY <1>1, <1>2, <1>4, TypeCorrect, PTL DEF Spec, MovesForward
=============================================================================
