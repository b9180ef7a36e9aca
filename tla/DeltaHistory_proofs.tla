------------------------ MODULE DeltaHistory_proofs ------------------------
(***************************************************************************)
(* Proofs about the delta history: that sorting the rows by the number of  *)
(* their predecessors is a permutation of them, and what follows from it   *)
(* for the clients that read a page.                                       *)
(***************************************************************************)
EXTENDS DeltaSignals_proofs, FiniteSetTheorems, SequenceTheorems

\* Every row has an id of its own.
DistinctIds == \A i, j \in DOMAIN rows : rows[i].id = rows[j].id => i = j

\* The rows that come before this one in the history.
Before(row) == {p \in Range(rows) : Precedes(p, row)}

Position == [row \in Range(rows) |-> Cardinality(Before(row))]

-----------------------------------------------------------------------------
(* The order of the rows                                                   *)

\* Rows with different ids are strictly ordered.
LEMMA RowsAreOrdered ==
    ASSUME NEW p \in RowShape, NEW q \in RowShape, NEW r \in RowShape
    PROVE  /\ ~ Precedes(p, p)
           /\ Precedes(p, q) /\ Precedes(q, r) => Precedes(p, r)
           /\ p.id # q.id => Precedes(p, q) \/ Precedes(q, p)
BY DEF Precedes, RowShape

\* There are as many rows as places.
LEMMA RowsAreCounted ==
    ASSUME Shape, DistinctIds
    PROVE  /\ IsFiniteSet(Range(rows)) /\ Cardinality(Range(rows)) = Len(rows)
           /\ Range(rows) \subseteq RowShape
           /\ Len(rows) \in Nat /\ DOMAIN rows = 1 .. Len(rows)
           /\ \A p, q \in Range(rows) : p.id = q.id => p = q
<1>1. /\ Len(rows) \in Nat /\ DOMAIN rows = 1 .. Len(rows)
      /\ \A i \in 1 .. Len(rows) : rows[i] \in RowShape
      /\ rows \in [1 .. Len(rows) -> Range(rows)]
  BY DEF Shape, Range
<1>2. rows \in Bijection(1 .. Len(rows), Range(rows))
  BY <1>1 DEF DistinctIds, Bijection, Injection, IsInjective, Surjection, Range
<1>3. IsFiniteSet(Range(rows)) /\ Cardinality(Range(rows)) = Len(rows)
  <2>1. ExistsBijection(1 .. Len(rows), Range(rows))
    BY <1>2 DEF ExistsBijection
  <2> QED
    BY <1>1, <2>1, FS_NatBijection, FS_CountingElements
<1> QED
  BY <1>1, <1>3 DEF Range, DistinctIds

\* Who comes before a row comes at an earlier position.
LEMMA PositionsGrow ==
    ASSUME Shape, DistinctIds, NEW p \in Range(rows), NEW q \in Range(rows), Precedes(p, q)
    PROVE  Cardinality(Before(p)) < Cardinality(Before(q))
<1>1. IsFiniteSet(Range(rows)) /\ Range(rows) \subseteq RowShape
  BY RowsAreCounted
<1>2. Before(p) \subseteq Before(q) /\ p \in Before(q) /\ p \notin Before(p)
  BY <1>1, RowsAreOrdered DEF Before
<1>3. IsFiniteSet(Before(q)) /\ IsFiniteSet(Before(p))
  <2>1. Before(q) \in SUBSET Range(rows) /\ Before(p) \in SUBSET Range(rows)
    BY DEF Before
  <2> QED
    BY <1>1, <2>1, FS_Subset
<1>4. Cardinality(Before(p)) =< Cardinality(Before(q)) /\ Cardinality(Before(p)) # Cardinality(Before(q))
  BY <1>2, <1>3, FS_Subset
<1> QED
  BY <1>3, <1>4, FS_CardinalityType

LEMMA PlacesAreCounted ==
    ASSUME NEW n \in Nat
    PROVE  IsFiniteSet(0 .. n - 1) /\ Cardinality(0 .. n - 1) = n
<1>1. IsFiniteSet(0 .. n - 1) /\ Cardinality(0 .. n - 1) = IF 0 > n - 1 THEN 0 ELSE n - 1 - 0 + 1
  <2>1. 0 \in Int /\ n - 1 \in Int
    OBVIOUS
  <2> QED
    BY <2>1, FS_Interval
<1> QED
  BY <1>1

\* Each position from 0 on is the position of exactly one row.
LEMMA PositionsAreTaken ==
    ASSUME Shape, DistinctIds
    PROVE  Position \in Bijection(Range(rows), 0 .. Len(rows) - 1)
<1> DEFINE n == Len(rows)
<1>1. /\ IsFiniteSet(Range(rows)) /\ Cardinality(Range(rows)) = n
      /\ Range(rows) \subseteq RowShape /\ n \in Nat
      /\ \A p, q \in Range(rows) : p.id = q.id => p = q
  BY RowsAreCounted
<1>2. \A row \in Range(rows) : Cardinality(Before(row)) \in 0 .. n - 1
  <2> TAKE row \in Range(rows)
  <2>1. Before(row) \in SUBSET Range(rows) /\ row \notin Before(row)
    BY <1>1, RowsAreOrdered DEF Before
  <2>2. /\ IsFiniteSet(Before(row)) /\ Cardinality(Before(row)) =< n
        /\ Cardinality(Before(row)) # n
    BY <1>1, <2>1, FS_Subset
  <2>3. Cardinality(Before(row)) \in Nat
    BY <2>2, FS_CardinalityType
  <2> QED
    BY <1>1, <2>2, <2>3
<1>3. Position \in Injection(Range(rows), 0 .. n - 1)
  <2>1. Position \in [Range(rows) -> 0 .. n - 1]
    BY <1>2 DEF Position
  <2>2. ASSUME NEW p \in Range(rows), NEW q \in Range(rows), Position[p] = Position[q]
        PROVE  p = q
    <3>1. ~ Precedes(p, q) /\ ~ Precedes(q, p)
      BY <1>2, <2>2, PositionsGrow DEF Position
    <3> QED
      BY <1>1, <3>1, RowsAreOrdered
  <2> QED
    BY <2>1, <2>2 DEF Injection, IsInjective
<1>4. IsFiniteSet(0 .. n - 1) /\ Cardinality(0 .. n - 1) = n
  BY <1>1, PlacesAreCounted
<1> QED
  BY <1>1, <1>3, <1>4, FS_Injection DEF Bijection

\* The history holds every row once, each at its position.
LEMMA OrderedIsPermutation ==
    ASSUME Shape, DistinctIds
    PROVE  /\ Ordered \in Seq(Range(rows)) /\ Len(Ordered) = Len(rows)
           /\ Range(Ordered) = Range(rows)
           /\ \A i \in 1 .. Len(rows) : Cardinality(Before(Ordered[i])) = i - 1
           /\ \A row \in Range(rows), i \in 1 .. Len(rows) :
                  Cardinality(Before(row)) = i - 1 => row = Ordered[i]
<1> DEFINE n == Len(rows)
           At(i, row) == Cardinality(Before(row)) = i - 1
<1>1. /\ n \in Nat
      /\ \A k \in 0 .. n - 1 : \E row \in Range(rows) : Position[row] = k
      /\ \A p, q \in Range(rows) : Position[p] = Position[q] => p = q
      /\ \A row \in Range(rows) : Position[row] \in 0 .. n - 1
  BY PositionsAreTaken, RowsAreCounted DEF Bijection, Injection, IsInjective, Surjection, Position
<1>2. \A i \in 1 .. n : \E row \in Range(rows) : At(i, row)
  BY <1>1 DEF Position
<1>3. Ordered = [i \in 1 .. n |-> CHOOSE row \in Range(rows) : At(i, row)]
  BY DEF Ordered, Before
<1>4. \A i \in 1 .. n : Ordered[i] \in Range(rows) /\ At(i, Ordered[i])
  BY <1>2, <1>3
<1>5. \A row \in Range(rows), i \in 1 .. n : At(i, row) => row = Ordered[i]
  BY <1>1, <1>4 DEF Position
<1>6. Ordered \in [1 .. n -> Range(rows)]
  BY <1>3, <1>4
<1>7. Ordered \in Seq(Range(rows)) /\ Len(Ordered) = n
  BY <1>1, <1>6
<1>8. \A row \in Range(rows) : \E i \in 1 .. n : At(i, row)
  <2> TAKE row \in Range(rows)
  <2>1. Position[row] + 1 \in 1 .. n /\ Position[row] = (Position[row] + 1) - 1
    BY <1>1
  <2> QED
    BY <2>1 DEF Position
<1>9. Range(Ordered) = Range(rows)
  <2>1. Range(Ordered) = {Ordered[i] : i \in 1 .. n}
    BY <1>6 DEF Range
  <2> QED
    BY <2>1, <1>4, <1>5, <1>8
<1> QED
  BY <1>4, <1>5, <1>7, <1>9

-----------------------------------------------------------------------------
(* The types                                                               *)

\* An evaluation that has begun has a number.
Numbered == \A v \in Evaluators : pc[v] # "idle" => run[v] \in 1 .. MaxRuns

LEMMA HistoryLimitIsCapped ==
    ASSUME NEW limit \in Limits
    PROVE  /\ HistoryLimit(limit) \in 1 .. HistoryCap
           /\ HistoryLimit(limit) \in Nat /\ HistoryCap \in Nat
<1>1. Number(limit, HistoryDefault) \in Int /\ HistoryCap \in Nat \ {0}
  BY CapsAssumption, LimitsAssumption DEF Number
<1>2. MinOf(HistoryCap, Number(limit, HistoryDefault)) \in Int
      /\ MinOf(HistoryCap, Number(limit, HistoryDefault)) =< HistoryCap
  BY <1>1 DEF MinOf
<1> QED
  BY <1>1, <1>2 DEF HistoryLimit, MaxOf

\* A page is of the rows, and never longer than its documented limit.
LEMMA PageIsTyped ==
    ASSUME Shape, TypeOK, NEW limit \in Limits
    PROVE  /\ Take(Ordered, HistoryLimit(limit)) \in Seq(RowType)
           /\ Len(Take(Ordered, HistoryLimit(limit))) =< HistoryCap
<1>1. HistoryLimit(limit) \in 1 .. HistoryCap /\ HistoryLimit(limit) \in Nat /\ HistoryCap \in Nat
  BY HistoryLimitIsCapped
<1>2. Ordered \in Seq(RowType) /\ Len(Ordered) \in Nat
  <2>1. Ordered \in Seq(Range(rows)) /\ Len(Ordered) = Len(rows)
    BY OrderedIsPermutation DEF TypeOK, DistinctIds
  <2>2. rows \in Seq(RowType)
    BY DEF TypeOK
  <2>3. Range(rows) \subseteq RowType /\ Len(rows) \in Nat
    BY <2>2 DEF Range
  <2> QED
    BY <2>1, <2>3, SeqMonotonic
<1> QED
  BY <1>1, <1>2, TakenPrefix DEF MinOf

\* The types of what the server and the database hold.
ServerTypes ==
    /\ clock \in 1 .. MaxTime /\ runs \in 0 .. MaxRuns /\ losses \in 0 .. MaxLosses
    /\ rows \in Seq(RowType)
    /\ \A i, j \in DOMAIN rows : rows[i].id = rows[j].id => i = j
    /\ lost \subseteq 1 .. MaxRuns
    /\ recent \in Seq(1 .. MaxRuns) /\ published \in Seq(1 .. MaxRuns)
    /\ pc \in [Evaluators -> {"idle", "persist", "publish"}]
    /\ run \in [Evaluators -> 0 .. MaxRuns] /\ at \in [Evaluators -> 1 .. MaxTime]

\* The types of what the clients hold.
ClientTypes ==
    /\ stream \in [Clients -> BOOLEAN]
    /\ received \in [Clients -> Seq(1 .. MaxRuns)]
    /\ latest \in [Clients -> Seq(1 .. MaxRuns)]
    /\ seen \in [Clients -> Nat]
    /\ history \in [Clients -> Seq(RowType)]
    /\ \A k \in Clients : Len(latest[k]) =< RecentCap /\ Len(history[k]) =< HistoryCap
    /\ asked \in [Clients -> Nat \cup {NotAsked}]

LEMMA TypeParts == TypeOK <=> ServerTypes /\ ClientTypes
BY DEF TypeOK, ServerTypes, ClientTypes

\* What a client does leaves the types of the server alone.
LEMMA ServerRests ==
    ASSUME ServerTypes, Numbered, UNCHANGED <<database, bridge, evaluation>>
    PROVE  ServerTypes' /\ Numbered'
BY DEF ServerTypes, Numbered, database, bridge, evaluation

\* Each step keeps the types.
LEMMA TypeKept ==
    ASSUME Shape, TypeOK, Numbered, [Next]_vars
    PROVE  TypeOK' /\ Numbered'
<1>0. ServerTypes /\ ClientTypes
  BY TypeParts
<1>1. ASSUME NEW v \in Evaluators, Begin(v) PROVE TypeOK' /\ Numbered'
  <2>1. runs + 1 \in 1 .. MaxRuns /\ runs' = runs + 1
    BY <1>1, BoundsAssumption DEF Begin, TypeOK
  <2>2. run' \in [Evaluators -> 0 .. MaxRuns] /\ run'[v] \in 1 .. MaxRuns
        /\ \A w \in Evaluators : w # v => run'[w] = run[w] /\ pc'[w] = pc[w]
    BY <1>1, <2>1 DEF Begin, TypeOK
  <2>3. Numbered'
    BY <2>2 DEF Numbered
  <2>4. ServerTypes'
    BY <1>0, <1>1, <2>1, <2>2, StepsFollow DEF Begin, ServerTypes, database, bridge
  <2>5. ClientTypes'
    BY <1>0, <1>1 DEF Begin, ClientTypes, client
  <2> QED
    BY <2>3, <2>4, <2>5, TypeParts DEF TypeOK, ServerTypes, ClientTypes
<1>2. ASSUME NEW v \in Evaluators, NEW id \in 1 .. MaxRuns, Persist(v, id) \/ LoseReply(v, id)
      PROVE  TypeOK' /\ Numbered'
  <2> DEFINE row == [run |-> run[v], at |-> at[v], id |-> id]
  <2>1. rows' = Append(rows, row) /\ rows \in Seq(RowType)
    BY <1>2 DEF Persist, LoseReply, TypeOK
  <2>2. run[v] \in 1 .. MaxRuns
    BY <1>2 DEF Persist, LoseReply, Numbered
  <2>3. row \in RowType
    BY <2>2 DEF TypeOK, RowType
  <2>4. rows' \in Seq(RowType)
    BY <2>1, <2>3, AppendedRow
  <2>5. \A i, j \in DOMAIN rows' : rows'[i].id = rows'[j].id => i = j
    <3>1. Len(rows) \in Nat /\ DOMAIN rows = 1 .. Len(rows) /\ DOMAIN rows' = 1 .. Len(rows) + 1
      BY <2>1, <2>3
    <3>2. \A i \in 1 .. Len(rows) : rows'[i] = rows[i] /\ rows[i].id # id
      <4>1. \A r \in Range(rows) : r.id # id
        BY <1>2 DEF Persist, LoseReply
      <4> QED
        BY <2>1, <2>3, <3>1, <4>1 DEF Range
    <3>3. rows'[Len(rows) + 1].id = id
      BY <2>1, <2>3, <3>1
    <3>4. \A i, j \in 1 .. Len(rows) : rows[i].id = rows[j].id => i = j
      BY <3>1 DEF TypeOK
    <3> QED
      BY <3>1, <3>2, <3>3, <3>4
  <2>6. pc' \in [Evaluators -> {"idle", "persist", "publish"}]
        /\ \A w \in Evaluators : pc'[w] # "idle" => pc[w] # "idle"
    BY <1>2, StepsFollow DEF Persist, LoseReply, TypeOK
  <2>7. run' = run
    BY <1>2 DEF Persist, LoseReply
  <2>8. Numbered'
    BY <2>6, <2>7 DEF Numbered
  <2>9. losses' \in 0 .. MaxLosses /\ lost' \subseteq 1 .. MaxRuns
    <3>1. losses' = losses \/ (losses < MaxLosses /\ losses' = losses + 1)
      BY <1>2 DEF Persist, LoseReply
    <3>2. lost' = lost \/ lost' = lost \cup {run[v]}
      BY <1>2 DEF Persist, LoseReply
    <3>3. losses \in 0 .. MaxLosses /\ lost \subseteq 1 .. MaxRuns
      BY DEF TypeOK
    <3>4. losses' \in 0 .. MaxLosses
      BY <3>1, <3>3, BoundsAssumption
    <3>5. lost' \subseteq 1 .. MaxRuns
      BY <2>2, <3>2, <3>3
    <3> QED
      BY <3>4, <3>5
  <2>10. UNCHANGED <<clock, bridge, runs, run, at, client>>
    BY <1>2 DEF Persist, LoseReply
  <2> QED
    BY <2>4, <2>5, <2>6, <2>8, <2>9, <2>10 DEF TypeOK, bridge, client
<1>3. ASSUME NEW v \in Evaluators, Publish(v) PROVE TypeOK' /\ Numbered'
  <2>1. run[v] \in 1 .. MaxRuns
    BY <1>3 DEF Publish, Numbered
  <2>2. published' \in Seq(1 .. MaxRuns)
    BY <1>3, <2>1 DEF Publish, TypeOK
  <2>3. recent' \in Seq(1 .. MaxRuns)
    <3>1. <<run[v]>> \o recent \in Seq(1 .. MaxRuns)
      BY <2>1 DEF TypeOK
    <3> QED
      BY <3>1, <1>3, TakenPrefix, CapsAssumption DEF Publish, Remembered
  <2>4. received' \in [Clients -> Seq(1 .. MaxRuns)]
    <3>1. \A k \in Clients : Append(received[k], run[v]) \in Seq(1 .. MaxRuns)
      BY <2>1 DEF TypeOK
    <3> QED
      BY <3>1, <1>3 DEF Publish, TypeOK
  <2>5. pc' = [pc EXCEPT ![v] = "idle"] /\ run' = run
    BY <1>3, StepsFollow DEF Publish
  <2>6. Numbered'
    BY <2>5 DEF Numbered, TypeOK
  <2>7. ServerTypes'
    BY <1>0, <1>3, <2>2, <2>3, <2>5 DEF Publish, ServerTypes, database
  <2>8. ClientTypes'
    BY <1>0, <1>3, <2>4 DEF Publish, ClientTypes
  <2> QED
    BY <2>6, <2>7, <2>8, TypeParts DEF TypeOK, ServerTypes, ClientTypes
<1>4. CASE Crash
  <2>1. lost' \subseteq 1 .. MaxRuns /\ losses' \in 0 .. MaxLosses
    <3>1. losses < MaxLosses /\ losses' = losses + 1
      BY <1>4 DEF Crash
    <3>2. \A v \in Evaluators : pc[v] = "publish" => run[v] \in 1 .. MaxRuns
      BY DEF Numbered
    <3>3. lost' = lost \cup {run[v] : v \in {w \in Evaluators : pc[w] = "publish"}}
      BY <1>4 DEF Crash
    <3>4. losses \in 0 .. MaxLosses /\ lost \subseteq 1 .. MaxRuns
      BY DEF TypeOK
    <3>5. losses' \in 0 .. MaxLosses
      BY <3>1, <3>4, BoundsAssumption
    <3>6. lost' \subseteq 1 .. MaxRuns
      BY <3>2, <3>3, <3>4
    <3> QED
      BY <3>5, <3>6
  <2>2. <<>> \in Seq(1 .. MaxRuns) /\ <<>> \in Seq(RowType) /\ Len(<<>>) = 0
    OBVIOUS
  <2>3. RecentCap \in Nat /\ HistoryCap \in Nat /\ NotAsked \in Nat \cup {NotAsked}
    BY CapsAssumption
  <2>4. ServerTypes' /\ Numbered'
    BY <1>0, <1>4, <2>1, <2>2 DEF Crash, ServerTypes, Numbered
  <2>5. ClientTypes'
    BY <1>4, <2>2, <2>3 DEF Crash, ClientTypes
  <2> QED
    BY <2>4, <2>5, TypeParts DEF TypeOK, ServerTypes, ClientTypes
<1>5. CASE Tick
  <2>1. ServerTypes' /\ Numbered'
    BY <1>0, <1>5, BoundsAssumption DEF Tick, ServerTypes, Numbered, bridge, evaluation
  <2>2. ClientTypes'
    BY <1>0, <1>5 DEF Tick, ClientTypes, client
  <2> QED
    BY <2>1, <2>2, TypeParts DEF TypeOK, ServerTypes, ClientTypes
<1>6. ASSUME NEW k \in Clients, NEW on \in BOOLEAN, Connect(k, on) PROVE TypeOK' /\ Numbered'
  <2>1. Len(published) \in Nat
    BY DEF Shape
  <2>2. <<>> \in Seq(1 .. MaxRuns) /\ <<>> \in Seq(RowType) /\ Len(<<>>) = 0
    OBVIOUS
  <2>3. RecentCap \in Nat /\ HistoryCap \in Nat /\ NotAsked \in Nat \cup {NotAsked}
    BY CapsAssumption
  <2>4. ServerTypes' /\ Numbered'
    BY <1>0, <1>6, ServerRests DEF Connect
  <2>5. ClientTypes'
    BY <1>0, <1>6, <2>1, <2>2, <2>3 DEF Connect, ClientTypes
  <2> QED
    BY <2>4, <2>5, TypeParts DEF TypeOK, ServerTypes, ClientTypes
<1>7. ASSUME NEW k \in Clients, NEW limit \in Limits, ReadRecent(k, limit)
      PROVE  TypeOK' /\ Numbered'
  <2>1. Len(published) \in Nat
    BY DEF Shape
  <2>2. Take(recent, RecentLimit(limit)) \in Seq(1 .. MaxRuns)
        /\ Len(Take(recent, RecentLimit(limit))) =< RecentCap
    <3>1. RecentLimit(limit) \in 1 .. RecentCap /\ RecentLimit(limit) \in Nat
          /\ RecentCap \in Nat /\ recent \in Seq(1 .. MaxRuns)
      BY RecentLimitIsCapped, CapsAssumption DEF TypeOK
    <3> QED
      BY <3>1, TakenPrefix DEF MinOf
  <2>3. ServerTypes' /\ Numbered'
    BY <1>0, <1>7, ServerRests DEF ReadRecent
  <2>4. ClientTypes'
    BY <1>0, <1>7, <2>1, <2>2 DEF ReadRecent, ClientTypes
  <2> QED
    BY <2>3, <2>4, TypeParts DEF TypeOK, ServerTypes, ClientTypes
<1>8. ASSUME NEW k \in Clients, NEW limit \in Limits, ReadHistory(k, limit)
      PROVE  TypeOK' /\ Numbered'
  <2>1. Len(rows) \in Nat
    BY DEF Shape
  <2>2. ServerTypes' /\ Numbered'
    BY <1>0, <1>8, ServerRests DEF ReadHistory
  <2>3. ClientTypes'
    BY <1>0, <1>8, <2>1, PageIsTyped DEF ReadHistory, ClientTypes
  <2> QED
    BY <2>2, <2>3, TypeParts DEF TypeOK, ServerTypes, ClientTypes
<1>9. CASE UNCHANGED vars
  BY <1>9 DEF vars, TypeOK, Numbered, database, bridge, evaluation, client
<1> QED
  BY <1>1, <1>2, <1>3, <1>4, <1>5, <1>6, <1>7, <1>8, <1>9 DEF Next, Evaluate, Read

\* The rows, signals, answers and calls keep their types, no two rows share an
\* id, and no answer exceeds its limit, whatever the client asks for.
THEOREM TypeCorrect == Spec => []TypeOK
<1>1. Init => TypeOK /\ Numbered
  <2>1. <<>> \in Seq(1 .. MaxRuns) /\ <<>> \in Seq(RowType) /\ Len(<<>>) = 0
    OBVIOUS
  <2>2. RecentCap \in Nat /\ HistoryCap \in Nat /\ NotAsked \in Nat \cup {NotAsked}
    BY CapsAssumption
  <2> QED
    BY <2>1, <2>2, BoundsAssumption DEF Init, TypeOK, Numbered
<1>2. Shape /\ TypeOK /\ Numbered /\ [Next]_vars => TypeOK' /\ Numbered'
  BY TypeKept
<1> QED
  BY <1>1, <1>2, ShapeAlways, PTL DEF Spec

-----------------------------------------------------------------------------
(* The history and the stream                                              *)

\* A page as long as the rows are many holds them all.
LEMMA WholeHistory ==
    ASSUME Shape, DistinctIds, NEW limit \in Limits,
           Len(Take(Ordered, HistoryLimit(limit))) = Len(rows)
    PROVE  Range(Take(Ordered, HistoryLimit(limit))) = Range(rows)
<1>1. HistoryLimit(limit) \in Nat
  BY HistoryLimitIsCapped
<1>2. /\ Ordered \in Seq(Range(rows)) /\ Len(Ordered) = Len(rows) /\ Len(rows) \in Nat
      /\ Range(Ordered) = Range(rows)
  BY OrderedIsPermutation, RowsAreCounted
<1>3. /\ Take(Ordered, HistoryLimit(limit)) \in Seq(Range(rows))
      /\ MinOf(HistoryLimit(limit), Len(rows)) = Len(rows)
      /\ \A i \in 1 .. Len(rows) : Take(Ordered, HistoryLimit(limit))[i] = Ordered[i]
  <2>1. /\ Take(Ordered, HistoryLimit(limit)) \in Seq(Range(rows))
        /\ Len(Take(Ordered, HistoryLimit(limit))) = MinOf(HistoryLimit(limit), Len(Ordered))
        /\ \A i \in 1 .. MinOf(HistoryLimit(limit), Len(Ordered)) :
               Take(Ordered, HistoryLimit(limit))[i] = Ordered[i]
    BY <1>1, <1>2, TakenPrefix
  <2> QED
    BY <1>2, <2>1
<1>4. DOMAIN Take(Ordered, HistoryLimit(limit)) = 1 .. Len(rows) /\ DOMAIN Ordered = 1 .. Len(rows)
  BY <1>2, <1>3
<1> QED
  BY <1>2, <1>3, <1>4 DEF Range

\* A client that opens the stream and then reads the whole history misses only
\* what a crash or a lost reply swallowed, for every number of evaluations,
\* clients and rows and every order of their commits and publications.
THEOREM ReadersReconcile == Spec => []Reconciled
<1>1. Init => Reconciled
  BY DEF Init, Reconciled
<1>2. Shape /\ TypeOK /\ Reconciled /\ [Next]_vars => Reconciled'
  <2> SUFFICES ASSUME Shape, TypeOK, Reconciled, [Next]_vars PROVE Reconciled'
    OBVIOUS
  <2>0. DistinctIds
    BY DEF TypeOK, DistinctIds
  <2>1. ASSUME NEW v \in Evaluators, NEW id \in 1 .. MaxRuns, Persist(v, id) \/ LoseReply(v, id)
        PROVE  Reconciled'
    <3> DEFINE row == [run |-> run[v], at |-> at[v], id |-> id]
    <3>1. rows' = Append(rows, row) /\ pc[v] = "persist" /\ run' = run
      BY <2>1 DEF Persist, LoseReply
    <3>2. row \in RowShape
      BY BoundsAssumption DEF Shape, RowShape
    <3>3. Runs(rows)' = Runs(rows) \cup {run[v]}
      BY <3>1, <3>2, AppendedRun
    <3>4. \A w \in Evaluators : w # v => pc'[w] = pc[w]
      BY <2>1 DEF Persist, LoseReply, Shape
    <3>5. InFlight \subseteq InFlight'
      BY <3>1, <3>4 DEF InFlight
    <3>6. run[v] \in lost' \cup InFlight' /\ lost \subseteq lost'
      BY <2>1, <3>1, StepsFollow DEF Persist, LoseReply, InFlight, Shape
    <3>7. UNCHANGED client
      BY <2>1 DEF Persist, LoseReply
    <3> QED
      BY <3>3, <3>5, <3>6, <3>7 DEF Reconciled, client
  <2>2. ASSUME NEW v \in Evaluators, Publish(v) PROVE Reconciled'
    <3>1. InFlight \subseteq InFlight' \cup {run[v]}
      BY <2>2 DEF Publish, InFlight, Shape
    <3>2. ASSUME NEW k \in Clients, stream[k]
          PROVE  Range(received'[k]) = Range(received[k]) \cup {run[v]}
      <4>1. received[k] \in Seq(Nat) /\ received'[k] = Append(received[k], run[v]) /\ run[v] \in Nat
        BY <2>2, <3>2 DEF Publish, Shape
      <4> QED
        BY <4>1, AppendedRow
    <3>3. UNCHANGED <<rows, lost, stream, history, asked>>
      BY <2>2 DEF Publish, database
    <3> QED
      BY <3>1, <3>2, <3>3 DEF Reconciled, Runs
  <2>3. ASSUME NEW v \in Evaluators, Begin(v) PROVE Reconciled'
    <3>1. InFlight \subseteq InFlight'
      BY <2>3 DEF Begin, InFlight, Shape
    <3>2. UNCHANGED <<rows, lost, stream, received, history, asked>>
      BY <2>3 DEF Begin, database, client
    <3> QED
      BY <3>1, <3>2 DEF Reconciled, Runs
  <2>4. CASE Crash
    BY <2>4 DEF Crash, Reconciled
  <2>5. ASSUME NEW k \in Clients, NEW on \in BOOLEAN, Connect(k, on) PROVE Reconciled'
    <3>1. \A j \in Clients : j # k => /\ stream'[j] = stream[j] /\ received'[j] = received[j]
                                      /\ history'[j] = history[j] /\ asked'[j] = asked[j]
      BY <2>5 DEF Connect, Shape, TypeOK
    <3>2. asked'[k] = NotAsked
      BY <2>5 DEF Connect, TypeOK
    <3>3. UNCHANGED <<rows, lost, InFlight>>
      BY <2>5 DEF Connect, database, evaluation, InFlight
    <3> QED
      BY <3>1, <3>2, <3>3 DEF Reconciled, Runs
  <2>6. ASSUME NEW k \in Clients, NEW limit \in Limits, ReadHistory(k, limit) PROVE Reconciled'
    <3>1. \A j \in Clients : j # k => history'[j] = history[j] /\ asked'[j] = asked[j]
      BY <2>6 DEF ReadHistory, TypeOK
    <3>2. UNCHANGED <<rows, lost, InFlight, stream, received>>
      BY <2>6 DEF ReadHistory, database, evaluation, InFlight
    <3>3. asked'[k] = Len(rows) /\ history'[k] = Take(Ordered, HistoryLimit(limit))
      BY <2>6 DEF ReadHistory, TypeOK
    <3>4. Len(history'[k]) = asked'[k] => Range(history'[k]) = Range(rows)
      BY <2>0, <3>3, WholeHistory
    <3> QED
      BY <3>1, <3>2, <3>4 DEF Reconciled, Runs
  <2>7. CASE UNCHANGED <<rows, lost, stream, received, history, asked, pc, run>>
    BY <2>7 DEF Reconciled, Runs, InFlight
  <2> QED
    BY <2>1, <2>2, <2>3, <2>4, <2>5, <2>6, <2>7 DEF Next, Evaluate, Read, vars, Tick,
       ReadRecent, bridge, client, database, evaluation
<1> QED
  BY <1>1, <1>2, TypeCorrect, ShapeAlways, PTL DEF Spec

-----------------------------------------------------------------------------
(* The order of the history                                                *)

\* While each commit has a later instant than the one before it, the instants
\* of all rows grow.
Chain ==
    \A n \in 0 .. Len(rows) :
        InOrder(n) => \A i, j \in 1 .. n : i < j => rows[i].at < rows[j].at

\* A page is no longer than the rows were many.
PageFits ==
    \A k \in Clients :
        asked[k] # NotAsked => asked[k] =< Len(rows) /\ Len(history[k]) =< asked[k]

\* What is appended to a sequence comes last, and moves nothing.
LEMMA Appended ==
    ASSUME NEW R, NEW s \in Seq(R), NEW x \in R
    PROVE  /\ Len(s) \in Nat /\ Len(Append(s, x)) = Len(s) + 1
           /\ \A i \in 1 .. Len(s) : Append(s, x)[i] = s[i] /\ s[i] \in R
           /\ Append(s, x)[Len(s) + 1] = x
OBVIOUS

\* Another row changes nothing about the ones before it.
LEMMA ChainGrows ==
    ASSUME Shape, Chain, NEW row \in RowShape, rows' = Append(rows, row)
    PROVE  /\ Chain'
           /\ Len(rows) \in Nat /\ Len(rows') = Len(rows) + 1
           /\ \A i \in 1 .. Len(rows) : rows'[i] = rows[i]
           /\ \A n \in 0 .. Len(rows) : InOrder(n)' <=> InOrder(n)
<1>1. /\ Len(rows) \in Nat /\ Len(rows') = Len(rows) + 1
      /\ \A i \in 1 .. Len(rows) : rows'[i] = rows[i] /\ rows[i].at \in Int
      /\ rows'[Len(rows) + 1] = row /\ row.at \in Int
  <2>1. rows \in Seq(RowShape) /\ \A r \in RowShape : r.at \in Int
    BY DEF Shape, RowShape
  <2>2. /\ Len(rows) \in Nat /\ Len(rows') = Len(rows) + 1
        /\ \A i \in 1 .. Len(rows) : rows'[i] = rows[i] /\ rows[i] \in RowShape
        /\ rows'[Len(rows) + 1] = row
    BY <2>1, Appended
  <2> QED
    BY <2>1, <2>2
<1>2. ASSUME NEW n \in 0 .. Len(rows) PROVE InOrder(n)' <=> InOrder(n)
  <2>1. \A i \in 1 .. n : rows'[i] = rows[i]
    BY <1>1
  <2> QED
    BY <2>1 DEF InOrder
<1>3. ASSUME NEW n \in 0 .. Len(rows'), InOrder(n)',
             NEW i \in 1 .. n, NEW j \in 1 .. n, i < j
      PROVE  rows'[i].at < rows'[j].at
  <2>1. CASE n =< Len(rows)
    <3>1. n \in 0 .. Len(rows) /\ InOrder(n) /\ i \in 1 .. Len(rows) /\ j \in 1 .. Len(rows)
      BY <1>1, <1>2, <1>3, <2>1
    <3> QED
      BY <3>1, <1>1, <1>3 DEF Chain
  <2>2. CASE n = Len(rows) + 1
    <3>1. InOrder(Len(rows))
      BY <1>1, <1>2, <1>3, <2>2 DEF InOrder
    <3>2. \A a, b \in 1 .. Len(rows) : a < b => rows[a].at < rows[b].at
      BY <3>1, <1>1 DEF Chain
    <3>3. Len(rows) \in 1 .. Len(rows) /\ rows'[Len(rows)].at < rows'[Len(rows) + 1].at
      BY <1>1, <1>3, <2>2 DEF InOrder
    <3>4. CASE j \in 1 .. Len(rows)
      BY <3>2, <3>4, <1>1, <1>3
    <3>5. CASE j = Len(rows) + 1
      <4>1. i \in 1 .. Len(rows) /\ (i = Len(rows) \/ i < Len(rows))
        BY <3>5, <1>1, <1>3, <2>2
      <4>2. rows[i].at =< rows[Len(rows)].at /\ rows[Len(rows)].at < row.at
        BY <4>1, <3>2, <3>3, <1>1
      <4> QED
        BY <4>1, <4>2, <3>5, <1>1
    <3> QED
      BY <3>4, <3>5, <1>1, <2>2, <1>3
  <2>3. n =< Len(rows) \/ n = Len(rows) + 1
    BY <1>1
  <2> QED
    BY <2>1, <2>2, <2>3
<1> QED
  BY <1>1, <1>2, <1>3 DEF Chain

\* Of rows in the order of their instants, the history is the reverse.
LEMMA HistoryIsReverse ==
    ASSUME Shape, DistinctIds, Chain, InOrder(Len(rows)), NEW i \in 1 .. Len(rows)
    PROVE  Ordered[i] = rows[Len(rows) + 1 - i]
<1> DEFINE n == Len(rows)
           m == n + 1 - i
           later == [k \in 1 .. n - m |-> rows[m + k]]
<1>1. /\ n \in Nat /\ m \in 1 .. n /\ n - m \in Nat /\ n - m = i - 1 /\ i \in Nat
      /\ DOMAIN rows = 1 .. n
      /\ Range(rows) = {rows[k] : k \in 1 .. n} /\ \A k \in 1 .. n : rows[k].at \in Int
  <2>1. rows \in Seq(RowShape) /\ \A r \in RowShape : r.at \in Int
    BY DEF Shape, RowShape
  <2>2. n \in Nat /\ DOMAIN rows = 1 .. n
    BY <2>1
  <2> QED
    BY <2>1, <2>2 DEF Range
<1>2. \A j, k \in 1 .. n : j < k => rows[j].at < rows[k].at
  BY <1>1 DEF Chain
<1>3. \A j \in 1 .. n : Precedes(rows[j], rows[m]) <=> j > m
  <2>1. ~ Precedes(rows[m], rows[m])
    <3>1. rows[m] \in RowShape
      BY <1>1 DEF Shape
    <3> QED
      BY <3>1, RowsAreOrdered
  <2>2. \A j \in 1 .. n : j = m \/ j < m \/ j > m
    BY <1>1
  <2>3. \A j \in 1 .. n : j > m => rows[j].at > rows[m].at
    BY <1>1, <1>2
  <2>4. \A j \in 1 .. n : j < m => rows[j].at < rows[m].at
    BY <1>1, <1>2
  <2> QED
    BY <2>1, <2>2, <2>3, <2>4, <1>1 DEF Precedes
<1>4. later \in Bijection(1 .. n - m, Before(rows[m]))
  <2>1. \A k \in 1 .. n - m : m + k \in 1 .. n /\ m + k > m
    BY <1>1
  <2>2. \A k \in 1 .. n - m : later[k] \in Before(rows[m])
    BY <1>1, <1>3, <2>1 DEF Before
  <2>3. \A a, b \in 1 .. n - m : later[a] = later[b] => a = b
    <3> TAKE a, b \in 1 .. n - m
    <3> HAVE later[a] = later[b]
    <3>1. rows[m + a] = rows[m + b]
      OBVIOUS
    <3>2. m + a = m + b
      BY <3>1, <2>1, <1>1 DEF DistinctIds
    <3> QED
      BY <3>2, <1>1
  <2>4. \A p \in Before(rows[m]) : \E k \in 1 .. n - m : later[k] = p
    <3> TAKE p \in Before(rows[m])
    <3>1. PICK j \in 1 .. n : p = rows[j]
      BY <1>1 DEF Before
    <3>2. j > m
      BY <3>1, <1>3 DEF Before
    <3>3. j - m \in 1 .. n - m /\ m + (j - m) = j
      BY <3>2, <1>1
    <3> QED
      BY <3>1, <3>3
  <2> QED
    BY <2>2, <2>3, <2>4 DEF Bijection, Injection, IsInjective, Surjection
<1>5. Cardinality(Before(rows[m])) = i - 1
  <2>1. ExistsBijection(1 .. n - m, Before(rows[m]))
    BY <1>4 DEF ExistsBijection
  <2> QED
    BY <2>1, <1>1, FS_CountingElements
<1> QED
  BY <1>1, <1>5, OrderedIsPermutation

\* Each step keeps what the order of the history rests on.
LEMMA ReplayKept ==
    ASSUME Shape, TypeOK, Chain, PageFits, HistoryReplays, [Next]_vars
    PROVE  Chain' /\ PageFits' /\ HistoryReplays'
<1>1. ASSUME NEW v \in Evaluators, NEW id \in 1 .. MaxRuns, Persist(v, id) \/ LoseReply(v, id)
      PROVE  Chain' /\ PageFits' /\ HistoryReplays'
  <2> DEFINE row == [run |-> run[v], at |-> at[v], id |-> id]
  <2>1. row \in RowShape
    BY BoundsAssumption DEF Shape, RowShape
  <2>2. rows' = Append(rows, row) /\ UNCHANGED <<history, asked>>
    BY <1>1 DEF Persist, LoseReply, client
  <2>3. /\ Chain'
        /\ Len(rows) \in Nat /\ Len(rows') = Len(rows) + 1
        /\ \A i \in 1 .. Len(rows) : rows'[i] = rows[i]
        /\ \A n \in 0 .. Len(rows) : InOrder(n)' <=> InOrder(n)
    BY <2>1, <2>2, ChainGrows
  <2>4. \A k \in Clients : asked[k] # NotAsked => asked[k] \in 0 .. Len(rows)
    BY <2>3 DEF PageFits, TypeOK
  <2>5. PageFits'
    BY <2>2, <2>3, <2>4 DEF PageFits
  <2>6. ASSUME NEW k \in Clients, asked'[k] # NotAsked, InOrder(asked[k])',
               NEW i \in DOMAIN history'[k]
        PROVE  history'[k][i] = rows'[asked'[k] + 1 - i]
    <3>1. asked[k] \in 0 .. Len(rows) /\ InOrder(asked[k])
      BY <2>2, <2>3, <2>4, <2>6
    <3>2. i \in 1 .. asked[k]
      <4>1. history[k] \in Seq(RowType) /\ Len(history[k]) =< asked[k]
        BY <2>2, <2>6 DEF PageFits, TypeOK
      <4>2. DOMAIN history[k] = 1 .. Len(history[k]) /\ Len(history[k]) \in Nat
        BY <4>1
      <4> QED
        BY <4>1, <4>2, <3>1, <2>2, <2>6
    <3>3. history[k][i] = rows[asked[k] + 1 - i]
      BY <2>2, <2>6, <3>1 DEF HistoryReplays
    <3>4. asked[k] + 1 - i \in 1 .. Len(rows)
      BY <3>1, <3>2, <2>3
    <3> QED
      BY <3>3, <3>4, <2>2, <2>3
  <2>7. HistoryReplays'
    BY <2>2, <2>6 DEF HistoryReplays
  <2> QED
    BY <2>3, <2>5, <2>7
<1>2. ASSUME NEW k \in Clients, NEW limit \in Limits, ReadHistory(k, limit)
      PROVE  Chain' /\ PageFits' /\ HistoryReplays'
  <2> DEFINE page == Take(Ordered, HistoryLimit(limit))
  <2>1. /\ \A j \in Clients : j # k => history'[j] = history[j] /\ asked'[j] = asked[j]
        /\ history'[k] = page /\ asked'[k] = Len(rows) /\ rows' = rows
    BY <1>2 DEF ReadHistory, TypeOK, database
  <2>2. DistinctIds
    BY DEF TypeOK, DistinctIds
  <2>3. Ordered \in Seq(Range(rows)) /\ Len(Ordered) = Len(rows) /\ Len(rows) \in Nat
    BY <2>2, OrderedIsPermutation, RowsAreCounted
  <2>4. /\ page \in Seq(Range(rows)) /\ Len(page) =< Len(rows)
        /\ \A i \in 1 .. Len(page) : page[i] = Ordered[i]
    BY <2>3, TakenPrefix, HistoryLimitIsCapped DEF MinOf
  <2>5. DOMAIN page = 1 .. Len(page) /\ Len(page) \in Nat
    BY <2>4
  <2>6. InOrder(Len(rows)) => \A i \in DOMAIN page : page[i] = rows[Len(rows) + 1 - i]
    <3> HAVE InOrder(Len(rows))
    <3> TAKE i \in DOMAIN page
    <3>1. i \in 1 .. Len(page) /\ i \in 1 .. Len(rows)
      BY <2>3, <2>4, <2>5
    <3> QED
      BY <3>1, <2>2, <2>4, HistoryIsReverse
  <2> HIDE DEF page
  <2>7. PageFits'
    BY <2>1, <2>3, <2>4 DEF PageFits
  <2>8. HistoryReplays'
    BY <2>1, <2>6 DEF HistoryReplays, InOrder
  <2> QED
    BY <2>1, <2>7, <2>8 DEF Chain, InOrder
<1>3. ASSUME NEW k \in Clients, NEW on \in BOOLEAN, Connect(k, on)
      PROVE  Chain' /\ PageFits' /\ HistoryReplays'
  <2>1. /\ \A j \in Clients : j # k => history'[j] = history[j] /\ asked'[j] = asked[j]
        /\ asked'[k] = NotAsked /\ rows' = rows
    BY <1>3 DEF Connect, TypeOK, database
  <2> QED
    BY <2>1 DEF Chain, PageFits, HistoryReplays, InOrder
<1>4. CASE Crash
  <2>1. rows' = rows /\ \A k \in Clients : asked'[k] = NotAsked
    BY <1>4 DEF Crash
  <2> QED
    BY <2>1 DEF Chain, PageFits, HistoryReplays, InOrder
<1>5. CASE UNCHANGED <<rows, history, asked>>
  BY <1>5 DEF Chain, PageFits, HistoryReplays, InOrder
<1> QED
  BY <1>1, <1>2, <1>3, <1>4, <1>5 DEF Next, Evaluate, Read, vars, Tick, Begin, Publish,
     ReadRecent, database, client

\* While the instants of the commits grow, a page of the history is the last
\* commits, the newest first, however many rows there are.
THEOREM PagesReplay == Spec => []HistoryReplays
<1>1. Init => Chain /\ PageFits /\ HistoryReplays
  BY DEF Init, Chain, PageFits, HistoryReplays, InOrder
<1>2. Shape /\ TypeOK /\ Chain /\ PageFits /\ HistoryReplays /\ [Next]_vars
          => Chain' /\ PageFits' /\ HistoryReplays'
  BY ReplayKept
<1> QED
  BY <1>1, <1>2, TypeCorrect, ShapeAlways, PTL DEF Spec
=============================================================================
