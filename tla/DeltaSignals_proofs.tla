------------------------ MODULE DeltaSignals_proofs ------------------------
(***************************************************************************)
(* Proofs about DeltaSignals: what the recent buffer holds, that a signal  *)
(* is of committed rows, and that a client which opens the stream before   *)
(* it reads the buffer has no gap.                                         *)
(***************************************************************************)
EXTENDS DeltaSignals, TLAPS

RowShape == [run : Nat, at : Int, id : Int]

\* The part of the types that the proofs need.
Shape ==
    /\ rows \in Seq(RowShape)
    /\ runs \in Nat
    /\ recent \in Seq(Nat) /\ published \in Seq(Nat)
    /\ pc \in [Evaluators -> {"idle", "persist", "publish"}]
    /\ run \in [Evaluators -> Nat] /\ at \in [Evaluators -> Int]
    /\ clock \in Int
    /\ stream \in [Clients -> BOOLEAN]
    /\ received \in [Clients -> Seq(Nat)] /\ latest \in [Clients -> Seq(Nat)]
    /\ seen \in [Clients -> Nat]

\* An evaluation publishes only what is in the database.
CommittedFirst == \A v \in Evaluators : pc[v] = "publish" => run[v] \in Runs(rows)

-----------------------------------------------------------------------------
\* A row joins the rows, and takes none of the others' place.
LEMMA AppendedRow ==
    ASSUME NEW R, NEW s \in Seq(R), NEW row \in R
    PROVE  /\ Append(s, row) \in Seq(R)
           /\ Range(Append(s, row)) = Range(s) \cup {row}
<1>1. Append(s, row) \in Seq(R) /\ Len(Append(s, row)) = Len(s) + 1
  OBVIOUS
<1>2. \A i \in 1 .. Len(s) : Append(s, row)[i] = s[i]
  OBVIOUS
<1>3. Append(s, row)[Len(s) + 1] = row
  OBVIOUS
<1>4. DOMAIN s = 1 .. Len(s) /\ DOMAIN Append(s, row) = 1 .. Len(s) + 1 /\ Len(s) \in Nat
  BY <1>1
<1>5. DOMAIN Append(s, row) = DOMAIN s \cup {Len(s) + 1}
  BY <1>4
<1> QED
  BY <1>1, <1>2, <1>3, <1>4, <1>5 DEF Range

\* The first elements of a sequence are elements of it, at the same places.
LEMMA TakenPrefix ==
    ASSUME NEW R, NEW s \in Seq(R), NEW n \in Nat
    PROVE  /\ Take(s, n) \in Seq(R)
           /\ Len(Take(s, n)) = MinOf(n, Len(s))
           /\ \A i \in 1 .. MinOf(n, Len(s)) : Take(s, n)[i] = s[i]
           /\ Range(Take(s, n)) \subseteq Range(s)
<1>1. Len(s) \in Nat /\ MinOf(n, Len(s)) \in 0 .. Len(s) /\ DOMAIN s = 1 .. Len(s)
  BY DEF MinOf
<1>2. /\ Take(s, n) \in Seq(R)
      /\ Len(Take(s, n)) = MinOf(n, Len(s))
      /\ \A i \in 1 .. MinOf(n, Len(s)) : Take(s, n)[i] = s[i]
  BY <1>1 DEF Take
<1>3. DOMAIN Take(s, n) = 1 .. MinOf(n, Len(s))
  BY <1>2
<1> QED
  BY <1>1, <1>2, <1>3 DEF Range

\* The numbers of the runs follow the rows.
LEMMA AppendedRun ==
    ASSUME Shape, NEW row \in RowShape,
           rows' = Append(rows, row)
    PROVE  /\ rows' \in Seq(RowShape)
           /\ Runs(rows)' = Runs(rows) \cup {row.run}
<1>1. rows' \in Seq(RowShape) /\ Range(rows') = Range(rows) \cup {row}
  <2>1. rows \in Seq(RowShape)
    BY DEF Shape
  <2>2. /\ Append(rows, row) \in Seq(RowShape)
        /\ Range(Append(rows, row)) = Range(rows) \cup {row}
    BY <2>1, AppendedRow
  <2> QED
    BY <2>2
<1> QED
  BY <1>1 DEF Runs

\* A limit is a number of signals.
LEMMA RecentLimitIsCapped ==
    ASSUME NEW limit \in Limits
    PROVE  RecentLimit(limit) \in 1 .. RecentCap /\ RecentLimit(limit) \in Nat
<1>1. Number(limit, RecentDefault) \in Int /\ RecentCap \in Nat \ {0}
  BY CapsAssumption, LimitsAssumption DEF Number
<1>2. MaxOf(Number(limit, RecentDefault), 1) \in Nat \ {0}
  BY <1>1 DEF MaxOf
<1> QED
  BY <1>1, <1>2 DEF RecentLimit, MinOf

\* The empty sequence.
LEMMA NoSignals == <<>> \in Seq(Nat) /\ Len(<<>>) = 0 /\ Range(<<>>) = {}
BY DEF Range

\* The steps that follow the steps.
LEMMA StepsFollow ==
    StepAfter.begin = "persist" /\ StepAfter.persist = "publish" /\ StepAfter.publish = "idle"
BY DEF StepAfter

-----------------------------------------------------------------------------
\* Each step keeps the shape.
LEMMA ShapeKept == ASSUME Shape, [Next]_vars PROVE Shape'
<1>1. ASSUME NEW v \in Evaluators, Begin(v) PROVE Shape'
  BY <1>1, StepsFollow DEF Shape, Begin, database, bridge, client
<1>2. ASSUME NEW v \in Evaluators, NEW id \in 1 .. MaxRuns, Persist(v, id) \/ LoseReply(v, id)
      PROVE  Shape'
  <2> DEFINE row == [run |-> run[v], at |-> at[v], id |-> id]
  <2>1. rows' = Append(rows, row)
    BY <1>2 DEF Persist, LoseReply
  <2>2. row \in RowShape
    BY BoundsAssumption DEF Shape, RowShape
  <2>3. rows' \in Seq(RowShape)
    BY <2>1, <2>2, AppendedRun
  <2>4. pc' \in [Evaluators -> {"idle", "persist", "publish"}]
    BY <1>2, StepsFollow DEF Persist, LoseReply, Shape
  <2> QED
    BY <1>2, <2>3, <2>4 DEF Shape, Persist, LoseReply, bridge, client
<1>3. ASSUME NEW v \in Evaluators, Publish(v) PROVE Shape'
  <2>1. run[v] \in Nat
    BY DEF Shape
  <2>2. published' \in Seq(Nat)
    BY <1>3, <2>1 DEF Publish, Shape
  <2>3. recent' \in Seq(Nat)
    <3>1. <<run[v]>> \o recent \in Seq(Nat)
      BY <2>1 DEF Shape
    <3> QED
      BY <3>1, <1>3, TakenPrefix, CapsAssumption DEF Publish, Remembered
  <2>4. received' \in [Clients -> Seq(Nat)]
    <3>1. \A k \in Clients : Append(received[k], run[v]) \in Seq(Nat)
      BY <2>1 DEF Shape
    <3> QED
      BY <3>1, <1>3 DEF Publish, Shape
  <2> QED
    BY <1>3, <2>2, <2>3, <2>4, StepsFollow DEF Publish, Shape, database
<1>4. CASE Crash
  BY <1>4, NoSignals DEF Crash, Shape
<1>5. CASE Tick
  BY <1>5 DEF Tick, Shape, bridge, evaluation, client
<1>6. ASSUME NEW k \in Clients, NEW on \in BOOLEAN, Connect(k, on) PROVE Shape'
  <2>1. Len(published) \in Nat
    BY DEF Shape
  <2> QED
    BY <1>6, <2>1 DEF Connect, Shape, database, bridge, evaluation
<1>7. ASSUME NEW k \in Clients, NEW limit \in Limits, ReadRecent(k, limit) PROVE Shape'
  <2>1. Len(published) \in Nat
    BY DEF Shape
  <2>2. Take(recent, RecentLimit(limit)) \in Seq(Nat)
    BY TakenPrefix, RecentLimitIsCapped DEF Shape
  <2> QED
    BY <1>7, <2>1, <2>2 DEF ReadRecent, Shape, database, bridge, evaluation
<1>8. ASSUME NEW k \in Clients, NEW limit \in Limits, ReadHistory(k, limit) PROVE Shape'
  BY <1>8 DEF ReadHistory, Shape, database, bridge, evaluation
<1>9. CASE UNCHANGED vars
  BY <1>9 DEF vars, Shape, database, bridge, evaluation, client
<1> QED
  BY <1>1, <1>2, <1>3, <1>4, <1>5, <1>6, <1>7, <1>8, <1>9 DEF Next, Evaluate, Read

LEMMA ShapeAlways == Spec => []Shape
<1>1. Init => Shape
  <2>1. <<>> \in Seq(RowShape)
    OBVIOUS
  <2> QED
    BY <2>1, NoSignals DEF Init, Shape
<1> QED
  BY <1>1, ShapeKept, PTL DEF Spec

-----------------------------------------------------------------------------
\* The recent buffer holds the newest signals since the process started, the
\* newest first, whatever its capacity and however many were published
\* (SegmentDeltaSignalBridgeService.publish).
THEOREM RecentSignalsAreLatest == Spec => []RecentIsLatest
<1>1. Init => RecentIsLatest
  BY CapsAssumption DEF Init, RecentIsLatest, MinOf
<1>2. Shape /\ RecentIsLatest /\ [Next]_vars => RecentIsLatest'
  <2> SUFFICES ASSUME Shape, RecentIsLatest, [Next]_vars PROVE RecentIsLatest'
    OBVIOUS
  <2>1. ASSUME NEW v \in Evaluators, Publish(v) PROVE RecentIsLatest'
    <3> DEFINE s == <<run[v]>> \o recent
               n == MinOf(RecentCap, Len(s))
    <3>1. /\ recent \in Seq(Nat) /\ published \in Seq(Nat) /\ run[v] \in Nat
          /\ Len(recent) \in Nat /\ Len(published) \in Nat /\ RecentCap \in Nat \ {0}
      BY CapsAssumption DEF Shape
    <3>2. /\ s \in Seq(Nat) /\ Len(s) = Len(recent) + 1 /\ s[1] = run[v]
          /\ \A i \in 1 .. Len(recent) : s[i + 1] = recent[i]
      BY <3>1
    <3>3. Len(recent) = MinOf(RecentCap, Len(published))
      BY <3>1 DEF RecentIsLatest, MinOf
    <3>4. /\ published' = Append(published, run[v])
          /\ recent' = Take(s, RecentCap)
      BY <2>1 DEF Publish, Remembered
    <3>5. /\ Len(published') = Len(published) + 1
          /\ published'[Len(published) + 1] = run[v]
          /\ \A i \in 1 .. Len(published) : published'[i] = published[i]
      BY <3>1, <3>4
    <3>6. n = MinOf(RecentCap, Len(published'))
      BY <3>1, <3>2, <3>3, <3>5 DEF MinOf
    <3>7. recent' \in Seq(Nat) /\ Len(recent') = n /\ \A i \in 1 .. n : recent'[i] = s[i]
      <4>1. RecentCap \in Nat /\ s \in Seq(Nat)
        BY <3>1, <3>2
      <4>2. ASSUME NEW t \in Seq(Nat)
            PROVE  /\ Take(t, RecentCap) \in Seq(Nat)
                   /\ Len(Take(t, RecentCap)) = MinOf(RecentCap, Len(t))
                   /\ \A i \in 1 .. MinOf(RecentCap, Len(t)) : Take(t, RecentCap)[i] = t[i]
        <5>1. RecentCap \in Nat
          BY CapsAssumption
        <5> QED
          BY <5>1, TakenPrefix DEF MinOf
      <4> HIDE DEF s
      <4> QED
        BY <4>1, <4>2, <3>4
    <3> HIDE DEF s
    <3>8. ASSUME NEW i \in 1 .. n
          PROVE  recent'[i] = published'[Len(published') + 1 - i]
      <4>1. CASE i = 1
        BY <4>1, <3>1, <3>2, <3>5, <3>7, <3>8
      <4>2. CASE i # 1
        <5> DEFINE j == i - 1
        <5>1. j \in 1 .. Len(recent) /\ i = j + 1 /\ j =< Len(published)
          BY <4>2, <3>1, <3>2, <3>3, <3>8 DEF MinOf
        <5>2. recent'[i] = recent[j]
          BY <5>1, <3>2, <3>7, <3>8
        <5>3. recent[j] = published[Len(published) + 1 - j]
          BY <5>1, <3>3 DEF RecentIsLatest
        <5>4. Len(published) + 1 - j \in 1 .. Len(published)
          BY <5>1, <3>1
        <5>5. Len(published') + 1 - i = Len(published) + 1 - j
          BY <5>1, <3>1, <3>5
        <5> QED
          BY <5>2, <5>3, <5>4, <5>5, <3>5
      <4> QED
        BY <4>1, <4>2
    <3>9. recent' = [i \in 1 .. n |-> recent'[i]]
      BY <3>7, <3>1, <3>2 DEF MinOf
    <3> QED
      BY <3>6, <3>8, <3>9 DEF RecentIsLatest
  <2>2. CASE Crash
    BY <2>2, CapsAssumption DEF Crash, RecentIsLatest, MinOf
  <2>3. CASE UNCHANGED bridge
    BY <2>3 DEF bridge, RecentIsLatest
  <2> QED
    BY <2>1, <2>2, <2>3 DEF Next, Evaluate, Read, vars, Tick, Begin, Persist, LoseReply,
       Connect, ReadRecent, ReadHistory
<1> QED
  BY <1>1, <1>2, ShapeAlways, PTL DEF Spec

-----------------------------------------------------------------------------
\* An evaluation publishes only what is in the database: the publication
\* follows the transaction.
LEMMA CommittedFirstKept ==
    ASSUME Shape, CommittedFirst, [Next]_vars
    PROVE  CommittedFirst' /\ Runs(rows) \subseteq Runs(rows)'
<1>1. ASSUME NEW v \in Evaluators, NEW id \in 1 .. MaxRuns, Persist(v, id) \/ LoseReply(v, id)
      PROVE  CommittedFirst' /\ Runs(rows) \subseteq Runs(rows)'
  <2> DEFINE row == [run |-> run[v], at |-> at[v], id |-> id]
  <2>1. rows' = Append(rows, row) /\ run' = run
    BY <1>1 DEF Persist, LoseReply
  <2>2. row \in RowShape /\ row.run = run[v]
    BY BoundsAssumption DEF Shape, RowShape
  <2>3. Runs(rows)' = Runs(rows) \cup {run[v]}
    BY <2>1, <2>2, AppendedRun
  <2>4. \A w \in Evaluators : w # v => pc'[w] = pc[w]
    BY <1>1 DEF Persist, LoseReply, Shape
  <2> QED
    BY <2>1, <2>3, <2>4 DEF CommittedFirst
<1>2. CASE UNCHANGED rows
  <2>1. Runs(rows)' = Runs(rows)
    BY <1>2 DEF Runs, Range
  <2>2. ASSUME NEW v \in Evaluators, Begin(v) \/ Publish(v) PROVE CommittedFirst'
    <3>1. pc'[v] # "publish" /\ \A w \in Evaluators : w # v => pc'[w] = pc[w] /\ run'[w] = run[w]
      BY <2>2, StepsFollow DEF Begin, Publish, Shape
    <3> QED
      BY <3>1, <2>1 DEF CommittedFirst
  <2>3. CASE Crash
    BY <2>3 DEF Crash, CommittedFirst
  <2>4. CASE UNCHANGED <<pc, run>>
    BY <2>4, <2>1 DEF CommittedFirst
  <2>5. ASSUME NEW v \in Evaluators, NEW id \in 1 .. MaxRuns, Persist(v, id) \/ LoseReply(v, id)
        PROVE  CommittedFirst'
    BY <1>1, <2>5
  <2> QED
    BY <2>1, <2>2, <2>3, <2>4, <2>5
    DEF Next, Evaluate, Read, vars, Tick, Connect, ReadRecent, ReadHistory, evaluation
<1> QED
  BY <1>1, <1>2 DEF Next, Evaluate, Read, vars, Tick, Begin, Publish, Crash, Connect,
     ReadRecent, ReadHistory, database

\* Every signal, in the buffer, on a stream or in an answer, is of rows that are
\* in the database, whatever crashes and lost replies come between
\* (evaluateSegment publishes after its transaction).
THEOREM SignalsArePersisted == Spec => []SignalsPersisted
<1> DEFINE Known(s) == Range(s) \subseteq Runs(rows)
           Inv == SignalsPersisted /\ CommittedFirst
<1>1. Init => Inv
  BY DEF Init, SignalsPersisted, CommittedFirst, Range
<1>2. Shape /\ RecentIsLatest /\ Inv /\ [Next]_vars => Inv'
  <2> SUFFICES ASSUME Shape, RecentIsLatest, Inv, [Next]_vars PROVE Inv'
    OBVIOUS
  <2>1. CommittedFirst' /\ Runs(rows) \subseteq Runs(rows)'
    BY CommittedFirstKept
  <2>2. ASSUME NEW v \in Evaluators, Publish(v) PROVE SignalsPersisted'
    <3>1. run[v] \in Runs(rows) /\ run[v] \in Nat
      BY <2>2 DEF Publish, CommittedFirst, Shape
    <3>2. Range(published') = Range(published) \cup {run[v]}
      <4>1. published' = Append(published, run[v]) /\ published \in Seq(Nat)
        BY <2>2 DEF Publish, Shape
      <4> QED
        BY <4>1, <3>1, AppendedRow
    <3>3. \A k \in Clients : Range(received'[k]) \subseteq Range(received[k]) \cup {run[v]}
      <4> TAKE k \in Clients
      <4>1. Range(Append(received[k], run[v])) = Range(received[k]) \cup {run[v]}
        <5>1. received[k] \in Seq(Nat)
          BY DEF Shape
        <5> QED
          BY <5>1, <3>1, AppendedRow
      <4>2. received'[k] = Append(received[k], run[v]) \/ received'[k] = received[k]
        BY <2>2 DEF Publish, Shape
      <4> QED
        BY <4>1, <4>2
    <3>4. latest' = latest
      BY <2>2 DEF Publish
    <3> QED
      BY <2>1, <3>1, <3>2, <3>3, <3>4 DEF SignalsPersisted
  <2>3. CASE Crash
    <3>1. published' = <<>> /\ \A k \in Clients : received'[k] = <<>> /\ latest'[k] = <<>>
      BY <2>3 DEF Crash
    <3> QED
      BY <2>1, <3>1, NoSignals DEF SignalsPersisted
  <2>4. ASSUME NEW k \in Clients, NEW on \in BOOLEAN, Connect(k, on) PROVE SignalsPersisted'
    <3>1. \A j \in Clients : /\ received'[j] \in {received[j], <<>>}
                             /\ latest'[j] \in {latest[j], <<>>}
      BY <2>4 DEF Connect, Shape
    <3>2. Range(<<>>) = {}
      BY DEF Range
    <3>3. published' = published
      BY <2>4 DEF Connect, bridge
    <3> QED
      BY <2>1, <3>1, <3>2, <3>3 DEF SignalsPersisted
  <2>5. ASSUME NEW k \in Clients, NEW limit \in Limits, ReadRecent(k, limit)
        PROVE  SignalsPersisted'
    <3>1. Range(Take(recent, RecentLimit(limit))) \subseteq Range(recent)
      <4>1. recent \in Seq(Nat) /\ RecentLimit(limit) \in Nat
        BY RecentLimitIsCapped DEF Shape
      <4> QED
        BY <4>1, TakenPrefix
    <3>2. Range(recent) \subseteq Range(published)
      <4>1. Len(published) \in Nat /\ DOMAIN published = 1 .. Len(published) /\ RecentCap \in Nat
        BY CapsAssumption DEF Shape
      <4> QED
        BY <4>1 DEF RecentIsLatest, Range, MinOf
    <3>3. published' = published /\ received' = received
      BY <2>5 DEF ReadRecent, bridge
    <3>4. \A j \in Clients : latest'[j] \in {latest[j], Take(recent, RecentLimit(limit))}
      BY <2>5 DEF ReadRecent, Shape
    <3> QED
      BY <2>1, <3>1, <3>2, <3>3, <3>4 DEF SignalsPersisted
  <2>6. CASE UNCHANGED <<published, received, latest>>
    BY <2>6, <2>1 DEF SignalsPersisted
  <2> QED
    BY <2>1, <2>2, <2>3, <2>4, <2>5, <2>6 DEF Next, Evaluate, Read, vars, Tick, Begin, Persist,
       LoseReply, ReadHistory, bridge, client
<1> QED
  BY <1>1, <1>2, ShapeAlways, RecentSignalsAreLatest, PTL DEF Spec

-----------------------------------------------------------------------------
\* A client that opens the stream and then reads the recent signals has every
\* signal after the oldest one it read, for every number of clients and
\* evaluations and every capacity of the buffer.
THEOREM ClientsCatchUp == Spec => []CaughtUp
<1> DEFINE Inv == CaughtUp
<1>1. Init => Inv
  BY DEF Init, CaughtUp
<1>2. Shape /\ RecentIsLatest /\ Inv /\ [Next]_vars => Inv'
  <2> SUFFICES ASSUME Shape, RecentIsLatest, Inv, [Next]_vars PROVE Inv'
    OBVIOUS
  <2>1. ASSUME NEW v \in Evaluators, Publish(v) PROVE CaughtUp'
    <3>1. run[v] \in Nat
      BY DEF Shape
    <3>2. /\ DOMAIN published = 1 .. Len(published) /\ Len(published) \in Nat
          /\ DOMAIN published' = 1 .. Len(published) + 1
          /\ published'[Len(published) + 1] = run[v]
          /\ \A i \in 1 .. Len(published) : published'[i] = published[i]
      BY <2>1, <3>1 DEF Publish, Shape
    <3>3. ASSUME NEW k \in Clients, stream[k]
          PROVE  Range(received'[k]) = Range(received[k]) \cup {run[v]}
      <4>1. received[k] \in Seq(Nat) /\ received'[k] = Append(received[k], run[v])
        BY <2>1, <3>3 DEF Publish, Shape
      <4> QED
        BY <4>1, <3>1, AppendedRow
    <3>4. UNCHANGED <<stream, latest, seen>>
      BY <2>1 DEF Publish
    <3>5. ASSUME NEW k \in Clients, stream'[k],
                 NEW i \in DOMAIN published', i > seen'[k] - Len(latest'[k])
          PROVE  published'[i] \in Range(latest'[k]) \cup Range(received'[k])
      <4>1. Range(received'[k]) = Range(received[k]) \cup {run[v]} /\ stream[k]
        BY <3>3, <3>4, <3>5
      <4>2. CASE i = Len(published) + 1
        BY <4>1, <4>2, <3>2
      <4>3. CASE i # Len(published) + 1
        <5>1. i \in DOMAIN published /\ i > seen[k] - Len(latest[k])
          BY <4>3, <3>2, <3>4, <3>5
        <5>2. published[i] \in Range(latest[k]) \cup Range(received[k])
          BY <4>1, <5>1 DEF CaughtUp
        <5> QED
          BY <5>1, <5>2, <4>1, <3>2, <3>4
      <4> QED
        BY <4>2, <4>3
    <3> QED
      BY <3>5 DEF CaughtUp
  <2>2. CASE Crash
    BY <2>2 DEF Crash, CaughtUp
  <2>3. ASSUME NEW k \in Clients, NEW on \in BOOLEAN, Connect(k, on) PROVE CaughtUp'
    <3>1. \A j \in Clients : j # k => /\ stream'[j] = stream[j] /\ received'[j] = received[j]
                                      /\ latest'[j] = latest[j] /\ seen'[j] = seen[j]
      BY <2>3 DEF Connect, Shape
    <3>2. latest'[k] = <<>> /\ seen'[k] = Len(published)
      BY <2>3 DEF Connect, Shape
    <3>3. published' = published /\ DOMAIN published = 1 .. Len(published)
      BY <2>3 DEF Connect, bridge, Shape
    <3>4. Len(latest'[k]) = 0 /\ Len(published) \in Nat
      BY <3>2 DEF Shape
    <3>5. \A i \in DOMAIN published' : ~ (i > seen'[k] - Len(latest'[k]))
      BY <3>2, <3>3, <3>4
    <3> QED
      BY <3>1, <3>3, <3>5 DEF CaughtUp
  <2>4. ASSUME NEW k \in Clients, NEW limit \in Limits, ReadRecent(k, limit) PROVE CaughtUp'
    <3> DEFINE answer == Take(recent, RecentLimit(limit))
    <3>1. \A j \in Clients : j # k => latest'[j] = latest[j] /\ seen'[j] = seen[j]
      BY <2>4 DEF ReadRecent, Shape
    <3>2. UNCHANGED <<stream, received, published>>
      BY <2>4 DEF ReadRecent, bridge
    <3>3. latest'[k] = answer /\ seen'[k] = Len(published)
      BY <2>4 DEF ReadRecent, Shape
    <3>4. /\ answer \in Seq(Nat) /\ Len(answer) =< Len(recent) /\ Len(answer) \in Nat
          /\ \A i \in 1 .. Len(answer) : answer[i] = recent[i]
      <4>1. RecentLimit(limit) \in Nat /\ recent \in Seq(Nat) /\ Len(recent) \in Nat
        BY RecentLimitIsCapped DEF Shape
      <4> DEFINE n == RecentLimit(limit)
      <4>2. answer = Take(recent, n) /\ n \in Nat
        BY <4>1
      <4> HIDE DEF n, answer
      <4>3. /\ answer \in Seq(Nat) /\ Len(answer) = MinOf(n, Len(recent))
            /\ \A i \in 1 .. MinOf(n, Len(recent)) : answer[i] = recent[i]
        <5>1. MinOf(n, Len(recent)) \in 0 .. Len(recent)
          BY <4>1, <4>2 DEF MinOf
        <5> QED
          BY <5>1, <4>1, <4>2 DEF Take
      <4> QED
        BY <4>1, <4>2, <4>3 DEF MinOf
    <3> HIDE DEF answer
    <3>5. /\ Len(published) \in Nat /\ DOMAIN published = 1 .. Len(published)
          /\ Len(recent) = MinOf(RecentCap, Len(published)) /\ RecentCap \in Nat
      BY CapsAssumption DEF Shape, RecentIsLatest, MinOf
    <3>6. ASSUME NEW i \in DOMAIN published, i > Len(published) - Len(answer)
          PROVE  published[i] \in Range(answer)
      <4> DEFINE j == Len(published) + 1 - i
      <4>1. j \in 1 .. Len(answer) /\ j \in 1 .. MinOf(RecentCap, Len(published))
        BY <3>4, <3>5, <3>6
      <4>2. answer[j] = published[Len(published) + 1 - j]
        BY <4>1, <3>4 DEF RecentIsLatest
      <4>3. Len(published) + 1 - j = i
        BY <3>5, <3>6
      <4>4. j \in DOMAIN answer
        BY <4>1, <3>4
      <4> QED
        BY <4>2, <4>3, <4>4 DEF Range
    <3> QED
      BY <3>1, <3>2, <3>3, <3>6 DEF CaughtUp
  <2>5. CASE UNCHANGED <<stream, received, latest, seen, published>>
    BY <2>5 DEF CaughtUp
  <2> QED
    BY <2>1, <2>2, <2>3, <2>4, <2>5 DEF Next, Evaluate, Read, vars, Tick, Begin, Persist,
       LoseReply, ReadHistory, bridge, client
<1> QED
  BY <1>1, <1>2, ShapeAlways, RecentSignalsAreLatest, PTL DEF Spec
=============================================================================
