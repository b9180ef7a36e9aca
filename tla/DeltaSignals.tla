---------------------------- MODULE DeltaSignals ----------------------------
(***************************************************************************)
(* What becomes of the deltas of one segment: the rows an evaluation       *)
(* commits, the signal it publishes after that, the recent buffer and the  *)
(* stream of SegmentDeltaSignalBridgeService, and the clients that read    *)
(* them.  A signal and the rows it announces bear the number of their      *)
(* evaluation run.                                                         *)
(***************************************************************************)
EXTENDS Integers, Sequences, FiniteSets, Functions

CONSTANTS
    Evaluators,     \* evaluations that may run at the same time
    Clients,        \* clients of the read endpoints
    RecentCap,      \* DEFAULT_RECENT_CAP
    RecentDefault,  \* limit of GET recent without a number
    HistoryCap,     \* largest limit of GET deltas
    HistoryDefault, \* limit of GET deltas without a number
    Limits,         \* limits that clients ask for
    NoLimit,        \* no limit, or one that is no number
    MaxTime,        \* bound: instants of the effective clock
    MaxRuns,        \* bound: evaluations in one behaviour
    MaxLosses       \* bound: crashes, and commits whose reply is lost

ASSUME CapsAssumption ==
    /\ RecentCap \in Nat \ {0} /\ RecentDefault \in Nat \ {0}
    /\ HistoryCap \in Nat \ {0} /\ HistoryDefault \in 1 .. HistoryCap
ASSUME LimitsAssumption == Limits \ {NoLimit} \subseteq Int
ASSUME BoundsAssumption == MaxTime \in Nat \ {0} /\ MaxRuns \in Nat /\ MaxLosses \in Nat

VARIABLES
    clock,      \* getEffectiveNow
    runs,       \* evaluations begun so far
    losses,     \* crashes and lost replies so far
    rows,       \* the delta rows, in the order of their commits
    lost,       \* runs whose call ended without publishing them (history)
    recent,     \* the recent buffer
    published,  \* signals published since the process started (history)
    pc,         \* pc[v]: the step evaluator v is at
    run,        \* run[v]: its evaluation run
    at,         \* at[v]: effectiveNow, read before the transaction
    stream,     \* stream[k]: whether client k has the stream open
    received,   \* received[k]: signals the stream has brought
    latest,     \* latest[k]: its last answer of GET recent, since it opened the stream
    seen,       \* seen[k]: Len(published) at that answer (history)
    history,    \* history[k]: its last answer of GET deltas, since then
    asked       \* asked[k]: Len(rows) at that answer, NotAsked before (history)

database   == <<clock, losses, rows, lost>>
bridge     == <<recent, published>>
evaluation == <<runs, pc, run, at>>
client     == <<stream, received, latest, seen, history, asked>>
vars       == <<database, bridge, evaluation, client>>

NotAsked == -1

MinOf(a, b) == IF a < b THEN a ELSE b
MaxOf(a, b) == IF a > b THEN a ELSE b

\* The first n elements, or all.
Take(seq, n) == SubSeq(seq, 1, MinOf(n, Len(seq)))

Runs(items) == {row.run : row \in Range(items)}

-----------------------------------------------------------------------------
(* Evaluations                                                             *)

Tick ==
    /\ clock < MaxTime
    /\ clock' = clock + 1
    /\ UNCHANGED <<losses, rows, lost, bridge, evaluation, client>>

\* Mutant of StepAfter: the signal leaves before the transaction.
StepAfterPublishFirst == [begin |-> "publish", publish |-> "persist", persist |-> "idle"]

\* The order of the steps of an evaluation.
StepAfter == [begin |-> "persist", persist |-> "publish", publish |-> "idle"]

Begin(v) ==
    /\ pc[v] = "idle"
    /\ runs < MaxRuns
    /\ runs' = runs + 1
    /\ run' = [run EXCEPT ![v] = runs + 1]
    /\ at' = [at EXCEPT ![v] = clock]
    /\ pc' = [pc EXCEPT ![v] = StepAfter.begin]
    /\ UNCHANGED <<database, bridge, client>>

\* The transaction commits the delta row, under a random id.
Persist(v, id) ==
    /\ pc[v] = "persist"
    /\ \A row \in Range(rows) : row.id # id
    /\ rows' = Append(rows, [run |-> run[v], at |-> at[v], id |-> id])
    /\ pc' = [pc EXCEPT ![v] = StepAfter.persist]
    /\ UNCHANGED <<clock, losses, lost, bridge, runs, run, at, client>>

\* The reply to the COMMIT is lost: the call throws before its publication.
LoseReply(v, id) ==
    /\ losses < MaxLosses
    /\ pc[v] = "persist"
    /\ \A row \in Range(rows) : row.id # id
    /\ rows' = Append(rows, [run |-> run[v], at |-> at[v], id |-> id])
    /\ lost' = lost \cup {run[v]}
    /\ losses' = losses + 1
    /\ pc' = [pc EXCEPT ![v] = "idle"]
    /\ UNCHANGED <<clock, bridge, runs, run, at, client>>

\* Mutant of Remembered: the oldest signals are kept.
RememberedOldest(signal) == Take(Append(recent, signal), RecentCap)

\* [signal, ...this.recent].slice(0, DEFAULT_RECENT_CAP)
Remembered(signal) == Take(<<signal>> \o recent, RecentCap)

\* publish: the buffer, then every open stream, in one synchronous call.
Publish(v) ==
    /\ pc[v] = "publish"
    /\ recent' = Remembered(run[v])
    /\ published' = Append(published, run[v])
    /\ received' = [k \in Clients |-> IF stream[k] THEN Append(received[k], run[v])
                                      ELSE received[k]]
    /\ pc' = [pc EXCEPT ![v] = StepAfter.publish]
    /\ UNCHANGED <<database, runs, run, at, stream, latest, seen, history, asked>>

\* The process dies and starts again: buffer, streams and calls are gone.
Crash ==
    /\ losses < MaxLosses
    /\ losses' = losses + 1
    /\ recent' = <<>>
    /\ published' = <<>>
    /\ lost' = lost \cup {run[v] : v \in {w \in Evaluators : pc[w] = "publish"}}
    /\ pc' = [v \in Evaluators |-> "idle"]
    /\ stream' = [k \in Clients |-> FALSE]
    /\ received' = [k \in Clients |-> <<>>]
    /\ latest' = [k \in Clients |-> <<>>]
    /\ seen' = [k \in Clients |-> 0]
    /\ history' = [k \in Clients |-> <<>>]
    /\ asked' = [k \in Clients |-> NotAsked]
    /\ UNCHANGED <<clock, rows, runs, run, at>>

-----------------------------------------------------------------------------
(* Clients                                                                 *)

\* GET stream, or its end (on is FALSE): what was read before no longer counts.
Connect(k, on) ==
    /\ stream[k] # on
    /\ stream' = [stream EXCEPT ![k] = on]
    /\ received' = [received EXCEPT ![k] = <<>>]
    /\ latest' = [latest EXCEPT ![k] = <<>>]
    /\ seen' = [seen EXCEPT ![k] = Len(published)]
    /\ history' = [history EXCEPT ![k] = <<>>]
    /\ asked' = [asked EXCEPT ![k] = NotAsked]
    /\ UNCHANGED <<database, bridge, evaluation>>

Number(limit, default) == IF limit = NoLimit THEN default ELSE limit

\* recent and getRecent
RecentLimit(limit) == MinOf(MaxOf(Number(limit, RecentDefault), 1), RecentCap)

\* GET recent, from a client that has the stream open.
ReadRecent(k, limit) ==
    /\ stream[k]
    /\ latest' = [latest EXCEPT ![k] = Take(recent, RecentLimit(limit))]
    /\ seen' = [seen EXCEPT ![k] = Len(published)]
    /\ UNCHANGED <<database, bridge, evaluation, stream, received, history, asked>>

\* Mutant of HistoryLimit: no upper limit.
HistoryLimitUncapped(limit) == MaxOf(1, Number(limit, HistoryDefault))

\* parseLimit
HistoryLimit(limit) == MaxOf(1, MinOf(HistoryCap, Number(limit, HistoryDefault)))

\* Mutant of Precedes: the oldest first.
PrecedesOldest(p, q) == p.at < q.at \/ (p.at = q.at /\ p.id < q.id)

\* orderBy: effectiveAt desc, id desc
Precedes(p, q) == p.at > q.at \/ (p.at = q.at /\ p.id > q.id)

\* The rows in that order.
Ordered ==
    [i \in 1 .. Len(rows) |->
        CHOOSE row \in Range(rows) :
            Cardinality({p \in Range(rows) : Precedes(p, row)}) = i - 1]

\* GET deltas. The code counts the rows, for `total`, with a query of its own that may
\* see others; asked[k] is the true number at the read of the page.
ReadHistory(k, limit) ==
    /\ stream[k]
    /\ history' = [history EXCEPT ![k] = Take(Ordered, HistoryLimit(limit))]
    /\ asked' = [asked EXCEPT ![k] = Len(rows)]
    /\ UNCHANGED <<database, bridge, evaluation, stream, received, latest, seen>>

-----------------------------------------------------------------------------
Init ==
    /\ clock = 1
    /\ runs = 0
    /\ losses = 0
    /\ rows = <<>>
    /\ lost = {}
    /\ recent = <<>>
    /\ published = <<>>
    /\ pc = [v \in Evaluators |-> "idle"]
    /\ run = [v \in Evaluators |-> 0]
    /\ at = [v \in Evaluators |-> 1]
    /\ stream = [k \in Clients |-> FALSE]
    /\ received = [k \in Clients |-> <<>>]
    /\ latest = [k \in Clients |-> <<>>]
    /\ seen = [k \in Clients |-> 0]
    /\ history = [k \in Clients |-> <<>>]
    /\ asked = [k \in Clients |-> NotAsked]

Evaluate(v) ==
    \/ Begin(v)
    \/ \E id \in 1 .. MaxRuns : Persist(v, id) \/ LoseReply(v, id)
    \/ Publish(v)

Read(k) ==
    \/ \E on \in BOOLEAN : Connect(k, on)
    \/ \E limit \in Limits : ReadRecent(k, limit) \/ ReadHistory(k, limit)

Next ==
    \/ Tick
    \/ Crash
    \/ \E v \in Evaluators : Evaluate(v)
    \/ \E k \in Clients : Read(k)

Spec == Init /\ [][Next]_vars

-----------------------------------------------------------------------------
(* Properties                                                              *)

RowType == [run : 1 .. MaxRuns, at : 1 .. MaxTime, id : 1 .. MaxRuns]

\* The variables keep their types, each row has an id of its own, and no answer
\* is longer than its documented limit, whatever limit the client asks for.
TypeOK ==
    /\ clock \in 1 .. MaxTime /\ runs \in 0 .. MaxRuns /\ losses \in 0 .. MaxLosses
    /\ rows \in Seq(RowType)
    /\ \A i, j \in DOMAIN rows : rows[i].id = rows[j].id => i = j
    /\ lost \subseteq 1 .. MaxRuns
    /\ recent \in Seq(1 .. MaxRuns) /\ published \in Seq(1 .. MaxRuns)
    /\ pc \in [Evaluators -> {"idle", "persist", "publish"}]
    /\ run \in [Evaluators -> 0 .. MaxRuns] /\ at \in [Evaluators -> 1 .. MaxTime]
    /\ stream \in [Clients -> BOOLEAN]
    /\ received \in [Clients -> Seq(1 .. MaxRuns)]
    /\ latest \in [Clients -> Seq(1 .. MaxRuns)]
    /\ seen \in [Clients -> Nat]
    /\ history \in [Clients -> Seq(RowType)]
    /\ \A k \in Clients : Len(latest[k]) =< RecentCap /\ Len(history[k]) =< HistoryCap
    /\ asked \in [Clients -> Nat \cup {NotAsked}]

\* However long the burst, the buffer holds the newest signals since the
\* process started, the newest first, and as many as it can (publish, slice).
RecentIsLatest ==
    recent = [i \in 1 .. MinOf(RecentCap, Len(published)) |->
                  published[Len(published) + 1 - i]]

\* A signal is of committed rows: a client told of a change finds it in the
\* history, whatever crashed in between (publication after the transaction).
SignalsPersisted ==
    /\ Range(published) \subseteq Runs(rows)
    /\ \A k \in Clients : Range(received[k]) \cup Range(latest[k]) \subseteq Runs(rows)

InFlight == {run[v] : v \in {w \in Evaluators : pc[w] = "publish"}}

\* A client that opens the stream and then reads the whole history, a page as long
\* as there are rows, misses no change but the ones whose signal a crash or a lost reply swallowed: every
\* other one is in its history, in its stream, or about to be published.
Reconciled ==
    \A k \in Clients :
        stream[k] /\ asked[k] # NotAsked /\ Len(history[k]) = asked[k] =>
            Runs(rows) \subseteq
                Runs(history[k]) \cup Range(received[k]) \cup lost \cup InFlight

\* A client that opens the stream and then reads the recent signals has no gap
\* between the two: every signal after the oldest one it read has reached it.
CaughtUp ==
    \A k \in Clients :
        stream[k] =>
            \A i \in DOMAIN published :
                i > seen[k] - Len(latest[k]) =>
                    published[i] \in Range(latest[k]) \cup Range(received[k])

\* The commits up to the n-th had later and later effective instants.
InOrder(n) == \A i \in 1 .. n - 1 : rows[i].at < rows[i + 1].at

\* The random ids order what the effective instant does not: only while each
\* evaluation commits with a later instant than the one before it is a page of
\* the history the last commits, the newest first, which replays the membership.
HistoryReplays ==
    \A k \in Clients :
        asked[k] # NotAsked /\ InOrder(asked[k]) =>
            \A i \in DOMAIN history[k] : history[k][i] = rows[asked[k] + 1 - i]
=============================================================================
