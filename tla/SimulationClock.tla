-------------------------- MODULE SimulationClock --------------------------
(***************************************************************************)
(* SimulationsService.advanceTime: transactions that read the only clock   *)
(* row, or create it, and write back a later time computed from what they  *)
(* read.  PostgreSQL runs them under READ COMMITTED: a write locks its row *)
(* until the transaction ends, a read does not.                            *)
(***************************************************************************)
EXTENDS Integers, Sequences

CONSTANTS
    Calls,        \* requests that may be served at the same time
    NoCall,       \* nobody
    Seconds,      \* amounts a request may ask for
    MaxWall,      \* bound: the last wall-clock time
    MaxAdvances   \* bound: requests in one behaviour

ASSUME CallsAssumption == NoCall \notin Calls
ASSUME SecondsAssumption == Seconds \subseteq Nat \ {0}
ASSUME BoundsAssumption == MaxWall \in Nat /\ MaxAdvances \in Nat

VARIABLES
    wall,      \* new Date()
    exists,    \* whether the row with key 'global' is committed
    clock,     \* its currentTime
    start,     \* the time it was first committed with (history)
    total,     \* the seconds of all committed advances (history)
    events,    \* committed clock events: previousTime and currentTime
    writer,    \* the call whose transaction has written the row, or NoCall
    requests,  \* requests so far
    pc,        \* pc[c]: the await call c is at
    seconds,   \* seconds[c]: dto.seconds
    base       \* base[c]: baseClock.currentTime

row   == <<exists, clock, start, total, events>>
call  == <<seconds, base>>
vars  == <<wall, row, writer, requests, pc, call>>

Tick ==
    /\ wall < MaxWall
    /\ wall' = wall + 1
    /\ UNCHANGED <<row, writer, requests, pc, call>>

Request(c, n) ==
    /\ pc[c] = "idle"
    /\ requests < MaxAdvances
    /\ requests' = requests + 1
    /\ pc' = [pc EXCEPT ![c] = "find"]
    /\ seconds' = [seconds EXCEPT ![c] = n]
    /\ UNCHANGED <<wall, row, writer, base>>

\* Mutant of BaseTime: the stored clock is never used.
WallTime == wall

\* The stored time, or the present.
BaseTime == IF exists THEN clock ELSE wall

FindClock(c) ==
    /\ pc[c] = "find"
    /\ base' = [base EXCEPT ![c] = BaseTime]
    /\ pc' = [pc EXCEPT ![c] = IF exists THEN "update" ELSE "create"]
    /\ UNCHANGED <<wall, row, writer, requests, seconds>>

\* The insert waits for the transaction of another insert.
CreateClock(c) ==
    /\ pc[c] = "create"
    /\ writer = NoCall
    /\ ~exists
    /\ writer' = c
    /\ pc' = [pc EXCEPT ![c] = "update"]
    /\ UNCHANGED <<wall, row, requests, call>>

\* The row is locked by no other transaction.
RowFree(c) == writer \in {NoCall, c}

\* The update waits for the row; what it will write was computed before.
UpdateClock(c) ==
    /\ pc[c] = "update"
    /\ RowFree(c)
    /\ writer' = c
    /\ pc' = [pc EXCEPT ![c] = "commit"]
    /\ UNCHANGED <<wall, row, requests, call>>

Answer(c) ==
    /\ pc' = [pc EXCEPT ![c] = "idle"]
    /\ seconds' = [seconds EXCEPT ![c] = 0]
    /\ base' = [base EXCEPT ![c] = 0]
    /\ UNCHANGED <<wall, requests>>

\* Mutant of Advanced: the clock is turned back.
TurnedBack(c) == base[c] - seconds[c]

\* currentTime
Advanced(c) == base[c] + seconds[c]

\* Clock and event become visible together.
Commit(c) ==
    /\ pc[c] = "commit"
    /\ exists' = TRUE
    /\ clock' = Advanced(c)
    /\ start' = IF exists THEN start ELSE base[c]
    /\ total' = total + seconds[c]
    /\ events' = Append(events, [from |-> base[c], to |-> Advanced(c)])
    /\ writer' = NoCall
    /\ Answer(c)

\* Mutant of KeyTaken: the insert is tried again, without another look at the row.
KeyTakenRetried(c) ==
    /\ pc[c] = "create"
    /\ exists
    /\ UNCHANGED vars

\* The transaction rolls back: the key is taken, or anything else fails.
KeyTaken(c) ==
    /\ pc[c] = "create"
    /\ exists
    /\ UNCHANGED <<row, writer>>
    /\ Answer(c)

Fail(c) ==
    /\ pc[c] # "idle"
    /\ writer' = IF writer = c THEN NoCall ELSE writer
    /\ UNCHANGED row
    /\ Answer(c)

-----------------------------------------------------------------------------
\* The row of the seed, or none.
Init ==
    /\ wall = 0
    /\ exists \in BOOLEAN
    /\ clock = 0
    /\ start = 0
    /\ total = 0
    /\ events = <<>>
    /\ writer = NoCall
    /\ requests = 0
    /\ pc = [c \in Calls |-> "idle"]
    /\ seconds = [c \in Calls |-> 0]
    /\ base = [c \in Calls |-> 0]

\* What the transaction of call c does next.
Statement(c) ==
    \/ FindClock(c)
    \/ CreateClock(c)
    \/ KeyTaken(c)
    \/ UpdateClock(c)
    \/ Commit(c)

Next ==
    \/ Tick
    \/ \E c \in Calls : (\E n \in Seconds : Request(c, n)) \/ Statement(c) \/ Fail(c)

Spec == Init /\ [][Next]_vars

\* The database answers every statement that waits for nobody.
FairSpec == Spec /\ \A c \in Calls : WF_vars(Statement(c))

-----------------------------------------------------------------------------
(* Properties                                                              *)

PC == {"idle", "find", "create", "update", "commit"}

\* Types of all variables.
TypeOK ==
    /\ wall \in 0 .. MaxWall
    /\ exists \in BOOLEAN
    /\ clock \in Nat
    /\ start \in Nat
    /\ total \in Nat
    /\ events \in Seq([from : Nat, to : Nat])
    /\ writer \in Calls \cup {NoCall}
    /\ requests \in 0 .. MaxAdvances
    /\ pc \in [Calls -> PC]
    /\ seconds \in [Calls -> Seconds \cup {0}]
    /\ base \in [Calls -> Nat]

\* However advances overlap, the clock is never ahead of all the seconds that
\* were asked for: an advance may be lost but never counts twice.
NothingCountedTwice == exists => clock =< start + total

\* Every recorded advance starts from a time the clock has really had: the
\* first one, or the end of an earlier advance, never one that rolled back.
StartsFromThePast ==
    \A i \in 1 .. Len(events) :
        \/ events[i].from = start
        \/ \E j \in 1 .. i - 1 : events[j].to = events[i].from

\* A commit moves the clock to a later time: "How many seconds to move the
\* simulation clock forward" (src/backend/src/modules/simulations/dto/
\* advance-simulation-time.dto.ts:6).
MovesForward == [][exists /\ events' # events => clock' > clock]_vars

\* Every request is answered: a call that waits for the row of another, or that
\* loses the race to create it, does not wait or try for ever.
Answered == \A c \in Calls : pc[c] # "idle" ~> pc[c] = "idle"
=============================================================================
