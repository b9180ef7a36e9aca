---------------------------- MODULE EventLedger ----------------------------
(***************************************************************************)
(* What the recalculation promises of the events, whatever fails: a row is *)
(* open inside its write, then PENDING, and settled once.  It becomes      *)
(* PROCESSED only after every segment that existed before it has been      *)
(* evaluated on committed data that include it; it becomes FAILED for      *)
(* good, with one retry counted, and is never taken up again.              *)
(***************************************************************************)
EXTENDS Naturals

CONSTANTS Events, Segments, InitialSegments

VARIABLES
    event,    \* event[e]: "none", "open", "PENDING", "PROCESSED" or "FAILED"
    retries,  \* retries[e]: failures counted
    segment,  \* segment[s]: "absent", "live" or "deleted"
    before,   \* before[s]: events committed before s was created
    covered   \* covered[s]: events whose data some evaluation of s has used

Committed == {e \in Events : event[e] \in {"PENDING", "PROCESSED", "FAILED"}}
Pending   == {e \in Events : event[e] = "PENDING"}

\* The rows of S take a new status.
Become(S, status) == event' = [e \in Events |-> IF e \in S THEN status ELSE event[e]]

Init ==
    /\ event = [e \in Events |-> "none"]
    /\ retries = [e \in Events |-> 0]
    /\ segment = [s \in Segments |-> IF s \in InitialSegments THEN "live" ELSE "absent"]
    /\ before = [s \in Segments |-> {}]
    /\ covered = [s \in Segments |-> {}]

Record(e) ==
    /\ event[e] = "none"
    /\ Become({e}, "open")
    /\ UNCHANGED <<retries, segment, before, covered>>

Commit(e) ==
    /\ event[e] = "open"
    /\ Become({e}, "PENDING")
    /\ UNCHANGED <<retries, segment, before, covered>>

\* Open writes are undone, several at once when a process dies.
Rollback(S) ==
    /\ \A e \in S : event[e] = "open"
    /\ Become(S, "none")
    /\ UNCHANGED <<retries, segment, before, covered>>

CreateSegment(s) ==
    /\ segment[s] = "absent"
    /\ segment' = [segment EXCEPT ![s] = "live"]
    /\ before' = [before EXCEPT ![s] = Committed]
    /\ UNCHANGED <<event, retries, covered>>

DeleteSegment(s) ==
    /\ segment[s] = "live"
    /\ segment' = [segment EXCEPT ![s] = "deleted"]
    /\ UNCHANGED <<event, retries, before, covered>>

\* An evaluation of s persists what it has seen: no open write, and none undone.
Evaluate(s, seen) ==
    /\ seen \subseteq Committed
    /\ covered' = [covered EXCEPT ![s] = @ \cup seen]
    /\ UNCHANGED <<event, retries, segment, before>>

Process(S) ==
    /\ S \subseteq Pending
    /\ \A s \in Segments : segment[s] = "live" => S \subseteq before[s] \cup covered[s]
    /\ Become(S, "PROCESSED")
    /\ UNCHANGED <<retries, segment, before, covered>>

Fail(S) ==
    /\ S \subseteq Pending
    /\ Become(S, "FAILED")
    /\ retries' = [e \in Events |-> IF e \in S THEN retries[e] + 1 ELSE retries[e]]
    /\ UNCHANGED <<segment, before, covered>>

Next ==
    \/ \E e \in Events : Record(e) \/ Commit(e)
    \/ \E S \in SUBSET Events : Rollback(S) \/ Process(S) \/ Fail(S)
    \/ \E s \in Segments :
          \/ CreateSegment(s)
          \/ DeleteSegment(s)
          \/ \E seen \in SUBSET Events : Evaluate(s, seen)

ledger == <<event, retries, segment, before, covered>>

Spec == Init /\ [][Next]_ledger
=============================================================================
