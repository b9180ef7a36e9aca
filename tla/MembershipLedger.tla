-------------------------- MODULE MembershipLedger --------------------------
(***************************************************************************)
(* What membership persistence promises: every segment has a set of ACTIVE *)
(* customers, and one evaluation moves that set and appends, in the same   *)
(* step, exactly the ADDED and REMOVED delta rows of the move.             *)
(***************************************************************************)
EXTENDS Sequences

CONSTANTS Segments, Customers

VARIABLES
    active,   \* active[s]: the ACTIVE customers of s
    deltas    \* deltas[s][c]: the change types recorded for c in s, in order

Recorded(s, next) ==
    [c \in Customers |->
        IF c \in next \ active[s] THEN Append(deltas[s][c], "ADDED")
        ELSE IF c \in active[s] \ next THEN Append(deltas[s][c], "REMOVED")
        ELSE deltas[s][c]]

Init ==
    /\ active = [s \in Segments |-> {}]
    /\ deltas = [s \in Segments |-> [c \in Customers |-> <<>>]]

Move(s, next) ==
    /\ active' = [active EXCEPT ![s] = next]
    /\ deltas' = [deltas EXCEPT ![s] = Recorded(s, next)]

Next == \E s \in Segments, next \in SUBSET Customers : Move(s, next)

Spec == Init /\ [][Next]_<<active, deltas>>
=============================================================================
