------------------------ MODULE MC_CustomerActivity ------------------------
(***************************************************************************)
(* CustomerActivity with two advances, one recording and one evaluation at *)
(* a time; the requests of all share one bound.                            *)
(***************************************************************************)
EXTENDS CustomerActivity

\* A document with the given numbers and nothing else.
Document(type, numbers) ==
    [f \in Fields \cup {"ruleType"} |->
        IF f = "ruleType" THEN type
        ELSE IF f \in DOMAIN numbers THEN numbers[f] ELSE Undefined]

\* Each rule with a number or a default, and one that is refused.
DocumentsDef ==
    {Document("ACTIVE_BUYERS", [minTransactions |-> 2]),
     Document("VIP_CUSTOMERS", [lookbackDays |-> 1]),
     Document("RISK_GROUP", [inactivityDays |-> 1]),
     Document("RISK_GROUP", [minTransactions |-> 0])}

DefaultDaysDef == [ACTIVE_BUYERS |-> 2, VIP_CUSTOMERS |-> 2, RISK_GROUP |-> 2]

AmountsDef == {2, -1}
=============================================================================
