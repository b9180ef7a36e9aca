-------------------------- MODULE CustomerActivity --------------------------
(***************************************************************************)
(* The transactions of the customers and the rules that read them, beside  *)
(* the simulation clock that dates the ones and sets the windows of the    *)
(* others: SimulationsService.simulateTransaction, TransactionsService.    *)
(* create and evaluateDirectRule of SegmentEvaluationService.  One unit of *)
(* time is a day.  Each query is a statement of its own: whatever commits  *)
(* between two of them is seen by the second only.                         *)
(***************************************************************************)
EXTENDS SimulationClock, FiniteSets, Functions

CONSTANTS
    Customers,      \* the customers
    Buyers,         \* calls that may record a transaction at the same time
    Evaluators,     \* evaluations that may run at the same time
    Undefined,      \* a field that is absent, a set that is not there yet
    Documents,      \* rule documents, [ruleType, lookbackDays, ...]
    Dates,          \* occurredAt of a request
    Amounts,        \* amounts, which may be negative
    DefaultDays,    \* DefaultDays[ruleType]: the window without a number
    DefaultTotal,   \* minTotalAmount without a number
    MaxDeletions    \* bound: customers deleted

RuleTypes == {"ACTIVE_BUYERS", "VIP_CUSTOMERS", "RISK_GROUP"}

Fields == {"lookbackDays", "minTransactions", "minTotalAmount", "inactivityDays"}

ASSUME DocumentsAssumption ==
    \A document \in Documents, f \in Fields : document[f] \in Int \cup {Undefined}
ASSUME DefaultsAssumption == DefaultDays \in [RuleTypes -> Nat] /\ DefaultTotal \in Int
ASSUME RequestsAssumption == Dates \subseteq Nat /\ Amounts \subseteq Int

VARIABLES
    bought,     \* the committed transactions, in the order of their commits
    deleted,    \* customers with deletedAt set
    deed,       \* deed[b]: the await recording b is at
    item,       \* item[b]: the transaction it records
    stage,      \* stage[v]: the query evaluation v is at
    rule,       \* rule[v]: its rule
    threshold,  \* threshold[v]: the start of its window
    recently,   \* recently[v]: recentlyActive
    past,       \* past[v]: hadPastActivity
    found,      \* found[v]: the customers the rule selects
    chosen,     \* chosen[v]: the last answer
    first,      \* first[v]: Len(bought) when it set its window (history)
    ever,       \* ever[v]: who has met the rule since then (history)
    always      \* always[v]: who has always met it since then (history)

recordings  == <<deed, item>>
queries     == <<stage, rule, threshold, recently, past, found, chosen, first>>
history     == <<ever, always>>
activity    == <<bought, deleted, recordings, queries, history>>
clockVars   == <<wall, row, writer, pc, call>>
allVars     == <<vars, activity>>

\* Every request, whatever it asks for, counts towards the bound.
Requested == requests < MaxAdvances /\ requests' = requests + 1

\* getEffectiveNow
EffectiveNow == BaseTime

-----------------------------------------------------------------------------
(* What the rules ask                                                      *)

\* Mutant of Accepted: only the type is looked at.
AcceptedOfType(document) ==
    document.ruleType \in RuleTypes

\* parseDirectRule: each number that is there is positive, used or not.
Accepted(document) ==
    /\ document.ruleType \in RuleTypes
    /\ \A f \in Fields : document[f] = Undefined \/ document[f] > 0

Given(number, default) == IF number = Undefined THEN default ELSE number

\* lookbackDays or inactivityDays
Days(document) ==
    Given(IF document.ruleType = "RISK_GROUP" THEN document.inactivityDays
                                              ELSE document.lookbackDays,
          DefaultDays[document.ruleType])

\* occurredAt >= threshold
Since(t) == {i \in DOMAIN bought : bought[i].at >= t}

Of(c, places) == {i \in places : bought[i].customer = c}

\* The customers with a transaction at one of these places: distinct.
BuyersAt(places) == {bought[i].customer : i \in places}

Total(places) == SumFunction([i \in places |-> bought[i].amount])

\* Mutant of ActiveBuyers: the minimum itself does not suffice.
ActiveBuyersAbove(document, t) ==
    {c \in BuyersAt(Since(t)) :
        Cardinality(Of(c, Since(t))) > Given(document.minTransactions, 1)}

\* The groupBy of evaluateActiveBuyers.
ActiveBuyers(document, t) ==
    {c \in BuyersAt(Since(t)) :
        Cardinality(Of(c, Since(t))) >= Given(document.minTransactions, 1)}

\* The groupBy of evaluateVipCustomers.
VipCustomers(document, t) ==
    {c \in BuyersAt(Since(t)) :
        Total(Of(c, Since(t))) > Given(document.minTotalAmount, DefaultTotal)}

\* Mutant of AtRisk: the recent activity is not subtracted.
AtRiskEver(active, before) == before

\* riskCustomerIds
AtRisk(active, before) == before \ active

-----------------------------------------------------------------------------
(* What a rule means, for the properties                                   *)

\* Whether a customer meets a rule now, with the window that starts at t.
Meets(c, document, t) ==
    LET own == Of(c, DOMAIN bought)
        new == {i \in own : ~(bought[i].at < t)}
    IN  /\ c \notin deleted
        /\ own # {}
        /\ document.ruleType = "ACTIVE_BUYERS" =>
               \E some \in SUBSET new :
                   Cardinality(some) = Given(document.minTransactions, 1)
        /\ document.ruleType = "VIP_CUSTOMERS" =>
               new # {} /\ Total(new) > Given(document.minTotalAmount, DefaultTotal)
        /\ document.ruleType = "RISK_GROUP" => new = {}

\* The window is set and the answer is not there yet.
Asking(v) == stage[v] \in {"query", "existing"}

\* History: who meets the rules after this step.
Watch ==
    /\ ever' = [v \in Evaluators |->
                   IF Asking(v) THEN ever[v] \cup {c \in Customers : Meets(c, rule[v], threshold[v])'}
                                ELSE ever[v]]
    /\ always' = [v \in Evaluators |->
                   IF Asking(v) THEN {c \in always[v] : Meets(c, rule[v], threshold[v])'}
                                ELSE always[v]]

-----------------------------------------------------------------------------
(* Transactions                                                            *)

\* POST simulations/transactions
SimulateTransaction(b, c, date, amount) ==
    /\ deed[b] = "idle"
    /\ Requested
    /\ deed' = [deed EXCEPT ![b] = "now"]
    /\ item' = [item EXCEPT ![b] = [customer |-> c, at |-> date, amount |-> amount]]
    /\ UNCHANGED <<clockVars, bought, deleted, queries, history>>

\* dto.occurredAt ?? simulationNow
DateTransaction(b) ==
    /\ deed[b] = "now"
    /\ item' = [item EXCEPT ![b].at = Given(@, EffectiveNow)]
    /\ deed' = [deed EXCEPT ![b] = "find"]
    /\ UNCHANGED <<clockVars, requests, bought, deleted, queries, history>>

\* POST transactions
CreateTransaction(b, c, date, amount) ==
    /\ deed[b] = "idle"
    /\ Requested
    /\ deed' = [deed EXCEPT ![b] = "find"]
    /\ item' = [item EXCEPT ![b] = [customer |-> c, at |-> date, amount |-> amount]]
    /\ UNCHANGED <<clockVars, bought, deleted, queries, history>>

Dismiss(b) ==
    /\ deed' = [deed EXCEPT ![b] = "idle"]
    /\ item' = [item EXCEPT ![b] = Undefined]

\* The customer, or NotFoundException.
FindCustomer(b) ==
    /\ deed[b] = "find"
    /\ IF item[b].customer \in deleted
       THEN Dismiss(b)
       ELSE /\ deed' = [deed EXCEPT ![b] = "insert"]
            /\ UNCHANGED item
    /\ UNCHANGED <<clockVars, requests, bought, deleted, queries, history>>

\* The transaction commits, with its event.
InsertTransaction(b) ==
    /\ deed[b] = "insert"
    /\ bought' = Append(bought, item[b])
    /\ Dismiss(b)
    /\ UNCHANGED <<clockVars, requests, deleted, queries>>
    /\ Watch

\* The call fails and its transaction rolls back.
FailRecording(b) ==
    /\ deed[b] # "idle"
    /\ Dismiss(b)
    /\ UNCHANGED <<clockVars, requests, bought, deleted, queries, history>>

\* deletedAt is set by an operator: no endpoint does.
DeleteCustomer(c) ==
    /\ c \notin deleted
    /\ Cardinality(deleted) < MaxDeletions
    /\ deleted' = deleted \cup {c}
    /\ UNCHANGED <<clockVars, requests, bought, recordings, queries>>
    /\ Watch

-----------------------------------------------------------------------------
(* Evaluations                                                             *)

\* evaluateDirectRule is called, or the document is refused.
ReadRule(v, document) ==
    /\ stage[v] = "idle"
    /\ Requested
    /\ rule' = [rule EXCEPT ![v] = document]
    /\ stage' = [stage EXCEPT ![v] = IF Accepted(document) THEN "now" ELSE "idle"]
    /\ chosen' = [chosen EXCEPT ![v] = Undefined]
    /\ UNCHANGED <<clockVars, bought, deleted, recordings, threshold, recently, past, found,
                   first, history>>

\* effectiveNow, and subtractDays
SetWindow(v) ==
    /\ stage[v] = "now"
    /\ threshold' = [threshold EXCEPT ![v] = EffectiveNow - Days(rule[v])]
    /\ stage' = [stage EXCEPT ![v] = "query"]
    /\ first' = [first EXCEPT ![v] = Len(bought)]
    /\ LET meeting == {c \in Customers : Meets(c, rule[v], threshold'[v])}
       IN  /\ ever' = [ever EXCEPT ![v] = meeting]
           /\ always' = [always EXCEPT ![v] = meeting]
    /\ UNCHANGED <<clockVars, requests, bought, deleted, recordings, rule, recently, past,
                   found, chosen>>

\* filterExistingCustomerIds asks nothing about nobody.
Select(v, customers) ==
    /\ found' = [found EXCEPT ![v] = customers]
    /\ stage' = [stage EXCEPT ![v] = IF customers = {} THEN "idle" ELSE "existing"]
    /\ chosen' = [chosen EXCEPT ![v] = IF customers = {} THEN {} ELSE @]

QueryGroups(v) ==
    /\ stage[v] = "query"
    /\ \/ rule[v].ruleType = "ACTIVE_BUYERS" /\ Select(v, ActiveBuyers(rule[v], threshold[v]))
       \/ rule[v].ruleType = "VIP_CUSTOMERS" /\ Select(v, VipCustomers(rule[v], threshold[v]))
    /\ UNCHANGED <<clockVars, requests, bought, deleted, recordings, rule, threshold, recently,
                   past, first, history>>

\* The two queries of evaluateRiskGroup arrive in either order.
QueryRecent(v) ==
    /\ stage[v] = "query" /\ rule[v].ruleType = "RISK_GROUP" /\ recently[v] = Undefined
    /\ recently' = [recently EXCEPT ![v] = BuyersAt(Since(threshold[v]))]
    /\ UNCHANGED <<clockVars, requests, bought, deleted, recordings, stage, rule, threshold,
                   past, found, chosen, first, history>>

QueryPast(v) ==
    /\ stage[v] = "query" /\ rule[v].ruleType = "RISK_GROUP" /\ past[v] = Undefined
    /\ past' = [past EXCEPT ![v] = BuyersAt(DOMAIN bought \ Since(threshold[v]))]
    /\ UNCHANGED <<clockVars, requests, bought, deleted, recordings, stage, rule, threshold,
                   recently, found, chosen, first, history>>

JoinQueries(v) ==
    /\ stage[v] = "query" /\ recently[v] # Undefined /\ past[v] # Undefined
    /\ Select(v, AtRisk(recently[v], past[v]))
    /\ recently' = [recently EXCEPT ![v] = Undefined]
    /\ past' = [past EXCEPT ![v] = Undefined]
    /\ UNCHANGED <<clockVars, requests, bought, deleted, recordings, rule, threshold, first,
                   history>>

\* filterExistingCustomerIds
FilterExisting(v) ==
    /\ stage[v] = "existing"
    /\ chosen' = [chosen EXCEPT ![v] = found[v] \ deleted]
    /\ stage' = [stage EXCEPT ![v] = "idle"]
    /\ UNCHANGED <<clockVars, requests, bought, deleted, recordings, rule, threshold, recently,
                   past, found, first, history>>

-----------------------------------------------------------------------------
ActivityInit ==
    /\ Init
    /\ bought = <<>>
    /\ deleted = {}
    /\ deed = [b \in Buyers |-> "idle"]
    /\ item = [b \in Buyers |-> Undefined]
    /\ stage = [v \in Evaluators |-> "idle"]
    /\ rule = [v \in Evaluators |-> Undefined]
    /\ threshold = [v \in Evaluators |-> 0]
    /\ recently = [v \in Evaluators |-> Undefined]
    /\ past = [v \in Evaluators |-> Undefined]
    /\ found = [v \in Evaluators |-> {}]
    /\ chosen = [v \in Evaluators |-> Undefined]
    /\ first = [v \in Evaluators |-> 0]
    /\ ever = [v \in Evaluators |-> {}]
    /\ always = [v \in Evaluators |-> {}]

RecordStep(b) ==
    \/ \E c \in Customers, amount \in Amounts :
           \/ \E date \in Dates \cup {Undefined} : SimulateTransaction(b, c, date, amount)
           \/ \E date \in Dates : CreateTransaction(b, c, date, amount)
    \/ DateTransaction(b)
    \/ FindCustomer(b)
    \/ InsertTransaction(b)
    \/ FailRecording(b)

EvaluateStep(v) ==
    \/ \E document \in Documents : ReadRule(v, document)
    \/ SetWindow(v)
    \/ QueryGroups(v)
    \/ QueryRecent(v)
    \/ QueryPast(v)
    \/ JoinQueries(v)
    \/ FilterExisting(v)

ActivityNext ==
    \/ Next /\ UNCHANGED activity
    \/ \E c \in Customers : DeleteCustomer(c)
    \/ \E b \in Buyers : RecordStep(b)
    \/ \E v \in Evaluators : EvaluateStep(v)

\* The database answers every statement of an advance that waits for nobody.
ActivitySpec ==
    /\ ActivityInit /\ [][ActivityNext]_allVars
    /\ \A c \in Calls : WF_allVars(Statement(c) /\ UNCHANGED activity)

-----------------------------------------------------------------------------
(* Properties                                                              *)

\* A transaction, and one that may have no date yet.
Purchase == [customer : Customers, at : Nat, amount : Int]
Wish     == [customer : Customers, at : Nat \cup {Undefined}, amount : Int]

\* Types of the activity; a rule that is evaluated has positive numbers.
ActivityTypeOK ==
    /\ bought \in Seq(Purchase)
    /\ deleted \subseteq Customers
    /\ deed \in [Buyers -> {"idle", "now", "find", "insert"}]
    /\ item \in [Buyers -> {Undefined} \cup Wish]
    /\ \A b \in Buyers :
          /\ deed[b] = "now" => item[b] \in Wish
          /\ deed[b] \in {"find", "insert"} => item[b] \in Purchase
    /\ stage \in [Evaluators -> {"idle", "now", "query", "existing"}]
    /\ rule \in [Evaluators -> {Undefined} \cup Documents]
    /\ \A v \in Evaluators :
          stage[v] # "idle" =>
              /\ rule[v] \in Documents
              /\ rule[v].ruleType \in RuleTypes
              /\ \A f \in Fields : rule[v][f] = Undefined \/ rule[v][f] > 0
    /\ threshold \in [Evaluators -> Int]
    /\ first \in [Evaluators -> Nat]
    /\ recently \in [Evaluators -> {Undefined} \cup SUBSET Customers]
    /\ past \in [Evaluators -> {Undefined} \cup SUBSET Customers]
    /\ chosen \in [Evaluators -> {Undefined} \cup SUBSET Customers]
    /\ found \in [Evaluators -> SUBSET Customers]
    /\ ever \in [Evaluators -> SUBSET Customers]
    /\ always \in [Evaluators -> SUBSET Customers]

\* The evaluation has its window and its answer.
Answers(v) == stage[v] = "idle" /\ chosen[v] # Undefined

\* Whoever meets the rule all the time while its queries run is selected,
\* whatever is recorded for others, or for them, between two queries.
NobodyMissed == \A v \in Evaluators : Answers(v) => always[v] \subseteq chosen[v]

\* A transaction of c, dated before the window, that was recorded after it was set.
Backdated(c, v) ==
    \E i \in first[v] + 1 .. Len(bought) :
        bought[i].customer = c /\ bought[i].at < threshold[v]

\* Whoever is selected met the rule at some moment while its queries ran. Only
\* the risk group has an exception, as it reads the transactions twice: a
\* transaction recorded in between with a date before the window.
NobodyInvented ==
    \A v \in Evaluators :
        Answers(v) =>
            \A c \in chosen[v] \ ever[v] :
                rule[v].ruleType = "RISK_GROUP" /\ Backdated(c, v)
=============================================================================
