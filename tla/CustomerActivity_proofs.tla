---------------------- MODULE CustomerActivity_proofs ----------------------
(***************************************************************************)
(* Proofs about the rules: whoever meets a rule while its queries run is   *)
(* selected, and whoever is selected has met it, but for the torn read of  *)
(* the risk group.                                                         *)
(***************************************************************************)
EXTENDS CustomerActivity, SimulationClock_proofs, FiniteSetTheorems

-----------------------------------------------------------------------------
(* Types                                                                   *)

\* The windows are whole days.
LEMMA DaysAreWhole ==
    ASSUME NEW document \in Documents, document.ruleType \in RuleTypes
    PROVE  Days(document) \in Int
<1>1. /\ document["inactivityDays"] \in Int \cup {Undefined}
      /\ document["lookbackDays"] \in Int \cup {Undefined}
  BY DocumentsAssumption DEF Fields
<1>2. DefaultDays[document.ruleType] \in Int
  BY DefaultsAssumption
<1> QED
  BY <1>1, <1>2 DEF Days, Given

\* The places of transactions hold customers.
LEMMA BuyersAreCustomers ==
    ASSUME bought \in Seq(Purchase), NEW places \in SUBSET DOMAIN bought
    PROVE  BuyersAt(places) \subseteq Customers
<1>1. \A i \in DOMAIN bought : bought[i] \in Purchase
  OBVIOUS
<1> QED
  BY <1>1 DEF BuyersAt, Purchase

\* The clock keeps its types beside the activity.
LEMMA ClockKept == TypeOK /\ [ActivityNext]_allVars => TypeOK'
<1> SUFFICES ASSUME TypeOK, [ActivityNext]_allVars PROVE TypeOK'
  OBVIOUS
<1>1. CASE Next \/ UNCHANGED vars
  BY <1>1, TypeStep
<1>2. CASE UNCHANGED clockVars /\ (requests' = requests \/ Requested)
  BY <1>2, BoundsAssumption DEF TypeOK, clockVars, row, call, Requested
<1>3. ASSUME NEW b \in Buyers, RecordStep(b) PROVE UNCHANGED clockVars /\ (requests' = requests \/ Requested)
  BY <1>3 DEF RecordStep, SimulateTransaction, CreateTransaction, DateTransaction, FindCustomer,
              InsertTransaction, FailRecording
<1>4. ASSUME NEW v \in Evaluators, EvaluateStep(v) PROVE UNCHANGED clockVars /\ (requests' = requests \/ Requested)
  BY <1>4 DEF EvaluateStep, ReadRule, SetWindow, QueryGroups, QueryRecent, QueryPast, JoinQueries,
              FilterExisting
<1>5. ASSUME NEW c \in Customers, DeleteCustomer(c) PROVE UNCHANGED clockVars /\ requests' = requests
  BY <1>5 DEF DeleteCustomer
<1> QED
  BY <1>1, <1>2, <1>3, <1>4, <1>5 DEF ActivityNext, allVars

\* The types of the transactions.
RecordTypes ==
    /\ bought \in Seq(Purchase)
    /\ deed \in [Buyers -> {"idle", "now", "find", "insert"}]
    /\ item \in [Buyers -> {Undefined} \cup Wish]
    /\ \A b \in Buyers : /\ deed[b] = "now" => item[b] \in Wish
                         /\ deed[b] \in {"find", "insert"} => item[b] \in Purchase

\* The types of what an evaluation holds between its steps.
QueryTypes ==
    /\ stage \in [Evaluators -> {"idle", "now", "query", "existing"}]
    /\ rule \in [Evaluators -> {Undefined} \cup Documents]
    /\ \A v \in Evaluators :
          stage[v] # "idle" =>
              /\ rule[v] \in Documents
              /\ rule[v].ruleType \in RuleTypes
              /\ \A f \in Fields : rule[v][f] = Undefined \/ rule[v][f] > 0
    /\ threshold \in [Evaluators -> Int]
    /\ first \in [Evaluators -> Nat]
    /\ recently \in [Evaluators -> {Undefined} \cup SUBSET Customers]
    /\ past \in [Evaluators -> {Undefined} \cup SUBSET Customers]
    /\ chosen \in [Evaluators -> {Undefined} \cup SUBSET Customers]
    /\ found \in [Evaluators -> SUBSET Customers]

\* The types of the histories.
WatchTypes == ever \in [Evaluators -> SUBSET Customers] /\ always \in [Evaluators -> SUBSET Customers]

LEMMA TypeParts ==
    ActivityTypeOK <=> RecordTypes /\ QueryTypes /\ WatchTypes /\ deleted \subseteq Customers
BY DEF ActivityTypeOK, RecordTypes, QueryTypes, WatchTypes

\* What is watched are customers.
LEMMA WatchKept == WatchTypes /\ Watch => WatchTypes'
BY DEF WatchTypes, Watch

LEMMA RecordKept ==
    ASSUME TypeOK, ActivityTypeOK, NEW b \in Buyers, RecordStep(b)
    PROVE  /\ RecordTypes'
           /\ UNCHANGED <<deleted, queries>>
           /\ UNCHANGED <<bought, history>> \/ (Watch /\ bought' = Append(bought, item[b]) /\ item[b] \in Purchase)
<1> USE DEF ActivityTypeOK
<1>1. Purchase \subseteq Wish
  BY DEF Purchase, Wish
<1>2. ASSUME NEW c \in Customers, NEW amount \in Amounts, NEW date \in Dates \cup {Undefined},
             SimulateTransaction(b, c, date, amount)
      PROVE  RecordTypes'
  <2>1. [customer |-> c, at |-> date, amount |-> amount] \in Wish
    BY RequestsAssumption DEF Wish
  <2> QED
    BY <1>2, <2>1 DEF SimulateTransaction, RecordTypes
<1>3. ASSUME NEW c \in Customers, NEW amount \in Amounts, NEW date \in Dates,
             CreateTransaction(b, c, date, amount)
      PROVE  RecordTypes'
  <2>1. [customer |-> c, at |-> date, amount |-> amount] \in Purchase
    BY RequestsAssumption DEF Purchase
  <2> QED
    BY <1>1, <1>3, <2>1 DEF CreateTransaction, RecordTypes
<1>4. CASE DateTransaction(b)
  <2>1. EffectiveNow \in Nat
    BY DEF EffectiveNow, BaseTime, TypeOK
  <2>2. item[b] \in Wish
    BY <1>4 DEF DateTransaction
  <2>3. [item[b] EXCEPT !.at = Given(@, EffectiveNow)] \in Purchase
    BY <2>1, <2>2 DEF Wish, Purchase, Given
  <2>4. item' = [item EXCEPT ![b] = [item[b] EXCEPT !.at = Given(@, EffectiveNow)]]
    BY <1>4 DEF DateTransaction
  <2> QED
    BY <1>1, <1>4, <2>3, <2>4 DEF DateTransaction, RecordTypes
<1>5. CASE FindCustomer(b)
  BY <1>5 DEF FindCustomer, Dismiss, RecordTypes
<1>6. CASE InsertTransaction(b)
  <2>1. item[b] \in Purchase /\ bought' = Append(bought, item[b])
    BY <1>6 DEF InsertTransaction
  <2>2. bought' \in Seq(Purchase)
    BY <2>1
  <2> QED
    BY <1>6, <2>1, <2>2 DEF InsertTransaction, Dismiss, RecordTypes
<1>7. CASE FailRecording(b)
  BY <1>7 DEF FailRecording, Dismiss, RecordTypes
<1>8. /\ UNCHANGED <<deleted, queries>>
      /\ UNCHANGED <<bought, history>> \/ (Watch /\ bought' = Append(bought, item[b]) /\ item[b] \in Purchase)
  BY DEF RecordStep, SimulateTransaction, CreateTransaction, DateTransaction, FindCustomer,
              InsertTransaction, FailRecording
<1> QED
  BY <1>2, <1>3, <1>4, <1>5, <1>6, <1>7, <1>8 DEF RecordStep

LEMMA EvaluateKept ==
    ASSUME TypeOK, ActivityTypeOK, NEW v \in Evaluators, EvaluateStep(v)
    PROVE  QueryTypes' /\ WatchTypes' /\ UNCHANGED <<bought, deleted, recordings>>
<1>0. UNCHANGED <<bought, deleted, recordings>>
  BY DEF EvaluateStep, ReadRule, SetWindow, QueryGroups, QueryRecent, QueryPast, JoinQueries,
         FilterExisting
<1>a. QueryTypes /\ WatchTypes /\ bought \in Seq(Purchase) /\ deleted \subseteq Customers
  BY TypeParts DEF RecordTypes
<1>1. ASSUME NEW document \in Documents, ReadRule(v, document) PROVE QueryTypes' /\ WatchTypes'
  <2>1. stage'[v] # "idle" => /\ document.ruleType \in RuleTypes
                              /\ \A f \in Fields : document[f] = Undefined \/ document[f] > 0
    BY <1>1, <1>a DEF ReadRule, Accepted, QueryTypes
  <2> QED
    BY <1>1, <1>a, <2>1 DEF ReadRule, QueryTypes, WatchTypes, history
<1>2. CASE SetWindow(v)
  <2>1. EffectiveNow - Days(rule[v]) \in Int
    <3>1. EffectiveNow \in Nat
      BY DEF EffectiveNow, BaseTime, TypeOK
    <3>2. Days(rule[v]) \in Int
      BY <1>2, <1>a, DaysAreWhole DEF SetWindow, QueryTypes
    <3> QED
      BY <3>1, <3>2
  <2>2. Len(bought) \in Nat
    BY <1>a
  <2>3. WatchTypes'
    BY <1>2, <1>a DEF SetWindow, WatchTypes
  <2> QED
    BY <1>2, <1>a, <2>1, <2>2, <2>3 DEF SetWindow, QueryTypes
<1>3. ASSUME NEW customers \in SUBSET Customers, Select(v, customers), stage[v] = "query",
             UNCHANGED <<rule, threshold, first, history>>,
             recently' = recently \/ recently' = [recently EXCEPT ![v] = Undefined],
             past' = past \/ past' = [past EXCEPT ![v] = Undefined]
      PROVE  QueryTypes' /\ WatchTypes'
  BY <1>3, <1>a DEF Select, QueryTypes, WatchTypes, history
<1>4. CASE QueryGroups(v)
  <2>1. Since(threshold[v]) \subseteq DOMAIN bought
    BY DEF Since
  <2>2. ActiveBuyers(rule[v], threshold[v]) \subseteq Customers
        /\ VipCustomers(rule[v], threshold[v]) \subseteq Customers
    BY <1>a, <2>1, BuyersAreCustomers DEF ActiveBuyers, VipCustomers
  <2> QED
    BY <1>4, <1>3, <2>2 DEF QueryGroups
<1>5. CASE QueryRecent(v)
  <2>1. BuyersAt(Since(threshold[v])) \subseteq Customers
    BY <1>a, BuyersAreCustomers DEF Since
  <2> QED
    BY <1>5, <1>a, <2>1 DEF QueryRecent, QueryTypes, WatchTypes, history
<1>6. CASE QueryPast(v)
  <2>1. BuyersAt(DOMAIN bought \ Since(threshold[v])) \subseteq Customers
    BY <1>a, BuyersAreCustomers
  <2> QED
    BY <1>6, <1>a, <2>1 DEF QueryPast, QueryTypes, WatchTypes, history
<1>7. CASE JoinQueries(v)
  <2>1. AtRisk(recently[v], past[v]) \subseteq Customers
    BY <1>7, <1>a DEF JoinQueries, AtRisk, QueryTypes
  <2> QED
    BY <1>7, <1>3, <2>1 DEF JoinQueries
<1>8. CASE FilterExisting(v)
  BY <1>8, <1>a DEF FilterExisting, QueryTypes, WatchTypes, history
<1> QED
  BY <1>0, <1>1, <1>2, <1>4, <1>5, <1>6, <1>7, <1>8 DEF EvaluateStep

\* Every step keeps the types of the activity.
LEMMA ActivityTypeKept ==
    TypeOK /\ ActivityTypeOK /\ [ActivityNext]_allVars => ActivityTypeOK'
<1> SUFFICES ASSUME TypeOK, ActivityTypeOK, [ActivityNext]_allVars PROVE ActivityTypeOK'
  OBVIOUS
<1>a. RecordTypes /\ QueryTypes /\ WatchTypes /\ deleted \subseteq Customers
  BY TypeParts
<1>1. CASE UNCHANGED activity
  BY <1>1 DEF ActivityTypeOK, activity, recordings, queries, history
<1>2. ASSUME NEW b \in Buyers, RecordStep(b) PROVE ActivityTypeOK'
  <2>1. RecordTypes' /\ UNCHANGED <<deleted, queries>> /\ (UNCHANGED history \/ Watch)
    BY <1>2, RecordKept
  <2>2. WatchTypes'
    BY <1>a, <2>1, WatchKept DEF WatchTypes, history
  <2>3. QueryTypes'
    BY <1>a, <2>1 DEF QueryTypes, queries
  <2> QED
    BY <1>a, <2>1, <2>2, <2>3, TypeParts DEF ActivityTypeOK, RecordTypes, QueryTypes, WatchTypes
<1>3. ASSUME NEW v \in Evaluators, EvaluateStep(v) PROVE ActivityTypeOK'
  <2>1. QueryTypes' /\ WatchTypes' /\ UNCHANGED <<bought, deleted, recordings>>
    BY <1>3, EvaluateKept
  <2>2. RecordTypes'
    BY <1>a, <2>1 DEF RecordTypes, recordings
  <2> QED
    BY <1>a, <2>1, <2>2 DEF ActivityTypeOK, RecordTypes, QueryTypes, WatchTypes
<1>4. ASSUME NEW c \in Customers, DeleteCustomer(c) PROVE ActivityTypeOK'
  <2>1. /\ UNCHANGED <<bought, recordings, queries>> /\ Watch
        /\ deleted' \subseteq Customers
    BY <1>4, <1>a DEF DeleteCustomer
  <2>2. WatchTypes'
    BY <1>a, <2>1, WatchKept
  <2> QED
    BY <1>a, <2>1, <2>2 DEF ActivityTypeOK, RecordTypes, QueryTypes, WatchTypes, recordings, queries
<1> QED
  BY <1>1, <1>2, <1>3, <1>4 DEF ActivityNext, allVars

LEMMA TypesAlways == ActivitySpec => [](TypeOK /\ ActivityTypeOK)
<1>1. ActivityInit => TypeOK /\ ActivityTypeOK
  <2>1. ActivityInit => TypeOK
    BY BoundsAssumption DEF ActivityInit, Init, TypeOK, PC
  <2>2. ActivityInit => ActivityTypeOK
    BY DEF ActivityInit, ActivityTypeOK
  <2> QED
    BY <2>1, <2>2
<1> QED
  BY <1>1, ClockKept, ActivityTypeKept, PTL DEF ActivitySpec

\* Transactions, rules and answers keep their types, and no rule is evaluated
\* with a number that is not positive (parseDirectRule).
THEOREM ActivityTypeCorrect == ActivitySpec => []ActivityTypeOK
BY TypesAlways, PTL

-----------------------------------------------------------------------------
(* What the queries say of one customer                                    *)

\* A finite set has a subset of every size up to its own.
LEMMA SubsetOfSize ==
    ASSUME NEW S, IsFiniteSet(S), NEW n \in Nat, n =< Cardinality(S)
    PROVE  \E T \in SUBSET S : Cardinality(T) = n
<1>1. Cardinality(S) \in Nat /\ ExistsBijection(1 .. Cardinality(S), S)
  BY FS_CardinalityType
<1>2. PICK f : f \in Bijection(1 .. Cardinality(S), S)
  BY <1>1 DEF ExistsBijection
<1> DEFINE T == {f[i] : i \in 1 .. n}
           g == [i \in 1 .. n |-> f[i]]
<1>3. 1 .. n \subseteq 1 .. Cardinality(S)
  BY <1>1
<1>4. /\ f \in [1 .. Cardinality(S) -> S]
      /\ \A i, j \in 1 .. Cardinality(S) : f[i] = f[j] => i = j
  BY <1>2 DEF Bijection, Injection, IsInjective
<1>5. T \subseteq S
  BY <1>3, <1>4
<1>6. g \in Bijection(1 .. n, T)
  BY <1>3, <1>4 DEF Bijection, Injection, Surjection, IsInjective
<1>7. IsFiniteSet(1 .. n) /\ Cardinality(1 .. n) = n
  BY FS_Interval
<1>8. ExistsBijection(1 .. n, T)
  BY <1>6 DEF ExistsBijection
<1>9. Cardinality(T) = n
  <2> HIDE DEF T
  <2> QED
    BY <1>7, <1>8, FS_Bijection
<1> QED
  BY <1>5, <1>9

\* minTransactions is at least one.
LEMMA MinimumIsPositive ==
    ASSUME NEW document \in Documents,
           \A f \in Fields : document[f] = Undefined \/ document[f] > 0
    PROVE  Given(document.minTransactions, 1) \in Nat \ {0}
<1>1. /\ document["minTransactions"] \in Int \cup {Undefined}
      /\ document["minTransactions"] = Undefined \/ document["minTransactions"] > 0
  BY DocumentsAssumption DEF Fields
<1> QED
  BY <1>1 DEF Given

\* The transactions that are not before a window are those since its start.
LEMMA NotBeforeIsSince ==
    ASSUME bought \in Seq(Purchase), NEW t \in Int, NEW c
    PROVE  /\ {i \in Of(c, DOMAIN bought) : ~(bought[i].at < t)} = Of(c, Since(t))
           /\ Of(c, Since(t)) \subseteq Of(c, DOMAIN bought)
           /\ IsFiniteSet(Of(c, Since(t)))
           /\ c \in BuyersAt(Since(t)) <=> Of(c, Since(t)) # {}
           /\ c \in BuyersAt(DOMAIN bought) <=> Of(c, DOMAIN bought) # {}
<1>1. \A i \in DOMAIN bought : bought[i].at \in Nat
  <2>1. \A i \in DOMAIN bought : bought[i] \in Purchase
    OBVIOUS
  <2> QED
    BY <2>1 DEF Purchase
<1>2. {i \in Of(c, DOMAIN bought) : ~(bought[i].at < t)} = Of(c, Since(t))
  BY <1>1 DEF Of, Since
<1>3. Of(c, Since(t)) \subseteq 1 .. Len(bought)
  BY DEF Of, Since
<1>4. IsFiniteSet(Of(c, Since(t)))
  <2>1. Len(bought) \in Int
    OBVIOUS
  <2>2. IsFiniteSet(1 .. Len(bought))
    BY <2>1, FS_Interval
  <2> QED
    BY <1>3, <2>2, FS_Subset
<1> QED
  BY <1>2, <1>4 DEF Of, Since, BuyersAt

LEMMA MeetsActive ==
    ASSUME bought \in Seq(Purchase), NEW t \in Int, NEW c, NEW document \in Documents,
           document.ruleType = "ACTIVE_BUYERS",
           \A f \in Fields : document[f] = Undefined \/ document[f] > 0
    PROVE  Meets(c, document, t) <=> c \notin deleted /\ c \in ActiveBuyers(document, t)
<1> DEFINE new == Of(c, Since(t))
           own == Of(c, DOMAIN bought)
           min == Given(document.minTransactions, 1)
<1>1. min \in Nat /\ min # 0
  BY MinimumIsPositive
<1>2. /\ {i \in own : ~(bought[i].at < t)} = new
      /\ new \subseteq own /\ IsFiniteSet(new)
      /\ c \in BuyersAt(Since(t)) <=> new # {}
  BY NotBeforeIsSince
<1>3. Meets(c, document, t) <=> /\ c \notin deleted /\ own # {}
                               /\ \E some \in SUBSET new : Cardinality(some) = min
  BY <1>2 DEF Meets
<1>4. c \in ActiveBuyers(document, t) <=> new # {} /\ Cardinality(new) >= min
  BY <1>2 DEF ActiveBuyers
<1> HIDE DEF new, own, min
<1>5. Cardinality(new) \in Nat
  BY <1>2, FS_CardinalityType
<1>6. ASSUME NEW some \in SUBSET new, Cardinality(some) = min
      PROVE  new # {} /\ Cardinality(new) >= min
  <2>1. Cardinality(some) =< Cardinality(new)
    BY <1>2, FS_Subset
  <2>2. Cardinality({}) = 0
    BY FS_EmptySet
  <2>3. new # {}
    BY <1>1, <1>6, <2>2
  <2> QED
    BY <1>1, <1>5, <1>6, <2>1, <2>3
<1>7. ASSUME Cardinality(new) >= min
      PROVE  \E some \in SUBSET new : Cardinality(some) = min
  <2>1. min =< Cardinality(new)
    BY <1>1, <1>5, <1>7
  <2> QED
    BY <1>1, <1>2, <2>1, SubsetOfSize
<1> QED
  BY <1>2, <1>3, <1>4, <1>6, <1>7

LEMMA MeetsVip ==
    ASSUME bought \in Seq(Purchase), NEW t \in Int, NEW c, NEW document,
           document.ruleType = "VIP_CUSTOMERS"
    PROVE  Meets(c, document, t) <=> c \notin deleted /\ c \in VipCustomers(document, t)
<1> DEFINE new == Of(c, Since(t))
           own == Of(c, DOMAIN bought)
<1>1. /\ {i \in own : ~(bought[i].at < t)} = new
      /\ new \subseteq own
      /\ c \in BuyersAt(Since(t)) <=> new # {}
  BY NotBeforeIsSince
<1>2. Meets(c, document, t) <=> /\ c \notin deleted /\ own # {} /\ new # {}
                               /\ Total(new) > Given(document.minTotalAmount, DefaultTotal)
  BY <1>1 DEF Meets
<1>3. c \in VipCustomers(document, t) <=>
          new # {} /\ Total(new) > Given(document.minTotalAmount, DefaultTotal)
  BY <1>1 DEF VipCustomers
<1> HIDE DEF new, own
<1> QED
  BY <1>1, <1>2, <1>3

LEMMA MeetsRisk ==
    ASSUME bought \in Seq(Purchase), NEW t \in Int, NEW c, NEW document,
           document.ruleType = "RISK_GROUP"
    PROVE  Meets(c, document, t) <=> /\ c \notin deleted
                                    /\ c \in BuyersAt(DOMAIN bought \ Since(t))
                                    /\ c \notin BuyersAt(Since(t))
<1> DEFINE new == Of(c, Since(t))
           own == Of(c, DOMAIN bought)
<1>1. /\ {i \in own : ~(bought[i].at < t)} = new
      /\ new \subseteq own
      /\ c \in BuyersAt(Since(t)) <=> new # {}
  BY NotBeforeIsSince
<1>2. Meets(c, document, t) <=> c \notin deleted /\ own # {} /\ new = {}
  BY <1>1 DEF Meets
<1>3. c \in BuyersAt(DOMAIN bought \ Since(t)) <=> own \ new # {}
  BY DEF BuyersAt, Of, Since
<1> HIDE DEF new, own
<1> QED
  BY <1>1, <1>2, <1>3

\* The second query of a risk group finds whoever has bought before the window.
LEMMA PastBuyers ==
    ASSUME bought \in Seq(Purchase), NEW t \in Int, NEW c
    PROVE  c \in BuyersAt(DOMAIN bought \ Since(t)) <=>
               \E i \in DOMAIN bought : bought[i].customer = c /\ bought[i].at < t
<1>1. \A i \in DOMAIN bought : bought[i].at \in Nat
  <2>1. \A i \in DOMAIN bought : bought[i] \in Purchase
    OBVIOUS
  <2> QED
    BY <2>1 DEF Purchase
<1> QED
  BY <1>1 DEF BuyersAt, Since

\* Nothing but the transactions, the deletions and the rule itself matters.
LEMMA MeetsStill ==
    ASSUME NEW c, NEW v \in Evaluators, UNCHANGED <<bought, deleted>>,
           rule'[v] = rule[v], threshold'[v] = threshold[v]
    PROVE  Meets(c, rule[v], threshold[v])' <=> Meets(c, rule[v], threshold[v])
BY DEF Meets, Of, Total

-----------------------------------------------------------------------------
(* The answers                                                             *)

MeetsNow(v) == {c \in Customers : Meets(c, rule[v], threshold[v])}

\* The histories of a running evaluation are true to the present.
Observed(v) == Asking(v) => MeetsNow(v) \subseteq ever[v] /\ always[v] \subseteq MeetsNow(v)

\* Only the queries of a risk group leave something behind.
Asked(v) ==
    /\ stage[v] # "query" => recently[v] = Undefined /\ past[v] = Undefined
    /\ recently[v] # Undefined \/ past[v] # Undefined => rule[v].ruleType = "RISK_GROUP"
    /\ first[v] =< Len(bought)

\* Whoever has met the rule so far is in no way of being left out.
Kept(v) ==
    /\ recently[v] # Undefined => always[v] \cap recently[v] = {}
    /\ past[v] # Undefined => always[v] \subseteq past[v]
    /\ stage[v] = "existing" => always[v] \subseteq found[v]
    /\ Answers(v) => always[v] \subseteq chosen[v]

\* c has a transaction dated before the window among those at these places.
BoughtBefore(c, v, places) ==
    \E i \in places : bought[i].customer = c /\ bought[i].at < threshold[v]

\* c met the rule, or is an exception.
Excused(c, v) == c \in ever[v] \/ (rule[v].ruleType = "RISK_GROUP" /\ Backdated(c, v))

\* Whoever is about to be selected has met the rule, was deleted or is excused.
Earned(v) ==
    /\ recently[v] # Undefined =>
           \A c \in Customers \ recently[v] :
               BoughtBefore(c, v, 1 .. first[v]) => c \in ever[v] \cup deleted
    /\ past[v] # Undefined => \A c \in past[v] : BoughtBefore(c, v, DOMAIN bought)
    /\ stage[v] = "existing" => \A c \in found[v] : c \in deleted \/ Excused(c, v)
    /\ Answers(v) => \A c \in chosen[v] : Excused(c, v)

AnswerInv(v) == Observed(v) /\ Asked(v) /\ Kept(v) /\ Earned(v)

AnswersInv == \A v \in Evaluators : AnswerInv(v)

\* Nothing that evaluation v sees has changed.
Undisturbed(v) ==
    /\ UNCHANGED <<bought, deleted>>
    /\ stage'[v] = stage[v] /\ rule'[v] = rule[v] /\ threshold'[v] = threshold[v]
    /\ recently'[v] = recently[v] /\ past'[v] = past[v] /\ found'[v] = found[v]
    /\ chosen'[v] = chosen[v] /\ first'[v] = first[v]
    /\ ever'[v] = ever[v] /\ always'[v] = always[v]

LEMMA MeetsNowStill ==
    ASSUME NEW v \in Evaluators, UNCHANGED <<bought, deleted>>,
           rule'[v] = rule[v], threshold'[v] = threshold[v]
    PROVE  MeetsNow(v)' = MeetsNow(v)
<1>1. \A c \in Customers :
          Meets(c, rule[v], threshold[v])' <=> Meets(c, rule[v], threshold[v])
  BY MeetsStill
<1> QED
  BY <1>1 DEF MeetsNow

LEMMA UndisturbedKept ==
    ASSUME NEW v \in Evaluators, AnswerInv(v), Undisturbed(v)
    PROVE  AnswerInv(v)'
<1>1. MeetsNow(v)' = MeetsNow(v)
  BY MeetsNowStill DEF Undisturbed
<1>2. Observed(v)'
  BY <1>1 DEF AnswerInv, Observed, Asking, Undisturbed
<1>3. Asked(v)' /\ Kept(v)'
  BY DEF AnswerInv, Asked, Kept, Answers, Undisturbed
<1>4. Earned(v)'
  BY DEF AnswerInv, Earned, BoughtBefore, Excused, Backdated, Answers, Undisturbed
<1> QED
  BY <1>2, <1>3, <1>4 DEF AnswerInv

LEMMA PlacesGrow ==
    ASSUME NEW f \in Nat, NEW a \in Nat, NEW b \in Nat, f =< a, a =< b
    PROVE  /\ f =< b /\ 1 .. f \subseteq 1 .. a /\ 1 .. a \subseteq 1 .. b
           /\ f + 1 .. a \subseteq 1 .. a /\ f + 1 .. a \subseteq f + 1 .. b
OBVIOUS

\* A transaction or a deletion that commits beside an evaluation.
LEMMA GrowthKept ==
    ASSUME ActivityTypeOK, NEW v \in Evaluators, AnswerInv(v), Watch, UNCHANGED queries,
           bought' = bought \/ \E item_ \in Purchase : bought' = Append(bought, item_),
           deleted \subseteq deleted'
    PROVE  AnswerInv(v)'
<1>1. bought \in Seq(Purchase) /\ Len(bought) \in Nat /\ DOMAIN bought = 1 .. Len(bought)
  BY DEF ActivityTypeOK
<1>2. /\ Len(bought') \in Nat /\ Len(bought) =< Len(bought') /\ DOMAIN bought' = 1 .. Len(bought')
      /\ \A i \in DOMAIN bought : bought'[i] = bought[i]
  BY <1>1
<1>3. /\ ever[v] \subseteq ever'[v] /\ always'[v] \subseteq always[v]
      /\ Asking(v) => MeetsNow(v)' \subseteq ever'[v] /\ always'[v] \subseteq MeetsNow(v)'
  BY DEF Watch, MeetsNow, ActivityTypeOK, Meets, Of, Total
<1>4. first[v] \in Nat /\ first[v] =< Len(bought)
  BY DEF ActivityTypeOK, AnswerInv, Asked
<1>5. UNCHANGED <<stage, rule, threshold, recently, past, found, chosen, first>>
  BY DEF queries
<1>6. /\ first[v] =< Len(bought') /\ 1 .. first[v] \subseteq DOMAIN bought
      /\ DOMAIN bought \subseteq DOMAIN bought'
      /\ first[v] + 1 .. Len(bought) \subseteq DOMAIN bought
      /\ first[v] + 1 .. Len(bought) \subseteq first[v] + 1 .. Len(bought')
  <2>1. Len(bought') \in Nat /\ Len(bought) =< Len(bought') /\ DOMAIN bought' = 1 .. Len(bought')
    BY <1>2
  <2> QED
    BY <1>1, <1>4, <2>1, PlacesGrow
<1>7. Observed(v)'
  BY <1>3, <1>5 DEF Observed, Asking
<1>8. Asked(v)'
  BY <1>5, <1>6 DEF AnswerInv, Asked
<1>9. Kept(v)'
  BY <1>3, <1>5 DEF AnswerInv, Kept, Answers
<1>10. Earned(v)'
  <2>1. \A c : /\ BoughtBefore(c, v, 1 .. first[v])' => BoughtBefore(c, v, 1 .. first[v])
               /\ BoughtBefore(c, v, DOMAIN bought) => BoughtBefore(c, v, DOMAIN bought)'
    BY <1>2, <1>5, <1>6 DEF BoughtBefore
  <2>2. \A c : Excused(c, v) => Excused(c, v)'
    BY <1>2, <1>3, <1>5, <1>6 DEF Excused, Backdated
  <2> QED
    BY <1>3, <1>5, <2>1, <2>2 DEF AnswerInv, Earned, Answers
<1> QED
  BY <1>7, <1>8, <1>9, <1>10 DEF AnswerInv

\* What the parts of the type invariant give for one evaluation.
LEMMA EvaluationTyped ==
    ASSUME ActivityTypeOK, NEW v \in Evaluators
    PROVE  /\ bought \in Seq(Purchase) /\ threshold[v] \in Int
           /\ Len(bought) \in Nat /\ DOMAIN bought = 1 .. Len(bought)
           /\ first[v] \in Nat
           /\ ever[v] \subseteq Customers /\ always[v] \subseteq Customers
           /\ found[v] \subseteq Customers
           /\ past[v] # Undefined => past[v] \subseteq Customers
           /\ stage[v] # "idle" =>
                  /\ rule[v] \in Documents
                  /\ \A f \in Fields : rule[v][f] = Undefined \/ rule[v][f] > 0
BY DEF ActivityTypeOK

LEMMA ReadRuleKept ==
    ASSUME ActivityTypeOK, NEW v \in Evaluators, AnswerInv(v),
           NEW document \in Documents, ReadRule(v, document)
    PROVE  AnswerInv(v)'
<1>1. /\ stage[v] = "idle" /\ stage'[v] \in {"now", "idle"} /\ chosen'[v] = Undefined
      /\ UNCHANGED <<bought, recently, past, first>>
  BY DEF ReadRule, ActivityTypeOK
<1>2. recently[v] = Undefined /\ past[v] = Undefined /\ first[v] =< Len(bought)
  BY <1>1 DEF AnswerInv, Asked
<1> QED
  BY <1>1, <1>2 DEF AnswerInv, Observed, Asked, Kept, Earned, Asking, Answers

LEMMA SetWindowKept ==
    ASSUME ActivityTypeOK, NEW v \in Evaluators, AnswerInv(v), SetWindow(v)
    PROVE  AnswerInv(v)'
<1>1. /\ stage[v] = "now" /\ stage'[v] = "query" /\ first'[v] = Len(bought)
      /\ UNCHANGED <<bought, deleted, rule, recently, past>>
  BY DEF SetWindow, ActivityTypeOK
<1>2. ever'[v] = MeetsNow(v)' /\ always'[v] = MeetsNow(v)'
  BY DEF SetWindow, ActivityTypeOK, MeetsNow, Meets, Of, Total
<1>3. recently[v] = Undefined /\ past[v] = Undefined /\ Len(bought) \in Nat
  BY <1>1, EvaluationTyped DEF AnswerInv, Asked
<1> QED
  BY <1>1, <1>2, <1>3 DEF AnswerInv, Observed, Asked, Kept, Earned, Asking, Answers

\* The queries of a rule have selected whom they should.
LEMMA SelectKept ==
    ASSUME ActivityTypeOK, NEW v \in Evaluators, AnswerInv(v), NEW customers \in SUBSET Customers,
           Select(v, customers), stage[v] = "query",
           UNCHANGED <<bought, deleted, rule, threshold, first, history>>,
           recently'[v] = Undefined, past'[v] = Undefined,
           always[v] \subseteq customers,
           \A c \in customers : c \in deleted \/ Excused(c, v)
    PROVE  AnswerInv(v)'
<1>1. MeetsNow(v)' = MeetsNow(v)
  BY MeetsNowStill
<1>2. /\ found'[v] = customers
      /\ \/ customers = {} /\ stage'[v] = "idle" /\ chosen'[v] = {}
         \/ customers # {} /\ stage'[v] = "existing"
  BY DEF Select, ActivityTypeOK
<1>3. Observed(v)' /\ Asked(v)' /\ Kept(v)'
  BY <1>1, <1>2 DEF AnswerInv, Observed, Asked, Kept, Asking, Answers, history
<1>4. \A c : Excused(c, v) => Excused(c, v)'
  BY DEF Excused, Backdated, history
<1>5. Earned(v)'
  BY <1>2, <1>4 DEF Earned, Answers
<1> QED
  BY <1>3, <1>5 DEF AnswerInv

LEMMA QueryGroupsKept ==
    ASSUME ActivityTypeOK, NEW v \in Evaluators, AnswerInv(v), QueryGroups(v)
    PROVE  AnswerInv(v)'
<1> DEFINE active == ActiveBuyers(rule[v], threshold[v])
           vip == VipCustomers(rule[v], threshold[v])
<1>1. /\ stage[v] = "query"
      /\ UNCHANGED <<bought, deleted, rule, threshold, first, history, recently, past>>
      /\ \/ rule[v].ruleType = "ACTIVE_BUYERS" /\ Select(v, active)
         \/ rule[v].ruleType = "VIP_CUSTOMERS" /\ Select(v, vip)
  BY DEF QueryGroups
<1>2. recently[v] = Undefined /\ past[v] = Undefined
  BY <1>1 DEF AnswerInv, Asked
<1>3. always[v] \subseteq MeetsNow(v) /\ MeetsNow(v) \subseteq ever[v]
  BY <1>1 DEF AnswerInv, Observed, Asking
<1>4. active \subseteq Customers /\ vip \subseteq Customers
  BY EvaluationTyped, BuyersAreCustomers DEF ActiveBuyers, VipCustomers, Since
<1>5. CASE rule[v].ruleType = "ACTIVE_BUYERS" /\ Select(v, active)
  <2>1. \A c : Meets(c, rule[v], threshold[v]) <=> c \notin deleted /\ c \in active
    BY <1>1, <1>5, EvaluationTyped, MeetsActive
  <2> HIDE DEF active
  <2>2. always[v] \subseteq active /\ \A c \in active : c \in deleted \/ Excused(c, v)
    BY <1>3, <1>4, <2>1 DEF MeetsNow, Excused
  <2> QED
    BY <1>1, <1>2, <1>4, <1>5, <2>2, SelectKept
<1>6. CASE rule[v].ruleType = "VIP_CUSTOMERS" /\ Select(v, vip)
  <2>1. \A c : Meets(c, rule[v], threshold[v]) <=> c \notin deleted /\ c \in vip
    BY <1>1, <1>6, EvaluationTyped, MeetsVip
  <2> HIDE DEF vip
  <2>2. always[v] \subseteq vip /\ \A c \in vip : c \in deleted \/ Excused(c, v)
    BY <1>3, <1>4, <2>1 DEF MeetsNow, Excused
  <2> QED
    BY <1>1, <1>2, <1>4, <1>6, <2>2, SelectKept
<1> QED
  BY <1>1, <1>5, <1>6

\* What the two queries of a risk group say while its histories are true.
LEMMA RiskSeen ==
    ASSUME ActivityTypeOK, NEW v \in Evaluators, AnswerInv(v), stage[v] = "query",
           rule[v].ruleType = "RISK_GROUP"
    PROVE  LET recent == BuyersAt(Since(threshold[v]))
               before == BuyersAt(DOMAIN bought \ Since(threshold[v]))
           IN  /\ always[v] \cap recent = {} /\ always[v] \subseteq before
               /\ \A c \in before : BoughtBefore(c, v, DOMAIN bought)
               /\ \A c \in Customers \ recent :
                      BoughtBefore(c, v, DOMAIN bought) => c \in ever[v] \cup deleted
<1> DEFINE recent == BuyersAt(Since(threshold[v]))
           before == BuyersAt(DOMAIN bought \ Since(threshold[v]))
<1>1. always[v] \subseteq MeetsNow(v) /\ MeetsNow(v) \subseteq ever[v]
  BY DEF AnswerInv, Observed, Asking
<1>2. bought \in Seq(Purchase) /\ threshold[v] \in Int
  BY EvaluationTyped
<1>3. \A c : Meets(c, rule[v], threshold[v]) <=>
                  c \notin deleted /\ c \in before /\ c \notin recent
  BY <1>2, MeetsRisk
<1>4. \A c : BoughtBefore(c, v, DOMAIN bought) <=> c \in before
  BY <1>2, PastBuyers DEF BoughtBefore
<1> HIDE DEF recent, before
<1>5. /\ always[v] \cap recent = {} /\ always[v] \subseteq before
      /\ \A c \in before : BoughtBefore(c, v, DOMAIN bought)
      /\ \A c \in Customers \ recent :
             BoughtBefore(c, v, DOMAIN bought) => c \in ever[v] \cup deleted
  BY <1>1, <1>3, <1>4 DEF MeetsNow
<1> QED
  BY <1>5 DEF recent, before

LEMMA QueryRiskKept ==
    ASSUME ActivityTypeOK, NEW v \in Evaluators, AnswerInv(v), QueryRecent(v) \/ QueryPast(v)
    PROVE  AnswerInv(v)'
<1> DEFINE recent == BuyersAt(Since(threshold[v]))
           before == BuyersAt(DOMAIN bought \ Since(threshold[v]))
<1>1. /\ stage[v] = "query" /\ rule[v].ruleType = "RISK_GROUP"
      /\ UNCHANGED <<bought, deleted, stage, rule, threshold, found, chosen, first, ever, always>>
      /\ \/ recently'[v] = recent /\ past' = past
         \/ recently' = recently /\ past'[v] = before
  BY DEF QueryRecent, QueryPast, ActivityTypeOK, history
<1>2. /\ always[v] \cap recent = {} /\ always[v] \subseteq before
      /\ \A c \in before : BoughtBefore(c, v, DOMAIN bought)
      /\ \A c \in Customers \ recent :
             BoughtBefore(c, v, DOMAIN bought) => c \in ever[v] \cup deleted
  BY <1>1, RiskSeen
<1> HIDE DEF recent, before
<1>3. \A c : BoughtBefore(c, v, 1 .. first[v]) => BoughtBefore(c, v, DOMAIN bought)
  <2>1. 1 .. first[v] \subseteq DOMAIN bought
    BY EvaluationTyped, PlacesGrow DEF AnswerInv, Asked
  <2> QED
    BY <2>1 DEF BoughtBefore
<1>4. MeetsNow(v)' = MeetsNow(v)
  BY <1>1, MeetsNowStill
<1>5. Observed(v)' /\ Asked(v)'
  BY <1>1, <1>4 DEF AnswerInv, Observed, Asked, Asking
<1>6. Kept(v)'
  BY <1>1, <1>2 DEF AnswerInv, Kept, Answers
<1>7. Earned(v)'
  <2>1. /\ \A c : BoughtBefore(c, v, 1 .. first[v])' <=> BoughtBefore(c, v, 1 .. first[v])
        /\ \A c : BoughtBefore(c, v, DOMAIN bought)' <=> BoughtBefore(c, v, DOMAIN bought)
    BY <1>1 DEF BoughtBefore
  <2> QED
    BY <1>1, <1>2, <1>3, <2>1 DEF AnswerInv, Earned, Answers
<1> QED
  BY <1>5, <1>6, <1>7 DEF AnswerInv

LEMMA JoinQueriesKept ==
    ASSUME ActivityTypeOK, NEW v \in Evaluators, AnswerInv(v), JoinQueries(v)
    PROVE  AnswerInv(v)'
<1> DEFINE risk == AtRisk(recently[v], past[v])
<1>1. /\ stage[v] = "query" /\ recently[v] # Undefined /\ past[v] # Undefined
      /\ Select(v, risk)
      /\ UNCHANGED <<bought, deleted, rule, threshold, first, history>>
      /\ recently'[v] = Undefined /\ past'[v] = Undefined
  BY DEF JoinQueries, ActivityTypeOK
<1>2. risk = past[v] \ recently[v] /\ risk \subseteq Customers
  BY <1>1, EvaluationTyped DEF AtRisk
<1>3. rule[v].ruleType = "RISK_GROUP"
  BY <1>1 DEF AnswerInv, Asked
<1> HIDE DEF risk
<1>4. always[v] \subseteq risk
  BY <1>1, <1>2 DEF AnswerInv, Kept
<1>5. ASSUME NEW c \in risk PROVE c \in deleted \/ Excused(c, v)
  <2>1. PICK i \in DOMAIN bought : bought[i].customer = c /\ bought[i].at < threshold[v]
    BY <1>1, <1>2, <1>5 DEF AnswerInv, Earned, BoughtBefore
  <2>2. i \in 1 .. first[v] \/ i \in first[v] + 1 .. Len(bought)
    BY EvaluationTyped
  <2>3. CASE i \in 1 .. first[v]
    BY <1>1, <1>2, <1>5, <2>1, <2>3 DEF AnswerInv, Earned, BoughtBefore, Excused
  <2>4. CASE i \in first[v] + 1 .. Len(bought)
    BY <1>3, <2>1, <2>4 DEF Excused, Backdated
  <2> QED
    BY <2>2, <2>3, <2>4
<1> QED
  BY <1>1, <1>2, <1>4, <1>5, SelectKept

LEMMA FilterExistingKept ==
    ASSUME ActivityTypeOK, NEW v \in Evaluators, AnswerInv(v), FilterExisting(v)
    PROVE  AnswerInv(v)'
<1>1. /\ stage[v] = "existing" /\ stage'[v] = "idle" /\ chosen'[v] = found[v] \ deleted
      /\ UNCHANGED <<bought, deleted, rule, threshold, recently, past, found, first, ever, always>>
  BY DEF FilterExisting, ActivityTypeOK, history
<1>2. recently[v] = Undefined /\ past[v] = Undefined
  BY <1>1 DEF AnswerInv, Asked
<1>3. \A c \in always[v] : c \notin deleted
  BY <1>1 DEF AnswerInv, Observed, Asking, MeetsNow, Meets
<1>4. always[v] \subseteq found[v] /\ \A c \in found[v] : c \in deleted \/ Excused(c, v)
  BY <1>1 DEF AnswerInv, Kept, Earned
<1>5. \A c : Excused(c, v)' <=> Excused(c, v)
  BY <1>1 DEF Excused, Backdated
<1>6. Observed(v)' /\ Asked(v)' /\ Kept(v)'
  BY <1>1, <1>2, <1>3, <1>4 DEF AnswerInv, Observed, Asked, Kept, Asking, Answers
<1>7. Earned(v)'
  BY <1>1, <1>2, <1>4, <1>5 DEF Earned, Answers
<1> QED
  BY <1>6, <1>7 DEF AnswerInv

LEMMA EvaluationKept ==
    ASSUME ActivityTypeOK, NEW v \in Evaluators, EvaluateStep(v), \A w \in Evaluators : AnswerInv(w)
    PROVE  \A w \in Evaluators : AnswerInv(w)'
<1>1. AnswerInv(v)'
  BY ReadRuleKept, SetWindowKept, QueryGroupsKept, QueryRiskKept, JoinQueriesKept, FilterExistingKept
     DEF EvaluateStep
<1>2. ASSUME NEW w \in Evaluators, w # v PROVE Undisturbed(w)
  BY <1>2 DEF ActivityTypeOK, Undisturbed, EvaluateStep, ReadRule, SetWindow, QueryGroups, Select,
              QueryRecent, QueryPast, JoinQueries, FilterExisting, history
<1> QED
  BY <1>1, <1>2, UndisturbedKept

LEMMA AnswersKept ==
    TypeOK /\ ActivityTypeOK /\ AnswersInv /\ [ActivityNext]_allVars => AnswersInv'
<1> SUFFICES ASSUME TypeOK, ActivityTypeOK, \A v \in Evaluators : AnswerInv(v),
                    [ActivityNext]_allVars, NEW v \in Evaluators
             PROVE  AnswerInv(v)'
  BY DEF AnswersInv
<1>1. ASSUME UNCHANGED <<bought, deleted, queries, history>> PROVE AnswerInv(v)'
  BY <1>1, UndisturbedKept DEF Undisturbed, queries, history
<1>2. CASE UNCHANGED activity
  BY <1>1, <1>2 DEF activity
<1>3. ASSUME NEW b \in Buyers, RecordStep(b) PROVE AnswerInv(v)'
  <2>1. /\ UNCHANGED <<deleted, queries>>
        /\ UNCHANGED <<bought, history>> \/ (Watch /\ bought' = Append(bought, item[b]) /\ item[b] \in Purchase)
    BY <1>3, RecordKept
  <2>2. CASE UNCHANGED <<bought, history>>
    BY <1>1, <2>1, <2>2
  <2>3. CASE Watch /\ bought' = Append(bought, item[b]) /\ item[b] \in Purchase
    BY <2>1, <2>3, GrowthKept
  <2> QED
    BY <2>1, <2>2, <2>3
<1>4. ASSUME NEW c \in Customers, DeleteCustomer(c) PROVE AnswerInv(v)'
  <2>1. Watch /\ UNCHANGED <<bought, queries>> /\ deleted \subseteq deleted'
    BY <1>4 DEF DeleteCustomer
  <2> QED
    BY <2>1, GrowthKept
<1>5. ASSUME NEW w \in Evaluators, EvaluateStep(w) PROVE AnswerInv(v)'
  BY <1>5, EvaluationKept
<1> QED
  BY <1>2, <1>3, <1>4, <1>5 DEF ActivityNext, allVars

LEMMA AnswersAlways == ActivitySpec => []AnswersInv
<1>1. ActivityInit => AnswersInv
  BY DEF ActivityInit, AnswersInv, AnswerInv, Observed, Asked, Kept, Earned, Asking, Answers
<1> QED
  BY <1>1, TypesAlways, AnswersKept, PTL DEF ActivitySpec

\* Whoever meets a rule all the time while its queries run is in the answer,
\* whatever commits between the queries (evaluateDirectRule).
THEOREM StayersAreSelected == ActivitySpec => []NobodyMissed
<1>1. AnswersInv => NobodyMissed
  BY DEF NobodyMissed, AnswersInv, AnswerInv, Kept
<1> QED
  BY <1>1, AnswersAlways, PTL

\* Whoever is in the answer met the rule at some moment while its queries ran,
\* but for the risk group's torn read of a back-dated transaction.
THEOREM SelectedHaveMet == ActivitySpec => []NobodyInvented
<1>1. AnswersInv => NobodyInvented
  BY DEF NobodyInvented, AnswersInv, AnswerInv, Earned, Excused
<1> QED
  BY <1>1, AnswersAlways, PTL
=============================================================================
