------------------------------ MODULE Segments ------------------------------
(***************************************************************************)
(* SegmentsService: create, update and remove, each as the statements it   *)
(* awaits.  Checks run before the transaction, under READ COMMITTED.  What *)
(* a transaction writes is one step: the insert or the update comes first  *)
(* and its row (or index entry) stays locked until the commit.             *)
(*                                                                         *)
(* A name counts only by its slug, a sequence of words, to which a suffix  *)
(* adds a word; a rule document only by the segments it refers to.         *)
(***************************************************************************)
EXTENDS Naturals, Sequences, FiniteSets

CONSTANTS
    Ids,            \* segment ids
    Slugs,          \* what slugify makes of the names
    Documents,      \* rule documents and null
    Null,           \* null
    DependencyIds,  \* DependencyIds[d]: extractDependencySegmentIds(d)
    InitialKeys,    \* key at the start
    Clients,        \* calls that may run at the same time
    MaxRequests     \* bound: calls in one behaviour

NoKey == <<>>

ASSUME IdsAssumption == 0 \notin Ids
ASSUME DocumentsAssumption ==
    /\ Null \in Documents
    /\ DependencyIds \in [Documents -> SUBSET Ids]
    /\ DependencyIds[Null] = {}
ASSUME KeysAssumption ==
    /\ Slugs \subseteq Seq(Nat) \ {NoKey}
    /\ InitialKeys \in [Ids -> Seq(Nat)]
    /\ \A r, s \in Ids : InitialKeys[r] = InitialKeys[s] => r = s \/ InitialKeys[r] = NoKey
ASSUME RequestsAssumption == MaxRequests \in Nat

VARIABLES
    key,        \* key[s]: the unique key of row s, NoKey without a row
    deletedAt,  \* deletedAt[s]: 0 for null, else later with every removal
    rules,      \* rules[s]: definitionJson
    deps,       \* deps[s]: dependsOnSegmentId of the dependency rows of s
    pc,         \* pc[c]: the statement the call of client c is at
    segment,    \* segment[c]: the id of the request, of update and remove
    slug,       \* slug[c]: baseKey
    suffix,     \* suffix[c]: suffix of candidateKey
    document,   \* document[c]: the rules of the request
    given,      \* given[c]: whether it has any, rules !== undefined
    overtaken,  \* overtaken[c]: segments removed since the call began (history)
    raced,      \* raced[c]: whether a row was inserted since it began (history)
    requests    \* requests so far

table  == <<key, deletedAt, rules, deps>>
values == <<segment, slug, suffix, document, given>>
past   == <<overtaken, raced>>
vars   == <<table, pc, values, past, requests>>

Rows == {s \in Ids : key[s] # NoKey}
Live == {s \in Rows : deletedAt[s] = 0}

\* Mutant of Exists: removed segments count.
ExistsWithRemoved(s) == s \in Rows

\* findFirst, findMany: where deletedAt null
Exists(s) == s \in Live

\* Mutant of FirstSuffix.
SuffixFromZero == 0

\* let suffix = 1
FirstSuffix == 1

\* candidateKey: the base key, then base-2, base-3 and so on.
CandidateKey(base, n) == IF n = 1 THEN base ELSE Append(base, n)

\* Mutant of Taken: removed segments do not count.
TakenByLive(k) == \E s \in Live : key[s] = k

\* findUnique on the key, which a removed segment keeps.
Taken(k) == \E s \in Rows : key[s] = k

Creating == {c \in Clients : pc[c] \in {"dependencies", "key", "insert"} /\ segment[c] = 0}

-----------------------------------------------------------------------------
Begin(c, first, s, base, isGiven, d) ==
    /\ pc[c] = "idle"
    /\ requests < MaxRequests
    /\ requests' = requests + 1
    /\ pc' = [pc EXCEPT ![c] = first]
    /\ segment' = [segment EXCEPT ![c] = s]
    /\ slug' = [slug EXCEPT ![c] = base]
    /\ suffix' = [suffix EXCEPT ![c] = FirstSuffix]
    /\ document' = [document EXCEPT ![c] = d]
    /\ given' = [given EXCEPT ![c] = isGiven]
    /\ UNCHANGED <<table, past>>

\* The call is over.
Finish(c) ==
    /\ pc' = [pc EXCEPT ![c] = "idle"]
    /\ segment' = [segment EXCEPT ![c] = 0]
    /\ slug' = [slug EXCEPT ![c] = NoKey]
    /\ suffix' = [suffix EXCEPT ![c] = 1]
    /\ document' = [document EXCEPT ![c] = Null]
    /\ given' = [given EXCEPT ![c] = FALSE]
    /\ overtaken' = [overtaken EXCEPT ![c] = {}]
    /\ raced' = [raced EXCEPT ![c] = FALSE]
    /\ UNCHANGED <<table, requests>>

Goto(c, next) ==
    /\ pc' = [pc EXCEPT ![c] = next]
    /\ UNCHANGED <<table, values, past, requests>>

\* POST /segments.  Without rules the row gets null.  (An id is left for every
\* creation: uuids do not run out.)
Create(c, base, d) ==
    /\ Cardinality(Creating) < Cardinality(Ids \ Rows)
    /\ Begin(c, IF DependencyIds[d] = {} THEN "key" ELSE "dependencies", 0, base, TRUE, d)

\* PATCH /segments/:id
Update(c, s, isGiven, d) ==
    /\ isGiven \/ d = Null
    /\ Begin(c, "exists", s, NoKey, isGiven, d)

\* DELETE /segments/:id
Remove(c, s) == Begin(c, "removable", s, NoKey, FALSE, Null)

-----------------------------------------------------------------------------
(* ensureSegmentExists, ensureDependenciesExist                            *)

\* The check of update; a segment that would depend on itself is refused at once.
EnsureSegmentExists(c) ==
    /\ pc[c] = "exists"
    /\ Exists(segment[c])
    /\ segment[c] \notin DependencyIds[document[c]]
    /\ Goto(c, IF DependencyIds[document[c]] = {} THEN "update" ELSE "dependencies")

\* The check of remove.
EnsureRemovable(c) ==
    /\ pc[c] = "removable"
    /\ Exists(segment[c])
    /\ Goto(c, "remove")

EnsureDependenciesExist(c) ==
    /\ pc[c] = "dependencies"
    /\ \A s \in DependencyIds[document[c]] : Exists(s)
    /\ Goto(c, IF segment[c] = 0 THEN "key" ELSE "update")

\* NotFoundException, BadRequestException
Reject(c) ==
    /\ \/ pc[c] \in {"exists", "removable"} /\ ~Exists(segment[c])
       \/ pc[c] = "exists" /\ segment[c] \in DependencyIds[document[c]]
       \/ pc[c] = "dependencies" /\ \E s \in DependencyIds[document[c]] : ~Exists(s)
    /\ Finish(c)

-----------------------------------------------------------------------------
(* create: the transaction                                                 *)

\* Mutant of NextCandidate: the suffix never moves.
SameCandidate(c) ==
    /\ pc[c] = "key"
    /\ Taken(CandidateKey(slug[c], suffix[c]))
    /\ UNCHANGED vars

\* generateUniqueKey: one iteration finds the candidate taken.
NextCandidate(c) ==
    /\ pc[c] = "key"
    /\ Taken(CandidateKey(slug[c], suffix[c]))
    /\ suffix' = [suffix EXCEPT ![c] = @ + 1]
    /\ UNCHANGED <<table, pc, segment, slug, document, given, past, requests>>

KeyFound(c) ==
    /\ pc[c] = "key"
    /\ ~Taken(CandidateKey(slug[c], suffix[c]))
    /\ Goto(c, "insert")

\* The segment with its dependency rows.
Insert(c, s) ==
    /\ pc[c] = "insert"
    /\ s \notin Rows
    /\ \A r \in Rows : key[r] # CandidateKey(slug[c], suffix[c])
    /\ key' = [key EXCEPT ![s] = CandidateKey(slug[c], suffix[c])]
    /\ rules' = [rules EXCEPT ![s] = document[c]]
    /\ deps' = [deps EXCEPT ![s] = DependencyIds[document[c]]]
    /\ raced' = [b \in Clients |-> raced[b] \/ pc[b] \in {"key", "insert"}]
    /\ pc' = [pc EXCEPT ![c] = "done"]
    /\ UNCHANGED <<deletedAt, values, overtaken, requests>>

\* The unique index refuses the key.
KeyConflict(c) ==
    /\ pc[c] = "insert"
    /\ \E r \in Rows : key[r] = CandidateKey(slug[c], suffix[c])
    /\ Goto(c, "conflict")

-----------------------------------------------------------------------------
(* update and remove                                                       *)

\* Mutant of DependenciesAfter: null is taken for no rules.
DependenciesAfterRules(c, s) ==
    IF given[c] /\ document[c] # Null THEN DependencyIds[document[c]] ELSE deps[s]

\* deleteMany and createMany, unless the request has no rules.
DependenciesAfter(c, s) == IF given[c] THEN DependencyIds[document[c]] ELSE deps[s]

\* The row, by id alone: a segment removed since the check is updated too.
UpdateRow(c) ==
    /\ pc[c] = "update"
    /\ rules' = [rules EXCEPT ![segment[c]] = IF given[c] THEN document[c] ELSE @]
    /\ deps' = [deps EXCEPT ![segment[c]] = DependenciesAfter(c, segment[c])]
    /\ pc' = [pc EXCEPT ![c] = "done"]
    /\ UNCHANGED <<key, deletedAt, values, past, requests>>

\* By id alone again: of two removals the later one moves deletedAt.
RemoveRow(c) ==
    /\ pc[c] = "remove"
    /\ deletedAt' = [deletedAt EXCEPT ![segment[c]] = @ + 1]
    /\ overtaken' = [b \in Clients |-> IF pc[b] = "idle" THEN overtaken[b]
                                       ELSE overtaken[b] \cup {segment[c]}]
    /\ pc' = [pc EXCEPT ![c] = "done"]
    /\ UNCHANGED <<key, rules, deps, values, raced, requests>>

Respond(c) ==
    /\ pc[c] \in {"done", "conflict"}
    /\ Finish(c)

\* A statement fails: the transaction rolls back.
Fail(c) ==
    /\ pc[c] \notin {"idle", "done", "conflict"}
    /\ Finish(c)

-----------------------------------------------------------------------------
Init ==
    /\ key = InitialKeys
    /\ deletedAt = [s \in Ids |-> 0]
    /\ rules = [s \in Ids |-> Null]
    /\ deps = [s \in Ids |-> {}]
    /\ pc = [c \in Clients |-> "idle"]
    /\ segment = [c \in Clients |-> 0]
    /\ slug = [c \in Clients |-> NoKey]
    /\ suffix = [c \in Clients |-> 1]
    /\ document = [c \in Clients |-> Null]
    /\ given = [c \in Clients |-> FALSE]
    /\ overtaken = [c \in Clients |-> {}]
    /\ raced = [c \in Clients |-> FALSE]
    /\ requests = 0

Request(c) ==
    \/ \E base \in Slugs, d \in Documents : Create(c, base, d)
    \/ \E s \in Ids, isGiven \in BOOLEAN, d \in Documents : Update(c, s, isGiven, d)
    \/ \E s \in Ids : Remove(c, s)

\* What the database answers to the call of c.
Statement(c) ==
    \/ EnsureSegmentExists(c)
    \/ EnsureRemovable(c)
    \/ EnsureDependenciesExist(c)
    \/ Reject(c)
    \/ NextCandidate(c)
    \/ KeyFound(c)
    \/ \E s \in Ids : Insert(c, s)
    \/ KeyConflict(c)
    \/ UpdateRow(c)
    \/ RemoveRow(c)
    \/ Respond(c)

Next == \E c \in Clients : Request(c) \/ Statement(c) \/ Fail(c)

Spec == Init /\ [][Next]_vars

\* The database answers every statement.
FairSpec == Spec /\ \A c \in Clients : WF_vars(Statement(c))
-----------------------------------------------------------------------------
(* Properties                                                              *)

Keys == Seq(Nat)

PC == {"idle", "exists", "removable", "dependencies", "key", "insert", "update",
       "remove", "conflict", "done"}

\* Types of all variables.
TypeOK ==
    /\ key \in [Ids -> Keys]
    /\ deletedAt \in [Ids -> Nat]
    /\ rules \in [Ids -> Documents]
    /\ deps \in [Ids -> SUBSET Ids]
    /\ pc \in [Clients -> PC]
    /\ segment \in [Clients -> Ids \cup {0}]
    /\ slug \in [Clients -> Keys]
    /\ suffix \in [Clients -> Nat \ {0}]
    /\ document \in [Clients -> Documents]
    /\ given \in [Clients -> BOOLEAN]
    /\ overtaken \in [Clients -> SUBSET (Ids \cup {0})]
    /\ raced \in [Clients -> BOOLEAN]
    /\ requests \in 0 .. MaxRequests

\* Whatever calls overlap, the dependency rows of a segment are those of its
\* stored rules: rules left out of a request leave both alone, null clears both.
\* The cascade and the filter read the rows, the users the rules.
DependenciesOfRules == \A s \in Ids : deps[s] = DependencyIds[rules[s]]

\* A creation fails on the unique key only if another one was committed since it
\* began: the loop looks at every row, the removed ones included.
ConflictsAreRaces == \A c \in Clients : pc[c] = "conflict" => raced[c]

\* A removed segment changes no more, not even its deletedAt, except by calls on
\* it that began before it was removed: one of them that had found it live may
\* still write it.
RemovedRowsRest ==
    [][\A s \in Ids : deletedAt[s] > 0 =>
        \/ <<key'[s], deletedAt'[s], rules'[s], deps'[s]>>
              = <<key[s], deletedAt[s], rules[s], deps[s]>>
        \/ \E c \in Clients : segment[c] = s /\ s \in overtaken[c]]_vars

\* A segment that comes to depend on another one does so while that one is live,
\* unless it was removed under the call that checked it.
DependenciesChecked ==
    [][\A s \in Ids : \A d \in deps'[s] \ deps[s] :
        /\ d \in Rows
        /\ d \in Live \/ \E c \in Clients : pc'[c] # pc[c] /\ d \in overtaken[c]]_vars

\* Every request is answered: the search for a key ends.
Answered == \A c \in Clients : pc[c] # "idle" ~> pc[c] = "idle"
=============================================================================
