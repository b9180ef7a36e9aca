----------------------- MODULE SegmentCascade_proofs -----------------------
(***************************************************************************)
(* Proofs about the cascade, for one call at a time: in a graph of          *)
(* dependencies that is untangled the walk meets every segment behind a    *)
(* changed one exactly once, and so no member outlives its dependencies    *)
(* and a whole batch leaves every segment fresh.                           *)
(***************************************************************************)
EXTENDS SegmentEvaluation_proofs

-----------------------------------------------------------------------------
(* Graphs of dependencies                                                  *)

Graphs == [Segments -> SUBSET Segments]

\* Upstream of a given graph: s and what it depends on, directly or not.
Up(g, s) ==
    {r \in Segments : \A S \in SUBSET Segments :
        s \in S /\ (\A x \in S : g[x] \subseteq S) => r \in S}

\* Untangled of a given graph.
Forest(g) ==
    \A s \in Segments : \A d \in g[s] :
        /\ s \notin Up(g, d)
        /\ \A e \in g[s] \ {d} : Up(g, d) \cap Up(g, e) = {}

LEMMA UntangledIsForest == Untangled <=> Forest(deps)
BY DEF Untangled, Forest, Upstream, Up

\* A segment is upstream of itself.
LEMMA UpHolds == ASSUME NEW g \in Graphs, NEW s \in Segments PROVE s \in Up(g, s)
BY DEF Up

\* What is upstream of something upstream is upstream.
LEMMA UpComposes ==
    ASSUME NEW g \in Graphs, NEW s \in Segments, NEW r \in Up(g, s), NEW q \in Up(g, r)
    PROVE  q \in Up(g, s)
BY DEF Up

\* A dependency is upstream, with all that is upstream of it.
LEMMA UpDepends ==
    ASSUME NEW g \in Graphs, NEW s \in Segments, NEW d \in g[s]
    PROVE  Up(g, d) \subseteq Up(g, s)
<1>1. d \in Up(g, s)
  BY DEF Up, Graphs
<1> QED
  BY <1>1, UpComposes

\* Nothing is upstream but the segment itself and what is upstream of a
\* dependency.
LEMMA UpComesFrom ==
    ASSUME NEW g \in Graphs, NEW s \in Segments, NEW r \in Up(g, s), r # s
    PROVE  \E d \in g[s] : r \in Up(g, d)
<1> DEFINE S == {s} \cup {x \in Segments : \E d \in g[s] : x \in Up(g, d)}
<1>1. S \in SUBSET Segments /\ s \in S
  OBVIOUS
<1>2. ASSUME NEW x \in S PROVE g[x] \subseteq S
  <2>1. g[x] \subseteq Segments /\ g[s] \subseteq Segments
    BY DEF Graphs
  <2>2. CASE x = s
    BY <2>1, <2>2, UpHolds
  <2>3. ASSUME NEW d \in g[s], x \in Up(g, d), NEW y \in g[x] PROVE y \in Up(g, d)
    <3>1. d \in Segments /\ x \in Segments /\ y \in Segments
      BY <2>1, <2>3 DEF Up
    <3>2. y \in Up(g, y)
      BY <3>1, UpHolds
    <3>3. y \in Up(g, x)
      BY <2>3, <3>1, <3>2, UpDepends
    <3> QED
      BY <2>3, <3>1, <3>3, UpComposes
  <2> QED
    BY <2>1, <2>2, <2>3
<1>3. r \in S
  BY <1>1, <1>2 DEF Up
<1> QED
  BY <1>3

-----------------------------------------------------------------------------
(* The walk over one graph                                                 *)

Stacks == Seq(SUBSET Segments)

\* The dependents left at some level.
Entries(st) == UNION {st[i] : i \in DOMAIN st}

\* Any two of these have something upstream in common: the root of the walk.
Related(g, S) == \A x, y \in S : Up(g, x) \cap Up(g, y) # {}

\* What is left to visit is ahead of what is visited, and nothing that is left
\* lies behind something else that is left, or is left twice.
Ahead(g, st, seen) ==
    /\ \A x \in Entries(st), y \in seen : x \notin Up(g, y)
    /\ \A i, j \in DOMAIN st : \A x \in st[i], y \in st[j] :
          i # j \/ x # y => x \notin Up(g, y)

Walk(g, st, seen) == Related(g, Entries(st) \cup seen) /\ Ahead(g, st, seen)

\* c has been entered last: nothing behind it is visited or left to visit.
Front(g, st, seen, c) ==
    /\ c \in seen
    /\ \A y \in seen \ {c} : c \notin Up(g, y)
    /\ \A x \in Entries(st) : c \notin Up(g, x)

\* The walk starts at its root.
LEMMA WalkStarts ==
    ASSUME NEW g \in Graphs, NEW s \in Segments
    PROVE  Walk(g, <<>>, {s}) /\ Front(g, <<>>, {s}, s)
<1>1. Entries(<<>>) = {} /\ DOMAIN <<>> = {}
  BY DEF Entries
<1>2. Up(g, s) # {}
  BY UpHolds
<1> QED
  BY <1>1, <1>2, Zenon DEF Walk, Related, Ahead, Front

\* A stack whose levels only lose entries.
Within(new, st) ==
    /\ DOMAIN new \subseteq DOMAIN st
    /\ \A i \in DOMAIN new : new[i] \subseteq st[i]

\* The walk goes on when levels lose entries.
LEMMA WalkShrinks ==
    ASSUME NEW g, NEW st, NEW new, NEW seen, Within(new, st)
    PROVE  /\ Entries(new) \subseteq Entries(st)
           /\ Walk(g, st, seen) => Walk(g, new, seen)
           /\ \A c : Front(g, st, seen, c) => Front(g, new, seen, c)
<1>1. Entries(new) \subseteq Entries(st)
  BY DEF Entries, Within
<1> QED
  BY <1>1 DEF Walk, Related, Ahead, Front, Within

\* The levels of a stack under its top.
LEMMA StackParts ==
    ASSUME NEW st \in Stacks, NEW X \in SUBSET Segments
    PROVE  /\ Append(st, X) \in Stacks
           /\ Append(st, X) # <<>>
           /\ DOMAIN Append(st, X) = DOMAIN st \cup {Len(st) + 1}
           /\ Len(st) + 1 \notin DOMAIN st
           /\ \A i \in DOMAIN st : Append(st, X)[i] = st[i]
           /\ Append(st, X)[Len(st) + 1] = X
BY DEF Stacks

\* Replacing the top of a stack.
Replaced(st, X) == Append(SubSeq(st, 1, Len(st) - 1), X)

LEMMA TopReplaced ==
    ASSUME NEW st \in Stacks, st # <<>>, NEW X \in SUBSET Segments
    PROVE  /\ Replaced(st, X) \in Stacks
           /\ Replaced(st, X) # <<>>
           /\ DOMAIN Replaced(st, X) = DOMAIN st
           /\ Len(st) \in DOMAIN st
           /\ \A i \in DOMAIN st \ {Len(st)} : Replaced(st, X)[i] = st[i]
           /\ Replaced(st, X)[Len(st)] = X
<1> DEFINE n   == Len(st)
           low == SubSeq(st, 1, n - 1)
           new == Replaced(st, X)
<1>1. n \in Nat \ {0} /\ DOMAIN st = 1 .. n
  BY DEF Stacks
<1>2. low \in Stacks /\ Len(low) = n - 1 /\ \A i \in 1 .. n - 1 : low[i] = st[i]
  BY <1>1 DEF Stacks
<1>3. DOMAIN low = 1 .. n - 1 /\ new = Append(low, X)
  BY <1>2 DEF Stacks, Replaced
<1> HIDE DEF low, new
<1>4. Len(low) + 1 = n
  BY <1>1, <1>2
<1>5. /\ new \in Stacks /\ new # <<>>
      /\ DOMAIN new = (1 .. n - 1) \cup {n}
      /\ \A i \in 1 .. n - 1 : new[i] = low[i]
      /\ new[n] = X
  <2> HIDE DEF n
  <2> QED
    BY <1>2, <1>3, <1>4, StackParts
<1>6. 1 .. n = (1 .. n - 1) \cup {n} /\ \A i \in 1 .. n : i # n => i \in 1 .. n - 1
  <2>1. n \in Nat \ {0}
    BY <1>1
  <2> HIDE DEF n
  <2> QED
    BY <2>1
<1>7. \A i \in (1 .. n) \ {n} : new[i] = st[i]
  BY <1>2, <1>5, <1>6
<1> QED
  BY <1>1, <1>5, <1>6, <1>7 DEF new

\* The stack without its top.
LEMMA TopRemoved ==
    ASSUME NEW st \in Stacks, st # <<>>, NEW new, new = SubSeq(st, 1, Len(st) - 1)
    PROVE  /\ new \in Stacks /\ DOMAIN new = DOMAIN st \ {Len(st)}
           /\ \A i \in DOMAIN new : new[i] = st[i]
<1>1. Len(st) \in Nat \ {0} /\ DOMAIN st = 1 .. Len(st)
  BY DEF Stacks
<1>2. new \in Stacks /\ Len(new) = Len(st) - 1 /\ \A i \in 1 .. Len(st) - 1 : new[i] = st[i]
  BY <1>1 DEF Stacks
<1>3. DOMAIN new = 1 .. Len(st) - 1
  BY <1>2 DEF Stacks
<1>4. 1 .. Len(st) - 1 = (1 .. Len(st)) \ {Len(st)}
  BY <1>1
<1> QED
  BY <1>1, <1>2, <1>3, <1>4

\* The dependents left at the innermost level, and the stack when one of them
\* is taken from it.
TopOf(st) == st[Len(st)]

Without(st, d) == Replaced(st, TopOf(st) \ {d})

\* What is left to visit has not been visited: this is where a graph that is not
\* untangled would leave a segment out.
LEMMA WalkSkipsNothing ==
    ASSUME NEW g \in Graphs, NEW st \in Stacks, st # <<>>, NEW seen \in SUBSET Segments,
           NEW d \in TopOf(st), Walk(g, st, seen)
    PROVE  d \notin seen
<1>1. Len(st) \in DOMAIN st /\ TopOf(st) \subseteq Segments
  BY DEF Stacks, TopOf
<1>2. d \in Entries(st) /\ d \in Up(g, d)
  BY <1>1, UpHolds DEF Entries, TopOf
<1> QED
  BY <1>2 DEF Walk, Ahead

\* The stack loses exactly the dependent that is taken from it.
LEMMA OneTaken ==
    ASSUME NEW st \in Stacks, st # <<>>, NEW d \in TopOf(st)
    PROVE  /\ Without(st, d) # <<>>
           /\ Without(st, d) \in Stacks
           /\ DOMAIN Without(st, d) = DOMAIN st /\ Len(st) \in DOMAIN st
           /\ \A i \in DOMAIN st \ {Len(st)} : Without(st, d)[i] = st[i]
           /\ Without(st, d)[Len(st)] = TopOf(st) \ {d}
           /\ Entries(st) = Entries(Without(st, d)) \cup {d}
<1> DEFINE n   == Len(st)
           new == Without(st, d)
<1>1. /\ n \in DOMAIN st
      /\ new \in Stacks /\ new # <<>> /\ DOMAIN new = DOMAIN st
      /\ \A i \in DOMAIN st \ {n} : new[i] = st[i]
      /\ new[n] = st[n] \ {d}
  <2>1. TopOf(st) \ {d} \in SUBSET Segments /\ n \in DOMAIN st
    BY DEF Stacks, TopOf
  <2> QED
    BY <2>1, TopReplaced DEF Without, TopOf
<1> HIDE DEF new
<1>2. d \in Entries(st)
  BY <1>1 DEF Entries, TopOf
<1>3. Entries(new) \subseteq Entries(st)
  BY <1>1 DEF Entries
<1>4. ASSUME NEW x \in Entries(st), x # d PROVE x \in Entries(new)
  <2>1. PICK i \in DOMAIN st : x \in st[i]
    BY DEF Entries
  <2>2. x \in new[i]
    BY <1>1, <1>4, <2>1
  <2> QED
    BY <1>1, <2>1, <2>2 DEF Entries
<1> QED
  BY <1>1, <1>2, <1>3, <1>4 DEF new, TopOf

\* Visiting what is left to visit goes on with the walk.
LEMMA WalkVisits ==
    ASSUME NEW g \in Graphs, NEW st \in Stacks, st # <<>>, NEW seen \in SUBSET Segments,
           NEW d \in TopOf(st), Walk(g, st, seen)
    PROVE  /\ Walk(g, Without(st, d), seen \cup {d})
           /\ Front(g, Without(st, d), seen \cup {d}, d)
<1> DEFINE n   == Len(st)
           new == Without(st, d)
<1>1. /\ n \in DOMAIN st
      /\ new \in Stacks /\ DOMAIN new = DOMAIN st
      /\ \A i \in DOMAIN st \ {n} : new[i] = st[i]
      /\ new[n] = st[n] \ {d}
      /\ Entries(st) = Entries(new) \cup {d}
  BY OneTaken DEF TopOf
<1> HIDE DEF new
<1>2. d \in Segments /\ d \in Entries(st)
  BY <1>1 DEF Stacks, TopOf
<1>3. Walk(g, new, seen) /\ Entries(new) \subseteq Entries(st)
  <2>1. Within(new, st)
    BY <1>1 DEF Within
  <2> QED
    BY <2>1, WalkShrinks
<1>4. \A x \in Entries(new) : x \notin Up(g, d) /\ d \notin Up(g, x)
  <2> SUFFICES ASSUME NEW i \in DOMAIN new, NEW x \in new[i]
               PROVE  x \notin Up(g, d) /\ d \notin Up(g, x)
    BY DEF Entries
  <2>1. x \in st[i] /\ (i # n \/ x # d)
    BY <1>1
  <2> QED
    BY <1>1, <2>1 DEF Walk, Ahead, TopOf
<1>5. Walk(g, new, seen \cup {d})
  <2>1. Related(g, Entries(new) \cup (seen \cup {d}))
    BY <1>1 DEF Walk, Related
  <2>2. Ahead(g, new, seen \cup {d})
    BY <1>3, <1>4 DEF Walk, Ahead
  <2> QED
    BY <2>1, <2>2 DEF Walk
<1>6. Front(g, new, seen \cup {d}, d)
  BY <1>2, <1>4 DEF Front, Walk, Ahead
<1> QED
  BY <1>5, <1>6 DEF new

\* The dependents of the segment entered last join the walk.
LEMMA WalkPushes ==
    ASSUME NEW g \in Graphs, Forest(g), NEW st \in Stacks, NEW seen \in SUBSET Segments,
           NEW c \in Segments, NEW X \in SUBSET {x \in Segments : c \in g[x]},
           Walk(g, st, seen), Front(g, st, seen, c)
    PROVE  Walk(g, Append(st, X), seen) /\ Entries(Append(st, X)) = Entries(st) \cup X
<1> DEFINE new == Append(st, X)
           n == Len(st) + 1
<1>1. /\ new \in Stacks /\ DOMAIN new = DOMAIN st \cup {n} /\ n \notin DOMAIN st
      /\ \A i \in DOMAIN st : new[i] = st[i]
      /\ new[n] = X
  BY StackParts
<1> HIDE DEF new, n
<1>2. Entries(new) = Entries(st) \cup X
  BY <1>1 DEF Entries
<1>3. \A x \in X : x \in Segments /\ c \in g[x] /\ Up(g, c) \subseteq Up(g, x) /\ c \in Up(g, x)
  BY UpHolds, UpDepends
<1>4. \A x \in X : x \notin Up(g, c)
  BY <1>3 DEF Forest
<1>5. Entries(st) \subseteq Segments
  BY DEF Entries, Stacks
<1>6. Related(g, Entries(new) \cup seen)
  <2>1. \A y \in Entries(st) \cup seen : Up(g, y) \cap Up(g, c) # {}
    BY DEF Walk, Related, Front
  <2>2. \A x \in X : \A y \in Entries(st) \cup seen : Up(g, x) \cap Up(g, y) # {}
    BY <1>3, <2>1
  <2>3. \A x, y \in X : Up(g, x) \cap Up(g, y) # {}
    BY <1>3
  <2> QED
    BY <1>2, <2>2, <2>3 DEF Walk, Related
<1>7. \A x \in X, y \in seen : x \notin Up(g, y)
  <2> SUFFICES ASSUME NEW x \in X, NEW y \in seen, x \in Up(g, y) PROVE FALSE
    OBVIOUS
  <2>1. c \in Up(g, y)
    BY <1>3, UpComposes
  <2>2. y = c
    BY <2>1 DEF Front
  <2> QED
    BY <2>2, <1>4
<1>8. ASSUME NEW x \in X, NEW y \in Segments, y \in Up(g, x), y # x, y \notin Up(g, c)
      PROVE  Up(g, y) \cap Up(g, c) = {}
  <2>1. PICK d \in g[x] : y \in Up(g, d)
    BY <1>3, <1>8, UpComesFrom
  <2>2. d # c /\ d \in Segments
    BY <1>3, <1>8, <2>1 DEF Graphs
  <2>3. Up(g, d) \cap Up(g, c) = {}
    BY <1>3, <2>1, <2>2 DEF Forest
  <2>4. Up(g, y) \subseteq Up(g, d)
    BY <2>1, <2>2, UpComposes
  <2> QED
    BY <2>3, <2>4
<1>9. ASSUME NEW x \in X, NEW y \in Entries(st) PROVE x \notin Up(g, y) /\ y \notin Up(g, x)
  <2>1. y \in Segments /\ c \notin Up(g, y) /\ y \notin Up(g, c)
    BY <1>5 DEF Front, Walk, Ahead
  <2>2. x \notin Up(g, y)
    BY <1>3, <2>1, UpComposes
  <2>3. Up(g, y) \cap Up(g, c) # {}
    BY DEF Walk, Related, Front
  <2>4. y # x
    BY <1>3, <2>1
  <2> QED
    BY <1>8, <2>1, <2>2, <2>3, <2>4
<1>10. ASSUME NEW x \in X, NEW y \in X, x # y PROVE y \notin Up(g, x)
  <2>1. y \in Segments /\ y \notin Up(g, c)
    BY <1>3, <1>4
  <2>2. c \in Up(g, y) /\ c \in Up(g, c)
    BY <1>3, UpHolds
  <2> QED
    BY <1>8, <1>10, <2>1, <2>2
<1>11. Ahead(g, new, seen)
  <2>1. \A x \in Entries(new), y \in seen : x \notin Up(g, y)
    BY <1>2, <1>7 DEF Walk, Ahead
  <2>2. ASSUME NEW i \in DOMAIN new, NEW j \in DOMAIN new, NEW x \in new[i], NEW y \in new[j],
               i # j \/ x # y
        PROVE  x \notin Up(g, y)
    <3>1. CASE i # n /\ j # n
      BY <1>1, <2>2, <3>1 DEF Walk, Ahead
    <3>2. CASE i = n /\ j # n
      <4>1. x \in X /\ y \in Entries(st)
        BY <1>1, <3>2 DEF Entries
      <4> QED
        BY <4>1, <1>9
    <3>3. CASE i # n /\ j = n
      <4>1. y \in X /\ x \in Entries(st)
        BY <1>1, <3>3 DEF Entries
      <4> QED
        BY <4>1, <1>9
    <3>4. CASE i = n /\ j = n
      BY <1>1, <1>10, <2>2, <3>4
    <3> QED
      BY <3>1, <3>2, <3>3, <3>4
  <2> QED
    BY <2>1, <2>2 DEF Ahead
<1> QED
  BY <1>2, <1>6, <1>11 DEF Walk, new
-----------------------------------------------------------------------------
(* The walk of the one evaluator                                           *)

\* The dependents left on the stack of v.
OnStack(v) == Entries(stack[v])

\* v is between entering the current segment and its commit.
Underway(v) == pc[v] \in {"lookup", "filter", "previous", "commit"}

\* v has changed the current segment and not entered its dependents yet.
Announcing(v) == pc[v] \in {"publish", "cascade"}

\* The graph of dependencies has been this one since the walk of v began.
Steady(v) == Untangled /\ (~lagging \/ quiet[v])

WalkInv(v) ==
    /\ pc[v] \in {"idle", "done"} => stack[v] = <<>>
    /\ pc[v] = "idle" => visited[v] = {}
    /\ Steady(v) =>
          /\ Walk(deps, stack[v], visited[v])
          /\ Underway(v) \/ Announcing(v) => Front(deps, stack[v], visited[v], current[v])

\* What the lemmas on graphs and stacks ask of the variables.
LEMMA WalkTypes ==
    ASSUME TypeOK, NEW v \in Evaluators
    PROVE  deps \in Graphs /\ stack[v] \in Stacks /\ visited[v] \in SUBSET Segments
BY DEF TypeOK, Graphs, Stacks

\* Updates, and what the others do, aside, only a new batch makes v steady.
LEMMA SteadyFrame ==
    ASSUME Serial, TypeOK, [Next]_vars, NEW v \in Evaluators, Steady(v)'
    PROVE  /\ UNCHANGED <<deps, statics>>
           /\ live' \subseteq live
           /\ Untangled
           /\ Steady(v) \/ EvaluateAll(v)
           /\ \/ Step(v)
              \/ UNCHANGED <<pc, walk, diff, batch, queue>>
<1>1. (~lagging' \/ quiet'[v]) /\ Untangled'
  BY DEF Steady
<1>2. deps' = deps => Untangled
  BY <1>1 DEF Untangled, Upstream
<1>3. ASSUME NEW s \in Segments, NEW now \in SUBSET Customers, NEW on \in SUBSET Segments,
             NEW isStatic \in BOOLEAN, UpdateSegment(s, now, on, isStatic)
      PROVE  FALSE
  BY <1>1, <1>3 DEF UpdateSegment
<1>4. CASE \/ \E s \in Segments, now \in SUBSET Customers : ChangeData(s, now)
           \/ \E s \in Segments : DeleteSegment(s)
           \/ UNCHANGED vars
  BY <1>1, <1>2, <1>4 DEF ChangeData, DeleteSegment, vars, data, call, walk, diff, Steady
<1>5. CASE Step(v)
  <2>1. UNCHANGED <<deps, statics, live>>
    BY <1>5 DEF Step, EvaluateSegment, RefreshStaticSegment, EvaluateAll, EvaluateRule, Reject,
       Filter, ReadPrevious, Commit, Publish, Cascade, Visit, Skip, Return, NextInBatch,
       EndCall, Respond, Abort, data
  <2>2. CASE EvaluateAll(v)
    BY <1>2, <1>5, <2>1, <2>2
  <2>3. CASE Reject(v) \/ Respond(v) \/ Abort(v)
    <3>1. ~quiet'[v]
      BY <2>3 DEF Reject, Respond, Abort, Finish, TypeOK
    <3>2. ~lagging
      BY <1>1, <2>3, <3>1 DEF Reject, Respond, Abort, data
    <3> QED
      BY <1>2, <1>5, <2>1, <3>2 DEF Steady
  <2>4. CASE ~(EvaluateAll(v) \/ Reject(v) \/ Respond(v) \/ Abort(v))
    <3>1. UNCHANGED <<lagging, quiet>>
      BY <1>5, <2>4 DEF Step, EvaluateSegment, RefreshStaticSegment, EvaluateRule,
         Filter, ReadPrevious, Commit, Publish, Cascade, Visit, Skip, Return, NextInBatch,
         EndCall, data, call
    <3> QED
      BY <1>1, <1>2, <1>5, <2>1, <3>1 DEF Steady
  <2> QED
    BY <2>2, <2>3, <2>4
<1> QED
  BY <1>3, <1>4, <1>5, Zenon DEF Next, Serial

\* The five ways a step moves the walk of v; no dependent is skipped.
Enters(v) ==
    /\ pc[v] \in {"idle", "next"} /\ pc'[v] = "lookup"
    /\ stack[v] = <<>> /\ stack'[v] = <<>>
    /\ current'[v] \in Segments /\ visited'[v] = {current'[v]}

Visits(v) ==
    /\ pc[v] = "next" /\ pc'[v] = "lookup" /\ stack[v] # <<>>
    /\ current'[v] \in TopOf(stack[v])
    /\ stack'[v] = Without(stack[v], current'[v])
    /\ visited'[v] = visited[v] \cup {current'[v]}

Pushes(v) ==
    /\ pc[v] = "cascade" /\ pc'[v] = "next"
    /\ stack'[v] = Append(stack[v], Dependents(current[v]))
    /\ visited'[v] = visited[v] /\ current'[v] = current[v]

Returns(v) ==
    /\ pc[v] = "next" /\ pc'[v] = "next" /\ stack[v] # <<>>
    /\ TopOf(stack[v]) = {} /\ stack'[v] = Pop(v)
    /\ visited'[v] = visited[v] /\ current'[v] = current[v]

Stays(v) ==
    /\ stack'[v] = stack[v] /\ visited'[v] = visited[v] /\ current'[v] = current[v]
    /\ ~Underway(v) => ~Underway(v)' /\ (Announcing(v)' => Announcing(v))
    /\ Announcing(v) => Announcing(v)'
    /\ Underway(v) => Underway(v)' \/ Commit(v)

\* Every step of v is one of them, or leaves the call.
LEMMA StackMoves ==
    ASSUME TypeOK, NEW v \in Evaluators, Step(v), WalkInv(v), Steady(v)
    PROVE  \/ Enters(v) \/ Visits(v) \/ Pushes(v) \/ Returns(v) \/ Stays(v)
           \/ Reject(v) \/ Respond(v) \/ Abort(v)
<1>1. CASE \E s \in Segments : EvaluateSegment(v, s) \/ RefreshStaticSegment(v, s)
                                 \/ NextInBatch(v, s)
  <2>1. PICK s \in Segments, isStatic \in BOOLEAN :
           /\ Enter(v, s, isStatic) /\ visited' = [visited EXCEPT ![v] = {s}]
           /\ UNCHANGED stack /\ stack[v] = <<>> /\ pc[v] \in {"idle", "next"}
    BY <1>1 DEF EvaluateSegment, RefreshStaticSegment, NextInBatch, WalkInv
  <2> QED
    BY <2>1 DEF Enter, Enters, TypeOK
<1>2. ASSUME NEW d \in Segments, NextDependent(v, d)
      PROVE  d \in TopOf(stack[v]) /\ stack'[v] = Without(stack[v], d)
  BY <1>2 DEF NextDependent, TopOf, Without, Replaced, Top, Pop, TypeOK
<1>3. ASSUME NEW d \in Segments, Visit(v, d) PROVE Visits(v)
  BY <1>2, <1>3 DEF Visit, NextDependent, Enter, Visits, TypeOK
<1>4. ASSUME NEW d \in Segments, Skip(v, d) PROVE FALSE
  <2>1. d \in TopOf(stack[v]) /\ stack[v] # <<>> /\ d \in visited[v]
    BY <1>4 DEF Skip, NextDependent, Top, TopOf
  <2>2. Walk(deps, stack[v], visited[v])
    BY DEF WalkInv
  <2>3. deps \in Graphs /\ stack[v] \in Stacks /\ visited[v] \in SUBSET Segments
    BY WalkTypes
  <2> QED
    BY <2>1, <2>2, <2>3, WalkSkipsNothing
<1>5. CASE Cascade(v)
  BY <1>5 DEF Cascade, Pushes, TypeOK
<1>6. CASE Return(v)
  BY <1>6 DEF Return, Returns, TopOf, Top, TypeOK
<1>7. CASE \/ EvaluateAll(v) \/ EvaluateRule(v) \/ Filter(v) \/ ReadPrevious(v)
           \/ Commit(v) \/ Publish(v) \/ EndCall(v)
  BY <1>7 DEF EvaluateAll, EvaluateRule, Filter, ReadPrevious, Commit, Publish, EndCall, walk,
     Stays, Underway, Announcing, TypeOK
<1> QED
  BY <1>1, <1>3, <1>4, <1>5, <1>6, <1>7 DEF Step

\* Every step keeps the invariant of the walk.
LEMMA WalkStep ==
    ASSUME Serial, TypeOK, [Next]_vars, NEW v \in Evaluators, WalkInv(v)
    PROVE  WalkInv(v)'
<1> DEFINE Walks == /\ Walk(deps', stack'[v], visited'[v])
                    /\ Underway(v)' \/ Announcing(v)'
                         => Front(deps', stack'[v], visited'[v], current'[v])
<1>1. pc'[v] \in {"idle", "done"} => stack'[v] = <<>>
  <2>1. CASE UNCHANGED <<pc, stack>>
    BY <2>1 DEF WalkInv
  <2>2. CASE Step(v)
    <3>1. CASE Reject(v) \/ Respond(v) \/ Abort(v)
      BY <3>1 DEF Reject, Respond, Abort, Finish, TypeOK
    <3>2. CASE EndCall(v)
      BY <3>2 DEF EndCall, walk
    <3>3. CASE ~(Reject(v) \/ Respond(v) \/ Abort(v) \/ EndCall(v) \/ Return(v)
                 \/ \E d \in Segments : Skip(v, d))
      BY <2>2, <3>3 DEF Step, EvaluateSegment, RefreshStaticSegment, EvaluateAll,
         EvaluateRule, Filter, ReadPrevious, Commit, Publish, Cascade, Visit,
         NextInBatch, Enter, TypeOK
    <3>4. CASE Return(v) \/ \E d \in Segments : Skip(v, d)
      BY <3>4 DEF Return, Skip, NextDependent
    <3> QED
      BY <3>1, <3>2, <3>3, <3>4
  <2> QED
    BY <2>1, <2>2 DEF Next, Serial, ChangeData, UpdateSegment, DeleteSegment, vars, walk
<1>2. pc'[v] = "idle" => visited'[v] = {}
  <2>1. CASE UNCHANGED <<pc, visited>>
    BY <2>1 DEF WalkInv
  <2>2. CASE Step(v)
    <3>1. CASE Reject(v) \/ Respond(v) \/ Abort(v)
      BY <3>1 DEF Reject, Respond, Abort, Finish, TypeOK
    <3>2. CASE ~(Reject(v) \/ Respond(v) \/ Abort(v))
      BY <2>2, <3>2 DEF Step, EvaluateSegment, RefreshStaticSegment, EvaluateAll,
         EvaluateRule, Filter, ReadPrevious, Commit, Publish, Cascade, Visit, Skip, Return,
         NextDependent, EndCall, NextInBatch, Enter, TypeOK
    <3> QED
      BY <3>1, <3>2
  <2> QED
    BY <2>1, <2>2 DEF Next, Serial, ChangeData, UpdateSegment, DeleteSegment, vars, walk
<1>3. ASSUME Steady(v)' PROVE Walks
  <2>1. /\ deps' = deps /\ (Steady(v) \/ EvaluateAll(v)) /\ Untangled
        /\ Step(v) \/ UNCHANGED <<pc, walk, diff, batch, queue>>
    BY <1>3, SteadyFrame
  <2>2. CASE UNCHANGED <<pc, walk>> /\ Steady(v)
    BY <2>1, <2>2 DEF walk, WalkInv, Underway, Announcing
  <2>3. CASE EvaluateAll(v)
    <3>1. /\ stack'[v] = <<>> /\ visited'[v] = {}
          /\ ~(Underway(v)' \/ Announcing(v)')
      BY <2>3 DEF EvaluateAll, WalkInv, walk, TypeOK, Underway, Announcing
    <3> QED
      BY <3>1 DEF Walk, Related, Ahead, Entries
  <2>4. CASE Step(v) /\ Steady(v)
    <3>1. Walk(deps, stack[v], visited[v])
      BY <2>4 DEF WalkInv
    <3>2. CASE Enters(v)
      BY <2>1, <3>2, WalkStarts, WalkTypes DEF Enters
    <3>3. CASE Visits(v)
      <4> DEFINE d == current'[v]
      <4>1. /\ d \in TopOf(stack[v]) /\ stack[v] # <<>>
            /\ stack'[v] = Without(stack[v], d)
            /\ visited'[v] = visited[v] \cup {d}
        BY <3>3 DEF Visits
      <4>2. deps \in Graphs /\ stack[v] \in Stacks /\ visited[v] \in SUBSET Segments
        BY WalkTypes
      <4> HIDE DEF d
      <4>3. /\ Walk(deps, stack'[v], visited[v] \cup {d})
            /\ Front(deps, stack'[v], visited[v] \cup {d}, d)
        BY <3>1, <4>1, <4>2, WalkVisits
      <4> QED
        BY <2>1, <4>1, <4>3 DEF d
    <3>4. CASE Pushes(v)
      <4>1. ~(Underway(v)' \/ Announcing(v)')
        BY <3>4 DEF Pushes, Underway, Announcing
      <4>2. Front(deps, stack[v], visited[v], current[v])
        BY <2>4, <3>4 DEF Pushes, WalkInv, Announcing
      <4>3. current[v] \in Segments
        BY <4>2, WalkTypes DEF Front
      <4>4. Dependents(current[v]) \in SUBSET {x \in Segments : current[v] \in deps[x]}
        BY DEF Dependents, Dynamic
      <4> QED
        BY <2>1, <3>1, <3>4, <4>1, <4>2, <4>3, <4>4, WalkPushes, WalkTypes, UntangledIsForest
           DEF Pushes
    <3>5. CASE Returns(v)
      <4>1. ~(Underway(v)' \/ Announcing(v)')
        BY <3>5 DEF Returns, Underway, Announcing
      <4>2. Within(stack'[v], stack[v])
        BY <3>5, TopRemoved, WalkTypes DEF Returns, Pop, Within
      <4> QED
        BY <2>1, <3>1, <3>5, <4>1, <4>2, WalkShrinks DEF Returns
    <3>6. CASE Stays(v)
      BY <2>1, <2>4, <3>6 DEF Stays, WalkInv
    <3>7. CASE Reject(v) \/ Respond(v) \/ Abort(v)
      <4>1. /\ stack'[v] = <<>> /\ visited'[v] = {}
            /\ ~(Underway(v)' \/ Announcing(v)')
        BY <3>7 DEF Reject, Respond, Abort, Finish, TypeOK, Underway, Announcing
      <4> QED
        BY <4>1 DEF Walk, Related, Ahead, Entries
    <3> QED
      BY <2>4, <3>2, <3>3, <3>4, <3>5, <3>6, <3>7, StackMoves
  <2> QED
    BY <2>1, <2>2, <2>3, <2>4
<1> QED
  BY <1>1, <1>2, <1>3 DEF WalkInv

-----------------------------------------------------------------------------
(* What the walk still owes                                                *)

\* The segments v has still to evaluate because a dependency changed.
Awaiting(v) ==
    {s \in Segments :
        \/ s \in OnStack(v)
        \/ Announcing(v) /\ current[v] \in deps[s]
        \/ Underway(v) /\ stack[v] # <<>> /\ s = current[v]}

\* Nothing is on an empty stack.
LEMMA EmptyStack == Entries(<<>>) = {}
BY DEF Entries

\* Between calls, and between the cascades of a batch, nothing is owed.
LEMMA NothingAwaited ==
    ASSUME NEW v, stack[v] = <<>>, ~Announcing(v) PROVE Awaiting(v) = {}
BY EmptyStack DEF Awaiting, OnStack

\* What is owed stays owed until its commit.
LEMMA AwaitingStep ==
    ASSUME Serial, TypeOK, [Next]_vars, NEW v \in Evaluators, WalkInv(v), Steady(v), Steady(v)',
           NEW s \in live \cap Dynamic, s \in Awaiting(v)
    PROVE  s \in Awaiting(v)' \/ (Commit(v) /\ s = current[v])
<1>1. deps' = deps /\ (Step(v) \/ UNCHANGED <<pc, walk, diff, batch, queue>>)
  BY SteadyFrame
<1>2. /\ s \in Segments /\ deps \in Graphs /\ stack[v] \in Stacks
      /\ visited[v] \in SUBSET Segments /\ Walk(deps, stack[v], visited[v])
  BY WalkTypes DEF WalkInv, Dynamic
<1>3. \/ s \in OnStack(v)
      \/ Announcing(v) /\ current[v] \in deps[s]
      \/ Underway(v) /\ stack[v] # <<>> /\ s = current[v]
  BY DEF Awaiting
<1>4. SUFFICES ASSUME ~(Commit(v) /\ s = current[v])
               PROVE  \/ s \in Entries(stack'[v])
                      \/ Announcing(v)' /\ current'[v] \in deps[s]
                      \/ Underway(v)' /\ stack'[v] # <<>> /\ s = current'[v]
  BY <1>1, <1>2 DEF Awaiting, OnStack
<1>5. CASE UNCHANGED <<pc, walk>>
  BY <1>3, <1>5 DEF walk, Announcing, Underway, OnStack
<1>6. CASE Step(v)
  <2>1. stack[v] # <<>> \/ Announcing(v)
    BY NothingAwaited
  <2>2. CASE Enters(v)
    BY <2>1, <2>2 DEF Enters, Announcing
  <2>3. CASE Visits(v)
    <3>1. Entries(stack[v]) = Entries(stack'[v]) \cup {current'[v]} /\ stack'[v] # <<>>
      BY <1>2, <2>3, OneTaken DEF Visits
    <3> QED
      BY <1>3, <2>3, <3>1 DEF Visits, Announcing, Underway, OnStack
  <2>4. CASE Pushes(v)
    <3>1. stack'[v] = Append(stack[v], Dependents(current[v])) /\ ~Underway(v)
      BY <2>4 DEF Pushes, Underway
    <3>2. Dependents(current[v]) \in SUBSET Segments
      BY DEF Dependents, Dynamic
    <3>3. current[v] \in deps[s] => s \in Dependents(current[v])
      BY DEF Dependents
    <3>4. Entries(stack'[v]) = Entries(stack[v]) \cup Dependents(current[v])
      BY <1>2, <3>1, <3>2, StackParts DEF Entries
    <3> QED
      BY <1>3, <3>1, <3>3, <3>4 DEF OnStack
  <2>5. CASE Returns(v)
    <3>1. stack[v] # <<>> /\ TopOf(stack[v]) = {} /\ stack'[v] = Pop(v)
          /\ ~Underway(v) /\ ~Announcing(v)
      BY <2>5 DEF Returns, Underway, Announcing
    <3>2. DOMAIN stack'[v] = DOMAIN stack[v] \ {Len(stack[v])}
          /\ \A i \in DOMAIN stack'[v] : stack'[v][i] = stack[v][i]
      BY <1>2, <3>1, TopRemoved DEF Pop
    <3> QED
      BY <1>3, <3>1, <3>2 DEF OnStack, Entries, TopOf
  <2>6. CASE Stays(v)
    <3>1. stack'[v] = stack[v] /\ current'[v] = current[v]
      BY <2>6 DEF Stays
    <3> QED
      BY <1>3, <1>4, <2>6, <3>1 DEF Stays, OnStack
  <2>7. CASE Reject(v) \/ Respond(v) \/ Abort(v)
    <3>1. ~quiet'[v] /\ ~lagging'
      BY <2>7 DEF Reject, Respond, Abort, Finish, TypeOK, Steady
    <3>2. ~(Announcing(v)) /\ stack[v] = <<>>
      BY <2>7, <3>1 DEF Reject, Respond, Abort, Announcing, WalkInv
    <3> QED
      BY <2>1, <3>2
  <2> QED
    BY <1>6, <2>2, <2>3, <2>4, <2>5, <2>6, <2>7, StackMoves
<1> QED
  BY <1>1, <1>5, <1>6

\* The memberships a step of v leaves: those of the current segment move to
\* what was kept, in a commit, and only then.
LEMMA MembersMove ==
    ASSUME Serial, TypeOK, RightType, FreshRead, [Next]_vars, NEW v \in Evaluators
    PROVE  \/ /\ Commit(v) /\ Changed(v) /\ Announcing(v)' /\ current'[v] = current[v]
              /\ Active(current[v])' = kept[v]
              /\ \A s \in Segments \ {current[v]} : Active(s)' = Active(s)
           \/ /\ Commit(v) => kept[v] = Active(current[v])
              /\ \A s \in Segments : Active(s)' = Active(s)
<1>1. CASE ~Commit(v)
  <2>1. member' = member
    BY <1>1, StoreFrame DEF Serial
  <2> QED
    BY <1>1, <2>1 DEF Active
<1>2. CASE Commit(v)
  <2>3. current'[v] = current[v] /\ previous[v] = Active(current[v])
    BY <1>2 DEF Commit, walk, FreshRead
  <2>1. /\ current[v] \in Segments /\ Active(current[v])' = kept[v]
        /\ \A s \in Segments \ {current[v]} : member'[s] = member[s]
    BY <1>2, <2>3, CommitSets
  <2>2. \A s \in Segments \ {current[v]} : Active(s)' = Active(s)
    BY <2>1 DEF Active
  <2>4. CASE Changed(v)
    BY <1>2, <2>1, <2>2, <2>3, <2>4 DEF Commit, Announcing, TypeOK
  <2>5. CASE ~Changed(v)
    <3>1. kept[v] = Active(current[v])
      BY <2>3, <2>5 DEF Changed
    <3>2. ASSUME NEW s \in Segments PROVE Active(s)' = Active(s)
      <4>1. CASE s # current[v]
        BY <2>2, <4>1
      <4>2. CASE s = current[v]
        BY <2>1, <2>3, <3>1, <4>2 DEF Active
      <4> QED
        BY <4>1, <4>2
    <3> QED
      BY <3>1, <3>2
  <2> QED
    BY <2>4, <2>5
<1> QED
  BY <1>1, <1>2

\* A call that is past its filter holds what it kept there.
LEMMA KeptFrame ==
    ASSUME Serial, TypeOK, [Next]_vars, NEW v \in Evaluators, pc'[v] \in {"previous", "commit"}
    PROVE  /\ current'[v] = current[v]
           /\ \/ Filter(v)
              \/ /\ pc[v] \in {"previous", "commit"} /\ kept'[v] = kept[v]
                 /\ ~Commit(v)
<1>1. current'[v] = current[v]
  BY WalkFrame
<1>2. CASE ReadPrevious(v)
  BY <1>1, <1>2 DEF ReadPrevious, Commit
<1>3. CASE pc[v] = pc'[v]
  <2>1. UNCHANGED kept
    <3>1. CASE Step(v)
      BY <1>3, <3>1 DEF Step, EvaluateSegment, RefreshStaticSegment, EvaluateAll, EvaluateRule,
         Reject, Filter, ReadPrevious, Commit, Publish, Cascade, Visit, Skip, Return, NextInBatch,
         EndCall, Respond, Abort, Finish, NextDependent, Enter, diff, TypeOK
    <3> QED
      BY <3>1 DEF Next, Serial, ChangeData, UpdateSegment, DeleteSegment, vars, diff
  <2>2. ~Commit(v)
    BY <1>3 DEF Commit, TypeOK
  <2> QED
    BY <1>1, <1>3, <2>1, <2>2
<1>4. ~EvaluateRule(v)
  BY DEF EvaluateRule, TypeOK
<1> QED
  BY <1>1, <1>2, <1>3, <1>4, WalkFrame

-----------------------------------------------------------------------------
(* No member outlives its dependencies                                     *)

\* While dependencies stand, only a segment that awaits its evaluation may have
\* a member that one of them lacks.
RespectInv(v) ==
    ~lagging /\ Untangled =>
        /\ pc[v] \in {"previous", "commit"} => \A d \in deps[current[v]] : kept[v] \subseteq Active(d)
        /\ \A s \in live \cap Dynamic : \A d \in deps[s] :
              Active(s) \subseteq Active(d) \/ s \in Awaiting(v)

\* Members that do not lag now did not lag before, under the same dependencies.
LEMMA DependenciesStand == ASSUME [Next]_vars, ~lagging' PROVE ~lagging /\ deps' = deps
<1>1. ASSUME NEW v \in Evaluators, Step(v) PROVE ~lagging /\ deps' = deps
  <2>1. CASE Reject(v) \/ Abort(v)
    BY <2>1 DEF Reject, Abort
  <2>2. CASE ~(Reject(v) \/ Abort(v))
    <3>1. UNCHANGED <<deps, lagging>>
      BY <1>1, <2>2 DEF Step, EvaluateSegment, RefreshStaticSegment, EvaluateAll, EvaluateRule,
         Filter, ReadPrevious, Commit, Publish, Cascade, Visit, Skip, Return, NextInBatch, EndCall,
         Respond, data
    <3> QED
      BY <3>1
  <2> QED
    BY <2>1, <2>2
<1> QED
  BY <1>1 DEF Next, ChangeData, UpdateSegment, DeleteSegment, vars, data

\* No segment depends on itself in an untangled graph.
LEMMA NotOnItself ==
    ASSUME TypeOK, Untangled, NEW s \in Segments PROVE s \notin deps[s]
<1>1. deps \in Graphs
  BY DEF TypeOK, Graphs
<1> QED
  BY <1>1, UntangledIsForest, UpHolds DEF Forest

\* Every step keeps RespectInv.
LEMMA RespectStep ==
    ASSUME Serial, TypeOK, RightType, FreshRead, [Next]_vars, NEW v \in Evaluators,
           WalkInv(v), RespectInv(v)
    PROVE  RespectInv(v)'
<1> SUFFICES ASSUME ~lagging', Untangled'
             PROVE  /\ pc'[v] \in {"previous", "commit"} =>
                          \A d \in deps'[current'[v]] : kept'[v] \subseteq Active(d)'
                    /\ \A s \in live' \cap Dynamic' : \A d \in deps'[s] :
                          Active(s)' \subseteq Active(d)' \/ s \in Awaiting(v)'
  BY DEF RespectInv
<1>1. Steady(v)'
  BY DEF Steady
<1>2. deps' = deps /\ statics' = statics /\ live' \subseteq live /\ Untangled
  BY <1>1, SteadyFrame
<1>3. ~lagging
  BY DependenciesStand
<1>4. Steady(v)
  BY <1>2, <1>3 DEF Steady
<1>5. /\ pc[v] \in {"previous", "commit"} => \A d \in deps[current[v]] : kept[v] \subseteq Active(d)
      /\ \A s \in live \cap Dynamic : \A d \in deps[s] :
            Active(s) \subseteq Active(d) \/ s \in Awaiting(v)
  BY <1>2, <1>3 DEF RespectInv
<1>6. \A s \in Segments : deps[s] \subseteq Segments /\ s \notin deps[s]
  BY <1>2, NotOnItself DEF TypeOK
<1>7. ASSUME pc'[v] \in {"previous", "commit"}, NEW d \in deps[current[v]]
      PROVE  current'[v] = current[v] /\ kept'[v] \subseteq Active(d)'
  <2>1. current'[v] = current[v] /\ current[v] \in Segments /\ d \in Segments
    <3>1. RightType'
      BY RightTypeStep
    <3>2. current'[v] \in Segments
      BY <1>7, <3>1 DEF RightType, LookedUp
    <3> QED
      BY <1>6, <1>7, <3>2, KeptFrame
  <2>2. Active(d)' = Active(d)
    BY <1>7, <2>1, KeptFrame, MembersMove DEF Commit, Filter
  <2>3. CASE Filter(v)
    BY <2>1, <2>2, <2>3, <1>7 DEF Filter, FilterByDependencies, TypeOK
  <2>4. CASE pc[v] \in {"previous", "commit"} /\ kept'[v] = kept[v]
    BY <1>5, <1>7, <2>1, <2>2, <2>4
  <2> QED
    BY <1>7, <2>1, <2>3, <2>4, KeptFrame
<1>8. ASSUME NEW s \in live' \cap Dynamic', NEW d \in deps[s], s \notin Awaiting(v)'
      PROVE  Active(s)' \subseteq Active(d)'
  <2>1. s \in live \cap Dynamic /\ s \in Segments /\ d \in Segments /\ s # d
    BY <1>2, <1>6, <1>8 DEF Dynamic
  <2>2. Active(s) \subseteq Active(d) \/ (Commit(v) /\ s = current[v])
    BY <1>1, <1>4, <1>5, <1>8, <2>1, AwaitingStep
  <2>3. CASE Commit(v) /\ s = current[v]
    <3>1. kept[v] \subseteq Active(d)
      BY <1>5, <2>3 DEF Commit
    <3> QED
      BY <2>1, <2>3, <3>1, MembersMove
  <2>4. CASE ~(Commit(v) /\ s = current[v])
    <3>1. Active(s)' = Active(s)
      BY <2>1, <2>4, MembersMove
    <3>2. Active(d)' = Active(d)
      <4>1. ASSUME d = current[v], Announcing(v)', current'[v] = current[v] PROVE FALSE
        BY <1>2, <1>8, <2>1, <4>1 DEF Awaiting
      <4> QED
        BY <2>1, <4>1, MembersMove
    <3> QED
      BY <2>2, <2>4, <3>1, <3>2
  <2> QED
    BY <2>3, <2>4
<1> QED
  BY <1>2, <1>7, <1>8, KeptFrame

-----------------------------------------------------------------------------
(* A whole batch leaves every segment fresh                                *)

\* s has exactly the members its rule and its dependencies give.
Settled(s) == Active(s) = FilterByDependencies(s, matches[s])

\* While nothing changes under a batch, only a segment that is to be evaluated,
\* in its turn or in a cascade, may have other members than its rule gives.
FreshInv(v) ==
    batch[v] /\ quiet[v] /\ Untangled =>
        /\ pc[v] = "filter" => matched[v] = matches[current[v]]
        /\ pc[v] \in {"previous", "commit"} =>
              kept[v] = FilterByDependencies(current[v], matches[current[v]])
        /\ \A s \in live \cap Dynamic :
              \/ Settled(s)
              \/ s \in queue[v] \cup Awaiting(v)
              \/ Underway(v) /\ s = current[v]
        /\ pc[v] = "done" => queue[v] = {}

\* A batch that nothing disturbs goes on as it was, or has just begun.
LEMMA BatchFrame ==
    ASSUME Serial, TypeOK, [Next]_vars, NEW v \in Evaluators, batch'[v], quiet'[v]
    PROVE  \/ EvaluateAll(v)
           \/ /\ batch[v] /\ quiet[v] /\ matches' = matches
              /\ ~(Reject(v) \/ Respond(v) \/ Abort(v))
              /\ \/ UNCHANGED <<pc, walk, diff, queue>>
                 \/ Step(v)
<1>1. CASE Step(v)
  <2>1. CASE Reject(v) \/ Respond(v) \/ Abort(v)
    BY <2>1 DEF Reject, Respond, Abort, Finish, TypeOK
  <2>2. CASE ~(EvaluateAll(v) \/ Reject(v) \/ Respond(v) \/ Abort(v))
    <3>1. UNCHANGED <<batch, quiet, matches>>
      BY <1>1, <2>2 DEF Step, EvaluateSegment, RefreshStaticSegment, EvaluateRule,
         Filter, ReadPrevious, Commit, Publish, Cascade, Visit, Skip, Return, NextInBatch,
         EndCall, data, call
    <3> QED
      BY <1>1, <2>2, <3>1
  <2> QED
    BY <2>1, <2>2
<1>2. CASE \E s \in Segments : DeleteSegment(s)
  <2>1. UNCHANGED <<batch, quiet, matches, pc, walk, diff, queue>>
    BY <1>2 DEF DeleteSegment, call
  <2>2. ~(Reject(v) \/ Respond(v) \/ Abort(v))
    BY <2>1 DEF Reject, Respond, Abort, Finish, TypeOK
  <2> QED
    BY <2>1, <2>2
<1>3. CASE UNCHANGED vars
  <2>1. UNCHANGED <<batch, quiet, matches, pc, walk, diff, queue>>
    BY <1>3 DEF vars, data, call
  <2>2. ~(Reject(v) \/ Respond(v) \/ Abort(v))
    BY <2>1 DEF Reject, Respond, Abort, Finish, TypeOK
  <2> QED
    BY <2>1, <2>2
<1>4. CASE \/ \E s \in Segments, now \in SUBSET Customers : ChangeData(s, now)
           \/ \E s \in Segments, now \in SUBSET Customers, on \in SUBSET Segments,
                 isStatic \in BOOLEAN : UpdateSegment(s, now, on, isStatic)
  BY <1>4 DEF ChangeData, UpdateSegment
<1> QED
  BY <1>1, <1>2, <1>3, <1>4 DEF Next, Serial

\* The queue of a batch loses only the segment whose turn it is.
LEMMA QueueStep ==
    ASSUME TypeOK, NEW v \in Evaluators, Step(v), ~(EvaluateAll(v) \/ Reject(v) \/ Respond(v) \/ Abort(v)),
           NEW s \in queue[v]
    PROVE  s \in queue'[v] \/ (Underway(v)' /\ s = current'[v])
<1>1. CASE \E r \in Segments : NextInBatch(v, r)
  BY <1>1 DEF NextInBatch, Enter, Underway, TypeOK
<1>2. CASE ~\E r \in Segments : NextInBatch(v, r)
  BY <1>2 DEF Step, EvaluateSegment, RefreshStaticSegment, EvaluateRule, Filter, ReadPrevious,
     Commit, Publish, Cascade, Visit, Skip, Return, EndCall, call
<1> QED
  BY <1>1, <1>2

\* A call that is underway stays so until its commit.
LEMMA UnderwayStep ==
    ASSUME TypeOK, NEW v \in Evaluators, Step(v), ~(Reject(v) \/ Respond(v) \/ Abort(v)),
           Underway(v)
    PROVE  (Underway(v)' /\ current'[v] = current[v]) \/ Commit(v)
<1>1. EvaluateRule(v) \/ Filter(v) \/ ReadPrevious(v) \/ Commit(v)
  BY DEF Underway, Step, EvaluateSegment, RefreshStaticSegment, EvaluateAll, Publish, Cascade, Visit,
     Skip, Return, NextDependent, NextInBatch, EndCall
<1> QED
  BY <1>1 DEF EvaluateRule, Filter, ReadPrevious, Underway, walk, TypeOK

\* Every step keeps FreshInv.
LEMMA FreshStep ==
    ASSUME Serial, TypeOK, RightType, FreshRead, [Next]_vars, NEW v \in Evaluators,
           WalkInv(v), FreshInv(v)
    PROVE  FreshInv(v)'
<1> SUFFICES ASSUME batch'[v], quiet'[v], Untangled'
             PROVE  /\ pc'[v] = "filter" => matched'[v] = matches'[current'[v]]
                    /\ pc'[v] \in {"previous", "commit"} =>
                          kept'[v] = FilterByDependencies(current[v], matches[current[v]])'
                    /\ \A s \in live' \cap Dynamic' :
                          \/ Settled(s)'
                          \/ s \in queue'[v] \cup Awaiting(v)'
                          \/ Underway(v)' /\ s = current'[v]
                    /\ pc'[v] = "done" => queue'[v] = {}
  BY DEF FreshInv
<1>1. Steady(v)'
  BY DEF Steady
<1>2. deps' = deps /\ statics' = statics /\ live' \subseteq live /\ Untangled
  BY <1>1, SteadyFrame
<1>3. CASE EvaluateAll(v)
  <2>1. pc'[v] = "next" /\ queue'[v] = live' \cap Dynamic'
    BY <1>3 DEF EvaluateAll, data, Dynamic, TypeOK
  <2> QED
    BY <2>1
<1>4. CASE ~EvaluateAll(v)
  <2>1. /\ batch[v] /\ quiet[v] /\ matches' = matches
        /\ ~(Reject(v) \/ Respond(v) \/ Abort(v))
        /\ UNCHANGED <<pc, walk, diff, queue>> \/ Step(v)
    BY <1>4, BatchFrame
  <2>2. /\ pc[v] = "filter" => matched[v] = matches[current[v]]
        /\ pc[v] \in {"previous", "commit"} =>
              kept[v] = FilterByDependencies(current[v], matches[current[v]])
        /\ \A s \in live \cap Dynamic :
              \/ Settled(s)
              \/ s \in queue[v] \cup Awaiting(v)
              \/ Underway(v) /\ s = current[v]
        /\ pc[v] = "done" => queue[v] = {}
    BY <1>2, <2>1 DEF FreshInv
  <2>3. Steady(v)
    BY <1>2, <2>1 DEF Steady
  <2>4. \A s \in Segments : deps[s] \subseteq Segments /\ s \notin deps[s]
    BY <1>2, NotOnItself DEF TypeOK
  <2>5. ASSUME NEW s \in Segments, \A d \in deps[s] : Active(d)' = Active(d)
        PROVE  FilterByDependencies(s, matches[s])' = FilterByDependencies(s, matches[s])
    BY <1>2, <2>1, <2>5 DEF FilterByDependencies
  <2>6. ASSUME pc'[v] = "filter" PROVE matched'[v] = matches'[current'[v]]
    <3>1. current'[v] = current[v]
      BY <2>6, WalkFrame
    <3>2. CASE EvaluateRule(v)
      BY <2>1, <3>1, <3>2 DEF EvaluateRule, TypeOK
    <3>3. CASE ~EvaluateRule(v)
      <4>1. pc[v] = "filter"
        BY <2>6, <3>3, WalkFrame DEF Filter, ReadPrevious, TypeOK
      <4>2. ~Step(v)
        BY <2>1, <2>6, <4>1 DEF Step, EvaluateSegment, RefreshStaticSegment, EvaluateAll, EvaluateRule,
           Filter, ReadPrevious, Commit, Publish, Cascade, Visit, Skip, Return, NextDependent,
           NextInBatch, EndCall, TypeOK
      <4> QED
        BY <2>1, <2>2, <3>1, <4>1, <4>2 DEF diff
    <3> QED
      BY <3>2, <3>3
  <2>7. ASSUME pc'[v] \in {"previous", "commit"}
        PROVE  kept'[v] = FilterByDependencies(current[v], matches[current[v]])'
    <3>1. current'[v] = current[v] /\ current[v] \in Segments
      <4>1. RightType'
        BY RightTypeStep
      <4> QED
        BY <2>7, <4>1, KeptFrame DEF RightType, LookedUp
    <3>2. \A s \in Segments : Active(s)' = Active(s)
      BY <2>7, <3>1, KeptFrame, MembersMove DEF Commit, Filter
    <3>3. FilterByDependencies(current[v], matches[current[v]])'
            = FilterByDependencies(current[v], matches[current[v]])
      <4> DEFINE c == current[v]
      <4>1. \A d \in deps[c] : Active(d)' = Active(d)
        BY <2>4, <3>1, <3>2
      <4> QED
        BY <1>2, <2>1, <3>1, <4>1 DEF FilterByDependencies
    <3>4. CASE Filter(v)
      BY <2>2, <3>3, <3>4 DEF Filter, TypeOK
    <3>5. CASE pc[v] \in {"previous", "commit"} /\ kept'[v] = kept[v]
      BY <2>2, <3>3, <3>5
    <3> QED
      BY <2>7, <3>4, <3>5, KeptFrame
  <2>8. ASSUME NEW s \in live' \cap Dynamic', s \notin queue'[v], s \notin Awaiting(v)',
               ~(Underway(v)' /\ s = current'[v])
        PROVE  Settled(s)'
    <3>1. s \in live \cap Dynamic /\ s \in Segments
      BY <1>2, <2>8 DEF Dynamic
    <3>2. \A d \in deps[s] : Active(d)' = Active(d)
      <4>1. ASSUME NEW d \in deps[s], d = current[v], Announcing(v)', current'[v] = current[v]
            PROVE  FALSE
        BY <1>2, <2>8, <3>1, <4>1 DEF Awaiting
      <4> QED
        BY <2>4, <3>1, <4>1, MembersMove
    <3>3. FilterByDependencies(s, matches[s])' = FilterByDependencies(s, matches[s])
      BY <2>5, <3>1, <3>2
    <3>4. CASE Commit(v) /\ s = current[v]
      <4>1. Active(s)' = kept[v]
        BY <3>1, <3>4, MembersMove
      <4>2. kept[v] = FilterByDependencies(s, matches[s])
        BY <2>2, <3>4 DEF Commit
      <4> QED
        BY <3>3, <4>1, <4>2 DEF Settled
    <3>5. CASE ~(Commit(v) /\ s = current[v])
      <4>1. s \notin Awaiting(v)
        BY <1>1, <2>3, <2>8, <3>1, <3>5, AwaitingStep
      <4>2. s \notin queue[v]
        BY <1>4, <2>1, <2>8, QueueStep
      <4>3. ~(Underway(v) /\ s = current[v])
        <5>1. CASE Step(v)
          BY <2>1, <2>8, <3>5, <5>1, UnderwayStep
        <5>2. CASE UNCHANGED <<pc, walk>>
          BY <2>8, <5>2 DEF Underway, walk
        <5> QED
          BY <2>1, <5>1, <5>2
      <4>4. Settled(s)
        BY <2>2, <3>1, <4>1, <4>2, <4>3
      <4>5. Active(s)' = Active(s)
        BY <3>1, <3>5, MembersMove
      <4> QED
        BY <3>3, <4>4, <4>5 DEF Settled
    <3> QED
      BY <3>4, <3>5
  <2>9. ASSUME pc'[v] = "done" PROVE queue'[v] = {}
    <3>1. CASE EndCall(v)
      BY <3>1 DEF EndCall, call
    <3>2. CASE Step(v) /\ ~EndCall(v)
      <4>1. CASE \E s \in Segments : EvaluateSegment(v, s) \/ RefreshStaticSegment(v, s)
                                      \/ Visit(v, s) \/ NextInBatch(v, s)
        BY <2>9, <4>1 DEF EvaluateSegment, RefreshStaticSegment, Visit, NextInBatch, Enter, TypeOK
      <4>2. CASE EvaluateAll(v) \/ EvaluateRule(v) \/ Filter(v) \/ ReadPrevious(v) \/ Commit(v)
                 \/ Publish(v) \/ Cascade(v)
        BY <2>9, <4>2 DEF EvaluateAll, EvaluateRule, Filter, ReadPrevious, Commit, Publish, Cascade,
           TypeOK
      <4>3. CASE Return(v) \/ \E d \in Segments : Skip(v, d)
        BY <2>9, <4>3 DEF Return, Skip, NextDependent
      <4> QED
        BY <2>1, <3>2, <4>1, <4>2, <4>3 DEF Step
    <3>3. CASE UNCHANGED <<pc, queue>>
      BY <2>2, <2>9, <3>3
    <3> QED
      BY <2>1, <3>1, <3>2, <3>3
  <2> QED
    BY <2>6, <2>7, <2>8, <2>9
<1> QED
  BY <1>3, <1>4

-----------------------------------------------------------------------------
(* The theorems                                                            *)

\* The inductive invariant of the batches.
BatchInv == \A v \in Evaluators : WalkInv(v) /\ FreshInv(v)

\* The inductive invariant of the memberships, from an untangled start on.
MembersInv ==
    /\ ~lagging => Untangled
    /\ \A v \in Evaluators : WalkInv(v) /\ RespectInv(v)

\* Before the first call the walk is over.
LEMMA CascadeInit == ASSUME Init, NEW v \in Evaluators PROVE WalkInv(v) /\ RespectInv(v) /\ FreshInv(v)
<1>1. /\ pc[v] = "idle" /\ stack[v] = <<>> /\ visited[v] = {} /\ batch[v] = FALSE
      /\ \A s \in Segments : Active(s) = {}
  BY DEF Init, Active
<1>2. WalkInv(v)
  <2>1. Walk(deps, <<>>, {})
    BY DEF Walk, Related, Ahead, Entries
  <2> QED
    BY <1>1, <2>1 DEF WalkInv, Underway, Announcing
<1>3. RespectInv(v)
  BY <1>1 DEF RespectInv, Dynamic
<1>4. FreshInv(v)
  BY <1>1 DEF FreshInv
<1> QED
  BY <1>2, <1>3, <1>4

\* Every step keeps BatchInv.
LEMMA BatchStep ==
    Serial /\ TypeOK /\ RightType /\ FreshRead /\ BatchInv /\ [Next]_vars => BatchInv'
BY WalkStep, FreshStep DEF BatchInv

\* An untangled graph stays so as long as dependencies stand.
LEMMA UntangledStep ==
    ASSUME [Next]_vars, ~lagging => Untangled, ~lagging' PROVE Untangled'
BY DependenciesStand DEF Untangled, Upstream

\* Every step keeps MembersInv.
LEMMA MembersStep ==
    Serial /\ TypeOK /\ RightType /\ FreshRead /\ MembersInv /\ [Next]_vars => MembersInv'
BY WalkStep, RespectStep, UntangledStep DEF MembersInv

\* When no two calls overlap and nothing changes under a whole batch, and no
\* segment depends on another along two paths, every live dynamic segment has
\* exactly the members its rule and its dependencies give when the batch ends: of
\* every size, and whatever updates, deletions and dead calls came before.
THEOREM BatchesEndFresh == ASSUME Serial PROVE Spec => []BatchFresh
<1>1. Init => BatchInv
  BY CascadeInit DEF BatchInv
<1>2. TypeOK /\ RightType /\ FreshRead /\ BatchInv /\ [Next]_vars => BatchInv'
  BY BatchStep
<1>3. BatchInv => BatchFresh
  <2> SUFFICES ASSUME BatchInv, NEW v \in Evaluators, pc[v] = "done", batch[v], quiet[v], Untangled,
                      NEW s \in live \cap Dynamic
               PROVE  Settled(s)
    BY DEF BatchFresh, Fresh, Settled
  <2>1. stack[v] = <<>> /\ ~Announcing(v) /\ ~Underway(v)
    BY DEF BatchInv, WalkInv, Announcing, Underway
  <2>2. Awaiting(v) = {}
    BY <2>1, NothingAwaited
  <2> QED
    BY <2>1, <2>2 DEF BatchInv, FreshInv
<1> QED
  BY <1>1, <1>2, <1>3, TypedCalls, SerialInvariant, PTL DEF Spec

\* When no two calls overlap and the graph of dependencies starts untangled, no
\* member of a live dynamic segment outlives a dependency: at rest, unless an
\* update or an early end has let members lag, every dependency of a segment holds
\* for all its members.
THEOREM DependenciesStayRespected ==
    ASSUME Serial, Evaluators # {} PROVE Spec /\ Untangled => []DependenciesRespected
<1>1. Init /\ Untangled => MembersInv
  BY CascadeInit DEF MembersInv
<1>2. TypeOK /\ RightType /\ FreshRead /\ MembersInv /\ [Next]_vars => MembersInv'
  BY MembersStep
<1>3. MembersInv => DependenciesRespected
  <2> SUFFICES ASSUME MembersInv, AtRest, ~lagging,
                      NEW s \in live \cap Dynamic, NEW d \in deps[s]
               PROVE  Active(s) \subseteq Active(d)
    BY DEF DependenciesRespected
  <2>1. PICK v \in Evaluators : pc[v] \in {"idle", "done"}
    BY DEF AtRest
  <2>2. stack[v] = <<>> /\ ~Announcing(v) /\ Untangled
    BY <2>1 DEF MembersInv, WalkInv, Announcing
  <2>3. Awaiting(v) = {}
    BY <2>2, NothingAwaited
  <2> QED
    BY <2>2, <2>3 DEF MembersInv, RespectInv
<1> QED
  BY <1>1, <1>2, <1>3, TypedCalls, SerialInvariant, PTL DEF Spec
=============================================================================
