---------------------------- MODULE MC_Segments ----------------------------
EXTENDS SegmentRules, TLC

CONSTANTS k1, k2

OneName == {<<0>>}

\* "A" and "A 2" at the start, ids for two more.
Keyed == 1 :> <<0>> @@ 2 :> <<0, 2>> @@ 3 :> NoKey @@ 4 :> NoKey

\* What the rules below are made of.
One      == Object("segmentId" :> String(1))
Two      == Object("segmentId" :> String(2))
Mixed    == Array(<<One, Leaf>>)
Twice    == Array(<<String(2)>>)
Both     == Array(<<String(1), String(2)>>)
Impure   == Array(<<String(1), Two>>)

\* Null, and rules that mention segments in every form the traversal knows, or
\* in one that is no mention.
Rules ==
    {Leaf,
     Object("conditions" :> Mixed @@ "segmentId" :> Twice),
     Object("segmentIds" :> Both),
     Object("segmentIds" :> Impure)}

RuleValues == Rules \cup {String(1), String(2), One, Two, Mixed, Twice, Both, Impure}

IdsOfRules == [d \in Rules |-> ExtractDependencySegmentIds(d)]

TwoClients == {k1, k2}
=============================================================================
