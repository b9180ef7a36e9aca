---------------------------- MODULE SegmentRules ----------------------------
(***************************************************************************)
(* Segments and the documents it stores: DependencyIds is what the         *)
(* extraction makes of a rule document.                                    *)
(***************************************************************************)
EXTENDS Segments, RuleDocuments

ASSUME RulesAssumption ==
    /\ Documents \subseteq JsonValues
    /\ DependencyIds = [d \in Documents |-> ExtractDependencySegmentIds(d)]

\* Each document with the ids it mentions.
Readings == {<<d, Mentioned(d)>> : d \in Documents}

\* The dependency rows of a segment are exactly the ids that its stored document
\* mentions, however deep and whatever else it holds: the cascade and the filter
\* read the rows, and nobody compares them with the document again.
DependenciesMentioned == \A s \in Ids : <<rules[s], deps[s]>> \in Readings
=============================================================================
