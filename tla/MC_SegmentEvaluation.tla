----------------------- MODULE MC_SegmentEvaluation -----------------------
EXTENDS SegmentEvaluation, TLC

CONSTANTS c1, c2, v1, v2

\* 1 was made to depend on 2, and 2 and 3 on the static list 4, after those were
\* created.
TreeDeps == 1 :> {2} @@ 2 :> {4} @@ 3 :> {4} @@ 4 :> {}

\* 3 and 4 depend on 2; 1, the oldest, was made to depend on both.
DiamondDeps == 1 :> {3, 4} @@ 2 :> {} @@ 3 :> {2} @@ 4 :> {2}

OneSegmentDeps == 1 :> {}

OneCustomer    == {c1}
TwoCustomers   == {c1, c2}
OneEvaluator   == {v1}
TwoEvaluators  == {v1, v2}
CustomerSymmetry == Permutations(TwoCustomers)
=============================================================================
