-------------------------- MODULE MC_DeltaSignals --------------------------
(***************************************************************************)
(* DeltaSignals with two evaluations at a time and one client.             *)
(***************************************************************************)
EXTENDS DeltaSignals, TLC

Symmetry == Permutations(Evaluators)

\* No limit, one that is too small, one that fits and one that is too large.
LimitsDef == {NoLimit, 0, 2, 9}
=============================================================================
