-------------------------- MODULE MC_Recalculation --------------------------
EXTENDS Recalculation, TLC

CONSTANTS p1, p2, s1, s2

OneProcess     == {p1}
TwoProcesses   == {p1, p2}
OneSlot        == {s1}
TwoSlots       == {s1, s2}
ProcSymmetry   == Permutations(TwoProcesses)
SlotSymmetry   == Permutations(TwoSlots)
=============================================================================
