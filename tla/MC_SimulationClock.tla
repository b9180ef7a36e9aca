------------------------ MODULE MC_SimulationClock ------------------------
EXTENDS SimulationClock

CONSTANTS c1, c2, c3

TwoCalls   == {c1, c2}
ThreeCalls == {c1, c2, c3}
=============================================================================
