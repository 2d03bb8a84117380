------------------------------- MODULE MCChan -------------------------------
(* Model values and symmetry for the runs of Chan.                         *)
EXTENDS Chan, TLC

CONSTANTS t1, t2, t3, t4, v1, v2

TwoThreads == {t1, t2}
ThreeThreads == {t1, t2, t3}
FourThreads == {t1, t2, t3, t4}
TwoValues == {v1, v2}
OneValue == {v1}

Symmetry == Permutations(Threads) \cup Permutations(Values)

=============================================================================
