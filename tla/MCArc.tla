------------------------------- MODULE MCArc --------------------------------
(* Model values and symmetry for the runs of Arc.                          *)
EXTENDS Arc, TLC

CONSTANTS h1, h2, h3, h4, h5

ThreeHandles == {h1, h2, h3}
FiveHandles == {h1, h2, h3, h4, h5}
Symmetry == Permutations(Handles)

=============================================================================
