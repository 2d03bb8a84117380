------------------------------- MODULE MCBot --------------------------------
(* Model values and symmetry for the runs of Bot.                          *)
EXTENDS Bot, TLC

CONSTANTS c1, c2, w1, w2, e1, e2, e3, e4

OneConn == {c1}
TwoConns == {c1, c2}
TwoWorkers == {w1, w2}
FourEchoes == {e1, e2, e3, e4}
TwoEchoes == {e1, e2}
Symmetry == Permutations(Conns) \cup Permutations(Workers) \cup Permutations(Echoes)

=============================================================================
