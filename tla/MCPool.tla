------------------------------- MODULE MCPool -------------------------------
(***************************************************************************)
(* Model-checking instances of Pool.                                       *)
(***************************************************************************)
EXTENDS Pool, TLC

CONSTANTS p1, p2, w1, w2, c1, c2, c3, c4, c5

OneClient == {p1}
TwoClients == {p1, p2}
OneWorker == {w1}
TwoWorkers == {w1, w2}
TwoConns == {c1, c2}
FiveConns == {c1, c2, c3, c4, c5}
Symmetry == Permutations(Clients) \cup Permutations(Conns)
=============================================================================
