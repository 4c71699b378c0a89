---------------------------- MODULE MCDashboardD1 ----------------------------
(* Three attempts on two mutation ids: a first save, a retry or a clash of *)
(* it, and the save of somebody else on the next revision.                 *)
EXTENDS DashboardD1, TLC

CONSTANTS m1, m2, x, y

MCRequests ==
  {[id |-> m1, expected |-> 0, doc |-> x], [id |-> m1, expected |-> 0, doc |-> y],
   [id |-> m2, expected |-> 0, doc |-> y], [id |-> m2, expected |-> 1, doc |-> y]}
Symmetry == Permutations(Attempts)
=============================================================================
