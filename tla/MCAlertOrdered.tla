--------------------------- MODULE MCAlertOrdered ---------------------------
(* An instance of AlertOrdered for TLC. *)
EXTENDS AlertOrdered, TLC

CONSTANTS r1, r2, s1, e1, e2, c1, h1, m1

OneServer == [r \in Rules |-> s1]
Rows == Permutations({e1, e2})
=============================================================================
