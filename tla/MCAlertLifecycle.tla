-------------------------- MODULE MCAlertLifecycle --------------------------
(* Instances of AlertLifecycle for TLC. *)
EXTENDS AlertLifecycle, TLC

CONSTANTS r1, r2, s1, e1, e2, c1, c2, h1, h2, m1

OneServer == [r \in Rules |-> s1]
Rows == Permutations({e1, e2})
HandlersAndRows == Permutations({h1, h2}) \cup Rows
=============================================================================
