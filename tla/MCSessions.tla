---------------------------- MODULE MCSessions ----------------------------
(* Instances of Sessions for TLC. *)
EXTENDS Sessions, TLC

CONSTANTS s1, s2, k1, k2, k3, k4, k5, t1, t2, h1, h2

Interchangeable ==
    Permutations(Rows) \cup Permutations(Tokens)
        \cup Permutations(Tabs) \cup Permutations(Requests)
=============================================================================
