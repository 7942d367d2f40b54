---------------------------- MODULE MCEnrollment ----------------------------
(* Instances of Enrollment for TLC. *)
EXTENDS Enrollment, TLC

CONSTANTS t1, t2, s1, s2, m1, m2, h1, h2

Interchangeable ==
    Permutations({s1, s2}) \cup Permutations({m1, m2}) \cup Permutations({h1, h2})
=============================================================================
