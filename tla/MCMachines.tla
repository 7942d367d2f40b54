----------------------------- MODULE MCMachines -----------------------------
(***************************************************************************)
(* Enrollment and the local helper for TLC: the machines where an agent    *)
(* enrolls, and the one from which an operator reaches them.  They share   *)
(* no state: each behaviour is one of one of the two, chosen at the start. *)
(***************************************************************************)
EXTENDS Enrollment, LocalHelper, TLC

CONSTANTS t1, s1, s2, m1, m2, h1, h2, e1, p1, w1, c1

FirstServer == [e \in Enrollments |-> w1]

Interchangeable ==
    Permutations({s1, s2}) \cup Permutations({m1, m2}) \cup Permutations({h1, h2})

VARIABLE side

sideVars == <<side, vars, helperVars>>

EitherInit == side \in {"enrollment", "helper"} /\ Init /\ HelperInit

EitherNext ==
    /\ UNCHANGED side
    /\ \/ side = "enrollment" /\ Next /\ UNCHANGED helperVars
       \/ side = "helper" /\ HelperNext /\ UNCHANGED vars

Either == EitherInit /\ [][EitherNext]_sideVars
=============================================================================
