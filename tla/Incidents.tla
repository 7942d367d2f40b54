----------------------------- MODULE Incidents -----------------------------
(***************************************************************************)
(* What the incidents of alert rules promise to whoever reads them or is   *)
(* told of them ("firing/resolved lifecycle", "deduplication",             *)
(* README.md:15): an incident begins, fires, is announced and is resolved, *)
(* in that order; a rule has one open incident at a time; and a webhook    *)
(* tells of a state that the incident is in when it is sent, unless the    *)
(* incident was deleted with its rule.  Every step is instantaneous here;  *)
(* AlertLifecycle has the statements that the code needs for it.           *)
(***************************************************************************)
CONSTANTS Rules, Events, Null

VARIABLES
    phase,      \* of each incident
    owner,      \* the rule each incident is about
    told        \* what has been sent about each incident

vars == <<phase, owner, told>>

(* "recovered" is an incident that was announced before it was resolved. *)
Ongoing == {"pending", "firing", "announced"}

Init ==
    /\ phase = [e \in Events |-> "none"]
    /\ owner = [e \in Events |-> Null]
    /\ told = [e \in Events |-> {}]

Moves(e, p) == phase' = [phase EXCEPT ![e] = p] /\ UNCHANGED <<owner, told>>

Begin(e, r) ==
    /\ phase[e] = "none"
    /\ \A f \in Events : owner[f] = r => phase[f] \notin Ongoing
    /\ \E p \in {"pending", "firing"} : phase' = [phase EXCEPT ![e] = p]
    /\ owner' = [owner EXCEPT ![e] = r]
    /\ UNCHANGED told

Fire(e) == phase[e] = "pending" /\ Moves(e, "firing")

Announce(e) == phase[e] = "firing" /\ Moves(e, "announced")

Resolve(e) ==
    \/ phase[e] \in {"pending", "firing"} /\ Moves(e, "resolved")
    \/ phase[e] = "announced" /\ Moves(e, "recovered")

(* A webhook says "firing" until the incident counts as announced, and     *)
(* "resolved" only of an announced one.  One that is under way when the    *)
(* incident is deleted may still arrive.                                   *)
Tell(e) ==
    /\ \E p \in {"firing", "resolved"} :
          /\ phase[e] \in {IF p = "firing" THEN "firing" ELSE "recovered", "deleted"}
          /\ told' = [told EXCEPT ![e] = @ \cup {p}]
    /\ UNCHANGED <<phase, owner>>

(* A rule is deleted, and its incidents with it. *)
Withdraw(r) ==
    /\ phase' = [e \in Events |-> IF owner[e] = r THEN "deleted" ELSE phase[e]]
    /\ owner' = [e \in Events |-> IF owner[e] = r THEN Null ELSE owner[e]]
    /\ UNCHANGED told

Next ==
    \/ \E e \in Events : \/ \E r \in Rules : Begin(e, r)
                         \/ Fire(e) \/ Announce(e) \/ Resolve(e) \/ Tell(e)
    \/ \E r \in Rules : Withdraw(r)

Spec == Init /\ [][Next]_vars
=============================================================================
