---------------------------- MODULE OneTimeToken ----------------------------
(***************************************************************************)
(* What an enrollment token promises, as docs/architecture.md:126 puts it: *)
(* it expires, is used once, can be revoked, and is invalidated together   *)
(* with the exchange that uses it.  Every step is instantaneous here; the  *)
(* module Enrollment shows what the code needs for it.                     *)
(***************************************************************************)
CONSTANTS Tokens, Servers, Null

VARIABLES
    phase,      \* what GET /enrollment-tokens/{id} answers for each token
    maker       \* the token each server was enrolled with

vars == <<phase, maker>>

Init ==
    /\ phase = [t \in Tokens |-> "none"]
    /\ maker = [s \in Servers |-> Null]

Become(t, p) == phase' = [phase EXCEPT ![t] = p]

Issue(t) == phase[t] = "none" /\ Become(t, "pending") /\ UNCHANGED maker

Expire(t) == phase[t] = "pending" /\ Become(t, "expired") /\ UNCHANGED maker

(* A request made in time may complete just after the token expired. *)
Connect(t, s) ==
    /\ phase[t] \in {"pending", "expired"} /\ Become(t, "connected")
    /\ maker[s] = Null /\ maker' = [maker EXCEPT ![s] = t]

Revoke(t) == phase[t] \in {"pending", "expired"} /\ Become(t, "revoked") /\ UNCHANGED maker

Purge(t) ==
    /\ phase[t] \in {"expired", "connected", "revoked"} /\ Become(t, "purged")
    /\ UNCHANGED maker

Next == \E t \in Tokens : \/ Issue(t) \/ Expire(t) \/ Revoke(t) \/ Purge(t)
                          \/ \E s \in Servers : Connect(t, s)

Spec == Init /\ [][Next]_vars
=============================================================================
