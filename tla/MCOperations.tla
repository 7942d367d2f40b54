---------------------------- MODULE MCOperations ----------------------------
(***************************************************************************)
(* The collector, migrations, rate limiters and server status for TLC.     *)
(* They share no state: each behaviour is one of one of them, chosen at    *)
(* the start.                                                              *)
(***************************************************************************)
EXTENDS Collection, Migrations, RateWindows, ServerStatus

CONSTANTS i1, m1, m2, s1, q1, q2

VARIABLE part

allVars == <<part, collectionVars, migrationVars, rateVars, statusVars>>

Init ==
    /\ part \in {"collection", "migrations", "rates", "status"}
    /\ CollectionInit /\ MigrationsInit /\ RateInit /\ StatusInit
    /\ part # "rates" => limiter = "attempts"

Next ==
    /\ UNCHANGED part
    /\ \/ /\ part = "collection" /\ CollectionNext
          /\ UNCHANGED <<migrationVars, rateVars, statusVars>>
       \/ /\ part = "migrations" /\ MigrationsNext
          /\ UNCHANGED <<collectionVars, rateVars, statusVars>>
       \/ /\ part = "rates" /\ RateNext
          /\ UNCHANGED <<collectionVars, migrationVars, statusVars>>
       \/ /\ part = "status" /\ StatusNext
          /\ UNCHANGED <<collectionVars, migrationVars, rateVars>>

Spec == Init /\ [][Next]_allVars /\ StatusFairness

(* The values that the four components can hold, each under the bounds of  *)
(* its own module (collector.go:17-26, migrate.go:14-18,                   *)
(* auth/handler.go:195-206, servers/service.go:22-26).                     *)
TypesOK ==
    /\ CollectionTypeOK /\ MigrationsTypeOK
    /\ RateTypeOK /\ StatusTypeOK
=============================================================================
