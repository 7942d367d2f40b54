----------------------------- MODULE Migrations -----------------------------
(***************************************************************************)
(* Schema migrations: any number of processes run `api -migrate up` or     *)
(* `api -migrate down` on one database.                                    *)
(*                                                                         *)
(* A process reads the table schema_migrations once and acts on what it    *)
(* read then.  Each file is applied in one transaction with its row of the *)
(* table.  The statements of two transactions about the same objects wait  *)
(* for each other, so a transaction is one step here: it finds what is     *)
(* committed, and then takes effect or is rolled back.                     *)
(*                                                                         *)
(* The first file makes the tables.  The others rest on it in one of two   *)
(* ways: files 2 to 4 add columns, indexes and constraints to its tables   *)
(* and go with them; the table of file 5 refers to one of its tables,      *)
(* which then cannot be dropped.                                           *)
(***************************************************************************)
EXTENDS Integers

CONSTANTS
    Files,      \* the numbers of the migration files, the order of their names
    First,      \* the file that makes the tables
    Inside,     \* the files that only change tables of the first
    Migrators   \* processes that migrate at one time

ASSUME MigrationsAssumption ==
    /\ Files \subseteq Nat
    /\ First \in Files /\ \A f \in Files : First <= f
    /\ Inside \subseteq Files \ {First}

VARIABLES
    ledger,     \* the rows of schema_migrations
    schema,     \* the files whose objects exist
    migrator,   \* what each process has read and has left to do
    mixed       \* history: an up and a down were at work at one time

migrationVars == <<ledger, schema, migrator, mixed>>

-----------------------------------------------------------------------------
(* overtaken: history, a down took effect since the process read the table. *)
Migrator == [pc: {"idle", "up", "down", "done", "failed"}, todo: SUBSET Files,
             overtaken: BOOLEAN]

MigrationsTypeOK ==
    /\ ledger \subseteq Files /\ schema \subseteq Files
    /\ migrator \in [Migrators -> Migrator]
    /\ mixed \in BOOLEAN

Idle == [pc |-> "idle", todo |-> {}, overtaken |-> FALSE]

MigrationsInit ==
    /\ ledger = {} /\ schema = {}
    /\ migrator = [m \in Migrators |-> Idle]
    /\ mixed = FALSE

Becomes(m, pc, todo) == migrator' = [migrator EXCEPT ![m].pc = pc, ![m].todo = todo]

AtWork(pc) == \E m \in Migrators : migrator[m].pc = pc

-----------------------------------------------------------------------------
(* -migrate up.                                                            *)

UpReads(m) ==
    /\ migrator[m].pc = "idle"
    /\ Becomes(m, "up", Files \ ledger)
    /\ mixed' = (mixed \/ AtWork("down"))
    /\ UNCHANGED <<ledger, schema>>

Next1(m, f) == f \in migrator[m].todo /\ \A g \in migrator[m].todo : f <= g

(* CREATE and ADD fail on what exists, ALTER and REFERENCES on what does   *)
(* not, and INSERT on a row that is there.                                 *)
Applicable(f) ==
    /\ f \notin schema /\ f \notin ledger
    /\ f # First => First \in schema

Record_Outside(f) ==
    /\ schema' = schema \cup {f}
    /\ ledger' \in {ledger, ledger \cup {f}}
Record(f) ==
    /\ schema' = schema \cup {f}
    /\ ledger' = ledger \cup {f}

(* The commit may take effect and its answer be lost. *)
UpApplies(m, f) ==
    /\ migrator[m].pc = "up" /\ Next1(m, f) /\ Applicable(f)
    /\ Record(f)
    /\ \E pc \in {"up", "failed"} : Becomes(m, pc, migrator[m].todo \ {f})
    /\ UNCHANGED mixed

(* The first file that fails ends the run; so does a lost connection. *)
AfterFailure_GoesOn(m, f) == Becomes(m, "up", migrator[m].todo \ {f})
AfterFailure(m, f) == Becomes(m, "failed", migrator[m].todo)

UpFails(m, f) ==
    /\ migrator[m].pc = "up" /\ Next1(m, f)
    /\ AfterFailure(m, f)
    /\ UNCHANGED <<ledger, schema, mixed>>

UpEnds(m) ==
    /\ migrator[m].pc = "up" /\ migrator[m].todo = {}
    /\ Becomes(m, "done", {})
    /\ UNCHANGED <<ledger, schema, mixed>>

-----------------------------------------------------------------------------
(* -migrate down takes back the last file of the table.                    *)

DownReads(m) ==
    /\ migrator[m].pc = "idle"
    /\ \/ \E f \in ledger : /\ \A g \in ledger : g <= f
                            /\ Becomes(m, "down", {f})
       \/ ledger = {} /\ Becomes(m, "failed", {})
    /\ mixed' = (mixed \/ AtWork("up"))
    /\ UNCHANGED <<ledger, schema>>

(* DROP TABLE has no CASCADE, and ALTER TABLE no IF EXISTS. *)
Removable(f) ==
    /\ f = First => schema \subseteq {First} \cup Inside
    /\ f \in Inside => First \in schema

Removed(f) == IF f = First THEN {First} \cup Inside ELSE {f}

DownApplies(m, f) ==
    /\ migrator[m].pc = "down" /\ f \in migrator[m].todo /\ Removable(f)
    /\ schema' = schema \ Removed(f)
    /\ ledger' = ledger \ {f}
    /\ \E pc \in {"done", "failed"} :
           migrator' = [n \in Migrators |->
               IF n = m THEN [pc |-> pc, todo |-> {}, overtaken |-> TRUE]
               ELSE [migrator[n] EXCEPT !.overtaken = TRUE]]
    /\ UNCHANGED mixed

DownFails(m) ==
    /\ migrator[m].pc = "down"
    /\ Becomes(m, "failed", {})
    /\ UNCHANGED <<ledger, schema, mixed>>

-----------------------------------------------------------------------------
(* The process ends; the operator may run it again. *)
Returns(m) ==
    /\ migrator[m].pc \in {"done", "failed"}
    /\ migrator' = [migrator EXCEPT ![m] = Idle]
    /\ UNCHANGED <<ledger, schema, mixed>>

MigrationsNext ==
    \E m \in Migrators :
        \/ UpReads(m) \/ UpEnds(m) \/ DownReads(m) \/ DownFails(m) \/ Returns(m)
        \/ \E f \in Files : UpApplies(m, f) \/ UpFails(m, f) \/ DownApplies(m, f)

MigrationsSpec == MigrationsInit /\ [][MigrationsNext]_migrationVars

-----------------------------------------------------------------------------
(* However many processes migrate, and wherever they stop: objects without *)
(* a row, which a later up would fail on, do not exist; and as long as no  *)
(* down has worked beside an up, neither do rows without objects, which a  *)
(* later up would skip (migrate.go:57-76, 93-101).                         *)
LedgerMatchesSchema ==
    /\ schema \subseteq ledger
    /\ ~mixed => ledger \subseteq schema

(* An up that reports success leaves every file applied, also what others  *)
(* applied while it ran, unless a down took effect since it read the table *)
(* (migrate.go:65-77).                                                     *)
SuccessMeansApplied ==
    \A m \in Migrators :
        migrator[m].pc = "done" /\ ~migrator[m].overtaken => Files \subseteq ledger
=============================================================================
