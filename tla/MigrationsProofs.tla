--------------------------- MODULE MigrationsProofs ---------------------------
(***************************************************************************)
(* Theorems about Migrations and their proofs, for any files and any       *)
(* number of processes.                                                    *)
(***************************************************************************)
EXTENDS Migrations, TLAPS

-----------------------------------------------------------------------------
(* The inductive invariant. *)

(* Until an up and a down overlap, none are at work together, and a down   *)
(* takes back what is still the last file.                                 *)
ApartInv ==
    ~mixed => /\ ~(AtWork("up") /\ AtWork("down"))
              /\ \A m \in Migrators : migrator[m].pc = "down" =>
                     \A f \in migrator[m].todo, g \in ledger : g <= f

(* What an up leaves behind it is in the table. *)
Accounted(x, rows) ==
    ~x.overtaken => /\ x.pc = "up" => Files \ x.todo \subseteq rows
                    /\ x.pc = "done" => Files \subseteq rows

AccountInv == \A m \in Migrators : Accounted(migrator[m], ledger)

MigrationsInv == MigrationsTypeOK /\ LedgerMatchesSchema /\ ApartInv /\ AccountInv

-----------------------------------------------------------------------------
LEMMA BecomesIs ==
    ASSUME MigrationsTypeOK, NEW m \in Migrators,
           NEW pc \in {"idle", "up", "down", "done", "failed"}, NEW todo \in SUBSET Files,
           Becomes(m, pc, todo)
    PROVE  /\ migrator' \in [Migrators -> Migrator]
           /\ migrator'[m].pc = pc /\ migrator'[m].todo = todo
           /\ migrator'[m].overtaken = migrator[m].overtaken
           /\ \A n \in Migrators \ {m} : migrator'[n] = migrator[n]
<1> DEFINE x == [migrator[m] EXCEPT !.pc = pc, !.todo = todo]
<1>1. migrator[m] \in Migrator
  BY DEF MigrationsTypeOK
<1>2. migrator' = [migrator EXCEPT ![m] = x]
  BY DEF MigrationsTypeOK, Becomes
<1>3. /\ x \in Migrator
      /\ x.pc = pc /\ x.todo = todo /\ x.overtaken = migrator[m].overtaken
  BY <1>1 DEF Migrator
<1> HIDE DEF x
<1> QED
  BY <1>2, <1>3 DEF MigrationsTypeOK

LEMMA Migrations_Init == MigrationsInit => MigrationsInv
<1> SUFFICES ASSUME MigrationsInit PROVE MigrationsInv
  OBVIOUS
<1>1. MigrationsTypeOK
  BY DEF MigrationsInit, MigrationsTypeOK, Idle, Migrator
<1>2. \A m \in Migrators : migrator[m].pc = "idle"
  BY DEF MigrationsInit, Idle
<1> QED
  BY <1>1, <1>2 DEF MigrationsInit, MigrationsInv, LedgerMatchesSchema, ApartInv, AtWork,
     AccountInv, Accounted

(* A process reads, gives up, ends or returns: the database stays.         *)
LEMMA QuietStep ==
    ASSUME MigrationsInv, NEW m \in Migrators,
           UpReads(m) \/ UpEnds(m) \/ DownReads(m) \/ DownFails(m) \/ Returns(m)
             \/ \E f \in Files : UpFails(m, f)
    PROVE  MigrationsInv'
<1>1. UNCHANGED <<ledger, schema>> /\ mixed' \in BOOLEAN /\ (mixed => mixed')
  BY DEF MigrationsInv, MigrationsTypeOK, UpReads, UpEnds, DownReads, DownFails, Returns, UpFails
<1>2. LedgerMatchesSchema'
  BY <1>1 DEF MigrationsInv, LedgerMatchesSchema
<1>3. MigrationsTypeOK /\ ApartInv /\ AccountInv /\ ledger \subseteq Files
  BY DEF MigrationsInv, MigrationsTypeOK
<1>4. CASE UpReads(m)
  <2>1. /\ migrator' \in [Migrators -> Migrator]
        /\ migrator'[m].pc = "up" /\ migrator'[m].todo = Files \ ledger
        /\ \A n \in Migrators \ {m} : migrator'[n] = migrator[n]
    BY <1>3, <1>4, BecomesIs DEF UpReads
  <2>2. ApartInv'
    BY <1>1, <1>3, <1>4, <2>1 DEF UpReads, ApartInv, AtWork
  <2>3. AccountInv'
    BY <1>1, <1>3, <2>1 DEF AccountInv, Accounted
  <2> QED
    BY <1>1, <1>2, <1>3, <2>1, <2>2, <2>3 DEF MigrationsInv, MigrationsTypeOK
<1>5. CASE DownReads(m)
  <2>1. CASE \E f \in ledger : (\A g \in ledger : g <= f) /\ Becomes(m, "down", {f})
    <3>1. PICK f \in ledger : (\A g \in ledger : g <= f) /\ Becomes(m, "down", {f})
      BY <2>1
    <3>2. {f} \in SUBSET Files
      BY <1>3
    <3>3. /\ migrator' \in [Migrators -> Migrator]
          /\ migrator'[m].pc = "down" /\ migrator'[m].todo = {f}
          /\ \A n \in Migrators \ {m} : migrator'[n] = migrator[n]
      BY <1>3, <3>1, <3>2, BecomesIs
    <3>4. ApartInv'
      BY <1>1, <1>3, <1>5, <3>1, <3>3 DEF DownReads, ApartInv, AtWork
    <3>5. AccountInv'
      BY <1>1, <1>3, <3>3 DEF AccountInv, Accounted
    <3> QED
      BY <1>1, <1>2, <1>3, <3>3, <3>4, <3>5 DEF MigrationsInv, MigrationsTypeOK
  <2>2. CASE Becomes(m, "failed", {})
    <3>1. /\ migrator' \in [Migrators -> Migrator]
          /\ migrator'[m].pc = "failed"
          /\ \A n \in Migrators \ {m} : migrator'[n] = migrator[n]
      BY <1>3, <2>2, BecomesIs
    <3>2. ApartInv'
      BY <1>1, <1>3, <3>1 DEF ApartInv, AtWork
    <3>3. AccountInv'
      BY <1>1, <1>3, <3>1 DEF AccountInv, Accounted
    <3> QED
      BY <1>1, <1>2, <1>3, <3>1, <3>2, <3>3 DEF MigrationsInv, MigrationsTypeOK
  <2> QED
    BY <1>5, <2>1, <2>2 DEF DownReads
<1>6. CASE UpEnds(m)
  <2>1. /\ migrator' \in [Migrators -> Migrator]
        /\ migrator'[m].pc = "done" /\ migrator'[m].overtaken = migrator[m].overtaken
        /\ \A n \in Migrators \ {m} : migrator'[n] = migrator[n]
    BY <1>3, <1>6, BecomesIs DEF UpEnds
  <2>2. ApartInv'
    BY <1>1, <1>3, <2>1 DEF ApartInv, AtWork
  <2>3. AccountInv'
    BY <1>1, <1>3, <1>6, <2>1 DEF UpEnds, AccountInv, Accounted
  <2> QED
    BY <1>1, <1>2, <1>3, <2>1, <2>2, <2>3 DEF MigrationsInv, MigrationsTypeOK
<1>7. CASE DownFails(m) \/ Returns(m) \/ \E f \in Files : UpFails(m, f)
  <2>1. /\ migrator' \in [Migrators -> Migrator]
        /\ migrator'[m].pc \in {"failed", "idle"}
        /\ \A n \in Migrators \ {m} : migrator'[n] = migrator[n]
    <3>1. CASE Returns(m)
      BY <1>3, <3>1 DEF Returns, MigrationsTypeOK, Idle, Migrator
    <3>2. CASE DownFails(m)
      BY <1>3, <3>2, BecomesIs DEF DownFails
    <3>3. CASE \E f \in Files : UpFails(m, f)
      <4>1. migrator[m].todo \in SUBSET Files
        BY <1>3 DEF MigrationsTypeOK, Migrator
      <4> QED
        BY <1>3, <3>3, <4>1, BecomesIs DEF UpFails, AfterFailure
    <3> QED
      BY <1>7, <3>1, <3>2, <3>3
  <2>2. ApartInv'
    BY <1>1, <1>3, <2>1 DEF ApartInv, AtWork
  <2>3. AccountInv'
    BY <1>1, <1>3, <2>1 DEF AccountInv, Accounted
  <2> QED
    BY <1>1, <1>2, <1>3, <2>1, <2>2, <2>3 DEF MigrationsInv, MigrationsTypeOK
<1> QED
  BY <1>4, <1>5, <1>6, <1>7

LEMMA UpApplies_Step ==
    ASSUME MigrationsInv, NEW m \in Migrators, NEW f \in Files, UpApplies(m, f)
    PROVE  MigrationsInv'
<1>1. MigrationsTypeOK /\ LedgerMatchesSchema /\ ApartInv /\ AccountInv
  BY DEF MigrationsInv
<1>2. /\ schema' = schema \cup {f} /\ ledger' = ledger \cup {f} /\ mixed' = mixed
      /\ migrator[m].pc = "up"
  BY DEF UpApplies, Record
<1>3. migrator[m].todo \in SUBSET Files
  BY <1>1 DEF MigrationsTypeOK, Migrator
<1>4. PICK pc \in {"up", "failed"} : Becomes(m, pc, migrator[m].todo \ {f})
  BY DEF UpApplies
<1>5. /\ migrator' \in [Migrators -> Migrator]
      /\ migrator'[m].pc = pc /\ migrator'[m].todo = migrator[m].todo \ {f}
      /\ migrator'[m].overtaken = migrator[m].overtaken
      /\ \A n \in Migrators \ {m} : migrator'[n] = migrator[n]
  BY <1>1, <1>3, <1>4, BecomesIs
<1>6. LedgerMatchesSchema'
  BY <1>1, <1>2 DEF LedgerMatchesSchema
<1>7. ApartInv'
  <2> SUFFICES ASSUME ~mixed PROVE ApartInv'
    BY <1>2 DEF ApartInv
  <2>1. \A n \in Migrators : migrator[n].pc # "down"
    BY <1>1, <1>2 DEF ApartInv, AtWork
  <2>2. \A n \in Migrators : migrator'[n].pc # "down"
    BY <1>4, <1>5, <2>1
  <2> QED
    BY <2>2 DEF ApartInv, AtWork
<1>8. AccountInv'
  <2>1. Accounted(migrator'[m], ledger')
    BY <1>1, <1>2, <1>4, <1>5 DEF AccountInv, Accounted
  <2>2. \A n \in Migrators \ {m} : Accounted(migrator'[n], ledger')
    BY <1>1, <1>2, <1>5 DEF AccountInv, Accounted
  <2> QED
    BY <2>1, <2>2 DEF AccountInv
<1> QED
  BY <1>1, <1>2, <1>5, <1>6, <1>7, <1>8 DEF MigrationsInv, MigrationsTypeOK

LEMMA DownApplies_Step ==
    ASSUME MigrationsInv, NEW m \in Migrators, NEW f \in Files, DownApplies(m, f)
    PROVE  MigrationsInv'
<1>1. MigrationsTypeOK /\ LedgerMatchesSchema /\ ApartInv /\ AccountInv
  BY DEF MigrationsInv
<1>2. /\ schema' = schema \ Removed(f) /\ ledger' = ledger \ {f} /\ mixed' = mixed
      /\ migrator[m].pc = "down" /\ f \in migrator[m].todo
  BY DEF DownApplies
<1>3. /\ migrator' \in [Migrators -> Migrator]
      /\ \A n \in Migrators : migrator'[n].overtaken
      /\ \A n \in Migrators \ {m} : /\ migrator'[n].pc = migrator[n].pc
                                    /\ migrator'[n].todo = migrator[n].todo
      /\ migrator'[m].pc \in {"done", "failed"}
  <2>1. PICK pc \in {"done", "failed"} :
            migrator' = [n \in Migrators |->
               IF n = m THEN [pc |-> pc, todo |-> {}, overtaken |-> TRUE]
               ELSE [migrator[n] EXCEPT !.overtaken = TRUE]]
    BY DEF DownApplies
  <2>2. \A n \in Migrators : LET x == [migrator[n] EXCEPT !.overtaken = TRUE]
                             IN  /\ x \in Migrator /\ x.overtaken
                                 /\ x.pc = migrator[n].pc /\ x.todo = migrator[n].todo
    BY <1>1 DEF MigrationsTypeOK, Migrator
  <2>3. [pc |-> pc, todo |-> {}, overtaken |-> TRUE] \in Migrator
    BY DEF Migrator
  <2> QED
    BY <2>1, <2>2, <2>3
<1>4. LedgerMatchesSchema'
  <2>1. f \in Removed(f)
    BY DEF Removed
  <2>2. ASSUME ~mixed, f = First
        PROVE  ledger \subseteq {First}
    <3>1. \A g \in ledger : g <= f /\ First <= g
      BY <1>1, <1>2, <2>2, MigrationsAssumption DEF ApartInv, MigrationsTypeOK
    <3> QED
      BY <1>1, <2>2, <3>1, MigrationsAssumption DEF MigrationsTypeOK
  <2> QED
    BY <1>1, <1>2, <2>1, <2>2 DEF LedgerMatchesSchema, Removed
<1>5. ApartInv'
  BY <1>1, <1>2, <1>3 DEF ApartInv, AtWork
<1>6. AccountInv'
  BY <1>3 DEF AccountInv, Accounted
<1> QED
  BY <1>1, <1>2, <1>3, <1>4, <1>5, <1>6 DEF MigrationsInv, MigrationsTypeOK

LEMMA Migrations_Next == MigrationsInv /\ [MigrationsNext]_migrationVars => MigrationsInv'
<1> SUFFICES ASSUME MigrationsInv, [MigrationsNext]_migrationVars
             PROVE  MigrationsInv'
  OBVIOUS
<1>1. CASE UNCHANGED migrationVars
  BY <1>1 DEF migrationVars, MigrationsInv, MigrationsTypeOK, LedgerMatchesSchema, ApartInv,
     AtWork, AccountInv
<1>2. CASE MigrationsNext
  BY <1>2, QuietStep, UpApplies_Step, DownApplies_Step DEF MigrationsNext
<1> QED
  BY <1>1, <1>2

LEMMA MigrationsInvariant == MigrationsSpec => []MigrationsInv
BY Migrations_Init, Migrations_Next, PTL DEF MigrationsSpec

-----------------------------------------------------------------------------
(* The types of the table, the schema and the processes.                   *)
THEOREM MigrationTypes == MigrationsSpec => []MigrationsTypeOK
<1>1. MigrationsInv => MigrationsTypeOK
  BY DEF MigrationsInv
<1> QED
  BY <1>1, MigrationsInvariant, PTL

(* Whatever processes migrate at one time and wherever they fail: what     *)
(* exists has a row, and what has a row exists, as long as no down worked  *)
(* beside an up (migrate.go:57-76, 93-101).                                *)
THEOREM LedgerIsTruthful == MigrationsSpec => []LedgerMatchesSchema
<1>1. MigrationsInv => LedgerMatchesSchema
  BY DEF MigrationsInv
<1> QED
  BY <1>1, MigrationsInvariant, PTL

(* An up that reports success has every file in the table, or a down has   *)
(* taken effect since it read the table (migrate.go:65-77).                *)
THEOREM SuccessIsComplete == MigrationsSpec => []SuccessMeansApplied
<1>1. MigrationsInv => SuccessMeansApplied
  BY DEF MigrationsInv, AccountInv, Accounted, SuccessMeansApplied
<1> QED
  BY <1>1, MigrationsInvariant, PTL
=============================================================================
