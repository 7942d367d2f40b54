-------------------------- MODULE LocalHelperProofs --------------------------
(***************************************************************************)
(* Theorems about LocalHelper and their proofs, for any number of servers, *)
(* enrollments, places and terminals.                                      *)
(***************************************************************************)
EXTENDS LocalHelper, TLAPS

-----------------------------------------------------------------------------
(* The inductive invariant. *)

Listed == IdsOf(file)

(* What the running helper knows includes what the file holds. *)
KeptInv == up => Listed \subseteq IdsOf(memory)

(* Every tunnel, and every profile that a terminal works on, is in the     *)
(* file.  A file never loses an id, so neither forgets it.                 *)
MasterInv == \A q \in Places : master[q] # Nothing => master[q].path \in Listed

TerminalShape(x) ==
    /\ x \in TerminalState
    /\ x.todo = <<>> <=> x.pc \in {"closed", "load"}

TerminalJob(x, ids) ==
    /\ \A k \in DOMAIN x.todo : x.todo[k].id \in ids
    /\ x.pc = "load" /\ x.known => x.ids \subseteq ids

TerminalInv ==
    /\ terminal \in [Terminals -> TerminalState]
    /\ \A t \in Terminals : TerminalShape(terminal[t]) /\ TerminalJob(terminal[t], Listed)

StoreInv ==
    /\ up \in BOOLEAN
    /\ memory \in Seq(Profiles) /\ file \in Seq(Profiles)
    /\ IdsUnique
    /\ KeptInv

StopperInv == stopper \in StopperState /\ (stopper.pc = "idle" <=> stopper.todo = <<>>)

SocketInv ==
    /\ master \in [Places -> Masters \cup {Nothing}]
    /\ stale \in SUBSET Ids
    /\ MasterInv

HelperInv == StoreInv /\ TerminalInv /\ StopperInv /\ SocketInv

-----------------------------------------------------------------------------
(* The store. *)

USE HelperAssumption

LEMMA IdsOfMember ==
    ASSUME NEW a, NEW x
    PROVE  x \in IdsOf(a) <=> \E k \in DOMAIN a : x = a[k].id
BY DEF IdsOf

(* What a save does to the list in memory.                                 *)
LEMMA PutKeeps ==
    ASSUME StoreInv, NEW p \in Profiles, Put(p)
    PROVE  /\ memory' \in Seq(Profiles)
           /\ IdsOf(memory) \subseteq IdsOf(memory')
           /\ \A i, j \in DOMAIN memory' : memory'[i].id = memory'[j].id => i = j
           /\ p.server = Nothing => p.id \in IdsOf(memory')
<1> USE DEF StoreInv, IdsUnique
<1>u. \A i, j \in DOMAIN memory : memory[i].id = memory[j].id => i = j
  OBVIOUS
<1>1. CASE \E i \in DOMAIN memory :
               Same(memory[i], p) /\ memory' = [memory EXCEPT ![i] = Renewed(@, p)]
  <2>1. PICK i \in DOMAIN memory :
               Same(memory[i], p) /\ memory' = [memory EXCEPT ![i] = Renewed(@, p)]
    BY <1>1
  <2> DEFINE r == Renewed(memory[i], p)
  <2>a. memory[i] \in Profiles
    BY <2>1
  <2>2. r \in Profiles /\ r.id = memory[i].id
    BY <2>a DEF Renewed, Profiles
  <2>3. memory' = [memory EXCEPT ![i] = r]
    BY <2>1
  <2> HIDE DEF r
  <2>4. memory' \in Seq(Profiles) /\ DOMAIN memory' = DOMAIN memory
    BY <2>2, <2>3
  <2>5. \A k \in DOMAIN memory : memory'[k].id = memory[k].id
    BY <2>2, <2>3
  <2>6. IdsOf(memory') = IdsOf(memory)
    <3>1. ASSUME NEW k \in DOMAIN memory
          PROVE  memory[k].id \in IdsOf(memory') /\ memory'[k].id \in IdsOf(memory)
      BY <2>4, <2>5 DEF IdsOf
    <3>2. ASSUME NEW x \in IdsOf(memory)
          PROVE  x \in IdsOf(memory')
      <4>1. PICK k \in DOMAIN memory : x = memory[k].id
        BY IdsOfMember
      <4> QED
        BY <3>1, <4>1
    <3>3. ASSUME NEW x \in IdsOf(memory')
          PROVE  x \in IdsOf(memory)
      <4>1. PICK k \in DOMAIN memory' : x = memory'[k].id
        BY IdsOfMember
      <4> QED
        BY <2>4, <3>1, <4>1
    <3> QED
      BY <3>2, <3>3
  <2>7. p.server = Nothing => p.id = memory[i].id
    BY <2>1 DEF Same
  <2>8. memory[i].id \in IdsOf(memory)
    BY DEF IdsOf
  <2> QED
    BY <1>u, <2>4, <2>5, <2>6, <2>7, <2>8
<1>2. CASE /\ \A i \in DOMAIN memory : ~Same(memory[i], p)
           /\ memory' = Append(memory, p)
  <2>1. memory' \in Seq(Profiles) /\ DOMAIN memory' = DOMAIN memory \cup {Len(memory) + 1}
    BY <1>2
  <2>2. \A k \in DOMAIN memory : memory'[k] = memory[k]
    BY <1>2
  <2>3. memory'[Len(memory) + 1] = p /\ Len(memory) + 1 \notin DOMAIN memory
    BY <1>2
  <2>4. \A k \in DOMAIN memory : memory[k].id # p.id
    BY <1>2 DEF Same
  <2>5. IdsOf(memory) \subseteq IdsOf(memory') /\ p.id \in IdsOf(memory')
    BY <2>1, <2>2, <2>3 DEF IdsOf
  <2> QED
    BY <1>u, <2>1, <2>2, <2>3, <2>4, <2>5
<1> QED
  BY <1>1, <1>2 DEF Put

(* The file gains ids and loses none, whether the write succeeds or fails. *)
LEMMA SaveKeeps ==
    ASSUME StoreInv, NEW p \in Profiles, up, up' = up, Put(p), Write \/ WriteFails
    PROVE  StoreInv' /\ Listed \subseteq Listed'
<1>1. /\ memory' \in Seq(Profiles)
      /\ IdsOf(memory) \subseteq IdsOf(memory')
      /\ \A i, j \in DOMAIN memory' : memory'[i].id = memory'[j].id => i = j
  BY PutKeeps
<1>2. file' = memory' \/ file' = file
  BY DEF Write, WriteFails
<1>3. Listed \subseteq IdsOf(memory)
  BY DEF StoreInv, KeptInv
<1>4. Listed' = IdsOf(memory') \/ Listed' = Listed
  BY <1>2 DEF Listed
<1>5. IdsUnique'
  BY <1>1, <1>2 DEF StoreInv, IdsUnique
<1> QED
  BY <1>1, <1>2, <1>3, <1>4, <1>5 DEF StoreInv, KeptInv, Write, WriteFails

LEMMA StoreUnchanged ==
    ASSUME StoreInv, UNCHANGED <<up, memory, file>>
    PROVE  StoreInv' /\ Listed' = Listed
<1>1. Listed' = Listed
  BY DEF Listed
<1>2. KeptInv' = KeptInv
  BY <1>1 DEF KeptInv
<1>3. IdsUnique' = IdsUnique
  BY DEF IdsUnique
<1> QED
  BY <1>1, <1>2, <1>3 DEF StoreInv

-----------------------------------------------------------------------------
(* Terminals. *)

LEMMA JobKept ==
    ASSUME NEW x, NEW S, NEW T, S \subseteq T, TerminalJob(x, S)
    PROVE  TerminalJob(x, T)
BY DEF TerminalJob

LEMMA TerminalsUnchanged ==
    ASSUME TerminalInv, Listed \subseteq Listed', UNCHANGED terminal
    PROVE  TerminalInv'
<1>1. \A t \in Terminals : TerminalShape(terminal[t]) /\ TerminalJob(terminal[t], Listed')
  BY JobKept DEF TerminalInv
<1> QED
  BY <1>1 DEF TerminalInv

(* A step of one terminal. *)
LEMMA TerminalStep ==
    ASSUME TerminalInv, Listed \subseteq Listed', NEW t \in Terminals, NEW x,
           TerminalShape(x), TerminalJob(x, Listed'),
           terminal' = [terminal EXCEPT ![t] = x]
    PROVE  TerminalInv'
<1>1. terminal' \in [Terminals -> TerminalState]
  BY DEF TerminalInv, TerminalShape
<1>2. ASSUME NEW u \in Terminals
      PROVE  TerminalShape(terminal'[u]) /\ TerminalJob(terminal'[u], Listed')
  <2>1. CASE u = t
    BY <2>1 DEF TerminalInv
  <2>2. CASE u # t
    <3>1. terminal'[u] = terminal[u]
      BY <2>2 DEF TerminalInv
    <3> QED
      BY <3>1, JobKept DEF TerminalInv
  <2> QED
    BY <2>1, <2>2
<1> QED
  BY <1>1, <1>2 DEF TerminalInv

LEMMA ClosedFits ==
    ASSUME NEW S
    PROVE  TerminalShape(Closed) /\ TerminalJob(Closed, S)
BY DEF Closed, TerminalShape, TerminalJob, TerminalState

LEMMA TailNotEmpty ==
    ASSUME NEW S, NEW q \in Seq(S), q # <<>>, Len(q) # 1
    PROVE  Tail(q) # <<>>
<1>1. Len(q) # 0 /\ Len(q) \in Nat /\ Len(Tail(q)) = Len(q) - 1
  OBVIOUS
<1>2. Len(<<>>) = 0
  OBVIOUS
<1> QED
  BY <1>1, <1>2

(* The first profile of a list of work, and the rest of the list.          *)
LEMMA WorkSplits ==
    ASSUME NEW q \in Seq(Profiles), q # <<>>, NEW S, \A k \in DOMAIN q : q[k].id \in S
    PROVE  /\ Head(q) \in Profiles /\ Head(q).id \in S
           /\ Tail(q) \in Seq(Profiles)
           /\ \A k \in DOMAIN Tail(q) : Tail(q)[k].id \in S
           /\ Len(q) # 1 => Tail(q) # <<>>
<1>1. Head(q) = q[1] /\ 1 \in DOMAIN q
  OBVIOUS
<1>2. \A k \in DOMAIN Tail(q) : Tail(q)[k] = q[k + 1] /\ k + 1 \in DOMAIN q
  OBVIOUS
<1>3. Tail(q) \in Seq(Profiles)
  OBVIOUS
<1>4. Len(q) # 1 => Tail(q) # <<>>
  BY TailNotEmpty
<1>5. \A k \in DOMAIN Tail(q) : Tail(q)[k].id \in S
  BY <1>2
<1>6. Head(q) \in Profiles /\ Head(q).id \in S
  BY <1>1
<1> QED
  BY <1>3, <1>4, <1>5, <1>6

LEMMA DoneStep ==
    ASSUME TerminalInv, Listed \subseteq Listed', NEW t \in Terminals,
           terminal[t].pc \notin {"closed", "load"}, Done(t)
    PROVE  TerminalInv'
<1> DEFINE x == terminal[t]
           y == [x EXCEPT !.pc = "examine", !.todo = Tail(x.todo)]
<1>1. TerminalShape(x) /\ TerminalJob(x, Listed) /\ x.todo # <<>>
  BY DEF TerminalInv, TerminalShape
<1>2. CASE Len(x.todo) = 1
  <2>1. terminal' = [terminal EXCEPT ![t] = Closed]
    BY <1>2 DEF Done, Rest, TerminalInv
  <2> QED
    BY <2>1, ClosedFits, TerminalStep
<1>3. CASE Len(x.todo) # 1
  <2>1. terminal' = [terminal EXCEPT ![t] = y]
    BY <1>3 DEF Done, Rest, TerminalInv
  <2>2. /\ Tail(x.todo) \in Seq(Profiles) /\ Tail(x.todo) # <<>>
        /\ \A k \in DOMAIN Tail(x.todo) : Tail(x.todo)[k].id \in Listed
    BY <1>1, <1>3, WorkSplits DEF TerminalShape, TerminalJob, TerminalState
  <2>3. /\ y \in TerminalState
        /\ y.pc = "examine" /\ y.todo = Tail(x.todo)
    BY <1>1, <2>2 DEF TerminalShape, TerminalState
  <2> HIDE DEF y
  <2>4. TerminalShape(y) /\ TerminalJob(y, Listed)
    BY <2>2, <2>3 DEF TerminalShape, TerminalJob
  <2> QED
    BY <2>1, <2>4, JobKept, TerminalStep
<1> QED
  BY <1>2, <1>3

LEMMA GoStep ==
    ASSUME TerminalInv, Listed \subseteq Listed', NEW t \in Terminals,
           terminal[t].pc \notin {"closed", "load"},
           NEW pc \in {"check", "clear", "connect", "install"}, NEW made \in BOOLEAN,
           terminal' = [terminal EXCEPT ![t] = [@ EXCEPT !.pc = pc, !.created = made]]
    PROVE  TerminalInv'
<1> DEFINE x == terminal[t]
           y == [x EXCEPT !.pc = pc, !.created = made]
<1>1. TerminalShape(x) /\ TerminalJob(x, Listed) /\ x.todo # <<>>
  BY DEF TerminalInv, TerminalShape
<1>2. terminal' = [terminal EXCEPT ![t] = y]
  BY DEF TerminalInv
<1>3. y \in TerminalState /\ y.pc = pc /\ y.todo = x.todo
  BY <1>1 DEF TerminalShape, TerminalState
<1> HIDE DEF y
<1>4. TerminalShape(y) /\ TerminalJob(y, Listed)
  BY <1>1, <1>3 DEF TerminalShape, TerminalJob
<1> QED
  BY <1>2, <1>4, JobKept, TerminalStep

(* A step that only moves the control of a terminal. *)
LEMMA GoOnStep ==
    ASSUME TerminalInv, Listed \subseteq Listed', NEW t \in Terminals,
           terminal[t].pc \notin {"closed", "load"},
           NEW pc \in {"check", "clear", "connect", "install"}, Go(t, pc)
    PROVE  TerminalInv'
<1>1. terminal[t] \in TerminalState
  BY DEF TerminalInv
<1>2. terminal' = [terminal EXCEPT ![t] = [@ EXCEPT !.pc = pc, !.created = terminal[t].created]]
  BY <1>1 DEF Go, TerminalInv, TerminalState
<1>3. terminal[t].created \in BOOLEAN
  BY <1>1 DEF TerminalState
<1> QED
  BY <1>2, <1>3, GoStep

-----------------------------------------------------------------------------
(* Sockets and stopping requests. *)

(* Every place loses its master, keeps it, perhaps without its file, or    *)
(* gets one whose profile is in the file.                                  *)
LEMMA SocketStep ==
    ASSUME SocketInv, Listed \subseteq Listed', stale' \in SUBSET Ids,
           master' \in [Places -> Masters \cup {Nothing}],
           \A q \in Places :
               \/ master'[q] = Nothing
               \/ master'[q].path \in Listed
               \/ master[q] # Nothing /\ master'[q].path = master[q].path
    PROVE  SocketInv'
BY DEF SocketInv, MasterInv

LEMMA SocketsUnchanged ==
    ASSUME SocketInv, Listed \subseteq Listed', UNCHANGED <<master, stale>>
    PROVE  SocketInv'
BY DEF SocketInv, MasterInv

LEMMA RemoveStep ==
    ASSUME SocketInv, Listed \subseteq Listed', NEW id, RemoveFile(id)
    PROVE  SocketInv'
<1>1. \A q \in Places : Holds(q, id) =>
          /\ master[q] \in Masters /\ master[q] # Nothing
          /\ [master[q] EXCEPT !.linked = FALSE] \in Masters
          /\ [master[q] EXCEPT !.linked = FALSE].path = master[q].path
  BY DEF SocketInv, Holds, Masters
<1>2. \A q \in Places : master'[q] = IF Holds(q, id) THEN [master[q] EXCEPT !.linked = FALSE]
                                   ELSE master[q]
  BY DEF RemoveFile
<1>3. master' \in [Places -> Masters \cup {Nothing}]
  BY <1>1 DEF RemoveFile, SocketInv
<1>4. \A q \in Places : \/ master'[q] = Nothing
                        \/ master[q] # Nothing /\ master'[q].path = master[q].path
  BY <1>1, <1>2
<1>5. stale' \in SUBSET Ids
  BY DEF RemoveFile, SocketInv
<1> QED
  BY <1>3, <1>4, <1>5, SocketStep

LEMMA ExitStep ==
    ASSUME SocketInv, Listed \subseteq Listed', NEW id, ExitMaster(id)
    PROVE  SocketInv'
<1>1. master' \in [Places -> Masters \cup {Nothing}]
  BY DEF ExitMaster, SocketInv
<1>2. \A q \in Places : master'[q] = Nothing \/ master'[q] = master[q]
  BY DEF ExitMaster
<1>3. \A q \in Places : \/ master'[q] = Nothing
                        \/ master[q] # Nothing /\ master'[q].path = master[q].path
  <2> SUFFICES ASSUME NEW q \in Places, master'[q] # Nothing
               PROVE  master[q] # Nothing /\ master'[q].path = master[q].path
    OBVIOUS
  <2> QED
    BY <1>2
<1>4. stale' \in SUBSET Ids
  BY DEF ExitMaster, SocketInv
<1> QED
  BY <1>1, <1>3, <1>4, SocketStep

LEMMA StopNextFits ==
    ASSUME StopperInv, stopper.pc # "idle", stopper' = StopNext
    PROVE  StopperInv'
<1> DEFINE q == stopper.todo
<1>1. q \in Seq(Ids) /\ q # <<>>
  BY DEF StopperInv, StopperState
<1>2. Len(q) # 1 => Tail(q) # <<>>
  BY <1>1, TailNotEmpty
<1>3. Tail(q) \in Seq(Ids)
  BY <1>1
<1>4. stopper' = IF Len(q) = 1 THEN NoStop ELSE [pc |-> "check", todo |-> Tail(q)]
  BY DEF StopNext
<1>5. CASE Len(q) = 1
  BY <1>4, <1>5 DEF StopperInv, StopperState, NoStop
<1>6. CASE Len(q) # 1
  BY <1>2, <1>3, <1>4, <1>6 DEF StopperInv, StopperState
<1> QED
  BY <1>5, <1>6

-----------------------------------------------------------------------------
(* Every action preserves the invariant. *)

LEMMA HelperInit_Inv == HelperInit => HelperInv
<1> SUFFICES ASSUME HelperInit PROVE HelperInv
  OBVIOUS
<1>1. StoreInv
  <2>1. memory \in Seq(Profiles) /\ file \in Seq(Profiles)
    BY DEF HelperInit
  <2>2. IdsUnique
    BY DEF HelperInit, IdsUnique
  <2> QED
    BY <2>1, <2>2 DEF HelperInit, StoreInv, KeptInv
<1>2. TerminalInv
  <2>1. Closed \in TerminalState
    BY ClosedFits DEF TerminalShape
  <2> QED
    BY <2>1, ClosedFits DEF HelperInit, TerminalInv
<1>3. StopperInv
  BY DEF HelperInit, StopperInv, StopperState, NoStop
<1>4. SocketInv
  BY DEF HelperInit, SocketInv, MasterInv
<1> QED
  BY <1>1, <1>2, <1>3, <1>4 DEF HelperInv

LEMMA Register_Inv ==
    ASSUME HelperInv, NEW id \in Ids, NEW s \in ServerIds, NEW q \in Places, Register(id, s, q)
    PROVE  HelperInv'
<1> DEFINE p == [id |-> id, server |-> s, place |-> q]
<1>1. p \in Profiles
  BY DEF Profiles
<1> HIDE DEF p
<1>2. Put(p) /\ (Write \/ WriteFails) /\ up /\ up' = up
  BY DEF Register, p
<1>3. StoreInv' /\ Listed \subseteq Listed'
  BY <1>1, <1>2, SaveKeeps DEF HelperInv
<1>4. TerminalInv'
  BY <1>3, TerminalsUnchanged DEF HelperInv, Register
<1>5. SocketInv'
  BY <1>3, SocketsUnchanged DEF HelperInv, Register
<1>6. StopperInv'
  BY DEF HelperInv, Register, StopperInv
<1> QED
  BY <1>3, <1>4, <1>5, <1>6 DEF HelperInv

LEMMA Launch_Inv ==
    ASSUME HelperInv, NEW t \in Terminals, NEW ids \in SUBSET Ids,
           ids \subseteq IdsOf(memory), Launch(t, ids)
    PROVE  HelperInv'
<1>1. StoreInv' /\ Listed' = Listed
  BY StoreUnchanged DEF HelperInv, Launch
<1>2. PICK k \in BOOLEAN : k = (memory = file)
  OBVIOUS
<1> DEFINE x == [Closed EXCEPT !.pc = "load", !.ids = ids, !.known = k]
<1>3. terminal' = [terminal EXCEPT ![t] = x]
  BY <1>2 DEF Launch
<1>4. k => ids \subseteq Listed
  BY <1>2 DEF Listed
<1>5. TerminalShape(x) /\ TerminalJob(x, Listed')
  <2>1. Closed \in TerminalState /\ Closed.todo = <<>>
    BY ClosedFits DEF TerminalShape, Closed
  <2>2. /\ x \in TerminalState
        /\ x.pc = "load" /\ x.todo = <<>> /\ x.ids = ids /\ x.known = k
    BY <2>1 DEF TerminalState
  <2> HIDE DEF x
  <2> QED
    BY <1>1, <1>4, <2>2 DEF TerminalShape, TerminalJob
<1> HIDE DEF x
<1>6. TerminalInv'
  BY <1>1, <1>3, <1>5, TerminalStep DEF HelperInv
<1>7. SocketInv'
  BY <1>1, SocketsUnchanged DEF HelperInv, Launch
<1>8. StopperInv'
  BY DEF HelperInv, Launch, StopperInv
<1> QED
  BY <1>1, <1>6, <1>7, <1>8 DEF HelperInv

(* What a request selects is in memory. *)
LEMMA SelectedIds ==
    ASSUME StoreInv, NEW ids
    PROVE  /\ {p.id : p \in Selected(ids)} \in SUBSET Ids
           /\ {p.id : p \in Selected(ids)} \subseteq IdsOf(memory)
<1> SUFFICES ASSUME NEW p \in Selected(ids)
             PROVE  p.id \in Ids /\ p.id \in IdsOf(memory)
  OBVIOUS
<1>1. PICK k \in DOMAIN memory : p = memory[k]
  BY DEF Selected, Found
<1>2. memory[k] \in Profiles
  BY DEF StoreInv
<1> QED
  BY <1>1, <1>2, IdsOfMember DEF Profiles

LEMMA Bootstrap_Inv ==
    ASSUME HelperInv, NEW t \in Terminals, NEW e \in Enrollments, NEW q \in Places,
           Bootstrap(t, e, q)
    PROVE  HelperInv'
<1> DEFINE p == [id |-> e, server |-> Nothing, place |-> q]
           x == [Closed EXCEPT !.pc = "check", !.boot = TRUE, !.todo = <<p>>]
<1>1. p \in Profiles /\ p.id = e /\ p.server = Nothing
  BY DEF Profiles, Ids
<1>2. /\ Put(p) /\ (Write \/ WriteFails) /\ up /\ up' = up
      /\ \/ Write /\ terminal' = [terminal EXCEPT ![t] = x]
         \/ UNCHANGED terminal
      /\ UNCHANGED <<stopper, master, stale>>
  BY DEF Bootstrap
<1> HIDE DEF p
<1>3. StoreInv' /\ Listed \subseteq Listed'
  BY <1>1, <1>2, SaveKeeps DEF HelperInv
<1>6. TerminalInv'
  <2>1. CASE UNCHANGED terminal
    BY <1>3, <2>1, TerminalsUnchanged DEF HelperInv
  <2>2. CASE Write /\ terminal' = [terminal EXCEPT ![t] = x]
    <3>1. p.id \in Listed'
      <4>1. p.id \in IdsOf(memory')
        BY <1>1, <1>2, PutKeeps DEF HelperInv
      <4>2. IdsOf(memory') = Listed'
        BY <2>2 DEF Write, Listed
      <4> QED
        BY <4>1, <4>2
    <3>2. <<p>> \in Seq(Profiles) /\ <<p>> # <<>>
      BY <1>1
    <3>3. Closed \in TerminalState /\ Closed.known = FALSE
      BY ClosedFits DEF TerminalShape, Closed
    <3>4. x \in TerminalState /\ x.pc = "check" /\ x.todo = <<p>> /\ ~x.known
      BY <3>2, <3>3 DEF TerminalState
    <3> HIDE DEF x
    <3>5. TerminalShape(x) /\ TerminalJob(x, Listed')
      BY <3>1, <3>2, <3>4 DEF TerminalShape, TerminalJob
    <3> QED
      BY <1>3, <2>2, <3>5, TerminalStep DEF HelperInv
  <2> QED
    BY <1>2, <2>1, <2>2
<1>7. SocketInv'
  BY <1>2, <1>3, SocketsUnchanged DEF HelperInv
<1>8. StopperInv'
  BY <1>2 DEF HelperInv, StopperInv
<1> QED
  BY <1>3, <1>6, <1>7, <1>8 DEF HelperInv

LEMMA StopThese_Inv ==
    ASSUME HelperInv, NEW todo \in Seq(Ids), StopThese(todo)
    PROVE  HelperInv'
<1>1. StoreInv' /\ Listed' = Listed
  BY StoreUnchanged DEF HelperInv, StopThese
<1>2. TerminalInv'
  BY <1>1, TerminalsUnchanged DEF HelperInv, StopThese
<1>3. SocketInv'
  BY <1>1, SocketsUnchanged DEF HelperInv, StopThese
<1>4. StopperInv'
  BY DEF StopThese, StopperInv, StopperState
<1> QED
  BY <1>1, <1>2, <1>3, <1>4 DEF HelperInv

(* The lists of a request that stops profiles hold ids. *)
LEMMA ListingIds ==
    ASSUME NEW ids \in SUBSET Ids, NEW q \in Listings(ids)
    PROVE  q \in Seq(Ids)
<1>1. PICK n \in 1..Len(memory) : q \in [1..n -> ids]
  BY DEF Listings
<1>2. CASE Len(memory) \in Nat
  <2>1. n \in Nat
    BY <1>2
  <2>2. q \in [1..n -> Ids]
    BY <1>1
  <2> QED
    BY <2>1, <2>2
<1> QED
  BY <1>2

(* A step that leaves the store alone needs care only with the rest. *)
LEMMA RestInv ==
    ASSUME HelperInv, UNCHANGED <<up, memory, file>>,
           TerminalInv', StopperInv', SocketInv'
    PROVE  HelperInv'
BY StoreUnchanged DEF HelperInv

LEMMA Stopping_Inv ==
    ASSUME HelperInv, StopChecks \/ StopRemoves \/ StopExits \/ StopFails
    PROVE  HelperInv'
<1>1. UNCHANGED <<up, memory, file, terminal>> /\ stopper.pc # "idle"
  BY DEF StopChecks, StopRemoves, StopExits, StopFails
<1>2. Listed' = Listed
  BY <1>1 DEF Listed
<1>3. TerminalInv'
  BY <1>1, <1>2, TerminalsUnchanged DEF HelperInv
<1>4. StopperInv /\ SocketInv
  BY DEF HelperInv
<1>5. CASE StopChecks
  <2>1. StopperInv'
    <3>1. PICK pc \in {"exit", "remove"} : stopper' = [stopper EXCEPT !.pc = pc]
      BY <1>5 DEF StopChecks
    <3> QED
      BY <1>1, <1>4, <3>1 DEF StopperInv, StopperState
  <2>2. SocketInv'
    BY <1>2, <1>4, <1>5, SocketsUnchanged DEF StopChecks
  <2> QED
    BY <1>1, <1>3, <2>1, <2>2, RestInv
<1>6. CASE StopRemoves
  <2>1. StopperInv'
    BY <1>1, <1>4, <1>6, StopNextFits DEF StopRemoves
  <2>2. SocketInv'
    BY <1>2, <1>4, <1>6, RemoveStep DEF StopRemoves
  <2> QED
    BY <1>1, <1>3, <2>1, <2>2, RestInv
<1>7. CASE StopExits
  <2>1. StopperInv'
    BY <1>1, <1>4, <1>7, StopNextFits DEF StopExits
  <2>2. SocketInv'
    BY <1>2, <1>4, <1>7, ExitStep DEF StopExits
  <2> QED
    BY <1>1, <1>3, <2>1, <2>2, RestInv
<1>8. CASE StopFails
  <2>1. StopperInv'
    BY <1>8 DEF StopFails, NoStop, StopperInv, StopperState
  <2>2. SocketInv'
    BY <1>2, <1>4, <1>8, SocketsUnchanged DEF StopFails
  <2> QED
    BY <1>1, <1>3, <2>1, <2>2, RestInv
<1> QED
  BY <1>5, <1>6, <1>7, <1>8

LEMMA Terminal_Inv ==
    ASSUME HelperInv, NEW t \in Terminals,
           \/ Load(t) \/ Examine(t) \/ Check(t) \/ Clear(t)
           \/ Dial(t) \/ DialFails(t) \/ Install(t) \/ InstallFails(t)
           \/ CloseTerminal(t)
    PROVE  HelperInv'
<1>1. UNCHANGED <<up, memory, file, stopper>>
  BY DEF Load, Examine, Check, Clear, Dial, DialFails, Install, InstallFails, CloseTerminal
<1>2. Listed' = Listed
  BY <1>1 DEF Listed
<1>3. StopperInv'
  BY <1>1 DEF HelperInv, StopperInv
<1>4. TerminalInv /\ SocketInv /\ file \in Seq(Profiles)
  BY DEF HelperInv, StoreInv
<1>5. TerminalShape(terminal[t]) /\ TerminalJob(terminal[t], Listed)
  BY <1>4 DEF TerminalInv
<1>6. UNCHANGED <<master, stale>> => SocketInv'
  BY <1>2, <1>4, SocketsUnchanged
<1>7. TerminalInv' /\ SocketInv' => HelperInv'
  BY <1>1, <1>3, RestInv
<1>8. terminal[t].pc \notin {"closed", "load"} =>
         Current(t) \in Profiles /\ Current(t).id \in Listed
  <2> SUFFICES ASSUME terminal[t].pc \notin {"closed", "load"}
               PROVE  Current(t) \in Profiles /\ Current(t).id \in Listed
    OBVIOUS
  <2>1. /\ terminal[t].todo \in Seq(Profiles) /\ terminal[t].todo # <<>>
        /\ \A k \in DOMAIN terminal[t].todo : terminal[t].todo[k].id \in Listed
    BY <1>5 DEF TerminalShape, TerminalJob, TerminalState
  <2> QED
    BY <2>1, WorkSplits DEF Current
<1>9. terminal[t].pc \notin {"closed", "load"} /\ Done(t) => TerminalInv'
  BY <1>2, <1>4, DoneStep
<1>10. ASSUME NEW pc \in {"check", "clear", "connect", "install"}, Go(t, pc),
              terminal[t].pc \notin {"closed", "load"}
       PROVE  TerminalInv'
  BY <1>2, <1>4, <1>10, GoOnStep
<1>11. CASE Load(t)
  <2>1. TerminalInv'
    <3>1. CASE file = <<>>
      <4>1. terminal' = [terminal EXCEPT ![t] = Closed]
        BY <1>11, <3>1 DEF Load
      <4> QED
        BY <1>2, <1>4, <4>1, ClosedFits, TerminalStep
    <3>2. CASE file # <<>>
      <4> DEFINE x == [terminal[t] EXCEPT !.pc = "examine", !.todo = file, !.known = FALSE]
      <4>1. terminal' = [terminal EXCEPT ![t] = x]
        BY <1>11, <3>2 DEF Load
      <4>2. x \in TerminalState /\ x.pc = "examine" /\ x.todo = file
        BY <1>4, <1>5 DEF TerminalShape, TerminalState
      <4>3. \A k \in DOMAIN file : file[k].id \in Listed
        BY IdsOfMember DEF Listed
      <4> HIDE DEF x
      <4>4. TerminalShape(x) /\ TerminalJob(x, Listed)
        BY <3>2, <4>2, <4>3 DEF TerminalShape, TerminalJob
      <4> QED
        BY <1>2, <1>4, <4>1, <4>4, TerminalStep
    <3> QED
      BY <3>1, <3>2
  <2> QED
    BY <1>6, <1>7, <1>11, <2>1 DEF Load
<1>12. CASE Examine(t)
  <2>1. TerminalInv'
    BY <1>9, <1>10, <1>12 DEF Examine
  <2> QED
    BY <1>6, <1>7, <1>12, <2>1 DEF Examine
<1>13. CASE Check(t)
  <2>1. TerminalInv'
    BY <1>9, <1>10, <1>13 DEF Check
  <2> QED
    BY <1>6, <1>7, <1>13, <2>1 DEF Check
<1>14. CASE Clear(t)
  <2>1. TerminalInv'
    BY <1>10, <1>14 DEF Clear
  <2>2. SocketInv'
    BY <1>2, <1>4, <1>14, RemoveStep DEF Clear
  <2> QED
    BY <1>7, <2>1, <2>2
<1>15. CASE Dial(t)
  <2> DEFINE p == Current(t)
  <2>1. p \in Profiles /\ p.id \in Listed
    BY <1>8, <1>15 DEF Dial
  <2>2. TerminalInv'
    <3>1. CASE terminal[t].boot
      <4>1. terminal[t] \in TerminalState
        BY <1>5 DEF TerminalShape
      <4>2. terminal' = [terminal EXCEPT ![t] =
                [@ EXCEPT !.pc = "install", !.created = TRUE]]
        BY <1>4, <1>15, <3>1, <4>1 DEF Dial, TerminalInv, TerminalState
      <4> QED
        BY <1>2, <1>4, <1>15, <4>2, GoStep DEF Dial
    <3>2. CASE ~terminal[t].boot
      BY <1>9, <1>15, <3>2 DEF Dial
    <3> QED
      BY <3>1, <3>2
  <2>3. SocketInv'
    <3> DEFINE m == [path |-> p.id, linked |-> ~SocketFile(p.id)]
    <3>1. PICK b \in BOOLEAN : b = ~SocketFile(p.id)
      OBVIOUS
    <3>2. p.id \in Ids /\ p.place \in Places
      BY <2>1 DEF Profiles
    <3>3. m \in Masters /\ m.path = p.id
      BY <3>1, <3>2 DEF Masters
    <3>4. master' = [master EXCEPT ![p.place] = m] /\ stale' = stale
      BY <1>15 DEF Dial
    <3> HIDE DEF m, p
    <3>5. master' \in [Places -> Masters \cup {Nothing}] /\ stale' \in SUBSET Ids
      BY <1>4, <3>3, <3>4 DEF SocketInv
    <3>6. ASSUME NEW q \in Places, master'[q] # Nothing
          PROVE  master'[q].path \in Listed
      BY <1>4, <2>1, <3>3, <3>4, <3>6 DEF SocketInv, MasterInv
    <3> QED
      BY <1>2, <1>4, <3>5, <3>6, SocketStep
  <2> QED
    BY <1>7, <2>2, <2>3
<1>16. CASE DialFails(t)
  BY <1>6, <1>7, <1>9, <1>16 DEF DialFails
<1>17. CASE Install(t)
  BY <1>6, <1>7, <1>9, <1>17 DEF Install
<1>18. CASE InstallFails(t)
  <2>1. TerminalInv'
    BY <1>9, <1>18 DEF InstallFails
  <2>2. SocketInv'
    BY <1>2, <1>4, <1>6, <1>18, ExitStep DEF InstallFails
  <2> QED
    BY <1>7, <2>1, <2>2
<1>19. CASE CloseTerminal(t)
  <2>1. TerminalInv'
    BY <1>2, <1>4, <1>19, ClosedFits, TerminalStep DEF CloseTerminal
  <2> QED
    BY <1>6, <1>7, <1>19, <2>1 DEF CloseTerminal
<1> QED
  BY <1>11, <1>12, <1>13, <1>14, <1>15, <1>16, <1>17, <1>18, <1>19

LEMMA Machine_Inv ==
    ASSUME HelperInv, HelperStarts \/ HelperStops \/ \E q \in Places : MasterEnds(q)
    PROVE  HelperInv'
<1>1. UNCHANGED <<file, terminal>>
  BY DEF HelperStarts, HelperStops, MasterEnds
<1>2. Listed' = Listed
  BY <1>1 DEF Listed
<1>3. TerminalInv'
  BY <1>1, <1>2, TerminalsUnchanged DEF HelperInv
<1>4. StoreInv /\ StopperInv /\ SocketInv
  BY DEF HelperInv
<1>5. CASE HelperStarts
  <2>1. /\ up' \in BOOLEAN /\ memory' = file /\ file' = file
        /\ IdsOf(memory') = Listed
    BY <1>5 DEF HelperStarts, Listed
  <2>2. IdsUnique'
    BY <1>4, <2>1 DEF StoreInv, IdsUnique
  <2>3. StoreInv'
    BY <1>2, <1>4, <2>1, <2>2 DEF StoreInv, KeptInv
  <2>4. SocketInv'
    BY <1>2, <1>4, <1>5, SocketsUnchanged DEF HelperStarts
  <2>5. StopperInv'
    BY <1>4, <1>5 DEF HelperStarts, StopperInv
  <2> QED
    BY <1>3, <2>3, <2>4, <2>5 DEF HelperInv
<1>6. CASE HelperStops
  <2>1. up' = FALSE /\ memory' = <<>> /\ file' = file
    BY <1>6 DEF HelperStops
  <2>2. IdsUnique'
    BY <1>4, <2>1 DEF StoreInv, IdsUnique
  <2>3. StoreInv'
    <3>1. memory' \in Seq(Profiles) /\ file' \in Seq(Profiles)
      BY <1>4, <2>1 DEF StoreInv
    <3> QED
      BY <2>1, <2>2, <3>1 DEF StoreInv, KeptInv
  <2>4. SocketInv'
    BY <1>2, <1>4, <1>6, SocketsUnchanged DEF HelperStops
  <2>5. StopperInv'
    BY <1>6 DEF HelperStops, NoStop, StopperInv, StopperState
  <2> QED
    BY <1>3, <2>3, <2>4, <2>5 DEF HelperInv
<1>7. ASSUME NEW q \in Places, MasterEnds(q)
      PROVE  HelperInv'
  <2>1. master[q] \in Masters /\ master' = [master EXCEPT ![q] = Nothing]
    BY <1>4, <1>7 DEF MasterEnds, SocketInv
  <2>2. stale' \in SUBSET Ids
    BY <1>4, <1>7, <2>1 DEF MasterEnds, SocketInv, Masters
  <2>3. SocketInv'
    BY <1>2, <1>4, <2>1, <2>2 DEF SocketInv, MasterInv
  <2>4. StopperInv'
    BY <1>4, <1>7 DEF MasterEnds, StopperInv
  <2> QED
    BY <1>3, <1>7, <2>3, <2>4, RestInv DEF MasterEnds
<1> QED
  BY <1>5, <1>6, <1>7

LEMMA MemoryIds ==
    ASSUME StoreInv, NEW k \in DOMAIN memory
    PROVE  memory[k].id \in Ids
<1>1. memory[k] \in Profiles
  BY DEF StoreInv
<1> QED
  BY <1>1 DEF Profiles

LEMMA HelperNext_Inv == HelperInv /\ [HelperNext]_helperVars => HelperInv'
<1> SUFFICES ASSUME HelperInv, [HelperNext]_helperVars
             PROVE  HelperInv'
  OBVIOUS
<1>1. ASSUME NEW t \in Terminals, NEW ids \in SUBSET Ids, Start(t, ids)
      PROVE  HelperInv'
  BY <1>1, SelectedIds, Launch_Inv DEF Start, HelperInv
<1>2. ASSUME NEW t \in Terminals, StartAll(t)
      PROVE  HelperInv'
  <2>1. IdsOf(memory) \in SUBSET Ids
    BY MemoryIds, IdsOfMember DEF HelperInv
  <2> QED
    BY <1>2, <2>1, Launch_Inv DEF StartAll
<1>3. ASSUME NEW ids \in SUBSET Ids, Stop(ids)
      PROVE  HelperInv'
  <2> DEFINE named == {p.id : p \in Selected(ids)}
  <2>1. named \in SUBSET Ids
    BY SelectedIds DEF HelperInv
  <2> HIDE DEF named
  <2>2. PICK todo \in Listings(named) : StopThese(todo)
    BY <1>3 DEF Stop, named
  <2> QED
    BY <2>1, <2>2, ListingIds, StopThese_Inv
<1>4. CASE StopAll
  <2> DEFINE todo == [k \in DOMAIN memory |-> memory[k].id]
  <2>1. memory \in Seq(Profiles)
    BY DEF HelperInv, StoreInv
  <2>2. \A k \in DOMAIN memory : memory[k].id \in Ids
    BY MemoryIds DEF HelperInv
  <2>3. todo \in Seq(Ids)
    BY <2>1, <2>2
  <2>4. StopThese(todo)
    BY <1>4 DEF StopAll
  <2> QED
    BY <2>3, <2>4, StopThese_Inv
<1>5. CASE UNCHANGED helperVars
  BY <1>5, StoreUnchanged DEF helperVars, HelperInv, TerminalInv, StopperInv,
     SocketInv, MasterInv
<1>6. CASE Request
  BY <1>1, <1>2, <1>3, <1>4, <1>6, Register_Inv, Bootstrap_Inv DEF Request
<1> QED
  BY <1>5, <1>6, Stopping_Inv, Terminal_Inv, Machine_Inv DEF HelperNext

-----------------------------------------------------------------------------
(* What follows from it. *)

LEMMA HelperInvariant == HelperSpec => []HelperInv
BY HelperInit_Inv, HelperNext_Inv, PTL DEF HelperSpec

(* The types of the helper's state, and where each of its processes has    *)
(* work to do.                                                             *)
THEOREM HelperTypes == HelperSpec => []HelperTypeOK
<1>1. HelperInv => HelperTypeOK
  BY DEF HelperInv, StoreInv, TerminalInv, TerminalShape, StopperInv, SocketInv, HelperTypeOK
<1> QED
  BY <1>1, HelperInvariant, PTL

(* No two profiles share an id: however the requests that save profiles    *)
(* follow each other, and whatever writes fail (tunnels.go:64-71).         *)
THEOREM ProfileIdsUnique == HelperSpec => []IdsUnique
<1>1. HelperInv => IdsUnique
  BY DEF HelperInv, StoreInv
<1> QED
  BY <1>1, HelperInvariant, PTL

(* A tunnel always has a profile in the running helper: terminals know     *)
(* profiles from the file alone, and the file never has an id that memory  *)
(* lacks (tunnels.go:66, 90-107).                                          *)
THEOREM EveryTunnelHasProfile == HelperSpec => []TunnelsHaveProfiles
<1>1. HelperInv => TunnelsHaveProfiles
  BY DEF HelperInv, StoreInv, KeptInv, SocketInv, MasterInv, TunnelsHaveProfiles
<1> QED
  BY <1>1, HelperInvariant, PTL

(* A terminal that was opened while the file was up to date finds in it    *)
(* every profile it was opened for (main.go:219-224, 507-511).             *)
THEOREM EveryLaunchIsKnown == HelperSpec => []LaunchedIsKnown
<1>1. HelperInv => LaunchedIsKnown
  BY DEF HelperInv, TerminalInv, TerminalJob, LaunchedIsKnown, Listed
<1> QED
  BY <1>1, HelperInvariant, PTL
=============================================================================
