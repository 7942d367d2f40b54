---------------------------- MODULE LocalHelper ----------------------------
(***************************************************************************)
(* The local helper of an operator's machine: its tunnel profiles, in      *)
(* memory and in tunnels.json, the requests of the dashboard, the terminal *)
(* processes that it opens, and the ssh masters that hold the tunnels.     *)
(*                                                                         *)
(* A terminal is another process: it knows the profiles only through the   *)
(* file, and it goes on when the helper stops.  Masters outlive both and   *)
(* are reached only through the socket file named after their profile.     *)
(*                                                                         *)
(* Abstractions: the target and the remote port of a profile are one       *)
(* place; one master at a time can listen there (ExitOnForwardFailure).    *)
(* Names and SSH ports are left out, and every request is well-formed.     *)
(***************************************************************************)
EXTENDS Naturals, Sequences

CONSTANTS
    ServerIds,      \* ids of servers
    Enrollments,    \* ids of enrollments; bootstrap profiles are named after them
    EnrolledServer, \* the server that each enrollment made
    Places,         \* what a tunnel can be connected to
    Terminals,      \* terminal windows open at one time
    Nothing

ASSUME HelperAssumption ==
    /\ EnrolledServer \in [Enrollments -> ServerIds]
    /\ Nothing \notin ServerIds \cup Enrollments

VARIABLES
    up,         \* the helper runs
    memory,     \* tunnelStore.profiles
    file,       \* tunnels.json; an absent file is an empty list
    terminal,   \* the commands in the terminal windows
    stopper,    \* a /tunnels/stop or /tunnels/stop-all request in progress
    master,     \* the ssh master that listens at each place
    stale       \* socket files that no master listens to

helperVars == <<up, memory, file, terminal, stopper, master, stale>>

-----------------------------------------------------------------------------
Ids == ServerIds \cup Enrollments
Profiles == [id: Ids, server: ServerIds \cup {Nothing}, place: Places]
Masters == [path: Ids, linked: BOOLEAN]     \* linked: the socket file is its own

(* known: ghost, the file was up to date when the terminal was opened. *)
TerminalState == [pc: {"closed", "load", "examine", "check", "clear", "connect", "install"},
                  boot: BOOLEAN, ids: SUBSET Ids, todo: Seq(Profiles),
                  created: BOOLEAN, known: BOOLEAN]
StopperState == [pc: {"idle", "check", "remove", "exit"}, todo: Seq(Ids)]

Closed == [pc |-> "closed", boot |-> FALSE, ids |-> {}, todo |-> <<>>,
           created |-> FALSE, known |-> FALSE]
NoStop == [pc |-> "idle", todo |-> <<>>]

HelperTypeOK ==
    /\ up \in BOOLEAN
    /\ memory \in Seq(Profiles) /\ file \in Seq(Profiles)
    /\ terminal \in [Terminals -> TerminalState]
    /\ \A t \in Terminals :
          terminal[t].todo = <<>> <=> terminal[t].pc \in {"closed", "load"}
    /\ stopper \in StopperState /\ (stopper.pc = "idle" <=> stopper.todo = <<>>)
    /\ master \in [Places -> Masters \cup {Nothing}]
    /\ stale \in SUBSET Ids

HelperInit ==
    /\ up = FALSE
    /\ memory = <<>> /\ file = <<>>
    /\ terminal = [t \in Terminals |-> Closed]
    /\ stopper = NoStop
    /\ master = [q \in Places |-> Nothing]
    /\ stale = {}

IdsOf(profiles) == {profiles[i].id : i \in DOMAIN profiles}

-----------------------------------------------------------------------------
(* Socket files.  ssh -O check reaches whatever master listens to the file. *)

Holds(q, id) == master[q] # Nothing /\ master[q].path = id /\ master[q].linked
Linked(id) == \E q \in Places : Holds(q, id)
SocketFile(id) == id \in stale \/ Linked(id)

(* os.Remove and rm -f: a master that listens there goes on without it. *)
RemoveFile(id) ==
    /\ master' = [q \in Places |-> IF Holds(q, id) THEN [master[q] EXCEPT !.linked = FALSE]
                                   ELSE master[q]]
    /\ stale' = stale \ {id}

(* ssh -O exit: the master ends and removes its file. *)
ExitMaster(id) ==
    /\ master' = [q \in Places |-> IF Holds(q, id) THEN Nothing ELSE master[q]]
    /\ UNCHANGED stale

-----------------------------------------------------------------------------
(* The store.                                                              *)

Same(old, p) == old.id = p.id \/ (p.server # Nothing /\ old.server = p.server)

(* The profile that takes the place of old. *)
Renewed_Renamed(old, p) == p
Renewed(old, p) == [p EXCEPT !.id = old.id]

(* save, up to write: the first profile that matches is replaced. *)
Put(p) ==
    \/ \E i \in DOMAIN memory :
          /\ Same(memory[i], p) /\ \A j \in 1..(i - 1) : ~Same(memory[j], p)
          /\ memory' = [memory EXCEPT ![i] = Renewed(@, p)]
    \/ /\ \A i \in DOMAIN memory : ~Same(memory[i], p)
       /\ memory' = Append(memory, p)

(* write: a temporary file and a rename; what fails leaves the old file. *)
Write == file' = memory'
WriteFails_InPlace == file' = <<>>
WriteFails == UNCHANGED file

Matches(p, id) == p.id = id \/ p.server = id

(* find: the first profile with this id or of this server, if any. *)
Found(id) ==
    {memory[i] : i \in {k \in DOMAIN memory :
        Matches(memory[k], id) /\ \A j \in 1..(k - 1) : ~Matches(memory[j], id)}}

-----------------------------------------------------------------------------
(* Requests of the dashboard.  It registers a server under its own id or   *)
(* under the id of the enrollment that made it; the enrollment's profile   *)
(* has no server until the agent has enrolled.                             *)

Register(id, s, q) ==
    /\ up
    /\ id = s \/ (id \in Enrollments /\ EnrolledServer[id] = s)
    /\ Put([id |-> id, server |-> s, place |-> q])
    /\ Write \/ WriteFails
    /\ UNCHANGED <<up, terminal, stopper, master, stale>>

(* The profiles that the ids of a request name; each must name one. *)
Selected(ids) == UNION {Found(id) : id \in ids}
AllFound(ids) == ids # {} /\ \A id \in ids : Found(id) # {}

(* One terminal for all the ids. *)
Launch(t, ids) ==
    /\ up /\ terminal[t].pc = "closed" /\ ids # {}
    /\ terminal' = [terminal EXCEPT ![t] = [Closed EXCEPT
           !.pc = "load", !.ids = ids, !.known = (memory = file)]]
    /\ UNCHANGED <<up, memory, file, stopper, master, stale>>

(* /tunnels/start and /tunnels/start-all; a start-all that names none      *)
(* takes them all.                                                         *)
Start(t, ids) == AllFound(ids) /\ Launch(t, {p.id : p \in Selected(ids)})
StartAll(t) == Launch(t, IdsOf(memory))

(* /bootstrap for an endpoint on the loopback interface.  A profile that   *)
(* is not saved is not bootstrapped.                                       *)
Bootstrap(t, e, q) ==
    LET p == [id |-> e, server |-> Nothing, place |-> q]
    IN  /\ up /\ terminal[t].pc = "closed"
        /\ Put(p)
        /\ \/ /\ Write
              /\ terminal' = [terminal EXCEPT ![t] =
                     [Closed EXCEPT !.pc = "check", !.boot = TRUE, !.todo = <<p>>]]
           \/ /\ WriteFails \/ Write      \* not saved, or no terminal opens
              /\ UNCHANGED terminal
        /\ UNCHANGED <<up, stopper, master, stale>>

(* The orders in which a request can name profiles. *)
Listings(ids) ==
    {q \in UNION {[1..n -> ids] : n \in 1..Len(memory)} :
        /\ \A id \in ids : \E k \in DOMAIN q : q[k] = id
        /\ \A j, k \in DOMAIN q : q[j] = q[k] => j = k}

(* /tunnels/stop and /tunnels/stop-all take the profiles one at a time;    *)
(* a stop-all that names none takes them all.                              *)
StopThese(todo) ==
    /\ up /\ stopper.pc = "idle" /\ todo # <<>>
    /\ stopper' = [pc |-> "check", todo |-> todo]
    /\ UNCHANGED <<up, memory, file, terminal, master, stale>>

Stop(ids) ==
    /\ AllFound(ids)
    /\ \E todo \in Listings({p.id : p \in Selected(ids)}) : StopThese(todo)
StopAll == StopThese([k \in DOMAIN memory |-> memory[k].id])

(* tunnelRunning gives ssh two seconds: a slow answer is taken for none. *)
StopChecks ==
    LET id == Head(stopper.todo)
    IN  /\ stopper.pc = "check"
        /\ \/ Linked(id) /\ stopper' = [stopper EXCEPT !.pc = "exit"]
           \/ stopper' = [stopper EXCEPT !.pc = "remove"]
        /\ UNCHANGED <<up, memory, file, terminal, master, stale>>

StopNext_Endless == [pc |-> "check", todo |-> Tail(stopper.todo)]
StopNext == IF Len(stopper.todo) = 1 THEN NoStop
            ELSE [pc |-> "check", todo |-> Tail(stopper.todo)]

StopRemoves ==
    /\ stopper.pc = "remove"
    /\ RemoveFile(Head(stopper.todo))
    /\ stopper' = StopNext
    /\ UNCHANGED <<up, memory, file, terminal>>

StopExits ==
    /\ stopper.pc = "exit" /\ Linked(Head(stopper.todo))
    /\ ExitMaster(Head(stopper.todo))
    /\ stopper' = StopNext
    /\ UNCHANGED <<up, memory, file, terminal>>

(* The first that cannot be stopped ends the request. *)
StopFails ==
    /\ stopper.pc = "exit"
    /\ stopper' = NoStop
    /\ UNCHANGED <<up, memory, file, terminal, master, stale>>

-----------------------------------------------------------------------------
(* A terminal: runTunnels and reverse-tunnel-ssh.sh, or bootstrap-ssh.sh.  *)

Go(t, pc) == terminal' = [terminal EXCEPT ![t].pc = pc]
Current(t) == Head(terminal[t].todo)

Rest(x) == IF Len(x.todo) = 1 THEN Closed
           ELSE [x EXCEPT !.pc = "examine", !.todo = Tail(x.todo)]
Done(t) == terminal' = [terminal EXCEPT ![t] = Rest(@)]

Wanted(t, p) == p.id \in terminal[t].ids \/ p.server \in terminal[t].ids

(* newTunnelStore in the new process. *)
Load(t) ==
    /\ terminal[t].pc = "load"
    /\ terminal' = [terminal EXCEPT ![t] =
           IF file = <<>> THEN Closed
           ELSE [@ EXCEPT !.pc = "examine", !.todo = file, !.known = FALSE]]
    /\ UNCHANGED <<up, memory, file, stopper, master, stale>>

(* The profiles that were not asked for are passed over. *)
Examine(t) ==
    /\ terminal[t].pc = "examine"
    /\ \/ ~Wanted(t, Current(t)) /\ Done(t)
       \/ Wanted(t, Current(t)) /\ Linked(Current(t).id) /\ Done(t)
       \/ Wanted(t, Current(t)) /\ Go(t, "check")
    /\ UNCHANGED <<up, memory, file, stopper, master, stale>>

(* The check of the scripts has no time limit. *)
Check(t) ==
    /\ terminal[t].pc = "check"
    /\ IF ~Linked(Current(t).id) THEN Go(t, "clear")
       ELSE IF terminal[t].boot THEN Go(t, "install") ELSE Done(t)
    /\ UNCHANGED <<up, memory, file, stopper, master, stale>>

Clear(t) ==
    /\ terminal[t].pc = "clear"
    /\ RemoveFile(Current(t).id)
    /\ Go(t, "connect")
    /\ UNCHANGED <<up, memory, file, stopper>>

(* ssh authenticates and forwards; it leaves a socket file that is there   *)
(* already alone and then listens to none.                                 *)
Dial(t) ==
    LET p == Current(t)
    IN  /\ terminal[t].pc = "connect"
        /\ master[p.place] = Nothing
        /\ master' = [master EXCEPT ![p.place] = [path |-> p.id, linked |-> ~SocketFile(p.id)]]
        /\ IF terminal[t].boot
           THEN terminal' = [terminal EXCEPT ![t].pc = "install", ![t].created = TRUE]
           ELSE Done(t)
        /\ UNCHANGED <<up, memory, file, stopper, stale>>

(* A wrong password, no route, or the place is taken. *)
DialFails(t) ==
    /\ terminal[t].pc = "connect"
    /\ Done(t)
    /\ UNCHANGED <<up, memory, file, stopper, master, stale>>

Install(t) ==
    /\ terminal[t].pc = "install"
    /\ Done(t)
    /\ UNCHANGED <<up, memory, file, stopper, master, stale>>

(* cleanup: the script ends the master that it created. *)
InstallFails(t) ==
    /\ terminal[t].pc = "install"
    /\ Done(t)
    /\ IF terminal[t].created THEN ExitMaster(Current(t).id) ELSE UNCHANGED <<master, stale>>
    /\ UNCHANGED <<up, memory, file, stopper>>

-----------------------------------------------------------------------------
(* The machine.                                                            *)

HelperStarts_Empty ==
    /\ ~up /\ up' = TRUE
    /\ memory' = <<>>
    /\ UNCHANGED <<file, terminal, stopper, master, stale>>
HelperStarts ==
    /\ ~up /\ up' = TRUE
    /\ memory' = file
    /\ UNCHANGED <<file, terminal, stopper, master, stale>>

HelperStops ==
    /\ up /\ up' = FALSE
    /\ memory' = <<>> /\ stopper' = NoStop
    /\ UNCHANGED <<file, terminal, master, stale>>

(* A window is closed between two steps of its command. *)
CloseTerminal(t) ==
    /\ terminal[t].pc \in {"load", "examine", "check", "clear", "connect"}
    /\ terminal' = [terminal EXCEPT ![t] = Closed]
    /\ UNCHANGED <<up, memory, file, stopper, master, stale>>

(* The connection of a master is lost; killed, it leaves its file behind. *)
MasterEnds(q) ==
    /\ master[q] # Nothing
    /\ master' = [master EXCEPT ![q] = Nothing]
    /\ \/ UNCHANGED stale
       \/ master[q].linked /\ stale' = stale \cup {master[q].path}
    /\ UNCHANGED <<up, memory, file, terminal, stopper>>

-----------------------------------------------------------------------------
Request ==
    \/ \E id \in Ids, s \in ServerIds, q \in Places : Register(id, s, q)
    \/ \E t \in Terminals, ids \in SUBSET Ids : Start(t, ids)
    \/ \E t \in Terminals : StartAll(t)
    \/ \E t \in Terminals, e \in Enrollments, q \in Places : Bootstrap(t, e, q)
    \/ \E ids \in SUBSET Ids : Stop(ids)
    \/ StopAll

HelperNext ==
    \/ Request
    \/ StopChecks \/ StopRemoves \/ StopExits \/ StopFails
    \/ \E t \in Terminals :
          \/ Load(t) \/ Examine(t) \/ Check(t) \/ Clear(t)
          \/ Dial(t) \/ DialFails(t) \/ Install(t) \/ InstallFails(t)
          \/ CloseTerminal(t)
    \/ HelperStarts \/ HelperStops
    \/ \E q \in Places : MasterEnds(q)

HelperSpec == HelperInit /\ [][HelperNext]_helperVars

-----------------------------------------------------------------------------
(* No two profiles share an id, in memory or in the file, whatever profile *)
(* a save replaces: they would share one socket file (tunnels.go:64-71).   *)
IdsUnique ==
    \A profiles \in {memory, file} :
        \A i, j \in DOMAIN profiles : profiles[i].id = profiles[j].id => i = j

(* Every tunnel that this machine holds has a profile in the running       *)
(* helper, so that stop-all reaches its socket file; a save that gave the  *)
(* profile of a server a new id, or a restart that forgot profiles, would  *)
(* leave a tunnel that nothing can stop (tunnels.go:66, 90-107).           *)
TunnelsHaveProfiles ==
    up => \A q \in Places : master[q] # Nothing => master[q].path \in IdsOf(memory)

(* A terminal looks in the file for profiles that the helper found in its  *)
(* memory.  Unless a write had failed before, it finds them all, however   *)
(* late it starts and whatever was saved since (main.go:219-224, 507-511). *)
LaunchedIsKnown ==
    \A t \in Terminals :
        terminal[t].pc = "load" /\ terminal[t].known => terminal[t].ids \subseteq IdsOf(file)
=============================================================================
