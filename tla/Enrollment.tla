----------------------------- MODULE Enrollment -----------------------------
(***************************************************************************)
(* Enrollment of a monitored machine and the life of its agent: one-time   *)
(* tokens, the exchange of a token for a credential, the files and the     *)
(* process of the agent, heartbeats, revocation and unregistration.        *)
(*                                                                         *)
(* One action is one SQL statement or one transaction of the API, one file *)
(* operation of the agent, or one event of the network: a request or a     *)
(* reply is lost when its sender gives up waiting, and the handler that    *)
(* was at work may still commit.  A lock taken by SELECT ... FOR UPDATE is *)
(* held by the handler that is between that SELECT and its commit.         *)
(*                                                                         *)
(* Abstractions: instead of a clock, "15 minutes" and "2 minutes" may pass *)
(* at any moment (Expire, Age).  A credential is named by the server it    *)
(* belongs to.  The status "connected" stands for online, warning and      *)
(* degraded, which AlertLifecycle tells apart.  A heartbeat stands for the *)
(* ingestion of a sample too: both authenticate in one statement and write *)
(* last_seen_at and the status in a later one.                             *)
(***************************************************************************)
EXTENDS FiniteSets

CONSTANTS
    Tokens,     \* enrollment token ids, each used by at most one row
    Servers,    \* server ids, each used by at most one row
    Machines,   \* the hosts on which an agent is installed
    Handlers,   \* requests in progress at the API at one time
    Null

ASSUME NullAssumption ==
    Null \notin Tokens /\ Null \notin Servers /\ Null \notin Machines /\ Null \notin Handlers

VARIABLES
    tokenRow, expired, used, revoked,               \* enrollment_tokens
    serverRow, maker, host, banned, status, seen,   \* servers and agents
    handler,    \* local variables of each request handler
    agent,      \* noxwatch-agent run, on each machine
    command,    \* noxwatch-agent unregister, on each machine
    disk        \* /etc/noxwatch/enrollment-token and credential.json

tokenVars == <<tokenRow, expired, used, revoked>>
serverVars == <<serverRow, maker, host, banned, status, seen>>
machineVars == <<agent, command, disk>>
vars == <<tokenVars, serverVars, handler, machineVars>>

-----------------------------------------------------------------------------
RowStates == {"new", "live", "gone"}        \* before, in and after the table
Statuses == {"unknown", "connected", "offline", "maintenance"}

HandlerState == [pc: {"idle", "lock", "exchange", "auth", "write", "reply"},
                 kind: {"none", "enroll", "heartbeat", "unregister"},
                 from: Machines \cup {Null},
                 tok: Tokens \cup {Null}, asked: {"late", "intime"},
                 cred: Servers \cup {Null}, answer: {"none", "ok", "refused", "error"}]
AgentState == [pc: {"off", "enroll", "save", "remove", "run"},
               cred: Servers \cup {Null}, waits: Handlers \cup {Null}]
CommandState == [pc: {"none", "asked", "forget"}, waits: Handlers \cup {Null}]
DiskState == [tok: Tokens \cup {Null}, cred: Servers \cup {Null}]

IdleHandler == [pc |-> "idle", kind |-> "none", from |-> Null, tok |-> Null,
                asked |-> "late", cred |-> Null, answer |-> "none"]
AgentOff == [pc |-> "off", cred |-> Null, waits |-> Null]
NoCommand == [pc |-> "none", waits |-> Null]

TypeOK ==
    /\ tokenRow \in [Tokens -> RowStates]
    /\ expired \subseteq Tokens /\ used \subseteq Tokens /\ revoked \subseteq Tokens
    /\ serverRow \in [Servers -> RowStates]
    /\ maker \in [Servers -> Tokens \cup {Null}]
    /\ host \in [Servers -> Machines \cup {Null}]
    /\ banned \subseteq Servers
    /\ status \in [Servers -> Statuses]
    /\ seen \in [Servers -> {"never", "recent", "old"}]
    /\ handler \in [Handlers -> HandlerState]
    /\ agent \in [Machines -> AgentState]
    /\ \A m \in Machines : agent[m].pc \in {"save", "remove", "run"} => agent[m].cred # Null
    /\ command \in [Machines -> CommandState]
    /\ disk \in [Machines -> DiskState]

Init ==
    /\ tokenRow = [t \in Tokens |-> "new"]
    /\ expired = {} /\ used = {} /\ revoked = {}
    /\ serverRow = [s \in Servers |-> "new"]
    /\ maker = [s \in Servers |-> Null]
    /\ host = [s \in Servers |-> Null]
    /\ banned = {}
    /\ status = [s \in Servers |-> "unknown"]
    /\ seen = [s \in Servers |-> "never"]
    /\ handler = [h \in Handlers |-> IdleHandler]
    /\ agent = [m \in Machines |-> AgentOff]
    /\ command = [m \in Machines |-> NoCommand]
    /\ disk = [m \in Machines |-> [tok |-> Null, cred |-> Null]]

-----------------------------------------------------------------------------
(* Tokens: operators and the passage of time.                              *)

(* No transaction holds the row of token t. *)
RowFree_NoLock(t) == TRUE
RowFree(t) == \A h \in Handlers : ~(handler[h].pc = "exchange" /\ handler[h].tok = t)

Revocable_EvenUsed(t) == tokenRow[t] = "live" /\ t \notin revoked
Revocable(t) == tokenRow[t] = "live" /\ t \notin used /\ t \notin revoked

(* What TokenStatus answers, were the row of t read now. *)
TokenStatus(t) ==
    CASE tokenRow[t] = "new" -> "none"
      [] tokenRow[t] = "gone" -> "purged"
      [] tokenRow[t] = "live" /\ t \in used -> "connected"
      [] tokenRow[t] = "live" /\ t \notin used /\ t \in revoked -> "revoked"
      [] tokenRow[t] = "live" /\ t \notin used /\ t \notin revoked /\ t \in expired -> "expired"
      [] OTHER -> "pending"

CreateToken(t) ==
    /\ tokenRow[t] = "new"
    /\ tokenRow' = [tokenRow EXCEPT ![t] = "live"]
    /\ UNCHANGED <<expired, used, revoked, serverVars, handler, machineVars>>

Expire(t) ==
    /\ tokenRow[t] = "live" /\ t \notin expired
    /\ expired' = expired \cup {t}
    /\ UNCHANGED <<tokenRow, used, revoked, serverVars, handler, machineVars>>

(* The UPDATE waits for the row and then checks it again. *)
RevokeToken(t) ==
    /\ Revocable(t) /\ RowFree(t)
    /\ revoked' = revoked \cup {t}
    /\ UNCHANGED <<tokenRow, expired, used, serverVars, handler, machineVars>>

(* Retention deletes the row seven days after its creation. *)
PurgeToken(t) ==
    /\ tokenRow[t] = "live" /\ t \in expired /\ RowFree(t)
    /\ tokenRow' = [tokenRow EXCEPT ![t] = "gone"]
    /\ UNCHANGED <<expired, used, revoked, serverVars, handler, machineVars>>

-----------------------------------------------------------------------------
(* Servers: operators, the passage of time and the monitor.                *)

RevokeAgent(s) ==
    /\ serverRow[s] = "live" /\ s \notin banned
    /\ banned' = banned \cup {s}
    /\ UNCHANGED <<tokenVars, serverRow, maker, host, status, seen, handler, machineVars>>

DeleteServer(s) ==
    /\ serverRow[s] = "live"
    /\ serverRow' = [serverRow EXCEPT ![s] = "gone"]
    /\ status' = [status EXCEPT ![s] = "unknown"]
    /\ seen' = [seen EXCEPT ![s] = "never"]
    /\ UNCHANGED <<tokenVars, maker, host, banned, handler, machineVars>>

Disconnect(s) ==
    /\ serverRow[s] = "live"
    /\ status' = [status EXCEPT ![s] = "offline"]
    /\ UNCHANGED <<tokenVars, serverRow, maker, host, banned, seen, handler, machineVars>>

SetMaintenance(s, on) ==
    /\ serverRow[s] = "live"
    /\ status' = [status EXCEPT ![s] = CASE on -> "maintenance"
                                         [] ~on /\ seen[s] = "recent" -> "connected"
                                         [] OTHER -> "offline"]
    /\ UNCHANGED <<tokenVars, serverRow, maker, host, banned, seen, handler, machineVars>>

(* Two minutes pass since last_seen_at was written. *)
Age(s) ==
    /\ seen[s] = "recent"
    /\ seen' = [seen EXCEPT ![s] = "old"]
    /\ UNCHANGED <<tokenVars, serverRow, maker, host, banned, status, handler, machineVars>>

MarkOffline ==
    /\ status' = [s \in Servers |-> IF status[s] = "connected" /\ seen[s] = "old"
                                    THEN "offline" ELSE status[s]]
    /\ UNCHANGED <<tokenVars, serverRow, maker, host, banned, seen, handler, machineVars>>

-----------------------------------------------------------------------------
(* The API: one handler per request.                                       *)

Goto(h, local) == handler' = [handler EXCEPT ![h] = local]

Answer(h, answer) == Goto(h, [handler[h] EXCEPT !.pc = "reply", !.answer = answer])

(* Enroll, SELECT ... FOR UPDATE: the instant compared with expires_at was *)
(* taken when the statement was issued, the other columns are compared     *)
(* once the row is free.                                                   *)
Exchangeable_AgainWhenUsed(t) == tokenRow[t] = "live" /\ t \notin revoked
Exchangeable(t) == tokenRow[t] = "live" /\ t \notin used /\ t \notin revoked

LockToken(h) ==
    LET t == handler[h].tok
    IN  /\ handler[h].pc = "lock"
        /\ handler[h].asked = "intime" /\ Exchangeable(t) /\ RowFree(t)
        /\ Goto(h, [handler[h] EXCEPT !.pc = "exchange"])
        /\ UNCHANGED <<tokenVars, serverVars, machineVars>>

RefuseToken(h) ==
    /\ handler[h].pc = "lock"
    /\ handler[h].asked = "late" \/ ~Exchangeable(handler[h].tok)
    /\ Answer(h, "refused")
    /\ UNCHANGED <<tokenVars, serverVars, machineVars>>

(* The rest of the transaction, up to its commit: the server, its agent    *)
(* with a fresh credential, and the token marked as used.                  *)
Exchange(h, s) ==
    /\ handler[h].pc = "exchange"
    /\ serverRow[s] = "new"
    /\ serverRow' = [serverRow EXCEPT ![s] = "live"]
    /\ maker' = [maker EXCEPT ![s] = handler[h].tok]
    /\ host' = [host EXCEPT ![s] = handler[h].from]
    /\ used' = used \cup {handler[h].tok}
    /\ Goto(h, [handler[h] EXCEPT !.pc = "reply", !.answer = "ok", !.cred = s])
    /\ UNCHANGED <<tokenRow, expired, revoked, banned, status, seen, machineVars>>

(* AuthenticateAgent: a statement of its own before the handler's writes. *)
Authentic_EvenRevoked(s) == serverRow[s] = "live"
Authentic(s) == serverRow[s] = "live" /\ s \notin banned

Authenticate(h) ==
    /\ handler[h].pc = "auth"
    /\ IF Authentic(handler[h].cred) THEN Goto(h, [handler[h] EXCEPT !.pc = "write"])
                                     ELSE Answer(h, "refused")
    /\ UNCHANGED <<tokenVars, serverVars, machineVars>>

(* The UPDATE of a server deleted meanwhile changes no row and succeeds. *)
WriteHeartbeat(h) ==
    LET s == handler[h].cred
    IN  /\ handler[h].pc = "write" /\ handler[h].kind = "heartbeat"
        /\ IF serverRow[s] = "live"
           THEN /\ seen' = [seen EXCEPT ![s] = "recent"]
                /\ status' = [status EXCEPT ![s] = IF @ = "maintenance" THEN @ ELSE "connected"]
           ELSE UNCHANGED <<seen, status>>
        /\ Answer(h, "ok")
        /\ UNCHANGED <<tokenVars, serverRow, maker, host, banned, machineVars>>

(* The audit row of a server deleted meanwhile violates a foreign key. *)
WriteUnregister(h) ==
    LET s == handler[h].cred
    IN  /\ handler[h].pc = "write" /\ handler[h].kind = "unregister"
        /\ IF serverRow[s] = "live"
           THEN /\ banned' = banned \cup {s}
                /\ status' = [status EXCEPT ![s] = "offline"]
                /\ Answer(h, "ok")
           ELSE UNCHANGED <<banned, status>> /\ Answer(h, "refused")
        /\ UNCHANGED <<tokenVars, serverRow, maker, host, seen, machineVars>>

(* The database refuses, the request is cancelled or the API stops: the    *)
(* transaction, if any, is rolled back.                                    *)
Fail(h) ==
    /\ handler[h].pc \in {"lock", "exchange", "auth", "write"}
    /\ Answer(h, "error")
    /\ UNCHANGED <<tokenVars, serverVars, machineVars>>

(* What a process does with the answer to the request it waits for. *)
AfterAnswer_Unchecked(a, r) ==
    IF a.pc = "run" THEN [a EXCEPT !.waits = Null]
                    ELSE [pc |-> "save", cred |-> r.cred, waits |-> Null]
AfterAnswer(a, r) ==
    CASE a.pc = "run" -> [a EXCEPT !.waits = Null]
      [] a.pc # "run" /\ r.answer = "ok" -> [pc |-> "save", cred |-> r.cred, waits |-> Null]
      [] OTHER -> AgentOff

Forgets_Always(r) == TRUE
Forgets(r) == r.answer = "ok"

Reply(h) ==
    LET r == handler[h]
        m == r.from
    IN  /\ r.pc = "reply"
        /\ agent' = IF agent[m].waits = h
                    THEN [agent EXCEPT ![m] = AfterAnswer(@, r)] ELSE agent
        /\ command' = IF command[m].waits = h
                      THEN [command EXCEPT ![m] =
                               IF Forgets(r) THEN [pc |-> "forget", waits |-> Null]
                                             ELSE NoCommand]
                      ELSE command
        /\ Goto(h, IdleHandler)
        /\ UNCHANGED <<tokenVars, serverVars, disk>>

-----------------------------------------------------------------------------
(* The agent process.                                                      *)

SetAgent(m, local) == agent' = [agent EXCEPT ![m] = local]

Open_Late(h, kind, m, t, s) ==
    /\ handler[h].pc = "idle"
    /\ Goto(h, [IdleHandler EXCEPT
          !.pc = IF kind = "enroll" THEN "lock" ELSE "auth", !.kind = kind,
          !.from = m, !.tok = t, !.cred = s,
          !.asked = IF t \in expired THEN "intime" ELSE "late"])
Open(h, kind, m, t, s) ==
    /\ handler[h].pc = "idle"
    /\ Goto(h, [IdleHandler EXCEPT
          !.pc = IF kind = "enroll" THEN "lock" ELSE "auth", !.kind = kind,
          !.from = m, !.tok = t, !.cred = s,
          !.asked = IF t \in expired THEN "late" ELSE "intime"])

(* A machine that has its credential uses it, whatever token it also has. *)
BootEnrolled(m) ==
    /\ agent[m].pc = "off" /\ disk[m].cred # Null
    /\ SetAgent(m, [pc |-> "run", cred |-> disk[m].cred, waits |-> Null])
    /\ UNCHANGED <<tokenVars, serverVars, handler, command, disk>>

BootToEnroll(m, h) ==
    /\ agent[m].pc = "off" /\ disk[m].cred = Null /\ disk[m].tok # Null
    /\ Open(h, "enroll", m, disk[m].tok, Null)
    /\ SetAgent(m, [pc |-> "enroll", cred |-> Null, waits |-> h])
    /\ UNCHANGED <<tokenVars, serverVars, command, disk>>

(* SaveCredentials replaces the file in one rename. *)
Saved_Nothing(m) == disk[m]
Saved(m) == [disk[m] EXCEPT !.cred = agent[m].cred]

Save(m) ==
    /\ agent[m].pc = "save"
    /\ disk' = [disk EXCEPT ![m] = Saved(m)]
    /\ SetAgent(m, [agent[m] EXCEPT !.pc = "remove"])
    /\ UNCHANGED <<tokenVars, serverVars, handler, command>>

RemoveToken(m) ==
    /\ agent[m].pc = "remove"
    /\ disk' = [disk EXCEPT ![m].tok = Null]
    /\ SetAgent(m, [agent[m] EXCEPT !.pc = "run"])
    /\ UNCHANGED <<tokenVars, serverVars, handler, command>>

Beat(m, h) ==
    /\ agent[m].pc = "run" /\ agent[m].waits = Null
    /\ Open(h, "heartbeat", m, Null, agent[m].cred)
    /\ SetAgent(m, [agent[m] EXCEPT !.waits = h])
    /\ UNCHANGED <<tokenVars, serverVars, command, disk>>

(* The process is stopped or killed, the machine restarts, or a file       *)
(* cannot be written or removed (save, remove): enroll returns the error   *)
(* and the process exits.                                                  *)
Crash(m) ==
    /\ agent[m].pc # "off"
    /\ SetAgent(m, AgentOff)
    /\ UNCHANGED <<tokenVars, serverVars, handler, command, disk>>

(* No answer within the request timeout: fatal to an enrollment, logged by *)
(* a running agent.                                                        *)
GiveUp(m) ==
    /\ agent[m].waits # Null
    /\ SetAgent(m, IF agent[m].pc = "run" THEN [agent[m] EXCEPT !.waits = Null]
                                          ELSE AgentOff)
    /\ UNCHANGED <<tokenVars, serverVars, handler, command, disk>>

-----------------------------------------------------------------------------
(* noxwatch-agent unregister, and the installation of an agent.            *)

Unregister(m, h) ==
    /\ command[m].pc = "none" /\ disk[m].cred # Null
    /\ Open(h, "unregister", m, Null, disk[m].cred)
    /\ command' = [command EXCEPT ![m] = [pc |-> "asked", waits |-> h]]
    /\ UNCHANGED <<tokenVars, serverVars, agent, disk>>

Forget(m) ==
    /\ command[m].pc = "forget"
    /\ disk' = [disk EXCEPT ![m].cred = Null]
    /\ command' = [command EXCEPT ![m] = NoCommand]
    /\ UNCHANGED <<tokenVars, serverVars, handler, agent>>

(* The command gets no answer, is killed, or cannot remove the file. *)
CommandFails(m) ==
    /\ command[m].pc # "none"
    /\ command' = [command EXCEPT ![m] = NoCommand]
    /\ UNCHANGED <<tokenVars, serverVars, handler, agent, disk>>

(* bootstrap-ssh.sh, or a person, writes an unused token on a machine. *)
Provision(m, t) ==
    /\ tokenRow[t] = "live" /\ t \notin used
    /\ disk' = [disk EXCEPT ![m].tok = t]
    /\ UNCHANGED <<tokenVars, serverVars, handler, agent, command>>

-----------------------------------------------------------------------------
Serve(h) ==
    \/ LockToken(h) \/ RefuseToken(h)
    \/ \E s \in Servers : Exchange(h, s)
    \/ Authenticate(h) \/ WriteHeartbeat(h) \/ WriteUnregister(h)
    \/ Reply(h)

RunAgent(m) ==
    \/ BootEnrolled(m) \/ Save(m) \/ RemoveToken(m)
    \/ \E h \in Handlers : BootToEnroll(m, h)

Operate ==
    \/ \E t \in Tokens : \/ CreateToken(t) \/ RevokeToken(t)
                         \/ \E m \in Machines : Provision(m, t)
    \/ \E s \in Servers : \/ RevokeAgent(s) \/ DeleteServer(s) \/ Disconnect(s)
                          \/ \E on \in BOOLEAN : SetMaintenance(s, on)
    \/ \E m \in Machines, h \in Handlers : Unregister(m, h)

Pass ==
    \/ \E t \in Tokens : Expire(t) \/ PurgeToken(t)
    \/ \E s \in Servers : Age(s)
    \/ MarkOffline

Fault ==
    \/ \E h \in Handlers : Fail(h)
    \/ \E m \in Machines : Crash(m) \/ GiveUp(m) \/ CommandFails(m)

Next ==
    \/ \E h \in Handlers : Serve(h)
    \/ \E m \in Machines : RunAgent(m) \/ Forget(m) \/ \E h \in Handlers : Beat(m, h)
    \/ Operate
    \/ Pass
    \/ Fault

Spec == Init /\ [][Next]_vars

-----------------------------------------------------------------------------
(* A token makes at most one server, although several machines may present *)
(* it at once (service.go:140-167).                                        *)
OneServerPerToken ==
    \A s, z \in Servers : maker[s] # Null /\ maker[s] = maker[z] => s = z

(* A token whose revocation was confirmed never makes a server, however    *)
(* revocation and exchange interleave (service.go:119, 140, 167).          *)
RevokedMakesNothing == \A s \in Servers : maker[s] \notin revoked

(* A running agent survives a restart: the credential it holds in memory   *)
(* is also on its disk, unless it no longer is any use (runner.go:80-90,   *)
(* main.go:62-67).                                                         *)
IdentitySurvives ==
    \A m \in Machines : agent[m].pc = "run" =>
        \/ disk[m].cred = agent[m].cred
        \/ ~Authentic(agent[m].cred)

(* The exchange and the revocation of a token each look instantaneous and  *)
(* happen at most once, as docs/architecture.md:126 promises.              *)
Promise == INSTANCE OneTimeToken WITH
    phase <- [t \in Tokens |-> TokenStatus(t)]
KeepsPromise == Promise!Spec

(* README.md:129: after enrollment the agent removes the token file.  A    *)
(* running agent does not have the token it enrolled with on its disk.     *)
TokenFileRemoved ==
    \A m \in Machines : agent[m].pc = "run" /\ disk[m].tok # Null =>
        disk[m].tok # maker[agent[m].cred]

-----------------------------------------------------------------------------
(* Liveness.  Handlers run to their end, systemd starts an agent that      *)
(* exited, time passes and the monitor ticks.                              *)
Fairness ==
    /\ \A h \in Handlers : WF_vars(Serve(h))
    /\ \A m \in Machines : SF_vars(RunAgent(m))
    /\ \A s \in Servers : WF_vars(Age(s))
    /\ WF_vars(MarkOffline)

FairSpec == Spec /\ Fairness

(* A server whose agent was revoked ends up offline for good, although a   *)
(* request authenticated before the revocation may still write after it    *)
(* (service.go:181-190, metrics/service.go:104-135).                       *)
RevokedGoesDark ==
    \A s \in Servers : s \in banned ~> [](status[s] # "connected")

FaultsCease == <>[][~Fault]_vars

(* An agent has yet to enroll with a token that is good for it. *)
Waiting(m, t) ==
    /\ agent[m].pc \in {"off", "enroll"} /\ disk[m].tok = t /\ disk[m].cred = Null
    /\ Exchangeable(t) /\ t \notin expired

(* Once failures stop, an agent does not wait forever with a good token:   *)
(* it runs, or the token is used, withdrawn or expires (runner.go:22-28).  *)
MachineEnrolls ==
    FaultsCease => \A m \in Machines, t \in Tokens : Waiting(m, t) ~> ~Waiting(m, t)
=============================================================================
