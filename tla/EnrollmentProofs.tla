-------------------------- MODULE EnrollmentProofs --------------------------
(***************************************************************************)
(* Proofs about Enrollment, for any number of tokens, servers, machines    *)
(* and concurrent requests:                                                *)
(*   - the type invariant;                                                 *)
(*   - a token makes at most one server, and none once it was revoked;     *)
(*   - Enrollment implements OneTimeToken;                                 *)
(*   - a running agent has its credential on disk while it is any use.     *)
(***************************************************************************)
EXTENDS Enrollment, TLAPS

-----------------------------------------------------------------------------
(* Types.  A handler at work has what its next statement reads.            *)

HandlerShape(r) ==
    /\ r.pc # "idle" => r.from \in Machines
    /\ r.pc \in {"lock", "exchange"} => r.tok \in Tokens
    /\ r.pc \in {"auth", "write"} => r.cred \in Servers
    /\ r.pc = "reply" /\ r.answer = "ok" => r.cred \in Servers

TypeInv == TypeOK /\ \A h \in Handlers : HandlerShape(handler[h])

(* A handler at rest is well typed. *)
LEMMA IdleTypes == IdleHandler \in HandlerState /\ HandlerShape(IdleHandler)
BY DEF IdleHandler, HandlerState, HandlerShape

(* Replacing the locals of one handler by well typed ones keeps types. *)
LEMMA GotoTypes ==
  ASSUME TypeInv, NEW h \in Handlers, NEW l \in HandlerState, HandlerShape(l), Goto(h, l)
  PROVE  /\ handler' \in [Handlers -> HandlerState]
         /\ \A k \in Handlers : HandlerShape(handler'[k])
BY DEF TypeInv, TypeOK, Goto

(* A handler may go on to answer anything but "ok". *)
LEMMA AnswerTypes ==
  ASSUME TypeInv, NEW h \in Handlers, handler[h].pc # "idle",
         NEW a \in {"ok", "refused", "error"}, a = "ok" => handler[h].cred \in Servers,
         Answer(h, a)
  PROVE  /\ handler' \in [Handlers -> HandlerState]
         /\ \A k \in Handlers : HandlerShape(handler'[k])
<1> DEFINE l == [handler[h] EXCEPT !.pc = "reply", !.answer = a]
<1>0. handler[h] \in HandlerState /\ HandlerShape(handler[h])
  BY DEF TypeInv, TypeOK
<1>1. l \in HandlerState
  BY <1>0 DEF HandlerState
<1>2. HandlerShape(l)
  BY <1>0 DEF HandlerState, HandlerShape
<1>3. Goto(h, l)
  BY DEF Answer
<1> HIDE DEF l
<1>4. QED
  BY <1>1, <1>2, <1>3, GotoTypes

(* A process may open a request for a token or a credential that it has. *)
LEMMA OpenTypes ==
  ASSUME TypeInv, NEW h \in Handlers, NEW m \in Machines,
         NEW kind \in {"enroll", "heartbeat", "unregister"},
         NEW t \in Tokens \cup {Null}, NEW s \in Servers \cup {Null},
         kind = "enroll" => t # Null, kind # "enroll" => s # Null,
         Open(h, kind, m, t, s)
  PROVE  /\ handler' \in [Handlers -> HandlerState]
         /\ \A k \in Handlers : HandlerShape(handler'[k])
<1> DEFINE l == [IdleHandler EXCEPT
                   !.pc = IF kind = "enroll" THEN "lock" ELSE "auth", !.kind = kind,
                   !.from = m, !.tok = t, !.cred = s,
                   !.asked = IF t \in expired THEN "late" ELSE "intime"]
<1>1. l \in HandlerState
  BY DEF IdleHandler, HandlerState
<1>2. HandlerShape(l)
  BY DEF IdleHandler, HandlerShape
<1>3. Goto(h, l)
  BY DEF Open
<1> HIDE DEF l
<1>4. QED
  BY <1>1, <1>2, <1>3, GotoTypes

(* The type invariant is kept by every step of a request handler. *)
LEMMA ServeTypes ==
  ASSUME TypeInv, NEW h \in Handlers, Serve(h) \/ Fail(h)
  PROVE  TypeInv'
<1> USE DEF TypeInv
<1>0. handler[h] \in HandlerState /\ HandlerShape(handler[h])
  BY DEF TypeOK
<1>1. CASE LockToken(h)
  <2> DEFINE l == [handler[h] EXCEPT !.pc = "exchange"]
  <2>1. l \in HandlerState /\ HandlerShape(l)
    BY <1>0, <1>1 DEF LockToken, HandlerState, HandlerShape
  <2>2. Goto(h, l)
    BY <1>1 DEF LockToken
  <2> HIDE DEF l
  <2>3. QED
    BY <1>1, <2>1, <2>2, GotoTypes DEF LockToken, TypeOK, tokenVars, serverVars, machineVars
<1>2. CASE RefuseToken(h)
  BY <1>2, AnswerTypes DEF RefuseToken, TypeOK, tokenVars, serverVars, machineVars
<1>3. ASSUME NEW s \in Servers, Exchange(h, s)
      PROVE  TypeInv'
  <2> DEFINE l == [handler[h] EXCEPT !.pc = "reply", !.answer = "ok", !.cred = s]
  <2>1. l \in HandlerState /\ HandlerShape(l)
    BY <1>0, <1>3 DEF Exchange, HandlerState, HandlerShape
  <2>2. Goto(h, l)
    BY <1>3 DEF Exchange
  <2> HIDE DEF l
  <2>3. handler[h].tok \in Tokens /\ handler[h].from \in Machines
    BY <1>0, <1>3 DEF Exchange, HandlerShape
  <2>4. maker' \in [Servers -> Tokens \cup {Null}] /\ host' \in [Servers -> Machines \cup {Null}]
    BY <1>3, <2>3 DEF Exchange, TypeOK
  <2>5. serverRow' \in [Servers -> RowStates] /\ used' \subseteq Tokens
    BY <1>3, <2>3 DEF Exchange, TypeOK, RowStates
  <2>6. QED
    BY <1>3, <2>1, <2>2, <2>4, <2>5, GotoTypes DEF Exchange, TypeOK, machineVars
<1>4. CASE Authenticate(h)
  <2>1. CASE Authentic(handler[h].cred)
    <3> DEFINE l == [handler[h] EXCEPT !.pc = "write"]
    <3>1. l \in HandlerState /\ HandlerShape(l)
      BY <1>0, <1>4 DEF Authenticate, HandlerState, HandlerShape
    <3>2. Goto(h, l)
      BY <1>4, <2>1 DEF Authenticate
    <3> HIDE DEF l
    <3>3. QED
      BY <1>4, <3>1, <3>2, GotoTypes DEF Authenticate, TypeOK, tokenVars, serverVars, machineVars
  <2>2. CASE ~Authentic(handler[h].cred)
    BY <1>4, <2>2, AnswerTypes DEF Authenticate, TypeOK, tokenVars, serverVars, machineVars
  <2>3. QED
    BY <2>1, <2>2
<1>5. CASE WriteHeartbeat(h)
  <2>1. handler[h].cred \in Servers
    BY <1>0, <1>5 DEF WriteHeartbeat, HandlerShape
  <2>2. /\ handler' \in [Handlers -> HandlerState]
        /\ \A k \in Handlers : HandlerShape(handler'[k])
    BY <1>5, <2>1, AnswerTypes DEF WriteHeartbeat
  <2>3. status' \in [Servers -> Statuses] /\ seen' \in [Servers -> {"never", "recent", "old"}]
    BY <1>5, <2>1 DEF WriteHeartbeat, TypeOK, Statuses
  <2>4. QED
    BY <1>5, <2>2, <2>3 DEF WriteHeartbeat, TypeOK, tokenVars, machineVars
<1>6. CASE WriteUnregister(h)
  <2>1. handler[h].cred \in Servers
    BY <1>0, <1>6 DEF WriteUnregister, HandlerShape
  <2>2. /\ handler' \in [Handlers -> HandlerState]
        /\ \A k \in Handlers : HandlerShape(handler'[k])
    BY <1>6, <2>1, AnswerTypes DEF WriteUnregister
  <2>3. status' \in [Servers -> Statuses] /\ banned' \subseteq Servers
    BY <1>6, <2>1 DEF WriteUnregister, TypeOK, Statuses
  <2>4. QED
    BY <1>6, <2>2, <2>3 DEF WriteUnregister, TypeOK, tokenVars, machineVars
<1>7. CASE Reply(h)
  <2> DEFINE r == handler[h]
             m == r.from
  <2>1. m \in Machines /\ (r.answer = "ok" => r.cred \in Servers)
    BY <1>0, <1>7 DEF Reply, HandlerShape
  <2>2. /\ handler' \in [Handlers -> HandlerState]
        /\ \A k \in Handlers : HandlerShape(handler'[k])
    BY <1>7, IdleTypes, GotoTypes DEF Reply
  <2>3. /\ AfterAnswer(agent[m], r) \in AgentState
        /\ AfterAnswer(agent[m], r).pc \in {"save", "remove", "run"}
              => AfterAnswer(agent[m], r).cred # Null
    <3>1. agent[m] \in AgentState
          /\ (agent[m].pc \in {"save", "remove", "run"} => agent[m].cred # Null)
      BY <2>1 DEF TypeOK
    <3>2. r.answer = "ok" => r.cred # Null
      BY <2>1, NullAssumption
    <3>3. CASE agent[m].pc = "run"
      BY <3>1, <3>3 DEF AfterAnswer, AgentState
    <3>4. CASE agent[m].pc # "run" /\ r.answer = "ok"
      BY <2>1, <3>2, <3>4 DEF AfterAnswer, AgentState
    <3>5. CASE agent[m].pc # "run" /\ r.answer # "ok"
      BY <3>5 DEF AfterAnswer, AgentState, AgentOff
    <3>6. QED
      BY <3>3, <3>4, <3>5
  <2>4. /\ agent' \in [Machines -> AgentState]
        /\ \A k \in Machines : agent'[k].pc \in {"save", "remove", "run"} => agent'[k].cred # Null
    BY <1>7, <2>1, <2>3 DEF TypeOK, Reply
  <2>5. command' \in [Machines -> CommandState]
    BY <1>7, <2>1 DEF TypeOK, Reply, CommandState, NoCommand
  <2>6. QED
    BY <1>7, <2>2, <2>4, <2>5 DEF Reply, TypeOK, tokenVars, serverVars
<1>8. CASE Fail(h)
  BY <1>8, AnswerTypes DEF Fail, TypeOK, tokenVars, serverVars, machineVars
<1>9. QED
  BY <1>1, <1>2, <1>3, <1>4, <1>5, <1>6, <1>7, <1>8 DEF Serve

(* The type invariant is kept by every step of an agent or a command. *)
LEMMA MachineTypes ==
  ASSUME TypeInv, NEW m \in Machines,
         \/ RunAgent(m) \/ Forget(m) \/ \E h \in Handlers : Beat(m, h) \/ Unregister(m, h)
         \/ Crash(m) \/ GiveUp(m) \/ CommandFails(m)
         \/ \E t \in Tokens : Provision(m, t)
  PROVE  TypeInv'
<1> USE DEF TypeInv
<1>0. /\ agent[m] \in AgentState /\ disk[m] \in DiskState /\ command[m] \in CommandState
      /\ agent[m].pc \in {"save", "remove", "run"} => agent[m].cred # Null
  BY DEF TypeOK
<1>1. CASE BootEnrolled(m)
  <2>1. disk[m].cred \in Servers
    BY <1>0, <1>1 DEF BootEnrolled, DiskState
  <2>2. QED
    BY <1>1, <2>1 DEF BootEnrolled, SetAgent, TypeOK, AgentState, tokenVars, serverVars
<1>2. ASSUME NEW h \in Handlers, BootToEnroll(m, h)
      PROVE  TypeInv'
  <2>1. disk[m].tok \in Tokens
    BY <1>0, <1>2 DEF BootToEnroll, DiskState
  <2>2. /\ handler' \in [Handlers -> HandlerState]
        /\ \A k \in Handlers : HandlerShape(handler'[k])
    BY <1>2, <2>1, OpenTypes, NullAssumption DEF BootToEnroll
  <2>3. QED
    BY <1>2, <2>2 DEF BootToEnroll, SetAgent, TypeOK, AgentState, tokenVars, serverVars
<1>3. CASE Save(m)
  <2>1. Saved(m) \in DiskState
    BY <1>0 DEF Saved, DiskState, AgentState
  <2>2. [agent[m] EXCEPT !.pc = "remove"] \in AgentState
    BY <1>0 DEF AgentState
  <2>3. QED
    BY <1>0, <1>3, <2>1, <2>2 DEF Save, SetAgent, TypeOK, tokenVars, serverVars
<1>4. CASE RemoveToken(m)
  <2>1. [agent[m] EXCEPT !.pc = "run"] \in AgentState
    BY <1>0 DEF AgentState
  <2>2. disk' \in [Machines -> DiskState]
    BY <1>4 DEF RemoveToken, TypeOK, DiskState
  <2>3. QED
    BY <1>0, <1>4, <2>1, <2>2 DEF RemoveToken, SetAgent, TypeOK, tokenVars, serverVars
<1>5. ASSUME NEW h \in Handlers, Beat(m, h)
      PROVE  TypeInv'
  <2>1. agent[m].cred \in Servers
    BY <1>0, <1>5 DEF Beat, AgentState
  <2>2. /\ handler' \in [Handlers -> HandlerState]
        /\ \A k \in Handlers : HandlerShape(handler'[k])
    BY <1>5, <2>1, OpenTypes, NullAssumption DEF Beat
  <2>3. [agent[m] EXCEPT !.waits = h] \in AgentState
    BY <1>0 DEF AgentState
  <2>4. QED
    BY <1>0, <1>5, <2>2, <2>3 DEF Beat, SetAgent, TypeOK, tokenVars, serverVars
<1>6. CASE Crash(m)
  BY <1>6 DEF Crash, SetAgent, TypeOK, AgentState, AgentOff, tokenVars, serverVars
<1>7. CASE GiveUp(m)
  <2>1. [agent[m] EXCEPT !.waits = Null] \in AgentState /\ AgentOff \in AgentState
    BY <1>0 DEF AgentState, AgentOff
  <2>2. QED
    BY <1>0, <1>7, <2>1 DEF GiveUp, SetAgent, TypeOK, AgentOff, tokenVars, serverVars
<1>8. ASSUME NEW h \in Handlers, Unregister(m, h)
      PROVE  TypeInv'
  <2>1. disk[m].cred \in Servers
    BY <1>0, <1>8 DEF Unregister, DiskState
  <2>2. /\ handler' \in [Handlers -> HandlerState]
        /\ \A k \in Handlers : HandlerShape(handler'[k])
    BY <1>8, <2>1, OpenTypes, NullAssumption DEF Unregister
  <2>3. QED
    BY <1>8, <2>2 DEF Unregister, TypeOK, CommandState, tokenVars, serverVars
<1>9. CASE Forget(m)
  BY <1>9 DEF Forget, TypeOK, DiskState, CommandState, NoCommand, tokenVars, serverVars
<1>10. CASE CommandFails(m)
  BY <1>10 DEF CommandFails, TypeOK, CommandState, NoCommand, tokenVars, serverVars
<1>11. ASSUME NEW t \in Tokens, Provision(m, t)
      PROVE  TypeInv'
  BY <1>11 DEF Provision, TypeOK, DiskState, tokenVars, serverVars
<1>12. QED
  BY <1>1, <1>2, <1>3, <1>4, <1>5, <1>6, <1>7, <1>8, <1>9, <1>10, <1>11 DEF RunAgent

(* The type invariant is kept by what users, operators, retention, the     *)
(* monitor and time do to tokens and servers.                              *)
LEMMA RowTypes ==
  ASSUME TypeInv,
         \/ \E t \in Tokens : CreateToken(t) \/ RevokeToken(t) \/ Expire(t) \/ PurgeToken(t)
         \/ \E s \in Servers : \/ RevokeAgent(s) \/ DeleteServer(s) \/ Disconnect(s) \/ Age(s)
                              \/ \E on \in BOOLEAN : SetMaintenance(s, on)
         \/ MarkOffline
  PROVE  TypeInv'
<1> USE DEF TypeInv
<1>1. ASSUME NEW t \in Tokens, CreateToken(t) \/ RevokeToken(t) \/ Expire(t) \/ PurgeToken(t)
      PROVE  TypeInv'
  BY <1>1 DEF CreateToken, RevokeToken, Expire, PurgeToken, TypeOK, RowStates, serverVars, machineVars
<1>2. ASSUME NEW s \in Servers, RevokeAgent(s) \/ DeleteServer(s) \/ Disconnect(s) \/ Age(s)
      PROVE  TypeInv'
  BY <1>2 DEF RevokeAgent, DeleteServer, Disconnect, Age, TypeOK, RowStates, Statuses,
              tokenVars, machineVars
<1>3. ASSUME NEW s \in Servers, NEW on \in BOOLEAN, SetMaintenance(s, on)
      PROVE  TypeInv'
  BY <1>3 DEF SetMaintenance, TypeOK, Statuses, tokenVars, machineVars
<1>4. CASE MarkOffline
  BY <1>4 DEF MarkOffline, TypeOK, Statuses, tokenVars, machineVars
<1>5. QED
  BY <1>1, <1>2, <1>3, <1>4

(* Hence by every step. *)
LEMMA NextTypes == TypeInv /\ [Next]_vars => TypeInv'
<1> SUFFICES ASSUME TypeInv, [Next]_vars PROVE TypeInv'
  OBVIOUS
<1>1. CASE Next
  BY <1>1, ServeTypes, MachineTypes, RowTypes DEF Next, Operate, Pass, Fault
<1>2. CASE UNCHANGED vars
  BY <1>2 DEF vars, tokenVars, serverVars, machineVars, TypeInv, TypeOK
<1>3. QED
  BY <1>1, <1>2

(* The type invariant by itself, for the proofs below. *)
LEMMA TypesHold == Spec => []TypeInv
<1>1. Init => TypeInv
  BY IdleTypes DEF Init, TypeInv, TypeOK, RowStates, Statuses, AgentState, AgentOff,
                   CommandState, NoCommand, DiskState
<1>2. TypeInv /\ [Next]_vars => TypeInv'
  BY NextTypes
<1>3. QED
  BY <1>1, <1>2, PTL DEF Spec

(* Every state is well typed: in particular a running agent always has a   *)
(* credential, whatever request its answer came from.                      *)
THEOREM TypeCorrect == Spec => []TypeOK
<1>1. TypeInv => TypeOK
  BY DEF TypeInv
<1>2. QED
  BY <1>1, TypesHold, PTL

-----------------------------------------------------------------------------
(* One server per token.  The invariant says what holding the row of a     *)
(* token means: while a handler is between SELECT ... FOR UPDATE and its   *)
(* commit, no other one is and nothing happens to the token.               *)

Exchanging(h) == handler[h].pc = "exchange"

LockInv ==
    /\ \A h \in Handlers : Exchanging(h) =>
            tokenRow[handler[h].tok] = "live" /\ handler[h].tok \notin used \cup revoked
    /\ \A h, k \in Handlers :
            Exchanging(h) /\ Exchanging(k) /\ handler[h].tok = handler[k].tok => h = k

UnbornInv ==
    /\ \A t \in Tokens : tokenRow[t] = "new" => t \notin used \cup revoked \cup expired
    /\ \A s \in Servers : serverRow[s] = "new" => maker[s] = Null

MakerInv ==
    /\ \A s \in Servers : maker[s] # Null => maker[s] \in used
    /\ used \cap revoked = {}
    /\ OneServerPerToken

TokenInv == LockInv /\ UnbornInv /\ MakerInv

TokenUntouched == UNCHANGED <<tokenVars, maker>>

(* Handlers that start to hold no row, and servers that come into being    *)
(* only by an exchange, leave the invariant alone.                         *)
LEMMA TokenFrame ==
  ASSUME TypeInv, TokenInv, TokenUntouched,
         \A s \in Servers : serverRow'[s] = "new" => serverRow[s] = "new",
         \A h \in Handlers : Exchanging(h)' => handler'[h] = handler[h]
  PROVE  TokenInv'
BY DEF TokenInv, LockInv, UnbornInv, MakerInv, OneServerPerToken, TokenUntouched, tokenVars, Exchanging

(* What a handler does other than lock a row or commit an exchange. *)
LEMMA QuietHandler ==
  ASSUME TypeInv, NEW h \in Handlers, NEW l, l.pc # "exchange", Goto(h, l)
  PROVE  \A k \in Handlers : Exchanging(k)' => handler'[k] = handler[k]
BY DEF TypeInv, TypeOK, Goto, Exchanging

(* TokenInv is kept by every step of a request handler. *)
LEMMA ServeToken ==
  ASSUME TypeInv, TokenInv, NEW h \in Handlers, Serve(h) \/ Fail(h)
  PROVE  TokenInv'
<1>0. handler[h] \in HandlerState /\ HandlerShape(handler[h])
  BY DEF TypeInv, TypeOK
<1>1. CASE LockToken(h)
  <2>1. handler' = [handler EXCEPT ![h] = [handler[h] EXCEPT !.pc = "exchange"]]
    BY <1>1 DEF LockToken, Goto
  <2>2. \A k \in Handlers : /\ Exchanging(k)' => Exchanging(k) \/ k = h
                           /\ handler'[k].tok = handler[k].tok
    BY <1>0, <2>1 DEF Exchanging, TypeInv, TypeOK, HandlerState
  <2>3. LockInv'
    BY <1>1, <2>2 DEF LockToken, TokenInv, LockInv, RowFree, Exchangeable, Exchanging, tokenVars
  <2>4. QED
    BY <1>1, <2>3 DEF LockToken, TokenInv, UnbornInv, MakerInv, OneServerPerToken, tokenVars, serverVars
<1>2. ASSUME NEW s \in Servers, Exchange(h, s)
      PROVE  TokenInv'
  <2> DEFINE t == handler[h].tok
  <2>1. t \in Tokens /\ tokenRow[t] = "live" /\ t \notin used \cup revoked /\ maker[s] = Null
    BY <1>0, <1>2 DEF Exchange, HandlerShape, TokenInv, LockInv, UnbornInv, Exchanging
  <2>2. \A k \in Handlers : Exchanging(k)' => k # h /\ handler'[k] = handler[k]
    BY <1>0, <1>2 DEF Exchange, Goto, Exchanging, TypeInv, TypeOK, HandlerState
  <2>3. LockInv'
    BY <1>2, <2>1, <2>2 DEF Exchange, TokenInv, LockInv, Exchanging
  <2>4. UnbornInv'
    BY <1>2, <2>1 DEF Exchange, TokenInv, UnbornInv, TypeInv, TypeOK
  <2>5. maker' = [maker EXCEPT ![s] = t] /\ used' = used \cup {t} /\ revoked' = revoked
    BY <1>2 DEF Exchange
  <2>6. \A z \in Servers : maker[z] # t
    BY <2>1, NullAssumption DEF TokenInv, MakerInv
  <2>7. MakerInv'
    BY <2>1, <2>5, <2>6 DEF TokenInv, MakerInv, OneServerPerToken, TypeInv, TypeOK
  <2>8. QED
    BY <2>3, <2>4, <2>7 DEF TokenInv
<1>3. CASE RefuseToken(h) \/ WriteHeartbeat(h) \/ WriteUnregister(h) \/ Fail(h)
  <2>1. PICK a \in {"ok", "refused", "error"} : Answer(h, a)
    BY <1>3 DEF RefuseToken, WriteHeartbeat, WriteUnregister, Fail
  <2>2. \A k \in Handlers : Exchanging(k)' => handler'[k] = handler[k]
    BY <1>0, <2>1, QuietHandler DEF Answer, HandlerState
  <2>3. QED
    BY <1>3, <2>2, TokenFrame DEF RefuseToken, WriteHeartbeat, WriteUnregister, Fail, TokenUntouched,
                                  tokenVars, serverVars
<1>4. CASE Authenticate(h)
  <2>1. \A k \in Handlers : Exchanging(k)' => handler'[k] = handler[k]
    BY <1>0, <1>4, QuietHandler DEF Authenticate, Answer, HandlerState
  <2>2. QED
    BY <1>4, <2>1, TokenFrame DEF Authenticate, TokenUntouched, tokenVars, serverVars
<1>5. CASE Reply(h)
  <2>1. \A k \in Handlers : Exchanging(k)' => handler'[k] = handler[k]
    BY <1>5, QuietHandler DEF Reply, IdleHandler
  <2>2. QED
    BY <1>5, <2>1, TokenFrame DEF Reply, TokenUntouched, tokenVars, serverVars
<1>6. QED
  BY <1>1, <1>2, <1>3, <1>4, <1>5 DEF Serve

(* TokenInv is kept by every step of an agent or a command. *)
LEMMA MachineToken ==
  ASSUME TypeInv, TokenInv, NEW m \in Machines,
         \/ RunAgent(m) \/ Forget(m) \/ \E h \in Handlers : Beat(m, h) \/ Unregister(m, h)
         \/ Crash(m) \/ GiveUp(m) \/ CommandFails(m)
         \/ \E t \in Tokens : Provision(m, t)
  PROVE  TokenInv'
<1>1. ASSUME NEW h \in Handlers, BootToEnroll(m, h) \/ Beat(m, h) \/ Unregister(m, h)
      PROVE  TokenInv'
  <2>1. PICK kind, t, s : Open(h, kind, m, t, s)
    BY <1>1 DEF BootToEnroll, Beat, Unregister
  <2>2. \A k \in Handlers : Exchanging(k)' => handler'[k] = handler[k]
    BY <2>1, QuietHandler DEF Open, IdleHandler
  <2>3. QED
    BY <1>1, <2>2, TokenFrame DEF BootToEnroll, Beat, Unregister, TokenUntouched, tokenVars, serverVars
<1>2. CASE \/ BootEnrolled(m) \/ Save(m) \/ RemoveToken(m) \/ Forget(m)
           \/ Crash(m) \/ GiveUp(m) \/ CommandFails(m) \/ \E t \in Tokens : Provision(m, t)
  BY <1>2, TokenFrame DEF BootEnrolled, Save, RemoveToken, Forget, Crash, GiveUp, CommandFails,
                          Provision, TokenUntouched, tokenVars, serverVars
<1>3. QED
  BY <1>1, <1>2 DEF RunAgent

(* TokenInv is kept by what happens to rows: the UPDATE of RevokeToken and *)
(* the DELETE of retention wait for a handler that holds the row.          *)
LEMMA RowToken ==
  ASSUME TypeInv, TokenInv,
         \/ \E t \in Tokens : CreateToken(t) \/ RevokeToken(t) \/ Expire(t) \/ PurgeToken(t)
         \/ \E s \in Servers : \/ RevokeAgent(s) \/ DeleteServer(s) \/ Disconnect(s) \/ Age(s)
                              \/ \E on \in BOOLEAN : SetMaintenance(s, on)
         \/ MarkOffline
  PROVE  TokenInv'
<1>1. ASSUME NEW t \in Tokens, CreateToken(t) \/ RevokeToken(t) \/ Expire(t) \/ PurgeToken(t)
      PROVE  TokenInv'
  <2>1. UNCHANGED <<handler, maker, used, serverRow>>
    BY <1>1 DEF CreateToken, RevokeToken, Expire, PurgeToken, serverVars
  <2>2. RowFree(t) \/ (UNCHANGED revoked /\ \A u \in Tokens : tokenRow[u] = "live" => tokenRow'[u] = "live")
    BY <1>1 DEF CreateToken, RevokeToken, Expire, PurgeToken, TypeInv, TypeOK
  <2>3. \A u \in Tokens : u # t => tokenRow'[u] = tokenRow[u] /\ (u \in revoked' <=> u \in revoked)
                                  /\ (u \in expired' <=> u \in expired)
    BY <1>1 DEF CreateToken, RevokeToken, Expire, PurgeToken, TypeInv, TypeOK
  <2>4. \A h \in Handlers : Exchanging(h) => handler[h].tok \in Tokens
    BY DEF Exchanging, TypeInv, HandlerShape
  <2>5. LockInv'
    BY <2>1, <2>2, <2>3, <2>4 DEF TokenInv, LockInv, RowFree, Exchanging
  <2>6. UnbornInv'
    BY <1>1, <2>1, <2>3 DEF CreateToken, RevokeToken, Revocable, Expire, PurgeToken, TokenInv, UnbornInv,
                            TypeInv, TypeOK
  <2>7. MakerInv'
    BY <1>1, <2>1 DEF CreateToken, RevokeToken, Revocable, Expire, PurgeToken, TokenInv, MakerInv,
                      OneServerPerToken
  <2>8. QED
    BY <2>5, <2>6, <2>7 DEF TokenInv
<1>2. ASSUME NEW s \in Servers, RevokeAgent(s) \/ DeleteServer(s) \/ Disconnect(s) \/ Age(s)
      PROVE  TokenInv'
  BY <1>2, TokenFrame DEF RevokeAgent, DeleteServer, Disconnect, Age, TokenUntouched, TypeInv, TypeOK
<1>3. ASSUME NEW s \in Servers, NEW on \in BOOLEAN, SetMaintenance(s, on)
      PROVE  TokenInv'
  BY <1>3, TokenFrame DEF SetMaintenance, TokenUntouched
<1>4. CASE MarkOffline
  BY <1>4, TokenFrame DEF MarkOffline, TokenUntouched
<1>5. QED
  BY <1>1, <1>2, <1>3, <1>4

(* TokenInv holds in every state. *)
LEMMA TokensHold == Spec => []TokenInv
<1>1. Init => TokenInv
  BY DEF Init, TokenInv, LockInv, UnbornInv, MakerInv, OneServerPerToken, Exchanging, IdleHandler
<1>2. TypeInv /\ TokenInv /\ [Next]_vars => TokenInv'
  <2> SUFFICES ASSUME TypeInv, TokenInv, [Next]_vars PROVE TokenInv'
    OBVIOUS
  <2>1. CASE Next
    BY <2>1, ServeToken, MachineToken, RowToken DEF Next, Operate, Pass, Fault
  <2>2. CASE UNCHANGED vars
    BY <2>2, TokenFrame DEF vars, TokenUntouched, serverVars
  <2>3. QED
    BY <2>1, <2>2
<1>3. QED
  BY <1>1, <1>2, TypesHold, PTL DEF Spec

(* However many machines present a token at once, and whenever their       *)
(* requests fail, one of them at most gets a server for it.                *)
THEOREM OneServer == Spec => []OneServerPerToken
<1>1. TokenInv => OneServerPerToken
  BY DEF TokenInv, MakerInv
<1>2. QED
  BY <1>1, TokensHold, PTL

(* A token whose revocation succeeded makes no server, before or after. *)
THEOREM RevocationHolds == Spec => []RevokedMakesNothing
<1>1. TypeInv /\ TokenInv => RevokedMakesNothing
  BY NullAssumption DEF TypeInv, TypeOK, TokenInv, MakerInv, RevokedMakesNothing
<1>2. QED
  BY <1>1, TypesHold, TokensHold, PTL

-----------------------------------------------------------------------------
(* Refinement.  A step either leaves what a token shows to its owner as it *)
(* was, or is one step of OneTimeToken.                                    *)

(* A step on the row of token t shows in the abstract state at t only. *)
LEMMA StatusFrame ==
  ASSUME NEW t \in Tokens, NEW p, TokenStatus(t)' = p,
         \A u \in Tokens : u # t => TokenStatus(u)' = TokenStatus(u)
  PROVE  Promise!Become(t, p)
BY DEF Promise!Become

(* Steps that write no column of a token and enroll no server stutter. *)
LEMMA StatusStutter ==
  ASSUME TokenUntouched
  PROVE  UNCHANGED Promise!vars
<1>1. \A t : TokenStatus(t)' = TokenStatus(t)
  BY DEF TokenUntouched, tokenVars, TokenStatus
<1>2. QED
  BY <1>1 DEF Promise!vars, TokenUntouched

(* A step that may change the columns of token t alone. *)
LEMMA StatusOthers ==
  ASSUME TypeInv, NEW t \in Tokens,
         CreateToken(t) \/ RevokeToken(t) \/ Expire(t) \/ PurgeToken(t)
  PROVE  \A u \in Tokens : u # t => TokenStatus(u)' = TokenStatus(u)
BY DEF CreateToken, RevokeToken, Expire, PurgeToken, TokenStatus, TypeInv, TypeOK

(* Users, time and retention move a token as OneTimeToken lets them. *)
LEMMA RowRefines ==
  ASSUME TypeInv, TokenInv, NEW t \in Tokens,
         CreateToken(t) \/ RevokeToken(t) \/ Expire(t) \/ PurgeToken(t)
  PROVE  [Promise!Next]_(Promise!vars)
<1>0. UNCHANGED maker /\ Promise!Become(t, TokenStatus(t)')
  BY StatusFrame, StatusOthers DEF CreateToken, RevokeToken, Expire, PurgeToken, serverVars
<1>1. CASE CreateToken(t)
  <2>1. TokenStatus(t) = "none" /\ TokenStatus(t)' = "pending"
    BY <1>1 DEF CreateToken, TokenStatus, TypeInv, TypeOK, TokenInv, UnbornInv
  <2>2. Promise!Issue(t)
    BY <1>0, <2>1 DEF Promise!Issue
  <2>3. QED
    BY <2>2 DEF Promise!Next
<1>2. CASE RevokeToken(t)
  <2>1. TokenStatus(t) \in {"pending", "expired"} /\ TokenStatus(t)' = "revoked"
    BY <1>2 DEF RevokeToken, Revocable, TokenStatus
  <2>2. Promise!Revoke(t)
    BY <1>0, <2>1 DEF Promise!Revoke
  <2>3. QED
    BY <2>2 DEF Promise!Next
<1>3. CASE Expire(t) /\ t \in used \cup revoked
  <2>1. \A u \in Tokens : TokenStatus(u)' = TokenStatus(u)
    BY <1>3, StatusOthers DEF Expire, TokenStatus
  <2>2. UNCHANGED Promise!vars
    BY <1>0, <2>1 DEF Promise!vars
  <2>3. QED
    BY <2>2
<1>4. CASE Expire(t) /\ t \notin used \cup revoked
  <2>1. TokenStatus(t) = "pending" /\ TokenStatus(t)' = "expired"
    BY <1>4 DEF Expire, TokenStatus
  <2>2. Promise!Expire(t)
    BY <1>0, <2>1 DEF Promise!Expire
  <2>3. QED
    BY <2>2 DEF Promise!Next
<1>5. CASE PurgeToken(t)
  <2>1. TokenStatus(t) \in {"expired", "connected", "revoked"} /\ TokenStatus(t)' = "purged"
    BY <1>5 DEF PurgeToken, TokenStatus, TypeInv, TypeOK
  <2>2. Promise!Purge(t)
    BY <1>0, <2>1 DEF Promise!Purge
  <2>3. QED
    BY <2>2 DEF Promise!Next
<1>6. QED
  BY <1>1, <1>2, <1>3, <1>4, <1>5

(* The commit of an exchange is the moment a token becomes connected. *)
LEMMA ExchangeRefines ==
  ASSUME TypeInv, TokenInv, NEW h \in Handlers, NEW s \in Servers, Exchange(h, s)
  PROVE  Promise!Next
<1> DEFINE t == handler[h].tok
<1>1. t \in Tokens /\ tokenRow[t] = "live" /\ t \notin used \cup revoked /\ maker[s] = Null
  BY DEF Exchange, TypeInv, HandlerShape, TokenInv, LockInv, UnbornInv, Exchanging
<1>2. TokenStatus(t) \in {"pending", "expired"}
  BY <1>1 DEF TokenStatus
<1> HIDE DEF t
<1>3. /\ used' = used \cup {t} /\ UNCHANGED <<tokenRow, expired, revoked>>
      /\ maker' = [maker EXCEPT ![s] = t]
  BY DEF Exchange, t
<1>4. \A u \in Tokens : TokenStatus(u)' = IF u = t THEN "connected" ELSE TokenStatus(u)
  BY <1>1, <1>3 DEF TokenStatus
<1>5. Promise!Become(t, "connected")
  BY <1>1, <1>4 DEF Promise!Become
<1>6. Promise!Connect(t, s)
  BY <1>1, <1>2, <1>3, <1>5 DEF Promise!Connect
<1>7. QED
  BY <1>1, <1>6 DEF Promise!Next

(* Every other step leaves the abstract state alone. *)
LEMMA OthersRefine ==
  ASSUME TypeInv, Next
  PROVE  \/ TokenUntouched
         \/ \E h \in Handlers, s \in Servers : Exchange(h, s)
         \/ \E t \in Tokens : CreateToken(t) \/ RevokeToken(t) \/ Expire(t) \/ PurgeToken(t)
<1>1. ASSUME NEW h \in Handlers, Serve(h) \/ Fail(h)
      PROVE  TokenUntouched \/ \E s \in Servers : Exchange(h, s)
  BY <1>1 DEF Serve, LockToken, RefuseToken, Authenticate, WriteHeartbeat, WriteUnregister, Reply, Fail,
              TokenUntouched, serverVars
<1>2. ASSUME NEW m \in Machines,
             \/ RunAgent(m) \/ Forget(m) \/ \E h \in Handlers : Beat(m, h) \/ Unregister(m, h)
             \/ Crash(m) \/ GiveUp(m) \/ CommandFails(m)
             \/ \E t \in Tokens : Provision(m, t)
      PROVE  TokenUntouched
  BY <1>2 DEF RunAgent, BootEnrolled, BootToEnroll, Save, RemoveToken, Forget, Beat, Unregister, Crash,
              GiveUp, CommandFails, Provision, TokenUntouched, serverVars
<1>3. ASSUME \/ \E s \in Servers : \/ RevokeAgent(s) \/ DeleteServer(s) \/ Disconnect(s) \/ Age(s)
                                  \/ \E on \in BOOLEAN : SetMaintenance(s, on)
             \/ MarkOffline
      PROVE  TokenUntouched
  BY <1>3 DEF RevokeAgent, DeleteServer, Disconnect, Age, SetMaintenance, MarkOffline, TokenUntouched
<1>4. QED
  BY <1>1, <1>2, <1>3 DEF Next, Operate, Pass, Fault

(* Enrollment keeps the promise of OneTimeToken: as far as the owner of a  *)
(* token can tell, exchange and revocation are instantaneous and exclude   *)
(* each other.                                                             *)
THEOREM Refines == Spec => KeepsPromise
<1>1. Init => Promise!Init
  BY DEF Init, Promise!Init, TokenStatus
<1>2. TypeInv /\ TokenInv /\ [Next]_vars => [Promise!Next]_(Promise!vars)
  <2> SUFFICES ASSUME TypeInv, TokenInv, [Next]_vars
               PROVE  [Promise!Next]_(Promise!vars)
    OBVIOUS
  <2>1. CASE Next
    BY <2>1, OthersRefine, StatusStutter, ExchangeRefines, RowRefines
  <2>2. CASE UNCHANGED vars
    BY <2>2, StatusStutter DEF vars, serverVars, TokenUntouched
  <2>3. QED
    BY <2>1, <2>2
<1>3. QED
  BY <1>1, <1>2, TypesHold, TokensHold, PTL DEF Spec, KeepsPromise, Promise!Spec

-----------------------------------------------------------------------------
(* The identity of a machine.  A credential, wherever it is, belongs to a  *)
(* server that was enrolled; a machine that enrolls has none on its disk;  *)
(* and an unregister command waits for the request that it made, for the   *)
(* very credential it will remove.                                         *)

HandlerInv(h) ==
    LET r == handler[h]
    IN  /\ r.pc \in {"lock", "exchange"} => r.kind = "enroll"
        /\ r.cred # Null => serverRow[r.cred] # "new"
        /\ r.pc = "reply" /\ r.kind = "unregister" /\ r.answer = "ok" => ~Authentic(r.cred)

AgentInv(m) ==
    LET a == agent[m]
        d == disk[m]
    IN  /\ a.cred # Null => serverRow[a.cred] # "new"
        /\ d.cred # Null => serverRow[d.cred] # "new"
        /\ a.waits # Null => a.pc \in {"enroll", "run"}
        /\ a.pc \in {"enroll", "save"} => d.cred = Null
        /\ a.pc \in {"remove", "run"} => d.cred = a.cred \/ ~Authentic(a.cred)

CommandInv(m) ==
    LET c == command[m]
        d == disk[m]
    IN  /\ c.pc = "asked" =>
              /\ d.cred # Null /\ c.waits \in Handlers
              /\ handler[c.waits].pc # "idle" /\ handler[c.waits].kind = "unregister"
              /\ handler[c.waits].from = m /\ handler[c.waits].cred = d.cred
        /\ c.pc # "asked" => c.waits = Null
        /\ c.pc = "forget" => d.cred # Null /\ ~Authentic(d.cred)

IdentityInv ==
    /\ \A h \in Handlers : HandlerInv(h)
    /\ \A m \in Machines : AgentInv(m) /\ CommandInv(m)

(* What no step does to a server that was enrolled: make it new again, or  *)
(* make a dead credential good.                                            *)
Lasting ==
    \A s \in Servers : serverRow[s] # "new" =>
        /\ serverRow'[s] # "new"
        /\ ~Authentic(s) => ~Authentic(s)'

(* Steps that leave the table of servers and the set of revoked agents. *)
LEMMA LastingFrame ==
  ASSUME UNCHANGED <<serverRow, banned>>
  PROVE  Lasting
BY DEF Lasting, Authentic

(* Steps that delete servers or revoke agents. *)
LEMMA LastingFall ==
  ASSUME TypeInv, NEW s \in Servers, banned \subseteq banned',
         serverRow' \in {serverRow, [serverRow EXCEPT ![s] = "gone"]}
  PROVE  Lasting
BY DEF Lasting, Authentic, TypeInv, TypeOK

(* The request that a command waits for is still that request. *)
SameRequest(h) ==
    /\ handler'[h].pc # "idle"
    /\ handler'[h].kind = handler[h].kind
    /\ handler'[h].from = handler[h].from
    /\ handler'[h].cred = handler[h].cred

(* A machine on which nothing happens, while nothing happens to the        *)
(* request of its command, keeps its part of the invariant.                *)
LEMMA MachineFrame ==
  ASSUME TypeInv, Lasting, NEW m \in Machines, AgentInv(m), CommandInv(m),
         agent'[m] = agent[m], command'[m] = command[m], disk'[m] = disk[m],
         command[m].pc = "asked" => SameRequest(command[m].waits)
  PROVE  AgentInv(m)' /\ CommandInv(m)'
<1>0. /\ agent[m].cred \in Servers \cup {Null}
      /\ disk[m].cred \in Servers \cup {Null}
  BY DEF TypeInv, TypeOK, AgentState, DiskState
<1>1. AgentInv(m)'
  <2>1. agent[m].pc \in {"remove", "run"} => agent[m].cred \in Servers
    BY <1>0 DEF TypeInv, TypeOK
  <2>2. /\ agent[m].cred # Null => serverRow'[agent[m].cred] # "new"
        /\ disk[m].cred # Null => serverRow'[disk[m].cred] # "new"
    BY <1>0 DEF AgentInv, Lasting
  <2>3. agent[m].cred \in Servers /\ ~Authentic(agent[m].cred) => ~Authentic(agent[m].cred)'
    BY NullAssumption DEF AgentInv, Lasting, Authentic
  <2>4. QED
    BY <2>1, <2>2, <2>3 DEF AgentInv
<1>2. CommandInv(m)'
  <2>1. command[m].pc = "forget" => ~Authentic(disk[m].cred)'
    BY <1>0 DEF AgentInv, CommandInv, Lasting
  <2>2. QED
    BY <2>1 DEF CommandInv, SameRequest
<1>3. QED
  BY <1>1, <1>2

(* A handler on which nothing happens keeps its part of the invariant. *)
LEMMA HandlerFrame ==
  ASSUME TypeInv, Lasting, NEW h \in Handlers, HandlerInv(h), handler'[h] = handler[h]
  PROVE  HandlerInv(h)'
<1>1. handler[h].cred \in Servers \cup {Null}
  BY DEF TypeInv, TypeOK, HandlerState
<1>2. handler[h].pc = "reply" /\ handler[h].answer = "ok" => handler[h].cred \in Servers
  BY DEF TypeInv, HandlerShape
<1>3. QED
  BY <1>1, <1>2, NullAssumption DEF HandlerInv, Lasting

(* What happens to rows alone. *)
LEMMA RowIdentity ==
  ASSUME TypeInv, IdentityInv, Lasting, UNCHANGED <<handler, machineVars>>
  PROVE  IdentityInv'
<1>1. \A h \in Handlers : HandlerInv(h)'
  BY HandlerFrame DEF IdentityInv
<1>2. ASSUME NEW m \in Machines
      PROVE  AgentInv(m)' /\ CommandInv(m)'
  <2>1. command[m].pc = "asked" => SameRequest(command[m].waits)
    BY DEF IdentityInv, CommandInv, SameRequest
  <2>2. QED
    BY <2>1, MachineFrame DEF IdentityInv, machineVars
<1>3. QED
  BY <1>1, <1>2 DEF IdentityInv

(* A step of handler h that answers nobody yet. *)
LEMMA HandlerIdentity ==
  ASSUME TypeInv, IdentityInv, Lasting, NEW h \in Handlers, NEW l, Goto(h, l),
         UNCHANGED machineVars, HandlerInv(h)',
         l.pc # "idle", l.kind = handler[h].kind, l.from = handler[h].from,
         handler[h].kind = "unregister" => l.cred = handler[h].cred
  PROVE  IdentityInv'
<1>1. /\ handler'[h] = l
      /\ \A k \in Handlers : k # h => handler'[k] = handler[k]
  BY DEF Goto, TypeInv, TypeOK
<1>2. \A k \in Handlers : HandlerInv(k)'
  BY <1>1, HandlerFrame DEF IdentityInv
<1>3. ASSUME NEW m \in Machines
      PROVE  AgentInv(m)' /\ CommandInv(m)'
  <2>1. command[m].pc = "asked" => SameRequest(command[m].waits)
    BY <1>1 DEF IdentityInv, CommandInv, SameRequest
  <2>2. QED
    BY <2>1, MachineFrame DEF IdentityInv, machineVars
<1>4. QED
  BY <1>2, <1>3 DEF IdentityInv

(* IdentityInv is kept by every step of a request handler. *)
LEMMA ServeIdentity ==
  ASSUME TypeInv, IdentityInv, NEW h \in Handlers, Serve(h) \/ Fail(h)
  PROVE  IdentityInv'
<1> DEFINE r == handler[h]
<1>0. r \in HandlerState /\ HandlerShape(r) /\ HandlerInv(h)
  BY DEF TypeInv, TypeOK, IdentityInv
<1>set. ASSUME NEW l, Goto(h, l)
        PROVE  handler'[h] = l /\ \A k \in Handlers : k # h => handler'[k] = handler[k]
  BY <1>set DEF Goto, TypeInv, TypeOK
<1>1. CASE \/ LockToken(h) \/ RefuseToken(h) \/ Fail(h)
           \/ Authenticate(h) \/ WriteHeartbeat(h)
  <2>1. Lasting /\ UNCHANGED machineVars /\ UNCHANGED <<serverRow, banned>>
    BY <1>1, LastingFrame DEF LockToken, RefuseToken, Fail, Authenticate, WriteHeartbeat, serverVars
  <2>2. PICK l : /\ Goto(h, l)
                 /\ l.pc \notin {"idle", "lock"}
                 /\ l.pc = "exchange" => r.pc = "lock"
                 /\ l.kind = r.kind /\ l.from = r.from /\ l.cred = r.cred
                 /\ l.pc = "reply" /\ l.answer = "ok" => l.kind = "heartbeat"
    <3>1. CASE LockToken(h)
      <4> WITNESS [r EXCEPT !.pc = "exchange"]
      <4>1. QED
        BY <1>0, <3>1 DEF LockToken, HandlerState
    <3>2. CASE RefuseToken(h) \/ (Authenticate(h) /\ ~Authentic(r.cred))
      <4> WITNESS [r EXCEPT !.pc = "reply", !.answer = "refused"]
      <4>1. QED
        BY <1>0, <3>2 DEF RefuseToken, Authenticate, Answer, HandlerState
    <3>3. CASE Fail(h)
      <4> WITNESS [r EXCEPT !.pc = "reply", !.answer = "error"]
      <4>1. QED
        BY <1>0, <3>3 DEF Fail, Answer, HandlerState
    <3>4. CASE Authenticate(h) /\ Authentic(r.cred)
      <4> WITNESS [r EXCEPT !.pc = "write"]
      <4>1. QED
        BY <1>0, <3>4 DEF Authenticate, HandlerState
    <3>5. CASE WriteHeartbeat(h)
      <4> WITNESS [r EXCEPT !.pc = "reply", !.answer = "ok"]
      <4>1. QED
        BY <1>0, <3>5 DEF WriteHeartbeat, Answer, HandlerState
    <3>6. QED
      BY <1>1, <3>1, <3>2, <3>3, <3>4, <3>5
  <2>3. HandlerInv(h)'
    BY <1>0, <1>set, <2>1, <2>2 DEF HandlerInv
  <2>4. QED
    BY <2>1, <2>2, <2>3, HandlerIdentity
<1>2. ASSUME NEW s \in Servers, Exchange(h, s)
      PROVE  IdentityInv'
  <2> DEFINE l == [r EXCEPT !.pc = "reply", !.answer = "ok", !.cred = s]
  <2>1. Lasting
    BY <1>2 DEF Exchange, Lasting, Authentic, TypeInv, TypeOK
  <2>2. Goto(h, l) /\ r.kind = "enroll" /\ serverRow'[s] = "live" /\ UNCHANGED machineVars
    BY <1>0, <1>2 DEF Exchange, HandlerInv, TypeInv, TypeOK
  <2>3. l.pc = "reply" /\ l.kind = r.kind /\ l.from = r.from /\ l.cred = s
    BY <1>0 DEF HandlerState
  <2> HIDE DEF l
  <2>4. HandlerInv(h)'
    BY <1>set, <2>2, <2>3 DEF HandlerInv
  <2>5. QED
    BY <2>1, <2>2, <2>3, <2>4, HandlerIdentity
<1>3. CASE WriteUnregister(h)
  <2>1. r.cred \in Servers /\ serverRow[r.cred] # "new"
    BY <1>0, <1>3, NullAssumption DEF WriteUnregister, HandlerShape, HandlerInv
  <2>2. Lasting
    BY <1>3, <2>1, LastingFall DEF WriteUnregister
  <2>3. PICK a \in {"ok", "refused"} : Answer(h, a) /\ (a = "ok" => r.cred \in banned')
    BY <1>3, <2>1 DEF WriteUnregister
  <2> DEFINE l == [r EXCEPT !.pc = "reply", !.answer = a]
  <2>4. Goto(h, l) /\ l.pc = "reply" /\ l.answer = a /\ l.kind = r.kind
        /\ l.from = r.from /\ l.cred = r.cred
    BY <1>0, <2>3 DEF Answer, HandlerState
  <2> HIDE DEF l
  <2>5. HandlerInv(h)'
    BY <1>3, <1>set, <2>1, <2>3, <2>4 DEF HandlerInv, Authentic, WriteUnregister
  <2>6. QED
    BY <1>3, <2>2, <2>4, <2>5, HandlerIdentity DEF WriteUnregister
<1>4. CASE Reply(h)
  <2> DEFINE m == r.from
  <2>1. m \in Machines /\ (r.answer = "ok" => r.cred \in Servers)
    BY <1>0, <1>4 DEF Reply, HandlerShape
  <2>2. Lasting /\ UNCHANGED <<serverRow, banned, disk>>
    BY <1>4, LastingFrame DEF Reply, serverVars
  <2>3. /\ handler'[h] = IdleHandler
        /\ \A k \in Handlers : k # h => handler'[k] = handler[k]
    BY <1>4, <1>set DEF Reply
  <2>4. \A k \in Handlers : HandlerInv(k)'
    <3>1. HandlerInv(h)'
      BY <2>3 DEF HandlerInv, IdleHandler
    <3>2. QED
      BY <2>2, <2>3, <3>1, HandlerFrame DEF IdentityInv
  <2>5. ASSUME NEW k \in Machines
        PROVE  AgentInv(k)' /\ CommandInv(k)'
    <3>1. /\ AgentInv(k) /\ CommandInv(k)
          /\ agent[k] \in AgentState /\ disk[k] \in DiskState /\ command[k] \in CommandState
      BY DEF IdentityInv, TypeInv, TypeOK
    <3>2. /\ agent'[k] = IF k = m /\ agent[m].waits = h THEN AfterAnswer(agent[k], r) ELSE agent[k]
          /\ command'[k] = IF k = m /\ command[m].waits = h
                           THEN IF Forgets(r) THEN [pc |-> "forget", waits |-> Null] ELSE NoCommand
                           ELSE command[k]
      BY <1>4, <2>1 DEF Reply, TypeInv, TypeOK
    <3>3. AgentInv(k)'
      <4>1. CASE k = m /\ agent[m].waits = h
        <5>1. agent[k].pc \in {"enroll", "run"}
          BY <3>1, <4>1, NullAssumption DEF AgentInv
        <5>2. CASE agent[k].pc = "run"
          BY <2>2, <3>1, <3>2, <4>1, <5>2 DEF AfterAnswer, AgentInv, AgentState, Authentic
        <5>3. CASE agent[k].pc = "enroll" /\ r.answer = "ok"
          BY <1>0, <2>1, <2>2, <3>1, <3>2, <4>1, <5>3, NullAssumption
             DEF AfterAnswer, AgentInv, HandlerInv
        <5>4. CASE agent[k].pc = "enroll" /\ r.answer # "ok"
          BY <2>2, <3>1, <3>2, <4>1, <5>4 DEF AfterAnswer, AgentInv, AgentOff
        <5>5. QED
          BY <5>1, <5>2, <5>3, <5>4
      <4>2. CASE ~(k = m /\ agent[m].waits = h)
        BY <2>2, <3>1, <3>2, <4>2 DEF AgentInv, Authentic
      <4>3. QED
        BY <4>1, <4>2
    <3>4. CommandInv(k)'
      <4>1. CASE k = m /\ command[m].waits = h
        <5>1. /\ command[k].pc = "asked" /\ r.kind = "unregister"
              /\ r.cred = disk[k].cred /\ disk[k].cred # Null
          BY <3>1, <4>1, NullAssumption DEF CommandInv
        <5>2. CASE Forgets(r)
          BY <1>0, <1>4, <2>2, <3>2, <4>1, <5>1, <5>2 DEF Forgets, CommandInv, HandlerInv, Reply, Authentic
        <5>3. CASE ~Forgets(r)
          BY <3>2, <4>1, <5>3 DEF CommandInv, NoCommand
        <5>4. QED
          BY <5>2, <5>3
      <4>2. CASE ~(k = m /\ command[m].waits = h)
        <5>1. command[k].pc = "asked" => command[k].waits # h
          BY <3>1, <4>2 DEF CommandInv
        <5>2. QED
          BY <2>2, <2>3, <3>1, <3>2, <4>2, <5>1 DEF CommandInv, Authentic
      <4>3. QED
        BY <4>1, <4>2
    <3>5. QED
      BY <3>3, <3>4
  <2>6. QED
    BY <2>4, <2>5 DEF IdentityInv
<1>5. QED
  BY <1>1, <1>2, <1>3, <1>4 DEF Serve

(* A step of one machine that opens no request. *)
LEMMA MachineIdentity ==
  ASSUME TypeInv, IdentityInv, NEW m \in Machines, UNCHANGED <<serverVars, handler>>,
         \A k \in Machines : k # m =>
             agent'[k] = agent[k] /\ command'[k] = command[k] /\ disk'[k] = disk[k],
         AgentInv(m)', CommandInv(m)'
  PROVE  IdentityInv'
<1>1. Lasting
  BY LastingFrame DEF serverVars
<1>2. \A h \in Handlers : HandlerInv(h)'
  BY <1>1, HandlerFrame DEF IdentityInv
<1>3. ASSUME NEW k \in Machines, k # m
      PROVE  AgentInv(k)' /\ CommandInv(k)'
  <2>1. command[k].pc = "asked" => SameRequest(command[k].waits)
    BY DEF IdentityInv, CommandInv, SameRequest
  <2>2. QED
    BY <1>1, <1>3, <2>1, MachineFrame DEF IdentityInv
<1>4. QED
  BY <1>2, <1>3 DEF IdentityInv

(* A step of one machine that opens a request at an idle handler. *)
LEMMA RequestIdentity ==
  ASSUME TypeInv, IdentityInv, NEW m \in Machines, UNCHANGED serverVars,
         NEW h \in Handlers, NEW kind, NEW t, NEW s \in Servers \cup {Null},
         Open(h, kind, m, t, s), s # Null => serverRow[s] # "new",
         \A k \in Machines : k # m =>
             agent'[k] = agent[k] /\ command'[k] = command[k] /\ disk'[k] = disk[k],
         AgentInv(m)', CommandInv(m)'
  PROVE  IdentityInv'
<1>1. Lasting /\ serverRow' = serverRow
  BY LastingFrame DEF serverVars
<1>2. /\ handler[h].pc = "idle"
      /\ handler'[h].pc \in {"lock", "auth"} /\ handler'[h].kind = kind /\ handler'[h].cred = s
      /\ handler'[h].pc = "lock" => kind = "enroll"
      /\ \A k \in Handlers : k # h => handler'[k] = handler[k]
  BY DEF Open, Goto, IdleHandler, TypeInv, TypeOK
<1>3. HandlerInv(h)'
  BY <1>1, <1>2 DEF HandlerInv
<1>4. \A k \in Handlers : HandlerInv(k)'
  BY <1>1, <1>2, <1>3, HandlerFrame DEF IdentityInv
<1>5. ASSUME NEW k \in Machines, k # m
      PROVE  AgentInv(k)' /\ CommandInv(k)'
  <2>1. command[k].pc = "asked" => SameRequest(command[k].waits)
    BY <1>2 DEF IdentityInv, CommandInv, SameRequest
  <2>2. QED
    BY <1>1, <1>5, <2>1, MachineFrame DEF IdentityInv
<1>6. QED
  BY <1>4, <1>5 DEF IdentityInv

(* IdentityInv is kept by every step of an agent or a command. *)
LEMMA AgentIdentity ==
  ASSUME TypeInv, IdentityInv, NEW m \in Machines,
         \/ RunAgent(m) \/ Forget(m) \/ \E h \in Handlers : Beat(m, h) \/ Unregister(m, h)
         \/ Crash(m) \/ GiveUp(m) \/ CommandFails(m)
         \/ \E t \in Tokens : Provision(m, t)
  PROVE  IdentityInv'
<1>0. /\ AgentInv(m) /\ CommandInv(m)
      /\ agent[m] \in AgentState /\ disk[m] \in DiskState /\ command[m] \in CommandState
  BY DEF IdentityInv, TypeInv, TypeOK
<1>1. ASSUME NEW a, SetAgent(m, a), UNCHANGED <<serverVars, handler, command, disk>>,
             a.cred # Null => serverRow[a.cred] # "new",
             a.waits # Null => a.pc \in {"enroll", "run"},
             a.pc \in {"enroll", "save"} => disk[m].cred = Null,
             a.pc \in {"remove", "run"} => disk[m].cred = a.cred \/ ~Authentic(a.cred)
      PROVE  IdentityInv'
  <2>1. /\ agent'[m] = a
        /\ \A k \in Machines : k # m => agent'[k] = agent[k]
    BY <1>1 DEF SetAgent, TypeInv, TypeOK
  <2>2. AgentInv(m)'
    BY <1>0, <1>1, <2>1 DEF AgentInv, Authentic, serverVars
  <2>3. CommandInv(m)'
    BY <1>0, <1>1 DEF CommandInv, Authentic, serverVars
  <2>4. QED
    BY <1>1, <2>1, <2>2, <2>3, MachineIdentity
<1>2. CASE BootEnrolled(m)
  BY <1>0, <1>1, <1>2 DEF BootEnrolled, AgentInv
<1>3. CASE Crash(m)
  BY <1>1, <1>3 DEF Crash, AgentOff
<1>4. CASE GiveUp(m)
  <2>1. CASE agent[m].pc = "run"
    BY <1>0, <1>1, <1>4, <2>1 DEF GiveUp, AgentInv, AgentState
  <2>2. CASE agent[m].pc # "run"
    BY <1>1, <1>4, <2>2 DEF GiveUp, AgentOff
  <2>3. QED
    BY <2>1, <2>2
<1>5. CASE Save(m)
  <2>1. /\ agent'[m].pc = "remove" /\ agent'[m].cred = agent[m].cred /\ agent'[m].waits = Null
        /\ disk'[m].cred = agent[m].cred /\ disk[m].cred = Null
        /\ \A k \in Machines : k # m => agent'[k] = agent[k] /\ disk'[k] = disk[k]
    BY <1>0, <1>5 DEF Save, Saved, SetAgent, AgentInv, AgentState, DiskState, TypeInv, TypeOK
  <2>2. UNCHANGED <<serverVars, handler, command>>
    BY <1>5 DEF Save
  <2>3. AgentInv(m)' /\ CommandInv(m)'
    BY <1>0, <2>1, <2>2 DEF AgentInv, CommandInv, serverVars
  <2>4. QED
    BY <2>1, <2>2, <2>3, MachineIdentity
<1>6. CASE RemoveToken(m)
  <2>1. /\ agent'[m].pc = "run" /\ agent'[m].cred = agent[m].cred /\ agent[m].pc = "remove"
        /\ disk'[m].cred = disk[m].cred
        /\ \A k \in Machines : k # m => agent'[k] = agent[k] /\ disk'[k] = disk[k]
    BY <1>0, <1>6 DEF RemoveToken, SetAgent, AgentState, DiskState, TypeInv, TypeOK
  <2>2. UNCHANGED <<serverVars, handler, command>>
    BY <1>6 DEF RemoveToken
  <2>3. AgentInv(m)' /\ CommandInv(m)'
    BY <1>0, <2>1, <2>2 DEF AgentInv, CommandInv, Authentic, serverVars
  <2>4. QED
    BY <2>1, <2>2, <2>3, MachineIdentity
<1>7. ASSUME NEW t \in Tokens, Provision(m, t)
      PROVE  IdentityInv'
  <2>1. /\ disk'[m].cred = disk[m].cred
        /\ \A k \in Machines : k # m => disk'[k] = disk[k]
    BY <1>0, <1>7 DEF Provision, DiskState, TypeInv, TypeOK
  <2>2. AgentInv(m)' /\ CommandInv(m)'
    BY <1>0, <1>7, <2>1 DEF Provision, AgentInv, CommandInv, Authentic, serverVars
  <2>3. QED
    BY <1>7, <2>1, <2>2, MachineIdentity DEF Provision
<1>8. CASE Forget(m)
  <2>1. /\ disk'[m].cred = Null /\ command'[m] = NoCommand
        /\ disk[m].cred # Null /\ ~Authentic(disk[m].cred)
        /\ \A k \in Machines : k # m => disk'[k] = disk[k] /\ command'[k] = command[k]
    BY <1>0, <1>8 DEF Forget, CommandInv, DiskState, TypeInv, TypeOK
  <2>2. AgentInv(m)' /\ CommandInv(m)'
    BY <1>0, <1>8, <2>1 DEF Forget, AgentInv, CommandInv, NoCommand, Authentic, serverVars
  <2>3. QED
    BY <1>8, <2>1, <2>2, MachineIdentity DEF Forget
<1>9. CASE CommandFails(m)
  <2>1. /\ command'[m] = NoCommand
        /\ \A k \in Machines : k # m => command'[k] = command[k]
    BY <1>9 DEF CommandFails, TypeInv, TypeOK
  <2>2. AgentInv(m)' /\ CommandInv(m)'
    BY <1>0, <1>9, <2>1 DEF CommandFails, AgentInv, CommandInv, NoCommand, Authentic, serverVars
  <2>3. QED
    BY <1>9, <2>1, <2>2, MachineIdentity DEF CommandFails
<1>10. ASSUME NEW h \in Handlers, NEW kind, NEW t, NEW s \in Servers \cup {Null},
              Open(h, kind, m, t, s), UNCHANGED serverVars
       PROVE  /\ command[m].pc = "asked" => command[m].waits # h
              /\ \A k \in Handlers : k # h => handler'[k] = handler[k]
              /\ handler'[h].pc # "idle" /\ handler'[h].kind = kind
              /\ handler'[h].from = m /\ handler'[h].cred = s
  BY <1>0, <1>10 DEF Open, Goto, IdleHandler, CommandInv, TypeInv, TypeOK
<1>11. ASSUME NEW h \in Handlers, BootToEnroll(m, h) \/ Beat(m, h)
       PROVE  IdentityInv'
  <2> DEFINE a == IF BootToEnroll(m, h) THEN [pc |-> "enroll", cred |-> Null, waits |-> h]
                                        ELSE [agent[m] EXCEPT !.waits = h]
             s == IF BootToEnroll(m, h) THEN Null ELSE agent[m].cred
  <2>1. PICK kind, t : Open(h, kind, m, t, s)
    BY <1>11 DEF BootToEnroll, Beat
  <2>2. UNCHANGED <<serverVars, command, disk>> /\ SetAgent(m, a)
    BY <1>11 DEF BootToEnroll, Beat
  <2>3. /\ s \in Servers \cup {Null} /\ (s # Null => serverRow[s] # "new")
        /\ a.cred = s
        /\ \/ a.pc = "enroll" /\ disk[m].cred = Null
           \/ a.pc = "run" /\ agent[m].pc = "run" /\ a.cred = agent[m].cred
    BY <1>0, <1>11 DEF BootToEnroll, Beat, AgentState, AgentInv
  <2> HIDE DEF a, s
  <2>4. /\ agent'[m] = a
        /\ \A k \in Machines : k # m => agent'[k] = agent[k]
    BY <2>2 DEF SetAgent, TypeInv, TypeOK
  <2>5. AgentInv(m)'
    BY <1>0, <2>2, <2>3, <2>4 DEF AgentInv, Authentic, serverVars
  <2>6. CommandInv(m)'
    BY <1>0, <1>10, <2>1, <2>2, <2>3 DEF CommandInv, Authentic, serverVars
  <2>7. QED
    BY <2>1, <2>2, <2>3, <2>4, <2>5, <2>6, RequestIdentity
<1>12. ASSUME NEW h \in Handlers, Unregister(m, h)
       PROVE  IdentityInv'
  <2>1. /\ Open(h, "unregister", m, Null, disk[m].cred)
        /\ UNCHANGED <<serverVars, agent, disk>>
        /\ command'[m].pc = "asked" /\ command'[m].waits = h
        /\ \A k \in Machines : k # m => command'[k] = command[k]
    BY <1>12 DEF Unregister, TypeInv, TypeOK
  <2>2. disk[m].cred \in Servers /\ disk[m].cred # Null /\ serverRow[disk[m].cred] # "new"
    BY <1>0, <1>12 DEF Unregister, DiskState, AgentInv
  <2>3. AgentInv(m)'
    BY <1>0, <2>1 DEF AgentInv, Authentic, serverVars
  <2>4. CommandInv(m)'
    BY <1>10, <2>1, <2>2 DEF CommandInv
  <2>5. QED
    BY <2>1, <2>2, <2>3, <2>4, RequestIdentity
<1>13. QED
  BY <1>2, <1>3, <1>4, <1>5, <1>6, <1>7, <1>8, <1>9, <1>11, <1>12 DEF RunAgent

(* IdentityInv holds in every state. *)
LEMMA IdentitiesHold == Spec => []IdentityInv
<1>1. Init => IdentityInv
  BY DEF Init, IdentityInv, HandlerInv, AgentInv, CommandInv, IdleHandler, AgentOff, NoCommand
<1>2. TypeInv /\ IdentityInv /\ [Next]_vars => IdentityInv'
  <2> SUFFICES ASSUME TypeInv, IdentityInv, [Next]_vars PROVE IdentityInv'
    OBVIOUS
  <2>1. ASSUME NEW s \in Servers, RevokeAgent(s) \/ DeleteServer(s)
        PROVE  IdentityInv'
    <3>1. Lasting
      BY <2>1, LastingFall DEF RevokeAgent, DeleteServer
    <3>2. QED
      BY <2>1, <3>1, RowIdentity DEF RevokeAgent, DeleteServer
  <2>2. CASE \/ \E t \in Tokens : CreateToken(t) \/ RevokeToken(t) \/ Expire(t) \/ PurgeToken(t)
             \/ \E s \in Servers : \/ Disconnect(s) \/ Age(s)
                                  \/ \E on \in BOOLEAN : SetMaintenance(s, on)
             \/ MarkOffline
             \/ UNCHANGED vars
    <3>1. UNCHANGED <<serverRow, banned, handler, machineVars>>
      BY <2>2 DEF CreateToken, RevokeToken, Expire, PurgeToken, Disconnect, Age, SetMaintenance,
                  MarkOffline, serverVars, vars
    <3>2. QED
      BY <3>1, LastingFrame, RowIdentity
  <2>3. QED
    BY <2>1, <2>2, ServeIdentity, AgentIdentity DEF Next, Operate, Pass, Fault
<1>3. QED
  BY <1>1, <1>2, TypesHold, PTL DEF Spec

(* A machine does not lose its identity: whatever crashes, lost replies    *)
(* and removals happen, the credential of a running agent stays on disk    *)
(* until its server is deleted or the agent revoked.                       *)
THEOREM IdentityKept == Spec => []IdentitySurvives
<1>1. IdentityInv => IdentitySurvives
  BY DEF IdentityInv, AgentInv, IdentitySurvives
<1>2. QED
  BY <1>1, IdentitiesHold, PTL
=============================================================================
