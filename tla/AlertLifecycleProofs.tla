------------------------ MODULE AlertLifecycleProofs ------------------------
(***************************************************************************)
(* Proofs about AlertLifecycle, for any number of rules, servers, events,  *)
(* channels, handlers and monitors and for any bound:                      *)
(*   - the type invariant;                                                 *)
(*   - a rule has at most one open incident;                               *)
(*   - a recovery follows an accepted announcement.                        *)
(***************************************************************************)
EXTENDS AlertLifecycle, TLAPS

-----------------------------------------------------------------------------
(* Types.  The type invariant is inductive once it says that an evaluator  *)
(* past its lookup holds the id of an incident.                            *)

HasIncident == {"promote", "refresh", "sync", "cooldown",
                "render", "channels", "send", "mark"}

HoldsId(l) == l.pc \in HasIncident => l.id \in Events

TypeInv == TypeOK /\ \A j \in Jobs : HoldsId(job[j])

(* The locals of an evaluator at rest are well typed. *)
LEMMA IdleLocal == IdleJob \in Local /\ HoldsId(IdleJob)
<1>1. NewRule \in RuleRow
  BY DEF NewRule, RuleRow, RowStates
<1>2. [r \in Rules |-> NewRule] \in [Rules -> RuleRow]
  BY <1>1
<1>3. [s \in Servers |-> 0] \in [Servers -> Nat]
  OBVIOUS
<1>4. QED
  BY <1>2, <1>3 DEF IdleJob, Local, PCs, Levels, EventStates, Open, Paths,
                    HoldsId, HasIncident

(* So are those with which the loop goes on to its next rule. *)
LEMMA NextLocal ==
  ASSUME NEW l \in Local
  PROVE  NextRule(l) \in Local /\ HoldsId(NextRule(l)) /\ NextRule(l).pc = "next"
BY IdleLocal DEF NextRule, IdleJob, Local, PCs, HoldsId, HasIncident

(* Replacing the locals of one evaluator by well typed ones keeps types. *)
LEMMA GotoTypes ==
  ASSUME TypeInv, NEW j \in Jobs, NEW l \in Local, HoldsId(l), Goto(j, l)
  PROVE  job' \in [Jobs -> Local] /\ \A k \in Jobs : HoldsId(job'[k])
BY DEF TypeInv, TypeOK, Goto

(* Whatever status a server had and whatever incidents there are, the      *)
(* status computed for it is one of the six.                               *)
LEMMA StatusTypes ==
  ASSUME TypeOK, NEW s
  PROVE  /\ AlertStatus(s) \in Statuses
         /\ SyncedStatus(s) \in Statuses
         /\ \A new \in Statuses : KeepMaintenance(s, new) \in Statuses
<1>1. AlertStatus(s) \in Statuses
  BY DEF AlertStatus, Statuses
<1>2. \A new \in Statuses : KeepMaintenance(s, new) \in Statuses
  BY DEF KeepMaintenance, Statuses
<1>3. QED
  BY <1>1, <1>2 DEF SyncedStatus, Statuses

(* What a statement of an evaluator must establish: well typed locals, and *)
(* well typed values of the three variables evaluators write.              *)
LEMMA EvaluatorFrame ==
  ASSUME TypeInv, NEW j \in Jobs, NEW l \in Local, HoldsId(l), Goto(j, l),
         DbUnchanged,
         event' \in [Events -> EventRow],
         status' \in [Servers -> Statuses],
         outbox' \subseteq Delivery
  PROVE  TypeInv'
BY GotoTypes DEF TypeInv, TypeOK, DbUnchanged

(* The type invariant is kept by every statement of an evaluator. *)
LEMMA EvaluateTypes ==
  ASSUME TypeInv, NEW j \in Jobs, Evaluate(j)
  PROVE  TypeInv'
<1> DEFINE l == job[j]
<1> USE DEF TypeInv
<1>0. l \in Local /\ HoldsId(l)
  BY DEF TypeOK
<1>values. event \in [Events -> EventRow] /\ status \in [Servers -> Statuses]
      /\ outbox \subseteq Delivery
  BY DEF TypeOK
<1>1. CASE LoadRules(j)
  <2> DEFINE kind == IF j \in Monitors THEN Connectivity ELSE Rules \ Connectivity
             live == {r \in kind : /\ rule[r].row = "live" /\ rule[r].enabled
                                   /\ ServerOf[r] \in job[j].scope}
             at == IF j \in Monitors THEN clock ELSE job[j].at
             seen == IF j \in Monitors THEN SeenOrEnrolled ELSE job[j].seen
             new == [IdleJob EXCEPT !.pc = "next", !.at = at, !.todo = live,
                                    !.rules = rule, !.seen = seen]
  <2>1. live \subseteq Rules /\ at \in Nat
    BY <1>0, ConstantsAssumption DEF TypeOK, Local
  <2>2. SeenOrEnrolled \in [Servers -> Nat]
    BY DEF TypeOK, SeenOrEnrolled
  <2>3. seen \in [Servers -> Nat]
    BY <1>0, <2>2 DEF Local
  <2> HIDE DEF live, at, seen
  <2>4. new \in Local /\ HoldsId(new)
    BY <2>1, <2>3, IdleLocal DEF TypeOK, IdleJob, Local, PCs, HoldsId, HasIncident
  <2>5. Goto(j, new)
    BY <1>1 DEF LoadRules, live, at, seen
  <2> HIDE DEF new
  <2>6. QED
    BY <1>1, <1>values, <2>4, <2>5, EvaluatorFrame DEF LoadRules
<1>2. CASE Finish(j)
  BY <1>2, <1>values, IdleLocal, EvaluatorFrame DEF Finish
<1>3. ASSUME NEW r \in Rules, NEW v \in Severities \cup {"critical"}, LookupNone(j, r, v)
      PROVE  TypeInv'
  <2> DEFINE new == [l EXCEPT !.pc = "insert", !.todo = @ \ {r}, !.cur = r,
                              !.sev = v, !.since = BreachSince(j, r)]
  <2>1. BreachSince(j, r) \in Nat
    BY <1>0, ConstantsAssumption DEF BreachSince, Local
  <2>2. v \in Levels
    BY ConstantsAssumption DEF Levels
  <2>3. new \in Local /\ HoldsId(new)
    BY <1>0, <2>1, <2>2 DEF Local, PCs, HoldsId, HasIncident
  <2>4. Goto(j, new)
    BY <1>3 DEF LookupNone
  <2> HIDE DEF new
  <2>5. QED
    BY <1>3, <1>values, <2>3, <2>4, EvaluatorFrame DEF LookupNone
<1>4. ASSUME NEW r \in Rules, NEW v \in Severities \cup {"critical"},
             NEW e \in Events, LookupOpen(j, r, v, e)
      PROVE  TypeInv'
  <2> DEFINE promoting == event[e].state = "pending" /\ Due(j, r, event[e].trig)
             pc == IF promoting THEN "promote" ELSE "refresh"
             path == IF NeedsNotice(event[e], promoting) THEN "firing" ELSE "none"
             new == [l EXCEPT !.pc = pc, !.todo = @ \ {r}, !.cur = r, !.sev = v,
                              !.id = e, !.prior = event[e].state, !.path = path]
  <2>1. event[e].state \in EventStates /\ v \in Levels
    BY <1>values, ConstantsAssumption DEF EventRow, Levels
  <2>2. pc \in PCs /\ path \in Paths
    BY DEF PCs, Paths
  <2>3. Goto(j, new)
    BY <1>4 DEF LookupOpen
  <2> HIDE DEF pc, path, promoting
  <2>4. new \in Local /\ HoldsId(new)
    BY <1>0, <2>1, <2>2 DEF Local, HoldsId
  <2> HIDE DEF new
  <2>5. QED
    BY <1>4, <1>values, <2>3, <2>4, EvaluatorFrame DEF LookupOpen
<1>5. ASSUME NEW r \in Rules, ResolveNone(j, r)
      PROVE  TypeInv'
  <2> DEFINE mid == [l EXCEPT !.todo = @ \ {r}]
  <2>1. mid \in Local
    BY <1>0 DEF Local
  <2>2. Goto(j, NextRule(mid))
    BY <1>5 DEF ResolveNone
  <2> HIDE DEF mid
  <2>3. QED
    BY <1>5, <1>values, <2>1, <2>2, NextLocal, EvaluatorFrame DEF ResolveNone
<1>6. ASSUME NEW r \in Rules, NEW e \in Events, ResolveOpen(j, r, e)
      PROVE  TypeInv'
  <2> DEFINE path == IF Announced(event[e]) THEN "resolved" ELSE "none"
             new == [l EXCEPT !.pc = "sync", !.todo = @ \ {r}, !.cur = r,
                              !.id = e, !.path = path]
  <2>1. path \in Paths
    BY DEF Paths
  <2>2. Goto(j, new)
    BY <1>6 DEF ResolveOpen
  <2> HIDE DEF path
  <2>3. new \in Local /\ HoldsId(new)
    BY <1>0, <2>1 DEF Local, PCs, HoldsId
  <2>4. event' \in [Events -> EventRow]
    BY <1>6, <1>values DEF ResolveOpen, EventRow, EventStates
  <2> HIDE DEF new
  <2>5. QED
    BY <1>6, <1>values, <2>2, <2>3, <2>4, EvaluatorFrame DEF ResolveOpen
<1>7. ASSUME NEW e \in Events, InsertEvent(j, e)
      PROVE  TypeInv'
  <2> DEFINE firing == Due(j, l.cur, l.since)
             state == IF firing THEN "firing" ELSE "pending"
             row == [rule |-> l.cur, sev |-> l.sev, notified |-> Null,
                     trig |-> l.since, state |-> state]
             new == [l EXCEPT !.pc = "sync", !.id = e, !.path = "firing"]
  <2>1. state \in EventStates
    BY DEF EventStates, Open
  <2>2. event' = [event EXCEPT ![e] = row]
    BY <1>7 DEF InsertEvent
  <2> HIDE DEF state
  <2>3. row \in EventRow
    BY <1>0, <2>1 DEF Local, EventRow
  <2> HIDE DEF row
  <2>4. event' \in [Events -> EventRow]
    BY <2>2, <2>3, <1>values
  <2>5. new \in Local /\ HoldsId(new)
    BY <1>0 DEF Local, PCs, Paths, HoldsId
  <2>6. Goto(j, new) \/ Goto(j, NextRule(l))
    BY <1>7 DEF InsertEvent
  <2> HIDE DEF new
  <2>7. QED
    BY <1>7, <1>0, <1>values, <2>4, <2>5, <2>6, NextLocal, EvaluatorFrame DEF InsertEvent
<1>8. CASE Promote(j)
  <2> DEFINE new == [l EXCEPT !.pc = "sync"]
  <2>1. l.id \in Events
    BY <1>0, <1>8 DEF Promote, HoldsId, HasIncident
  <2>parts. event[l.id] \in EventRow /\ l.sev \in Levels /\ "firing" \in EventStates
    BY <1>0, <1>values, <2>1 DEF Local, EventStates, Open
  <2>2. PromotedRow(event[l.id], l) \in EventRow
    BY <2>parts DEF PromotedRow, EventRow
  <2>3. event' \in [Events -> EventRow]
    BY <1>8, <1>values, <2>1, <2>2 DEF Promote
  <2>4. new \in Local /\ HoldsId(new)
    BY <1>0, <2>1 DEF Local, PCs, HoldsId
  <2>5. Goto(j, new)
    BY <1>8 DEF Promote
  <2> HIDE DEF new
  <2>6. QED
    BY <1>8, <1>values, <2>3, <2>4, <2>5, EvaluatorFrame DEF Promote
<1>9. CASE Refresh(j)
  <2> DEFINE new == [l EXCEPT !.pc = "sync"]
  <2>1. l.id \in Events
    BY <1>0, <1>9 DEF Refresh, HoldsId, HasIncident
  <2>2. event' \in [Events -> EventRow]
    BY <1>9, <1>values, <1>0 DEF Refresh, Local, EventRow
  <2>3. new \in Local /\ HoldsId(new)
    BY <1>0, <2>1 DEF Local, PCs, HoldsId
  <2>4. Goto(j, new) \/ Goto(j, NextRule(l))
    BY <1>9 DEF Refresh
  <2> HIDE DEF new
  <2>5. QED
    BY <1>9, <1>0, <1>values, <2>2, <2>3, <2>4, NextLocal, EvaluatorFrame DEF Refresh
<1>10. CASE Sync(j)
  <2> DEFINE cooldown == [l EXCEPT !.pc = "cooldown"]
             render == [l EXCEPT !.pc = "render"]
  <2>1. l.id \in Events
    BY <1>0, <1>10 DEF Sync, HoldsId, HasIncident
  <2>2. /\ cooldown \in Local /\ HoldsId(cooldown)
        /\ render \in Local /\ HoldsId(render)
    BY <1>0, <2>1 DEF Local, PCs, HoldsId
  <2>3. Goto(j, cooldown) \/ Goto(j, render) \/ Goto(j, NextRule(l))
    BY <1>10 DEF Sync
  <2>4. status' \in [Servers -> Statuses]
    BY <1>10, <1>values, StatusTypes DEF Sync
  <2> HIDE DEF cooldown, render
  <2>5. QED
    BY <1>10, <1>0, <1>values, <2>2, <2>3, <2>4, NextLocal, EvaluatorFrame DEF Sync
<1>11. CASE Cooldown(j)
  <2> DEFINE new == [l EXCEPT !.pc = "render"]
  <2>1. new \in Local /\ HoldsId(new)
    BY <1>0, <1>11 DEF Cooldown, Local, PCs, HoldsId, HasIncident
  <2>2. Goto(j, new) \/ Goto(j, NextRule(l))
    BY <1>11 DEF Cooldown
  <2> HIDE DEF new
  <2>3. QED
    BY <1>11, <1>0, <1>values, <2>1, <2>2, NextLocal, EvaluatorFrame DEF Cooldown
<1>12. CASE Render(j)
  <2> DEFINE new == [l EXCEPT !.pc = "channels", !.payload = event[l.id].state]
  <2>1. l.id \in Events
    BY <1>0, <1>12 DEF Render, HoldsId, HasIncident
  <2>2. new \in Local /\ HoldsId(new)
    BY <1>0, <1>values, <2>1 DEF Local, EventRow, PCs, HoldsId
  <2>3. Goto(j, new)
    BY <1>12 DEF Render
  <2> HIDE DEF new
  <2>4. QED
    BY <1>12, <1>values, <2>2, <2>3, EvaluatorFrame DEF Render
<1>after. ASSUME l.id \in Events
      PROVE  Delivered(l) \in Local /\ HoldsId(Delivered(l))
  <2> DEFINE mark == [l EXCEPT !.pc = "mark", !.dest = {}]
  <2>1. mark \in Local /\ HoldsId(mark)
    BY <1>0, <1>after DEF Local, PCs, HoldsId
  <2>2. Delivered(l) = mark \/ Delivered(l) = NextRule(l)
    BY DEF Delivered
  <2> HIDE DEF mark
  <2>3. QED
    BY <1>0, <2>1, <2>2, NextLocal
<1>13. CASE LoadChannels(j)
  <2> DEFINE live == {c \in Channels : channel[c] = "live"}
             new == [l EXCEPT !.pc = "send", !.dest = live]
  <2>1. l.id \in Events
    BY <1>0, <1>13 DEF LoadChannels, HoldsId, HasIncident
  <2>2. new \in Local /\ HoldsId(new)
    BY <1>0, <2>1 DEF Local, PCs, HoldsId
  <2>3. Goto(j, new) \/ Goto(j, Delivered(l))
    BY <1>13 DEF LoadChannels
  <2> HIDE DEF new
  <2>4. QED
    BY <1>13, <1>values, <1>after, <2>1, <2>2, <2>3, EvaluatorFrame DEF LoadChannels
<1>14. ASSUME NEW c \in Channels, Send(j, c)
       PROVE  TypeInv'
  <2> DEFINE new == [l EXCEPT !.dest = @ \ {c}]
  <2>1. l.id \in Events
    BY <1>0, <1>14 DEF Send, HoldsId, HasIncident
  <2>2. new \in Local /\ HoldsId(new)
    BY <1>0, <2>1 DEF Local, HoldsId
  <2>3. Goto(j, new) \/ Goto(j, Delivered(l))
    BY <1>14 DEF Send, AfterSend
  <2>4. Request(l, c) \in Delivery
    BY <1>0, <2>1 DEF Request, Accepted, Delivery, Local
  <2>5. outbox' \subseteq Delivery
    BY <1>14, <1>values, <2>4 DEF Send
  <2> HIDE DEF new
  <2>6. QED
    BY <1>14, <1>values, <1>after, <2>1, <2>2, <2>3, <2>5, EvaluatorFrame DEF Send
<1>15. CASE MarkNotified(j)
  <2>1. event' \in [Events -> EventRow]
    BY <1>15, <1>values, <1>0 DEF MarkNotified, Local, EventRow
  <2>2. QED
    BY <1>15, <1>0, <1>values, <2>1, NextLocal, EvaluatorFrame DEF MarkNotified
<1>16. CASE StatementFails(j)
  BY <1>16, <1>values, IdleLocal, EvaluatorFrame DEF StatementFails
<1>17. QED
  BY <1>1, <1>2, <1>3, <1>4, <1>5, <1>6, <1>7, <1>8, <1>9, <1>10, <1>11, <1>12,
     <1>13, <1>14, <1>15, <1>16 DEF Evaluate

(* Cutting an evaluation short keeps types. *)
LEMMA InterruptTypes ==
  ASSUME TypeInv, NEW j \in Jobs, Interrupt(j)
  PROVE  TypeInv'
<1>1. /\ event \in [Events -> EventRow] /\ status \in [Servers -> Statuses]
      /\ outbox \subseteq Delivery
  BY DEF TypeInv, TypeOK
<1>2. /\ Goto(j, IdleJob) /\ DbUnchanged
      /\ UNCHANGED <<status, event, outbox>>
  BY DEF Interrupt, Abort, SendFails
<1>3. QED
  BY <1>1, <1>2, IdleLocal, EvaluatorFrame

(* Requests, heartbeats and ticks of the monitor keep types. *)
LEMMA ArriveTypes ==
  ASSUME TypeInv, Arrive
  PROVE  TypeInv'
<1>1. TypeOK
  BY DEF TypeInv
<1>2. ASSUME NEW h \in Handlers, NEW s \in Servers,
             NEW t \in 0..(MaxTime + MaxLead), Ingest(h, s, t)
      PROVE  TypeInv'
  <2> DEFINE new == [IdleJob EXCEPT !.pc = "load", !.at = t, !.scope = {s}]
  <2>1. t \in Nat
    BY ConstantsAssumption
  <2>2. new \in Local /\ HoldsId(new)
    BY <2>1, IdleLocal DEF IdleJob, Local, PCs, HoldsId, HasIncident
  <2>3. Goto(h, new) /\ h \in Jobs
    BY <1>2 DEF Ingest, Jobs
  <2> HIDE DEF new
  <2>4. job' \in [Jobs -> Local] /\ \A k \in Jobs : HoldsId(job'[k])
    BY <2>2, <2>3, GotoTypes
  <2>5. lastSeen' \in [Servers -> Nat \cup {Null}]
    BY <1>1, <1>2 DEF Ingest, TypeOK
  <2>6. KeepMaintenance(s, "online") \in Statuses
    BY <1>1, StatusTypes DEF Statuses
  <2>7. status' \in [Servers -> Statuses]
    BY <1>1, <1>2, <2>6 DEF Ingest, TypeOK
  <2>8. QED
    BY <1>1, <1>2, <2>4, <2>5, <2>7 DEF Ingest, TypeInv, TypeOK
<1>3. ASSUME NEW m \in Monitors, MonitorTick(m)
      PROVE  TypeInv'
  <2> DEFINE new == [IdleJob EXCEPT !.pc = "load", !.scope = Servers]
  <2>1. new \in Local /\ HoldsId(new)
    BY IdleLocal DEF IdleJob, Local, PCs, HoldsId, HasIncident
  <2>2. Goto(m, new) /\ m \in Jobs
    BY <1>3 DEF MonitorTick, Jobs
  <2>3. MarkedOffline \in [Servers -> Statuses]
    BY <1>1 DEF MarkedOffline, TypeOK, Statuses
  <2>4. status' \in [Servers -> Statuses]
    BY <1>1, <1>3, <2>3 DEF MonitorTick, TypeOK
  <2> HIDE DEF new
  <2>5. QED
    BY <1>1, <1>3, <2>1, <2>2, <2>4, EvaluatorFrame DEF MonitorTick, TypeOK
<1>4. ASSUME NEW s \in Servers, Heartbeat(s)
      PROVE  TypeInv'
  <2>1. KeepMaintenance(s, AlertStatus(s)) \in Statuses
    BY <1>1, StatusTypes
  <2>2. status' \in [Servers -> Statuses]
    BY <1>1, <1>4, <2>1 DEF Heartbeat, TypeOK
  <2>3. lastSeen' \in [Servers -> Nat \cup {Null}]
    BY <1>1, <1>4 DEF Heartbeat, TypeOK
  <2>4. QED
    BY <1>1, <1>4, <2>2, <2>3 DEF Heartbeat, TypeInv, TypeOK
<1>5. QED
  BY <1>2, <1>3, <1>4 DEF Arrive

(* So does whatever an operator changes. *)
LEMMA OperateTypes ==
  ASSUME TypeInv, Operate
  PROVE  TypeInv'
<1> USE DEF TypeInv
<1>1. ASSUME NEW r \in Rules, NEW w \in Windows, NEW c \in Cooldowns,
             \/ CreateRule(r, w, c)
             \/ \E on \in BOOLEAN : UpdateRule(r, on, w, c)
      PROVE  TypeInv'
  <2>1. w \in Nat /\ c \in Nat
    BY ConstantsAssumption
  <2>2. CASE CreateRule(r, w, c)
    <3>1. rule' \in [Rules -> RuleRow]
      BY <2>1, <2>2 DEF CreateRule, TypeOK, RuleRow, RowStates
    <3>2. QED
      BY <2>2, <3>1 DEF CreateRule, TypeOK
  <2>3. ASSUME NEW on \in BOOLEAN, UpdateRule(r, on, w, c)
        PROVE  TypeInv'
    <3> DEFINE row == [row |-> "live", enabled |-> on, window |-> w, cooldown |-> c]
    <3>0. row \in RuleRow
      BY <2>1, Zenon DEF RuleRow, RowStates
    <3>1. rule' = [rule EXCEPT ![r] = row]
      BY <2>3 DEF UpdateRule
    <3> HIDE DEF row
    <3>2. rule' \in [Rules -> RuleRow]
      BY <3>0, <3>1 DEF TypeOK
    <3>3. QED
      BY <2>3, <3>2 DEF UpdateRule, Edit, TypeOK
  <2>4. QED
    BY <1>1, <2>2, <2>3
<1>2. ASSUME NEW r \in Rules, DeleteRule(r)
      PROVE  TypeInv'
  <2> DEFINE gone == [NewEvent EXCEPT !.state = "gone"]
  <2>1. gone \in EventRow
    BY DEF NewEvent, EventRow, EventStates, Levels
  <2>2. \A e \in Events : event'[e] = gone \/ event'[e] = event[e]
    BY <1>2 DEF DeleteRule
  <2>3. event' = [e \in Events |-> event'[e]]
    BY <1>2 DEF DeleteRule
  <2> HIDE DEF gone
  <2>4. event' \in [Events -> EventRow]
    BY <2>1, <2>2, <2>3 DEF TypeOK
  <2>5. rule' \in [Rules -> RuleRow]
    BY <1>2 DEF DeleteRule, TypeOK, NewRule, RuleRow, RowStates
  <2>6. QED
    BY <1>2, <2>4, <2>5 DEF DeleteRule, Edit, TypeOK
<1>3. ASSUME NEW c \in Channels, CreateChannel(c) \/ DeleteChannel(c)
      PROVE  TypeInv'
  <2>1. channel' \in [Channels -> RowStates]
    BY <1>3 DEF CreateChannel, DeleteChannel, TypeOK, RowStates
  <2>2. QED
    BY <1>3, <2>1 DEF CreateChannel, DeleteChannel, Edit, TypeOK
<1>4. ASSUME NEW s \in Servers, NEW on \in BOOLEAN, SetMaintenance(s, on)
      PROVE  TypeInv'
  <2>1. status' \in [Servers -> Statuses]
    BY <1>4 DEF SetMaintenance, TypeOK, Statuses
  <2>2. QED
    BY <1>4, <2>1 DEF SetMaintenance, Edit, TypeOK
<1>5. QED
  BY <1>1, <1>2, <1>3, <1>4 DEF Operate

(* Every step keeps types. *)
LEMMA NextTypes ==
  ASSUME TypeInv, [Next]_vars
  PROVE  TypeInv'
<1>1. CASE Tick
  BY <1>1 DEF Tick, TypeInv, TypeOK
<1>2. CASE UNCHANGED vars
  BY <1>2 DEF vars, TypeInv, TypeOK
<1>3. QED
  BY <1>1, <1>2, EvaluateTypes, InterruptTypes, ArriveTypes, OperateTypes DEF Next

(* The initial state is well typed. *)
LEMMA InitTypes == Init => TypeInv
<1> SUFFICES ASSUME Init PROVE TypeInv
  OBVIOUS
<1>1. [r \in Rules |-> NewRule] \in [Rules -> RuleRow]
  BY DEF NewRule, RuleRow, RowStates
<1>2. [e \in Events |-> NewEvent] \in [Events -> EventRow]
  BY DEF NewEvent, EventRow, EventStates, Levels
<1>3. [c \in Channels |-> IF c \in Standing THEN "live" ELSE "new"]
        \in [Channels -> RowStates]
  BY DEF RowStates
<1>4. [s \in Servers |-> "unknown"] \in [Servers -> Statuses]
  BY DEF Statuses
<1>5. QED
  BY <1>1, <1>2, <1>3, <1>4, IdleLocal DEF Init, TypeInv, TypeOK

(* The model never leaves its types, however evaluators interleave, fail   *)
(* and race with operators.                                                *)
THEOREM TypeCorrect == Spec => []TypeOK
<1>1. Spec => []TypeInv
  BY InitTypes, NextTypes, PTL DEF Spec
<1>2. TypeInv => TypeOK
  BY DEF TypeInv
<1>3. QED
  BY <1>1, <1>2, PTL

-----------------------------------------------------------------------------
(* One open incident.  The statement is inductive on well typed states,    *)
(* because both statements that open an incident are subject to the unique *)
(* index; the other statements open none and give none another rule.       *)

(* Steps that open no incident keep the property. *)
LEMMA NoneOpened ==
  ASSUME OneOpenIncident,
         \A e \in Events : event'[e].state \in Open =>
            event[e].state \in Open /\ event'[e].rule = event[e].rule
  PROVE  OneOpenIncident'
BY DEF OneOpenIncident

(* Opening an incident that the index admits keeps it. *)
LEMMA OneOpened ==
  ASSUME OneOpenIncident, NEW e \in Events, IndexAdmits(event'[e].rule, e),
         \A f \in Events \ {e} : event'[f] = event[f]
  PROVE  OneOpenIncident'
BY DEF OneOpenIncident, IndexAdmits, OpenOf

(* No statement of an evaluator opens a second incident of a rule. *)
LEMMA EvaluateOneOpen ==
  ASSUME TypeInv, OneOpenIncident, NEW j \in Jobs, Evaluate(j)
  PROVE  OneOpenIncident'
<1> DEFINE l == job[j]
<1>0. event \in [Events -> EventRow] /\ l \in Local /\ HoldsId(l)
  BY DEF TypeInv, TypeOK
<1>1. CASE UNCHANGED event
  BY <1>1, NoneOpened
<1>2. ASSUME NEW e \in Events, InsertEvent(j, e)
      PROVE  OneOpenIncident'
  <2>1. event'[e].rule = l.cur /\ \A f \in Events \ {e} : event'[f] = event[f]
    BY <1>0, <1>2 DEF InsertEvent
  <2>2. QED
    BY <1>2, <2>1, OneOpened DEF InsertEvent
<1>3. CASE Promote(j)
  <2>1. CASE event[l.id].state = "gone"
    BY <1>3, <1>1, <2>1 DEF Promote
  <2>2. CASE event[l.id].state # "gone"
    <3>1. l.id \in Events
      BY <1>0, <1>3 DEF Promote, HoldsId, HasIncident
    <3>2. /\ event' = [event EXCEPT ![l.id] = PromotedRow(@, l)]
          /\ IndexAdmits(event[l.id].rule, l.id)
      BY <1>3, <2>2 DEF Promote
    <3>3. event[l.id] \in EventRow
      BY <1>0, <3>1
    <3>4. event'[l.id].rule = event[l.id].rule
      BY <1>0, <3>1, <3>2, <3>3 DEF PromotedRow, EventRow
    <3>5. \A f \in Events \ {l.id} : event'[f] = event[f]
      BY <1>0, <3>2
    <3>6. QED
      BY <3>1, <3>2, <3>4, <3>5, OneOpened
  <2>3. QED
    BY <2>1, <2>2
<1>4. CASE \/ Refresh(j) \/ MarkNotified(j)
           \/ \E r \in Rules, e \in Events : ResolveOpen(j, r, e)
  <2>1. CASE Refresh(j)
    <3>1. event' = event \/ event' = [event EXCEPT ![l.id].sev = l.sev]
      BY <2>1 DEF Refresh
    <3>2. \A e \in Events : /\ event'[e].state = event[e].state
                            /\ event'[e].rule = event[e].rule
      BY <1>0, <3>1 DEF EventRow
    <3>3. QED
      BY <3>2, NoneOpened
  <2>2. CASE MarkNotified(j)
    <3>1. event' = event \/ event' = [event EXCEPT ![l.id].notified = l.at]
      BY <2>2 DEF MarkNotified
    <3>2. \A e \in Events : /\ event'[e].state = event[e].state
                            /\ event'[e].rule = event[e].rule
      BY <1>0, <3>1 DEF EventRow
    <3>3. QED
      BY <3>2, NoneOpened
  <2>3. ASSUME NEW r \in Rules, NEW e \in Events, ResolveOpen(j, r, e)
        PROVE  OneOpenIncident'
    <3>1. event' = [event EXCEPT ![e].state = "resolved"]
      BY <2>3 DEF ResolveOpen
    <3>2. event'[e].state \notin Open
      BY <1>0, <3>1 DEF EventRow, Open
    <3>3. \A f \in Events \ {e} : event'[f] = event[f]
      BY <1>0, <3>1
    <3>4. QED
      BY <3>2, <3>3, NoneOpened
  <2>4. QED
    BY <1>4, <2>1, <2>2, <2>3
<1>5. CASE \/ LoadRules(j) \/ Finish(j) \/ Sync(j) \/ Cooldown(j) \/ Render(j)
           \/ LoadChannels(j) \/ StatementFails(j)
           \/ \E c \in Channels : Send(j, c)
           \/ \E r \in Rules : ResolveNone(j, r)
           \/ \E r \in Rules, v \in Severities \cup {"critical"} :
                 LookupNone(j, r, v) \/ \E e \in Events : LookupOpen(j, r, v, e)
  BY <1>1, <1>5 DEF LoadRules, Finish, Sync, Cooldown, Render, LoadChannels,
     StatementFails, Send, ResolveNone, LookupNone, LookupOpen
<1>6. QED
  BY <1>2, <1>3, <1>4, <1>5 DEF Evaluate

(* Nor does any other step. *)
LEMMA NextOneOpen ==
  ASSUME TypeInv, OneOpenIncident, [Next]_vars
  PROVE  OneOpenIncident'
<1>1. CASE UNCHANGED event
  BY <1>1, NoneOpened
<1>2. ASSUME NEW r \in Rules, DeleteRule(r)
      PROVE  OneOpenIncident'
  BY <1>2, NoneOpened DEF DeleteRule, NewEvent, Open
<1>3. ASSUME NEW j \in Jobs, Interrupt(j)
      PROVE  OneOpenIncident'
  BY <1>1, <1>3 DEF Interrupt, Abort, SendFails
<1>4. CASE Arrive
  BY <1>1, <1>4 DEF Arrive, Ingest, MonitorTick, Heartbeat
<1>5. CASE Operate
  BY <1>1, <1>2, <1>5 DEF Operate, CreateRule, UpdateRule, CreateChannel,
     DeleteChannel, SetMaintenance
<1>6. CASE Tick \/ UNCHANGED vars
  BY <1>1, <1>6 DEF Tick, vars
<1>7. QED
  BY <1>3, <1>4, <1>5, <1>6, EvaluateOneOpen DEF Next

(* However many evaluators read "no open incident" before any of them      *)
(* writes, a rule has at most one open incident (service.go:238-264).      *)
THEOREM OneOpen == Spec => []OneOpenIncident
<1>1. Init => OneOpenIncident
  BY DEF Init, OneOpenIncident, NewEvent, Open
<1>2. Init => TypeInv
  BY InitTypes
<1>3. TypeInv /\ OneOpenIncident /\ [Next]_vars => TypeInv' /\ OneOpenIncident'
  BY NextTypes, NextOneOpen
<1>4. QED
  BY <1>1, <1>2, <1>3, PTL DEF Spec

-----------------------------------------------------------------------------
(* A recovery follows an accepted announcement.  The property alone is not *)
(* inductive: a webhook is sent several statements after notified_at was   *)
(* read, and notified_at is written several statements after the channels  *)
(* accepted.  The strengthening follows the promise through them.          *)

(* Every receiver configured all along has accepted the announcement of e, *)
(* or has been removed since. *)
Told(e) == \A c \in Standing : channel[c] = "gone" \/ Accepted(e, c, "firing")

(* What an evaluator may rely on at each of its statements. *)
NoticeJob(l) ==
    /\ l.pc \in {"promote", "refresh"} => l.path # "resolved"
    /\ l.pc = "cooldown" => l.path = "firing"
    /\ l.pc \in {"render", "channels", "send"} => l.path \in {"firing", "resolved"}
    /\ l.pc \in {"sync", "render", "channels"} /\ l.path = "resolved" => Told(l.id)
    /\ l.pc = "send" /\ l.path = "resolved" =>
          \A c \in l.dest \cap Standing : Accepted(l.id, c, "firing")
    /\ l.pc = "send" /\ l.path = "firing" =>
          \A c \in Standing \ l.dest : channel[c] = "gone" \/ Accepted(l.id, c, "firing")
    /\ l.pc = "mark" => Told(l.id)

NoticeInv ==
    /\ \A c \in Standing : channel[c] # "new"
    /\ \A e \in Events : event[e].notified # Null => Told(e)
    /\ \A j \in Jobs : NoticeJob(job[j])
    /\ RecoveryFollowsNotice

(* What was accepted stays accepted and a removed channel never returns,   *)
(* so that whatever held of the locals of one evaluator still does.        *)
LEMMA NoticeStable ==
  ASSUME outbox \subseteq outbox',
         \A c \in Standing : channel[c] = "gone" => channel'[c] = "gone"
  PROVE  /\ \A e, c, p : Accepted(e, c, p) => Accepted(e, c, p)'
         /\ \A e : Told(e) => Told(e)'
         /\ \A l : NoticeJob(l) => NoticeJob(l)'
<1>1. \A e, c, p : Accepted(e, c, p) => Accepted(e, c, p)'
  BY DEF Accepted
<1>2. \A e : Told(e) => Told(e)'
  BY <1>1 DEF Told
<1>3. QED
  BY <1>1, <1>2 DEF NoticeJob

(* What one step must establish: the promise for the incidents it marks as *)
(* announced, for the evaluator it moves and for the request it delivers.  *)
LEMMA NoticeFrame ==
  ASSUME NoticeInv,
         outbox \subseteq outbox',
         \A c \in Standing : /\ channel'[c] # "new"
                             /\ channel[c] = "gone" => channel'[c] = "gone",
         \A e \in Events : event'[e].notified \in {event[e].notified, Null} \/ Told(e)',
         \A k \in Jobs : job'[k] = job[k] \/ NoticeJob(job[k])',
         \A d \in outbox' \ outbox : d.path = "resolved" /\ d.channel \in Standing =>
            Accepted(d.event, d.channel, "firing")
  PROVE  NoticeInv'
<1>1. \A e \in Events : event'[e].notified # Null => Told(e)'
  BY NoticeStable DEF NoticeInv
<1>2. \A k \in Jobs : NoticeJob(job[k])'
  <2>1. SUFFICES ASSUME NEW k \in Jobs, job'[k] = job[k]
                 PROVE  NoticeJob(job[k])'
    OBVIOUS
  <2>2. NoticeJob(job[k])
    BY DEF NoticeInv
  <2>3. \A e, c, p : Accepted(e, c, p) => Accepted(e, c, p)'
    BY NoticeStable
  <2>4. \A e : Told(e) => Told(e)'
    BY NoticeStable
  <2>5. QED
    BY <2>1, <2>2, <2>3, <2>4 DEF NoticeJob
<1>3. RecoveryFollowsNotice'
  BY NoticeStable DEF NoticeInv, RecoveryFollowsNotice
<1>4. QED
  BY <1>1, <1>2, <1>3 DEF NoticeInv

(* An evaluator that is not about to notify has promised nothing. *)
LEMMA QuietJob ==
  ASSUME NEW j \in Jobs, job'[j].pc \in {"idle", "load", "next", "insert"}
  PROVE  NoticeJob(job[j])'
BY DEF NoticeJob

(* A step of an evaluator that marks no incident and delivers nothing need *)
(* only answer for itself.                                                 *)
LEMMA SilentStep ==
  ASSUME TypeInv, NoticeInv, NEW j \in Jobs, NEW l, Goto(j, l),
         UNCHANGED <<channel, outbox>>,
         \A e \in Events : event'[e].notified \in {event[e].notified, Null} \/ Told(e)',
         NoticeJob(job[j])'
  PROVE  NoticeInv'
<1>1. \A k \in Jobs \ {j} : job'[k] = job[k]
  BY DEF Goto, TypeInv, TypeOK
<1>2. \A c \in Standing : /\ channel'[c] # "new"
                          /\ channel[c] = "gone" => channel'[c] = "gone"
  BY DEF NoticeInv
<1>3. outbox \subseteq outbox' /\ outbox' \ outbox = {}
  OBVIOUS
<1>4. QED
  BY <1>1, <1>2, <1>3, NoticeFrame

(* The strengthened invariant is kept by every statement of an evaluator. *)
LEMMA EvaluateNotice ==
  ASSUME TypeInv, NoticeInv, NEW j \in Jobs, Evaluate(j)
  PROVE  NoticeInv'
<1>0. PICK l : l = job[j]
  OBVIOUS
<1> DEFINE ForItself == /\ UNCHANGED <<channel, outbox>>
                        /\ \E new : Goto(j, new)
                        /\ NoticeJob(job[j])'
<1>1. /\ l = job[j]
      /\ l \in Local /\ HoldsId(l) /\ NoticeJob(l)
      /\ event \in [Events -> EventRow]
      /\ \A new : Goto(j, new) => job'[j] = new
      /\ \A new : NextRule(new).pc = "next"
  BY <1>0 DEF TypeInv, TypeOK, NoticeInv, Goto, NextRule, IdleJob
<1>2. /\ UNCHANGED <<channel, outbox>> => \A e : Told(e) => Told(e)'
      /\ UNCHANGED <<channel, outbox>> =>
            \A e, c, p : Accepted(e, c, p) => Accepted(e, c, p)'
  BY NoticeStable
<1>3. ASSUME ForItself, UNCHANGED event
      PROVE  NoticeInv'
  BY <1>3, SilentStep
<1>4. ASSUME ForItself, NEW e \in Events, NEW row, event' = [event EXCEPT ![e] = row],
             row.notified \in {event[e].notified, Null} \/ Told(e)'
      PROVE  NoticeInv'
  <2>1. \A f \in Events : event'[f].notified \in {event[f].notified, Null} \/ Told(f)'
    BY <1>1, <1>4
  <2>2. QED
    BY <1>4, <2>1, SilentStep
<1> HIDE DEF ForItself
<1>5. CASE \/ LoadRules(j) \/ Finish(j) \/ StatementFails(j)
           \/ \E r \in Rules : ResolveNone(j, r)
           \/ \E r \in Rules, v \in Severities \cup {"critical"} : LookupNone(j, r, v)
  <2>1. UNCHANGED <<channel, outbox, event>> /\ \E new : Goto(j, new)
    BY <1>5 DEF LoadRules, Finish, StatementFails, ResolveNone, LookupNone, DbUnchanged
  <2>2. IdleJob.pc = "idle"
    BY DEF IdleJob
  <2>3. CASE LoadRules(j)
    <3> DEFINE Loaded(at, live, seen) == [IdleJob EXCEPT !.pc = "next", !.at = at,
                                              !.todo = live, !.rules = rule, !.seen = seen]
    <3>1. \A at, live, seen : Loaded(at, live, seen).pc = "next"
      BY DEF IdleJob
    <3>2. \E at, live, seen : Goto(j, Loaded(at, live, seen))
      BY <2>3 DEF LoadRules
    <3> HIDE DEF Loaded
    <3>3. job'[j].pc = "next"
      BY <1>1, <3>1, <3>2
    <3>4. QED
      BY <1>3, <2>1, <3>3, QuietJob DEF ForItself
  <2>4. CASE Finish(j) \/ StatementFails(j)
    BY <2>4, <1>1, QuietJob, <2>1, <2>2, <1>3 DEF Finish, StatementFails, ForItself
  <2>5. CASE \E r \in Rules : ResolveNone(j, r)
    BY <2>5, <1>1, QuietJob, <2>1, <1>3 DEF ResolveNone, ForItself
  <2>6. ASSUME NEW r \in Rules, NEW v \in Severities \cup {"critical"}, LookupNone(j, r, v)
        PROVE  NoticeInv'
    <3>1. job'[j].pc = "insert"
      BY <2>6, <1>1 DEF LookupNone, Local
    <3>2. QED
      BY <3>1, QuietJob, <2>1, <1>3 DEF ForItself
  <2>7. QED
    BY <1>5, <2>3, <2>4, <2>5, <2>6
<1>6. ASSUME NEW r \in Rules, NEW v \in Severities \cup {"critical"},
             NEW e \in Events, LookupOpen(j, r, v, e)
      PROVE  NoticeInv'
  <2> DEFINE promoting == event[e].state = "pending" /\ Due(j, r, event[e].trig)
             pc == IF promoting THEN "promote" ELSE "refresh"
             path == IF NeedsNotice(event[e], promoting) THEN "firing" ELSE "none"
  <2>parts. job'[j] = [l EXCEPT !.pc = pc, !.todo = @ \ {r}, !.cur = r, !.sev = v,
                            !.id = e, !.prior = event[e].state, !.path = path]
    BY <1>6, <1>1 DEF LookupOpen
  <2>cases. pc \in {"promote", "refresh"} /\ path \in {"firing", "none"}
    OBVIOUS
  <2> HIDE DEF pc, path, promoting
  <2>1. job'[j].pc \in {"promote", "refresh"} /\ job'[j].path \in {"firing", "none"}
    BY <1>1, <2>parts, <2>cases DEF Local
  <2>2. NoticeJob(job[j])'
    BY <2>1 DEF NoticeJob
  <2>3. QED
    BY <1>6, <2>2, <1>3 DEF LookupOpen, ForItself, DbUnchanged
<1>7. ASSUME NEW e \in Events, InsertEvent(j, e)
      PROVE  NoticeInv'
  <2>1. job'[j].pc = "next" \/ (job'[j].pc = "sync" /\ job'[j].path = "firing")
    BY <1>7, <1>1 DEF InsertEvent, Local
  <2>2. NoticeJob(job[j])'
    BY <2>1 DEF NoticeJob
  <2> DEFINE firing == Due(j, l.cur, l.since)
             row == [rule |-> l.cur, sev |-> l.sev, notified |-> Null, trig |-> l.since,
                     state |-> IF firing THEN "firing" ELSE "pending"]
  <2>3. event' = [event EXCEPT ![e] = row] /\ row.notified = Null
    BY <1>1, <1>7 DEF InsertEvent
  <2>4. ForItself
    BY <1>7, <2>2 DEF InsertEvent, ForItself, DbUnchanged
  <2> HIDE DEF row
  <2>5. QED
    BY <2>3, <2>4, <1>4
<1>8. CASE Promote(j)
  <2>1. l.id \in Events /\ l.path # "resolved"
    BY <1>1, <1>8 DEF Promote, HoldsId, HasIncident, NoticeJob
  <2>2. job'[j].pc = "sync" /\ job'[j].path = l.path
    BY <1>1, <1>8 DEF Promote, Local
  <2>3. ForItself
    BY <1>8, <2>1, <2>2 DEF Promote, ForItself, DbUnchanged, NoticeJob
  <2>4. PromotedRow(event[l.id], l).notified = event[l.id].notified
    BY <1>1, <2>1 DEF PromotedRow, EventRow
  <2>5. \/ UNCHANGED event
        \/ event' = [event EXCEPT ![l.id] = PromotedRow(event[l.id], l)]
    BY <1>8, <1>1, <2>1 DEF Promote
  <2>6. QED
    BY <2>1, <2>3, <2>4, <2>5, <1>3, <1>4
<1>9. CASE Refresh(j)
  <2>1. l.id \in Events /\ l.path # "resolved"
    BY <1>1, <1>9 DEF Refresh, HoldsId, HasIncident, NoticeJob
  <2>2. job'[j].pc = "next" \/ (job'[j].pc = "sync" /\ job'[j].path = l.path)
    BY <1>1, <1>9 DEF Refresh, Local
  <2>3. ForItself
    BY <1>9, <2>1, <2>2 DEF Refresh, ForItself, DbUnchanged, NoticeJob
  <2> DEFINE row == [event[l.id] EXCEPT !.sev = l.sev]
  <2>4. row.notified = event[l.id].notified
    BY <1>1, <2>1 DEF EventRow
  <2>5. UNCHANGED event \/ event' = [event EXCEPT ![l.id] = row]
    BY <1>9, <1>1, <2>1 DEF Refresh
  <2> HIDE DEF row
  <2>6. QED
    BY <2>1, <2>3, <2>4, <2>5, <1>3, <1>4
<1>10. ASSUME NEW r \in Rules, NEW e \in Events, ResolveOpen(j, r, e)
       PROVE  NoticeInv'
  <2>1. /\ job'[j].pc = "sync" /\ job'[j].id = e
        /\ job'[j].path = "resolved" => event[e].notified # Null
    BY <1>10, <1>1 DEF ResolveOpen, Announced, Local
  <2>2. UNCHANGED <<channel, outbox>>
    BY <1>10 DEF ResolveOpen, DbUnchanged
  <2>3. job'[j].path = "resolved" => Told(e)'
    BY <1>2, <2>1, <2>2 DEF NoticeInv
  <2>4. NoticeJob(job[j])'
    BY <2>1, <2>3 DEF NoticeJob
  <2>5. ForItself
    BY <1>10, <2>2, <2>4 DEF ResolveOpen, ForItself
  <2> DEFINE row == [event[e] EXCEPT !.state = "resolved"]
  <2>6. row.notified = event[e].notified
    BY <1>1 DEF EventRow
  <2>7. event' = [event EXCEPT ![e] = row]
    BY <1>10 DEF ResolveOpen
  <2> HIDE DEF row
  <2>8. QED
    BY <2>5, <2>6, <2>7, <1>4
<1>11. CASE Sync(j)
  <2>1. UNCHANGED <<channel, outbox, event>>
    BY <1>11 DEF Sync, DbUnchanged
  <2>2. /\ job'[j].pc \in {"cooldown", "render", "next"}
        /\ job'[j].pc = "cooldown" => job'[j].path = "firing"
        /\ job'[j].pc = "render" => /\ job'[j].path = "resolved"
                                   /\ job'[j].id = l.id /\ l.path = "resolved"
    BY <1>1, <1>11 DEF Sync, Local
  <2>3. job'[j].pc = "render" => Told(l.id)'
    BY <1>1, <1>2, <1>11, <2>1, <2>2 DEF Sync, NoticeJob
  <2>4. NoticeJob(job[j])'
    BY <2>2, <2>3 DEF NoticeJob
  <2>5. QED
    BY <1>11, <2>1, <2>4, <1>3 DEF Sync, ForItself
<1>12. CASE Cooldown(j)
  <2>1. UNCHANGED <<channel, outbox, event>>
    BY <1>12 DEF Cooldown, DbUnchanged
  <2>2. job'[j].pc = "next" \/ (job'[j].pc = "render" /\ job'[j].path = l.path)
    BY <1>1, <1>12 DEF Cooldown, Local
  <2>3. NoticeJob(job[j])'
    BY <1>1, <1>12, <2>2 DEF Cooldown, NoticeJob
  <2>4. QED
    BY <1>12, <2>1, <2>3, <1>3 DEF Cooldown, ForItself
<1>13. CASE Render(j)
  <2>1. UNCHANGED <<channel, outbox, event>>
    BY <1>13 DEF Render, DbUnchanged
  <2>2. job'[j].pc = "channels" /\ job'[j].path = l.path /\ job'[j].id = l.id
    BY <1>1, <1>13 DEF Render, Local
  <2>3. l.path = "resolved" => Told(l.id)'
    BY <1>1, <1>2, <1>13, <2>1 DEF Render, NoticeJob
  <2>4. l.path \in {"firing", "resolved"}
    BY <1>1, <1>13 DEF Render, NoticeJob
  <2>5. NoticeJob(job[j])'
    BY <2>2, <2>3, <2>4 DEF NoticeJob
  <2>6. QED
    BY <1>13, <2>1, <2>5, <1>3 DEF Render, ForItself
<1>14. CASE LoadChannels(j)
  <2> DEFINE live == {c \in Channels : channel[c] = "live"}
  <2>1. UNCHANGED <<channel, outbox, event>>
    BY <1>14 DEF LoadChannels, DbUnchanged
  <2>2. \A c \in Standing : c \in live \/ channel[c] = "gone"
    BY ConstantsAssumption DEF NoticeInv, TypeInv, TypeOK, RowStates
  <2>3. \/ job'[j].pc = "next"
        \/ /\ job'[j].pc = "mark" /\ job'[j].id = l.id
           /\ live = {}
        \/ /\ job'[j].pc = "send" /\ job'[j].id = l.id
           /\ job'[j].path = l.path /\ job'[j].dest = live
    BY <1>1, <1>14 DEF LoadChannels, Delivered, Local
  <2>4. l.path \in {"firing", "resolved"} /\ (l.path = "resolved" => Told(l.id))
    BY <1>1, <1>14 DEF LoadChannels, NoticeJob
  <2>5. ASSUME job'[j].pc = "next"
        PROVE  NoticeJob(job[j])'
    BY <2>5 DEF NoticeJob
  <2>6. ASSUME job'[j].pc = "mark", job'[j].id = l.id, live = {}
        PROVE  NoticeJob(job[j])'
    <3>1. Told(l.id)
      BY <2>2, <2>6 DEF Told
    <3>2. QED
      BY <1>2, <2>1, <2>6, <3>1 DEF NoticeJob
  <2>7. ASSUME job'[j].pc = "send", job'[j].id = l.id,
               job'[j].path = l.path, job'[j].dest = live
        PROVE  NoticeJob(job[j])'
    <3>1. \A c \in Standing \ live : channel'[c] = "gone"
      BY <2>1, <2>2
    <3>2. l.path = "resolved" => \A c \in live \cap Standing : Accepted(l.id, c, "firing")
      BY <2>4 DEF Told
    <3>3. l.path = "resolved" => \A c \in live \cap Standing : Accepted(l.id, c, "firing")'
      BY <1>2, <2>1, <3>2
    <3> HIDE DEF live
    <3>4. QED
      BY <2>4, <2>7, <3>1, <3>3 DEF NoticeJob
  <2>8. NoticeJob(job[j])'
    BY <2>3, <2>5, <2>6, <2>7
  <2>9. QED
    BY <1>14, <2>1, <2>8, <1>3 DEF LoadChannels, ForItself
<1>15. CASE MarkNotified(j)
  <2>1. Told(l.id)'
    BY <1>1, <1>2, <1>15 DEF MarkNotified, NoticeJob, DbUnchanged
  <2>2. job'[j].pc = "next"
    BY <1>1, <1>15 DEF MarkNotified
  <2>3. NoticeJob(job[j])'
    BY <2>2 DEF NoticeJob
  <2>4. ForItself
    BY <1>15, <2>3 DEF MarkNotified, ForItself, DbUnchanged
  <2>5. l.id \in Events
    BY <1>1, <1>15 DEF MarkNotified, HoldsId, HasIncident
  <2> DEFINE row == [event[l.id] EXCEPT !.notified = l.at]
  <2>6. UNCHANGED event \/ event' = [event EXCEPT ![l.id] = row]
    BY <1>1, <1>15 DEF MarkNotified
  <2> HIDE DEF row
  <2>7. QED
    BY <2>1, <2>4, <2>5, <2>6, <1>3, <1>4
<1>16. ASSUME NEW c \in Channels, Send(j, c)
       PROVE  NoticeInv'
  <2> DEFINE told == Request(l, c)
  <2>1. /\ outbox' = outbox \cup {told} /\ UNCHANGED <<channel, event>>
        /\ l.pc = "send" /\ c \in l.dest
    BY <1>1, <1>16 DEF Send, DbUnchanged
  <2>2. told.event = l.id /\ told.channel = c /\ told.path = l.path
    BY DEF Request
  <2> HIDE DEF told
  <2>3. /\ \A e, b, p : Accepted(e, b, p) => Accepted(e, b, p)'
        /\ Accepted(l.id, c, l.path)'
    BY <2>1, <2>2 DEF Accepted
  <2>4. c \in Standing /\ l.path = "resolved" => Accepted(l.id, c, "firing")
    BY <1>1, <2>1 DEF NoticeJob
  <2>5. l.path = "firing" => \A b \in Standing \ (l.dest \ {c}) :
                                channel'[b] = "gone" \/ Accepted(l.id, b, "firing")'
    BY <1>1, <2>1, <2>3 DEF NoticeJob
  <2>6. \/ job'[j].pc = "next"
        \/ /\ job'[j].pc = "mark" /\ job'[j].id = l.id
           /\ l.path = "firing" /\ l.dest = {c}
        \/ /\ job'[j].pc = "send" /\ job'[j].id = l.id
           /\ job'[j].path = l.path /\ job'[j].dest = l.dest \ {c}
    BY <1>1, <1>16 DEF Send, AfterSend, Delivered, Local
  <2>7. ASSUME job'[j].pc = "next"
        PROVE  NoticeJob(job[j])'
    BY <2>7 DEF NoticeJob
  <2>8. ASSUME job'[j].pc = "mark", job'[j].id = l.id,
               l.path = "firing", l.dest = {c}
        PROVE  NoticeJob(job[j])'
    <3>1. Told(l.id)'
      BY <2>5, <2>8 DEF Told
    <3>2. QED
      BY <2>8, <3>1 DEF NoticeJob
  <2>9. ASSUME job'[j].pc = "send", job'[j].id = l.id,
               job'[j].path = l.path, job'[j].dest = l.dest \ {c}
        PROVE  NoticeJob(job[j])'
    <3>1. l.path = "resolved" =>
            \A b \in (l.dest \ {c}) \cap Standing : Accepted(l.id, b, "firing")'
      BY <1>1, <2>1, <2>3 DEF NoticeJob
    <3>2. l.path \in {"firing", "resolved"}
      BY <1>1, <2>1 DEF NoticeJob
    <3>3. QED
      BY <2>5, <2>9, <3>1, <3>2 DEF NoticeJob
  <2>10. NoticeJob(job[j])'
    BY <2>6, <2>7, <2>8, <2>9
  <2>11. \A k \in Jobs \ {j} : job'[k] = job[k]
    BY <1>16 DEF Send, Goto, TypeInv, TypeOK
  <2>12. \A d \in outbox' \ outbox : d.path = "resolved" /\ d.channel \in Standing =>
            Accepted(d.event, d.channel, "firing")
    BY <2>1, <2>2, <2>4
  <2>13. \A b \in Standing : channel'[b] # "new"
    BY <2>1 DEF NoticeInv
  <2>14. QED
    BY <2>1, <2>10, <2>11, <2>12, <2>13, NoticeFrame
<1>17. QED
  BY <1>5, <1>6, <1>7, <1>8, <1>9, <1>10, <1>11, <1>12, <1>13, <1>14, <1>15, <1>16
     DEF Evaluate

(* It is kept by every other step: rows of rules and channels come and go, *)
(* but a deleted incident is no longer marked and a removed channel stays  *)
(* removed.                                                                *)
LEMMA NextNotice ==
  ASSUME TypeInv, NoticeInv, [Next]_vars
  PROVE  NoticeInv'
<1> DEFINE AtRest == \A k \in Jobs : job'[k] = job[k] \/ job'[k].pc \in {"idle", "load"}
<1>1. ASSUME UNCHANGED <<channel, outbox>>, AtRest,
             \A e \in Events : event'[e].notified \in {event[e].notified, Null}
      PROVE  NoticeInv'
  <2>1. \A k \in Jobs : job'[k] = job[k] \/ NoticeJob(job[k])'
    BY <1>1, QuietJob
  <2>2. \A c \in Standing : channel'[c] # "new"
    BY <1>1 DEF NoticeInv
  <2>3. QED
    BY <1>1, <2>1, <2>2, NoticeFrame
<1>2. ASSUME NEW c \in Channels, CreateChannel(c) \/ DeleteChannel(c)
      PROVE  NoticeInv'
  <2>1. UNCHANGED <<job, event, outbox>>
    BY <1>2 DEF CreateChannel, DeleteChannel
  <2>2. \A b \in Standing : channel'[b] # "new" /\ (channel[b] = "gone" => channel'[b] = "gone")
    BY <1>2, ConstantsAssumption DEF CreateChannel, DeleteChannel, NoticeInv, TypeInv, TypeOK
  <2>3. QED
    BY <2>1, <2>2, NoticeFrame
<1>3. ASSUME NEW r \in Rules, DeleteRule(r)
      PROVE  NoticeInv'
  BY <1>1, <1>3 DEF DeleteRule, NewEvent
<1>4. CASE Operate
  BY <1>1, <1>2, <1>3, <1>4 DEF Operate, CreateRule, UpdateRule, SetMaintenance
<1>5. CASE Arrive
  <2>1. UNCHANGED <<channel, outbox, event>>
    BY <1>5 DEF Arrive, Ingest, MonitorTick, Heartbeat, DbUnchanged
  <2>2. ASSUME NEW k \in Jobs, NEW new, new.pc = "load", Goto(k, new)
        PROVE  AtRest
    BY <2>2 DEF Goto, TypeInv, TypeOK
  <2>3. AtRest
    <3>1. ASSUME NEW h \in Handlers, NEW s \in Servers,
                 NEW t \in 0..(MaxTime + MaxLead), Ingest(h, s, t)
          PROVE  AtRest
      BY <2>2, <3>1 DEF Ingest, IdleJob, Jobs
    <3>2. ASSUME NEW m \in Monitors, MonitorTick(m)
          PROVE  AtRest
      BY <2>2, <3>2 DEF MonitorTick, IdleJob, Jobs
    <3>3. ASSUME NEW s \in Servers, Heartbeat(s)
          PROVE  AtRest
      BY <3>3 DEF Heartbeat
    <3>4. QED
      BY <1>5, <3>1, <3>2, <3>3 DEF Arrive
  <2>4. QED
    BY <1>1, <2>1, <2>3
<1>6. ASSUME NEW j \in Jobs, Interrupt(j)
      PROVE  NoticeInv'
  <2>1. UNCHANGED <<channel, outbox, event>> /\ Goto(j, IdleJob)
    BY <1>6 DEF Interrupt, Abort, SendFails, DbUnchanged
  <2>2. AtRest
    BY <2>1 DEF Goto, IdleJob, TypeInv, TypeOK
  <2>3. QED
    BY <1>1, <2>1, <2>2
<1>7. CASE Tick \/ UNCHANGED vars
  BY <1>1, <1>7 DEF Tick, vars
<1>8. QED
  BY <1>4, <1>5, <1>6, <1>7, EvaluateNotice DEF Next

(* A receiver configured all along is sent the recovery of an incident     *)
(* only after it accepted the announcement, whatever is interrupted, lost  *)
(* or edited in between (service.go:287-302, 316-329).                     *)
THEOREM RecoveryFollows == Spec => []RecoveryFollowsNotice
<1>1. Init => TypeInv /\ NoticeInv
  BY InitTypes, ConstantsAssumption DEF Init, NoticeInv, NewEvent, IdleJob, NoticeJob,
     RecoveryFollowsNotice
<1>2. TypeInv /\ NoticeInv /\ [Next]_vars => TypeInv' /\ NoticeInv'
  BY NextTypes, NextNotice
<1>3. NoticeInv => RecoveryFollowsNotice
  BY DEF NoticeInv
<1>4. QED
  BY <1>1, <1>2, <1>3, PTL DEF Spec
=============================================================================
