--------------------------- MODULE AlertLifecycle ---------------------------
(***************************************************************************)
(* The alert engine of the API: rules, incidents (alert_events), the       *)
(* evaluators that move an incident from pending to firing to resolved,    *)
(* the server status derived from open incidents, and the webhooks that    *)
(* announce an incident and its recovery.                                  *)
(*                                                                         *)
(* The code keeps no lock and no transaction around one evaluation: every  *)
(* SQL statement commits on its own (PostgreSQL, READ COMMITTED).  One     *)
(* action below is one statement, or one webhook request, of one           *)
(* evaluator, so any two evaluators interleave between two statements.     *)
(* Evaluators are the handlers of POST /agent/metrics (Handlers) and the   *)
(* 30 s goroutine monitorServerStatus (Monitors).                           *)
(*                                                                         *)
(* Abstractions: a measured value is the severity it has under the rule    *)
(* (or "healthy"); it is chosen when its rule's turn comes, since nothing  *)
(* else reads it.  Instants are a small discrete clock.  All rules,        *)
(* servers and channels belong to one workspace and every request is from  *)
(* a member allowed to make it.  The state "acknowledged" of the schema    *)
(* is left out: no statement of the code writes it.                        *)
(***************************************************************************)
EXTENDS Integers

CONSTANTS
    Rules,          \* alert rule ids, each used by at most one rule
    Connectivity,   \* the rules on server_offline / agent_disconnected
    Servers,        \* server ids
    ServerOf,       \* the server each rule watches
    Events,         \* alert_events ids, each used by at most one row
    Channels,       \* notification channel ids, each used by at most one row
    Standing,       \* the channels that exist from the start
    Handlers,       \* metric ingestion requests in progress at one time
    Monitors,       \* the goroutine that evaluates connectivity: one, or none
    Severities,     \* the severities a measured value may have
    Windows,        \* values of evaluation_seconds
    Cooldowns,      \* values of cooldown_seconds
    OfflineAfter,   \* "2 minutes" of the status queries
    MaxLag,         \* bound: how old a collected sample may be
    MaxLead,        \* bound: how far an agent's clock may run ahead
    MaxTime,        \* bound: last instant of the clock
    MaxEdits,       \* bound: number of changes operators make
    Null            \* SQL NULL, and the value of a local not yet assigned

ASSUME ConstantsAssumption ==
    /\ Connectivity \subseteq Rules
    /\ ServerOf \in [Rules -> Servers]
    /\ Standing \subseteq Channels
    /\ Monitors \cap Handlers = {}
    /\ Severities \subseteq {"warning", "critical"}
    /\ Windows \subseteq Nat
    /\ Cooldowns \subseteq Nat
    /\ OfflineAfter \in Nat /\ MaxLag \in Nat /\ MaxLead \in Nat
    /\ MaxTime \in Nat /\ MaxEdits \in Nat
    /\ Null \notin Nat /\ Null \notin Rules /\ Null \notin Events

VARIABLES
    clock,      \* the now() of the database and of the processes
    lastSeen,   \* servers.last_seen_at
    status,     \* servers.status
    rule,       \* alert_rules
    event,      \* alert_events
    channel,    \* notification_channels
    job,        \* local variables of each evaluator
    edits,      \* changes made by operators so far
    outbox      \* history: the webhook requests that channels accepted

vars == <<clock, lastSeen, status, rule, event, channel, job, edits, outbox>>

-----------------------------------------------------------------------------
Jobs == Handlers \cup Monitors

RowStates == {"new", "live", "gone"}        \* before, in and after the table
Statuses == {"unknown", "online", "warning", "degraded", "offline", "maintenance"}
Levels == {"none", "warning", "critical"}
Open == {"pending", "firing"}
EventStates == Open \cup {"new", "resolved", "gone"}
Paths == {"none", "firing", "resolved"}
PCs == {"idle", "load", "next", "insert", "promote", "refresh", "sync",
        "cooldown", "render", "channels", "send", "mark"}

RuleRow == [row: RowStates, enabled: BOOLEAN, window: Nat, cooldown: Nat]

EventRow == [rule: Rules \cup {Null}, sev: Levels, state: EventStates,
             trig: Nat, notified: Nat \cup {Null}]

(* path: "firing" for a request made by notifyFiring, "resolved" for one   *)
(* made by resolve.  state: the incident state the payload shows.          *)
Delivery == [event: Events, channel: Channels, path: Paths, state: EventStates]

Local == [pc: PCs, at: Nat, scope: SUBSET Servers, todo: SUBSET Rules,
          rules: [Rules -> RuleRow], seen: [Servers -> Nat],
          cur: Rules \cup {Null}, sev: Levels, since: Nat,
          id: Events \cup {Null}, prior: EventStates, path: Paths,
          payload: EventStates, dest: SUBSET Channels]

NewRule == [row |-> "new", enabled |-> FALSE, window |-> 0, cooldown |-> 0]
NewEvent == [rule |-> Null, sev |-> "none", state |-> "new",
             trig |-> 0, notified |-> Null]
IdleJob == [pc |-> "idle", at |-> 0, scope |-> {}, todo |-> {},
            rules |-> [r \in Rules |-> NewRule], seen |-> [s \in Servers |-> 0],
            cur |-> Null, sev |-> "none", since |-> 0, id |-> Null,
            prior |-> "new", path |-> "none", payload |-> "new", dest |-> {}]

TypeOK ==
    /\ clock \in Nat
    /\ lastSeen \in [Servers -> Nat \cup {Null}]
    /\ status \in [Servers -> Statuses]
    /\ rule \in [Rules -> RuleRow]
    /\ event \in [Events -> EventRow]
    /\ channel \in [Channels -> RowStates]
    /\ job \in [Jobs -> Local]
    /\ edits \in Nat
    /\ outbox \subseteq Delivery

Init ==
    /\ clock = 0
    /\ lastSeen = [s \in Servers |-> Null]
    /\ status = [s \in Servers |-> "unknown"]
    /\ rule = [r \in Rules |-> NewRule]
    /\ event = [e \in Events |-> NewEvent]
    /\ channel = [c \in Channels |-> IF c \in Standing THEN "live" ELSE "new"]
    /\ job = [j \in Jobs |-> IdleJob]
    /\ edits = 0
    /\ outbox = {}

-----------------------------------------------------------------------------
(* Queries.                                                                *)

OpenOf(r) == {e \in Events : event[e].rule = r /\ event[e].state \in Open}

(* The partial unique index alert_events_one_open_idx admits one more open *)
(* row for rule r, other than row e.                                       *)
IndexAdmits_NoIndex(r, e) == TRUE
IndexAdmits(r, e) == OpenOf(r) \subseteq {e}

IncidentFiring(s, sev) ==
    \E e \in Events : /\ event[e].state = "firing"
                      /\ event[e].sev = sev
                      /\ ServerOf[event[e].rule] = s

AlertStatus_Severity(s) == IF IncidentFiring(s, "critical") THEN "critical" ELSE "online"
AlertStatus(s) ==
    CASE IncidentFiring(s, "critical") -> "degraded"
      [] ~IncidentFiring(s, "critical") /\ IncidentFiring(s, "warning") -> "warning"
      [] OTHER -> "online"

Stale(s) == lastSeen[s] # Null /\ clock - lastSeen[s] > OfflineAfter

KeepMaintenance_Degraded(s, new) ==
    IF status[s] \in {"maintenance", "degraded"} THEN status[s] ELSE new
KeepMaintenance(s, new) == IF status[s] = "maintenance" THEN "maintenance" ELSE new

SyncedStatus(s) ==
    KeepMaintenance(s, CASE lastSeen[s] = Null -> "unknown"
                         [] Stale(s) -> "offline"
                         [] OTHER -> AlertStatus(s))

(* notifyFiring: another incident of rule r was announced inside cooldown. *)
RecentlyNotified_NotBefore(r, e, at, cooldown) ==
    \E f \in Events \ {e} : event[f].rule = r /\ event[f].notified = at
RecentlyNotified(r, e, at, cooldown) ==
    \E f \in Events \ {e} : /\ event[f].rule = r
                            /\ event[f].notified # Null
                            /\ event[f].notified > at - cooldown

(* COALESCE(last_seen_at, enrolled_at, created_at); enrolled at instant 0. *)
SeenOrEnrolled == [s \in Servers |-> IF lastSeen[s] = Null THEN 0 ELSE lastSeen[s]]

-----------------------------------------------------------------------------
(* Evaluators: start, rule snapshot, one rule after the other.             *)

Goto(j, local) == job' = [job EXCEPT ![j] = local]
DbUnchanged == UNCHANGED <<clock, lastSeen, rule, channel, edits>>

(* What survives from one rule of the loop to the next. *)
NextRule(l) == [IdleJob EXCEPT !.pc = "next", !.at = l.at, !.todo = l.todo,
                               !.rules = l.rules, !.seen = l.seen]

(* A metric sample collected at t is committed and its evaluation starts.  *)
Ingest(h, s, t) ==
    /\ job[h].pc = "idle"
    /\ clock - MaxLag <= t /\ t <= clock + MaxLead
    /\ lastSeen' = [lastSeen EXCEPT ![s] = clock]
    /\ status' = [status EXCEPT ![s] = KeepMaintenance(s, "online")]
    /\ Goto(h, [IdleJob EXCEPT !.pc = "load", !.at = t, !.scope = {s}])
    /\ UNCHANGED <<clock, rule, event, channel, edits, outbox>>

(* A tick of the monitor: MarkOffline, whose failure is only logged, and   *)
(* then the connectivity rules.                                            *)
MarkedOffline == [s \in Servers |->
    IF status[s] \notin {"maintenance", "unknown", "offline"} /\ Stale(s)
    THEN "offline" ELSE status[s]]

MonitorTick(m) ==
    /\ job[m].pc = "idle"
    /\ status' \in {MarkedOffline, status}
    /\ Goto(m, [IdleJob EXCEPT !.pc = "load", !.scope = Servers])
    /\ DbUnchanged /\ UNCHANGED <<event, outbox>>

(* rulesForServer, and the first query of EvaluateConnectivity. *)
LoadRules(j) ==
    LET kind == IF j \in Monitors THEN Connectivity ELSE Rules \ Connectivity
    IN  /\ job[j].pc = "load"
        /\ Goto(j, [IdleJob EXCEPT
              !.pc = "next",
              !.at = IF j \in Monitors THEN clock ELSE job[j].at,
              !.todo = {r \in kind : /\ rule[r].row = "live" /\ rule[r].enabled
                                     /\ ServerOf[r] \in job[j].scope},
              !.rules = rule,
              !.seen = IF j \in Monitors THEN SeenOrEnrolled ELSE job[j].seen])
        /\ DbUnchanged /\ UNCHANGED <<status, event, outbox>>

LoopOver(j) == job[j].pc = "next" /\ job[j].todo = {}

Finish(j) ==
    /\ LoopOver(j)
    /\ Goto(j, IdleJob)
    /\ DbUnchanged /\ UNCHANGED <<status, event, outbox>>

(* What the current rule may find: a metric rule any severity or none, a   *)
(* connectivity rule what the snapshot of last_seen_at says.               *)
Verdicts(j, r) ==
    LET l == job[j]
    IN  IF r \notin Connectivity THEN Severities \cup {"healthy"}
        ELSE IF l.at - l.seen[ServerOf[r]] >= l.rules[r].window
             THEN {"critical"} ELSE {"healthy"}

BreachSince(j, r) == IF r \in Connectivity THEN job[j].seen[ServerOf[r]] ELSE job[j].at

Due_OneTooEarly(j, r, since) == job[j].at - since >= job[j].rules[r].window - 1
Due(j, r, since) == job[j].at - since >= job[j].rules[r].window

-----------------------------------------------------------------------------
(* evaluateWithSeverity: the SELECT, and the statement it leads to.        *)

LookupNone(j, r, v) ==
    /\ job[j].pc = "next" /\ r \in job[j].todo
    /\ v \in Verdicts(j, r) \ {"healthy"}
    /\ OpenOf(r) = {}
    /\ Goto(j, [job[j] EXCEPT !.pc = "insert", !.todo = @ \ {r}, !.cur = r,
                              !.sev = v, !.since = BreachSince(j, r)])
    /\ DbUnchanged /\ UNCHANGED <<status, event, outbox>>

(* An incident is announced when it starts to fire, and again by every     *)
(* evaluation that finds it firing and not marked as announced.            *)
NeedsNotice_Once(found, promoting) == promoting
NeedsNotice_Always(found, promoting) == promoting \/ found.state = "firing"
NeedsNotice(found, promoting) ==
    promoting \/ (found.state = "firing" /\ found.notified = Null)

LookupOpen(j, r, v, e) ==
    LET found == event[e]
        promoting == found.state = "pending" /\ Due(j, r, found.trig)
    IN  /\ job[j].pc = "next" /\ r \in job[j].todo
        /\ v \in Verdicts(j, r) \ {"healthy"}
        /\ e \in OpenOf(r)
        /\ Goto(j, [job[j] EXCEPT
              !.pc = IF promoting THEN "promote" ELSE "refresh",
              !.todo = @ \ {r}, !.cur = r, !.sev = v, !.id = e,
              !.prior = found.state,
              !.path = IF NeedsNotice(found, promoting) THEN "firing" ELSE "none"])
        /\ DbUnchanged /\ UNCHANGED <<status, event, outbox>>

(* INSERT of the incident; it may be firing at once. *)
FreshRow(e) == event[e].state = "new"

InsertEvent(j, e) ==
    LET l == job[j]
        firing == Due(j, l.cur, l.since)
        row == [rule |-> l.cur, sev |-> l.sev, notified |-> Null, trig |-> l.since,
                state |-> IF firing THEN "firing" ELSE "pending"]
    IN  /\ l.pc = "insert"
        /\ rule[l.cur].row = "live" /\ IndexAdmits(l.cur, e)
        /\ FreshRow(e)
        /\ event' = [event EXCEPT ![e] = row]
        /\ Goto(j, IF firing THEN [l EXCEPT !.pc = "sync", !.id = e, !.path = "firing"]
                             ELSE NextRule(l))
        /\ DbUnchanged /\ UNCHANGED <<status, outbox>>

(* UPDATE ... SET state='firing' WHERE id=$1: no condition on the state the *)
(* row has by now.  A deleted row is not an error.                          *)
PromotedRow_NoState(row, l) == [row EXCEPT !.sev = l.sev]
PromotedRow(row, l) == [row EXCEPT !.state = "firing", !.sev = l.sev]

Promote(j) ==
    LET l == job[j]
    IN  /\ l.pc = "promote"
        /\ \/ /\ event[l.id].state = "gone"
              /\ UNCHANGED event
           \/ /\ event[l.id].state # "gone" /\ IndexAdmits(event[l.id].rule, l.id)
              /\ event' = [event EXCEPT ![l.id] = PromotedRow(@, l)]
        /\ Goto(j, [l EXCEPT !.pc = "sync"])
        /\ DbUnchanged /\ UNCHANGED <<status, outbox>>

(* UPDATE of severity and value; only an incident read as firing goes on.  *)
Refresh(j) ==
    LET l == job[j]
    IN  /\ l.pc = "refresh"
        /\ event' = IF event[l.id].state = "gone" THEN event
                    ELSE [event EXCEPT ![l.id].sev = l.sev]
        /\ Goto(j, IF l.prior = "firing" THEN [l EXCEPT !.pc = "sync"] ELSE NextRule(l))
        /\ DbUnchanged /\ UNCHANGED <<status, outbox>>

(* resolve: one statement closes the open incident, if there is one, and   *)
(* tells whether it had been firing and announced.                         *)
ResolveNone(j, r) ==
    /\ job[j].pc = "next" /\ r \in job[j].todo
    /\ "healthy" \in Verdicts(j, r)
    /\ OpenOf(r) = {}
    /\ Goto(j, NextRule([job[j] EXCEPT !.todo = @ \ {r}]))
    /\ DbUnchanged /\ UNCHANGED <<status, event, outbox>>

Announced_WhenFiring(row) == row.state = "firing"
Announced(row) == row.state = "firing" /\ row.notified # Null

ResolveOpen(j, r, e) ==
    /\ job[j].pc = "next" /\ r \in job[j].todo
    /\ "healthy" \in Verdicts(j, r)
    /\ e \in OpenOf(r)
    /\ event' = [event EXCEPT ![e].state = "resolved"]
    /\ Goto(j, [job[j] EXCEPT !.pc = "sync", !.todo = @ \ {r}, !.cur = r, !.id = e,
                              !.path = IF Announced(event[e]) THEN "resolved" ELSE "none"])
    /\ DbUnchanged /\ UNCHANGED <<status, outbox>>

(* syncServerStatus. *)
Sync(j) ==
    LET l == job[j]
        s == ServerOf[l.cur]
    IN  /\ l.pc = "sync"
        /\ status' = [status EXCEPT ![s] = SyncedStatus(s)]
        /\ Goto(j, CASE l.path = "firing" -> [l EXCEPT !.pc = "cooldown"]
                     [] l.path = "resolved" -> [l EXCEPT !.pc = "render"]
                     [] OTHER -> NextRule(l))
        /\ DbUnchanged /\ UNCHANGED <<event, outbox>>

-----------------------------------------------------------------------------
(* notifyFiring and notify.                                                *)

Cooldown(j) ==
    LET l == job[j]
    IN  /\ l.pc = "cooldown"
        /\ Goto(j, IF RecentlyNotified(l.cur, l.id, l.at, l.rules[l.cur].cooldown)
                   THEN NextRule(l) ELSE [l EXCEPT !.pc = "render"])
        /\ DbUnchanged /\ UNCHANGED <<status, event, outbox>>

(* notify reads the incident again: the payload shows its state by now. *)
Render(j) ==
    LET l == job[j]
    IN  /\ l.pc = "render"
        /\ event[l.id].state # "gone"
        /\ Goto(j, [l EXCEPT !.pc = "channels", !.payload = event[l.id].state])
        /\ DbUnchanged /\ UNCHANGED <<status, event, outbox>>

(* What follows Notify once every channel has accepted. *)
Delivered(l) == IF l.path = "firing" THEN [l EXCEPT !.pc = "mark", !.dest = {}]
                                     ELSE NextRule(l)

LoadChannels(j) ==
    LET l == job[j]
        live == {c \in Channels : channel[c] = "live"}
    IN  /\ l.pc = "channels"
        /\ Goto(j, IF live = {} THEN Delivered(l)
                   ELSE [l EXCEPT !.pc = "send", !.dest = live])
        /\ DbUnchanged /\ UNCHANGED <<status, event, outbox>>

Accepted(e, c, path) ==
    \E d \in outbox : d.event = e /\ d.channel = c /\ d.path = path

Request(l, c) == [event |-> l.id, channel |-> c, path |-> l.path, state |-> l.payload]

(* One channel accepts the request (2xx). *)
AfterSend(l, c) == IF l.dest = {c} THEN Delivered(l) ELSE [l EXCEPT !.dest = @ \ {c}]

Send(j, c) ==
    LET l == job[j]
    IN  /\ l.pc = "send" /\ c \in l.dest
        /\ outbox' = outbox \cup {Request(l, c)}
        /\ Goto(j, AfterSend(l, c))
        /\ DbUnchanged /\ UNCHANGED <<status, event>>

(* A channel refuses or does not answer in 5 s: the error ends the whole   *)
(* evaluation, the other channels and the other rules included.            *)
SendFails(j, c) ==
    /\ job[j].pc = "send" /\ c \in job[j].dest
    /\ Goto(j, IdleJob)
    /\ DbUnchanged /\ UNCHANGED <<status, event, outbox>>

(* UPDATE ... SET notified_at after every channel accepted. *)
MarkNotified(j) ==
    LET l == job[j]
    IN  /\ l.pc = "mark"
        /\ event' = IF event[l.id].state = "gone" THEN event
                    ELSE [event EXCEPT ![l.id].notified = l.at]
        /\ Goto(j, NextRule(l))
        /\ DbUnchanged /\ UNCHANGED <<status, outbox>>

(* The statement violates the unique index or the foreign key, or finds no *)
(* row to render: the error ends the evaluation.                           *)
StatementFails(j) ==
    LET l == job[j]
    IN  /\ \/ /\ l.pc = "insert"
              /\ rule[l.cur].row # "live" \/ OpenOf(l.cur) # {}
           \/ /\ l.pc = "promote"
              /\ event[l.id].state # "gone" /\ ~IndexAdmits(event[l.id].rule, l.id)
           \/ /\ l.pc = "render" /\ event[l.id].state = "gone"
        /\ Goto(j, IdleJob)
        /\ DbUnchanged /\ UNCHANGED <<status, event, outbox>>

(* The request is cancelled, the database refuses, or the process stops    *)
(* between two statements.                                                 *)
Abort(j) ==
    /\ job[j].pc # "idle" /\ ~LoopOver(j)
    /\ Goto(j, IdleJob)
    /\ DbUnchanged /\ UNCHANGED <<status, event, outbox>>

-----------------------------------------------------------------------------
(* Operators, heartbeats and time.                                         *)

Edit == edits < MaxEdits /\ edits' = edits + 1

CreateRule(r, w, c) ==
    /\ rule[r].row = "new"
    /\ rule' = [rule EXCEPT ![r] = [row |-> "live", enabled |-> TRUE,
                                    window |-> w, cooldown |-> c]]
    /\ UNCHANGED <<clock, lastSeen, status, event, channel, job, edits, outbox>>

(* PATCH of a rule: any field may change; open incidents are left alone.   *)
UpdateRule(r, on, w, c) ==
    /\ Edit
    /\ rule[r].row = "live"
    /\ rule' = [rule EXCEPT ![r] = [row |-> "live", enabled |-> on,
                                    window |-> w, cooldown |-> c]]
    /\ UNCHANGED <<clock, lastSeen, status, event, channel, job, outbox>>

(* DELETE of a rule takes its incidents with it (ON DELETE CASCADE); the   *)
(* status of the server is not recomputed.                                 *)
DeleteRule(r) ==
    /\ Edit
    /\ rule[r].row = "live"
    /\ rule' = [rule EXCEPT ![r] = [NewRule EXCEPT !.row = "gone"]]
    /\ event' = [e \in Events |-> IF event[e].rule = r
                                  THEN [NewEvent EXCEPT !.state = "gone"]
                                  ELSE event[e]]
    /\ UNCHANGED <<clock, lastSeen, status, channel, job, outbox>>

CreateChannel(c) ==
    /\ Edit
    /\ channel[c] = "new"
    /\ channel' = [channel EXCEPT ![c] = "live"]
    /\ UNCHANGED <<clock, lastSeen, status, rule, event, job, outbox>>

DeleteChannel(c) ==
    /\ Edit
    /\ channel[c] = "live"
    /\ channel' = [channel EXCEPT ![c] = "gone"]
    /\ UNCHANGED <<clock, lastSeen, status, rule, event, job, outbox>>

(* PATCH of a server with maintenance set: leaving maintenance looks at    *)
(* last_seen_at only, not at incidents.                                    *)
SetMaintenance(s, on) ==
    /\ Edit
    /\ status' = [status EXCEPT ![s] =
          CASE on -> "maintenance"
            [] ~on /\ lastSeen[s] # Null /\ clock - lastSeen[s] < OfflineAfter -> "online"
            [] OTHER -> "offline"]
    /\ UNCHANGED <<clock, lastSeen, rule, event, channel, job, outbox>>

Heartbeat(s) ==
    /\ lastSeen' = [lastSeen EXCEPT ![s] = clock]
    /\ status' = [status EXCEPT ![s] = KeepMaintenance(s, AlertStatus(s))]
    /\ UNCHANGED <<clock, rule, event, channel, job, edits, outbox>>

Tick ==
    /\ clock < MaxTime
    /\ clock' = clock + 1
    /\ UNCHANGED <<lastSeen, status, rule, event, channel, job, edits, outbox>>

-----------------------------------------------------------------------------
Evaluate(j) ==
    \/ LoadRules(j)
    \/ Finish(j)
    \/ \E r \in Rules :
          \/ \E v \in Severities \cup {"critical"} :
                \/ LookupNone(j, r, v)
                \/ \E e \in Events : LookupOpen(j, r, v, e)
          \/ ResolveNone(j, r)
          \/ \E e \in Events : ResolveOpen(j, r, e)
    \/ \E e \in Events : InsertEvent(j, e)
    \/ Promote(j)
    \/ Refresh(j)
    \/ Sync(j)
    \/ Cooldown(j)
    \/ Render(j)
    \/ LoadChannels(j)
    \/ \E c \in Channels : Send(j, c)
    \/ MarkNotified(j)
    \/ StatementFails(j)

Interrupt(j) == Abort(j) \/ \E c \in Channels : SendFails(j, c)

Arrive ==
    \/ \E h \in Handlers, s \in Servers, t \in 0..(MaxTime + MaxLead) : Ingest(h, s, t)
    \/ \E m \in Monitors : MonitorTick(m)
    \/ \E s \in Servers : Heartbeat(s)

Operate ==
    \/ \E r \in Rules, w \in Windows, c \in Cooldowns :
          \/ CreateRule(r, w, c)
          \/ \E on \in BOOLEAN : UpdateRule(r, on, w, c)
    \/ \E r \in Rules : DeleteRule(r)
    \/ \E c \in Channels : CreateChannel(c) \/ DeleteChannel(c)
    \/ \E s \in Servers, on \in BOOLEAN : SetMaintenance(s, on)

Next ==
    \/ Arrive
    \/ \E j \in Jobs : Evaluate(j) \/ Interrupt(j)
    \/ Operate
    \/ Tick

Spec == Init /\ [][Next]_vars

-----------------------------------------------------------------------------
(* Properties that hold however evaluators interleave and fail.            *)

(* A rule has at most one open incident, whatever two evaluators read      *)
(* before they inserted or promoted (service.go:238-264).                  *)
OneOpenIncident ==
    \A e, f \in Events : /\ event[e].rule = event[f].rule
                         /\ event[e].state \in Open /\ event[f].state \in Open
                         => e = f

(* A receiver that was configured all along is sent the recovery of an     *)
(* incident only if it accepted the announcement before: resolve notifies  *)
(* only what notified_at says was announced, and notified_at is written    *)
(* only after every channel accepted (service.go:287-302, 316-329).        *)
RecoveryFollowsNotice ==
    \A d \in outbox : d.path = "resolved" /\ d.channel \in Standing =>
        Accepted(d.event, d.channel, "firing")

-----------------------------------------------------------------------------
(* Properties of the ordinary regime, in which the agent of a server waits *)
(* for one request before it makes the next, so that each rule has one     *)
(* evaluator at a time.  Evaluators still fail between any two statements. *)

(* A resolved incident stays resolved (UPDATE of service.go:260).          *)
ResolvedIsFinal ==
    [][\A e \in Events : event[e].state = "resolved" =>
            event'[e].state \in {"resolved", "gone"}]_vars

(* An incident as its readers see it (service.go:237-302): its phase, and  *)
(* the states that webhooks have told of it.                               *)
PhaseOf(row) ==
    CASE row.state = "new" -> "none"
      [] row.state = "pending" -> "pending"
      [] row.state = "firing" -> IF row.notified = Null THEN "firing" ELSE "announced"
      [] row.state = "resolved" -> IF row.notified = Null THEN "resolved" ELSE "recovered"
      [] row.state = "gone" -> "deleted"

Heard(e) == {d.state : d \in {n \in outbox : n.event = e}}

Life == INSTANCE Incidents WITH
    phase <- [e \in Events |-> PhaseOf(event[e])],
    owner <- [e \in Events |-> event[e].rule],
    told <- [e \in Events |-> Heard(e)]

(* The statements of evaluations, which fail anywhere, amount to whole     *)
(* steps in the life of an incident: begin, fire, be announced, be         *)
(* resolved, in that order, with webhooks that tell of the state it is in  *)
(* (README.md:15, service.go:237-345).                                     *)
IncidentsInOrder == Life!Spec

(* A notification says what it is for: the row notify reads again still    *)
(* has the state that made the evaluator notify (service.go:331-338).      *)
PayloadMatchesPath == \A d \in outbox : d.state = d.path

(* Once notified_at is recorded no request announces the incident again    *)
(* (service.go:271-276, 325-328).                                          *)
AnnouncementEnds ==
    \A j \in Jobs : job[j].pc = "send" /\ job[j].path = "firing" =>
        event[job[j].id].notified = Null

(* Two incidents of one rule are announced at least cooldown_seconds apart *)
(* (service.go:317-324), while nobody edits the cooldown of the rule.      *)
CooldownKept ==
    \A e, f \in Events :
        /\ e # f /\ event[e].rule = event[f].rule
        /\ event[e].notified # Null /\ event[f].notified # Null
        /\ event[e].notified <= event[f].notified
        => event[f].notified - event[e].notified >= rule[event[e].rule].cooldown

(* No incident is announced before its breach has lasted the evaluation    *)
(* window (service.go:241, 259), while nobody edits that window.           *)
WindowKept ==
    \A e \in Events : event[e].notified # Null =>
        event[e].notified - event[e].trig >= rule[event[e].rule].window

-----------------------------------------------------------------------------
(* Liveness.  Evaluators run, the agent keeps sending samples and          *)
(* heartbeats (runner.go:45-67), the monitor keeps ticking (main.go:122).  *)
Fairness ==
    /\ \A j \in Jobs : WF_vars(Evaluate(j))
    /\ \A s \in Servers : WF_vars(\E h \in Handlers : Ingest(h, s, clock))
    /\ \A s \in Servers : WF_vars(Heartbeat(s))
    /\ \A m \in Monitors : WF_vars(MonitorTick(m))

FairSpec == Spec /\ Fairness

InterruptsCease == <>[][\A j \in Jobs : ~Interrupt(j)]_vars

(* If failures stop, an incident that keeps firing is announced, unless    *)
(* its rule is switched off or its cooldown is in effect: an evaluation    *)
(* cut short is made good by a later one (service.go:271-276).             *)
FiringIsAnnounced ==
    InterruptsCease => \A e \in Events :
        (event[e].state = "firing" /\ event[e].notified = Null) ~>
            \/ event[e].state # "firing" \/ event[e].notified # Null
            \/ ~rule[event[e].rule].enabled
            \/ RecentlyNotified(event[e].rule, e, clock, rule[event[e].rule].cooldown)

(* A server with a critical incident does not stay displayed as healthy,   *)
(* although every accepted sample writes 'online' (metrics/service.go:135): *)
(* a heartbeat or an evaluation puts the status right.                     *)
IncidentIsShown ==
    \A s \in Servers :
        IncidentFiring(s, "critical") ~>
            status[s] \in {"degraded", "maintenance"} \/ ~IncidentFiring(s, "critical")

(* A server whose incidents are gone does not stay displayed as degraded,  *)
(* even when they went with a deleted rule (service.go:123-141), or when   *)
(* the evaluation that resolved them stopped before syncServerStatus.      *)
RecoveryIsShown ==
    \A s \in Servers :
        status[s] = "degraded" /\ ~IncidentFiring(s, "critical") ~>
            status[s] # "degraded" \/ IncidentFiring(s, "critical")
=============================================================================
