------------------------ MODULE AlertOrdinaryProofs ------------------------
(***************************************************************************)
(* Proofs about the ordinary regime of AlertLifecycle, in which no two     *)
(* evaluators work on one rule at a time: the agent of a server waits for  *)
(* the answer to one sample before it sends the next (runner.go:45-67),    *)
(* and one goroutine evaluates the connectivity rules (main.go:122).  Any  *)
(* number of servers may be evaluated at once, and every evaluation may    *)
(* still fail between any two statements.  The regime is a hypothesis,     *)
(* []OneEvaluatorPerRule; OneByOne shows that instances with one handler   *)
(* and one monitor are in it.                                              *)
(***************************************************************************)
EXTENDS AlertLifecycleProofs, AlertOrdered

-----------------------------------------------------------------------------
(* The regime.                                                             *)

(* The rules that an evaluation has yet to evaluate, and the one it is at. *)
Claims(j) ==
    {r \in Rules : \/ r \in job[j].todo \cup {job[j].cur}
                   \/ /\ job[j].pc = "load" /\ ServerOf[r] \in job[j].scope
                      /\ r \in Connectivity <=> j \in Monitors}

OneEvaluatorPerRule == \A j, k \in Jobs : j # k => Claims(j) \cap Claims(k) = {}

(* No operator changes the window or the cooldown of a rule.  Rules may    *)
(* still be created, switched on and off, and deleted.                     *)
NoRetuning ==
    \A r \in Rules : rule[r].row = "live" /\ rule'[r].row = "live" =>
        /\ rule'[r].window = rule[r].window
        /\ rule'[r].cooldown = rule[r].cooldown

-----------------------------------------------------------------------------
(* What each statement of an evaluator does to the evaluator's own locals, *)
(* field by field; the other proofs cite these and no record.              *)

SameRun(j) == job'[j].at = job[j].at /\ job'[j].rules = job[j].rules

(* The evaluator goes on with the same incident. *)
SameIncident(j) ==
    /\ SameRun(j)
    /\ job'[j].todo = job[j].todo /\ job'[j].cur = job[j].cur
    /\ job'[j].id = job[j].id /\ job'[j].path = job[j].path

(* The evaluator is done with a rule. *)
RuleDone(j) ==
    /\ SameRun(j)
    /\ job'[j].pc = "next" /\ job'[j].cur = Null
    /\ job'[j].todo = job[j].todo

(* The evaluator takes up rule r. *)
TakesUp(j, r) ==
    /\ SameRun(j)
    /\ job'[j].todo = job[j].todo \ {r} /\ job'[j].cur = r

(* An evaluation that is over. *)
AtRest(j) ==
    /\ job'[j].pc = "idle" /\ job'[j].cur = Null /\ job'[j].todo = {}
    /\ job'[j].at = 0

LEMMA GotoIs ==
  ASSUME TypeInv, NEW j \in Jobs, NEW l, Goto(j, l)
  PROVE  job'[j] = l /\ \A k \in Jobs \ {j} : job'[k] = job[k]
BY DEF Goto, TypeInv, TypeOK

LEMMA IdleFields ==
  ASSUME TypeInv, NEW j \in Jobs, Goto(j, IdleJob)
  PROVE  AtRest(j)
BY GotoIs DEF AtRest, IdleJob

LEMMA NextFields ==
  ASSUME TypeInv, NEW j \in Jobs, Goto(j, NextRule(job[j]))
  PROVE  RuleDone(j)
<1>1. job'[j] = NextRule(job[j])
  BY GotoIs
<1>2. QED
  BY <1>1 DEF RuleDone, SameRun, NextRule, IdleJob

LEMMA DeliveredFields ==
  ASSUME TypeInv, NEW j \in Jobs, Goto(j, Delivered(job[j]))
  PROVE  \/ job[j].path = "firing" /\ job'[j].pc = "mark" /\ SameIncident(j)
         \/ RuleDone(j)
<1>1. job[j] \in Local
  BY DEF TypeInv, TypeOK
<1>2. CASE job[j].path = "firing"
  <2>1. job'[j] = [job[j] EXCEPT !.pc = "mark", !.dest = {}]
    BY <1>2, GotoIs DEF Delivered
  <2>2. QED
    BY <1>1, <1>2, <2>1 DEF SameIncident, SameRun, Local
<1>3. CASE job[j].path # "firing"
  BY <1>3, NextFields DEF Delivered
<1>4. QED
  BY <1>2, <1>3

LEMMA LoadFields ==
  ASSUME TypeInv, NEW j \in Jobs, LoadRules(j)
  PROVE  /\ job[j].pc = "load"
         /\ job'[j].pc = "next" /\ job'[j].cur = Null
         /\ job'[j].rules = rule
         /\ job'[j].at = IF j \in Monitors THEN clock ELSE job[j].at
         /\ \A r \in job'[j].todo : /\ r \in Rules /\ rule[r].row = "live"
                                    /\ ServerOf[r] \in job[j].scope
                                    /\ r \in Connectivity <=> j \in Monitors
<1> DEFINE kind == IF j \in Monitors THEN Connectivity ELSE Rules \ Connectivity
           live == {r \in kind : /\ rule[r].row = "live" /\ rule[r].enabled
                                 /\ ServerOf[r] \in job[j].scope}
           at == IF j \in Monitors THEN clock ELSE job[j].at
           seen == IF j \in Monitors THEN SeenOrEnrolled ELSE job[j].seen
<1>1. Goto(j, [IdleJob EXCEPT !.pc = "next", !.at = at, !.todo = live,
                              !.rules = rule, !.seen = seen])
  BY DEF LoadRules
<1>2. \A r \in live : /\ r \in Rules /\ rule[r].row = "live"
                      /\ ServerOf[r] \in job[j].scope
                      /\ r \in Connectivity <=> j \in Monitors
  BY ConstantsAssumption
<1>3. job[j].pc = "load"
  BY DEF LoadRules
<1> HIDE DEF live, seen
<1>4. job'[j] = [IdleJob EXCEPT !.pc = "next", !.at = at, !.todo = live,
                                !.rules = rule, !.seen = seen]
  BY <1>1, GotoIs
<1>5. QED
  BY <1>2, <1>3, <1>4 DEF IdleJob

LEMMA LookupNoneFields ==
  ASSUME TypeInv, NEW j \in Jobs, NEW r \in Rules, NEW v, LookupNone(j, r, v)
  PROVE  TakesUp(j, r) /\ job'[j].pc = "insert"
<1>1. job[j] \in Local
  BY DEF TypeInv, TypeOK
<1>2. job'[j] = [job[j] EXCEPT !.pc = "insert", !.todo = @ \ {r}, !.cur = r,
                               !.sev = v, !.since = BreachSince(j, r)]
  BY GotoIs DEF LookupNone
<1>3. QED
  BY <1>1, <1>2 DEF TakesUp, SameRun, Local

LEMMA LookupOpenFields ==
  ASSUME TypeInv, NEW j \in Jobs, NEW r \in Rules, NEW v, NEW e \in Events,
         LookupOpen(j, r, v, e)
  PROVE  /\ TakesUp(j, r) /\ job'[j].id = e
         /\ \/ /\ event[e].state = "pending" /\ Due(j, r, event[e].trig)
               /\ job'[j].pc = "promote" /\ job'[j].path = "firing"
            \/ /\ job'[j].pc = "refresh" /\ job'[j].prior = event[e].state
               /\ \/ job'[j].path = "none"
                  \/ /\ job'[j].path = "firing" /\ event[e].state = "firing"
                     /\ event[e].notified = Null
<1>1. job[j] \in Local
  BY DEF TypeInv, TypeOK
<1> DEFINE promoting == event[e].state = "pending" /\ Due(j, r, event[e].trig)
           pc == IF promoting THEN "promote" ELSE "refresh"
           path == IF NeedsNotice(event[e], promoting) THEN "firing" ELSE "none"
<1>2. job'[j] = [job[j] EXCEPT !.pc = pc, !.todo = @ \ {r}, !.cur = r, !.sev = v,
                               !.id = e, !.prior = event[e].state, !.path = path]
  BY GotoIs DEF LookupOpen
<1>3. \/ promoting /\ pc = "promote" /\ path = "firing"
      \/ pc = "refresh" /\ path = "none"
      \/ /\ pc = "refresh" /\ path = "firing"
         /\ event[e].state = "firing" /\ event[e].notified = Null
  BY DEF NeedsNotice
<1>4. promoting => event[e].state = "pending" /\ Due(j, r, event[e].trig)
  OBVIOUS
<1> HIDE DEF pc, path, promoting
<1>5. /\ TakesUp(j, r) /\ job'[j].id = e /\ job'[j].prior = event[e].state
      /\ job'[j].pc = pc /\ job'[j].path = path
  BY <1>1, <1>2 DEF TakesUp, SameRun, Local
<1>6. QED
  BY <1>3, <1>4, <1>5

LEMMA InsertFields ==
  ASSUME TypeInv, NEW j \in Jobs, NEW e \in Events, InsertEvent(j, e)
  PROVE  /\ event[e].state = "new" /\ \A f \in Events \ {e} : event'[f] = event[f]
         /\ event'[e].rule = job[j].cur /\ event'[e].notified = Null
         /\ event'[e].trig = job[j].since
         /\ \/ /\ event'[e].state = "firing" /\ Due(j, job[j].cur, job[j].since)
               /\ SameRun(j) /\ job'[j].todo = job[j].todo /\ job'[j].cur = job[j].cur
               /\ job'[j].pc = "sync" /\ job'[j].id = e /\ job'[j].path = "firing"
            \/ event'[e].state = "pending" /\ RuleDone(j)
<1> DEFINE l == job[j]
           firing == Due(j, l.cur, l.since)
<1>1. event \in [Events -> EventRow] /\ l \in Local
  BY DEF TypeInv, TypeOK
<1>2. event[e].state = "new"
  BY DEF InsertEvent, FreshRow
<1>3. event' = [event EXCEPT ![e] =
          [rule |-> l.cur, sev |-> l.sev, notified |-> Null, trig |-> l.since,
           state |-> IF firing THEN "firing" ELSE "pending"]]
  BY DEF InsertEvent
<1>4. /\ \A f \in Events \ {e} : event'[f] = event[f]
      /\ event'[e].rule = l.cur /\ event'[e].notified = Null
      /\ event'[e].trig = l.since
      /\ event'[e].state = IF firing THEN "firing" ELSE "pending"
  BY <1>1, <1>3
<1>5. CASE firing
  <2>1. job'[j] = [l EXCEPT !.pc = "sync", !.id = e, !.path = "firing"]
    BY <1>5, GotoIs DEF InsertEvent
  <2>2. /\ SameRun(j) /\ job'[j].todo = l.todo /\ job'[j].cur = l.cur
        /\ job'[j].pc = "sync" /\ job'[j].id = e /\ job'[j].path = "firing"
    BY <1>1, <2>1 DEF SameRun, Local
  <2>3. QED
    BY <1>2, <1>4, <1>5, <2>2
<1>6. CASE ~firing
  <2>1. RuleDone(j)
    BY <1>6, NextFields DEF InsertEvent
  <2>2. QED
    BY <1>2, <1>4, <1>6, <2>1
<1>7. QED
  BY <1>5, <1>6

(* An update of an incident by id: a deleted row is left alone. *)
Updates(e, row) ==
    \/ event[e].state = "gone" /\ UNCHANGED event
    \/ /\ event[e].state # "gone" /\ event'[e] = row
       /\ \A f \in Events \ {e} : event'[f] = event[f]

LEMMA PromoteFields ==
  ASSUME TypeInv, NEW j \in Jobs, Promote(j)
  PROVE  /\ job[j].pc = "promote" /\ job'[j].pc = "sync" /\ SameIncident(j)
         /\ job[j].id \in Events
         /\ \E row : /\ Updates(job[j].id, row)
                     /\ row.state = "firing" /\ row.rule = event[job[j].id].rule
                     /\ row.trig = event[job[j].id].trig
                     /\ row.notified = event[job[j].id].notified
<1> DEFINE l == job[j]
<1>1. event \in [Events -> EventRow] /\ l \in Local /\ HoldsId(l)
  BY DEF TypeInv, TypeOK
<1>2. l.pc = "promote" /\ l.id \in Events
  BY <1>1 DEF Promote, HoldsId, HasIncident
<1>3. job'[j] = [l EXCEPT !.pc = "sync"]
  BY GotoIs DEF Promote
<1>4. job'[j].pc = "sync" /\ SameIncident(j)
  BY <1>1, <1>3 DEF SameIncident, SameRun, Local
<1>5. PICK row : row = PromotedRow(event[l.id], l)
  OBVIOUS
<1>6. /\ row.state = "firing" /\ row.rule = event[l.id].rule
      /\ row.trig = event[l.id].trig /\ row.notified = event[l.id].notified
  BY <1>1, <1>2, <1>5 DEF PromotedRow, EventRow
<1>7. Updates(l.id, row)
  BY <1>1, <1>2, <1>5 DEF Promote, Updates
<1>8. QED
  BY <1>2, <1>4, <1>6, <1>7

LEMMA RefreshFields ==
  ASSUME TypeInv, NEW j \in Jobs, Refresh(j)
  PROVE  /\ job[j].pc = "refresh" /\ job[j].id \in Events
         /\ \/ job[j].prior = "firing" /\ job'[j].pc = "sync" /\ SameIncident(j)
            \/ RuleDone(j)
         /\ \E row : /\ Updates(job[j].id, row)
                     /\ row.state = event[job[j].id].state
                     /\ row.rule = event[job[j].id].rule
                     /\ row.trig = event[job[j].id].trig
                     /\ row.notified = event[job[j].id].notified
<1> DEFINE l == job[j]
<1>1. event \in [Events -> EventRow] /\ l \in Local /\ HoldsId(l)
  BY DEF TypeInv, TypeOK
<1>2. l.pc = "refresh" /\ l.id \in Events
  BY <1>1 DEF Refresh, HoldsId, HasIncident
<1>3. ASSUME l.prior = "firing"
      PROVE  job'[j].pc = "sync" /\ SameIncident(j)
  <2>1. job'[j] = [l EXCEPT !.pc = "sync"]
    BY <1>3, GotoIs DEF Refresh
  <2>2. QED
    BY <1>1, <2>1 DEF SameIncident, SameRun, Local
<1>4. ASSUME l.prior # "firing"
      PROVE  RuleDone(j)
  BY <1>4, NextFields DEF Refresh
<1>5. PICK row : row = [event[l.id] EXCEPT !.sev = l.sev]
  OBVIOUS
<1>6. /\ row.state = event[l.id].state /\ row.rule = event[l.id].rule
      /\ row.trig = event[l.id].trig /\ row.notified = event[l.id].notified
  BY <1>1, <1>2, <1>5 DEF EventRow
<1>7. Updates(l.id, row)
  BY <1>1, <1>2, <1>5 DEF Refresh, Updates
<1>8. QED
  BY <1>2, <1>3, <1>4, <1>6, <1>7

LEMMA ResolveNoneFields ==
  ASSUME TypeInv, NEW j \in Jobs, NEW r \in Rules, ResolveNone(j, r)
  PROVE  /\ SameRun(j) /\ job'[j].todo = job[j].todo \ {r}
         /\ job'[j].pc = "next" /\ job'[j].cur = Null
<1>1. job[j] \in Local
  BY DEF TypeInv, TypeOK
<1> DEFINE mid == [job[j] EXCEPT !.todo = @ \ {r}]
<1>2. mid.at = job[j].at /\ mid.rules = job[j].rules /\ mid.todo = job[j].todo \ {r}
  BY <1>1 DEF Local
<1>3. job'[j] = NextRule(mid)
  BY GotoIs DEF ResolveNone
<1> HIDE DEF mid
<1>4. QED
  BY <1>2, <1>3 DEF SameRun, NextRule, IdleJob

LEMMA ResolveOpenFields ==
  ASSUME TypeInv, NEW j \in Jobs, NEW r \in Rules, NEW e \in Events, ResolveOpen(j, r, e)
  PROVE  /\ TakesUp(j, r) /\ job'[j].pc = "sync" /\ job'[j].id = e
         /\ job'[j].path \in {"none", "resolved"}
         /\ job'[j].path = "resolved" => event[e].notified # Null
         /\ \A f \in Events \ {e} : event'[f] = event[f]
         /\ event'[e].state = "resolved" /\ event'[e].rule = event[e].rule
         /\ event'[e].trig = event[e].trig /\ event'[e].notified = event[e].notified
<1>1. event \in [Events -> EventRow] /\ job[j] \in Local
  BY DEF TypeInv, TypeOK
<1> DEFINE path == IF Announced(event[e]) THEN "resolved" ELSE "none"
<1>2. job'[j] = [job[j] EXCEPT !.pc = "sync", !.todo = @ \ {r}, !.cur = r, !.id = e,
                               !.path = path]
  BY GotoIs DEF ResolveOpen
<1>3. path \in {"none", "resolved"} /\ (path = "resolved" => event[e].notified # Null)
  BY DEF Announced
<1> HIDE DEF path
<1>4. /\ TakesUp(j, r) /\ job'[j].pc = "sync" /\ job'[j].id = e
      /\ job'[j].path \in {"none", "resolved"}
      /\ job'[j].path = "resolved" => event[e].notified # Null
  BY <1>1, <1>2, <1>3 DEF TakesUp, SameRun, Local
<1>5. event' = [event EXCEPT ![e].state = "resolved"]
  BY DEF ResolveOpen
<1>6. QED
  BY <1>1, <1>4, <1>5 DEF EventRow

LEMMA SyncFields ==
  ASSUME TypeInv, NEW j \in Jobs, Sync(j)
  PROVE  /\ job[j].pc = "sync"
         /\ \/ job[j].path = "firing" /\ job'[j].pc = "cooldown" /\ SameIncident(j)
            \/ job[j].path = "resolved" /\ job'[j].pc = "render" /\ SameIncident(j)
            \/ RuleDone(j)
<1> DEFINE l == job[j]
<1>1. l \in Local
  BY DEF TypeInv, TypeOK
<1>2. ASSUME NEW pc, job'[j] = [l EXCEPT !.pc = pc]
      PROVE  SameIncident(j) /\ job'[j].pc = pc
  BY <1>1, <1>2 DEF SameIncident, SameRun, Local
<1>3. CASE l.path = "firing"
  <2>1. job'[j] = [l EXCEPT !.pc = "cooldown"]
    BY <1>3, GotoIs DEF Sync
  <2>2. QED
    BY <1>2, <1>3, <2>1 DEF Sync
<1>4. CASE l.path = "resolved"
  <2>1. job'[j] = [l EXCEPT !.pc = "render"]
    BY <1>4, GotoIs DEF Sync
  <2>2. QED
    BY <1>2, <1>4, <2>1 DEF Sync
<1>5. CASE l.path \notin {"firing", "resolved"}
  BY <1>5, NextFields DEF Sync
<1>6. QED
  BY <1>3, <1>4, <1>5

LEMMA CooldownFields ==
  ASSUME TypeInv, NEW j \in Jobs, Cooldown(j)
  PROVE  /\ job[j].pc = "cooldown"
         /\ \/ /\ job'[j].pc = "render" /\ SameIncident(j)
               /\ ~RecentlyNotified(job[j].cur, job[j].id, job[j].at,
                                    job[j].rules[job[j].cur].cooldown)
            \/ RuleDone(j)
<1> DEFINE l == job[j]
           recent == RecentlyNotified(l.cur, l.id, l.at, l.rules[l.cur].cooldown)
<1>1. l \in Local
  BY DEF TypeInv, TypeOK
<1>2. l.pc = "cooldown" /\ Goto(j, IF recent THEN NextRule(l) ELSE [l EXCEPT !.pc = "render"])
  BY DEF Cooldown
<1> HIDE DEF recent
<1>3. CASE recent
  BY <1>2, <1>3, NextFields
<1>4. CASE ~recent
  <2>1. job'[j] = [l EXCEPT !.pc = "render"]
    BY <1>2, <1>4, GotoIs
  <2>2. job'[j].pc = "render" /\ SameIncident(j)
    BY <1>1, <2>1 DEF SameIncident, SameRun, Local
  <2>3. QED
    BY <1>2, <1>4, <2>2 DEF recent
<1>5. QED
  BY <1>2, <1>3, <1>4

LEMMA RenderFields ==
  ASSUME TypeInv, NEW j \in Jobs, Render(j)
  PROVE  /\ job[j].pc = "render" /\ event[job[j].id].state # "gone"
         /\ job'[j].pc = "channels" /\ SameIncident(j)
         /\ job'[j].payload = event[job[j].id].state
<1>1. job[j] \in Local
  BY DEF TypeInv, TypeOK
<1>2. job'[j] = [job[j] EXCEPT !.pc = "channels", !.payload = event[job[j].id].state]
  BY GotoIs DEF Render
<1>3. QED
  BY <1>1, <1>2 DEF Render, SameIncident, SameRun, Local

LEMMA LoadChannelsFields ==
  ASSUME TypeInv, NEW j \in Jobs, LoadChannels(j)
  PROVE  /\ job[j].pc = "channels"
         /\ \/ /\ job'[j].pc = "send" /\ SameIncident(j)
               /\ job'[j].payload = job[j].payload
            \/ job[j].path = "firing" /\ job'[j].pc = "mark" /\ SameIncident(j)
            \/ RuleDone(j)
<1> DEFINE live == {c \in Channels : channel[c] = "live"}
<1>1. job[j] \in Local
  BY DEF TypeInv, TypeOK
<1>2. CASE live = {}
  BY <1>2, DeliveredFields DEF LoadChannels
<1>3. CASE live # {}
  <2>1. job'[j] = [job[j] EXCEPT !.pc = "send", !.dest = live]
    BY <1>3, GotoIs DEF LoadChannels
  <2> HIDE DEF live
  <2>2. QED
    BY <1>1, <2>1 DEF LoadChannels, SameIncident, SameRun, Local
<1>4. QED
  BY <1>2, <1>3

LEMMA SendFields ==
  ASSUME TypeInv, NEW j \in Jobs, NEW c \in Channels, Send(j, c)
  PROVE  /\ job[j].pc = "send" /\ outbox' = outbox \cup {Request(job[j], c)}
         /\ \/ /\ job'[j].pc = "send" /\ SameIncident(j)
               /\ job'[j].payload = job[j].payload
            \/ job[j].path = "firing" /\ job'[j].pc = "mark" /\ SameIncident(j)
            \/ RuleDone(j)
<1>1. job[j] \in Local /\ job[j].pc = "send"
  BY DEF TypeInv, TypeOK, Send
<1>2. CASE job[j].dest = {c}
  BY <1>2, DeliveredFields DEF Send, AfterSend
<1>3. CASE job[j].dest # {c}
  <2>1. job'[j] = [job[j] EXCEPT !.dest = @ \ {c}]
    BY <1>3, GotoIs DEF Send, AfterSend
  <2>2. QED
    BY <1>1, <2>1 DEF Send, SameIncident, SameRun, Local
<1>4. QED
  BY <1>2, <1>3

LEMMA MarkFields ==
  ASSUME TypeInv, NEW j \in Jobs, MarkNotified(j)
  PROVE  /\ job[j].pc = "mark" /\ RuleDone(j) /\ job[j].id \in Events
         /\ \E row : /\ Updates(job[j].id, row)
                     /\ row.state = event[job[j].id].state
                     /\ row.rule = event[job[j].id].rule
                     /\ row.trig = event[job[j].id].trig
                     /\ row.notified = job[j].at
<1> DEFINE l == job[j]
<1>1. event \in [Events -> EventRow] /\ l \in Local /\ HoldsId(l)
  BY DEF TypeInv, TypeOK
<1>2. l.pc = "mark" /\ l.id \in Events
  BY <1>1 DEF MarkNotified, HoldsId, HasIncident
<1>3. RuleDone(j)
  BY NextFields DEF MarkNotified
<1>4. PICK row : row = [event[l.id] EXCEPT !.notified = l.at]
  OBVIOUS
<1>5. /\ row.state = event[l.id].state /\ row.rule = event[l.id].rule
      /\ row.trig = event[l.id].trig /\ row.notified = l.at
  BY <1>1, <1>2, <1>4 DEF EventRow
<1>6. Updates(l.id, row)
  BY <1>1, <1>2, <1>4 DEF MarkNotified, Updates
<1>7. QED
  BY <1>2, <1>3, <1>5, <1>6

-----------------------------------------------------------------------------
(* Order.  In the regime, what an evaluator read of an incident is still   *)
(* true when it writes: nobody else has moved the incident, although its   *)
(* rule may have been deleted.  The invariant says what that is at each of *)
(* the evaluator's statements.                                             *)

OrderEvent(e) ==
    /\ event[e].state \in {"pending", "firing", "resolved"} =>
          event[e].rule \in Rules /\ rule[event[e].rule].row = "live"
    /\ event[e].state \in {"new", "gone"} => event[e].rule = Null
    /\ event[e].state \in {"new", "pending", "gone"} => event[e].notified = Null

OrderJob(l) ==
    /\ l.pc \in {"idle", "load", "next"} => l.cur = Null
    /\ l.pc \in {"idle", "load"} => l.todo = {}
    /\ l.cur \notin l.todo
    /\ l.pc \in HasIncident \cup {"insert"} => l.cur \in Rules
    /\ l.pc \in HasIncident =>
          /\ event[l.id].state # "new"
          /\ event[l.id].state = "gone" \/ event[l.id].rule = l.cur
          /\ l.path = "firing" => event[l.id].notified = Null
    /\ l.pc = "promote" => l.path = "firing" /\ event[l.id].state \in {"pending", "gone"}
    /\ l.pc = "refresh" => /\ l.path = "none" \/ (l.path = "firing" /\ l.prior = "firing")
                           /\ event[l.id].state \in {l.prior, "gone"}
    /\ l.pc \in {"cooldown", "mark"} => l.path = "firing"
    /\ l.pc \in {"render", "channels", "send"} => l.path \in {"firing", "resolved"}
    /\ l.pc \in HasIncident \ {"promote", "refresh"} /\ l.path # "none" =>
          event[l.id].state \in {l.path, "gone"}
    /\ l.pc \in {"channels", "send"} => l.payload = l.path

OrderInv ==
    /\ \A e \in Events : OrderEvent(e)
    /\ \A j \in Jobs : OrderJob(job[j])
    /\ PayloadMatchesPath

(* A step that touches only new rows and rows of the rules evaluator j     *)
(* claims leaves the incident of every other evaluator alone.              *)
LEMMA OthersUntouched ==
  ASSUME TypeInv, OrderInv, OneEvaluatorPerRule,
         NEW j \in Jobs, NEW k \in Jobs \ {j}, job'[k] = job[k],
         \A e \in Events : \/ event'[e] = event[e]
                           \/ event[e].state = "new" \/ event[e].rule \in Claims(j)
  PROVE  /\ job[k].pc \in HasIncident => event'[job[k].id] = event[job[k].id]
         /\ OrderJob(job[k])'
<1>1. OrderJob(job[k]) /\ HoldsId(job[k])
  BY DEF OrderInv, TypeInv
<1>2. ASSUME job[k].pc \in HasIncident
      PROVE  event'[job[k].id] = event[job[k].id]
  <2>1. /\ job[k].id \in Events /\ job[k].cur \in Claims(k)
        /\ event[job[k].id].state # "new"
        /\ event[job[k].id].state = "gone" \/ event[job[k].id].rule = job[k].cur
    BY <1>1, <1>2 DEF HoldsId, OrderJob, Claims
  <2>2. event[job[k].id].rule \notin Claims(j)
    <3>1. CASE event[job[k].id].rule = job[k].cur
      BY <2>1, <3>1 DEF OneEvaluatorPerRule
    <3>2. CASE event[job[k].id].state = "gone"
      BY <2>1, <3>2, ConstantsAssumption DEF OrderInv, OrderEvent, Claims
    <3>3. QED
      BY <2>1, <3>1, <3>2
  <2>3. QED
    BY <2>1, <2>2
<1>3. CASE job[k].pc \in HasIncident
  BY <1>1, <1>2, <1>3 DEF OrderJob
<1>4. CASE job[k].pc \notin HasIncident
  BY <1>1, <1>4 DEF OrderJob, HasIncident
<1>5. QED
  BY <1>2, <1>3, <1>4

LEMMA OrderFrame ==
  ASSUME TypeInv, OrderInv, OneEvaluatorPerRule, NEW j \in Jobs,
         UNCHANGED rule,
         \A k \in Jobs \ {j} : job'[k] = job[k],
         \A e \in Events :
            \/ event'[e] = event[e]
            \/ OrderEvent(e)' /\ (event[e].state = "new" \/ event[e].rule \in Claims(j)),
         OrderJob(job[j])',
         \A d \in outbox' \ outbox : d.state = d.path
  PROVE  OrderInv'
<1>1. \A k \in Jobs \ {j} : OrderJob(job[k])'
  BY OthersUntouched
<1>2. \A e \in Events : OrderEvent(e)'
  BY DEF OrderInv, OrderEvent
<1>3. PayloadMatchesPath'
  BY DEF OrderInv, PayloadMatchesPath
<1>4. QED
  BY <1>1, <1>2, <1>3 DEF OrderInv

(* An evaluator between two rules, or at rest, relies on nothing. *)
LEMMA RestOrdered ==
  ASSUME NEW j \in Jobs,
         job'[j].pc \in {"idle", "load", "next"}, job'[j].cur = Null,
         job'[j].pc # "next" => job'[j].todo = {},
         Null \notin job'[j].todo
  PROVE  OrderJob(job[j])'
BY DEF OrderJob, HasIncident

(* What evaluator j does to the incident it holds concerns a rule it claims. *)
LEMMA UpdateTouches ==
  ASSUME TypeInv, OrderInv, NEW j \in Jobs, job[j].pc \in HasIncident,
         NEW row, Updates(job[j].id, row)
  PROVE  \A e \in Events : \/ event'[e] = event[e]
                           \/ /\ e = job[j].id /\ event'[e] = row
                              /\ event[e].state # "gone" /\ event[e].state # "new"
                              /\ event[e].rule = job[j].cur /\ event[e].rule \in Claims(j)
<1>1. OrderJob(job[j]) /\ HoldsId(job[j])
  BY DEF OrderInv, TypeInv
<1>2. CASE event[job[j].id].state = "gone"
  BY <1>2 DEF Updates
<1>3. CASE event[job[j].id].state # "gone"
  BY <1>1, <1>3 DEF Updates, OrderJob, Claims
<1>4. QED
  BY <1>2, <1>3

(* Every statement of an evaluator keeps the order. *)
LEMMA EvaluateOrder ==
  ASSUME TypeInv, OrderInv, OneEvaluatorPerRule, NEW j \in Jobs, Evaluate(j)
  PROVE  OrderInv'
<1> DEFINE l == job[j]
           n == job'[j]
<1>1. /\ l \in Local /\ HoldsId(l) /\ OrderJob(l)
      /\ event \in [Events -> EventRow]
      /\ UNCHANGED rule
  BY DEF TypeInv, TypeOK, OrderInv, Evaluate, LoadRules, Finish, LookupNone, LookupOpen,
     ResolveNone, ResolveOpen, InsertEvent, Promote, Refresh, Sync, Cooldown, Render,
     LoadChannels, Send, MarkNotified, StatementFails, DbUnchanged
<1>2. \A k \in Jobs \ {j} : job'[k] = job[k]
  BY GotoIs DEF Evaluate, LoadRules, Finish, LookupNone, LookupOpen,
     ResolveNone, ResolveOpen, InsertEvent, Promote, Refresh, Sync, Cooldown, Render,
     LoadChannels, Send, MarkNotified, StatementFails
<1>3. Null \notin l.todo /\ \A r \in l.todo : r \in Rules /\ r \in Claims(j)
  BY <1>1, ConstantsAssumption DEF Local, Claims
(* A statement that writes no incident and sends nothing. *)
<1>quiet. ASSUME UNCHANGED <<event, outbox>>, OrderJob(job[j])'
          PROVE  OrderInv'
  BY <1>1, <1>2, <1>quiet, OrderFrame
<1>done. ASSUME RuleDone(j)
         PROVE  OrderJob(job[j])'
  BY <1>3, <1>done, RestOrdered DEF RuleDone
<1> HIDE DEF l, n
<1>4. CASE LoadRules(j)
  <2>1. UNCHANGED <<event, outbox>>
    BY <1>4 DEF LoadRules
  <2>2. OrderJob(job[j])'
    BY <1>4, LoadFields, RestOrdered, ConstantsAssumption
  <2>3. QED
    BY <2>1, <2>2, <1>quiet
<1>5. CASE Finish(j) \/ StatementFails(j)
  <2>1. UNCHANGED <<event, outbox>> /\ AtRest(j)
    BY <1>5, IdleFields DEF Finish, StatementFails
  <2>2. OrderJob(job[j])'
    BY <2>1, RestOrdered DEF AtRest
  <2>3. QED
    BY <2>1, <2>2, <1>quiet
<1>6. ASSUME NEW r \in Rules, NEW v, LookupNone(j, r, v)
      PROVE  OrderInv'
  <2>1. UNCHANGED <<event, outbox>>
    BY <1>6 DEF LookupNone
  <2>2. OrderJob(job[j])'
    BY <1>6, LookupNoneFields DEF OrderJob, TakesUp, HasIncident
  <2>3. QED
    BY <2>1, <2>2, <1>quiet
<1>7. ASSUME NEW r \in Rules, NEW v, NEW e \in Events, LookupOpen(j, r, v, e)
      PROVE  OrderInv'
  <2>1. /\ UNCHANGED <<event, outbox>>
        /\ event[e].rule = r /\ event[e].state \in Open
    BY <1>7 DEF LookupOpen, OpenOf
  <2>2. OrderEvent(e)
    BY DEF OrderInv
  <2>3. OrderJob(job[j])'
    BY <1>7, <2>1, <2>2, LookupOpenFields DEF OrderJob, OrderEvent, TakesUp, HasIncident, Open
  <2>4. QED
    BY <2>1, <2>3, <1>quiet
<1>8. ASSUME NEW r \in Rules, ResolveNone(j, r)
      PROVE  OrderInv'
  <2>1. UNCHANGED <<event, outbox>>
    BY <1>8 DEF ResolveNone
  <2>2. OrderJob(job[j])'
    BY <1>3, <1>8, ResolveNoneFields, RestOrdered DEF l
  <2>3. QED
    BY <2>1, <2>2, <1>quiet
<1>9. ASSUME NEW r \in Rules, NEW e \in Events, ResolveOpen(j, r, e)
      PROVE  OrderInv'
  <2>1. /\ UNCHANGED outbox /\ r \in l.todo
        /\ event[e].rule = r /\ event[e].state \in Open
    BY <1>9 DEF ResolveOpen, OpenOf, l
  <2>2. OrderEvent(e) /\ r \in Claims(j)
    BY <1>3, <2>1 DEF OrderInv
  <2>3. OrderEvent(e)'
    BY <1>1, <1>9, <2>1, <2>2, ResolveOpenFields DEF OrderEvent, Open
  <2>4. OrderJob(job[j])'
    BY <1>9, <2>1, ResolveOpenFields DEF OrderJob, TakesUp, HasIncident
  <2>5. QED
    BY <1>1, <1>2, <1>9, <2>1, <2>2, <2>3, <2>4, ResolveOpenFields, OrderFrame
<1>10. ASSUME NEW e \in Events, InsertEvent(j, e)
       PROVE  OrderInv'
  <2>1. UNCHANGED outbox /\ l.pc = "insert" /\ rule[l.cur].row = "live"
    BY <1>10 DEF InsertEvent, l
  <2>2. l.cur \in Rules /\ l.cur \notin l.todo
    BY <1>1, <2>1 DEF OrderJob
  <2>3. OrderEvent(e)'
    BY <1>1, <1>10, <2>1, <2>2, InsertFields DEF OrderEvent, l
  <2>4. OrderJob(job[j])'
    <3>1. CASE RuleDone(j)
      BY <3>1, <1>done
    <3>2. CASE ~RuleDone(j)
      BY <1>10, <2>2, <3>2, InsertFields DEF OrderJob, HasIncident, l
    <3>3. QED
      BY <3>1, <3>2
  <2>5. QED
    BY <1>1, <1>2, <1>10, <2>1, <2>3, <2>4, InsertFields, OrderFrame
<1>11. CASE Promote(j)
  <2>1. /\ l.pc = "promote" /\ n.pc = "sync" /\ SameIncident(j) /\ UNCHANGED outbox
        /\ l.id \in Events
    BY <1>11, PromoteFields DEF Promote, l, n
  <2>2. PICK row : /\ Updates(l.id, row) /\ row.state = "firing"
                   /\ row.rule = event[l.id].rule
                   /\ row.notified = event[l.id].notified
    BY <1>11, PromoteFields DEF l
  <2>3. \A e \in Events : \/ event'[e] = event[e]
                          \/ /\ e = l.id /\ event'[e] = row
                             /\ event[e].state # "gone" /\ event[e].state # "new"
                             /\ event[e].rule = l.cur /\ event[e].rule \in Claims(j)
    BY <2>1, <2>2, UpdateTouches DEF HasIncident, l
  <2>4. \A e \in Events : event'[e] = event[e] \/ OrderEvent(e)'
    BY <1>1, <2>1, <2>2, <2>3 DEF OrderInv, OrderEvent, OrderJob, HasIncident
  <2>5. OrderJob(job[j])'
    BY <1>1, <2>1, <2>2, <2>3 DEF OrderJob, HasIncident, SameIncident, Updates, l, n
  <2>6. QED
    BY <1>1, <1>2, <2>1, <2>3, <2>4, <2>5, OrderFrame
<1>12. CASE Refresh(j)
  <2>1. /\ l.pc = "refresh" /\ l.id \in Events /\ UNCHANGED outbox
        /\ \/ l.prior = "firing" /\ n.pc = "sync" /\ SameIncident(j)
           \/ RuleDone(j)
    BY <1>12, RefreshFields DEF Refresh, l, n
  <2>2. PICK row : /\ Updates(l.id, row) /\ row.state = event[l.id].state
                   /\ row.rule = event[l.id].rule
                   /\ row.notified = event[l.id].notified
    BY <1>12, RefreshFields DEF l
  <2>3. \A e \in Events : \/ event'[e] = event[e]
                          \/ /\ e = l.id /\ event'[e] = row
                             /\ event[e].state # "gone" /\ event[e].state # "new"
                             /\ event[e].rule = l.cur /\ event[e].rule \in Claims(j)
    BY <2>1, <2>2, UpdateTouches DEF HasIncident, l
  <2>4. \A e \in Events : event'[e] = event[e] \/ OrderEvent(e)'
    BY <1>1, <2>1, <2>2, <2>3 DEF OrderInv, OrderEvent, OrderJob, HasIncident
  <2>5. OrderJob(job[j])'
    <3>1. CASE RuleDone(j)
      BY <3>1, <1>done
    <3>2. CASE l.prior = "firing" /\ n.pc = "sync" /\ SameIncident(j)
      BY <1>1, <2>1, <2>2, <2>3, <3>2 DEF OrderJob, HasIncident, SameIncident, Updates, l, n
    <3>3. QED
      BY <2>1, <3>1, <3>2
  <2>6. QED
    BY <1>1, <1>2, <2>1, <2>3, <2>4, <2>5, OrderFrame
<1>13. CASE Sync(j)
  <2>1. UNCHANGED <<event, outbox>>
    BY <1>13 DEF Sync
  <2>2. OrderJob(job[j])'
    <3>1. CASE RuleDone(j)
      BY <3>1, <1>done
    <3>2. CASE ~RuleDone(j)
      BY <1>1, <1>13, <2>1, <3>2, SyncFields DEF OrderJob, HasIncident, SameIncident, l
    <3>3. QED
      BY <3>1, <3>2
  <2>3. QED
    BY <2>1, <2>2, <1>quiet
<1>14. CASE Cooldown(j)
  <2>1. UNCHANGED <<event, outbox>>
    BY <1>14 DEF Cooldown
  <2>2. OrderJob(job[j])'
    <3>1. CASE RuleDone(j)
      BY <3>1, <1>done
    <3>2. CASE ~RuleDone(j)
      BY <1>1, <1>14, <2>1, <3>2, CooldownFields DEF OrderJob, HasIncident, SameIncident, l
    <3>3. QED
      BY <3>1, <3>2
  <2>3. QED
    BY <2>1, <2>2, <1>quiet
<1>15. CASE Render(j)
  <2>1. UNCHANGED <<event, outbox>>
    BY <1>15 DEF Render
  <2>2. OrderJob(job[j])'
    BY <1>1, <1>15, <2>1, RenderFields DEF OrderJob, HasIncident, SameIncident, l
  <2>3. QED
    BY <2>1, <2>2, <1>quiet
<1>16. CASE LoadChannels(j)
  <2>1. UNCHANGED <<event, outbox>>
    BY <1>16 DEF LoadChannels
  <2>2. OrderJob(job[j])'
    <3>1. CASE RuleDone(j)
      BY <3>1, <1>done
    <3>2. CASE ~RuleDone(j)
      BY <1>1, <1>16, <2>1, <3>2, LoadChannelsFields
         DEF OrderJob, HasIncident, SameIncident, l
    <3>3. QED
      BY <3>1, <3>2
  <2>3. QED
    BY <2>1, <2>2, <1>quiet
<1>17. ASSUME NEW c \in Channels, Send(j, c)
       PROVE  OrderInv'
  <2>1. /\ UNCHANGED event /\ l.pc = "send"
        /\ outbox' = outbox \cup {Request(l, c)}
    BY <1>17, SendFields DEF Send, l
  <2>2. OrderJob(job[j])'
    <3>1. CASE RuleDone(j)
      BY <3>1, <1>done
    <3>2. CASE ~RuleDone(j)
      BY <1>1, <1>17, <2>1, <3>2, SendFields DEF OrderJob, HasIncident, SameIncident, l
    <3>3. QED
      BY <3>1, <3>2
  <2>3. Request(l, c).state = Request(l, c).path
    BY <1>1, <2>1 DEF OrderJob, Request
  <2>4. QED
    BY <1>1, <1>2, <2>1, <2>2, <2>3, OrderFrame
<1>18. CASE MarkNotified(j)
  <2>1. l.pc = "mark" /\ l.id \in Events /\ UNCHANGED outbox
    BY <1>18, MarkFields DEF MarkNotified, l
  <2>2. PICK row : /\ Updates(l.id, row) /\ row.state = event[l.id].state
                   /\ row.rule = event[l.id].rule
    BY <1>18, MarkFields DEF l
  <2>3. \A e \in Events : \/ event'[e] = event[e]
                          \/ /\ e = l.id /\ event'[e] = row
                             /\ event[e].state # "gone" /\ event[e].state # "new"
                             /\ event[e].rule = l.cur /\ event[e].rule \in Claims(j)
    BY <2>1, <2>2, UpdateTouches DEF HasIncident, l
  <2>4. \A e \in Events : event'[e] = event[e] \/ OrderEvent(e)'
    BY <1>1, <2>1, <2>2, <2>3 DEF OrderInv, OrderEvent, OrderJob, HasIncident
  <2>5. OrderJob(job[j])'
    BY <1>18, <1>done, MarkFields
  <2>6. QED
    BY <1>1, <1>2, <2>1, <2>3, <2>4, <2>5, OrderFrame
<1>19. QED
  BY <1>4, <1>5, <1>6, <1>7, <1>8, <1>9, <1>10, <1>11, <1>12, <1>13, <1>14, <1>15, <1>16,
     <1>17, <1>18 DEF Evaluate

(* Steps other than an evaluator's statements: evaluators start or stop,   *)
(* rules come and go, the incidents of a deleted rule go with it.          *)
Elsewhere ==
    /\ \A j \in Jobs : \/ job'[j] = job[j]
                       \/ job'[j].pc \in {"idle", "load"} /\ job'[j].cur = Null
                          /\ job'[j].todo = {}
    /\ \A e \in Events : \/ event'[e] = event[e] /\ event'[e].rule = event[e].rule
                            /\ (event[e].rule \in Rules /\ rule[event[e].rule].row = "live"
                                  => rule'[event[e].rule].row = "live")
                         \/ event'[e].state = "gone" /\ event'[e].rule = Null
                            /\ event'[e].notified = Null
    /\ \A r \in Rules : rule[r].row # "new" => rule'[r].row # "new"
    /\ UNCHANGED outbox

LEMMA IngestFields ==
  ASSUME TypeInv, NEW h \in Handlers, NEW s \in Servers, NEW t, Ingest(h, s, t)
  PROVE  /\ job'[h].pc = "load" /\ job'[h].cur = Null /\ job'[h].todo = {}
         /\ job'[h].at = t /\ job'[h].scope = {s}
         /\ \A k \in Jobs \ {h} : job'[k] = job[k]
<1>1. job'[h] = [IdleJob EXCEPT !.pc = "load", !.at = t, !.scope = {s}]
  BY GotoIs DEF Ingest, Jobs
<1>2. \A k \in Jobs \ {h} : job'[k] = job[k]
  BY GotoIs DEF Ingest, Jobs
<1>3. QED
  BY <1>1, <1>2 DEF IdleJob

LEMMA MonitorFields ==
  ASSUME TypeInv, NEW m \in Monitors, MonitorTick(m)
  PROVE  /\ job'[m].pc = "load" /\ job'[m].cur = Null /\ job'[m].todo = {}
         /\ job'[m].at = 0
         /\ \A k \in Jobs \ {m} : job'[k] = job[k]
<1>1. job'[m] = [IdleJob EXCEPT !.pc = "load", !.scope = Servers]
  BY GotoIs DEF MonitorTick, Jobs
<1>2. \A k \in Jobs \ {m} : job'[k] = job[k]
  BY GotoIs DEF MonitorTick, Jobs
<1>3. QED
  BY <1>1, <1>2 DEF IdleJob

LEMMA DeleteFields ==
  ASSUME TypeInv, NEW r \in Rules, DeleteRule(r)
  PROVE  /\ \A e \in Events : \/ event[e].rule # r /\ event'[e] = event[e]
                              \/ /\ event[e].rule = r /\ event'[e].state = "gone"
                                 /\ event'[e].rule = Null /\ event'[e].notified = Null
         /\ \A q \in Rules \ {r} : rule'[q] = rule[q]
         /\ rule'[r].row = "gone"
         /\ UNCHANGED <<job, clock, outbox>>
<1>1. \A e \in Events : event'[e] = IF event[e].rule = r
                                    THEN [NewEvent EXCEPT !.state = "gone"] ELSE event[e]
  BY DEF DeleteRule
<1>2. \A e \in Events : \/ event[e].rule # r /\ event'[e] = event[e]
                        \/ /\ event[e].rule = r /\ event'[e].state = "gone"
                           /\ event'[e].rule = Null /\ event'[e].notified = Null
  BY <1>1 DEF NewEvent
<1>3. rule' = [rule EXCEPT ![r] = [NewRule EXCEPT !.row = "gone"]]
  BY DEF DeleteRule
<1>4. /\ \A q \in Rules \ {r} : rule'[q] = rule[q]
      /\ rule'[r].row = "gone"
  BY <1>3 DEF TypeInv, TypeOK, NewRule
<1>5. QED
  BY <1>2, <1>4 DEF DeleteRule

LEMMA ElsewhereSteps ==
  ASSUME TypeInv, [Next]_vars, \A j \in Jobs : ~Evaluate(j)
  PROVE  Elsewhere
<1>1. CASE UNCHANGED <<job, event, rule, outbox>>
  BY <1>1 DEF Elsewhere
<1>2. ASSUME NEW h \in Handlers, NEW s \in Servers, NEW t, Ingest(h, s, t)
      PROVE  Elsewhere
  BY <1>2, IngestFields DEF Ingest, Elsewhere
<1>3. ASSUME NEW m \in Monitors, MonitorTick(m)
      PROVE  Elsewhere
  BY <1>3, MonitorFields DEF MonitorTick, DbUnchanged, Elsewhere
<1>4. ASSUME NEW j \in Jobs, Interrupt(j)
      PROVE  Elsewhere
  <2>1. Goto(j, IdleJob) /\ UNCHANGED <<event, rule, outbox>>
    BY <1>4 DEF Interrupt, Abort, SendFails, DbUnchanged
  <2>2. AtRest(j) /\ \A k \in Jobs \ {j} : job'[k] = job[k]
    BY <2>1, IdleFields, GotoIs
  <2>3. QED
    BY <2>1, <2>2 DEF AtRest, Elsewhere
<1>5. ASSUME NEW r \in Rules, NEW w \in Windows, NEW c \in Cooldowns,
             \/ CreateRule(r, w, c) \/ \E on \in BOOLEAN : UpdateRule(r, on, w, c)
      PROVE  Elsewhere
  <2>1. UNCHANGED <<job, event, outbox>>
    BY <1>5 DEF CreateRule, UpdateRule
  <2>2. \A q \in Rules : rule'[q] = rule[q] \/ rule'[q].row = "live"
    BY <1>5 DEF CreateRule, UpdateRule, TypeInv, TypeOK
  <2>3. QED
    BY <2>1, <2>2 DEF Elsewhere
<1>6. ASSUME NEW r \in Rules, DeleteRule(r)
      PROVE  Elsewhere
  BY <1>6, DeleteFields DEF Elsewhere
<1>7. CASE Arrive
  BY <1>1, <1>2, <1>3, <1>7 DEF Arrive, Heartbeat
<1>8. CASE Operate
  BY <1>1, <1>5, <1>6, <1>8 DEF Operate, CreateChannel, DeleteChannel, SetMaintenance
<1>9. CASE Tick \/ UNCHANGED vars
  BY <1>1, <1>9 DEF Tick, vars
<1>10. QED
  BY <1>4, <1>7, <1>8, <1>9 DEF Next

(* The invariant is kept by every step from a state of the regime. *)
LEMMA NextOrder ==
  ASSUME TypeInv, OrderInv, OneEvaluatorPerRule, [Next]_vars
  PROVE  OrderInv'
<1>1. ASSUME Elsewhere
      PROVE  OrderInv'
  <2>1. \A e \in Events : OrderEvent(e)'
    BY <1>1 DEF Elsewhere, OrderInv, OrderEvent
  <2>2. ASSUME NEW j \in Jobs
        PROVE  OrderJob(job[j])'
    <3>1. CASE job'[j] = job[j]
      <4>1. OrderJob(job[j]) /\ HoldsId(job[j])
        BY DEF OrderInv, TypeInv
      <4>2. CASE job[j].pc \in HasIncident
        <5>1. job[j].id \in Events
          BY <4>1, <4>2 DEF HoldsId
        <5>2. \/ event'[job[j].id] = event[job[j].id]
              \/ event'[job[j].id].state = "gone" /\ event'[job[j].id].notified = Null
          BY <1>1, <5>1 DEF Elsewhere
        <5>3. QED
          BY <3>1, <4>1, <4>2, <5>2 DEF OrderJob
      <4>3. CASE job[j].pc \notin HasIncident
        BY <3>1, <4>1, <4>3 DEF OrderJob, HasIncident
      <4>4. QED
        BY <4>2, <4>3
    <3>2. CASE job'[j] # job[j]
      BY <1>1, <3>2, RestOrdered DEF Elsewhere
    <3>3. QED
      BY <3>1, <3>2
  <2>3. PayloadMatchesPath'
    BY <1>1 DEF Elsewhere, OrderInv, PayloadMatchesPath
  <2>4. QED
    BY <2>1, <2>2, <2>3 DEF OrderInv
<1>2. QED
  BY <1>1, EvaluateOrder, ElsewhereSteps

LEMMA InitOrder == Init => OrderInv
<1> SUFFICES ASSUME Init PROVE OrderInv
  OBVIOUS
<1>1. \A e \in Events : OrderEvent(e)
  BY DEF Init, NewEvent, OrderEvent
<1>2. \A j \in Jobs : OrderJob(job[j])
  BY DEF Init, IdleJob, OrderJob, HasIncident
<1>3. QED
  BY <1>1, <1>2 DEF Init, OrderInv, PayloadMatchesPath

LEMMA OrderAlways == Spec /\ []OneEvaluatorPerRule => [](TypeInv /\ OrderInv)
<1>1. TypeInv /\ OrderInv /\ OneEvaluatorPerRule /\ [Next]_vars => TypeInv' /\ OrderInv'
  BY NextTypes, NextOrder
<1>2. QED
  BY <1>1, InitTypes, InitOrder, PTL DEF Spec

(* In the regime a webhook says what it is sent for: between the statement *)
(* that made the evaluator notify and the one that reads the row again for *)
(* the payload, the incident does not move (service.go:331-338).           *)
THEOREM PayloadsMatch == Spec /\ []OneEvaluatorPerRule => []PayloadMatchesPath
<1>1. OrderInv => PayloadMatchesPath
  BY DEF OrderInv
<1>2. QED
  BY <1>1, OrderAlways, PTL

(* In the regime no request announces an incident that is already marked   *)
(* as announced, also after evaluations that stopped before the mark       *)
(* (service.go:271-276, 325-328).                                          *)
THEOREM AnnouncementsEnd == Spec /\ []OneEvaluatorPerRule => []AnnouncementEnds
<1>1. OrderInv => AnnouncementEnds
  BY DEF OrderInv, OrderJob, AnnouncementEnds, HasIncident
<1>2. QED
  BY <1>1, OrderAlways, PTL

(* In the regime a resolved incident stays resolved, although the UPDATE   *)
(* that promotes one has no condition on its state (service.go:260).       *)
THEOREM ResolvedStays == Spec /\ []OneEvaluatorPerRule => ResolvedIsFinal
<1> DEFINE Final == \A e \in Events : event[e].state = "resolved" =>
                        event'[e].state \in {"resolved", "gone"}
<1>1. ASSUME TypeInv, OrderInv, NEW j \in Jobs, Evaluate(j)
      PROVE  Final
  <2>1. OrderJob(job[j])
    BY <1>1 DEF OrderInv
  <2>2. CASE UNCHANGED event
    BY <2>2
  <2>3. ASSUME NEW e \in Events, InsertEvent(j, e)
        PROVE  Final
    BY <1>1, <2>3, InsertFields
  <2>4. CASE Promote(j)
    <3>1. event[job[j].id].state # "resolved"
      BY <1>1, <2>1, <2>4, PromoteFields DEF OrderJob
    <3>2. QED
      BY <1>1, <2>4, <3>1, PromoteFields DEF Updates
  <2>5. CASE Refresh(j)
    BY <1>1, <2>5, RefreshFields DEF Updates
  <2>6. CASE MarkNotified(j)
    BY <1>1, <2>6, MarkFields DEF Updates
  <2>7. ASSUME NEW r \in Rules, NEW e \in Events, ResolveOpen(j, r, e)
        PROVE  Final
    BY <1>1, <2>7, ResolveOpenFields
  <2>8. QED
    BY <1>1, <2>2, <2>3, <2>4, <2>5, <2>6, <2>7 DEF Evaluate, LoadRules, Finish, LookupNone,
       LookupOpen, ResolveNone, Sync, Cooldown, Render, LoadChannels, Send, StatementFails
<1>2. TypeInv /\ OrderInv /\ [Next]_vars => Final
  BY <1>1, ElsewhereSteps DEF Elsewhere
<1>3. TypeInv /\ OrderInv /\ [Next]_vars => [Final]_vars
  BY <1>2
<1>4. QED
  BY <1>3, OrderAlways, PTL DEF Spec, ResolvedIsFinal

-----------------------------------------------------------------------------
(* Cooldown.  The check of the cooldown and the mark that follows it are    *)
(* statements apart, with a webhook in between, and the cooldown is read    *)
(* from the rules the evaluation loaded when it started.                    *)

(* While nobody retunes it, a rule of the snapshot is the rule in force. *)
SnapshotJob(l) ==
    \A r \in Rules : r \in l.todo \cup {l.cur} =>
        /\ rule[r].row # "new"
        /\ rule[r].row = "live" => /\ l.rules[r].window = rule[r].window
                                   /\ l.rules[r].cooldown = rule[r].cooldown

(* From the check to the mark, the other incidents of the rule were         *)
(* announced at least a cooldown before the evaluation.                     *)
CooldownJob(l) ==
    l.pc \in {"render", "channels", "send", "mark"} /\ l.path = "firing" =>
        \A f \in Events \ {l.id} :
            event[f].rule = l.cur /\ event[f].notified # Null =>
                event[f].notified <= l.at - rule[l.cur].cooldown

SnapshotInv == \A j \in Jobs : SnapshotJob(job[j])

CooldownInv == CooldownKept /\ \A j \in Jobs : CooldownJob(job[j])

LEMMA EvaluateKeeps ==
  ASSUME TypeInv, NEW j \in Jobs, Evaluate(j)
  PROVE  /\ UNCHANGED <<rule, clock>>
         /\ \A k \in Jobs \ {j} : job'[k] = job[k]
<1>1. UNCHANGED <<rule, clock>>
  BY DEF Evaluate, LoadRules, Finish, LookupNone, LookupOpen,
     ResolveNone, ResolveOpen, InsertEvent, Promote, Refresh, Sync, Cooldown, Render,
     LoadChannels, Send, MarkNotified, StatementFails, DbUnchanged
<1>2. \A k \in Jobs \ {j} : job'[k] = job[k]
  BY GotoIs DEF Evaluate, LoadRules, Finish, LookupNone, LookupOpen,
     ResolveNone, ResolveOpen, InsertEvent, Promote, Refresh, Sync, Cooldown, Render,
     LoadChannels, Send, MarkNotified, StatementFails
<1>3. QED
  BY <1>1, <1>2

(* What an evaluator does to an incident: it is about a rule it claims.     *)
EvaluatorWrites(j, e) ==
    \/ event'[e] = event[e]
    \/ InsertEvent(j, e)
    \/ /\ event'[e].rule = event[e].rule /\ event'[e].trig = event[e].trig
       /\ event[e].rule \in Claims(j) /\ event[e].state \notin {"new", "gone"}
       /\ \/ event'[e].notified = event[e].notified
          \/ /\ MarkNotified(j) /\ e = job[j].id /\ event'[e].notified = job[j].at
             /\ event[e].rule = job[j].cur
       /\ \/ event'[e].state \in {event[e].state, "resolved"}
          \/ Promote(j) /\ e = job[j].id /\ event[e].rule = job[j].cur

LEMMA EvaluatorWritesOwn ==
  ASSUME TypeInv, OrderInv, NEW j \in Jobs, Evaluate(j), NEW e \in Events
  PROVE  EvaluatorWrites(j, e)
<1>1. CASE UNCHANGED event
  BY <1>1 DEF EvaluatorWrites
<1>2. ASSUME NEW f \in Events, InsertEvent(j, f)
      PROVE  EvaluatorWrites(j, e)
  BY <1>2, InsertFields DEF EvaluatorWrites
<1>3. CASE Promote(j)
  <2>1. job[j].pc \in HasIncident
    BY <1>3, PromoteFields DEF HasIncident
  <2>2. QED
    BY <1>3, <2>1, PromoteFields, UpdateTouches DEF EvaluatorWrites
<1>4. CASE Refresh(j)
  <2>1. job[j].pc \in HasIncident
    BY <1>4, RefreshFields DEF HasIncident
  <2>2. QED
    BY <1>4, <2>1, RefreshFields, UpdateTouches DEF EvaluatorWrites
<1>5. CASE MarkNotified(j)
  <2>1. job[j].pc \in HasIncident
    BY <1>5, MarkFields DEF HasIncident
  <2>2. QED
    BY <1>5, <2>1, MarkFields, UpdateTouches DEF EvaluatorWrites
<1>6. ASSUME NEW r \in Rules, NEW f \in Events, ResolveOpen(j, r, f)
      PROVE  EvaluatorWrites(j, e)
  <2>1. event[f].rule = r /\ event[f].state \in Open /\ r \in Claims(j)
    BY <1>6 DEF ResolveOpen, OpenOf, Claims
  <2>2. QED
    BY <1>6, <2>1, ResolveOpenFields DEF EvaluatorWrites, Open
<1>7. QED
  BY <1>1, <1>2, <1>3, <1>4, <1>5, <1>6 DEF Evaluate, LoadRules, Finish, LookupNone,
     LookupOpen, ResolveNone, Sync, Cooldown, Render, LoadChannels, Send, StatementFails

(* The rules of an evaluation are those it loaded, and get fewer. *)
LEMMA Narrows ==
  ASSUME TypeInv, NEW j \in Jobs, Evaluate(j)
  PROVE  \/ LoadRules(j)
         \/ /\ SameRun(j) /\ job'[j].todo \subseteq job[j].todo
            /\ job'[j].cur \in job[j].todo \cup {job[j].cur, Null}
         \/ AtRest(j)
<1>1. CASE Finish(j) \/ StatementFails(j)
  BY <1>1, IdleFields DEF Finish, StatementFails
<1>2. ASSUME NEW r \in Rules, NEW v, LookupNone(j, r, v) \/ \E e \in Events : LookupOpen(j, r, v, e)
      PROVE  TakesUp(j, r) /\ r \in job[j].todo
  BY <1>2, LookupNoneFields, LookupOpenFields DEF LookupNone, LookupOpen
<1>3. ASSUME NEW r \in Rules, NEW e \in Events, ResolveOpen(j, r, e)
      PROVE  TakesUp(j, r) /\ r \in job[j].todo
  BY <1>3, ResolveOpenFields DEF ResolveOpen
<1>4. ASSUME NEW e \in Events, InsertEvent(j, e)
      PROVE  SameRun(j) /\ job'[j].todo = job[j].todo /\ job'[j].cur \in {job[j].cur, Null}
  BY <1>4, InsertFields DEF RuleDone
<1>5. ASSUME \/ Promote(j) \/ Refresh(j) \/ Sync(j) \/ Cooldown(j) \/ Render(j)
             \/ LoadChannels(j) \/ MarkNotified(j) \/ \E c \in Channels : Send(j, c)
      PROVE  SameIncident(j) \/ RuleDone(j)
  BY <1>5, PromoteFields, RefreshFields, SyncFields, CooldownFields, RenderFields,
     LoadChannelsFields, MarkFields, SendFields
<1>6. ASSUME NEW r \in Rules, ResolveNone(j, r)
      PROVE  SameRun(j) /\ job'[j].todo \subseteq job[j].todo /\ job'[j].cur = Null
  BY <1>6, ResolveNoneFields
<1>7. QED
  BY <1>1, <1>2, <1>3, <1>4, <1>5, <1>6
     DEF Evaluate, TakesUp, SameIncident, RuleDone

(* A rule that was created stays so, and one that was deleted too. *)
LEMMA RulesOnlyGo ==
  ASSUME TypeInv, [Next]_vars, NEW r \in Rules, rule[r].row # "new"
  PROVE  rule'[r].row # "new" /\ (rule'[r].row = "live" => rule[r].row = "live")
<1>1. CASE UNCHANGED rule
  BY <1>1
<1>2. ASSUME NEW q \in Rules, NEW w, NEW c, CreateRule(q, w, c)
      PROVE  rule'[r] = rule[r]
  BY <1>2 DEF CreateRule, TypeInv, TypeOK
<1>3. ASSUME NEW q \in Rules, NEW w, NEW c, NEW on, UpdateRule(q, on, w, c)
      PROVE  rule'[r] = rule[r] \/ (rule[r].row = "live" /\ rule'[r].row = "live")
  BY <1>3 DEF UpdateRule, TypeInv, TypeOK
<1>4. ASSUME NEW q \in Rules, DeleteRule(q)
      PROVE  rule'[r] = rule[r] \/ rule'[r].row = "gone"
  BY <1>4, DeleteFields
<1>5. QED
  BY <1>1, <1>2, <1>3, <1>4, EvaluateKeeps DEF Next, Arrive, Ingest, MonitorTick, Heartbeat,
     Interrupt, Abort, SendFails, DbUnchanged, Operate, CreateChannel, DeleteChannel,
     SetMaintenance, Tick, vars

LEMMA SnapshotStep ==
  ASSUME TypeInv, SnapshotInv, [Next]_vars, NoRetuning
  PROVE  SnapshotInv'
<1> SUFFICES ASSUME NEW j \in Jobs PROVE SnapshotJob(job[j])'
  BY DEF SnapshotInv
<1>1. SnapshotJob(job[j]) /\ job[j] \in Local
  BY DEF SnapshotInv, TypeInv, TypeOK
<1>2. CASE job'[j] = job[j]
  BY <1>1, <1>2, RulesOnlyGo DEF SnapshotJob, NoRetuning
<1>3. CASE Evaluate(j)
  <2>1. UNCHANGED rule
    BY <1>3, EvaluateKeeps
  <2>2. CASE LoadRules(j)
    BY <2>1, <2>2, LoadFields, ConstantsAssumption DEF SnapshotJob
  <2>3. CASE /\ SameRun(j) /\ job'[j].todo \subseteq job[j].todo
             /\ job'[j].cur \in job[j].todo \cup {job[j].cur, Null}
    BY <1>1, <2>1, <2>3, ConstantsAssumption DEF SnapshotJob, SameRun
  <2>4. CASE AtRest(j)
    BY <2>4, ConstantsAssumption DEF SnapshotJob, AtRest
  <2>5. QED
    BY <1>3, <2>2, <2>3, <2>4, Narrows
<1>4. CASE job'[j].todo = {} /\ job'[j].cur = Null
  BY <1>4, ConstantsAssumption DEF SnapshotJob
<1>5. QED
  <2>1. ASSUME NEW k \in Jobs, Evaluate(k)
        PROVE  k = j \/ job'[j] = job[j]
    BY <2>1, EvaluateKeeps
  <2>2. CASE \A k \in Jobs : ~Evaluate(k)
    BY <1>2, <1>4, <2>2, ElsewhereSteps DEF Elsewhere
  <2>3. QED
    BY <1>2, <1>3, <2>1, <2>2

(* An announced incident belongs to a rule that exists. *)
LEMMA AnnouncedRow ==
  ASSUME TypeInv, OrderInv, NEW e \in Events, event[e].notified # Null
  PROVE  /\ event[e].notified \in Nat
         /\ event[e].state \in {"firing", "resolved"}
         /\ event[e].rule \in Rules /\ rule[event[e].rule].row = "live"
         /\ rule[event[e].rule].cooldown \in Nat /\ rule[event[e].rule].window \in Nat
<1>1. event[e] \in EventRow /\ OrderEvent(e)
  BY DEF TypeInv, TypeOK, OrderInv
<1>2. /\ event[e].notified \in Nat /\ event[e].state \in {"firing", "resolved"}
      /\ event[e].rule \in Rules /\ rule[event[e].rule].row = "live"
  BY <1>1 DEF EventRow, EventStates, Open, OrderEvent
<1>3. rule[event[e].rule] \in RuleRow
  BY <1>2 DEF TypeInv, TypeOK
<1>4. QED
  BY <1>2, <1>3 DEF RuleRow

LEMMA CooldownStep ==
  ASSUME TypeInv, OrderInv, SnapshotInv, CooldownInv, OneEvaluatorPerRule,
         [Next]_vars, NoRetuning
  PROVE  CooldownInv'
<1>1. ASSUME NEW j \in Jobs, Evaluate(j)
      PROVE  CooldownInv'
  <2>0. /\ UNCHANGED rule
        /\ \A k \in Jobs \ {j} : job'[k] = job[k]
        /\ \A e \in Events : EvaluatorWrites(j, e)
        /\ \A e, f \in Events : InsertEvent(j, e) /\ f # e => event'[f] = event[f]
    BY <1>1, EvaluateKeeps, EvaluatorWritesOwn, InsertFields
  <2> DEFINE l == job[j]
             Marks(e) == MarkNotified(j) /\ e = l.id /\ event'[e].notified = l.at
                         /\ event[e].rule = l.cur
  <2>1. \A e \in Events : event'[e].notified # Null =>
           /\ event'[e].rule = event[e].rule
           /\ event'[e].notified = event[e].notified \/ Marks(e)
    BY <1>1, <2>0, InsertFields DEF EvaluatorWrites
  <2>2. \A e \in Events : event'[e] # event[e] /\ event'[e].notified # Null =>
           event'[e].rule \in Claims(j)
    BY <1>1, <2>0, InsertFields DEF EvaluatorWrites
  <2>job. OrderJob(l) /\ CooldownJob(l) /\ SnapshotJob(l) /\ l \in Local /\ HoldsId(l)
    BY DEF OrderInv, CooldownInv, SnapshotInv, TypeInv, TypeOK
  (* The mark is a cooldown away from what was announced before. *)
  <2>3. ASSUME NEW e \in Events, NEW f \in Events, e # f, Marks(e),
               event[f].rule = event[e].rule, event[f].notified # Null
        PROVE  /\ event[f].notified \in Nat /\ l.at \in Nat
               /\ rule[event[e].rule].cooldown \in Nat
               /\ event[f].notified <= l.at - rule[event[e].rule].cooldown
    <3>1. l.pc = "mark" /\ l.path = "firing"
      BY <2>3, <2>job, MarkFields DEF OrderJob
    <3>2. QED
      BY <2>3, <2>job, <3>1, AnnouncedRow DEF CooldownJob, Local
  <2>4. CooldownKept'
    <3> SUFFICES ASSUME NEW e \in Events, NEW f \in Events, e # f,
                        event'[e].rule = event'[f].rule,
                        event'[e].notified # Null, event'[f].notified # Null,
                        event'[e].notified <= event'[f].notified
                 PROVE  event'[f].notified - event'[e].notified
                            >= rule'[event'[e].rule].cooldown
      BY DEF CooldownKept
    <3>0. event'[e].rule = event[e].rule /\ event'[f].rule = event[f].rule
      BY <2>1
    <3>1. CASE event'[e].notified = event[e].notified /\ event'[f].notified = event[f].notified
      BY <2>0, <3>0, <3>1 DEF CooldownInv, CooldownKept
    <3>2. CASE Marks(e)
      <4>1. event'[f].notified = event[f].notified
        BY <2>1, <3>2
      <4>2. /\ event[f].notified \in Nat /\ l.at \in Nat
            /\ rule[event[e].rule].cooldown \in Nat
            /\ event[f].notified <= l.at - rule[event[e].rule].cooldown
        BY <2>3, <3>0, <3>2, <4>1
      <4> HIDE DEF l
      <4>3. event'[e].notified = l.at
        BY <3>2 DEF l
      <4>4. QED
        BY <2>0, <3>0, <4>1, <4>2, <4>3
    <3>3. CASE Marks(f)
      <4>1. event'[e].notified = event[e].notified
        BY <2>1, <3>3
      <4>2. /\ event[e].notified \in Nat /\ l.at \in Nat
            /\ rule[event[f].rule].cooldown \in Nat
            /\ event[e].notified <= l.at - rule[event[f].rule].cooldown
        BY <2>3, <3>0, <3>3, <4>1
      <4> HIDE DEF l
      <4>3. event'[f].notified = l.at
        BY <3>3 DEF l
      <4>4. rule' = rule /\ event'[e].rule = event[f].rule
        BY <2>0, <3>0
      <4>5. l.at - event[e].notified >= rule[event[f].rule].cooldown
        BY <4>2
      <4>6. QED
        BY <4>1, <4>3, <4>4, <4>5
    <3>4. QED
      BY <2>1, <3>1, <3>2, <3>3
  <2>5. ASSUME NEW k \in Jobs \ {j}
        PROVE  CooldownJob(job[k])'
    <3>1. CooldownJob(job[k]) /\ OrderJob(job[k])
      BY DEF CooldownInv, OrderInv
    <3>2. job[k].cur \in Rules => job[k].cur \notin Claims(j)
      BY DEF OneEvaluatorPerRule, Claims
    <3>3. ASSUME job[k].pc \in {"render", "channels", "send", "mark"}, NEW f \in Events,
                 event'[f].rule = job[k].cur, event'[f].notified # Null
          PROVE  event'[f] = event[f]
      BY <2>2, <3>1, <3>2, <3>3 DEF OrderJob, HasIncident
    <3>4. QED
      BY <2>0, <3>1, <3>3 DEF CooldownJob
  <2>6. CooldownJob(job[j])'
    <3>1. CASE Cooldown(j)
      <4>1. CASE RuleDone(j)
        BY <4>1 DEF RuleDone, CooldownJob
      <4>2. CASE ~RuleDone(j)
        <5>1. /\ UNCHANGED event /\ SameIncident(j)
              /\ l.pc = "cooldown"
              /\ ~RecentlyNotified(l.cur, l.id, l.at, l.rules[l.cur].cooldown)
          BY <3>1, <4>2, CooldownFields DEF Cooldown
        <5>2. l.cur \in Rules
          BY <2>job, <5>1 DEF OrderJob, HasIncident
        <5>3. ASSUME NEW f \in Events \ {l.id}, event[f].rule = l.cur,
                     event[f].notified # Null
              PROVE  event[f].notified <= l.at - rule[l.cur].cooldown
          <6>1. ~(event[f].notified > l.at - l.rules[l.cur].cooldown)
            BY <5>1, <5>3 DEF RecentlyNotified
          <6>2. l.rules[l.cur].cooldown = rule[l.cur].cooldown
            BY <2>job, <5>2, <5>3, AnnouncedRow DEF SnapshotJob
          <6>3. event[f].notified \in Nat /\ l.at \in Nat /\ rule[l.cur].cooldown \in Nat
            BY <2>job, <5>3, AnnouncedRow DEF Local
          <6>4. QED
            BY <6>1, <6>2, <6>3
        <5>4. QED
          BY <2>0, <5>1, <5>3 DEF CooldownJob, SameIncident, SameRun
      <4>3. QED
        BY <4>1, <4>2
    <3>2. CASE Sync(j)
      BY <3>2, SyncFields DEF CooldownJob, SameIncident, RuleDone
    <3>3. ASSUME Render(j) \/ LoadChannels(j) \/ \E c \in Channels : Send(j, c)
          PROVE  CooldownJob(job[j])'
      <4>1. /\ UNCHANGED event
            /\ job[j].pc \in {"render", "channels", "send"}
            /\ SameIncident(j) \/ RuleDone(j)
        BY <3>3, RenderFields, LoadChannelsFields, SendFields DEF Render, LoadChannels, Send
      <4>2. QED
        BY <2>0, <2>job, <4>1 DEF CooldownJob, SameIncident, SameRun, RuleDone
    <3>4. ASSUME job'[j].pc \notin {"render", "channels", "send", "mark"}
          PROVE  CooldownJob(job[j])'
      BY <3>4 DEF CooldownJob
    <3>5. ASSUME \/ LoadRules(j) \/ Finish(j) \/ StatementFails(j) \/ Promote(j) \/ Refresh(j)
                 \/ MarkNotified(j)
          PROVE  job'[j].pc \notin {"render", "channels", "send", "mark"}
      BY <3>5, LoadFields, IdleFields, PromoteFields, RefreshFields, MarkFields
         DEF Finish, StatementFails, AtRest, RuleDone
    <3>6. ASSUME NEW r \in Rules, NEW v,
                 \/ LookupNone(j, r, v) \/ ResolveNone(j, r)
                 \/ \E e \in Events : LookupOpen(j, r, v, e) \/ ResolveOpen(j, r, e)
          PROVE  job'[j].pc \notin {"render", "channels", "send", "mark"}
      BY <3>6, LookupNoneFields, LookupOpenFields, ResolveNoneFields, ResolveOpenFields
    <3>7. ASSUME NEW e \in Events, InsertEvent(j, e)
          PROVE  job'[j].pc \notin {"render", "channels", "send", "mark"}
      BY <3>7, InsertFields DEF RuleDone
    <3>8. QED
      BY <1>1, <3>1, <3>2, <3>3, <3>4, <3>5, <3>6, <3>7 DEF Evaluate
  <2>7. QED
    BY <2>4, <2>5, <2>6 DEF CooldownInv
<1>2. ASSUME Elsewhere
      PROVE  CooldownInv'
  <2>1. \A e \in Events : event'[e].notified # Null =>
           /\ event'[e] = event[e] /\ event[e].rule \in Rules
           /\ rule'[event[e].rule].cooldown = rule[event[e].rule].cooldown
    BY <1>2, AnnouncedRow DEF Elsewhere, NoRetuning
  <2>2. CooldownKept'
    BY <2>1 DEF CooldownInv, CooldownKept
  <2>3. \A j \in Jobs : CooldownJob(job[j])'
    BY <1>2, <2>1 DEF Elsewhere, CooldownInv, CooldownJob
  <2>4. QED
    BY <2>2, <2>3 DEF CooldownInv
<1>3. QED
  BY <1>1, <1>2, ElsewhereSteps

(* In the regime, and while nobody retunes a rule, two incidents of a rule  *)
(* are announced at least its cooldown apart, however old or early the      *)
(* samples are, whatever servers are evaluated in between, and wherever     *)
(* evaluations fail (service.go:317-324).                                   *)
THEOREM CooldownsKept ==
  Spec /\ []OneEvaluatorPerRule /\ [][NoRetuning]_vars => []CooldownKept
<1>1. Init => SnapshotInv /\ CooldownInv
  <2> SUFFICES ASSUME Init PROVE SnapshotInv /\ CooldownInv
    OBVIOUS
  <2>1. SnapshotInv
    BY ConstantsAssumption DEF Init, IdleJob, SnapshotInv, SnapshotJob
  <2>2. CooldownInv
    BY DEF Init, IdleJob, NewEvent, CooldownInv, CooldownJob, CooldownKept
  <2>3. QED
    BY <2>1, <2>2
<1>2. TypeInv /\ OrderInv /\ SnapshotInv /\ CooldownInv /\ OneEvaluatorPerRule
      /\ [Next]_vars /\ [NoRetuning]_vars => SnapshotInv' /\ CooldownInv'
  <2>1. UNCHANGED vars => NoRetuning
    BY DEF vars, NoRetuning
  <2>2. QED
    BY <2>1, SnapshotStep, CooldownStep
<1>3. CooldownInv => CooldownKept
  BY DEF CooldownInv
<1>4. QED
  BY <1>1, <1>2, <1>3, OrderAlways, PTL DEF Spec

-----------------------------------------------------------------------------
(* Window.  The instant of an evaluation is that of its sample, and several *)
(* evaluations may lie between the first breach and the announcement: one   *)
(* inserts the incident, another promotes it, and a third announces it if   *)
(* the second was cut short.  With samples that are evaluated in the order  *)
(* of their collection, later evaluations of a rule have later instants.    *)

(* The last instant at which rule r can have been evaluated so far. *)
Horizon(r) == IF r \in Connectivity THEN clock ELSE collected[ServerOf[r]]

Waited(e, at) == at - event[e].trig >= rule[event[e].rule].window

WindowEvent(e) ==
    /\ event[e].state = "firing" => Waited(e, Horizon(event[e].rule))
    /\ event[e].notified # Null => Waited(e, event[e].notified)

(* The rules that an evaluation will reach with an instant already chosen.  *)
Ahead(j) ==
    {r \in Claims(j) : \/ r \in job[j].todo
                       \/ job[j].pc = "load" /\ j \notin Monitors}

WindowJob(j) ==
    /\ \A r \in Claims(j) : job[j].at <= Horizon(r)
    /\ \A e \in Events : event[e].state = "firing" /\ event[e].rule \in Ahead(j) =>
          Waited(e, job[j].at)
    /\ job[j].pc \in HasIncident /\ job[j].path = "firing"
       /\ event[job[j].id].state # "gone" => Waited(job[j].id, job[j].at)

WindowInv ==
    /\ collected \in [Servers -> Nat]
    /\ \A e \in Events : WindowEvent(e)
    /\ \A j \in Jobs : WindowJob(j)

(* An incident that is due by the snapshot has waited by the rule in force. *)
LEMMA DueHasWaited ==
  ASSUME TypeInv, NEW j \in Jobs, NEW r \in Rules, SnapshotJob(job[j]),
         r \in job[j].todo \cup {job[j].cur}, rule[r].row = "live",
         NEW since, Due(j, r, since)
  PROVE  job[j].at - since >= rule[r].window
BY DEF SnapshotJob, Due

(* No statement of an evaluator leads back to its start. *)
LEMMA EvaluateLeavesLoad ==
  ASSUME TypeInv, NEW j \in Jobs, Evaluate(j)
  PROVE  job'[j].pc # "load"
<1>1. CASE LoadRules(j) \/ Finish(j) \/ StatementFails(j)
  BY <1>1, LoadFields, IdleFields DEF Finish, StatementFails, AtRest
<1>2. ASSUME NEW r \in Rules, NEW v,
             \/ LookupNone(j, r, v) \/ ResolveNone(j, r)
             \/ \E e \in Events : LookupOpen(j, r, v, e) \/ ResolveOpen(j, r, e)
      PROVE  job'[j].pc # "load"
  BY <1>2, LookupNoneFields, LookupOpenFields, ResolveNoneFields, ResolveOpenFields
<1>3. ASSUME \/ Promote(j) \/ Refresh(j) \/ Sync(j) \/ Cooldown(j) \/ Render(j)
             \/ LoadChannels(j) \/ MarkNotified(j) \/ \E c \in Channels : Send(j, c)
             \/ \E e \in Events : InsertEvent(j, e)
      PROVE  job'[j].pc # "load"
  BY <1>3, PromoteFields, RefreshFields, SyncFields, CooldownFields, RenderFields,
     LoadChannelsFields, MarkFields, SendFields, InsertFields DEF RuleDone
<1>4. QED
  BY <1>1, <1>2, <1>3 DEF Evaluate

(* The same of the incident as a step leaves it. *)
WaitedNow(e, at) == at - event'[e].trig >= rule'[event'[e].rule].window

LEMMA EvaluateWindow ==
  ASSUME TypeInv, OrderInv, SnapshotInv, WindowInv, OneEvaluatorPerRule,
         NEW j \in Jobs, Evaluate(j), UNCHANGED collected
  PROVE  WindowInv'
<1>0. /\ UNCHANGED <<rule, clock>>
      /\ \A k \in Jobs \ {j} : job'[k] = job[k]
      /\ \A e \in Events : EvaluatorWrites(j, e)
  BY EvaluateKeeps, EvaluatorWritesOwn
<1> DEFINE l == job[j]
<1>1. /\ OrderJob(l) /\ SnapshotJob(l) /\ WindowJob(j) /\ HoldsId(l)
      /\ l \in Local /\ clock \in Nat /\ l.at \in Nat /\ l.since \in Nat
      /\ event \in [Events -> EventRow] /\ rule \in [Rules -> RuleRow]
  BY DEF OrderInv, SnapshotInv, WindowInv, TypeInv, TypeOK, Local
<1>2. \A e \in Events : /\ OrderEvent(e) /\ WindowEvent(e)
                        /\ event[e].trig \in Nat
                        /\ event[e].rule \in Rules => rule[event[e].rule].window \in Nat
  BY <1>1 DEF OrderInv, WindowInv, EventRow, RuleRow
<1>3. /\ \A r \in Claims(j) : l.at <= Horizon(r)
      /\ \A r \in Rules : Horizon(r) \in Nat
  <2>1. \A r \in Rules : Horizon(r) \in Nat
    BY <1>1, ConstantsAssumption DEF WindowInv, Horizon
  <2>2. QED
    BY <1>1, <2>1 DEF WindowJob
<1>4. \A e \in Events : event'[e].rule = event[e].rule /\ event'[e].trig = event[e].trig =>
         \A at : WaitedNow(e, at) <=> Waited(e, at)
  BY <1>0 DEF WaitedNow, Waited
<1> HIDE DEF l
(* A row this evaluator inserts has waited if it is firing. *)
<1>5. ASSUME NEW e \in Events, InsertEvent(j, e)
      PROVE  /\ event'[e].notified = Null /\ event[e].state = "new"
             /\ event'[e].rule = l.cur /\ l.cur \in Claims(j) /\ l.cur \notin l.todo
             /\ event'[e].state = "firing" => WaitedNow(e, l.at) /\ WaitedNow(e, Horizon(l.cur))
  <2>1. l.cur \in Rules /\ l.cur \notin l.todo /\ rule[l.cur].row = "live"
    BY <1>1, <1>5 DEF InsertEvent, OrderJob, l
  <2>2. /\ event'[e].rule = l.cur /\ event'[e].trig = l.since /\ event'[e].notified = Null
        /\ event[e].state = "new"
    BY <1>5, InsertFields DEF l
  <2>3. ASSUME event'[e].state = "firing"
        PROVE  l.at - l.since >= rule[l.cur].window
    <3>1. Due(j, l.cur, l.since)
      BY <1>5, <2>3, InsertFields DEF l
    <3>2. QED
      BY <1>1, <2>1, <3>1, DueHasWaited DEF l
  <2>4. rule[l.cur].window \in Nat
    BY <1>1, <2>1 DEF RuleRow
  <2>5. l.cur \in Claims(j)
    BY <2>1 DEF Claims, l
  <2>6. ASSUME event'[e].state = "firing"
        PROVE  WaitedNow(e, l.at) /\ WaitedNow(e, Horizon(l.cur))
    <3>1. /\ l.at - l.since >= rule[l.cur].window
          /\ Horizon(l.cur) - l.since >= rule[l.cur].window
      BY <1>1, <1>3, <2>1, <2>3, <2>4, <2>5, <2>6
    <3>2. QED
      BY <1>0, <2>2, <3>1 DEF WaitedNow
  <2>7. QED
    BY <2>1, <2>2, <2>5, <2>6
(* The incident this evaluator holds has waited when it is to be announced. *)
<1>6. ASSUME l.pc \in HasIncident, l.path = "firing", event[l.id].state # "gone"
      PROVE  /\ Waited(l.id, l.at) /\ l.id \in Events
             /\ Waited(l.id, Horizon(event[l.id].rule))
  <2>1. Waited(l.id, l.at) /\ l.id \in Events
        /\ event[l.id].rule = l.cur /\ l.cur \in Rules
    BY <1>1, <1>6 DEF WindowJob, HoldsId, OrderJob, l
  <2>2. l.at <= Horizon(l.cur) /\ Horizon(l.cur) \in Nat
    BY <1>3, <2>1 DEF Claims, l
  <2>3. QED
    BY <1>1, <1>2, <2>1, <2>2 DEF Waited
<1>7. ASSUME NEW e \in Events
      PROVE  WindowEvent(e)'
  <2>1. CASE event'[e] = event[e]
    BY <1>0, <1>2, <2>1 DEF WindowEvent, Waited, Horizon
  <2>2. CASE InsertEvent(j, e)
    BY <1>0, <1>5, <2>2 DEF WindowEvent, WaitedNow, Waited, Horizon
  <2>3. CASE event'[e] # event[e] /\ ~InsertEvent(j, e)
    <3>1. /\ event'[e].rule = event[e].rule /\ event'[e].trig = event[e].trig
          /\ event[e].state \notin {"new", "gone"}
          /\ \/ event'[e].notified = event[e].notified
             \/ MarkNotified(j) /\ e = l.id /\ event'[e].notified = l.at
          /\ \/ event'[e].state \in {event[e].state, "resolved"}
             \/ Promote(j) /\ e = l.id
      BY <1>0, <2>3 DEF EvaluatorWrites, l
    <3>2. MarkNotified(j) \/ Promote(j) => l.pc \in HasIncident /\ l.path = "firing"
      BY <1>1, MarkFields, PromoteFields DEF OrderJob, HasIncident, l
    <3>3. event'[e].state = "firing" => Waited(e, Horizon(event[e].rule))
      BY <1>2, <1>6, <3>1, <3>2 DEF WindowEvent
    <3>4. event'[e].notified # Null => Waited(e, event'[e].notified)
      BY <1>2, <1>6, <3>1, <3>2 DEF WindowEvent
    <3>5. QED
      BY <1>0, <3>1, <3>3, <3>4 DEF WindowEvent, Waited, Horizon
  <2>4. QED
    BY <2>1, <2>2, <2>3
(* An incident that starts to fire is of the rule this evaluator is at. *)
<1>8. ASSUME NEW e \in Events, event'[e].state = "firing"
      PROVE  \/ /\ event[e].state = "firing"
                /\ event'[e].rule = event[e].rule /\ event'[e].trig = event[e].trig
             \/ event'[e].rule = l.cur /\ l.cur \in Claims(j) /\ l.cur \notin l.todo
                /\ l.pc # "load"
  <2>1. CASE event'[e] = event[e]
    BY <1>8, <2>1
  <2>2. CASE InsertEvent(j, e)
    BY <1>5, <2>2 DEF InsertEvent, l
  <2>3. CASE event'[e] # event[e] /\ ~InsertEvent(j, e)
    <3>1. /\ event'[e].rule = event[e].rule /\ event'[e].trig = event[e].trig
          /\ event[e].rule \in Claims(j)
          /\ \/ event'[e].state = event[e].state
             \/ Promote(j) /\ event[e].rule = l.cur
      BY <1>0, <1>8, <2>3 DEF EvaluatorWrites, l
    <3>2. Promote(j) => l.cur \notin l.todo /\ l.pc # "load"
      BY <1>1, PromoteFields DEF OrderJob, l
    <3>3. QED
      BY <1>8, <3>1, <3>2
  <2>4. QED
    BY <2>1, <2>2, <2>3
<1>9. ASSUME NEW k \in Jobs \ {j}
      PROVE  WindowJob(k)'
  <2>1. WindowJob(k) /\ HoldsId(job[k]) /\ OrderJob(job[k])
    BY DEF WindowInv, TypeInv, OrderInv
  <2>2. job'[k] = job[k] /\ Ahead(k)' = Ahead(k) /\ Claims(k)' = Claims(k)
    BY <1>0 DEF Ahead, Claims
  <2>3. Claims(j) \cap Ahead(k) = {}
    BY DEF OneEvaluatorPerRule, Ahead
  <2>4. ASSUME NEW e \in Events, event'[e].state = "firing", event'[e].rule \in Ahead(k)
        PROVE  WaitedNow(e, job[k].at)
    BY <1>4, <1>8, <2>1, <2>3, <2>4 DEF WindowJob
  <2>5. ASSUME job[k].pc \in HasIncident
        PROVE  event'[job[k].id] = event[job[k].id]
    <3>1. \A e \in Events : \/ event'[e] = event[e]
                            \/ event[e].state = "new" \/ event[e].rule \in Claims(j)
      BY <1>0, <1>5 DEF EvaluatorWrites
    <3>2. QED
      BY <2>2, <2>5, <3>1, OthersUntouched
  <2>6. \A r \in Claims(k)' : job'[k].at <= Horizon(r)'
    BY <1>0, <2>1, <2>2 DEF WindowJob, Horizon
  <2>7. QED
    BY <1>0, <2>1, <2>2, <2>4, <2>5, <2>6 DEF WindowJob, WaitedNow, Waited
<1>10. WindowJob(j)'
  <2>1. \A r \in Claims(j)' : job'[j].at <= Horizon(r)'
    <3> SUFFICES ASSUME NEW r \in Rules, r \in Claims(j)' PROVE job'[j].at <= Horizon(r)
      BY <1>0 DEF Claims, Horizon
    <3>1. CASE LoadRules(j)
      <4>1. r \in job'[j].todo /\ Null \notin Rules
        BY <3>1, LoadFields, ConstantsAssumption DEF Claims
      <4>2. CASE j \in Monitors
        BY <1>1, <3>1, <4>1, <4>2, LoadFields DEF Horizon
      <4>3. CASE j \notin Monitors
        BY <1>3, <3>1, <4>1, <4>3, LoadFields DEF Claims, l
      <4>4. QED
        BY <4>2, <4>3
    <3>2. CASE AtRest(j)
      BY <3>2, ConstantsAssumption DEF AtRest, Claims
    <3>3. CASE /\ SameRun(j) /\ job'[j].todo \subseteq l.todo
               /\ job'[j].cur \in l.todo \cup {l.cur, Null}
      <4>1. r \in l.todo \cup {l.cur}
        BY <3>3, EvaluateLeavesLoad, ConstantsAssumption DEF Claims
      <4>2. QED
        BY <1>3, <3>3, <4>1 DEF Claims, SameRun, l
    <3>4. QED
      BY <3>1, <3>2, <3>3, Narrows DEF l
  <2>2. ASSUME NEW e \in Events, event'[e].state = "firing", event'[e].rule \in Ahead(j)'
        PROVE  WaitedNow(e, job'[j].at)
    <3>1. CASE LoadRules(j)
      <4>1. event' = event /\ event[e].rule \in job'[j].todo
        BY <2>2, <3>1, LoadFields DEF LoadRules, Ahead
      <4>2. CASE j \in Monitors
        BY <1>0, <1>2, <2>2, <3>1, <4>1, <4>2, LoadFields
           DEF WindowEvent, WaitedNow, Waited, Horizon
      <4>3. CASE j \notin Monitors
        <5>1. event[e].rule \in Ahead(j) /\ job'[j].at = l.at
          BY <3>1, <4>1, <4>3, LoadFields DEF Ahead, Claims, l
        <5>2. QED
          BY <1>0, <1>1, <2>2, <4>1, <5>1 DEF WindowJob, WaitedNow, Waited, l
      <4>4. QED
        BY <4>2, <4>3
    <3>2. CASE AtRest(j)
      BY <2>2, <3>2 DEF AtRest, Ahead
    <3>3. CASE SameRun(j) /\ job'[j].todo \subseteq l.todo /\ ~LoadRules(j) /\ ~AtRest(j)
      <4>1. job'[j].pc # "load"
        BY <1>1, <3>3, EvaluateLeavesLoad
      <4>2. event'[e].rule \in l.todo /\ event'[e].rule \in Rules
        BY <2>2, <3>3, <4>1 DEF Ahead, Claims
      <4>3. event[e].state = "firing" /\ event'[e].rule = event[e].rule
            /\ event'[e].trig = event[e].trig
        BY <1>8, <2>2, <4>2
      <4>4. event[e].rule \in Ahead(j)
        BY <4>2, <4>3 DEF Ahead, Claims, l
      <4>5. Waited(e, l.at)
        BY <1>1, <4>3, <4>4 DEF WindowJob, l
      <4>6. QED
        BY <1>4, <3>3, <4>3, <4>5 DEF SameRun, l
    <3>4. QED
      BY <3>1, <3>2, <3>3, Narrows DEF l
  <2>3. ASSUME job'[j].pc \in HasIncident, job'[j].path = "firing",
               event'[job'[j].id].state # "gone"
        PROVE  WaitedNow(job'[j].id, job'[j].at)
    <3>1. CASE SameIncident(j) /\ l.pc \in HasIncident
      <4>1. /\ job'[j].id = l.id /\ l.path = "firing" /\ l.id \in Events
            /\ job'[j].at = l.at
        BY <1>1, <2>3, <3>1 DEF SameIncident, SameRun, HoldsId, l
      <4>2. /\ event[l.id].state \notin {"new", "gone"}
            /\ event'[l.id].rule = event[l.id].rule /\ event'[l.id].trig = event[l.id].trig
        <5>1. event[l.id].state # "new"
          BY <1>1, <3>1 DEF OrderJob
        <5>2. EvaluatorWrites(j, l.id)
          BY <1>0, <4>1
        <5>3. QED
          BY <1>5, <2>3, <4>1, <5>1, <5>2 DEF EvaluatorWrites
      <4>3. QED
        BY <1>4, <1>6, <3>1, <4>1, <4>2
    <3>2. ASSUME NEW r \in Rules, NEW v, NEW e \in Events, LookupOpen(j, r, v, e)
          PROVE  WaitedNow(job'[j].id, job'[j].at)
      <4>1. /\ event' = event /\ r \in l.todo
            /\ event[e].rule = r /\ event[e].state \in Open
            /\ job'[j].id = e /\ job'[j].at = l.at
        <5>1. /\ event' = event /\ r \in l.todo
              /\ event[e].rule = r /\ event[e].state \in Open
          BY <3>2 DEF LookupOpen, OpenOf, l
        <5>2. job'[j].id = e /\ job'[j].at = l.at
          BY <3>2, LookupOpenFields DEF TakesUp, SameRun, l
        <5>3. QED
          BY <5>1, <5>2
      <4>2. r \in Ahead(j) /\ rule[r].row = "live"
        BY <1>2, <4>1 DEF Ahead, Claims, OrderEvent, Open, l
      <4>3. CASE event[e].state = "firing"
        BY <1>1, <1>4, <4>1, <4>2, <4>3 DEF WindowJob, l
      <4>4. CASE event[e].state = "pending"
        <5>1. Due(j, r, event[e].trig)
          BY <2>3, <3>2, <4>4, LookupOpenFields
        <5>2. Waited(e, l.at)
          BY <1>1, <4>1, <4>2, <5>1, DueHasWaited DEF Waited, l
        <5>3. QED
          BY <1>4, <4>1, <5>2
      <4>5. QED
        BY <4>1, <4>3, <4>4 DEF Open
    <3>3. ASSUME NEW e \in Events, InsertEvent(j, e)
          PROVE  WaitedNow(job'[j].id, job'[j].at)
      BY <1>5, <2>3, <3>3, InsertFields DEF SameRun, RuleDone, HasIncident, l
    <3>4. ASSUME NEW r \in Rules, NEW v,
                 \/ LookupNone(j, r, v) \/ ResolveNone(j, r)
                 \/ \E e \in Events : ResolveOpen(j, r, e)
          PROVE  FALSE
      BY <2>3, <3>4, LookupNoneFields, ResolveNoneFields, ResolveOpenFields DEF HasIncident
    <3>5. ASSUME LoadRules(j) \/ Finish(j) \/ StatementFails(j)
          PROVE  FALSE
      BY <2>3, <3>5, LoadFields, IdleFields DEF Finish, StatementFails, AtRest, HasIncident
    <3>6. ASSUME \/ Promote(j) \/ Refresh(j) \/ Sync(j) \/ Cooldown(j) \/ Render(j)
                 \/ LoadChannels(j) \/ MarkNotified(j) \/ \E c \in Channels : Send(j, c)
          PROVE  SameIncident(j) /\ l.pc \in HasIncident
      BY <2>3, <3>6, PromoteFields, RefreshFields, SyncFields, CooldownFields, RenderFields,
         LoadChannelsFields, MarkFields, SendFields DEF RuleDone, HasIncident, l
    <3>7. QED
      BY <3>1, <3>2, <3>3, <3>4, <3>5, <3>6 DEF Evaluate
  <2>4. QED
    BY <2>1, <2>2, <2>3 DEF WindowJob, WaitedNow, Waited
<1>11. QED
  BY <1>7, <1>9, <1>10 DEF WindowInv

(* No sample arrives in a statement of an evaluator. *)
LEMMA IngestIsElsewhere ==
  ASSUME TypeInv, NEW h \in Handlers, NEW s \in Servers, NEW t, Ingest(h, s, t),
         NEW j \in Jobs
  PROVE  ~Evaluate(j)
<1>1. job[h].pc = "idle" /\ job'[h].pc = "load"
  BY IngestFields DEF Ingest
<1>2. ASSUME Evaluate(j)
      PROVE  FALSE
  <2>1. CASE j = h
    BY <1>1, <1>2, <2>1, EvaluateLeavesLoad
  <2>2. CASE j # h
    BY <1>1, <1>2, <2>2, EvaluateKeeps DEF Jobs
  <2>3. QED
    BY <2>1, <2>2
<1>3. QED
  BY <1>2

LEMMA OrderedIsNext == [OrderedNext]_orderedVars => [Next]_vars
BY DEF OrderedNext, IngestNext, Otherwise, orderedVars, Next, Arrive

(* What the other steps do to the clocks and the instants of evaluations. *)
LEMMA ElsewhereInstants ==
  ASSUME TypeInv, collected \in [Servers -> Nat], [OrderedNext]_orderedVars,
         \A j \in Jobs : ~Evaluate(j)
  PROVE  /\ clock' \in Nat /\ clock' >= clock
         /\ collected' \in [Servers -> Nat]
         /\ \A s \in Servers : collected'[s] >= collected[s]
         /\ \A j \in Jobs :
              \/ job'[j] = job[j]
              \/ job'[j].at = 0 /\ (job'[j].pc = "idle" \/ j \in Monitors)
              \/ /\ j \notin Monitors
                 /\ \E s \in Servers : job'[j].scope = {s} /\ job'[j].at = collected'[s]
<1>0. clock \in Nat
  BY DEF TypeInv, TypeOK
<1>1. ASSUME NEW h \in Handlers, NEW s \in Servers, NEW t \in 0..(MaxTime + MaxLead),
             IngestNext(h, s, t)
      PROVE  /\ h \notin Monitors /\ clock' = clock
             /\ collected' \in [Servers -> Nat] /\ \A u \in Servers : collected'[u] >= collected[u]
             /\ job'[h].scope = {s} /\ job'[h].at = collected'[s]
             /\ \A k \in Jobs \ {h} : job'[k] = job[k]
  <2>1. t \in Nat /\ t >= collected[s] /\ collected' = [collected EXCEPT ![s] = t]
    BY <1>1, ConstantsAssumption DEF IngestNext
  <2>2. h \notin Monitors /\ clock' = clock
    BY <1>1, ConstantsAssumption DEF IngestNext, Ingest
  <2>3. QED
    BY <1>1, <2>1, <2>2, IngestFields DEF IngestNext
<1>2. ASSUME NEW m \in Monitors, MonitorTick(m)
      PROVE  clock' = clock /\ job'[m].at = 0 /\ \A k \in Jobs \ {m} : job'[k] = job[k]
  BY <1>2, MonitorFields DEF MonitorTick, DbUnchanged
<1>3. ASSUME NEW j \in Jobs, Interrupt(j)
      PROVE  /\ clock' = clock /\ job'[j].at = 0 /\ job'[j].pc = "idle"
             /\ \A k \in Jobs \ {j} : job'[k] = job[k]
  <2>1. Goto(j, IdleJob) /\ UNCHANGED clock
    BY <1>3 DEF Interrupt, Abort, SendFails, DbUnchanged
  <2>2. QED
    BY <2>1, IdleFields, GotoIs DEF AtRest
<1>4. CASE Operate \/ Tick \/ (\E s \in Servers : Heartbeat(s)) \/ UNCHANGED vars
  <2>1. job' = job /\ clock' \in Nat /\ clock' >= clock
    BY <1>0, <1>4 DEF Operate, CreateRule, UpdateRule, DeleteRule, CreateChannel,
       DeleteChannel, SetMaintenance, Tick, Heartbeat, vars
  <2>2. QED
    BY <1>0, <1>1, <2>1 DEF OrderedNext, orderedVars
<1>5. CASE \E h \in Handlers, s \in Servers, t \in 0..(MaxTime + MaxLead) : IngestNext(h, s, t)
  BY <1>0, <1>1, <1>5
<1>6. CASE UNCHANGED collected /\ \E m \in Monitors : MonitorTick(m)
  BY <1>0, <1>2, <1>6
<1>7. CASE UNCHANGED collected /\ \E j \in Jobs : Interrupt(j)
  BY <1>0, <1>3, <1>7
<1>8. QED
  BY <1>4, <1>5, <1>6, <1>7 DEF OrderedNext, Otherwise, orderedVars

LEMMA NextWindow ==
  ASSUME TypeInv, OrderInv, SnapshotInv, WindowInv, OneEvaluatorPerRule,
         [OrderedNext]_orderedVars, NoRetuning
  PROVE  WindowInv'
<1>0. [Next]_vars
  BY OrderedIsNext
<1>1. ASSUME \A j \in Jobs : ~Evaluate(j)
      PROVE  WindowInv'
  <2>0. Elsewhere /\ OrderInv'
    BY <1>0, <1>1, ElsewhereSteps, NextOrder
  <2>1. /\ clock \in Nat /\ collected \in [Servers -> Nat]
        /\ clock' \in Nat /\ clock' >= clock
        /\ collected' \in [Servers -> Nat]
        /\ \A s \in Servers : collected'[s] >= collected[s]
        /\ \A j \in Jobs :
             \/ job'[j] = job[j]
             \/ job'[j].at = 0 /\ (job'[j].pc = "idle" \/ j \in Monitors)
             \/ /\ j \notin Monitors
                /\ \E s \in Servers : job'[j].scope = {s} /\ job'[j].at = collected'[s]
    <3>1. clock \in Nat /\ collected \in [Servers -> Nat]
      BY DEF TypeInv, TypeOK, WindowInv
    <3>2. QED
      BY <1>1, <3>1, ElsewhereInstants
  <2> DEFINE Later(r) == IF r \in Connectivity THEN clock' ELSE collected'[ServerOf[r]]
  <2>a. \A r \in Rules : Horizon(r) \in Nat /\ Later(r) \in Nat /\ Later(r) >= Horizon(r)
    BY <2>1, ConstantsAssumption DEF Horizon
  <2>b. \A r : Horizon(r)' = Later(r)
    BY DEF Horizon
  (* An incident that is left is the one it was, and so is its window. *)
  <2>2. ASSUME NEW e \in Events, event'[e].state \in {"pending", "firing", "resolved"}
        PROVE  /\ event'[e] = event[e] /\ event[e].trig \in Nat
               /\ event[e].rule \in Rules
               /\ rule'[event[e].rule].window = rule[event[e].rule].window
               /\ rule[event[e].rule].window \in Nat
    <3>1. event'[e] = event[e] /\ OrderEvent(e) /\ OrderEvent(e)'
      BY <2>0, <2>2 DEF Elsewhere, OrderInv
    <3>2. event[e].rule \in Rules /\ rule[event[e].rule].row = "live"
          /\ rule'[event[e].rule].row = "live"
      BY <2>2, <3>1 DEF OrderEvent
    <3>3. event[e] \in EventRow /\ rule[event[e].rule] \in RuleRow
      BY <3>2 DEF TypeInv, TypeOK
    <3>4. QED
      BY <3>1, <3>2, <3>3 DEF EventRow, RuleRow, NoRetuning
  <2>3. ASSUME NEW e \in Events
        PROVE  WindowEvent(e)'
    <3>1. WindowEvent(e)
      BY DEF WindowInv
    <3>2. event'[e].state = "firing" => WaitedNow(e, Later(event'[e].rule))
      BY <2>2, <2>a, <3>1 DEF WindowEvent, WaitedNow, Waited
    <3>3. ASSUME event'[e].notified # Null
          PROVE  WaitedNow(e, event[e].notified) /\ event'[e].notified = event[e].notified
      <4>1. event'[e].state \in {"pending", "firing", "resolved"}
        <5>1. OrderEvent(e)' /\ (event'[e] = event[e] \/ event'[e].notified = Null)
          BY <2>0 DEF OrderInv, Elsewhere
        <5>2. event'[e] \in EventRow
          BY <3>3, <5>1 DEF TypeInv, TypeOK
        <5>3. QED
          BY <3>3, <5>1, <5>2 DEF OrderEvent, EventRow, EventStates, Open
      <4>2. QED
        BY <2>2, <3>1, <3>3, <4>1 DEF WindowEvent, WaitedNow, Waited
    <3>4. QED
      BY <3>2, <3>3 DEF WindowEvent, WaitedNow, Waited, Horizon
  <2>4. ASSUME NEW j \in Jobs
        PROVE  WindowJob(j)'
    <3>0. WindowJob(j) /\ OrderJob(job[j]) /\ HoldsId(job[j]) /\ job[j].at \in Nat
      BY DEF WindowInv, OrderInv, TypeInv, TypeOK, Local
    <3>1. CASE job'[j] = job[j]
      <4>1. Ahead(j)' = Ahead(j)
        BY <3>1 DEF Ahead, Claims
      <4>2. \A e \in Events : event'[e].state = "firing" /\ event'[e].rule \in Ahead(j)' =>
               WaitedNow(e, job'[j].at)
        BY <2>2, <3>0, <3>1, <4>1 DEF WindowJob, WaitedNow, Waited
      <4>3. job'[j].pc \in HasIncident /\ job'[j].path = "firing"
            /\ event'[job'[j].id].state # "gone" => WaitedNow(job'[j].id, job'[j].at)
        <5> SUFFICES ASSUME job[j].pc \in HasIncident, job[j].path = "firing",
                            event'[job[j].id].state # "gone"
                     PROVE  WaitedNow(job[j].id, job[j].at)
          BY <3>1
        <5>1. job[j].id \in Events /\ event[job[j].id].state # "new"
          BY <3>0 DEF HoldsId, OrderJob
        <5>2. event'[job[j].id] = event[job[j].id]
          BY <2>0, <5>1 DEF Elsewhere
        <5>3. event'[job[j].id].state \in {"pending", "firing", "resolved"}
          BY <5>1, <5>2 DEF TypeInv, TypeOK, EventRow, EventStates, Open
        <5>4. QED
          BY <2>2, <3>0, <5>1, <5>2, <5>3 DEF WindowJob, WaitedNow, Waited
      <4>4. \A r \in Claims(j)' : job'[j].at <= Later(r)
        <5>1. Claims(j)' = Claims(j) /\ Claims(j) \subseteq Rules
          BY <3>1 DEF Claims
        <5>2. QED
          BY <2>a, <3>0, <3>1, <5>1 DEF WindowJob
      <4>5. QED
        BY <4>2, <4>3, <4>4 DEF WindowJob, WaitedNow, Waited, Horizon
    <3>2. CASE job'[j] # job[j]
      <4>1. /\ job'[j].pc \in {"idle", "load"} /\ job'[j].cur = Null /\ job'[j].todo = {}
        BY <2>0, <3>2 DEF Elsewhere
      <4>2. ASSUME NEW r \in Claims(j)'
            PROVE  /\ r \in Rules /\ job'[j].at <= Later(r)
                   /\ j \notin Monitors => job'[j].at = Later(r)
        <5>1. /\ r \in Rules /\ job'[j].pc = "load" /\ ServerOf[r] \in job'[j].scope
              /\ r \in Connectivity <=> j \in Monitors
          BY <4>1, <4>2, ConstantsAssumption DEF Claims
        <5>2. CASE j \in Monitors
          BY <2>1, <2>a, <3>2, <5>1, <5>2
        <5>3. CASE j \notin Monitors
          BY <2>1, <2>a, <3>2, <5>1, <5>3
        <5>4. QED
          BY <5>1, <5>2, <5>3
      <4>3. ASSUME NEW e \in Events, event'[e].state = "firing", event'[e].rule \in Ahead(j)'
            PROVE  WaitedNow(e, job'[j].at)
        <5>1. event'[e].rule \in Claims(j)' /\ j \notin Monitors
          BY <4>1, <4>3 DEF Ahead
        <5>2. job'[j].at = Later(event'[e].rule)
          BY <4>2, <5>1
        <5>3. QED
          BY <2>3, <4>3, <5>2 DEF WindowEvent, WaitedNow, Waited, Horizon
      <4>4. job'[j].pc \notin HasIncident
        BY <4>1 DEF HasIncident
      <4>5. QED
        BY <4>2, <4>3, <4>4 DEF WindowJob, WaitedNow, Waited, Horizon
    <3>3. QED
      BY <3>1, <3>2
  <2>5. QED
    BY <2>1, <2>3, <2>4 DEF WindowInv
<1>2. ASSUME NEW j \in Jobs, Evaluate(j)
      PROVE  WindowInv'
  <2>1. UNCHANGED collected
    BY <1>2, IngestIsElsewhere DEF OrderedNext, IngestNext, orderedVars
  <2>2. QED
    BY <1>2, <2>1, EvaluateWindow
<1>3. QED
  BY <1>1, <1>2

(* What is proved of Spec holds of OrderedSpec, which only adds an order.  *)
LEMMA OrderedIsLifecycle == OrderedSpec => Spec
BY OrderedIsNext, PTL DEF OrderedSpec, OrderedInit, Spec

(* In the regime, while nobody retunes a rule, no incident is announced    *)
(* before its breach has lasted the window of its rule, whichever          *)
(* evaluations inserted, promoted and announced it, wherever others        *)
(* stopped, and however late the samples arrive: they are evaluated in the *)
(* order of their collection, as the agent's queue sends them              *)
(* (service.go:241, 259, runner.go:53-66).                                 *)
THEOREM WindowsKept ==
  OrderedSpec /\ []OneEvaluatorPerRule /\ [][NoRetuning]_vars => []WindowKept
<1>1. OrderedInit => SnapshotInv /\ WindowInv
  <2> SUFFICES ASSUME OrderedInit PROVE SnapshotInv /\ WindowInv
    OBVIOUS
  <2>1. SnapshotInv
    BY ConstantsAssumption DEF OrderedInit, Init, IdleJob, SnapshotInv, SnapshotJob
  <2>2. \A j \in Jobs : job[j].pc = "idle" /\ job[j].todo = {} /\ Claims(j) = {}
    BY ConstantsAssumption DEF OrderedInit, Init, IdleJob, Claims
  <2>3. \A e \in Events : event[e].state = "new" /\ event[e].notified = Null
    BY DEF OrderedInit, Init, NewEvent
  <2>4. WindowInv
    BY <2>2, <2>3 DEF OrderedInit, WindowInv, WindowEvent, WindowJob, HasIncident
  <2>5. QED
    BY <2>1, <2>4
<1>2. TypeInv /\ OrderInv /\ SnapshotInv /\ WindowInv /\ OneEvaluatorPerRule
      /\ [OrderedNext]_orderedVars /\ [NoRetuning]_vars => SnapshotInv' /\ WindowInv'
  <2>1. UNCHANGED vars => NoRetuning
    BY DEF vars, NoRetuning
  <2>2. QED
    BY <2>1, SnapshotStep, NextWindow, OrderedIsNext
<1>3. WindowInv => WindowKept
  BY DEF WindowInv, WindowEvent, Waited, WindowKept
<1>4. QED
  BY <1>1, <1>2, <1>3, OrderAlways, OrderedIsLifecycle, PTL DEF OrderedSpec

-----------------------------------------------------------------------------
(* Refinement.  Each statement of an evaluation is one step in the life of *)
(* an incident or does not show in it.  That a webhook tells of a recovery *)
(* only after the announcement needs one more fact about the evaluator.    *)

(* The incident that an evaluator reports as recovered was announced. *)
RecoveryJob(l) ==
    l.pc \in {"sync", "render", "channels", "send"} /\ l.path = "resolved" =>
        event[l.id].state = "gone" \/ event[l.id].notified # Null

RecoveryInv == \A j \in Jobs : RecoveryJob(job[j])

LEMMA EvaluateRecovery ==
  ASSUME TypeInv, OrderInv, RecoveryInv, OneEvaluatorPerRule,
         NEW j \in Jobs, Evaluate(j)
  PROVE  RecoveryInv'
<1>1. /\ OrderJob(job[j]) /\ RecoveryJob(job[j])
      /\ \A k \in Jobs \ {j} : job'[k] = job[k]
      /\ \A e \in Events : EvaluatorWrites(j, e)
  BY EvaluateKeeps, EvaluatorWritesOwn DEF OrderInv, RecoveryInv
<1>2. \A e \in Events : \/ event'[e] = event[e]
                        \/ event[e].state = "new" \/ event[e].rule \in Claims(j)
  BY <1>1, InsertFields DEF EvaluatorWrites
<1>3. ASSUME NEW k \in Jobs \ {j}
      PROVE  RecoveryJob(job[k])'
  <2>1. job[k].pc \in HasIncident => event'[job[k].id] = event[job[k].id]
    BY <1>1, <1>2, OthersUntouched
  <2>2. QED
    BY <1>1, <2>1 DEF RecoveryInv, RecoveryJob, HasIncident
<1>4. ASSUME UNCHANGED event, SameIncident(j),
             job[j].pc \in {"sync", "render", "channels", "send"}
      PROVE  RecoveryJob(job[j])'
  BY <1>1, <1>4 DEF RecoveryJob, SameIncident
<1>5. ASSUME job'[j].path # "resolved" \/ job'[j].pc \notin {"sync", "render", "channels", "send"}
      PROVE  RecoveryJob(job[j])'
  BY <1>5 DEF RecoveryJob
<1>6. ASSUME RuleDone(j)
      PROVE  RecoveryJob(job[j])'
  BY <1>5, <1>6 DEF RuleDone
<1>7. ASSUME Finish(j) \/ StatementFails(j)
      PROVE  RecoveryJob(job[j])'
  <2>1. AtRest(j)
    BY <1>7, IdleFields DEF Finish, StatementFails
  <2>2. QED
    BY <1>5, <2>1 DEF AtRest
<1>8. ASSUME NEW r \in Rules, NEW e \in Events, ResolveOpen(j, r, e)
      PROVE  RecoveryJob(job[j])'
  BY <1>8, ResolveOpenFields DEF RecoveryJob
<1>9. ASSUME NEW r \in Rules,
             \/ ResolveNone(j, r)
             \/ \E v : LookupNone(j, r, v) \/ \E e \in Events : LookupOpen(j, r, v, e)
      PROVE  RecoveryJob(job[j])'
  BY <1>5, <1>9, ResolveNoneFields, LookupNoneFields, LookupOpenFields
<1>10. ASSUME NEW e \in Events, InsertEvent(j, e)
       PROVE  RecoveryJob(job[j])'
  BY <1>5, <1>6, <1>10, InsertFields
<1>11. ASSUME Promote(j)
       PROVE  RecoveryJob(job[j])'
  BY <1>1, <1>5, <1>11, PromoteFields DEF OrderJob, SameIncident
<1>12. ASSUME Refresh(j)
       PROVE  RecoveryJob(job[j])'
  BY <1>1, <1>5, <1>6, <1>12, RefreshFields DEF OrderJob, SameIncident
<1>13. ASSUME LoadRules(j)
       PROVE  RecoveryJob(job[j])'
  BY <1>5, <1>13, LoadFields
<1>14. ASSUME Sync(j)
       PROVE  RecoveryJob(job[j])'
  BY <1>4, <1>6, <1>14, SyncFields DEF Sync
<1>15. ASSUME Cooldown(j)
       PROVE  RecoveryJob(job[j])'
  BY <1>1, <1>5, <1>6, <1>15, CooldownFields DEF OrderJob, SameIncident
<1>16. ASSUME Render(j)
       PROVE  RecoveryJob(job[j])'
  BY <1>4, <1>16, RenderFields DEF Render
<1>17. ASSUME LoadChannels(j)
       PROVE  RecoveryJob(job[j])'
  BY <1>4, <1>6, <1>17, LoadChannelsFields DEF LoadChannels
<1>18. ASSUME NEW c \in Channels, Send(j, c)
       PROVE  RecoveryJob(job[j])'
  BY <1>4, <1>6, <1>18, SendFields DEF Send
<1>19. ASSUME MarkNotified(j)
       PROVE  RecoveryJob(job[j])'
  BY <1>6, <1>19, MarkFields
<1>20. RecoveryJob(job[j])'
  BY <1>7, <1>8, <1>9, <1>10, <1>11, <1>12, <1>13, <1>14, <1>15, <1>16, <1>17, <1>18, <1>19
     DEF Evaluate
<1>21. QED
  BY <1>3, <1>20 DEF RecoveryInv

LEMMA NextRecovery ==
  ASSUME TypeInv, OrderInv, RecoveryInv, OneEvaluatorPerRule, [Next]_vars
  PROVE  RecoveryInv'
<1>1. ASSUME Elsewhere, NEW j \in Jobs
      PROVE  RecoveryJob(job[j])'
  <2>1. CASE job'[j] = job[j]
    <3>1. job[j].pc \in HasIncident => job[j].id \in Events
      BY DEF TypeInv, HoldsId
    <3>2. job[j].pc \in HasIncident => \/ event'[job[j].id] = event[job[j].id]
                                       \/ event'[job[j].id].state = "gone"
      BY <1>1, <3>1 DEF Elsewhere
    <3>3. QED
      BY <2>1, <3>2 DEF RecoveryInv, RecoveryJob, HasIncident
  <2>2. CASE job'[j] # job[j]
    BY <1>1, <2>2 DEF Elsewhere, RecoveryJob
  <2>3. QED
    BY <2>1, <2>2
<1>2. QED
  BY <1>1, EvaluateRecovery, ElsewhereSteps DEF RecoveryInv

LEMMA PhaseFacts ==
  ASSUME NEW row
  PROVE  /\ row.state = "new" => PhaseOf(row) = "none"
         /\ row.state = "pending" => PhaseOf(row) = "pending"
         /\ row.state = "firing" /\ row.notified = Null => PhaseOf(row) = "firing"
         /\ row.state = "firing" /\ row.notified # Null => PhaseOf(row) = "announced"
         /\ row.state = "resolved" /\ row.notified = Null => PhaseOf(row) = "resolved"
         /\ row.state = "resolved" /\ row.notified # Null => PhaseOf(row) = "recovered"
         /\ row.state = "gone" => PhaseOf(row) = "deleted"
BY DEF PhaseOf

(* A step that shows in the phase of one incident. *)
LEMMA LifeMoves ==
  ASSUME NEW e \in Events, UNCHANGED outbox,
         \A f \in Events \ {e} : event'[f] = event[f],
         event'[e].rule = event[e].rule
  PROVE  Life!Moves(e, PhaseOf(event'[e]))
BY DEF Life!Moves, Heard

(* A step that writes neither state, notified_at nor rule of an incident. *)
LEMMA LifeStutter ==
  ASSUME UNCHANGED outbox,
         \A e \in Events : /\ event'[e].state = event[e].state
                           /\ event'[e].notified = event[e].notified
                           /\ event'[e].rule = event[e].rule
  PROVE  UNCHANGED Life!vars
<1>1. \A e \in Events : PhaseOf(event'[e]) = PhaseOf(event[e])
  BY DEF PhaseOf
<1>2. QED
  BY <1>1 DEF Life!vars, Heard

LEMMA InsertLife ==
  ASSUME TypeInv, OrderInv, NEW j \in Jobs, NEW e \in Events, InsertEvent(j, e)
  PROVE  Life!Next
<1>1. /\ job[j].pc = "insert" /\ IndexAdmits(job[j].cur, e) /\ UNCHANGED outbox
      /\ event \in [Events -> EventRow]
  BY DEF InsertEvent, TypeInv, TypeOK
<1>2. PICK r \in Rules : r = job[j].cur
  BY <1>1 DEF OrderInv, OrderJob
<1>3. /\ event[e].state = "new" /\ \A f \in Events \ {e} : event'[f] = event[f]
      /\ event'[e].rule = r /\ event'[e].notified = Null
      /\ event'[e].state \in {"pending", "firing"}
  BY <1>2, InsertFields
<1>4. \A f \in Events : event[f].rule = r => PhaseOf(event[f]) \notin Life!Ongoing
  <2> SUFFICES ASSUME NEW f \in Events, event[f].rule = r
               PROVE  PhaseOf(event[f]) \notin Life!Ongoing
    OBVIOUS
  <2>1. event[f].state \in {"new", "resolved", "gone"}
    BY <1>1, <1>2, <1>3 DEF IndexAdmits, OpenOf, EventRow, EventStates, Open
  <2>2. QED
    BY <2>1, PhaseFacts DEF Life!Ongoing
<1>5. PhaseOf(event[e]) = "none" /\ PhaseOf(event'[e]) \in {"pending", "firing"}
  BY <1>3, PhaseFacts
<1>6. Life!Begin(e, r)
  BY <1>1, <1>3, <1>4, <1>5 DEF Life!Begin, Heard
<1>7. QED
  BY <1>6 DEF Life!Next

LEMMA PromoteLife ==
  ASSUME TypeInv, OrderInv, NEW j \in Jobs, Promote(j)
  PROVE  [Life!Next]_(Life!vars)
<1> DEFINE e == job[j].id
<1>1. OrderJob(job[j]) /\ job[j].pc = "promote" /\ e \in Events /\ UNCHANGED outbox
  BY PromoteFields DEF OrderInv, Promote
<1>2. PICK row : /\ Updates(e, row) /\ row.state = "firing"
                 /\ row.rule = event[e].rule /\ row.notified = event[e].notified
  BY PromoteFields
<1>3. /\ event[e].state = "pending" \/ event[e].state = "gone"
      /\ event[e].notified = Null
  BY <1>1 DEF OrderJob, HasIncident
<1> HIDE DEF e
<1>4. CASE event[e].state = "gone"
  BY <1>1, <1>2, <1>4, LifeStutter DEF Updates
<1>5. CASE event[e].state = "pending"
  <2>1. event'[e] = row /\ \A f \in Events \ {e} : event'[f] = event[f]
    BY <1>2, <1>5 DEF Updates
  <2>2. PhaseOf(event[e]) = "pending" /\ PhaseOf(event'[e]) = "firing"
    BY <1>2, <1>3, <1>5, <2>1, PhaseFacts
  <2>3. Life!Moves(e, "firing")
    BY <1>1, <1>2, <2>1, <2>2, LifeMoves
  <2>4. Life!Fire(e)
    BY <1>1, <2>2, <2>3 DEF Life!Fire
  <2>5. QED
    BY <1>1, <2>4 DEF Life!Next
<1>6. QED
  BY <1>3, <1>4, <1>5

LEMMA RefreshLife ==
  ASSUME TypeInv, NEW j \in Jobs, Refresh(j)
  PROVE  UNCHANGED Life!vars
<1>1. UNCHANGED outbox
  BY DEF Refresh
<1>2. PICK row : /\ Updates(job[j].id, row) /\ row.state = event[job[j].id].state
                 /\ row.rule = event[job[j].id].rule
                 /\ row.notified = event[job[j].id].notified
  BY RefreshFields
<1>3. QED
  BY <1>1, <1>2, LifeStutter DEF Updates

LEMMA MarkLife ==
  ASSUME TypeInv, OrderInv, NEW j \in Jobs, MarkNotified(j)
  PROVE  [Life!Next]_(Life!vars)
<1> DEFINE e == job[j].id
<1>0. job[j].at # Null
  BY ConstantsAssumption DEF TypeInv, TypeOK, Local
<1>1. OrderJob(job[j]) /\ job[j].pc = "mark" /\ e \in Events /\ UNCHANGED outbox
  BY MarkFields DEF OrderInv, MarkNotified
<1>2. PICK row : /\ Updates(e, row) /\ row.state = event[e].state
                 /\ row.rule = event[e].rule /\ row.notified = job[j].at
  BY MarkFields
<1>3. /\ event[e].state = "firing" \/ event[e].state = "gone"
      /\ event[e].notified = Null
  BY <1>1 DEF OrderJob, HasIncident
<1> HIDE DEF e
<1>4. CASE event[e].state = "gone"
  BY <1>1, <1>2, <1>4, LifeStutter DEF Updates
<1>5. CASE event[e].state = "firing"
  <2>1. event'[e] = row /\ \A f \in Events \ {e} : event'[f] = event[f]
    BY <1>2, <1>5 DEF Updates
  <2>2. PhaseOf(event[e]) = "firing" /\ PhaseOf(event'[e]) = "announced"
    BY <1>0, <1>2, <1>3, <1>5, <2>1, PhaseFacts
  <2>3. Life!Moves(e, "announced")
    BY <1>1, <1>2, <2>1, <2>2, LifeMoves
  <2>4. Life!Announce(e)
    BY <1>1, <2>2, <2>3 DEF Life!Announce
  <2>5. QED
    BY <1>1, <2>4 DEF Life!Next
<1>6. QED
  BY <1>3, <1>4, <1>5

LEMMA ResolveLife ==
  ASSUME TypeInv, OrderInv, NEW j \in Jobs, NEW r \in Rules, NEW e \in Events,
         ResolveOpen(j, r, e)
  PROVE  Life!Next
<1>1. event[e].state \in {"pending", "firing"} /\ UNCHANGED outbox /\ OrderEvent(e)
  BY DEF ResolveOpen, OpenOf, Open, OrderInv
<1>2. /\ \A f \in Events \ {e} : event'[f] = event[f]
      /\ event'[e].state = "resolved" /\ event'[e].rule = event[e].rule
      /\ event'[e].notified = event[e].notified
  BY ResolveOpenFields
<1>3. Life!Moves(e, PhaseOf(event'[e]))
  BY <1>1, <1>2, LifeMoves
<1>4. CASE event[e].notified = Null
  <2>1. PhaseOf(event[e]) \in {"pending", "firing"} /\ PhaseOf(event'[e]) = "resolved"
    BY <1>1, <1>2, <1>4, PhaseFacts
  <2>2. Life!Resolve(e)
    BY <1>3, <2>1 DEF Life!Resolve
  <2>3. QED
    BY <2>2 DEF Life!Next
<1>5. CASE event[e].notified # Null
  <2>1. PhaseOf(event[e]) = "announced" /\ PhaseOf(event'[e]) = "recovered"
    BY <1>1, <1>2, <1>5, PhaseFacts DEF OrderEvent
  <2>2. Life!Resolve(e)
    BY <1>3, <2>1 DEF Life!Resolve
  <2>3. QED
    BY <2>2 DEF Life!Next
<1>6. QED
  BY <1>4, <1>5

LEMMA SendLife ==
  ASSUME TypeInv, OrderInv, RecoveryInv, NEW j \in Jobs, NEW c \in Channels, Send(j, c)
  PROVE  Life!Next
<1> DEFINE e == job[j].id
           p == job[j].payload
           d == Request(job[j], c)
<1>1. /\ OrderJob(job[j]) /\ RecoveryJob(job[j]) /\ HoldsId(job[j])
      /\ job[j].pc = "send" /\ UNCHANGED event /\ outbox' = outbox \cup {d}
  BY SendFields DEF OrderInv, RecoveryInv, TypeInv, Send
<1>2. /\ e \in Events /\ p = job[j].path /\ p \in {"firing", "resolved"}
      /\ event[e].state \in {p, "gone"}
      /\ p = "firing" => event[e].notified = Null
      /\ p = "resolved" => event[e].state = "gone" \/ event[e].notified # Null
  BY <1>1 DEF OrderJob, RecoveryJob, HoldsId, HasIncident
<1>3. d.event = e /\ d.state = p
  BY DEF Request
<1> HIDE DEF e, p, d
<1>4. PhaseOf(event[e]) \in {IF p = "firing" THEN "firing" ELSE "recovered", "deleted"}
  BY <1>2, PhaseFacts
<1>5. \A f \in Events : Heard(f)' = IF f = e THEN Heard(f) \cup {p} ELSE Heard(f)
  BY <1>1, <1>3 DEF Heard
<1>6. Life!Tell(e)
  BY <1>1, <1>2, <1>4, <1>5 DEF Life!Tell
<1>7. QED
  BY <1>2, <1>6 DEF Life!Next

LEMMA DeleteLife ==
  ASSUME TypeInv, NEW r \in Rules, DeleteRule(r)
  PROVE  Life!Next
<1>1. /\ \A e \in Events : \/ event[e].rule # r /\ event'[e] = event[e]
                           \/ /\ event[e].rule = r /\ event'[e].state = "gone"
                              /\ event'[e].rule = Null
      /\ UNCHANGED outbox
  BY DeleteFields
<1>2. \A e \in Events : PhaseOf(event'[e]) = IF event[e].rule = r THEN "deleted"
                                             ELSE PhaseOf(event[e])
  BY <1>1, PhaseFacts
<1>3. \A e \in Events : event'[e].rule = IF event[e].rule = r THEN Null ELSE event[e].rule
  BY <1>1
<1>4. Life!Withdraw(r)
  BY <1>1, <1>2, <1>3 DEF Life!Withdraw, Heard
<1>5. QED
  BY <1>4 DEF Life!Next

LEMMA LifeStep ==
  ASSUME TypeInv, OrderInv, RecoveryInv, [Next]_vars
  PROVE  [Life!Next]_(Life!vars)
<1>1. CASE UNCHANGED <<event, outbox>>
  BY <1>1, LifeStutter
<1>2. ASSUME NEW j \in Jobs, Evaluate(j)
      PROVE  [Life!Next]_(Life!vars)
  BY <1>1, <1>2, InsertLife, PromoteLife, RefreshLife, MarkLife, ResolveLife, SendLife
     DEF Evaluate, LoadRules, Finish, LookupNone, LookupOpen, ResolveNone, Sync, Cooldown,
         Render, LoadChannels, StatementFails
<1>3. ASSUME NEW j \in Jobs, Interrupt(j)
      PROVE  UNCHANGED <<event, outbox>>
  BY <1>3 DEF Interrupt, Abort, SendFails
<1>4. CASE Arrive \/ Tick \/ UNCHANGED vars
  BY <1>1, <1>4 DEF Arrive, Ingest, MonitorTick, Heartbeat, Tick, vars
<1>5. CASE Operate
  BY <1>1, <1>5, DeleteLife
     DEF Operate, CreateRule, UpdateRule, CreateChannel, DeleteChannel, SetMaintenance
<1>6. QED
  BY <1>1, <1>2, <1>3, <1>4, <1>5 DEF Next

(* In the regime the statements of evaluations, each committed on its own  *)
(* and any of which may fail, amount to the life that Incidents gives an   *)
(* incident: one at a time for each rule, begin, fire, be announced, be    *)
(* resolved, and webhooks that tell of the state it is in                  *)
(* (service.go:237-345).                                                   *)
THEOREM LifeImplemented == Spec /\ []OneEvaluatorPerRule => IncidentsInOrder
<1>1. Init => RecoveryInv /\ Life!Init
  <2> SUFFICES ASSUME Init PROVE RecoveryInv /\ Life!Init
    OBVIOUS
  <2>1. RecoveryInv
    BY DEF Init, IdleJob, RecoveryInv, RecoveryJob
  <2>2. \A e \in Events : /\ PhaseOf(event[e]) = "none" /\ event[e].rule = Null
                          /\ Heard(e) = {}
    BY PhaseFacts DEF Init, NewEvent, Heard
  <2>3. QED
    BY <2>1, <2>2 DEF Life!Init
<1>2. TypeInv /\ OrderInv /\ RecoveryInv /\ OneEvaluatorPerRule /\ [Next]_vars
      => RecoveryInv'
  BY NextRecovery
<1>3. TypeInv /\ OrderInv /\ RecoveryInv /\ [Next]_vars => [Life!Next]_(Life!vars)
  BY LifeStep
<1>4. QED
  BY <1>1, <1>2, <1>3, OrderAlways, PTL DEF Spec, IncidentsInOrder, Life!Spec

-----------------------------------------------------------------------------
(* The regime follows from how evaluations start: a handler takes rules    *)
(* only when it starts, and never one that the monitor takes.              *)

(* The agent of a server sends a sample only when no evaluation of that    *)
(* server is left from the one before.                                     *)
AgentsWait ==
    \A h \in Handlers : job[h].pc = "idle" /\ job'[h].pc = "load" =>
        \A g \in Handlers \ {h} : \A r \in Claims(g) : ServerOf[r] \notin job'[h].scope

(* Handlers claim metric rules and monitors connectivity rules. *)
KindInv == \A j \in Jobs : \A r \in Claims(j) : r \in Connectivity <=> j \in Monitors

(* An evaluation that starts claims rules of its scope and of its kind. *)
Starts(j) ==
    /\ job[j].pc = "idle" /\ job'[j].pc = "load"
    /\ \A r \in Claims(j)' : /\ r \in Rules /\ ServerOf[r] \in job'[j].scope
                             /\ r \in Connectivity <=> j \in Monitors
    /\ \A k \in Jobs \ {j} : job'[k] = job[k]

LEMMA ClaimsStep ==
  ASSUME TypeInv, [Next]_vars
  PROVE  (\A j \in Jobs : Claims(j)' \subseteq Claims(j)) \/ \E j \in Jobs : Starts(j)
<1>1. CASE UNCHANGED job
  BY <1>1 DEF Claims
<1>2. ASSUME NEW j \in Jobs, Evaluate(j)
      PROVE  \A k \in Jobs : Claims(k)' \subseteq Claims(k)
  <2>1. \A k \in Jobs \ {j} : Claims(k)' = Claims(k)
    BY <1>2, EvaluateKeeps DEF Claims
  <2>2. job'[j].pc # "load"
    BY <1>2, EvaluateLeavesLoad
  <2>3. Claims(j)' \subseteq Claims(j)
    BY <1>2, <2>2, Narrows, LoadFields, ConstantsAssumption DEF Claims, AtRest
  <2>4. QED
    BY <2>1, <2>3
<1>3. ASSUME NEW h \in Handlers, NEW s \in Servers, NEW t, Ingest(h, s, t)
      PROVE  h \in Jobs /\ Starts(h)
  <2>1. h \in Jobs /\ job[h].pc = "idle"
    BY <1>3 DEF Ingest, Jobs
  <2>2. /\ job'[h].pc = "load" /\ job'[h].cur = Null /\ job'[h].todo = {}
        /\ \A k \in Jobs \ {h} : job'[k] = job[k]
    BY <1>3, IngestFields
  <2>3. QED
    BY <2>1, <2>2, ConstantsAssumption DEF Starts, Claims
<1>4. ASSUME NEW m \in Monitors, MonitorTick(m)
      PROVE  m \in Jobs /\ Starts(m)
  BY <1>4, MonitorFields, ConstantsAssumption DEF MonitorTick, Starts, Claims, Jobs
<1>5. ASSUME NEW j \in Jobs, Interrupt(j)
      PROVE  \A k \in Jobs : Claims(k)' \subseteq Claims(k)
  <2>1. Goto(j, IdleJob)
    BY <1>5 DEF Interrupt, Abort, SendFails
  <2>2. AtRest(j) /\ \A k \in Jobs \ {j} : job'[k] = job[k]
    BY <2>1, IdleFields, GotoIs
  <2>3. QED
    BY <2>2, ConstantsAssumption DEF AtRest, Claims
<1>6. CASE Operate
  BY <1>1, <1>6 DEF Operate, CreateRule, UpdateRule, DeleteRule, CreateChannel,
     DeleteChannel, SetMaintenance
<1>7. CASE Arrive
  BY <1>1, <1>3, <1>4, <1>7 DEF Arrive, Heartbeat
<1>8. CASE Tick \/ UNCHANGED vars
  BY <1>1, <1>8 DEF Tick, vars
<1>9. QED
  BY <1>2, <1>5, <1>6, <1>7, <1>8 DEF Next

LEMMA RegimeStep ==
  ASSUME TypeInv, KindInv, OneEvaluatorPerRule, \A m, n \in Monitors : m = n,
         [Next]_vars, AgentsWait
  PROVE  KindInv' /\ OneEvaluatorPerRule'
<1>1. CASE \A j \in Jobs : Claims(j)' \subseteq Claims(j)
  <2>1. KindInv'
    BY <1>1 DEF KindInv
  <2>2. OneEvaluatorPerRule'
    BY <1>1 DEF OneEvaluatorPerRule
  <2>3. QED
    BY <2>1, <2>2
<1>2. ASSUME NEW j \in Jobs, Starts(j)
      PROVE  KindInv' /\ OneEvaluatorPerRule'
  <2>1. \A k \in Jobs \ {j} : Claims(k)' = Claims(k)
    BY <1>2 DEF Starts, Claims
  <2>2. KindInv'
    BY <1>2, <2>1 DEF KindInv, Starts
  <2>3. ASSUME NEW k \in Jobs \ {j}
        PROVE  Claims(j)' \cap Claims(k) = {}
    <3>1. CASE j \in Monitors \/ k \in Monitors
      BY <1>2, <2>3, <3>1 DEF KindInv, Starts
    <3>2. CASE j \in Handlers /\ k \in Handlers
      BY <1>2, <2>3, <3>2 DEF AgentsWait, Starts
    <3>3. QED
      BY <3>1, <3>2 DEF Jobs
  <2>4. OneEvaluatorPerRule'
    BY <2>1, <2>3 DEF OneEvaluatorPerRule
  <2>5. QED
    BY <2>2, <2>4
<1>3. QED
  BY <1>1, <1>2, ClaimsStep

(* With one monitor at most, the regime is kept by agents that wait: the   *)
(* rules of different servers, and those of the monitor, never meet        *)
(* (runner.go:45-67, main.go:122).                                         *)
THEOREM OneByOne ==
  ASSUME \A m, n \in Monitors : m = n
  PROVE  Spec /\ [][AgentsWait]_vars => []OneEvaluatorPerRule
<1>1. Init => KindInv /\ OneEvaluatorPerRule
  <2> SUFFICES ASSUME Init, NEW j \in Jobs PROVE Claims(j) = {}
    BY DEF KindInv, OneEvaluatorPerRule
  <2>1. QED
    BY ConstantsAssumption DEF Init, IdleJob, Claims
<1>2. TypeInv /\ KindInv /\ OneEvaluatorPerRule /\ [Next]_vars /\ [AgentsWait]_vars
         => KindInv' /\ OneEvaluatorPerRule'
  <2>1. UNCHANGED vars => AgentsWait
    BY DEF vars, AgentsWait
  <2>2. QED
    BY <2>1, RegimeStep
<1>3. Spec => []TypeInv
  BY InitTypes, NextTypes, PTL DEF Spec
<1>4. QED
  BY <1>1, <1>2, <1>3, PTL DEF Spec

(* One handler at a time is an instance of it, so the four theorems above  *)
(* hold of the specification itself where evaluations come one by one.     *)
COROLLARY OneHandlerIsOrdinary ==
  ASSUME \A m, n \in Monitors : m = n, \A g, h \in Handlers : g = h
  PROVE  Spec => []OneEvaluatorPerRule
<1>1. AgentsWait
  BY DEF AgentsWait
<1>2. QED
  BY <1>1, OneByOne, PTL
=============================================================================
