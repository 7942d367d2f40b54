--------------------------- MODULE MetricDelivery ---------------------------
(***************************************************************************)
(* The way of metric samples from one agent to the database and to the     *)
(* alert engine: the bounded queue of the agent and its retries, requests  *)
(* and replies that are lost, the transaction that stores a sample under   *)
(* (agent_id, sequence), and the evaluation that follows its commit.       *)
(*                                                                         *)
(* The agent is one goroutine that waits for each answer.  When it stops   *)
(* waiting, the handler at the API may still be at work, so several        *)
(* handlers may hold the same sample.                                      *)
(*                                                                         *)
(* Abstractions: a sample is an id that stands for its sequence number.    *)
(* Sequence numbers are never used twice; an id is used again for a new    *)
(* sample once neither the agent nor a handler holds the old one, which    *)
(* keeps the model finite however long the agent runs.  The evaluation is  *)
(* one step here and many in AlertLifecycle.  Backoff takes no time.       *)
(***************************************************************************)
EXTENDS Naturals, Sequences

CONSTANTS
    Samples,    \* ids of samples
    Handlers,   \* requests in progress at the API at one time
    MaxQueue,   \* maxQueue (100)
    Attempts,   \* attempts of one delivery (5)
    Fresh,      \* what validate may say of a sample when it is collected
    Null

ASSUME ConstantsAssumption ==
    /\ MaxQueue \in Nat \ {0} /\ Attempts \in Nat \ {0}
    /\ Fresh \subseteq {"early", "fine", "bad"}
    /\ Null \notin Handlers /\ Null \notin Samples

VARIABLES
    quality,    \* what validate says of each sample by now
    fate,       \* what the agent did with each sample
    rows,       \* metric_samples: committed rows (deletion comes much later)
    evaluated,  \* samples whose evaluation ran to its end
    revoked,    \* the agent's credential is revoked, or its server deleted
    agent,      \* local variables of Run and retry
    handler     \* local variables of each request handler

vars == <<quality, fate, rows, evaluated, revoked, agent, handler>>

-----------------------------------------------------------------------------
(* "early": collected_at is over two minutes ahead; "bad": over a day old, *)
(* or a value is out of range.                                             *)
Qualities == {"early", "fine", "bad"}
Fates == {"new", "queued", "accepted", "dropped"}

AgentState == [pc: {"down", "idle", "deliver", "wait"}, queue: Seq(Samples),
               tries: Nat, waits: Handlers \cup {Null}]
HandlerState == [pc: {"idle", "arrived", "insert", "commit", "evaluate", "reply"},
                 sample: Samples \cup {Null},
                 answer: {"none", "ok", "transient", "refused"}]

AgentDown == [pc |-> "down", queue |-> <<>>, tries |-> 0, waits |-> Null]
IdleHandler == [pc |-> "idle", sample |-> Null, answer |-> "none"]

TypeOK ==
    /\ quality \in [Samples -> Qualities]
    /\ fate \in [Samples -> Fates]
    /\ rows \subseteq Samples /\ evaluated \subseteq Samples
    /\ revoked \in BOOLEAN
    /\ agent \in AgentState /\ Len(agent.queue) <= MaxQueue /\ agent.tries < Attempts
    /\ handler \in [Handlers -> HandlerState]

Init ==
    /\ quality = [s \in Samples |-> "fine"]
    /\ fate = [s \in Samples |-> "new"]
    /\ rows = {} /\ evaluated = {}
    /\ revoked = FALSE
    /\ agent = AgentDown
    /\ handler = [h \in Handlers |-> IdleHandler]

-----------------------------------------------------------------------------
(* The agent.                                                              *)

Unheld(s) == fate[s] # "queued" /\ \A h \in Handlers : handler[h].sample # s

(* appendBounded: a full queue loses its oldest sample. *)
AppendBounded_Newest(queue, s) ==
    IF Len(queue) = MaxQueue THEN queue ELSE Append(queue, s)
AppendBounded_Unbounded(queue, s) == Append(queue, s)
AppendBounded_Reset(queue, s) ==
    IF Len(queue) = MaxQueue THEN <<s>> ELSE Append(queue, s)
AppendBounded(queue, s) ==
    IF Len(queue) = MaxQueue THEN Append(Tail(queue), s) ELSE Append(queue, s)

Queued(queue, s) == \E i \in 1..Len(queue) : queue[i] = s

Boot ==
    /\ agent.pc = "down"
    /\ agent' = [agent EXCEPT !.pc = "idle"]
    /\ UNCHANGED <<quality, fate, rows, evaluated, revoked, handler>>

(* The metrics timer fires; s is the sample collected, of quality q. *)
Collect(s, q) ==
    LET queue == AppendBounded(agent.queue, s)
    IN  /\ agent.pc = "idle"
        /\ Unheld(s)
        /\ agent' = [agent EXCEPT !.pc = "deliver", !.queue = queue]
        /\ fate' = [x \in Samples |-> IF Queued(queue, x) THEN "queued"
                                      ELSE IF x = s \/ fate[x] = "queued" THEN "dropped"
                                      ELSE fate[x]]
        /\ quality' = [quality EXCEPT ![s] = q]
        /\ rows' = rows \ {s} /\ evaluated' = evaluated \ {s}
        /\ UNCHANGED <<revoked, handler>>

(* The timer fires and /proc cannot be read: what is queued is still sent. *)
CollectNothing ==
    /\ agent.pc = "idle"
    /\ agent' = [agent EXCEPT !.pc = "deliver"]
    /\ UNCHANGED <<quality, fate, rows, evaluated, revoked, handler>>

Drained ==
    /\ agent.pc = "deliver" /\ agent.queue = <<>>
    /\ agent' = [agent EXCEPT !.pc = "idle"]
    /\ UNCHANGED <<quality, fate, rows, evaluated, revoked, handler>>

Send(h) ==
    /\ agent.pc = "deliver" /\ agent.queue # <<>>
    /\ handler[h].pc = "idle"
    /\ agent' = [agent EXCEPT !.pc = "wait", !.waits = h]
    /\ handler' = [handler EXCEPT ![h] = [pc |-> "arrived", sample |-> Head(agent.queue),
                                          answer |-> "none"]]
    /\ UNCHANGED <<quality, fate, rows, evaluated, revoked>>

(* retry: an attempt failed in a way that may pass. *)
Failed(a) ==
    [a EXCEPT !.pc = IF a.tries + 1 < Attempts THEN "deliver" ELSE "idle",
              !.tries = IF a.tries + 1 < Attempts THEN a.tries + 1 ELSE 0,
              !.waits = Null]

(* What the agent does with an answer. *)
Delivers_Refused(answer) == answer \in {"ok", "refused"}
Delivers(answer) == answer = "ok"

AfterAnswer(a, answer) ==
    CASE Delivers(answer) ->
            [a EXCEPT !.pc = "deliver", !.queue = Tail(@), !.tries = 0, !.waits = Null]
      [] ~Delivers(answer) /\ answer = "refused" ->
            [a EXCEPT !.pc = "idle", !.tries = 0, !.waits = Null]
      [] OTHER -> Failed(a)

(* The API cannot be reached. *)
Unreachable ==
    /\ agent.pc = "deliver" /\ agent.queue # <<>>
    /\ agent' = Failed(agent)
    /\ UNCHANGED <<quality, fate, rows, evaluated, revoked, handler>>

(* The connection breaks, or no answer comes within the request timeout. *)
GiveUp ==
    /\ agent.pc = "wait"
    /\ agent' = Failed(agent)
    /\ UNCHANGED <<quality, fate, rows, evaluated, revoked, handler>>

(* The process stops; the queue was only in memory. *)
Crash ==
    /\ agent.pc # "down"
    /\ agent' = AgentDown
    /\ fate' = [s \in Samples |-> IF fate[s] = "queued" THEN "dropped" ELSE fate[s]]
    /\ UNCHANGED <<quality, rows, evaluated, revoked, handler>>

-----------------------------------------------------------------------------
(* The API.                                                                *)

Goto(h, pc) == handler' = [handler EXCEPT ![h].pc = pc]
Answer(h, answer) == handler' = [handler EXCEPT ![h].pc = "reply", ![h].answer = answer]

(* validate, and AuthenticateAgent in a statement of its own. *)
Refuse(h) ==
    /\ handler[h].pc = "arrived"
    /\ quality[handler[h].sample] # "fine" \/ revoked
    /\ Answer(h, "refused")
    /\ UNCHANGED <<quality, fate, rows, evaluated, revoked, agent>>

Admit(h) ==
    /\ handler[h].pc = "arrived"
    /\ quality[handler[h].sample] = "fine" /\ ~revoked
    /\ Goto(h, "insert")
    /\ UNCHANGED <<quality, fate, rows, evaluated, revoked, agent>>

(* INSERT ... ON CONFLICT (agent_id, sequence) DO NOTHING waits for a      *)
(* transaction that inserted the same key and has not ended.               *)
Waits_Never(h) == FALSE
Waits(h) == \E g \in Handlers \ {h} :
                handler[g].pc = "commit" /\ handler[g].sample = handler[h].sample

InsertDuplicate(h) ==
    /\ handler[h].pc = "insert" /\ ~Waits(h)
    /\ handler[h].sample \in rows
    /\ Answer(h, "ok")
    /\ UNCHANGED <<quality, fate, rows, evaluated, revoked, agent>>

Insert(h) ==
    /\ handler[h].pc = "insert" /\ ~Waits(h)
    /\ handler[h].sample \notin rows
    /\ Goto(h, "commit")
    /\ UNCHANGED <<quality, fate, rows, evaluated, revoked, agent>>

Commit(h) ==
    /\ handler[h].pc = "commit"
    /\ rows' = rows \cup {handler[h].sample}
    /\ Goto(h, "evaluate")
    /\ UNCHANGED <<quality, fate, evaluated, revoked, agent>>

Evaluate(h) ==
    /\ handler[h].pc = "evaluate"
    /\ evaluated' = evaluated \cup {handler[h].sample}
    /\ Answer(h, "ok")
    /\ UNCHANGED <<quality, fate, rows, revoked, agent>>

(* An evaluation that fails is logged; the answer is the same. *)
CutShort(h) ==
    /\ handler[h].pc = "evaluate"
    /\ Answer(h, "ok")
    /\ UNCHANGED <<quality, fate, rows, evaluated, revoked, agent>>

(* The rate limit, or an error of the database: 429 and 500. *)
Fail(h) ==
    /\ handler[h].pc \in {"arrived", "insert", "commit"}
    /\ Answer(h, "transient")
    /\ UNCHANGED <<quality, fate, rows, evaluated, revoked, agent>>

(* The commit took place and its outcome did not reach the API: 500. *)
CommitUnseen(h) ==
    /\ handler[h].pc = "commit"
    /\ rows' = rows \cup {handler[h].sample}
    /\ Answer(h, "transient")
    /\ UNCHANGED <<quality, fate, evaluated, revoked, agent>>

(* The API stops; open transactions are rolled back. *)
StopApi ==
    /\ handler' = [h \in Handlers |-> IdleHandler]
    /\ UNCHANGED <<quality, fate, rows, evaluated, revoked, agent>>

(* An answer reaches the agent if it still waits for it. *)
Reply(h) ==
    LET answer == handler[h].answer
    IN  /\ handler[h].pc = "reply"
        /\ handler' = [handler EXCEPT ![h] = IdleHandler]
        /\ \/ /\ agent.waits = h
              /\ agent' = AfterAnswer(agent, answer)
              /\ fate' = IF Delivers(answer)
                         THEN [fate EXCEPT ![Head(agent.queue)] = "accepted"] ELSE fate
           \/ /\ agent.waits # h
              /\ UNCHANGED <<agent, fate>>
        /\ UNCHANGED <<quality, rows, evaluated, revoked>>

-----------------------------------------------------------------------------
(* Time and operators.                                                     *)

(* A sample reaches the accepted window, or leaves it; nothing looks at a  *)
(* sample that neither the agent nor a handler holds.                      *)
Pass(s) ==
    /\ ~Unheld(s) /\ quality[s] # "bad"
    /\ quality' = [quality EXCEPT ![s] = IF @ = "early" THEN "fine" ELSE "bad"]
    /\ UNCHANGED <<fate, rows, evaluated, revoked, agent, handler>>

Revoke ==
    /\ ~revoked
    /\ revoked' = TRUE
    /\ UNCHANGED <<quality, fate, rows, evaluated, agent, handler>>

-----------------------------------------------------------------------------
RunAgent ==
    \/ Boot
    \/ \E s \in Samples, q \in Fresh : Collect(s, q)
    \/ Drained
    \/ \E h \in Handlers : Send(h)

Serve(h) ==
    \/ Refuse(h) \/ Admit(h) \/ InsertDuplicate(h) \/ Insert(h)
    \/ Commit(h) \/ Evaluate(h) \/ Reply(h)

(* The agent gives up on a handler that no longer exists. *)
Disconnected == GiveUp /\ handler[agent.waits].pc = "idle"
TimedOut == GiveUp /\ handler[agent.waits].pc # "idle"

Fault ==
    \/ CollectNothing \/ Unreachable \/ TimedOut \/ Crash \/ StopApi
    \/ \E h \in Handlers : CutShort(h) \/ Fail(h) \/ CommitUnseen(h)

Next ==
    \/ RunAgent \/ Disconnected
    \/ \E h \in Handlers : Serve(h)
    \/ \E s \in Samples : Pass(s)
    \/ Revoke
    \/ Fault

Spec == Init /\ [][Next]_vars

-----------------------------------------------------------------------------
(* A sample that the agent dropped from its queue as delivered is stored:  *)
(* no answer, of a duplicate either, precedes the commit it vouches for    *)
(* (metrics/service.go:110-138, runner.go:57-65).                          *)
AcceptedIsStored == \A s \in Samples : fate[s] = "accepted" => s \in rows

(* A sample is evaluated by at most one handler, however often it was sent *)
(* and however its requests overlap (metrics/handler.go:76).               *)
EvaluatedOnce ==
    \A h \in Handlers : handler[h].pc = "evaluate" =>
        /\ handler[h].sample \notin evaluated
        /\ \A g \in Handlers : handler[g].pc = "evaluate"
                               /\ handler[g].sample = handler[h].sample => g = h

-----------------------------------------------------------------------------
(* Liveness.  Handlers run, the agent's timers fire (runner.go:49-66), a   *)
(* stopped agent is started again, and a broken connection is noticed.     *)
Fairness ==
    /\ \A h \in Handlers : WF_vars(Serve(h))
    /\ WF_vars(RunAgent)
    /\ WF_vars(Disconnected)

FairSpec == Spec /\ Fairness

FaultsCease == <>[][~Fault]_vars

(* No sample blocks the queue for ever, not even one the API refuses or    *)
(* every sample of a revoked agent (runner.go:57-63, 122-128).             *)
QueueMoves ==
    FaultsCease => \A s \in Samples : fate[s] = "queued" ~> fate[s] # "queued"

(* Once failures cease, the overflow takes nothing but samples that the    *)
(* API would refuse: one bad sample at the head of the queue delays the    *)
(* samples behind it and costs none of them (runner.go:57-65, 122-128).    *)
OnlyBadAreDropped ==
    FaultsCease =>
        <>[][\A s \in Samples : fate[s] = "queued" /\ fate'[s] = "dropped" =>
                quality[s] = "bad" \/ revoked]_vars
=============================================================================
