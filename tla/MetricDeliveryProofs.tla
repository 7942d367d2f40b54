------------------------ MODULE MetricDeliveryProofs ------------------------
(***************************************************************************)
(* Proofs about MetricDelivery, for any number of samples and handlers,    *)
(* any length of the queue and any number of attempts:                     *)
(*   - the type invariant, with the bound of the queue;                    *)
(*   - a sample the agent is done with is stored;                          *)
(*   - a sample is evaluated at most once.                                 *)
(***************************************************************************)
EXTENDS MetricDelivery, SequenceTheorems, TLAPS

-----------------------------------------------------------------------------
(* Types.  A handler at work has a sample, and the one the agent waits for *)
(* has the head of its queue.                                              *)

HandlerShape(r) ==
    /\ r.pc = "idle" => r = IdleHandler
    /\ r.pc # "idle" => r.sample \in Samples

AgentShape ==
    /\ agent.waits # Null <=> agent.pc = "wait"
    /\ agent.pc = "wait" => /\ agent.queue # <<>>
                            /\ handler[agent.waits].pc # "idle" =>
                                   handler[agent.waits].sample = Head(agent.queue)

TypeInv == TypeOK /\ AgentShape /\ \A h \in Handlers : HandlerShape(handler[h])

(* A queue that gives up its oldest element, or takes a new one.           *)
LEMMA QueueTypes ==
  ASSUME NEW q \in Seq(Samples), Len(q) <= MaxQueue, NEW s \in Samples
  PROVE  /\ AppendBounded(q, s) \in Seq(Samples)
         /\ Len(AppendBounded(q, s)) <= MaxQueue
         /\ q # <<>> => /\ Tail(q) \in Seq(Samples) /\ Len(Tail(q)) <= MaxQueue
                        /\ Head(q) \in Samples
<1>1. q # <<>> => /\ Tail(q) \in Seq(Samples) /\ Len(Tail(q)) = Len(q) - 1
                  /\ Head(q) \in Samples
  BY HeadTailProperties
<1>2. Len(q) = MaxQueue => q # <<>>
  BY ConstantsAssumption
<1>3. Len(q) \in Nat
  OBVIOUS
<1>4. q # <<>> => Len(Append(Tail(q), s)) = Len(q)
  BY <1>1, <1>3
<1>5. QED
  BY <1>1, <1>2, <1>3, <1>4, ConstantsAssumption DEF AppendBounded

(* A failed attempt keeps the queue and the type of the agent. *)
LEMMA FailedTypes ==
  ASSUME TypeInv
  PROVE  /\ Failed(agent) \in AgentState
         /\ Failed(agent).queue = agent.queue
         /\ Failed(agent).tries < Attempts
         /\ Failed(agent).waits = Null /\ Failed(agent).pc # "wait"
<1> DEFINE n == agent.tries + 1
           after(pc, k) == [agent EXCEPT !.pc = pc, !.tries = k, !.waits = Null]
<1>1. agent \in AgentState /\ n \in Nat /\ 0 \in Nat /\ 0 < Attempts
  BY ConstantsAssumption DEF TypeInv, TypeOK, AgentState
<1>2. ASSUME NEW pc \in {"deliver", "idle"}, NEW k \in Nat
      PROVE  /\ after(pc, k) \in AgentState /\ after(pc, k).queue = agent.queue
             /\ after(pc, k).tries = k /\ after(pc, k).waits = Null
             /\ after(pc, k).pc = pc
  BY <1>1 DEF AgentState
<1>3. Failed(agent) = IF n < Attempts THEN after("deliver", n) ELSE after("idle", 0)
  BY DEF Failed
<1> HIDE DEF after, n
<1>4. CASE n < Attempts
  BY <1>1, <1>2, <1>3, <1>4
<1>5. CASE ~(n < Attempts)
  BY <1>1, <1>2, <1>3, <1>5
<1>6. QED
  BY <1>4, <1>5

(* Replacing the locals of one handler by well typed ones keeps types. *)
LEMMA HandlerTypes ==
  ASSUME TypeInv, NEW h \in Handlers, NEW l \in HandlerState, HandlerShape(l),
         handler' = [handler EXCEPT ![h] = l],
         l.pc # "idle" /\ agent.waits = h => l.sample = Head(agent.queue),
         rows' \subseteq Samples, evaluated' \subseteq Samples,
         UNCHANGED <<quality, fate, revoked, agent>>
  PROVE  TypeInv'
<1>1. handler' \in [Handlers -> HandlerState]
  BY DEF TypeInv, TypeOK
<1>2. \A k \in Handlers : handler'[k] = IF k = h THEN l ELSE handler[k]
  BY DEF TypeInv, TypeOK
<1>3. \A k \in Handlers : HandlerShape(handler'[k])
  BY <1>2 DEF TypeInv
<1>4. AgentShape'
  <2>1. agent.waits \in Handlers \/ agent.waits = Null
    BY DEF TypeInv, TypeOK, AgentState
  <2>2. QED
    BY <1>2, <2>1 DEF TypeInv, AgentShape
<1>5. QED
  BY <1>1, <1>3, <1>4 DEF TypeInv, TypeOK

(* A handler that goes on, or answers, with its sample unchanged. *)
LEMMA GotoTypes ==
  ASSUME TypeInv, NEW h \in Handlers, handler[h].pc # "idle",
         NEW pc \in {"insert", "commit", "evaluate", "reply"},
         NEW a \in {"none", "ok", "transient", "refused"},
         \/ pc # "reply" /\ Goto(h, pc)
         \/ pc = "reply" /\ Answer(h, a)
  PROVE  \E l \in HandlerState : /\ HandlerShape(l) /\ l.pc # "idle"
                                 /\ l.sample = handler[h].sample
                                 /\ handler' = [handler EXCEPT ![h] = l]
<1>0. handler[h] \in HandlerState /\ HandlerShape(handler[h])
  BY DEF TypeInv, TypeOK
<1>1. CASE Goto(h, pc)
  <2> DEFINE l == [handler[h] EXCEPT !.pc = pc]
  <2>1. l \in HandlerState /\ HandlerShape(l) /\ l.pc # "idle" /\ l.sample = handler[h].sample
    BY <1>0 DEF HandlerState, HandlerShape
  <2>2. handler' = [handler EXCEPT ![h] = l]
    BY <1>1 DEF Goto
  <2> HIDE DEF l
  <2>3. QED
    BY <2>1, <2>2
<1>2. CASE Answer(h, a)
  <2> DEFINE l == [handler[h] EXCEPT !.pc = "reply", !.answer = a]
  <2>1. l \in HandlerState /\ HandlerShape(l) /\ l.pc # "idle" /\ l.sample = handler[h].sample
    BY <1>0 DEF HandlerState, HandlerShape
  <2>2. handler' = [handler EXCEPT ![h] = l]
    BY <1>2 DEF Answer
  <2> HIDE DEF l
  <2>3. QED
    BY <2>1, <2>2
<1>3. QED
  BY <1>1, <1>2

(* The type invariant is kept by every step of a request handler.          *)
LEMMA WorkTypes ==
  ASSUME TypeInv, NEW h \in Handlers,
         \/ Refuse(h) \/ Admit(h) \/ InsertDuplicate(h) \/ Insert(h)
         \/ Commit(h) \/ Evaluate(h) \/ CutShort(h) \/ Fail(h) \/ CommitUnseen(h)
  PROVE  TypeInv'
<1>1. handler[h].pc # "idle"
  BY DEF Refuse, Admit, InsertDuplicate, Insert, Commit, Evaluate, CutShort, Fail, CommitUnseen
<1>2. handler[h].sample \in Samples
  BY <1>1 DEF TypeInv, HandlerShape
<1>3. \E l \in HandlerState : /\ HandlerShape(l) /\ l.pc # "idle"
                              /\ l.sample = handler[h].sample
                              /\ handler' = [handler EXCEPT ![h] = l]
  BY <1>1, GotoTypes
     DEF Refuse, Admit, InsertDuplicate, Insert, Commit, Evaluate, CutShort, Fail, CommitUnseen
<1>4. PICK l \in HandlerState : /\ HandlerShape(l) /\ l.pc # "idle"
                               /\ l.sample = handler[h].sample
                               /\ handler' = [handler EXCEPT ![h] = l]
  BY <1>3
<1>5. agent.waits = h => l.sample = Head(agent.queue)
  BY <1>1, <1>4, ConstantsAssumption DEF TypeInv, AgentShape
<1>6. /\ rows' \subseteq Samples /\ evaluated' \subseteq Samples
      /\ UNCHANGED <<quality, fate, revoked, agent>>
  BY <1>2 DEF TypeInv, TypeOK,
              Refuse, Admit, InsertDuplicate, Insert, Commit, Evaluate, CutShort, Fail, CommitUnseen
<1>7. QED
  BY <1>4, <1>5, <1>6, HandlerTypes

(* The agent that waits for h takes the answer of h to the head of its     *)
(* queue.                                                                  *)
LEMMA AnswerTypes ==
  ASSUME TypeInv, NEW h \in Handlers, handler[h].pc = "reply", agent.waits = h
  PROVE  /\ agent.queue # <<>> /\ Head(agent.queue) = handler[h].sample
         /\ LET a == AfterAnswer(agent, handler[h].answer)
            IN  /\ a \in AgentState /\ Len(a.queue) <= MaxQueue /\ a.tries < Attempts
                /\ a.waits = Null /\ a.pc # "wait"
<1> DEFINE a == AfterAnswer(agent, handler[h].answer)
<1>1. agent \in AgentState /\ Len(agent.queue) <= MaxQueue /\ agent.queue \in Seq(Samples)
  BY DEF TypeInv, TypeOK, AgentState
<1>2. agent.queue # <<>> /\ Head(agent.queue) = handler[h].sample
  BY ConstantsAssumption DEF TypeInv, AgentShape
<1>3. Tail(agent.queue) \in Seq(Samples) /\ Len(Tail(agent.queue)) <= MaxQueue
  <2>1. handler[h].sample \in Samples
    BY DEF TypeInv, HandlerShape
  <2>2. QED
    BY <1>1, <1>2, <2>1, QueueTypes
<1>4. 0 \in Nat /\ 0 < Attempts
  BY ConstantsAssumption
<1>5. CASE Delivers(handler[h].answer)
  <2>1. a = [agent EXCEPT !.pc = "deliver", !.queue = Tail(agent.queue), !.tries = 0,
                          !.waits = Null]
    BY <1>5 DEF AfterAnswer
  <2> HIDE DEF a
  <2>2. a \in AgentState /\ a.queue = Tail(agent.queue) /\ a.tries = 0
        /\ a.waits = Null /\ a.pc # "wait"
    BY <1>1, <1>3, <1>4, <2>1 DEF AgentState
  <2>3. QED
    BY <1>2, <1>3, <1>4, <2>2 DEF a
<1>6. CASE ~Delivers(handler[h].answer) /\ handler[h].answer = "refused"
  <2>1. a = [agent EXCEPT !.pc = "idle", !.tries = 0, !.waits = Null]
    BY <1>6 DEF AfterAnswer
  <2> HIDE DEF a
  <2>2. a \in AgentState /\ a.queue = agent.queue /\ a.tries = 0
        /\ a.waits = Null /\ a.pc # "wait"
    BY <1>1, <1>4, <2>1 DEF AgentState
  <2>3. QED
    BY <1>1, <1>2, <1>4, <2>2 DEF a
<1>7. CASE ~Delivers(handler[h].answer) /\ handler[h].answer # "refused"
  <2>1. a = Failed(agent)
    BY <1>7 DEF AfterAnswer
  <2>2. QED
    BY <1>1, <1>2, <2>1, FailedTypes
<1>8. QED
  BY <1>5, <1>6, <1>7

(* The initial state is well typed. *)
LEMMA InitTypes == Init => TypeInv
<1> SUFFICES ASSUME Init PROVE TypeInv
  OBVIOUS
<1>1. <<>> \in Seq(Samples) /\ Len(<<>>) = 0 /\ 0 \in Nat /\ 0 <= MaxQueue /\ 0 < Attempts
  BY ConstantsAssumption
<1>2. /\ AgentDown \in AgentState /\ AgentDown.queue = <<>> /\ AgentDown.tries = 0
      /\ AgentDown.waits = Null /\ AgentDown.pc = "down"
  BY <1>1 DEF AgentDown, AgentState
<1>3. IdleHandler \in HandlerState /\ IdleHandler.pc = "idle"
  BY DEF IdleHandler, HandlerState
<1>4. \A h \in Handlers : handler[h] = IdleHandler
  BY DEF Init
<1>5. \A h \in Handlers : HandlerShape(handler[h])
  BY <1>3, <1>4 DEF HandlerShape
<1>6. handler \in [Handlers -> HandlerState]
  BY <1>3 DEF Init
<1>7. agent \in AgentState /\ Len(agent.queue) <= MaxQueue /\ agent.tries < Attempts
      /\ AgentShape
  BY <1>1, <1>2 DEF Init, AgentShape
<1>8. QED
  BY <1>5, <1>6, <1>7 DEF Init, TypeInv, TypeOK, Qualities, Fates

(* Every step keeps the types.                                             *)
LEMMA StepTypes == TypeInv /\ [Next]_vars => TypeInv'
<1> SUFFICES ASSUME TypeInv, [Next]_vars
             PROVE  TypeInv'
  OBVIOUS
<1>0. /\ agent \in AgentState /\ agent.queue \in Seq(Samples) /\ Len(agent.queue) <= MaxQueue
      /\ agent.tries < Attempts
  BY DEF TypeInv, TypeOK, AgentState
<1>1. CASE Boot
  <2> DEFINE a == [agent EXCEPT !.pc = "idle"]
  <2>1. a \in AgentState /\ a.queue = agent.queue /\ a.tries = agent.tries
        /\ a.waits = agent.waits /\ a.pc = "idle"
    BY <1>0 DEF AgentState
  <2>2. agent' = a
    BY <1>1 DEF Boot
  <2> HIDE DEF a
  <2>3. QED
    BY <1>1, <2>1, <2>2 DEF Boot, TypeInv, TypeOK, AgentShape
<1>2. ASSUME NEW s \in Samples, NEW q \in Fresh, Collect(s, q)
      PROVE  TypeInv'
  <2> DEFINE queue == AppendBounded(agent.queue, s)
             a == [agent EXCEPT !.pc = "deliver", !.queue = queue]
  <2>1. queue \in Seq(Samples) /\ Len(queue) <= MaxQueue
    BY <1>0, QueueTypes
  <2>2. agent' = a
    BY <1>2 DEF Collect
  <2> HIDE DEF queue
  <2>3. a \in AgentState /\ a.queue = queue /\ a.tries = agent.tries
        /\ a.waits = agent.waits /\ a.pc = "deliver"
    BY <1>0, <2>1 DEF AgentState
  <2> HIDE DEF a
  <2>4. fate' \in [Samples -> Fates] /\ quality' \in [Samples -> Qualities]
    BY <1>2, ConstantsAssumption DEF Collect, TypeInv, TypeOK, Fates, Qualities
  <2>5. rows' \subseteq Samples /\ evaluated' \subseteq Samples /\ UNCHANGED <<revoked, handler>>
    BY <1>2 DEF Collect, TypeInv, TypeOK
  <2>6. agent.waits = Null
    BY <1>2 DEF Collect, TypeInv, AgentShape
  <2>7. QED
    BY <1>0, <2>1, <2>2, <2>3, <2>4, <2>5, <2>6 DEF TypeInv, TypeOK, AgentShape
<1>3. CASE CollectNothing
  <2> DEFINE a == [agent EXCEPT !.pc = "deliver"]
  <2>1. a \in AgentState /\ a.queue = agent.queue /\ a.tries = agent.tries
        /\ a.waits = agent.waits /\ a.pc = "deliver"
    BY <1>0 DEF AgentState
  <2>2. agent' = a
    BY <1>3 DEF CollectNothing
  <2> HIDE DEF a
  <2>3. QED
    BY <1>3, <2>1, <2>2 DEF CollectNothing, TypeInv, TypeOK, AgentShape
<1>4. CASE Drained
  <2> DEFINE a == [agent EXCEPT !.pc = "idle"]
  <2>1. a \in AgentState /\ a.queue = agent.queue /\ a.tries = agent.tries
        /\ a.waits = agent.waits /\ a.pc = "idle"
    BY <1>0 DEF AgentState
  <2>2. agent' = a
    BY <1>4 DEF Drained
  <2> HIDE DEF a
  <2>3. QED
    BY <1>4, <2>1, <2>2 DEF Drained, TypeInv, TypeOK, AgentShape
<1>5. ASSUME NEW h \in Handlers, Send(h)
      PROVE  TypeInv'
  <2> DEFINE a == [agent EXCEPT !.pc = "wait", !.waits = h]
             l == [pc |-> "arrived", sample |-> Head(agent.queue), answer |-> "none"]
  <2>1. a \in AgentState /\ a.queue = agent.queue /\ a.tries = agent.tries
        /\ a.waits = h /\ a.pc = "wait"
    BY <1>0 DEF AgentState
  <2>2. Head(agent.queue) \in Samples /\ agent.queue # <<>>
    BY <1>0, <1>5, HeadTailProperties DEF Send
  <2>3. l \in HandlerState /\ HandlerShape(l) /\ l.sample = Head(agent.queue)
    BY <2>2 DEF HandlerState, HandlerShape
  <2>4. agent' = a /\ handler' = [handler EXCEPT ![h] = l]
    BY <1>5 DEF Send
  <2> HIDE DEF a, l
  <2>5. /\ handler' \in [Handlers -> HandlerState]
        /\ handler'[h] = l
        /\ \A k \in Handlers : HandlerShape(handler'[k])
    BY <2>3, <2>4 DEF TypeInv, TypeOK
  <2>6. AgentShape'
    BY <2>1, <2>2, <2>3, <2>4, <2>5, ConstantsAssumption DEF AgentShape
  <2>7. QED
    BY <1>0, <1>5, <2>1, <2>4, <2>5, <2>6 DEF Send, TypeInv, TypeOK
<1>6. CASE Unreachable \/ GiveUp
  <2>1. agent' = Failed(agent) /\ UNCHANGED <<quality, fate, rows, evaluated, revoked, handler>>
    BY <1>6 DEF Unreachable, GiveUp
  <2>2. QED
    BY <1>0, <2>1, FailedTypes DEF TypeInv, TypeOK, AgentShape
<1>7. CASE Crash
  <2>1. fate' \in [Samples -> Fates]
    BY <1>7 DEF Crash, TypeInv, TypeOK, Fates
  <2>2. agent' = AgentDown /\ AgentDown \in AgentState
    BY <1>7 DEF Crash, AgentDown, AgentState
  <2>3. QED
    BY <1>7, <2>1, <2>2, ConstantsAssumption DEF Crash, TypeInv, TypeOK, AgentShape, AgentDown
<1>8. ASSUME NEW h \in Handlers, Reply(h)
      PROVE  TypeInv'
  <2>1. /\ handler' \in [Handlers -> HandlerState]
        /\ \A k \in Handlers : handler'[k] = IF k = h THEN IdleHandler ELSE handler[k]
        /\ \A k \in Handlers : HandlerShape(handler'[k])
    BY <1>8 DEF Reply, TypeInv, TypeOK, HandlerShape, HandlerState, IdleHandler
  <2>2. CASE agent.waits = h
    <3> DEFINE a == AfterAnswer(agent, handler[h].answer)
    <3>1. /\ a \in AgentState /\ Len(a.queue) <= MaxQueue /\ a.tries < Attempts
          /\ a.waits = Null /\ a.pc # "wait"
      BY <1>8, <2>2, AnswerTypes DEF Reply
    <3>2. agent' = a /\ fate' \in [Samples -> Fates]
      BY <1>8, <2>2 DEF Reply, TypeInv, TypeOK, Fates
    <3> HIDE DEF a
    <3>3. QED
      BY <1>8, <2>1, <3>1, <3>2 DEF Reply, TypeInv, TypeOK, AgentShape
  <2>3. CASE agent.waits # h
    <3>1. UNCHANGED <<quality, fate, rows, evaluated, revoked, agent>>
      BY <1>8, <2>3 DEF Reply
    <3>2. agent.waits \in Handlers \/ agent.waits = Null
      BY <1>0 DEF AgentState
    <3>3. AgentShape'
      BY <2>1, <2>3, <3>1, <3>2 DEF TypeInv, AgentShape
    <3>4. QED
      BY <2>1, <3>1, <3>3 DEF TypeInv, TypeOK
  <2>4. QED
    BY <2>2, <2>3
<1>9. CASE StopApi
  <2>1. \A h \in Handlers : handler'[h] = IdleHandler
    BY <1>9 DEF StopApi
  <2>2. handler' \in [Handlers -> HandlerState]
    BY <1>9 DEF StopApi, IdleHandler, HandlerState
  <2>3. agent.waits \in Handlers \/ agent.waits = Null
    BY <1>0 DEF AgentState
  <2>4. QED
    BY <1>9, <2>1, <2>2, <2>3
       DEF StopApi, TypeInv, TypeOK, AgentShape, HandlerShape, IdleHandler
<1>10. ASSUME NEW s \in Samples, Pass(s)
       PROVE  TypeInv'
  BY <1>10 DEF Pass, TypeInv, TypeOK, AgentShape, Qualities
<1>11. CASE Revoke
  BY <1>11 DEF Revoke, TypeInv, TypeOK, AgentShape
<1>12. CASE UNCHANGED vars
  BY <1>12 DEF vars, TypeInv, TypeOK, AgentShape
<1>13. QED
  BY <1>1, <1>2, <1>3, <1>4, <1>5, <1>6, <1>7, <1>8, <1>9, <1>10, <1>11, <1>12, WorkTypes
     DEF Next, RunAgent, Serve, Fault, Disconnected, TimedOut

(* Every variable keeps its type; the queue keeps its bound.               *)
THEOREM TypeCorrect == Spec => []TypeOK
<1>1. Spec => []TypeInv
  BY InitTypes, StepTypes, PTL DEF Spec
<1>2. TypeInv => TypeOK
  BY DEF TypeInv
<1>3. QED
  BY <1>1, <1>2, PTL

-----------------------------------------------------------------------------
(* What is stored and evaluated.  A handler between INSERT and COMMIT is   *)
(* the only one with its key, and a handler that evaluates the only one to *)
(* have committed it.                                                      *)

HandlerInv(h) ==
    LET s == handler[h].sample
        pc == handler[h].pc
    IN  /\ pc = "commit" => s \notin rows
        /\ pc = "evaluate" => s \in rows /\ s \notin evaluated
        /\ pc = "reply" /\ handler[h].answer = "ok" => s \in rows
        /\ \A g \in Handlers \ {h} :
              ~ /\ pc \in {"commit", "evaluate"} /\ handler[g].pc = pc
                /\ handler[g].sample = s

StoreInv ==
    /\ \A h \in Handlers : HandlerInv(h)
    /\ evaluated \subseteq rows
    /\ AcceptedIsStored

(* A handler that goes on keeps its sample; the others keep everything.    *)
LEMMA Moves ==
  ASSUME TypeInv, NEW h \in Handlers, NEW pc, NEW a, Goto(h, pc) \/ Answer(h, a)
  PROVE  /\ \A k \in Handlers : k # h => handler'[k] = handler[k]
         /\ handler'[h].sample = handler[h].sample
         /\ Goto(h, pc) => /\ handler'[h].pc = pc
                           /\ handler'[h].answer = handler[h].answer
         /\ Answer(h, a) => handler'[h].pc = "reply" /\ handler'[h].answer = a
<1>1. handler \in [Handlers -> HandlerState] /\ handler[h] \in HandlerState
  BY DEF TypeInv, TypeOK
<1>2. CASE Goto(h, pc)
  <2> DEFINE l == [handler[h] EXCEPT !.pc = pc]
  <2>1. l.pc = pc /\ l.sample = handler[h].sample /\ l.answer = handler[h].answer
    BY <1>1 DEF HandlerState
  <2>2. handler' = [handler EXCEPT ![h] = l]
    BY <1>2 DEF Goto
  <2> HIDE DEF l
  <2>3. handler'[h] = l /\ \A k \in Handlers : k # h => handler'[k] = handler[k]
    BY <1>1, <2>2
  <2>4. ASSUME Answer(h, a) PROVE handler'[h].pc = "reply" /\ handler'[h].answer = a
    BY <1>1, <2>4 DEF Answer, HandlerState
  <2>5. QED
    BY <2>1, <2>3, <2>4
<1>3. CASE Answer(h, a)
  <2> DEFINE l == [handler[h] EXCEPT !.pc = "reply", !.answer = a]
  <2>1. l.pc = "reply" /\ l.sample = handler[h].sample /\ l.answer = a
    BY <1>1 DEF HandlerState
  <2>2. handler' = [handler EXCEPT ![h] = l]
    BY <1>3 DEF Answer
  <2> HIDE DEF l
  <2>3. handler'[h] = l /\ \A k \in Handlers : k # h => handler'[k] = handler[k]
    BY <1>1, <2>2
  <2>4. ASSUME Goto(h, pc) PROVE handler'[h].pc = pc /\ handler'[h].answer = handler[h].answer
    BY <1>1, <2>4 DEF Goto, HandlerState
  <2>5. QED
    BY <2>1, <2>3, <2>4
<1>4. QED
  BY <1>2, <1>3

(* Nothing is stored, evaluated or accepted at first. *)
LEMMA InitStore == Init => StoreInv
BY DEF Init, StoreInv, HandlerInv, AcceptedIsStored, IdleHandler

(* A handler that ends, or that has not reached its INSERT, claims nothing *)
(* of the database.                                                        *)
LEMMA QuietHandler ==
  ASSUME StoreInv, NEW h \in Handlers,
         handler'[h].pc \notin {"commit", "evaluate"},
         ~(handler'[h].pc = "reply" /\ handler'[h].answer = "ok"),
         \A k \in Handlers : k # h => handler'[k] = handler[k],
         UNCHANGED <<rows, evaluated>>
  PROVE  \A k \in Handlers : HandlerInv(k)'
BY DEF StoreInv, HandlerInv

(* Every step keeps what is stored and evaluated in order.                 *)
LEMMA StepStore == TypeInv /\ StoreInv /\ [Next]_vars => StoreInv'
<1> SUFFICES ASSUME TypeInv, StoreInv, [Next]_vars
             PROVE  StoreInv'
  OBVIOUS
<1>1. ASSUME UNCHANGED <<rows, evaluated, handler>>,
             \A s \in Samples : fate'[s] = "accepted" => fate[s] = "accepted"
      PROVE  StoreInv'
  BY <1>1 DEF StoreInv, HandlerInv, AcceptedIsStored
<1>2. CASE Boot \/ CollectNothing \/ Drained \/ Unreachable \/ GiveUp \/ Revoke
  BY <1>1, <1>2 DEF Boot, CollectNothing, Drained, Unreachable, GiveUp, Revoke
<1>3. CASE Crash
  <2>1. \A s \in Samples : fate'[s] = "accepted" => fate[s] = "accepted"
    BY <1>3 DEF Crash
  <2>2. QED
    BY <1>1, <1>3, <2>1 DEF Crash
<1>4. ASSUME NEW s \in Samples, Pass(s) PROVE StoreInv'
  BY <1>1, <1>4 DEF Pass
<1>5. ASSUME NEW s \in Samples, NEW q \in Fresh, Collect(s, q) PROVE StoreInv'
  <2>1. \A h \in Handlers : handler[h].sample # s
    BY <1>5 DEF Collect, Unheld
  <2>2. handler' = handler /\ rows' = rows \ {s} /\ evaluated' = evaluated \ {s}
    BY <1>5 DEF Collect
  <2>3. \A h \in Handlers : HandlerInv(h)'
    BY <2>1, <2>2 DEF StoreInv, HandlerInv
  <2>4. \A x \in Samples : fate'[x] = "accepted" => fate[x] = "accepted" /\ x # s
    BY <1>5 DEF Collect
  <2>5. QED
    BY <2>2, <2>3, <2>4 DEF StoreInv, AcceptedIsStored
<1>6. ASSUME NEW h \in Handlers, Send(h) PROVE StoreInv'
  <2> DEFINE l == [pc |-> "arrived", sample |-> Head(agent.queue), answer |-> "none"]
  <2>1. handler' = [handler EXCEPT ![h] = l]
    BY <1>6 DEF Send
  <2>2. l.pc = "arrived"
    OBVIOUS
  <2> HIDE DEF l
  <2>3. handler'[h] = l /\ \A k \in Handlers : k # h => handler'[k] = handler[k]
    BY <2>1 DEF TypeInv, TypeOK
  <2>4. UNCHANGED <<rows, evaluated, fate>>
    BY <1>6 DEF Send
  <2>5. \A k \in Handlers : HandlerInv(k)'
    BY <2>2, <2>3, <2>4, QuietHandler
  <2>6. QED
    BY <2>4, <2>5 DEF StoreInv, AcceptedIsStored
<1>7. ASSUME NEW h \in Handlers, Refuse(h) \/ Admit(h) \/ Fail(h) PROVE StoreInv'
  <2>1. \/ Goto(h, "insert") \/ Answer(h, "refused") \/ Answer(h, "transient")
    BY <1>7 DEF Refuse, Admit, Fail
  <2>2. /\ \A k \in Handlers : k # h => handler'[k] = handler[k]
        /\ handler'[h].pc \in {"insert", "reply"}
        /\ handler'[h].pc = "reply" => handler'[h].answer # "ok"
    BY <2>1, Moves
  <2>3. UNCHANGED <<rows, evaluated, fate>>
    BY <1>7 DEF Refuse, Admit, Fail
  <2>4. \A k \in Handlers : HandlerInv(k)'
    BY <2>2, <2>3, QuietHandler
  <2>5. QED
    BY <2>3, <2>4 DEF StoreInv, AcceptedIsStored
<1>8. ASSUME NEW h \in Handlers, InsertDuplicate(h) \/ CutShort(h) PROVE StoreInv'
  <2>1. /\ \A k \in Handlers : k # h => handler'[k] = handler[k]
        /\ handler'[h].pc = "reply" /\ handler'[h].sample = handler[h].sample
    BY <1>8, Moves DEF InsertDuplicate, CutShort
  <2>2. handler[h].sample \in rows /\ UNCHANGED <<rows, evaluated, fate>>
    BY <1>8 DEF InsertDuplicate, CutShort, StoreInv, HandlerInv
  <2>3. \A k \in Handlers : HandlerInv(k)'
    BY <2>1, <2>2 DEF StoreInv, HandlerInv
  <2>4. QED
    BY <2>2, <2>3 DEF StoreInv, AcceptedIsStored
<1>9. ASSUME NEW h \in Handlers, Insert(h) PROVE StoreInv'
  <2>1. /\ \A k \in Handlers : k # h => handler'[k] = handler[k]
        /\ handler'[h].pc = "commit" /\ handler'[h].sample = handler[h].sample
    BY <1>9, Moves DEF Insert
  <2>2. /\ handler[h].sample \notin rows
        /\ \A g \in Handlers \ {h} :
              ~(handler[g].pc = "commit" /\ handler[g].sample = handler[h].sample)
        /\ UNCHANGED <<rows, evaluated, fate>>
    BY <1>9 DEF Insert, Waits
  <2>3. \A k \in Handlers : HandlerInv(k)'
    BY <2>1, <2>2 DEF StoreInv, HandlerInv
  <2>4. QED
    BY <2>2, <2>3 DEF StoreInv, AcceptedIsStored
<1>10. ASSUME NEW h \in Handlers, Commit(h) PROVE StoreInv'
  <2>1. /\ \A k \in Handlers : k # h => handler'[k] = handler[k]
        /\ handler'[h].pc = "evaluate" /\ handler'[h].sample = handler[h].sample
    BY <1>10, Moves DEF Commit
  <2>2. /\ handler[h].pc = "commit" /\ rows' = rows \cup {handler[h].sample}
        /\ UNCHANGED <<evaluated, fate>>
    BY <1>10 DEF Commit
  <2>3. handler[h].sample \notin rows /\ evaluated \subseteq rows
    BY <2>2 DEF StoreInv, HandlerInv
  <2>4. \A k \in Handlers : HandlerInv(k)'
    BY <2>1, <2>2, <2>3 DEF StoreInv, HandlerInv
  <2>5. QED
    BY <2>2, <2>4 DEF StoreInv, AcceptedIsStored
<1>11. ASSUME NEW h \in Handlers, Evaluate(h) PROVE StoreInv'
  <2>1. /\ \A k \in Handlers : k # h => handler'[k] = handler[k]
        /\ handler'[h].pc = "reply" /\ handler'[h].sample = handler[h].sample
    BY <1>11, Moves DEF Evaluate
  <2>2. /\ handler[h].pc = "evaluate" /\ evaluated' = evaluated \cup {handler[h].sample}
        /\ UNCHANGED <<rows, fate>>
    BY <1>11 DEF Evaluate
  <2>3. handler[h].sample \in rows
    BY <2>2 DEF StoreInv, HandlerInv
  <2>4. \A k \in Handlers : HandlerInv(k)'
    BY <2>1, <2>2, <2>3 DEF StoreInv, HandlerInv
  <2>5. QED
    BY <2>2, <2>3, <2>4 DEF StoreInv, AcceptedIsStored
<1>12. ASSUME NEW h \in Handlers, CommitUnseen(h) PROVE StoreInv'
  <2>1. /\ \A k \in Handlers : k # h => handler'[k] = handler[k]
        /\ handler'[h].pc = "reply" /\ handler'[h].answer = "transient"
    BY <1>12, Moves DEF CommitUnseen
  <2>2. /\ handler[h].pc = "commit" /\ rows' = rows \cup {handler[h].sample}
        /\ UNCHANGED <<evaluated, fate>>
    BY <1>12 DEF CommitUnseen
  <2>3. \A k \in Handlers \ {h} :
           ~(handler[k].pc = "commit" /\ handler[k].sample = handler[h].sample)
    BY <2>2 DEF StoreInv, HandlerInv
  <2>4. \A k \in Handlers : HandlerInv(k)'
    BY <2>1, <2>2, <2>3 DEF StoreInv, HandlerInv
  <2>5. QED
    BY <2>2, <2>4 DEF StoreInv, AcceptedIsStored
<1>13. ASSUME NEW h \in Handlers, Reply(h) PROVE StoreInv'
  <2>1. /\ \A k \in Handlers : k # h => handler'[k] = handler[k]
        /\ handler'[h] = IdleHandler /\ UNCHANGED <<rows, evaluated>>
    BY <1>13 DEF Reply, TypeInv, TypeOK
  <2>2. \A k \in Handlers : HandlerInv(k)'
    BY <2>1, QuietHandler DEF IdleHandler
  <2>3. ASSUME NEW s \in Samples, fate'[s] = "accepted" PROVE s \in rows
    <3>1. CASE fate[s] = "accepted"
      BY <3>1 DEF StoreInv, AcceptedIsStored
    <3>2. CASE fate[s] # "accepted"
      <4>1. /\ handler[h].pc = "reply" /\ agent.waits = h /\ Delivers(handler[h].answer)
            /\ fate' = [fate EXCEPT ![Head(agent.queue)] = "accepted"]
        BY <1>13, <2>3, <3>2 DEF Reply
      <4>2. s = Head(agent.queue)
        BY <2>3, <3>2, <4>1 DEF TypeInv, TypeOK
      <4>3. Head(agent.queue) = handler[h].sample
        BY <4>1, AnswerTypes
      <4>4. QED
        BY <4>1, <4>2, <4>3 DEF StoreInv, HandlerInv, Delivers
    <3>3. QED
      BY <3>1, <3>2
  <2>4. QED
    BY <2>1, <2>2, <2>3 DEF StoreInv, AcceptedIsStored
<1>14. CASE StopApi
  <2>1. (\A h \in Handlers : handler'[h].pc = "idle") /\ UNCHANGED <<rows, evaluated, fate>>
    BY <1>14 DEF StopApi, IdleHandler
  <2>2. QED
    BY <2>1 DEF StoreInv, HandlerInv, AcceptedIsStored
<1>15. CASE UNCHANGED vars
  BY <1>1, <1>15 DEF vars
<1>16. QED
  BY <1>2, <1>3, <1>4, <1>5, <1>6, <1>7, <1>8, <1>9, <1>10, <1>11, <1>12, <1>13, <1>14, <1>15
     DEF Next, RunAgent, Serve, Fault, Disconnected, TimedOut

(* A sample that the agent took off its queue as delivered is stored,      *)
(* however many requests carried it and wherever they failed.              *)
THEOREM AcceptedStored == Spec => []AcceptedIsStored
<1>1. Spec => [](TypeInv /\ StoreInv)
  BY InitTypes, InitStore, StepTypes, StepStore, PTL DEF Spec
<1>2. StoreInv => AcceptedIsStored
  BY DEF StoreInv
<1>3. QED
  BY <1>1, <1>2, PTL

(* Of the handlers that hold one sample, one at most evaluates it.         *)
THEOREM EvaluateOnce == Spec => []EvaluatedOnce
<1>1. Spec => [](TypeInv /\ StoreInv)
  BY InitTypes, InitStore, StepTypes, StepStore, PTL DEF Spec
<1>2. StoreInv => EvaluatedOnce
  BY DEF StoreInv, HandlerInv, EvaluatedOnce
<1>3. QED
  BY <1>1, <1>2, PTL
=============================================================================
