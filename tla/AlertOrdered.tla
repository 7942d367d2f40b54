---------------------------- MODULE AlertOrdered ----------------------------
(***************************************************************************)
(* The alert engine when the samples of a server are evaluated in the      *)
(* order of their collection.  Its agent sends the oldest sample of its    *)
(* queue, and the next only after that was answered (runner.go:53-66), so  *)
(* a sample may arrive late, by as much as the API accepts, but not after  *)
(* a younger one.  The clock of an agent may be wrong; it is not set back. *)
(***************************************************************************)
EXTENDS AlertLifecycle

VARIABLE
    collected   \* collected_at of the last sample that each server evaluated

orderedVars == <<vars, collected>>

OrderedInit ==
    /\ Init
    /\ collected = [s \in Servers |-> 0]

IngestNext(h, s, t) ==
    /\ Ingest(h, s, t)
    /\ t >= collected[s]
    /\ collected' = [collected EXCEPT ![s] = t]

(* Whatever is not the arrival of a sample. *)
Otherwise ==
    \/ \E m \in Monitors : MonitorTick(m)
    \/ \E s \in Servers : Heartbeat(s)
    \/ \E j \in Jobs : Evaluate(j) \/ Interrupt(j)
    \/ Operate
    \/ Tick

OrderedNext ==
    \/ \E h \in Handlers, s \in Servers, t \in 0..(MaxTime + MaxLead) : IngestNext(h, s, t)
    \/ Otherwise /\ UNCHANGED collected

OrderedSpec == OrderedInit /\ [][OrderedNext]_orderedVars
=============================================================================
