----------------------------- MODULE Collection -----------------------------
(***************************************************************************)
(* The agent's collector, the kernel counters that it reads, and the       *)
(* validation that its samples meet in the API.                            *)
(*                                                                         *)
(* A sample compares the counters with those of an earlier collection.     *)
(* Collect can fail at each file it reads; what it has remembered by then  *)
(* it keeps: the network counters as soon as they are read, the CPU        *)
(* counters and the instant only when the whole collection succeeds.       *)
(*                                                                         *)
(* Abstractions: the reads of one collection are one instant, since no two *)
(* of the files are related; received bytes stand for both directions;     *)
(* memory, load, uptime and disks, which are percentages of one reading    *)
(* and never out of range, only count as reads that can fail.              *)
(***************************************************************************)
EXTENDS Integers

CONSTANTS
    Interfaces, \* names in /proc/net/dev
    Modulus,    \* 2^64, the number of uint64 values
    Forever,    \* the longest time.Duration, since a zero time
    MaxCounter, \* bound: largest value of a kernel counter, and of moved
    MaxNow,     \* bound: last instant, and longest time between samples
    Missing

ASSUME CollectionAssumption ==
    /\ Modulus \in Nat /\ MaxCounter \in Nat /\ 2 * MaxCounter < Modulus
    /\ MaxNow \in Nat /\ Forever \in Nat /\ MaxNow < Forever
    /\ Missing \notin Int

VARIABLES
    now,        \* the wall clock: UTC() drops the monotonic reading
    cpu,        \* /proc/stat: busy and idle time
    received,   \* /proc/net/dev: the counter of each interface, Missing if absent
    previousCPU,
    previousNet,
    previousAt, \* the fields of Collector
    sample,     \* the sample that this step delivered, Missing otherwise
    wentBack,   \* history: busy or idle went back since the last sample
    wasSet,     \* history: the clock was set back since the last sample
    moved,      \* history: bytes received since the last sample
    elapsed     \* history: time since the last sample, or the start of the agent

kernelVars == <<now, cpu, received>>
collectorVars == <<previousCPU, previousNet, previousAt>>
sinceVars == <<wentBack, wasSet, moved, elapsed>>
collectionVars == <<kernelVars, collectorVars, sample, sinceVars>>

-----------------------------------------------------------------------------
Counter == 0..MaxCounter
Usage == [used: Nat, total: Nat]        \* used * 100 / total
Rate == [bytes: Nat, seconds: Nat]      \* bytes / seconds

CollectionTypeOK ==
    /\ now \in 0..MaxNow
    /\ cpu \in [busy: Counter, idle: Counter]
    /\ received \in [Interfaces -> Counter \cup {Missing}]
    /\ previousCPU \in [total: Nat, idle: Nat]
    /\ previousNet \in [Interfaces -> Counter \cup {Missing}]
    /\ previousAt \in 0..MaxNow \cup {Missing}
    /\ sample = Missing \/ sample \in
         [usage: Usage, rates: [Interfaces -> Rate], crowded: BOOLEAN, wentBack: BOOLEAN,
          wasSet: BOOLEAN, moved: [Interfaces -> Nat], elapsed: Nat]
    /\ wentBack \in BOOLEAN /\ wasSet \in BOOLEAN
    /\ moved \in [Interfaces -> Nat]
    /\ elapsed \in 0..MaxNow

Unseen == [i \in Interfaces |-> Missing]
Nothing == [i \in Interfaces |-> 0]

CollectionInit ==
    /\ now = 0
    /\ cpu = [busy |-> 0, idle |-> 0]
    /\ received = Unseen
    /\ previousCPU = [total |-> 0, idle |-> 0]
    /\ previousNet = Unseen /\ previousAt = Missing
    /\ sample = Missing
    /\ wentBack = FALSE /\ wasSet = FALSE /\ moved = Nothing /\ elapsed = 0

-----------------------------------------------------------------------------
(* The machine.  Its idle and busy times may go back a little; interfaces  *)
(* come and go, and a new one counts from zero; the clock may be set.      *)

Kernel == sample' = Missing /\ UNCHANGED collectorVars

Runs(busy, idle) ==
    /\ now < MaxNow /\ now' = now + 1
    /\ elapsed < MaxNow /\ elapsed' = elapsed + 1
    /\ cpu.busy + busy <= MaxCounter /\ cpu.idle + idle <= MaxCounter
    /\ cpu' = [busy |-> cpu.busy + busy, idle |-> cpu.idle + idle]
    /\ Kernel /\ UNCHANGED <<received, wentBack, wasSet, moved>>

GoesBack ==
    /\ \/ cpu.busy > 0 /\ cpu' = [cpu EXCEPT !.busy = @ - 1]
       \/ cpu.idle > 0 /\ cpu' = [cpu EXCEPT !.idle = @ - 1]
    /\ wentBack' = TRUE
    /\ Kernel /\ UNCHANGED <<now, received, wasSet, moved, elapsed>>

Receives(i) ==
    /\ received[i] # Missing /\ received[i] < MaxCounter /\ moved[i] < MaxCounter
    /\ received' = [received EXCEPT ![i] = @ + 1]
    /\ moved' = [moved EXCEPT ![i] = @ + 1]
    /\ Kernel /\ UNCHANGED <<now, cpu, wentBack, wasSet, elapsed>>

ComesOrGoes(i) ==
    /\ received' = [received EXCEPT ![i] = IF @ = Missing THEN 0 ELSE Missing]
    /\ Kernel /\ UNCHANGED <<now, cpu, sinceVars>>

(* A clock set forward is time that passes. *)
ClockIsSet ==
    /\ now' \in 0..(now - 1) /\ wasSet' = TRUE
    /\ Kernel /\ UNCHANGED <<cpu, received, wentBack, moved, elapsed>>

-----------------------------------------------------------------------------
(* The collector. *)

(* The difference of two uint64 values. *)
Minus_Signed(x, y) == x - y
Minus(x, y) == (x - y) % Modulus

Counters == [total |-> cpu.busy + cpu.idle, idle |-> cpu.idle]

CpuUsage_Unguarded(previous, current) ==
    LET total == Minus(current.total, previous.total)
    IN  IF previous.total = 0 THEN [used |-> 0, total |-> 1]
        ELSE [used |-> Minus(total, Minus(current.idle, previous.idle)), total |-> total]
CpuUsage(previous, current) ==
    LET total == Minus(current.total, previous.total)
    IN  IF previous.total = 0 \/ current.total <= previous.total
        THEN [used |-> 0, total |-> 1]
        ELSE [used |-> Minus(total, Minus(current.idle, previous.idle)), total |-> total]

Seconds == IF previousAt = Missing THEN Forever ELSE now - previousAt

(* A counter below the one remembered belongs to a new interface. *)
RateOf(i) ==
    IF received[i] = Missing \/ previousNet[i] = Missing \/ Seconds <= 0
    THEN [bytes |-> 0, seconds |-> Forever]
    ELSE [bytes |-> IF received[i] > previousNet[i] THEN received[i] - previousNet[i] ELSE 0,
          seconds |-> Seconds]

(* readNetworks remembers what it reads and forgets no interface. *)
Remembered_First(i) ==
    IF received[i] = Missing \/ previousNet[i] # Missing THEN previousNet[i] ELSE received[i]
Remembered(i) == IF received[i] = Missing THEN previousNet[i] ELSE received[i]

(* crowded: more than 100 interfaces or mounts; the collector has no cap. *)
Collect(crowded) ==
    /\ sample' = [usage |-> CpuUsage(previousCPU, Counters),
                  rates |-> [i \in Interfaces |-> RateOf(i)],
                  crowded |-> crowded, wentBack |-> wentBack, wasSet |-> wasSet,
                  moved |-> moved, elapsed |-> elapsed]
    /\ previousNet' = [i \in Interfaces |-> Remembered(i)]
    /\ previousCPU' = Counters /\ previousAt' = now
    /\ wentBack' = FALSE /\ wasSet' = FALSE /\ moved' = Nothing /\ elapsed' = 0
    /\ UNCHANGED kernelVars

(* A file cannot be read or parsed: stat, meminfo, loadavg, uptime or      *)
(* net/dev, or the mounts, when readNetworks has remembered what it read.  *)
CollectFails ==
    /\ sample' = Missing
    /\ UNCHANGED <<kernelVars, previousCPU, previousAt, sinceVars>>

FailsEarly == CollectFails /\ UNCHANGED previousNet
FailsLate == CollectFails /\ previousNet' = [i \in Interfaces |-> Remembered(i)]

AgentRestarts ==
    /\ previousCPU' = [total |-> 0, idle |-> 0]
    /\ previousNet' = Unseen /\ previousAt' = Missing
    /\ sample' = Missing
    /\ wentBack' = FALSE /\ wasSet' = FALSE /\ moved' = Nothing /\ elapsed' = 0
    /\ UNCHANGED kernelVars

CollectionNext ==
    \/ \E busy, idle \in {0, 1} : Runs(busy, idle)
    \/ GoesBack
    \/ \E i \in Interfaces : Receives(i) \/ ComesOrGoes(i)
    \/ \E crowded \in BOOLEAN : Collect(crowded)
    \/ ClockIsSet
    \/ FailsEarly \/ FailsLate
    \/ AgentRestarts

CollectionSpec == CollectionInit /\ [][CollectionNext]_collectionVars

-----------------------------------------------------------------------------
(* validate of the API: what the collector's samples can fail there. *)
Refused(s) == s.usage.used > s.usage.total \/ s.usage.total = 0 \/ s.crowded

(* A sample that the API refuses for its values, and that then stands in   *)
(* the way of the samples behind it, is explained by the machine: the busy *)
(* or idle time went back since the last sample, which uint64 differences  *)
(* turn into a usage above 100 (collector.go:226-228), or there were too   *)
(* many entries (metrics/handler.go:152).  Failed collections and an idle  *)
(* machine do not cause it.                                                *)
RefusalsExplained ==
    sample # Missing /\ Refused(sample) => sample.wentBack \/ sample.crowded

(* Unless the clock is set back, a rate is at most the bytes received      *)
(* since the last sample over the time since then, whatever failed in      *)
(* between and whatever interfaces came, went and counted from zero:       *)
(* the counters that are remembered may be younger than the instant that   *)
(* is, never older (collector.go:79-88, 157-166).                          *)
RateNeverOverstates ==
    sample # Missing /\ ~sample.wasSet => \A i \in Interfaces :
        /\ sample.rates[i].bytes <= sample.moved[i]
        /\ sample.elapsed <= sample.rates[i].seconds
=============================================================================
