--------------------------- MODULE OperationsProofs ---------------------------
(***************************************************************************)
(* Theorems about Collection, RateWindows, ServerStatus and the instance   *)
(* MCOperations, in which these and Migrations stand side by side, and     *)
(* their proofs, for any values of the constants.                          *)
(***************************************************************************)
EXTENDS MCOperations, MigrationsProofs

-----------------------------------------------------------------------------
(* The inductive invariant. *)

KernelInv ==
    /\ now \in 0..MaxNow
    /\ cpu \in [busy: Counter, idle: Counter]
    /\ received \in [Interfaces -> Counter \cup {Missing}]

CollectorInv ==
    /\ previousCPU \in [total: Nat, idle: Nat]
    /\ previousNet \in [Interfaces -> Counter \cup {Missing}]
    /\ previousAt \in 0..MaxNow \cup {Missing}

HistoryInv ==
    /\ wentBack \in BOOLEAN /\ wasSet \in BOOLEAN
    /\ moved \in [Interfaces -> Nat]
    /\ elapsed \in 0..MaxNow

(* The instant that the collector remembers is that of the last sample,    *)
(* unless the clock was set.                                               *)
InstantInv == previousAt # Missing /\ ~wasSet => now - previousAt = elapsed

(* The counter that it remembers is no older than that: since then at      *)
(* least the difference was received.                                      *)
CounterInv ==
    \A i \in Interfaces :
        received[i] # Missing /\ previousNet[i] # Missing =>
            received[i] - previousNet[i] <= moved[i]

(* Until a time goes back, both are at least those of the last sample.     *)
CpuInv ==
    /\ previousCPU.idle <= previousCPU.total /\ previousCPU.total <= 2 * MaxCounter
    /\ previousCPU.total # 0 /\ ~wentBack =>
           /\ previousCPU.idle <= cpu.idle
           /\ previousCPU.total - previousCPU.idle <= cpu.busy

CollectionInv ==
    KernelInv /\ CollectorInv /\ HistoryInv /\ InstantInv /\ CounterInv /\ CpuInv

-----------------------------------------------------------------------------
LEMMA Beginnings ==
    /\ Nothing \in [Interfaces -> Nat] /\ 0 \in 0..MaxNow
    /\ Unseen \in [Interfaces -> Counter \cup {Missing}]
    /\ [total |-> 0, idle |-> 0] \in [total: Nat, idle: Nat]
<1>1. 0 \in Nat /\ 0 \in 0..MaxNow
  BY CollectionAssumption
<1> QED
  BY <1>1 DEF Nothing, Unseen

LEMMA CollectionInv_Init == CollectionInit => CollectionInv
<1> SUFFICES ASSUME CollectionInit PROVE CollectionInv
  OBVIOUS
<1>1. KernelInv
  BY CollectionAssumption DEF CollectionInit, KernelInv, Counter, Unseen
<1>2. CollectorInv
  BY CollectionAssumption DEF CollectionInit, CollectorInv, Unseen
<1>3. HistoryInv
  BY Beginnings DEF CollectionInit, HistoryInv
<1>4. InstantInv /\ CounterInv /\ CpuInv
  BY CollectionAssumption DEF CollectionInit, InstantInv, CounterInv, CpuInv, Unseen
<1> QED
  BY <1>1, <1>2, <1>3, <1>4 DEF CollectionInv

(* The machine goes on between two collections. *)
LEMMA MachineStep ==
    ASSUME CollectionInv,
           \/ \E busy, idle \in {0, 1} : Runs(busy, idle)
           \/ GoesBack
           \/ \E i \in Interfaces : Receives(i) \/ ComesOrGoes(i)
           \/ ClockIsSet
    PROVE  CollectionInv'
<1> USE CollectionAssumption
<1>0. /\ KernelInv /\ CollectorInv /\ HistoryInv /\ InstantInv /\ CounterInv /\ CpuInv
      /\ UNCHANGED <<previousCPU, previousNet, previousAt>>
  BY DEF CollectionInv, Runs, GoesBack, Receives, ComesOrGoes, ClockIsSet, Kernel, collectorVars
<1>1. CollectorInv'
  BY <1>0 DEF CollectorInv
<1>a. (UNCHANGED <<cpu, wentBack>>) => CpuInv'
  BY <1>0 DEF CpuInv
<1>2. ASSUME NEW busy \in {0, 1}, NEW idle \in {0, 1}, Runs(busy, idle)
      PROVE  CollectionInv'
  <2>1. KernelInv'
    BY <1>0, <1>2 DEF Runs, KernelInv, Counter
  <2>2. HistoryInv' /\ InstantInv' /\ CounterInv'
    BY <1>0, <1>2 DEF Runs, KernelInv, CollectorInv, HistoryInv, InstantInv, CounterInv
  <2>3. CpuInv'
    BY <1>0, <1>2 DEF Runs, KernelInv, CollectorInv, CpuInv, Counter
  <2> QED
    BY <1>1, <2>1, <2>2, <2>3 DEF CollectionInv
<1>3. CASE GoesBack
  <2>1. KernelInv'
    BY <1>0, <1>3 DEF GoesBack, KernelInv, Counter
  <2>2. HistoryInv' /\ InstantInv' /\ CounterInv'
    BY <1>0, <1>3 DEF GoesBack, HistoryInv, InstantInv, CounterInv
  <2>3. CpuInv'
    BY <1>0, <1>3 DEF GoesBack, CpuInv
  <2> QED
    BY <1>1, <2>1, <2>2, <2>3 DEF CollectionInv
<1>4. ASSUME NEW i \in Interfaces, Receives(i)
      PROVE  CollectionInv'
  <2>1. KernelInv'
    BY <1>0, <1>4 DEF Receives, KernelInv, Counter
  <2>2. HistoryInv'
    BY <1>0, <1>4 DEF Receives, HistoryInv
  <2>3. InstantInv'
    BY <1>0, <1>4 DEF Receives, InstantInv
  <2>4. CounterInv'
    BY <1>0, <1>4 DEF Receives, KernelInv, CollectorInv, HistoryInv, CounterInv, Counter
  <2> QED
    BY <1>1, <1>a, <1>4, <2>1, <2>2, <2>3, <2>4 DEF CollectionInv, Receives
<1>5. ASSUME NEW i \in Interfaces, ComesOrGoes(i)
      PROVE  CollectionInv'
  <2>1. KernelInv'
    BY <1>0, <1>5 DEF ComesOrGoes, KernelInv, Counter
  <2>2. HistoryInv' /\ InstantInv'
    BY <1>0, <1>5 DEF ComesOrGoes, sinceVars, HistoryInv, InstantInv
  <2>3. CounterInv'
    BY <1>0, <1>5 DEF ComesOrGoes, sinceVars, KernelInv, CollectorInv, HistoryInv, CounterInv,
       Counter
  <2> QED
    BY <1>1, <1>a, <1>5, <2>1, <2>2, <2>3 DEF CollectionInv, ComesOrGoes, sinceVars
<1>6. CASE ClockIsSet
  <2>1. KernelInv'
    BY <1>0, <1>6 DEF ClockIsSet, KernelInv
  <2>2. HistoryInv' /\ InstantInv' /\ CounterInv'
    BY <1>0, <1>6 DEF ClockIsSet, HistoryInv, InstantInv, CounterInv
  <2> QED
    BY <1>1, <1>a, <1>6, <2>1, <2>2 DEF CollectionInv, ClockIsSet
<1> QED
  BY <1>2, <1>3, <1>4, <1>5, <1>6

(* What readNetworks leaves remembered, whether the collection succeeds    *)
(* after it or not.                                                        *)
LEMMA RememberedFits ==
    ASSUME KernelInv, CollectorInv, NEW i \in Interfaces
    PROVE  /\ Remembered(i) \in Counter \cup {Missing}
           /\ received[i] # Missing => Remembered(i) = received[i]
BY DEF Remembered, KernelInv, CollectorInv

LEMMA CollectorStep ==
    ASSUME CollectionInv,
           (\E crowded \in BOOLEAN : Collect(crowded)) \/ FailsEarly \/ FailsLate \/ AgentRestarts
    PROVE  CollectionInv'
<1> USE CollectionAssumption
<1>0. KernelInv /\ CollectorInv /\ HistoryInv /\ InstantInv /\ CounterInv /\ CpuInv
  BY DEF CollectionInv
<1>1. UNCHANGED <<now, cpu, received>>
  BY DEF Collect, FailsEarly, FailsLate, CollectFails, AgentRestarts, kernelVars
<1>2. KernelInv'
  BY <1>0, <1>1 DEF KernelInv
<1>3. ASSUME NEW crowded \in BOOLEAN, Collect(crowded)
      PROVE  CollectionInv'
  <2>1. previousNet' \in [Interfaces -> Counter \cup {Missing}]
    BY <1>0, <1>3, RememberedFits DEF Collect
  <2>2. Counters \in [total: Nat, idle: Nat]
    BY <1>0 DEF Counters, KernelInv, Counter
  <2>3. CollectorInv' /\ HistoryInv'
    BY <1>0, <1>3, <2>1, <2>2, Beginnings DEF Collect, KernelInv, CollectorInv, HistoryInv
  <2>4. InstantInv'
    BY <1>0, <1>1, <1>3 DEF Collect, InstantInv, KernelInv
  <2>5. CounterInv'
    <3> SUFFICES ASSUME NEW i \in Interfaces, received[i] # Missing
                 PROVE  received'[i] - previousNet'[i] <= moved'[i]
      BY <1>1 DEF CounterInv
    <3>1. previousNet'[i] = received[i] /\ moved'[i] = 0
      BY <1>0, <1>3, RememberedFits DEF Collect, Nothing
    <3> QED
      BY <1>0, <1>1, <3>1 DEF KernelInv, Counter
  <2>6. CpuInv'
    BY <1>0, <1>1, <1>3 DEF Collect, KernelInv, CpuInv, Counters, Counter
  <2> QED
    BY <1>2, <2>3, <2>4, <2>5, <2>6 DEF CollectionInv
<1>4. CASE FailsEarly
  <2>1. CollectorInv' /\ HistoryInv' /\ InstantInv' /\ CounterInv' /\ CpuInv'
    BY <1>0, <1>1, <1>4 DEF FailsEarly, CollectFails, sinceVars, CollectorInv, HistoryInv,
       InstantInv, CounterInv, CpuInv
  <2> QED
    BY <1>2, <2>1 DEF CollectionInv
<1>5. CASE FailsLate
  <2>1. previousNet' \in [Interfaces -> Counter \cup {Missing}]
    BY <1>0, <1>5, RememberedFits DEF FailsLate
  <2>2. CollectorInv' /\ HistoryInv' /\ InstantInv' /\ CpuInv'
    BY <1>0, <1>1, <1>5, <2>1 DEF FailsLate, CollectFails, sinceVars, CollectorInv, HistoryInv,
       InstantInv, CpuInv
  <2>3. CounterInv'
    <3> SUFFICES ASSUME NEW i \in Interfaces, received[i] # Missing
                 PROVE  received'[i] - previousNet'[i] <= moved'[i]
      BY <1>1 DEF CounterInv
    <3>1. previousNet'[i] = received[i] /\ moved'[i] = moved[i]
      BY <1>0, <1>5, RememberedFits DEF FailsLate, CollectFails, sinceVars
    <3> QED
      BY <1>0, <1>1, <3>1 DEF KernelInv, HistoryInv, Counter
  <2> QED
    BY <1>2, <2>2, <2>3 DEF CollectionInv
<1>6. CASE AgentRestarts
  <2>1. CollectorInv' /\ HistoryInv'
    BY <1>6, Beginnings DEF AgentRestarts, CollectorInv, HistoryInv
  <2>2. InstantInv' /\ CounterInv' /\ CpuInv'
    BY <1>6 DEF AgentRestarts, InstantInv, CounterInv, CpuInv, Unseen
  <2> QED
    BY <1>2, <2>1, <2>2 DEF CollectionInv
<1> QED
  BY <1>3, <1>4, <1>5, <1>6

(* What a collection reports of an interface. *)
LEMMA RateStep ==
    ASSUME CollectionInv, NEW crowded \in BOOLEAN, Collect(crowded)
    PROVE  RateNeverOverstates'
<1> USE CollectionAssumption
<1>0. KernelInv /\ CollectorInv /\ HistoryInv /\ InstantInv /\ CounterInv /\ CpuInv
  BY DEF CollectionInv
<1>1. ASSUME NEW i \in Interfaces, ~wasSet
      PROVE  RateOf(i).bytes <= moved[i] /\ elapsed <= RateOf(i).seconds
  <2>1. /\ received[i] \in Counter \cup {Missing} /\ previousNet[i] \in Counter \cup {Missing}
        /\ moved[i] \in Nat /\ elapsed \in 0..MaxNow
    BY <1>0 DEF KernelInv, CollectorInv, HistoryInv
  <2>2. Seconds = Forever \/ Seconds = elapsed
    BY <1>0, <1>1 DEF Seconds, InstantInv
  <2>3. CASE received[i] = Missing \/ previousNet[i] = Missing \/ Seconds <= 0
    BY <2>1, <2>3 DEF RateOf
  <2>4. CASE ~(received[i] = Missing \/ previousNet[i] = Missing \/ Seconds <= 0)
    <3>1. received[i] - previousNet[i] <= moved[i]
      BY <1>0, <2>4 DEF CounterInv
    <3> QED
      BY <2>1, <2>2, <2>4, <3>1 DEF RateOf
  <2> QED
    BY <2>3, <2>4
<1>2. sample' = [usage |-> CpuUsage(previousCPU, Counters),
                 rates |-> [i \in Interfaces |-> RateOf(i)],
                 crowded |-> crowded, wentBack |-> wentBack, wasSet |-> wasSet,
                 moved |-> moved, elapsed |-> elapsed]
  BY DEF Collect
<1>3. /\ sample'.wasSet = wasSet /\ sample'.moved = moved /\ sample'.elapsed = elapsed
      /\ \A i \in Interfaces : sample'.rates[i] = RateOf(i)
  BY <1>2
<1> QED
  BY <1>1, <1>3 DEF RateNeverOverstates

(* A difference of uint64 values that is not negative is the difference.   *)
LEMMA MinusFits ==
    ASSUME NEW x \in Nat, NEW y \in Nat, y <= x, x < Modulus
    PROVE  Minus(x, y) = x - y
<1>1. x - y \in 0..(Modulus - 1) /\ Modulus \in Nat \ {0}
  BY CollectionAssumption
<1>2. \A a \in 0..(Modulus - 1) : a % Modulus = a
  BY <1>1
<1> QED
  BY <1>1, <1>2 DEF Minus

(* The usage of a machine whose times did not go back is in range.         *)
LEMMA UsageStep ==
    ASSUME CollectionInv, NEW crowded \in BOOLEAN, Collect(crowded)
    PROVE  RefusalsExplained'
<1> USE CollectionAssumption
<1>0. KernelInv /\ CollectorInv /\ HistoryInv /\ CpuInv
  BY DEF CollectionInv
<1> DEFINE u == CpuUsage(previousCPU, Counters)
           p == previousCPU
           c == Counters
<1>1. ASSUME ~wentBack
      PROVE  /\ u.used \in Int /\ u.total \in Int
             /\ u.used <= u.total /\ u.total # 0
  <2>1. /\ c.total = cpu.busy + cpu.idle /\ c.idle = cpu.idle
        /\ cpu.busy \in 0..MaxCounter /\ cpu.idle \in 0..MaxCounter
        /\ p.total \in Nat /\ p.idle \in Nat
    BY <1>0 DEF Counters, KernelInv, CollectorInv, Counter
  <2>2. CASE p.total = 0 \/ c.total <= p.total
    <3>1. u = [used |-> 0, total |-> 1]
      BY <2>2 DEF CpuUsage
    <3> QED
      BY <3>1
  <2>3. CASE ~(p.total = 0 \/ c.total <= p.total)
    <3>1. p.idle <= c.idle /\ p.total - p.idle <= cpu.busy
      BY <1>0, <1>1, <2>1, <2>3 DEF CpuInv
    <3>2. /\ Minus(c.total, p.total) = c.total - p.total
          /\ Minus(c.idle, p.idle) = c.idle - p.idle
      BY <2>1, <2>3, <3>1, MinusFits
    <3> DEFINE total == c.total - p.total
               idle == c.idle - p.idle
    <3>3. total \in Nat /\ idle \in Nat /\ idle <= total /\ total < Modulus /\ total > 0
      BY <2>1, <2>3, <3>1
    <3>4. Minus(total, idle) = total - idle
      BY <3>3, MinusFits
    <3>5. u = [used |-> Minus(total, idle), total |-> total]
      BY <2>3, <3>2 DEF CpuUsage
    <3> HIDE DEF total, idle, u
    <3>6. u.used = total - idle /\ u.total = total
      BY <3>4, <3>5
    <3> QED
      BY <3>3, <3>6
  <2> QED
    BY <2>2, <2>3
<1> HIDE DEF u
<1>2. sample' = [usage |-> u, rates |-> [i \in Interfaces |-> RateOf(i)],
                 crowded |-> crowded, wentBack |-> wentBack, wasSet |-> wasSet,
                 moved |-> moved, elapsed |-> elapsed]
  BY DEF Collect, u
<1>3. sample'.usage = u /\ sample'.crowded = crowded /\ sample'.wentBack = wentBack
  BY <1>2
<1> QED
  BY <1>1, <1>3 DEF RefusalsExplained, Refused

LEMMA CollectionInv_Next ==
    CollectionInv /\ RateNeverOverstates /\ RefusalsExplained /\ [CollectionNext]_collectionVars
        => CollectionInv' /\ RateNeverOverstates' /\ RefusalsExplained'
<1> SUFFICES ASSUME CollectionInv, RateNeverOverstates, RefusalsExplained,
                    [CollectionNext]_collectionVars
             PROVE  CollectionInv' /\ RateNeverOverstates' /\ RefusalsExplained'
  OBVIOUS
<1>1. CASE UNCHANGED collectionVars
  <2>1. CollectionInv'
    BY <1>1 DEF collectionVars, kernelVars, collectorVars, sinceVars, CollectionInv, KernelInv,
       CollectorInv, HistoryInv, InstantInv, CounterInv, CpuInv
  <2>2. RateNeverOverstates' /\ RefusalsExplained'
    BY <1>1 DEF collectionVars, RateNeverOverstates, RefusalsExplained
  <2> QED
    BY <2>1, <2>2
<1>2. ASSUME NEW crowded \in BOOLEAN, Collect(crowded)
      PROVE  CollectionInv' /\ RateNeverOverstates' /\ RefusalsExplained'
  BY <1>2, CollectorStep, RateStep, UsageStep
<1>3. CASE sample' = Missing
  <2>1. RateNeverOverstates' /\ RefusalsExplained'
    BY <1>3 DEF RateNeverOverstates, RefusalsExplained
  <2>2. CASE CollectionNext
    BY <2>1, <2>2, MachineStep, CollectorStep DEF CollectionNext
  <2> QED
    BY <1>1, <2>1, <2>2
<1> QED
  BY <1>1, <1>2, <1>3 DEF CollectionNext, Runs, GoesBack, Receives, ComesOrGoes, ClockIsSet,
     Kernel, FailsEarly, FailsLate, CollectFails, AgentRestarts

LEMMA SamplesAreRight == CollectionSpec => [](RateNeverOverstates /\ RefusalsExplained)
<1>1. CollectionInit => RateNeverOverstates /\ RefusalsExplained
  BY DEF CollectionInit, RateNeverOverstates, RefusalsExplained
<1> QED
  BY <1>1, CollectionInv_Init, CollectionInv_Next, PTL DEF CollectionSpec

-----------------------------------------------------------------------------
(* A rate that the collector reports is one that the interface had: it     *)
(* never shows more bytes than were received since the last sample, nor a  *)
(* shorter time, unless the clock was set back, also when collections in   *)
(* between failed after they remembered counters (collector.go:79-88,      *)
(* 157-166).                                                               *)
THEOREM RatesAreBounded == CollectionSpec => []RateNeverOverstates
BY SamplesAreRight, PTL

(* For every width of the counters: the API refuses a sample only when a   *)
(* time went back since the one before, or there are too many entries; the *)
(* unsigned differences never wrap otherwise (collector.go:217-228).       *)
THEOREM RefusalsHaveCauses == CollectionSpec => []RefusalsExplained
BY SamplesAreRight, PTL

-----------------------------------------------------------------------------
(* The rate limiters.  Until a request is overtaken, the calls that were   *)
(* admitted lie in windows that only go forward, and of each window there  *)
(* are at most Limit.                                                      *)

(* The window that is counted now holds the last calls of the history. *)
EntryInv ==
    \A n \in DOMAIN admitted :
        /\ admitted[n].start <= entry.start
        /\ admitted[n].start = entry.start =>
              Len(admitted) - n < entry.count /\ Len(admitted) - n < Limit

(* Windows go forward, and no two calls of one are Limit apart. *)
ForwardInv ==
    \A m, n \in DOMAIN admitted :
        /\ m <= n => admitted[m].start <= admitted[n].start
        /\ n - m >= Limit => admitted[m].start < admitted[n].start

(* An attempt lies in its window, which is apart from the one before and   *)
(* begins with an attempt.                                                 *)
AttemptInv ==
  /\ entry.start # Unset => \E k \in DOMAIN admitted : /\ admitted[k].at = entry.start
                                                       /\ admitted[k].start = entry.start
  /\ \A n \in DOMAIN admitted :
        /\ admitted[n].at <= instant
        /\ admitted[n].at < admitted[n].start + Window
        /\ \E k \in DOMAIN admitted :
              k <= n /\ admitted[k].at = admitted[n].start
              /\ admitted[k].start = admitted[n].start
        /\ \A m \in DOMAIN admitted :
              /\ m <= n => admitted[m].at <= admitted[n].at
              /\ admitted[m].start < admitted[n].start =>
                    admitted[m].start + Window <= admitted[n].start

SampleInv == \A n \in DOMAIN admitted : admitted[n].start = Minute(admitted[n].at)

RateInv ==
    /\ RateTypeOK
    /\ ~overtaken => EntryInv /\ ForwardInv
    /\ limiter = "attempts" => ~overtaken /\ AttemptInv
    /\ limiter = "samples" => SampleInv

(* What a division leaves. *)
LEMMA DivisionBounds ==
  ASSUME NEW a \in Nat, NEW w \in Nat \ {0}
  PROVE  a \div w \in Nat /\ (a \div w) * w <= a /\ a < (a \div w) * w + w
OBVIOUS

LEMMA TwoWindowsApart ==
  ASSUME NEW p \in Int, NEW q \in Int, NEW w \in Nat, p + 2 <= q
  PROVE  q * w >= p * w + w + w
OBVIOUS

LEMMA WindowsCount ==
  ASSUME NEW p \in Nat, NEW w \in Nat \ {0}
  PROVE  p <= p * w
OBVIOUS

LEMMA MinutesApart ==
  ASSUME NEW a \in Nat, NEW b \in Nat, Minute(a) + 2 <= Minute(b)
  PROVE  b - a >= Window
BY RateAssumption, DivisionBounds, TwoWindowsApart DEF Minute

LEMMA MinuteFits ==
  ASSUME NEW a \in 0..MaxInstant
  PROVE  Minute(a) \in 0..MaxInstant
<1>1. a \in Nat /\ Window \in Nat \ {0} /\ MaxInstant \in Nat
  BY RateAssumption
<1>2. Minute(a) \in Nat /\ Minute(a) * Window <= a
  BY <1>1, DivisionBounds DEF Minute
<1>3. Minute(a) <= Minute(a) * Window
  BY <1>1, <1>2, WindowsCount
<1>4. QED
  BY <1>1, <1>2, <1>3

LEMMA InitRate == RateInit => RateInv
<1> SUFFICES ASSUME RateInit PROVE RateInv
  OBVIOUS
<1>1. DOMAIN admitted = {} /\ admitted \in Seq(Call)
  BY DEF RateInit
<1>2. 0 \in 0..MaxInstant /\ -1 \in -1..MaxInstant /\ 0 \in 0..MaxCount
  BY RateAssumption
<1>3. entry \in [count: 0..MaxCount, start: -1..MaxInstant] /\ entry.start = Unset
  BY <1>2 DEF RateInit, Absent, Unset
<1>4. asked \in [Requests -> -1..MaxInstant]
  BY <1>2 DEF RateInit, NoneAsked, Unset
<1>5. RateTypeOK
  BY <1>1, <1>2, <1>3, <1>4 DEF RateInit, RateTypeOK
<1>6. EntryInv /\ ForwardInv /\ AttemptInv /\ SampleInv
  BY <1>1, <1>3 DEF EntryInv, ForwardInv, AttemptInv, SampleInv
<1>7. QED
  BY <1>5, <1>6 DEF RateInit, RateInv

(* A call that is admitted joins the history. *)
LEMMA CountsIs ==
  ASSUME RateTypeOK, NEW at \in 0..MaxInstant, Counts(at)
  PROVE  /\ entry' \in [count: 1..MaxCount, start: 0..MaxInstant]
         /\ \/ /\ Over(at) /\ entry'.count = 1
               /\ entry'.start = IF limiter = "attempts" THEN at ELSE Minute(at)
            \/ /\ ~Over(at) /\ entry'.start = entry.start /\ entry'.count = entry.count + 1
         /\ \/ entry'.count > Limit /\ admitted' = admitted
            \/ /\ entry'.count <= Limit
               /\ admitted' = Append(admitted, [at |-> at, start |-> entry'.start])
<1> USE RateAssumption
<1>1. entry \in [count: 0..MaxCount, start: -1..MaxInstant] /\ limiter \in {"attempts", "samples"}
  BY DEF RateTypeOK
<1>2. Minute(at) \in 0..MaxInstant
  BY MinuteFits
<1>3. CASE Over(at)
  <2>1. entry' = Fresh(at)
    BY <1>3 DEF Counts
  <2>2. /\ entry'.count = 1
        /\ entry'.start = IF limiter = "attempts" THEN at ELSE Minute(at)
        /\ entry' = [count |-> entry'.count, start |-> entry'.start]
    BY <2>1 DEF Fresh
  <2>3. entry'.count <= MaxCount
    BY DEF Counts
  <2>4. QED
    BY <1>2, <1>3, <2>2, <2>3 DEF Counts
<1>4. CASE ~Over(at)
  <2>1. entry' = [entry EXCEPT !.count = @ + 1]
    BY <1>4 DEF Counts
  <2>2. /\ entry'.count = entry.count + 1 /\ entry'.start = entry.start
        /\ entry' = [count |-> entry'.count, start |-> entry'.start]
    BY <1>1, <2>1
  <2>3. entry'.count <= MaxCount
    BY DEF Counts
  <2>4. entry.start \in 0..MaxInstant
    BY <1>1, <1>2, <1>4 DEF Over, Unset
  <2>5. QED
    BY <1>1, <1>4, <2>2, <2>3, <2>4 DEF Counts
<1>5. QED
  BY <1>3, <1>4

LEMMA AppendIs ==
  ASSUME NEW c, NEW S, NEW s \in Seq(S), c \in S
  PROVE  LET t == Append(s, c) IN
         /\ t \in Seq(S) /\ Len(t) = Len(s) + 1 /\ DOMAIN t = DOMAIN s \cup {Len(t)}
         /\ t[Len(t)] = c /\ \A n \in DOMAIN s : t[n] = s[n]
         /\ DOMAIN s = 1..Len(s) /\ Len(s) \in Nat
OBVIOUS

LEMMA HistoryTypes ==
  ASSUME RateTypeOK
  PROVE  /\ DOMAIN admitted = 1..Len(admitted) /\ Len(admitted) \in Nat
         /\ \A n \in DOMAIN admitted : /\ n \in Nat
                                       /\ admitted[n].at \in 0..MaxInstant
                                       /\ admitted[n].start \in 0..MaxInstant
<1>1. admitted \in Seq(Call)
  BY DEF RateTypeOK
<1>2. \A n \in DOMAIN admitted : admitted[n] \in Call /\ n \in Nat
  BY <1>1
<1>3. QED
  BY <1>1, <1>2 DEF Call

(* A call opens a window after all that were, or joins the one that is     *)
(* counted now.                                                            *)
LEMMA CountsForward ==
  ASSUME RateInv, NEW at \in 0..MaxInstant, Counts(at), ~overtaken'
  PROVE  EntryInv' /\ ForwardInv'
<1> USE RateAssumption
<1> DEFINE s == entry'.start
<1>1. ~overtaken /\ EntryInv /\ ForwardInv /\ RateTypeOK
      /\ (limiter = "samples" => ~(entry.start > Minute(at)))
  BY DEF Counts, RateInv
<1>2. /\ entry \in [count: 0..MaxCount, start: -1..MaxInstant]
      /\ entry' \in [count: 1..MaxCount, start: 0..MaxInstant]
      /\ limiter \in {"attempts", "samples"} /\ Minute(at) \in 0..MaxInstant
      /\ admitted \in Seq(Call) /\ Len(admitted) \in Nat
      /\ DOMAIN admitted = 1..Len(admitted)
      /\ \A n \in DOMAIN admitted : n \in Nat /\ admitted[n].start \in 0..MaxInstant
  BY <1>1, CountsIs, MinuteFits, HistoryTypes DEF RateTypeOK
<1>3. \/ /\ entry'.count = 1
         /\ \A n \in DOMAIN admitted : admitted[n].start < s
      \/ s = entry.start /\ entry'.count = entry.count + 1
  <2>1. CASE Over(at)
    <3>1. entry'.count = 1 /\ s = IF limiter = "attempts" THEN at ELSE Minute(at)
      BY <1>1, <2>1, CountsIs
    <3>2. entry.start < s
      BY <1>1, <1>2, <2>1, <3>1 DEF Over, Unset
    <3>3. \A n \in DOMAIN admitted : admitted[n].start <= entry.start
      BY <1>1 DEF EntryInv
    <3>4. QED
      BY <1>2, <3>1, <3>2, <3>3
  <2>2. CASE ~Over(at)
    BY <1>1, <2>2, CountsIs
  <2>3. QED
    BY <2>1, <2>2
<1>4. CASE admitted' = admitted /\ entry'.count > Limit
  BY <1>1, <1>2, <1>3, <1>4 DEF EntryInv, ForwardInv
<1>5. CASE /\ entry'.count <= Limit
           /\ admitted' = Append(admitted, [at |-> at, start |-> s])
  <2> DEFINE N == Len(admitted)
  <2>0. N \in Nat /\ \A n \in DOMAIN admitted : n \in 1..N
    BY <1>2
  <2>1. /\ Len(admitted') = N + 1
        /\ DOMAIN admitted' = DOMAIN admitted \cup {N + 1}
        /\ admitted'[N + 1].start = s
        /\ \A n \in DOMAIN admitted : admitted'[n] = admitted[n]
    BY <1>2, <1>5, AppendIs DEF Call
  <2>2. \A n \in DOMAIN admitted :
           /\ admitted[n].start <= s
           /\ admitted[n].start = s => /\ N - n < entry.count
                                       /\ entry'.count = entry.count + 1
    BY <1>1, <1>2, <1>3 DEF EntryInv
  <2>3. EntryInv'
    BY <1>2, <1>5, <2>0, <2>1, <2>2 DEF EntryInv
  <2>4. ForwardInv'
    <3>1. \A m \in DOMAIN admitted :
             /\ admitted[m].start <= s
             /\ N + 1 - m >= Limit => admitted[m].start < s
      BY <1>2, <1>5, <2>0, <2>2
    <3>2. \A m \in DOMAIN admitted : ~(N + 1 <= m) /\ ~(m - (N + 1) >= Limit)
      BY <2>0
    <3>3. QED
      <4> HIDE DEF s, N
      <4> SUFFICES ASSUME NEW m \in DOMAIN admitted', NEW n \in DOMAIN admitted'
                   PROVE  /\ m <= n => admitted'[m].start <= admitted'[n].start
                          /\ n - m >= Limit => admitted'[m].start < admitted'[n].start
        BY DEF ForwardInv
      <4>1. CASE m \in DOMAIN admitted /\ n \in DOMAIN admitted
        BY <1>1, <2>1, <4>1 DEF ForwardInv
      <4>2. CASE m \in DOMAIN admitted /\ n = N + 1
        BY <2>0, <2>1, <3>1, <4>2
      <4>3. CASE m = N + 1 /\ n \in DOMAIN admitted
        BY <2>0, <3>2, <4>3
      <4>4. CASE m = N + 1 /\ n = N + 1
        BY <1>2, <2>0, <2>1, <4>4 DEF s
      <4>5. QED
        BY <2>1, <4>1, <4>2, <4>3, <4>4
  <2>5. QED
    BY <2>3, <2>4
<1>6. QED
  BY <1>1, <1>4, <1>5, CountsIs

LEMMA CountsAttempt ==
  ASSUME RateInv, limiter = "attempts", instant \in 0..MaxInstant, Counts(instant)
  PROVE  AttemptInv'
<1> USE RateAssumption
<1> DEFINE s == entry'.start
<1>1. ~overtaken /\ EntryInv /\ ForwardInv /\ AttemptInv /\ RateTypeOK /\ instant' = instant
  BY DEF Counts, RateInv
<1>2. /\ entry \in [count: 0..MaxCount, start: -1..MaxInstant]
      /\ entry' \in [count: 1..MaxCount, start: 0..MaxInstant]
      /\ admitted \in Seq(Call) /\ Len(admitted) \in Nat
      /\ DOMAIN admitted = 1..Len(admitted)
      /\ \A n \in DOMAIN admitted : /\ n \in Nat
                                    /\ admitted[n].start \in 0..MaxInstant
                                    /\ admitted[n].at \in 0..MaxInstant
  BY <1>1, CountsIs, HistoryTypes DEF RateTypeOK
<1>3. /\ \/ Over(instant) /\ entry'.count = 1 /\ s = instant
         \/ ~Over(instant) /\ s = entry.start
      /\ \/ entry'.count > Limit /\ admitted' = admitted
         \/ /\ entry'.count <= Limit
            /\ admitted' = Append(admitted, [at |-> instant, start |-> s])
  BY <1>1, CountsIs
<1>5. CASE /\ entry'.count <= Limit
           /\ admitted' = Append(admitted, [at |-> instant, start |-> s])
  <2> DEFINE N == Len(admitted)
  <2>0. N \in Nat /\ \A n \in DOMAIN admitted : n \in 1..N
    BY <1>2
  <2>1. /\ DOMAIN admitted' = DOMAIN admitted \cup {N + 1}
        /\ admitted'[N + 1].start = s /\ admitted'[N + 1].at = instant
        /\ \A n \in DOMAIN admitted : admitted'[n] = admitted[n]
    BY <1>2, <1>5, AppendIs DEF Call
  <2>2. /\ instant < s + Window /\ s <= instant
        /\ \A m \in DOMAIN admitted :
              /\ admitted[m].start <= s
              /\ admitted[m].start < s => admitted[m].start + Window <= s
        /\ \E k \in DOMAIN admitted' : /\ k <= N + 1 /\ admitted'[k].at = s
                                       /\ admitted'[k].start = s
    <3>0. s \in Nat /\ instant \in Nat
      BY <1>2
    <3>1. CASE Over(instant)
      <4>1. s = instant
        BY <1>3, <3>1
      <4>2. entry.start = Unset \/ instant - entry.start >= Window
        BY <3>1 DEF Over
      <4>3. \A m \in DOMAIN admitted : admitted[m].start <= entry.start
        BY <1>1 DEF EntryInv
      <4>4. \A m \in DOMAIN admitted : admitted[m].start + Window <= s
        BY <1>2, <4>1, <4>2, <4>3 DEF Unset
      <4>5. N + 1 \in DOMAIN admitted' /\ N + 1 <= N + 1
        BY <2>0, <2>1
      <4>6. QED
        BY <1>2, <2>1, <4>1, <4>4, <4>5
    <3>2. CASE ~Over(instant)
      <4>1. s = entry.start /\ entry.start # Unset /\ instant - entry.start < Window
        BY <1>2, <1>3, <3>2 DEF Over, Unset
      <4>2. PICK k \in DOMAIN admitted : /\ admitted[k].at = entry.start
                                         /\ admitted[k].start = entry.start
        BY <1>1, <4>1 DEF AttemptInv
      <4>3. entry.start <= instant
        BY <1>1, <4>2 DEF AttemptInv
      <4>4. \A m \in DOMAIN admitted :
               admitted[m].start <= s /\ (admitted[m].start < s => admitted[m].start + Window <= s)
        BY <1>1, <4>1, <4>2 DEF AttemptInv, EntryInv
      <4>5. k \in DOMAIN admitted' /\ k <= N + 1 /\ admitted'[k] = admitted[k]
        BY <2>0, <2>1
      <4>6. QED
        BY <1>2, <4>1, <4>2, <4>3, <4>4, <4>5
    <3>3. QED
      BY <3>1, <3>2
  <2> HIDE DEF s, N
  <2>4. ASSUME NEW n \in DOMAIN admitted'
        PROVE  /\ admitted'[n].at <= instant
               /\ admitted'[n].at < admitted'[n].start + Window
               /\ \E k \in DOMAIN admitted' :
                     k <= n /\ admitted'[k].at = admitted'[n].start
                     /\ admitted'[k].start = admitted'[n].start
               /\ \A m \in DOMAIN admitted' :
                     /\ m <= n => admitted'[m].at <= admitted'[n].at
                     /\ admitted'[m].start < admitted'[n].start =>
                           admitted'[m].start + Window <= admitted'[n].start
    <3>1. CASE n = N + 1
      <4>1. \A m \in DOMAIN admitted : admitted[m].at <= instant
        BY <1>1 DEF AttemptInv
      <4>2. s \in Nat /\ instant \in Nat
        BY <1>2 DEF s
      <4>3. admitted'[n].at = instant /\ admitted'[n].start = s
        BY <2>1, <3>1
      <4>4. \A m \in DOMAIN admitted' : \/ m = n
                                        \/ m \in DOMAIN admitted /\ admitted'[m] = admitted[m]
        BY <2>1, <3>1
      <4>5. \A m \in DOMAIN admitted' :
               /\ m <= n => admitted'[m].at <= admitted'[n].at
               /\ admitted'[m].start < admitted'[n].start =>
                     admitted'[m].start + Window <= admitted'[n].start
        BY <2>2, <4>1, <4>2, <4>3, <4>4
      <4>6. \E k \in DOMAIN admitted' :
               k <= n /\ admitted'[k].at = admitted'[n].start
               /\ admitted'[k].start = admitted'[n].start
        <5>1. PICK k \in DOMAIN admitted' : /\ k <= N + 1 /\ admitted'[k].at = s
                                            /\ admitted'[k].start = s
          BY <2>2
        <5>2. QED
          BY <3>1, <4>3, <5>1
      <4>7. QED
        BY <2>2, <4>2, <4>3, <4>5, <4>6
    <3>2. CASE n \in DOMAIN admitted
      <4>1. /\ admitted[n].at <= instant
            /\ admitted[n].at < admitted[n].start + Window
            /\ \E k \in DOMAIN admitted :
                  k <= n /\ admitted[k].at = admitted[n].start
                  /\ admitted[k].start = admitted[n].start
            /\ \A m \in DOMAIN admitted :
                  /\ m <= n => admitted[m].at <= admitted[n].at
                  /\ admitted[m].start < admitted[n].start =>
                        admitted[m].start + Window <= admitted[n].start
        BY <1>1, <3>2 DEF AttemptInv
      <4>2. admitted[n].start <= s /\ ~(N + 1 <= n) /\ s \in Nat
        BY <1>2, <2>0, <2>2, <3>2 DEF s
      <4>3. \A m \in DOMAIN admitted' :
               \/ m \in DOMAIN admitted /\ admitted'[m] = admitted[m]
               \/ admitted'[m].start = s /\ ~(m <= n)
        BY <2>1, <4>2
      <4>4. \A m \in DOMAIN admitted' :
               /\ m <= n => admitted'[m].at <= admitted'[n].at
               /\ admitted'[m].start < admitted'[n].start =>
                     admitted'[m].start + Window <= admitted'[n].start
        <5>1. admitted'[n] = admitted[n] /\ admitted[n].start \in Nat
          BY <1>2, <2>1, <3>2
        <5>2. QED
          BY <4>1, <4>2, <4>3, <5>1
      <4>5. \E k \in DOMAIN admitted' :
               k <= n /\ admitted'[k].at = admitted'[n].start
               /\ admitted'[k].start = admitted'[n].start
        BY <2>1, <3>2, <4>1
      <4>6. QED
        BY <2>1, <3>2, <4>1, <4>4, <4>5
    <3>3. QED
      BY <2>1, <3>1, <3>2
  <2>5. entry'.start # Unset => \E k \in DOMAIN admitted' : /\ admitted'[k].at = entry'.start
                                                            /\ admitted'[k].start = entry'.start
    <3>1. PICK k \in DOMAIN admitted' : admitted'[k].at = s /\ admitted'[k].start = s
      BY <2>2
    <3>2. QED
      BY <3>1 DEF s
  <2>6. QED
    BY <1>1, <2>4, <2>5 DEF AttemptInv
<1>6. CASE entry'.count > Limit /\ admitted' = admitted
  <2>1. s = entry.start
    BY <1>3, <1>6
  <2>2. QED
    BY <1>1, <1>6, <2>1 DEF AttemptInv
<1>7. QED
  BY <1>3, <1>5, <1>6

LEMMA CountsSample ==
  ASSUME RateInv, limiter = "samples", NEW at \in 0..MaxInstant, Counts(at)
  PROVE  SampleInv'
<1>1. RateTypeOK /\ SampleInv
  BY DEF RateInv
<1>2. CASE admitted' = admitted
  BY <1>1, <1>2 DEF SampleInv, Minute
<1>3. CASE admitted' = Append(admitted, [at |-> at, start |-> entry'.start])
  <2>1. entry'.start = Minute(at)
    BY <1>1, CountsIs DEF Over
  <2>2. /\ DOMAIN admitted' = DOMAIN admitted \cup {Len(admitted')}
        /\ admitted'[Len(admitted')] = [at |-> at, start |-> entry'.start]
        /\ \A n \in DOMAIN admitted : admitted'[n] = admitted[n]
    BY <1>1, <1>3, AppendIs, CountsIs DEF RateTypeOK, Call
  <2>3. ASSUME NEW n \in DOMAIN admitted'
        PROVE  admitted'[n].start = Minute(admitted'[n].at)
    <3>1. CASE n \in DOMAIN admitted
      BY <1>1, <2>2, <3>1 DEF SampleInv
    <3>2. CASE n = Len(admitted')
      BY <2>1, <2>2, <3>2
    <3>3. QED
      BY <2>2, <2>3, <3>1, <3>2
  <2>4. QED
    BY <2>3 DEF SampleInv, Minute
<1>4. QED
  BY <1>1, <1>2, <1>3, CountsIs

LEMMA CountsTypes ==
  ASSUME RateInv, NEW at \in 0..MaxInstant, Counts(at)
  PROVE  /\ limiter' = limiter /\ instant' = instant
         /\ entry' \in [count: 0..MaxCount, start: -1..MaxInstant]
         /\ admitted' \in Seq(Call) /\ overtaken' \in BOOLEAN
<1>1. RateTypeOK
  BY DEF RateInv
<1>2. entry' \in [count: 1..MaxCount, start: 0..MaxInstant]
  BY <1>1, CountsIs
<1>3. [at |-> at, start |-> entry'.start] \in Call
  BY <1>2 DEF Call
<1>4. admitted' \in Seq(Call)
  <2>1. admitted \in Seq(Call)
    BY <1>1 DEF RateTypeOK
  <2>2. Append(admitted, [at |-> at, start |-> entry'.start]) \in Seq(Call)
    BY <1>3, <2>1
  <2>3. QED
    BY <1>1, <2>1, <2>2, CountsIs
<1>5. QED
  BY <1>1, <1>2, <1>4 DEF Counts, RateTypeOK

LEMMA NextRate == RateInv /\ [RateNext]_rateVars => RateInv'
<1> SUFFICES ASSUME RateInv, [RateNext]_rateVars PROVE RateInv'
  OBVIOUS
<1>0. RateTypeOK /\ limiter \in {"attempts", "samples"} /\ instant \in 0..MaxInstant
      /\ asked \in [Requests -> -1..MaxInstant]
  BY DEF RateInv, RateTypeOK
<1>1. CASE Attempt
  <2>1. limiter = "attempts" /\ Counts(instant) /\ UNCHANGED asked
    BY <1>1 DEF Attempt
  <2>2. RateTypeOK' /\ limiter' = limiter
    BY <1>0, <2>1, CountsTypes DEF RateTypeOK
  <2>3. ~overtaken'
    BY <2>1 DEF Counts, RateInv
  <2>4. QED
    BY <1>0, <2>1, <2>2, <2>3, CountsForward, CountsAttempt DEF RateInv
<1>2. ASSUME NEW q \in Requests, IsCounted(q)
      PROVE  RateInv'
  <2> DEFINE at == asked[q]
  <2>1. limiter = "samples" /\ Counts(at) /\ asked' = [asked EXCEPT ![q] = Unset]
    BY <1>2 DEF IsCounted
  <2>2. at \in 0..MaxInstant
    BY <1>0, <1>2 DEF IsCounted, Unset
  <2>3. asked' \in [Requests -> -1..MaxInstant]
    BY <1>0, <2>1, RateAssumption DEF Unset
  <2> HIDE DEF at
  <2>4. RateTypeOK' /\ limiter' = limiter
    BY <1>0, <2>1, <2>2, <2>3, CountsTypes DEF RateTypeOK
  <2>5. QED
    BY <2>1, <2>2, <2>4, CountsForward, CountsSample DEF RateInv
<1>3. ASSUME NEW q \in Requests, Asks(q)
      PROVE  RateInv'
  <2>1. UNCHANGED <<limiter, instant, entry, admitted, overtaken>>
        /\ asked' \in [Requests -> -1..MaxInstant] /\ limiter = "samples"
    BY <1>0, <1>3, RateAssumption DEF Asks
  <2>2. QED
    BY <2>1 DEF RateInv, RateTypeOK, EntryInv, ForwardInv, AttemptInv, SampleInv
<1>4. CASE RateTick
  <2>1. /\ UNCHANGED <<limiter, asked, entry, admitted, overtaken>>
        /\ instant' = instant + 1 /\ instant' \in 0..MaxInstant
    BY <1>0, <1>4, RateAssumption DEF RateTick
  <2>2. RateTypeOK'
    BY <1>0, <2>1 DEF RateTypeOK
  <2>3. limiter = "attempts" => AttemptInv'
    <3> SUFFICES ASSUME limiter = "attempts" PROVE AttemptInv'
      OBVIOUS
    <3>1. AttemptInv
      BY DEF RateInv
    <3>2. \A n \in DOMAIN admitted : admitted[n].at <= instant'
      <4>1. \A n \in DOMAIN admitted : admitted[n].at <= instant /\ admitted[n].at \in 0..MaxInstant
        BY <1>0, <3>1, HistoryTypes DEF AttemptInv
      <4>2. QED
        BY <1>0, <2>1, <4>1, RateAssumption
    <3>3. QED
      BY <2>1, <3>1, <3>2 DEF AttemptInv
  <2>4. QED
    BY <2>1, <2>2, <2>3 DEF RateInv, EntryInv, ForwardInv, SampleInv
<1>5. CASE RateRestart
  <2>1. DOMAIN admitted' = {} /\ admitted' \in Seq(Call) /\ UNCHANGED <<limiter, instant>>
        /\ overtaken' = FALSE
    BY <1>5 DEF RateRestart
  <2>2. 0 \in 0..MaxCount /\ -1 \in -1..MaxInstant
    BY RateAssumption
  <2>3. /\ entry' \in [count: 0..MaxCount, start: -1..MaxInstant] /\ entry'.start = Unset
        /\ asked' \in [Requests -> -1..MaxInstant]
    BY <1>5, <2>2 DEF RateRestart, Absent, NoneAsked, Unset
  <2>4. QED
    BY <1>0, <2>1, <2>3 DEF RateInv, RateTypeOK, EntryInv, ForwardInv, AttemptInv, SampleInv
<1>6. CASE UNCHANGED rateVars
  BY <1>6 DEF rateVars, RateInv, RateTypeOK, EntryInv, ForwardInv, AttemptInv, SampleInv
<1>7. QED
  BY <1>1, <1>2, <1>3, <1>4, <1>5, <1>6 DEF RateNext

(* Two calls a burst apart lie in windows that are not next to each other. *)
LEMMA BurstHolds == RateInv => BurstBounded
<1> USE RateAssumption
<1> SUFFICES ASSUME RateInv, ~overtaken,
                    NEW m \in DOMAIN admitted, NEW n \in DOMAIN admitted, n - m >= Burst
             PROVE  admitted[n].at - admitted[m].at >= Window
  BY DEF BurstBounded
<1>1. RateTypeOK /\ ForwardInv
  BY DEF RateInv
<1>2. /\ DOMAIN admitted = 1..Len(admitted) /\ Len(admitted) \in Nat
      /\ \A k \in DOMAIN admitted : /\ k \in Nat
                                    /\ admitted[k].at \in Nat
                                    /\ admitted[k].start \in Nat
  BY <1>1, HistoryTypes
<1>3. CASE limiter = "attempts"
  <2>1. AttemptInv /\ n - m >= 2 * Limit - 1
    BY <1>3 DEF RateInv, Burst
  <2>2. admitted[n].start <= admitted[n].at
    <3>1. PICK k \in DOMAIN admitted : k <= n /\ admitted[k].at = admitted[n].start
      BY <2>1 DEF AttemptInv
    <3>2. QED
      BY <2>1, <3>1 DEF AttemptInv
  (* The window of the earlier call begins with a call at i. *)
  <2>3. PICK i \in DOMAIN admitted : /\ i <= m /\ admitted[i].at = admitted[m].start
                                     /\ admitted[i].start = admitted[m].start
    BY <2>1 DEF AttemptInv
  <2>4. admitted[m].at < admitted[m].start + Window
    BY <2>1 DEF AttemptInv
  <2>5. CASE i = m
    <3>1. admitted[m].start < admitted[n].start
      BY <1>1, <1>2, <2>1 DEF ForwardInv
    <3>2. admitted[m].start + Window <= admitted[n].start
      BY <2>1, <3>1 DEF AttemptInv
    <3>3. QED
      BY <1>2, <2>2, <2>3, <2>5, <3>2
  (* If it is another one, a whole window lies between the two calls. *)
  <2>6. CASE i # m
    <3> DEFINE c == m + Limit - 1
    <3>1. c \in DOMAIN admitted /\ c - i >= Limit /\ n - c >= Limit
      BY <1>2, <2>1, <2>3, <2>6
    <3>2. admitted[i].start < admitted[c].start /\ admitted[c].start < admitted[n].start
      BY <1>1, <3>1 DEF ForwardInv
    <3> HIDE DEF c
    <3>3. /\ admitted[i].start + Window <= admitted[c].start
          /\ admitted[c].start + Window <= admitted[n].start
      BY <2>1, <3>1, <3>2 DEF AttemptInv
    <3>4. /\ admitted[m].at \in Nat /\ admitted[m].start \in Nat
          /\ admitted[n].at \in Nat /\ admitted[n].start \in Nat
          /\ admitted[c].start \in Nat /\ Window \in Nat
      BY <1>2, <3>1
    <3>5. QED
      BY <2>2, <2>3, <2>4, <3>3, <3>4
  <2>7. QED
    BY <2>5, <2>6
<1>4. CASE limiter = "samples"
  <2>1. SampleInv /\ n - m >= 2 * Limit
    BY <1>4 DEF RateInv, Burst
  <2>2. m + Limit \in DOMAIN admitted
    BY <1>2, <2>1
  <2>3. admitted[m].start < admitted[m + Limit].start
        /\ admitted[m + Limit].start < admitted[n].start
    BY <1>1, <1>2, <2>1, <2>2 DEF ForwardInv
  <2>4. admitted[m].start + 2 <= admitted[n].start
    BY <1>2, <2>2, <2>3
  <2>5. QED
    BY <1>2, <2>1, <2>4, MinutesApart DEF SampleInv
<1>5. QED
  BY <1>1, <1>3, <1>4 DEF RateTypeOK

LEMMA RateInvariant == RateSpec => []RateInv
BY InitRate, NextRate, PTL DEF RateSpec

(* For every limit and window: two admitted calls of one key that are a    *)
(* burst apart are a window apart, so that a minute across two windows     *)
(* holds at most 2 * Limit of them, and of attempts one less, as long as   *)
(* no request is counted after one of a later minute                       *)
(* (auth/handler.go:217, metrics/handler.go:167-173).                      *)
THEOREM BurstsAreBounded == RateSpec => []BurstBounded
BY RateInvariant, BurstHolds, PTL

-----------------------------------------------------------------------------
DbInv ==
    /\ status \in [Servers -> Shown \cup {"new", "gone"}]
    /\ seen \in [Servers -> {"never", "recent", "old"}]
    /\ kept \in [Servers -> BOOLEAN]

(* The row says what the requests asked for; no query hides it. *)
Obeyed(s) == kept[s] <=> status[s] = "maintenance"

LEMMA ListedAsStored ==
  ASSUME DbInv, NEW s \in Servers
  PROVE  Status(s) = "maintenance" <=> status[s] = "maintenance"
BY StatusAssumption DEF DbInv, Status, Row, Shown

LEMMA Writers ==
    ASSUME DbInv, [StatusNext]_statusVars
    PROVE  DbInv' /\ \A s \in Servers : Obeyed(s) => Obeyed(s)'
<1> USE StatusAssumption DEF DbInv, Shown, Obeyed
<1>1. CASE UNCHANGED dbVars
  BY <1>1 DEF dbVars
<1>2. ASSUME NEW s \in Servers, Enroll(s)
      PROVE  DbInv' /\ \A r \in Servers : Obeyed(r) => Obeyed(r)'
  BY <1>2 DEF Enroll, Set
<1>3. ASSUME NEW s \in Servers, NEW v \in Verdicts, Seen(s, v)
      PROVE  DbInv' /\ \A r \in Servers : Obeyed(r) => Obeyed(r)'
  BY <1>3 DEF Seen, Set, Keep
<1>4. ASSUME NEW s \in Servers, NEW v \in Verdicts, Sync(s, v)
      PROVE  DbInv' /\ \A r \in Servers : Obeyed(r) => Obeyed(r)'
  <2> DEFINE new == CASE seen[s] = "never" -> "unknown"
                      [] seen[s] = "old" -> "offline"
                      [] OTHER -> v
  <2>1. new \in Shown \ {"maintenance"}
    OBVIOUS
  <2>2. status' = [status EXCEPT ![s] = Keep(s, new)] /\ seen' = seen /\ kept' = kept
    BY <1>4 DEF Sync, Set
  <2> HIDE DEF new
  <2> QED
    BY <2>1, <2>2 DEF Keep
<1>5. CASE MarkOffline
  BY <1>5 DEF MarkOffline, Overdue
<1>6. ASSUME NEW s \in Servers, ByOperator(s)
      PROVE  DbInv' /\ \A r \in Servers : Obeyed(r) => Obeyed(r)'
  <2>1. CASE Disconnect(s)
    BY <2>1 DEF Disconnect, Set, Order
  <2>2. CASE Delete(s)
    BY <2>2 DEF Delete, Set, Order
  <2>3. ASSUME NEW on \in BOOLEAN, SetMaintenance(s, on)
        PROVE  DbInv' /\ \A r \in Servers : Obeyed(r) => Obeyed(r)'
    BY <2>3 DEF SetMaintenance, Set, Order
  <2> QED
    BY <1>6, <2>1, <2>2, <2>3 DEF ByOperator
<1>7. ASSUME NEW s \in Servers, Lapse(s)
      PROVE  DbInv' /\ status' = status /\ kept' = kept
  BY <1>7 DEF Lapse
<1>8. ASSUME Opens \/ Sends \/ Ticks \/ GoesOn \/ Ends \/ Breaks \/ Expires \/ Merges
              \/ Polls \/ PollIsRead \/ PollIsRefused \/ PollArrives \/ Refreshes
              \/ PollFails \/ Hides
      PROVE  UNCHANGED dbVars
  BY <1>8 DEF Opens, Sends, Ticks, GoesOn, Ends, Breaks, Expires, Merges, Polls, PollIsRead,
     PollIsRefused, PollArrives, Refreshes, PollFails, Hides
<1> HIDE DEF DbInv, Obeyed
<1>9. UNCHANGED statusVars => UNCHANGED dbVars
  BY DEF statusVars
<1>10. ASSUME NEW s \in Servers, Lapse(s)
       PROVE  DbInv' /\ \A r \in Servers : Obeyed(r) => Obeyed(r)'
  BY <1>7, <1>10 DEF Obeyed
<1>11. UNCHANGED dbVars => DbInv' /\ \A r \in Servers : Obeyed(r) => Obeyed(r)'
  BY <1>1
<1> QED
  BY <1>2, <1>3, <1>4, <1>5, <1>6, <1>8, <1>9, <1>10, <1>11 DEF StatusNext

-----------------------------------------------------------------------------
(* For any number of servers: a server is listed as in maintenance exactly *)
(* while a request that put it there stands.  No report, sample,           *)
(* evaluation or watch ends maintenance or begins it, in whatever order    *)
(* they come (metrics/service.go:135, enrollment/service.go:185, 245,      *)
(* alerts/service.go:306).                                                 *)
THEOREM MaintenanceIsKept == StatusSpec => []MaintenanceKept
<1> DEFINE Obedient == \A s \in Servers : Obeyed(s)
<1>1. StatusInit => DbInv /\ Obedient
  BY DEF StatusInit, DbInv, Obeyed
<1>2. DbInv /\ Obedient /\ [StatusNext]_statusVars => DbInv' /\ Obedient'
  BY Writers
<1>3. DbInv /\ Obedient => MaintenanceKept
  BY ListedAsStored DEF MaintenanceKept, Obeyed
<1> QED
  BY <1>1, <1>2, <1>3, PTL DEF StatusSpec

-----------------------------------------------------------------------------
(* Types, and the instance. *)

LEMMA UsageType ==
  ASSUME KernelInv, CollectorInv
  PROVE  CpuUsage(previousCPU, Counters) \in Usage
<1>1. \A x, y \in Int : Minus(x, y) \in Nat
  BY CollectionAssumption DEF Minus
<1>2. /\ Counters.total \in Int /\ Counters.idle \in Int
      /\ previousCPU.total \in Int /\ previousCPU.idle \in Int
  BY DEF Counters, KernelInv, CollectorInv, Counter
<1> DEFINE total == Minus(Counters.total, previousCPU.total)
           idle == Minus(Counters.idle, previousCPU.idle)
<1>3. total \in Nat /\ Minus(total, idle) \in Nat
  <2>1. total \in Nat /\ idle \in Nat
    BY <1>1, <1>2
  <2> HIDE DEF total, idle
  <2>2. QED
    BY <1>1, <2>1
<1>4. \/ CpuUsage(previousCPU, Counters) = [used |-> 0, total |-> 1]
      \/ CpuUsage(previousCPU, Counters) = [used |-> Minus(total, idle), total |-> total]
  BY DEF CpuUsage
<1> HIDE DEF total, idle
<1>5. QED
  BY <1>3, <1>4 DEF Usage

LEMMA RateType ==
  ASSUME KernelInv, CollectorInv, NEW i \in Interfaces
  PROVE  RateOf(i) \in Rate
<1> USE CollectionAssumption
<1>1. received[i] \in Counter \cup {Missing} /\ previousNet[i] \in Counter \cup {Missing}
  BY DEF KernelInv, CollectorInv
<1>2. Seconds \in Int
  BY DEF KernelInv, CollectorInv, Seconds
<1>3. QED
  BY <1>1, <1>2 DEF RateOf, Rate, Counter

SampleType ==
    sample = Missing \/ sample \in
        [usage: Usage, rates: [Interfaces -> Rate], crowded: BOOLEAN, wentBack: BOOLEAN,
         wasSet: BOOLEAN, moved: [Interfaces -> Nat], elapsed: Nat]

LEMMA SampleTyped ==
  ASSUME CollectionInv, SampleType, [CollectionNext]_collectionVars
  PROVE  SampleType'
<1>1. ASSUME NEW crowded \in BOOLEAN, Collect(crowded)
      PROVE  SampleType'
  <2>1. KernelInv /\ CollectorInv /\ HistoryInv
    BY DEF CollectionInv
  <2>2. /\ CpuUsage(previousCPU, Counters) \in Usage
        /\ [i \in Interfaces |-> RateOf(i)] \in [Interfaces -> Rate]
    BY <2>1, UsageType, RateType
  <2>3. /\ wentBack \in BOOLEAN /\ wasSet \in BOOLEAN
        /\ moved \in [Interfaces -> Nat] /\ elapsed \in Nat
    BY <2>1, CollectionAssumption DEF HistoryInv
  <2>4. QED
    BY <1>1, <2>2, <2>3 DEF Collect, SampleType
<1>2. CASE sample' = Missing \/ sample' = sample
  BY <1>2 DEF SampleType
<1>3. QED
  BY <1>1, <1>2 DEF CollectionNext, collectionVars, Runs, GoesBack, Receives, ComesOrGoes,
     ClockIsSet, Kernel, FailsEarly, FailsLate, CollectFails, AgentRestarts

LEMMA CollectionTypes == CollectionSpec => []CollectionTypeOK
<1>1. CollectionInit => SampleType
  BY DEF CollectionInit, SampleType
<1>2. CollectionInv /\ SampleType => CollectionTypeOK
  BY DEF CollectionInv, KernelInv, CollectorInv, HistoryInv, SampleType, CollectionTypeOK
<1>3. CollectionInv /\ SampleType /\ [CollectionNext]_collectionVars
         /\ RateNeverOverstates /\ RefusalsExplained
         => CollectionInv' /\ SampleType'
  BY SampleTyped, CollectionInv_Next
<1>4. QED
  BY <1>1, <1>2, <1>3, CollectionInv_Init, SamplesAreRight, PTL DEF CollectionSpec

(* An answer that is read lists servers. *)
PageInv == StatusTypeOK /\ (poll.pc = "read" => poll.rows \in Result)

LEMMA ListIsResult == ASSUME DbInv PROVE List \in Result
BY DEF DbInv, List, Status, Row, Result, Shown

LEMMA PageStep == PageInv /\ [StatusNext]_statusVars => PageInv'
<1> SUFFICES ASSUME PageInv, [StatusNext]_statusVars PROVE PageInv'
  OBVIOUS
<1>1. DbInv
  BY DEF PageInv, StatusTypeOK, DbInv
<1>2. DbInv'
  BY <1>1, Writers
<1>3. CASE UNCHANGED <<old, stream, batch, poll, view, page>>
  BY <1>2, <1>3 DEF PageInv, StatusTypeOK, DbInv
<1>4. CASE Opens \/ Ticks \/ GoesOn \/ Ends \/ Breaks \/ Hides \/ Expires
  <2>1. /\ stream \in [pc: {"off", "query", "wait"}, ticked: BOOLEAN] /\ old \in BOOLEAN
        /\ page \in [visible: BOOLEAN, opened: BOOLEAN]
    BY DEF PageInv, StatusTypeOK
  <2>2. batch' \in {batch, None} /\ UNCHANGED <<poll, view>>
    BY <1>4 DEF Opens, Ticks, GoesOn, Ends, Breaks, Hides, Expires, streamVars, pageVars
  <2>3. old' \in BOOLEAN
    BY <1>4, <2>1 DEF Opens, Ticks, GoesOn, Ends, Breaks, Hides, Expires, pageVars
  <2>4. stream' \in [pc: {"off", "query", "wait"}, ticked: BOOLEAN]
    <3>1. CASE Opens \/ GoesOn \/ Ends \/ Breaks
      <4>1. \/ stream' = [pc |-> "query", ticked |-> FALSE]
            \/ stream' = [pc |-> "off", ticked |-> FALSE]
        BY <3>1 DEF Opens, GoesOn, Ends, Breaks, Off
      <4>2. ASSUME NEW pc \in {"off", "query", "wait"}
            PROVE  [pc |-> pc, ticked |-> FALSE] \in
                       [pc: {"off", "query", "wait"}, ticked: BOOLEAN]
        OBVIOUS
      <4>3. QED
        BY <4>1, <4>2
    <3>2. CASE Ticks
      BY <2>1, <3>2 DEF Ticks
    <3>3. CASE stream' = stream
      BY <2>1, <3>3
    <3>4. QED
      BY <1>4, <3>1, <3>2, <3>3 DEF Hides, Expires, streamVars
  <2>5. page' \in [visible: BOOLEAN, opened: BOOLEAN]
    <3>1. CASE Opens
      BY <2>1, <3>1 DEF Opens
    <3>2. CASE Hides
      BY <2>1, <3>2 DEF Hides
    <3>3. CASE page' = page
      BY <2>1, <3>3
    <3>4. QED
      BY <1>4, <3>1, <3>2, <3>3 DEF Ticks, GoesOn, Ends, Breaks, Expires, pageVars
  <2>6. QED
    BY <1>2, <2>2, <2>3, <2>4, <2>5 DEF PageInv, StatusTypeOK, DbInv
<1>5. CASE Sends
  BY <1>1, <1>2, <1>5, ListIsResult DEF Sends, Statuses, PageInv, StatusTypeOK, DbInv, pageVars
<1>6. CASE Merges
  <2>1. batch \in Result /\ view \in Result
    BY <1>6 DEF Merges, PageInv, StatusTypeOK
  <2>2. view' \in Result
    BY <1>6, <2>1 DEF Merges, Result
  <2>3. QED
    BY <1>2, <1>6, <2>2 DEF Merges, PageInv, StatusTypeOK, DbInv
<1>7. CASE PollArrives
  BY <1>2, <1>7 DEF PollArrives, PageInv, StatusTypeOK, DbInv, NoPoll, streamVars
<1>8. CASE PollIsRead
  BY <1>1, <1>2, <1>8, ListIsResult DEF PollIsRead, PageInv, StatusTypeOK, DbInv, streamVars
<1>9. CASE Polls \/ PollIsRefused \/ PollFails
  BY <1>2, <1>9 DEF Polls, PollIsRefused, PollFails, PageInv, StatusTypeOK, DbInv, NoPoll,
     streamVars
<1>10. CASE Refreshes
  BY <1>2, <1>10 DEF Refreshes, PageInv, StatusTypeOK, DbInv, NoPoll, Off
<1>11. QED
  BY <1>3, <1>4, <1>5, <1>6, <1>7, <1>8, <1>9, <1>10 DEF StatusNext, Enroll, Lapse, ByOperator,
     Disconnect, Delete, SetMaintenance, Seen, Sync, MarkOffline, streamVars, pageVars, statusVars

LEMMA StatusTypes == StatusSpec => []StatusTypeOK
<1>1. StatusInit => PageInv
  <2> SUFFICES ASSUME StatusInit PROVE PageInv
    OBVIOUS
  <2>1. view \in Result
    BY DEF StatusInit, Result
  <2>2. poll \in [pc: {"idle", "sent", "refused", "read"}, rows: Result \cup {None}]
        /\ poll.pc = "idle"
    BY DEF StatusInit, NoPoll
  <2>3. stream \in [pc: {"off", "query", "wait"}, ticked: BOOLEAN]
    BY DEF StatusInit, Off
  <2>4. page \in [visible: BOOLEAN, opened: BOOLEAN]
    BY DEF StatusInit
  <2>5. QED
    BY <2>1, <2>2, <2>3, <2>4 DEF StatusInit, PageInv, StatusTypeOK
<1>2. PageInv => StatusTypeOK
  BY DEF PageInv
<1>3. QED
  BY <1>1, <1>2, PageStep, PTL DEF StatusSpec

(* The instance only puts behaviours of its parts side by side. *)
LEMMA PartsBehave ==
  Spec => CollectionSpec /\ MigrationsSpec /\ RateSpec /\ StatusSpec
<1>1. Init => CollectionInit /\ MigrationsInit /\ RateInit /\ StatusInit
  BY DEF Init
<1>2. [Next]_allVars => /\ [CollectionNext]_collectionVars /\ [MigrationsNext]_migrationVars
                        /\ [RateNext]_rateVars /\ [StatusNext]_statusVars
  BY DEF Next, allVars
<1>3. QED
  BY <1>1, <1>2, PTL DEF Spec, CollectionSpec, MigrationsSpec, RateSpec, StatusSpec

(* Every value of the four parts has its type, in particular the counts    *)
(* and windows of the limiters, the usage and rates of a sample, and what  *)
(* the page shows, which is never an answer that has not come.             *)
THEOREM OperationsTypes == Spec => []TypesOK
<1>1. RateInv => RateTypeOK
  BY DEF RateInv
<1>2. CollectionTypeOK /\ MigrationsTypeOK /\ RateTypeOK /\ StatusTypeOK => TypesOK
  BY DEF TypesOK
<1>3. QED
  BY <1>1, <1>2, PartsBehave, CollectionTypes, MigrationTypes, RateInvariant, StatusTypes, PTL
=============================================================================
