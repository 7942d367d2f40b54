---------------------------- MODULE RateWindows ----------------------------
(***************************************************************************)
(* The rate limiters of the API: a map of counters in the memory of the    *)
(* process, guarded by a mutex.                                            *)
(*                                                                         *)
(* "attempts" is rateLimiter (register and login): the first attempt of a  *)
(* path and address opens a window, and the clock is read under the mutex, *)
(* so that one call is one step.  "samples" is the limiter of metric       *)
(* ingestion: it counts a credential by calendar minute, and the minute is *)
(* read before the mutex is taken, so that requests of the same credential *)
(* may be counted in another order.  Entries of two keys, and of the two   *)
(* limiters, do not touch: a behaviour is about one entry of one of them.  *)
(* Instants are a bounded discrete clock.                                  *)
(***************************************************************************)
EXTENDS Integers, Sequences

CONSTANTS
    Requests,   \* the ingestion requests of one credential at one time
    Limit,      \* 10 attempts, 120 samples
    Window,     \* one minute
    MaxInstant, \* bound: last instant
    MaxCount    \* bound: largest count of an entry

ASSUME RateAssumption ==
    /\ Limit \in Nat \ {0} /\ Window \in Nat \ {0}
    /\ MaxInstant \in Nat /\ MaxCount \in Nat

VARIABLES
    limiter,    \* which limiter the entry is of
    instant,    \* now()
    asked,      \* the instant at which a request read the clock
    entry,      \* the entry of the key; start: of its window, or its minute
    admitted,   \* history: the calls admitted by this process, in order
    overtaken   \* history: a request was counted after one of a later minute

rateVars == <<limiter, instant, asked, entry, admitted, overtaken>>

-----------------------------------------------------------------------------
Unset == -1
Absent == [count |-> 0, start |-> Unset]

(* at: when the call read the clock; start: the start it was counted under. *)
Call == [at: 0..MaxInstant, start: 0..MaxInstant]

RateTypeOK ==
    /\ limiter \in {"attempts", "samples"}
    /\ instant \in 0..MaxInstant
    /\ asked \in [Requests -> -1..MaxInstant]
    /\ entry \in [count: 0..MaxCount, start: -1..MaxInstant]
    /\ admitted \in Seq(Call)
    /\ overtaken \in BOOLEAN

NoneAsked == [q \in Requests |-> Unset]

RateInit ==
    /\ limiter \in {"attempts", "samples"}
    /\ instant = 0
    /\ asked = NoneAsked
    /\ entry = Absent
    /\ admitted = <<>>
    /\ overtaken = FALSE

Minute(at) == at \div Window

(* The entry does not count for a call at this instant. *)
Over_FromLast(at) ==
    IF limiter = "attempts" THEN entry.start = Unset \/ at - entry.start >= Window - 1
    ELSE entry.start # Minute(at)
Over(at) ==
    IF limiter = "attempts" THEN entry.start = Unset \/ at - entry.start >= Window
    ELSE entry.start # Minute(at)

Fresh(at) == [count |-> 1, start |-> IF limiter = "attempts" THEN at ELSE Minute(at)]

(* Allow and allow, under the mutex: a refused call is counted too, in the *)
(* same window.                                                            *)
Counts(at) ==
    /\ entry' = IF Over(at) THEN Fresh(at) ELSE [entry EXCEPT !.count = @ + 1]
    /\ entry'.count <= MaxCount
    /\ admitted' = IF entry'.count <= Limit
                   THEN Append(admitted, [at |-> at, start |-> entry'.start])
                   ELSE admitted
    /\ overtaken' = (overtaken \/ (limiter = "samples" /\ entry.start > Minute(at)))
    /\ UNCHANGED <<limiter, instant>>

Attempt ==
    /\ limiter = "attempts"
    /\ Counts(instant)
    /\ UNCHANGED asked

(* allow reads the clock, and then waits for the mutex. *)
Asks(q) ==
    /\ limiter = "samples" /\ asked[q] = Unset
    /\ asked' = [asked EXCEPT ![q] = instant]
    /\ UNCHANGED <<limiter, instant, entry, admitted, overtaken>>

IsCounted(q) ==
    /\ limiter = "samples" /\ asked[q] # Unset
    /\ Counts(asked[q])
    /\ asked' = [asked EXCEPT ![q] = Unset]

RateTick ==
    /\ instant < MaxInstant /\ instant' = instant + 1
    /\ UNCHANGED <<limiter, asked, entry, admitted, overtaken>>

(* The API is started again. *)
RateRestart ==
    /\ asked' = NoneAsked
    /\ entry' = Absent
    /\ admitted' = <<>>
    /\ overtaken' = FALSE
    /\ UNCHANGED <<limiter, instant>>

RateNext ==
    \/ Attempt
    \/ \E q \in Requests : Asks(q) \/ IsCounted(q)
    \/ RateTick
    \/ RateRestart

RateSpec == RateInit /\ [][RateNext]_rateVars

-----------------------------------------------------------------------------
(* Calls that fit into one burst of the length of a window. *)
Burst == IF limiter = "attempts" THEN 2 * Limit - 1 ELSE 2 * Limit

(* Calls that are admitted a burst apart are a window apart: a minute that *)
(* lies anyhow across two windows holds less than twice the limit of       *)
(* attempts, whose window begins with one of them, and at most twice the   *)
(* limit of samples, unless a request is counted after one of a later      *)
(* minute and takes the counter back with it (auth/handler.go:217,         *)
(* metrics/handler.go:167-173).                                            *)
BurstBounded ==
    ~overtaken =>
        \A m, n \in DOMAIN admitted :
            n - m >= Burst => admitted[n].at - admitted[m].at >= Window
=============================================================================
