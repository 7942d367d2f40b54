# NoxWatch: TLA+ specifications, model checking and proofs

NoxWatch monitors Linux servers: an agent on each server enrolls once with a
short-lived token, sends heartbeats and metric samples to a Go API over
PostgreSQL, and the API evaluates alert rules, derives the status of each
server and sends signed webhooks. This directory specifies the parts of it whose
correctness depends on the order of events, checks them with TLC, and proves the
central safety properties with TLAPS. Paths below are relative to the
repository; `internal/` stands for `apps/api/internal/`.

- [1 Inventory](#1-inventory)
- [2 Modules and how they correspond to the code](#2-modules-and-how-they-correspond-to-the-code)
- [3 Runs](#3-runs)
- [4 Fairness](#4-fairness)
- [5 Proofs](#5-proofs)
- [6 Where code and documents disagree](#6-where-code-and-documents-disagree)
- [7 Plan](#7-plan)
- [8 Not modelled](#8-not-modelled)

## 1 Inventory

The deployment is one API process, one PostgreSQL and any number of agents
(docs/production.md:42). The API has one goroutine per request and two in the
background: `monitorServerStatus` (every 30 s) and `runMaintenance` (daily).
PostgreSQL runs at READ COMMITTED: a statement outside a transaction commits on
its own, and an UPDATE or a SELECT ... FOR UPDATE that waited for a row evaluates
its WHERE again afterwards. A request's context is cancelled when its client
goes away. There is no queue, no worker and no lock in the API beyond the
database, the rate limiters' mutexes and the unique indexes of the schema.

| component | state | operations | correct when |
|---|---|---|---|
| alert engine, `internal/alerts` | `alert_rules`, `alert_events`, `servers.status` | create, edit, delete a rule; evaluate a sample; evaluate connectivity; resolve; announce | one open incident per rule; pending, firing, resolved in that order; windows and cooldowns kept; no announcement lost; status follows incidents |
| notifications, `internal/notifications` | `notification_channels` | create, list, delete; `Notify` | every channel gets each announcement, and a recovery only after it |
| enrollment, `internal/enrollment` | `enrollment_tokens`, `agents`, `servers` | create, revoke, show a token; enroll; authenticate; heartbeat; unregister; revoke; mark offline | a token makes at most one server and none once revoked; a revoked agent is refused and goes dark |
| agent identity, `agent/internal/runner`, `client` | token file, credential file | boot, enroll, save, remove, unregister | a running agent can be restarted; the token file goes away |
| agent delivery, `agent/internal/runner` | queue of 100 samples, sequence | collect, send, retry with backoff, heartbeat | no sample lost except by overflow or exit; nothing blocks for ever |
| metric ingestion, `internal/metrics` | `metric_samples`, rate windows | validate, authenticate, store, evaluate | a sample is stored and evaluated once, however often it is sent |
| collector, `agent/internal/collect` | counters and instant of the last sample | collect | rates and usage are those of the machine, also after failed collections |
| servers, `internal/servers` | `servers`, tags, tunnel profile | edit, maintenance, disconnect, delete, SSE status | status agrees with last contact, maintenance and incidents |
| retention, `internal/maintenance` | old rows | delete samples, sessions, tokens | nothing live is deleted |
| sessions, `internal/auth` | `users`, `sessions`, rate windows | register, login, refresh (rotation), logout, validate | a refresh token works once; a revoked session stays revoked |
| workspaces, `internal/workspaces` | `workspaces`, `workspace_members` | create, list | a workspace has its owner |
| migrations, `internal/database` | `schema_migrations` | up, down | what exists is recorded and what is recorded exists |
| local helper, `apps/api/cmd/local-helper` | tunnel profiles in memory and on disk, tunnel processes | save, find, start, stop, bootstrap | no two profiles share a socket file; no tunnel is without a profile; a terminal finds the profiles it was opened for |
| web dashboard, `apps/web` | query cache, session | render, refresh, parse SSE | shows what the API says |

Interactions. Agents call the API over HTTP and never the other way round. A
handler of POST /agent/metrics authenticates, commits the sample, and then runs
the alert engine in the same request (`httpserver/server.go:43-51`), webhooks
included. The monitor marks servers offline and evaluates connectivity rules
(`cmd/api/main.go:122-138`). `servers.status` has seven writers: ingestion,
heartbeat, the alert engine, the monitor, maintenance, disconnect, unregister.
The hard behaviours are the interleavings of these statements, requests whose
client gave up while the handler still works, replies that are lost, agents that
stop between two file operations, webhooks that fail half way, and time
boundaries. PROJECT.json lists each hazard at its line.

## 2 Modules and how they correspond to the code

| module | what it is |
|---|---|
| `AlertLifecycle` | alert engine, notifications, the status derived from incidents |
| `AlertOrdered` | `AlertLifecycle` when the samples of a server are evaluated in the order of their collection |
| `Incidents` | what the incidents of alert rules promise; `AlertLifecycle` implements it |
| `AlertLifecycleProofs` | theorems about `AlertLifecycle` |
| `AlertOrdinaryProofs` | theorems about `AlertLifecycle` in the ordinary regime |
| `MCAlertLifecycle`, `MCAlertOrdered` | instances for TLC |
| `Enrollment` | tokens, exchange, credentials, agent process and files, heartbeat, revocation, monitor |
| `OneTimeToken` | what a token promises; `Enrollment` implements it |
| `EnrollmentProofs` | theorems about `Enrollment` |
| `MCEnrollment` | instances for TLC |
| `MetricDelivery` | the queue of the agent, requests and replies, ingestion under (agent_id, sequence) |
| `MetricDeliveryProofs` | theorems about `MetricDelivery` |
| `MCMetricDelivery` | instances for TLC |
| `Sessions` | login, rotation of refresh tokens, logout; the cookie and the tabs of one browser |
| `SessionsProofs` | theorems about `Sessions` |
| `MCSessions` | instances for TLC |
| `LocalHelper` | the operator's machine: tunnel profiles in memory and in tunnels.json, terminals, ssh masters |
| `LocalHelperProofs` | theorems about `LocalHelper` |
| `ServerStatus` | every writer of `servers.status`, the event stream, the page that merges it into its polls |
| `Migrations` | processes that run `-migrate up` and `-migrate down` on one database |
| `MigrationsProofs` | theorems about `Migrations` |
| `Collection` | the agent's collector over kernel counters, and what the API refuses of its samples |
| `RateWindows` | the two rate limiters |
| `MCMachines` | instance of `Enrollment` and `LocalHelper`, side by side |
| `MCOperations` | instance of `ServerStatus`, `Migrations`, `Collection` and `RateWindows`, side by side |
| `OperationsProofs` | theorems about `Collection`, `RateWindows`, `ServerStatus` and `MCOperations` |

Conventions. An action is one SQL statement or one transaction, one webhook
request, one file operation, or one event of the network or the environment; a
process between two actions keeps its local variables in a record (`job`,
`handler`, `agent`) with a program counter. A row of a table is "new" before it
is inserted, "live" while it is there and "gone" once deleted, and no id is used
twice, except where a module says that ids are used again. Workspaces, membership, validation of input, audit rows and logging do
not change what the properties are about and are left out. An operator named
`X_Something` beside an operator `X` is a version of X with a plausible bug; it
is never used by the specification and serves to show that a property can fail.

### AlertLifecycle

Evaluators are the handlers of POST /agent/metrics (`Handlers`) and the monitor
goroutine (`Monitors`). Ingest and MonitorTick start one; LoadRules takes the
snapshot of rules it works from; then, rule by rule, LookupNone, LookupOpen,
ResolveNone and ResolveOpen are the SELECT of `evaluateWithSeverity` and the
statement of `resolve`, InsertEvent, Promote, Refresh the writes they lead to,
Sync is `syncServerStatus`, Cooldown the query of `notifyFiring`, Render the
query of `notify`, LoadChannels and Send the loop of `Notify`, MarkNotified the
UPDATE of `notified_at`. SendFails is a webhook refused or timed out, Abort any
other interruption (a cancelled request, a refused statement, a crash of the
process), StatementFails an index or foreign key violation; each ends the
evaluation as the early returns do. Operators create, edit and delete rules,
create and delete channels and set maintenance. `outbox` is a history variable:
the requests that channels accepted.

A measured value is abstracted to the severity it has under the rule and chosen
when the rule's turn comes. Instants are a small clock; a sample may be collected
up to MaxLag before and MaxLead after the clock of the API, since `collected_at`
is the agent's clock. Disk usage (the maximum over mount points) and thresholds
disappear in that choice. The state "acknowledged" of the schema is left out:
no statement writes it.

*Ordinary regime.* Some properties hold only while each rule has one evaluator
at a time. The agent sends one request at a time and waits for it, so that is the
normal case; it ends when the agent gives up after 10 s while the handler, or a
statement it issued, is still at work, or when two copies of an agent share a
credential. The runs with two handlers on one rule are the exceptional case. The
theorems of `AlertOrdinaryProofs` have the regime as a hypothesis,
OneEvaluatorPerRule.

`AlertOrdered` adds what the agent's queue does to the order of samples. The agent
sends the head of its queue, and the next only after that was answered
(runner.go:53-66): after an outage its samples arrive late, one after the other, but
none after a younger one. `collected` has the `collected_at` of the last sample that
each server evaluated, and IngestNext is an Ingest that does not go back behind it.
The clock of the agent may be wrong; it is not set back, and one agent runs with a
credential. Without the order WindowKept does not hold: a sample older than one that
was evaluated before it meets an incident which already fires, and records its own,
earlier instant as `notified_at`.

`Incidents` is the abstract specification: an incident begins, fires, is announced
and is resolved, in that order; a rule has one at a time; a webhook tells of the state
the incident is in at that moment; deleting a rule deletes its incidents, though a
webhook under way may still arrive. There are no evaluators in it and each step is
instantaneous. `IncidentsInOrder` maps a row of `alert_events` to its phase (PhaseOf:
"announced" is firing with `notified_at`, "recovered" is resolved with it) and the
outbox to what was told (Heard).

### Enrollment and OneTimeToken

`tokenRow`, `expired`, `used`, `revoked` are the columns of `enrollment_tokens`
that the code tests, `maker` and `host` remember for each server the token and
the machine it was made with, `banned` is `agents.revoked_at`. A handler locks
the token's row (LockToken, SELECT ... FOR UPDATE) and commits the exchange
(Exchange), or authenticates (Authenticate) and writes in a later statement
(WriteHeartbeat, WriteUnregister). The agent boots (BootEnrolled, BootToEnroll),
saves its credential (Save, one rename), removes its token (RemoveToken), runs,
and can stop at any point (Crash). GiveUp is the request timeout: the agent goes
on without the answer and the handler may still commit. Unregister, Forget and
CommandFails are the command `noxwatch-agent unregister`. Provision is what
bootstrap-ssh.sh, or a person, does to a machine.

There is no clock: fifteen minutes (Expire), two minutes (Age) and seven days
(PurgeToken, of tokens that expired long ago) may pass at any moment. A heartbeat
stands for the ingestion of a sample too, since both authenticate in one statement
and write `last_seen_at` and the status in a later one. The comparison with
`expires_at` uses the instant at which the statement was issued (`asked`), the
other columns are compared again after the wait for the row.

`OneTimeToken` is the abstract specification: a token is issued, expires, is
connected to one server or revoked, and is purged, each in one instantaneous step
(docs/architecture.md:126). `KeepsPromise` maps its `phase` to what
GET /enrollment-tokens/{id} would answer (`TokenStatus`).

### MetricDelivery

`agent` is the goroutine of `Run`: `queue` and the attempt counter of `retry`.
Collect is a tick of the metrics timer (CollectNothing when /proc cannot be
read), Send a request, Unreachable and GiveUp an attempt without an answer, Reply
an answer that arrives, Drained the end of the loop, Crash the end of the
process, with the queue. `handler` is a request at the API: Refuse is
`validate` and `AuthenticateAgent`, Insert and InsertDuplicate the INSERT ... ON
CONFLICT DO NOTHING, which waits for a transaction that holds the same key
(Waits), Commit the commit, CommitUnseen a commit whose outcome is lost, Evaluate
and CutShort the evaluation that ends or does not, Fail the answers 429 and 500.
A handler does not notice that its client gave up, so several may hold one
sample. `fate` is a history variable: what the agent did with each sample.

Ids stand for sequence numbers and are used again once nobody holds the sample,
so the agent can run for ever in a finite model: the properties are about all
samples of an unbounded run. Sequence numbers themselves start at the
nanosecond of the boot and are taken to be unique. `quality` is what `validate`
says of a sample; it changes with time (Pass): a sample from a clock that is
ahead is refused at first and accepted later, and one that waits a day is refused
for good. The evaluation is one step here and many in `AlertLifecycle`.

### Sessions

One user, one browser. `hash`, `revoked` and `expired` are the table; `cookie` is
`nox_refresh`; `tab` is the state of `Providers` in each tab, an access token
being the session it names; `request` is a request from `fetch` to the handling
of its answer. Open is a page load, which starts with a refresh; LogIn, Use and
SignOut are requests of a page. At the API, Admit and RefuseAccess are
`Require`, Revoke the UPDATE of a logout, Begin the start of a refresh (it reads
the clock before it may have to wait), Lock and RefuseRefresh the outcome of its
SELECT ... FOR UPDATE, Rotate the UPDATE and the commit, CreateSession and
WrongPassword a login. Deliver applies an answer, its cookie first (CookieAfter,
TabAfter); Retry is the refresh that follows a refused request inside `request`;
Drop is an answer to a page that was reloaded since. Fail and Lose are the
faults. Two refreshes overlap when two tabs, or two queries of one tab, find
their access token expired at one time.

`calm` is a history variable: the cookie was the business of one request at a
time, and no answer about it was lost. It is the premise of CookieSurvives and
CookieKept, and it is needed: when two refreshes present one token, the second
waits, finds another hash and is refused, and its answer clears the cookie that
the answer to the first has just set, so the next page load shows the login form
although the session is good. UsedOnce has no premise. CookieKept excepts a
sign-out, because a sign-out in one tab clears the cookie of another tab's later
login.

### LocalHelper

The helper is an HTTP server on the operator's own machine. `memory` is
`tunnelStore.profiles`, `file` what `write` renamed into place last; Put is `save`
up to the write, and Write or WriteFails what becomes of it: as in the code, the
list in memory has changed either way. Register, Start, StartAll, Bootstrap, Stop
and StopAll are the requests. HelperStarts is `newTunnelStore`, HelperStops the end
of the process and of the requests in it.

Start and StartAll open a terminal with a command that runs later, in another
process, and reads the profiles from the file (Load). It goes through them
(Examine, Done) and starts reverse-tunnel-ssh.sh, or is bootstrap-ssh.sh from the
start (`boot`); Check, Clear, Dial, Install and InstallFails are the steps of the
scripts, CloseTerminal a window closed between two of them. Stopping is done by
the helper itself, a profile at a time: StopChecks, StopRemoves, StopExits. A master that is
told to exit removes its socket file itself; the `os.Remove` that follows
(tunnels.go:140) is for a file that is gone by then and is part of StopExits.

`master` has for each place, a target with a remote port, the ssh that listens
there, if any, and the id its socket file is named after. `linked` says whether the
file is still its own: removing the file of a master that is alive leaves it
listening with nothing that can reach it, and its place taken. `stale` has the
files that a killed master left. ssh -O check may take longer than the two seconds
that `tunnelRunning` gives it, so StopChecks may always find nothing; the checks of
the scripts have no limit.

A profile is registered under the id of its server or of the enrollment that made
it, as the dashboard does (`apps/web/app/servers/add/page.tsx`), and bootstrapped
under that of the enrollment, without a server. `known` is a history variable: the
file agreed with memory when the terminal was opened. TunnelsHaveProfiles does not
say that a tunnel can be stopped, which an unlinked master contradicts, but that
the helper never forgets the profile its socket file is named after.

### ServerStatus

One action for each statement that writes `servers.status`: Enroll, Seen (heartbeat
and ingestion), Sync (the alert engine), MarkOffline (the monitor), SetMaintenance,
Disconnect (which `UnregisterAgent` equals) and Delete. Each is one UPDATE, and each
decides from the row it writes, so a statement is a step. `seen` has the two
minutes of the code as "recent" or "old" (Lapse). The verdict of the incidents is
an input, since `AlertLifecycle` has them. `kept` is a history variable: what the
requests asked for. The actions that are requests (SetMaintenance, Disconnect,
Delete) set it and no other does, so MaintenanceKept compares the status with the
requests, whichever statement wrote it.

`stream` is the goroutine of `events`: Sends is a query and a batch, GoesOn and
Ends the two ready channels of its `select`, of which Go takes either; Ticks is the
ticker, whose channel holds one tick. `old` is the expiry of the page's access
token. The page merges batches (Merges) and replaces what it has with the answer
of a poll (PollArrives), whichever comes last. It opens a stream for each token
(Opens) and none for a stream that broke (Breaks), so that the poll is what
remains. The page asks for 100 servers (page.tsx:31); List leaves that limit out,
since no server's row says anything of another's.

### Migrations

`migrator` is a process: UpReads and DownReads are the read of `schema_migrations`,
UpApplies and DownApplies a transaction with the statements of a file and its row,
UpFails and DownFails whatever rolls it back or kills the process. A commit whose
answer is lost takes effect and fails all the same. `schema` has the files whose
objects exist: a table that another file's table refers to cannot be dropped, and
dropping a table drops what later files added to it (Removed). Files are told apart
only by that; the five of `migrations/` are one value of the constants.

### Collection

`cpu`, `received` and `now` are the kernel's; the fields of `Collector` are
`previousCPU`, `previousNet` and `previousAt`. Collect is a collection that
succeeds; FailsEarly and FailsLate fail before and after `readNetworks` has
remembered its counters, which the code does not take back. Differences are
unsigned (Minus, modulo Modulus). The kernel's times may go back, interfaces come,
go and start from zero, and the wall clock may be set back: `UTC()` drops the
monotonic reading that would hide it. `wentBack`, `wasSet`, `moved` and `elapsed`
are history variables: what truly happened since the last sample. A rate is a pair
of a difference and a time, so that nothing is rounded. Refused is what `validate`
of the API finds wrong with such a sample.

### RateWindows

A behaviour is about one entry of one of the two limiters, since entries do not
touch. Attempt is `Allow` of `internal/auth/handler.go`, which reads the clock under
its mutex and so is one step. `allow` of `internal/metrics/handler.go` reads it
before: Asks is that reading, IsCounted what happens under the mutex, and `asked`
the instant in between. Counts is what both do to the entry. RateTick is the clock,
RateRestart a new process with an empty map. `admitted` and `overtaken` are history
variables: the calls let through, and whether a request was counted after one of a
later minute. Such a request takes the entry back to its own minute and begins it
anew, and so does the next one; BurstBounded does not hold then, and excepts it.

### MCMachines and MCOperations

The components of each share no state and exchange no message, so a run that
interleaves them would check products of states that mean nothing. Each behaviour
is chosen at the start to be one component's, with the others at rest.

## 3 Runs

| run | instance | shows |
|---|---|---|
| `alert_race` | 1 rule, 2 handlers, 2 rows, clocks that differ by 1, 1 edit | OneOpenIncident and RecoveryFollowsNotice with evaluators interleaved between any two statements and failing anywhere |
| `alert_ordinary` | a metric and a connectivity rule, handler and monitor, window 1, cooldown 2, clock to 3, samples up to 1 late, in order (`AlertOrdered`) | TypeOK, CooldownKept, WindowKept, PayloadMatchesPath, AnnouncementEnds in the ordinary regime |
| `alert_progress` | 1 rule, 2 severities, 2 channels of which 1 stands from the start, 2 rows, 1 edit, fairness | FiringIsAnnounced, IncidentIsShown, RecoveryIsShown, and IncidentsInOrder (refinement of `Incidents`) while rules and channels change under an evaluation |
| `alert_reopened` | as alert_race, without edits | ResolvedIsFinal is violated (section 6) |
| `enroll_race` | `MCMachines`: 1 token, 2 servers, 2 machines, 2 handlers; a helper with 1 server, its enrollment, 1 place and 1 terminal | TypeOK, OneServerPerToken, RevokedMakesNothing, IdentitySurvives, KeepsPromise; HelperTypeOK, IdsUnique, TunnelsHaveProfiles, LaunchedIsKnown |
| `enroll_progress` | 1 token, 1 server, 1 machine, 2 handlers, fairness | RevokedGoesDark, MachineEnrolls |
| `enroll_token_file` | 1 of each | TokenFileRemoved is violated (section 6) |
| `delivery_faults` | 3 samples, queue of 2, 2 attempts, 2 handlers | TypeOK, AcceptedIsStored, EvaluatedOnce with every fault |
| `delivery_progress` | as above with 1 handler and no early samples, fairness | QueueMoves, OnlyBadAreDropped |
| `sessions` | 2 sessions, 2 tabs, 2 requests, 3 tokens | TypeOK, UsedOnce, CookieSurvives, CookieKept with every fault |
| `operations` | `MCOperations`: 1 interface, counters to 2, 3 instants, a modulus of 8; 4 files, 2 migrators; a limit of 2 in a window of 2 instants, 5 instants, 2 requests; 1 server, 1 verdict, 1 page, fairness | TypesOK, RefusalsExplained, RateNeverOverstates, LedgerMatchesSchema, SuccessMeansApplied, BurstBounded, MaintenanceKept, ViewCatchesUp, StreamEnds |
| `sign_out` | 1 session, 1 tab, 1 request | SignOutRevokes is violated (section 6) |

Why the bounds are enough. The races are between two evaluators, or two requests
for one token; a third does what one of the two may do. Two rows of
`alert_events` give an incident and the one after it, which is what the index,
the cooldown and the resurrection of a resolved row need. A clock that reaches
the sum of window and cooldown passes both boundaries, from both sides. In alert_ordinary a
sample may be as late as the window is long, so that what was collected before an
incident fired can be evaluated after it; the agent's clock is not ahead there, for
size, as alert_race has both. Two
servers for one token let a second exchange succeed if the code allowed it; a
server for every token means no run stops for want of a free id. MaxEdits bounds
only how often an operator intervenes, MaxTime the clock, MaxLag and MaxLead the
skew of an agent. A queue of two with three
samples overflows and has a sample behind the head; two attempts have one that is
repeated and one that is the last; two handlers are a request that outlived its
client and its retry. Two sessions and two tabs let one tab sign out of a session that the cookie is
not about; three tokens are those of the rows and a new one, and a step that
finds no token free waits until one is. delivery_progress has one handler, for size, which slows
the agent only; it leaves out early samples because one that was refused as early
may be fine by the time the overflow removes it. Symmetry is used only in runs without liveness properties.
Each property is also shown to fail when the definition it depends on is
replaced by its version with a bug (PROJECT.json, "mutants").

A server and its enrollment are the two ids that one profile can meet under, and
with them two profiles of one server; one terminal beside a request that stops
tunnels is enough for the file of a living master to be removed and for its place
to be taken. What more terminals and places do to each other is covered by the
theorems of section 5, which hold for any number. Files 1, 2, 3 and 5 are the one
that makes the tables, two that change them and the one that refers to them; two
migrators are two ups, two downs, or one of each. Counters to 2 go up, back and
start again; a modulus of 8 is the smallest that keeps the sums of two counters
apart from a difference that wrapped. Five instants hold two windows, a stretch
that lies across both and the begin of a third; MaxCount lets an entry pass its limit;
two requests are enough for one to be counted after the other's later minute.
One server is enough for its status, the stream and the page, which treat each on
its own; one verdict beside maintenance and offline makes a difference to show.

Deadlock checking is on in every run: an agent that can always be restarted and
an operator who can always act leave the system with a step.

## 4 Fairness

`AlertLifecycle!Fairness`: an evaluator that can take a step takes one (a
goroutine is scheduled and statements return); the agent keeps sending samples
and heartbeats (its timers are reset on every path of the loop,
runner.go:45-67); the monitor keeps ticking (main.go:122). Nothing is assumed of
failures: FiringIsAnnounced is conditional on InterruptsCease, because an
evaluation that is always cut short announces nothing. IncidentIsShown and
RecoveryIsShown hold without that condition, since the heartbeat alone puts the
status right.

`Enrollment!Fairness`: handlers run (weak fairness on Serve), time passes and the
monitor ticks, and systemd starts an agent that exited (Restart=on-failure in
deployments/systemd/noxwatch-agent.service). The last is strong fairness: a slot
for a request is free again and again rather than continuously, as other requests
come and go. MachineEnrolls is conditional on FaultsCease; RevokedGoesDark is
not. Weak fairness of Serve assumes that no handler waits for a row for ever,
which holds because the holder of the row is itself a handler that runs.

`MetricDelivery!Fairness`: handlers run; the agent's timer fires and its loop
goes on (runner.go:49-66), an agent that stopped is started again, and a
connection whose handler is gone is noticed (Disconnected). Timeouts, refusals by
the network, crashes, failing statements and failed collections are faults
without fairness, and both properties are conditional on FaultsCease: when the
API is never reachable the queue may drop anything, as documented.

`ServerStatus!StatusFairness`: the page's timer fires and what arrives is handled
(weak fairness on Polls, Sends, Merges), `select` does not pass over one ready
channel for ever (strong fairness on Ends: Go picks among ready channels at
random), and requests may fail, but not every time (strong fairness on PollIsRead,
PollIsRefused, PollArrives, Refreshes). ViewCatchesUp is conditional on a page that
stays visible and a status that stops changing: a hidden page does not poll.

`LocalHelper`, `Migrations`, `Collection` and `RateWindows` state no liveness: an
operator starts, stops and repeats, and nothing in the code does it for him.

`Sessions` states no liveness: nothing obliges a user to act, and what the module
is about is what may never happen.

## 5 Proofs

`tlapm` checks every leaf; each theorem holds for all values of the constants
that satisfy the named assumptions of its module (such as `ConstantsAssumption` and
`StatusAssumption`), which TLC also evaluates in the runs of that module.

*AlertLifecycle.* TypeCorrect proves TypeOK. TypeOK alone is not inductive: a
step may use a local that only some program counters have assigned, so the proof
uses TypeInv, which adds HoldsId: an evaluator past its lookup holds the id of an
incident. OneOpen proves OneOpenIncident: only InsertEvent and Promote make a row
open, and both pass the index, which admits the row only if no other row of the
rule is open. RecoveryFollows proves RecoveryFollowsNotice from NoticeInv. The
property alone is not inductive, because `notified_at` is written several
statements after the channels accepted and a recovery is sent several statements
after `notified_at` was read. NoticeInv follows the promise through them: an
incident with `notified_at` was accepted by every standing channel that still
exists (Told), so was one that an evaluator is about to report as recovered or to
mark, and an evaluator in the middle of announcing has been accepted by every
standing channel no longer on its list (NoticeJob).

*AlertLifecycle, ordinary regime.* The theorems of `AlertOrdinaryProofs` are about
behaviours in which no two evaluators claim one rule (OneEvaluatorPerRule; Claims
are the rule an evaluator is at, those it has still to do, and those it is about to
load). The hypothesis is itself derived: OneByOne has it from one monitor and agents
that wait (AgentsWait, the loop of runner.go:45-67), OneHandlerIsOrdinary from the
constants alone, for instances such as that of the run alert_ordinary. Any number of
servers may be evaluated at once, operators may edit at any time, and an evaluation
may stop between any two statements. The properties are not inductive, since an
evaluator acts on what it read statements ago:

- OrderInv says what is still true of it at each statement: the incident an
  evaluator works on belongs to its rule and is in the state it was read in, or its
  rule was deleted with it (OrderJob); `notified_at` is not yet set while the incident
  is being announced; an incident that is not "new" or "gone" has a live rule
  (OrderEvent). PayloadsMatch, AnnouncementsEnd and ResolvedStays follow. With two
  evaluators of one rule OrderJob is what breaks, and alert_reopened shows it.
- CooldownsKept adds CooldownJob: from the check of the cooldown to the UPDATE of
  `notified_at`, with webhooks in between, every other incident of the rule was
  announced a cooldown before this evaluation. The cooldown comes from the rules an
  evaluation loaded when it started, so the theorem also needs SnapshotInv, and the
  hypothesis NoRetuning: a new window or cooldown of a rule is not applied to what was
  announced under the old one. Instants of evaluations may come in any order.
- WindowsKept adds WindowInv. One evaluation inserts the incident, another promotes
  it, and a third may announce it after the second was cut short, each with an instant
  of its own; what has waited a window at one of them has at all later ones
  (WindowJob, Ahead). This needs that later evaluations of a rule have later
  instants, which is what `AlertOrdered` says of a server's samples; the instants of
  the monitor are those of the API's clock. How late a sample is, and how far the
  agent's clock is ahead, does not matter: Horizon(r) is the last instant at which rule
  r can have been evaluated, and no evaluation under way has a later one.
  OrderedIsLifecycle carries what is proved of Spec over to OrderedSpec.
- LifeImplemented is the refinement: InsertEvent is Begin (the index gives the one
  open incident of a rule), Promote is Fire, MarkNotified is Announce, ResolveOpen is
  Resolve, Send is Tell, DeleteRule is Withdraw, and everything else stutters, as do
  Promote and MarkNotified on a row that was deleted. Beside OrderInv it needs
  RecoveryInv: an incident about to be reported as recovered has `notified_at`.

*Enrollment.* TypeCorrect proves TypeOK (through a TypeInv of the same kind).
OneServer, RevocationHolds and Refines rest on TokenInv: at most one handler is
between the SELECT ... FOR UPDATE and the commit for a given token, that token is
then live, unused and not revoked (LockInv); a row that was never inserted has no
columns set (UnbornInv); a server's maker is a used token that is not revoked,
and no two servers have the same (MakerInv). OneServerPerToken is not inductive
without LockInv: two handlers holding one row would both commit. Refines shows
that the initial states map to initial states and each action to one step of
OneTimeToken or to a stutter. IdentityKept proves IdentitySurvives from the
relation between the credential in the memory of an agent, on its disk and in
the requests that wait for an answer, with the fact that an enrolled server never
becomes new again and a dead credential never becomes good.

*MetricDelivery.* TypeCorrect proves TypeOK through TypeInv, which adds that a
handler at work has a sample and that the handler the agent waits for has the head
of the queue; the bound of the queue is part of TypeOK. AcceptedStored and
EvaluateOnce rest on StoreInv: a handler between INSERT and COMMIT is the only
one there with its sample and the sample is not stored yet; a handler that
evaluates is the only one, and its sample is stored and not evaluated; an answer
"ok" is about a stored sample. AcceptedIsStored is not inductive without the
last part and without TypeInv's link from the answer to the head of the queue.

*Sessions.* TypeCorrect proves TypeOK through TypeInv (RequestShape: a request has
what its next step reads). ExchangedOnce proves UsedOnce from ExchangeInv: one
refresh at a time holds a row, no row has a spent token, no two rows have the same
one. CookieGood and CookieStays prove CookieSurvives and CookieKept for any number
of tabs and requests, from two more parts. DeadInv: a refresh token that was
refused works no more, and goes on not to work while the answer is under way, as no
new token is equal to it. CalmInv: while all is calm, one request of a tab is about
the cookie, a refresh presents the cookie of now, and the token in an answer is not
spent. CookieKept does not follow without DeadInv, since the refusal is decided
several steps before the cookie is cleared.

*LocalHelper.* EveryTunnelHasProfile is about masters, memory and restarts, and
follows from what the file has in between (HelperInv): every master, and every
profile a terminal works on, has an id of the file (MasterInv, TerminalJob); the
running helper's memory has every id of the file, though it may have more
(KeptInv); and neither ever loses an id, as a save that replaces a profile keeps the
id (PutKeeps). ProfileIdsUnique needs PutKeeps too, since a save replaces the
first profile that matches by id or by server. EveryLaunchIsKnown follows from
TerminalJob. HelperTypes adds where each terminal and each stopping request is.

*Migrations.* LedgerIsTruthful is not inductive: a down takes back what was the
last file when it read the table. ApartInv adds that, until an up and a down
overlap, none are at work together and what a down takes back is still the last.
SuccessIsComplete follows from AccountInv: what an up has passed is in the table,
unless a down took effect since.

*Collection.* RatesAreBounded rests on two facts between collections. InstantInv:
the remembered instant is that of the last sample, unless the clock was set.
CounterInv: a remembered counter is behind the present one by no more than was
received since the last sample, also when a failed collection has renewed it and
when the interface started from zero. RefusalsHaveCauses rests on CpuInv (until a
time goes back, both are at least what they were) and on MinusFits, that unsigned
differences which are not negative do not wrap, for any Modulus.

*RateWindows.* BurstsAreBounded says that calls admitted a burst apart are a window
apart. Instead of a count over a stretch of time, which would need an induction, the
proof compares positions in the history: until a request is overtaken, the entry's
count is more than the number of calls admitted since any call of its window
(EntryInv), so two calls Limit apart are in different windows, and windows go forward
(ForwardInv). Two calls 2 * Limit apart have a whole window between them. For samples
that is a whole minute, as a call lies in the minute it was counted under (SampleInv);
for attempts the next window starts no earlier than the end of the last and with an
attempt (AttemptInv), which makes the bound one tighter.

*ServerStatus.* MaintenanceIsKept proves MaintenanceKept from Obeyed, which relates
the row, rather than what is listed, to the requests. Each writer of the status
is a step of the proof (Writers): a request changes `kept` with the row, and every
other writer has to leave "maintenance" alone and may not write it. ListedAsStored
has the rest: the CASE of the queries shows a row that says maintenance as such,
however long ago the server was seen.

*MCOperations.* OperationsTypes puts the type invariants together: in every behaviour
one component is at work and keeps its type, and the others stay where they began.

Only model-checked: what needs fairness (FiringIsAnnounced, IncidentIsShown,
RecoveryIsShown, RevokedGoesDark, MachineEnrolls, QueueMoves, OnlyBadAreDropped,
ViewCatchesUp, StreamEnds), since the installed provers have no rule for ENABLED.
Every other property of a run that passes is stated by a theorem.

## 6 Where code and documents disagree

- `ResolvedIsFinal` (run alert_reopened). The UPDATE of `service.go:260` has no
  condition on the state it was decided on. When a second evaluation resolves the
  incident in between, the first turns it back into a firing one that already has
  `resolved_at`. In the ordinary regime the property holds (ResolvedStays, section 5).
- `TokenFileRemoved` (run enroll_token_file). A crash between saving the
  credential and removing the token file leaves the file for good, because the
  next boot finds the credential and does not enroll. The token is used by then,
  so nothing can be gained with it, but README.md:129 and docs/agent.md:22 say
  the file is removed.
- `SignOutRevokes` (run sign_out). `logout` of `providers.tsx:53` sends the access
  token it has and ignores a refusal; it does not refresh first as `request` does.
  Fifteen minutes after the last refresh, signing out shows the login form while
  session and cookie stay good, and a reload signs the user in again.
  docs/production.md:51 says that logging out revokes the session.
- No run: an evaluation that fails is logged and answered 202 all the same, and
  the retry of a request whose answer was lost is a duplicate, which is not
  evaluated (metrics/handler.go:76). docs/architecture.md:66 shows an evaluation
  for every accepted sample. What remains is EvaluatedOnce, at most one evaluation;
  the next sample makes up for a lost one (`AlertLifecycle!FiringIsAnnounced`).
- No run: when a down of the first file and an up overlap, the down drops the
  columns that the up has just added and leaves their rows, which a later up skips
  (migrate.go:97). No document speaks of migrating twice at once;
  LedgerMatchesSchema excepts it (`mixed`).

## 7 Plan

In order of importance; 1 to 9 are done, with their proofs.

1. `AlertLifecycle` with its proofs.
2. `Enrollment`, `OneTimeToken`, with the refinement and its proof.
3. `MetricDelivery`: queue, retries, lost and repeated requests, idempotent
   ingestion, evaluation after commit.
4. `Sessions`: rotation of refresh tokens with two browser tabs and lost
   replies, logout, expiry, cleaning.
5. `LocalHelper`: profiles in memory and on disk, writes that fail, terminals that
   start late, tunnels that outlive them.
6. `ServerStatus`: all writers of `servers.status` together, the event stream and
   the page.
7. `Migrations`: processes that migrate at once and stop anywhere.
8. `Collection` and `RateWindows`: what failed collections leave behind, unsigned
   differences, the windows of the limiters.
9. The properties of the ordinary regime, `Incidents` as what they amount to, and the
   bursts of the limiters, proved.
10. Left: an abstract specification of delivery (a sample is stored and evaluated at
    most once, in one step each) that `MetricDelivery` implements.

## 8 Not modelled

Password hashing, token encoding, encryption of webhook URLs and signing (pure
functions of libraries); headers, CORS and logging; configuration, which is read
once; listing and history queries (they change nothing); parsing of /proc, of
server-sent events and of migration files; the percentages of one reading; names,
tags and the tunnel profile that the API keeps for a server, which one statement
replaces and nothing else depends on; workspaces, which one transaction creates and
nothing changes; rendering in the browser; the installation of files by the
scripts; the development seed. ssh is modelled by what its masters and their socket
files do. Two limits of the models: the memory that the maps of the rate limiters
take is not a state they have, and a master whose socket file is gone can be seen in
`LocalHelper`, but nothing in the code promises anything about it. PROJECT.json
lists every component with what is left out of it.
