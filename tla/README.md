# trex-cli in TLA+

`trex-cli` drives a Cisco TRex traffic generator through an Agent: an HTTP
service that accepts Jobs, runs them one after another or side by side on the
ports of a TRex server, and keeps everything a client may ask about in SQLite.
This directory holds the specification of its Jobs (submission, scheduling,
execution, recovery), of the clients that follow them, of the sessions with the TRex
server, of the artifact store, of planning and its captures, and of the RFC 2544
searches; the TLC configurations that check them; and the proofs that go with them. File names are relative to
`src/src/trex_cli/` unless they begin with `src/`.

## 1. The system

| component | state it keeps | operations | what makes it correct |
|---|---|---|---|
| Job engine (`jobs.py`) | `_active` (one asyncio task per Job), the frames of those tasks, `_stop` | `submit`, `observe`, `cancel`, `_tick`, `_execute`, `_finish_cancel`, `_recover`, `start`, `stop` | a Job walks its states in order and ends; a cancel intent is honoured; ports are leased while they may be in use and given back after; a restart leaves nothing behind |
| Store (`storage.py`) | tables `jobs`, `job_events`, `cancel_requests`, `port_leases`, `execution_markers`, `artifacts`, `latency_calibrations` | one transaction per operation, all under one lock | revisions and events are in step; a write from a stale copy is refused; all ports of a Job are acquired at once |
| TRex adapters (`trex_adapter.py`, `astf_adapter.py`) | `_sessions`: run handle to client session | `probe`, `validate`, `prepare`, `warmup`, `run`, `stop`, `cleanup`, `reconcile` | a raised `prepare` has released the ports; `cleanup` returns only when they are released; `reconcile` confirms only what it has proved |
| Simulated engine (`engine.py`) | none | the same protocol | |
| HTTP API (`api.py`, `agent.py`) | token digests | routes, SSE stream, authentication, reload | a stream resumes without a gap; a reload is all or nothing |
| Test Control (`test_control.py`, `mcp_adapter.py`) | none | search, plan, start, get, cancel | a plan is started once |
| Plans (`test_plan.py`, `profiles.py`, `*_storm.py`) | plan files | compile an intent into a Job document | allocations add up, a plan is immutable |
| Captures (`pcap_catalog.py`, `session_analysis.py`, `datagram_analysis.py`, `pcap_replay.py`) | content-addressed objects, revision descriptors | publish, search, describe, analyze | a revision never changes; sessions are reconstructed only from complete streams |
| RFC 2544 (`rfc2544.py`) | none | throughput search, frame loss, latency, back-to-back | bounded number of trials, a reported rate was confirmed |
| Artifacts (`artifacts.py`) | files and their rows | write, locate, cleanup | a registered digest has its file |
| Configuration and documents (`config.py`, `models.py`) | none | validation | |
| Publication (`publication.py`, `release_validation.py`) | none | assess a summary | fails closed on missing evidence |
| CLI (`cli.py`) | none | submit, watch, run, cancel | following a Job survives a reconnect; Ctrl-C cancels |
| Observability (`observability.py`) | counters | render | |

How they interact: API handlers call the Job engine on one event loop. The
engine awaits the store and the adapters, whose work runs in worker threads
(`async_compat.to_thread`). The scheduler loop, every Job's task and every
request are coroutines that interleave at each `await`; `task.cancel()` throws
into the `await` a task is suspended in, but never stops the worker thread
behind it. What survives the process is in SQLite and on the TRex server.

The hard part is therefore the Job engine: `_transition` reads and writes in two
transactions; the scheduler walks lists that are stale; a Job's task may be
cancelled at any of its twenty awaits, the four of its `finally` block included,
by a client, by `stop()` or by its own deadline; the process may end anywhere;
and a port that may still transmit must not be given to another Job. Around it
stand three more hard parts: a client that learns of a Job over connections that
break and answers that are lost; an adapter whose workers go on after the call that
waited for them has been given up; and a plan made from files that may have changed
when, minutes and a restart later, its Job reads them again. `PROJECT.json` lists the
hazards one by one.

## 2. The modules

| module | models |
|---|---|
| `JobStates` | the states of a Job and the groups the code distinguishes |
| `JobPromise` | abstract: what a client is promised about snapshots and events |
| `JobSnapshots` | `_transition` with its two transactions, retries, interruptions, against `request_cancel` and `create_job`; implements `JobPromise` |
| `MCJobSnapshots` | its instance for TLC |
| `JobSnapshotsProofs` | its theorems |
| `Deployment` | the Jobs and the ports |
| `JobStore` | the transactions of the store on states, leases and markers |
| `TrafficEngine` | what the two adapters do to the remote ports and to their session table |
| `JobTask` | the task of a Job: `_execute`, `_finish_cancel`, the `finally` block, the deadline handler |
| `TaskCancellation` | `task.cancel()` at every await of that task |
| `TestJobs` | the whole: API, tick, deadlines, crash, orderly stop, recovery |
| `TestJobsInvariant` | why the invariants of `TestJobs` hold: its inductive invariant, in named parts |
| `TestJobsSteps` | lemmas about the steps of `TestJobs`; the type invariant, the process and the scheduler's list |
| `TestJobsProofs` | the theorems about frames, leases, quarantine, slots and life cycle, and that traffic may end by itself |
| `MCTestJobs` | deployments for TLC |
| `Submission` | `create_job`: idempotency keys, `retryOf`, submissions that arrive late |
| `JobObserver` | `observe`, behind the SSE stream and behind the long poll of `get_test` |
| `JobClients` | the commands of the CLI, their interrupts and exit codes, and a client that follows with `Last-Event-ID`, over `JobPromise` |
| `JobClientsProofs` | the theorems of the three |
| `MCJobClients` | three clients and their scripts |
| `TrexServer` | external: a TRex server as the commands of the adapters see it |
| `EnginePromise` | abstract: what the Job engine takes the adapters for |
| `TrafficRuns` | what a run sends by the kind of its document, and what its measurement says of the counters it read |
| `RemoteSessions` | both adapters command by command, with their worker threads and `reconcile`; implements `EnginePromise` |
| `RemoteSessionsProofs` | the theorems about it: the refinement, and what is measured |
| `MCRemoteSessions` | two STL Jobs, the second of any kind, and an ASTF Job |
| `CaptureCatalog` | `PcapCatalog.publish`, step by step |
| `TestPlans` | every kind of intent, its document, its identity and its plan file |
| `Admission` | from a plan to traffic: `start_test`, `_validate_job`, `_validate_policy`, the reads of the capture, a restart with another policy |
| `MCAdmission` | its instance for TLC |
| `AdmissionProofs` | the theorems of the three |
| `ArtifactStore` | the files and rows of Result Bundles: writes, cancelled writes, expiry, orphans, crashes |
| `MCArtifactStore` | two bundles with a content in common |
| `ArtifactStoreProofs` | its theorems |
| `Rfc2544Settings` | the settings of a suite, rounding, and what a trial may observe on a device |
| `ThroughputSearch` | `search_frame`: bisection and confirmation, and the assessment of its trials |
| `FrameLossCurve` | `measure_frame_loss`, and the assessment of its curve |
| `BackToBackSearch` | `measure_back_to_back`: repetitions of upper bound, bisection, verification |
| `Rfc2544Suite` | `_run_rfc2544_suite_sync`: the tests in order over all frame sizes, their verdicts and the publication assessment; composes the three searches |
| `Rfc2544Proofs` | the theorems about the suite and the three searches |
| `MCRfc2544Suite` | its instance for TLC |

`Deployment` is extended by `JobStore` and `TrafficEngine`, both by `JobTask`,
that by `TaskCancellation`, that by `TestJobs`: each layer adds variables and the
operators over them. `Submission`, `JobObserver` and `JobClients` are three layers of
the same kind, and so are `CaptureCatalog`, `TestPlans` and `Admission`.

Two abstract specifications join the parts. `JobPromise` is implemented by
`JobSnapshots` and is the Agent that `JobClients` talks to. `EnginePromise` is made of
the operators of `TrafficEngine` that `JobTask` calls, and `RemoteSessions` implements it
once for each adapter (`Stl`, `Astf`): what `TestJobs` assumes of an engine is what the
adapters do. `Rfc2544Suite` instantiates the three searches as `T`, `F` and
`B` over variables of its own.

### JobSnapshots

`snap[j]` is the row of `jobs` reduced to revision, state and cancel intent,
`log[j]` the rows of `job_events`, `requests[j]` those of `cancel_requests`, and
`call[w]` the frame of a coroutine inside `_transition`: `"read"` before
`get_snapshot`, `"update"` before `update_snapshot` with the copy `cur`. `Begin`
takes any call the code makes (`CodeCalls`: target and expected states; calls
that expect the state just read expect any single state). `Interrupt` is a
cancellation of the coroutine: a read is lost, an update already handed to a
worker thread is carried out by nobody's call (`abandoned`). `Crash` removes all
frames. Progress reports are the calls with target `RUNNING`.

### TestJobs and below

`pc[j]` names the await in which the task of `j` is suspended. A step of
`JobTask` carries out what is awaited and runs to the next await, so that
everything the code does without awaiting is in one step. The other variables of
a frame have the code's names (`handle` is "handle is not None", `confirmed` is
`cleanup_confirmed`). `traffic[p]` is the truth on the server, which the Agent
cannot see: the Jobs that may own `p` or transmit on it.

`TaskCancellation` has one action per kind of await. What a worker was handed
when its coroutine is cancelled takes effect at once or not at all, which covers
the cases where it takes effect a little later, because all later steps of the
same Job on the same row commute with it; the exception, a late
`save_execution_marker` that overtakes the deletion of the marker, is
`lateMarker` and `LateMarkerSaved`. `hitByUser` and `hitByDeadline` decide what
`asyncio.wait_for` makes of the `CancelledError` that leaves `_execute`.

`sched` and `todo` are the scheduler: which pass it is in and the rest of the
list it walks, with the state and the cancel intent as they were when the list
was read. `rpass`, `rtodo`, `rjob` and `rseen` are the same for `_recover`.
`Crash` may end the process at any point, also during recovery; `Shutdown`,
`SchedulerExits`, `StopCancels` and `AgentStopped` are `stop()`.

### Submission, JobObserver, JobClients

`row[j]` is what `create_job` keeps: the principal, the key, the digest of the
document, `retryOf`. `Stores` and `Refuses` are that transaction; `late` holds the
submissions whose clients have given up, which may still arrive. `start_test` submits
under the id of the plan (`PlanKey`) and `run` under a key of its own (`FreshKey`).

`stream[c]` is the coroutine that serves c's request, named by the read it is about to
make: `"get"` is `get_test`'s own, `"first"` that of `observe` without a cursor,
`"events"` and `"check"` the two of its loop, `"yield"` the walk over what was read, and
`"last"` `get_test` after its time-out. Between any two the Job goes on.

`cl[c]` is the command a client carries out: `submit`, `run`, `result`, `watch`,
`cancel`, `start` (`traffic run` and the other `run` commands that start a plan and
poll), and `follow`, an HTTP client that resumes with `Last-Event-ID`. `got[c]`
is what its stream has brought, `out[c]` how the command ended, with the exit code of
`_exit_code`. Any connection may break and any request stay unanswered; the first
Ctrl-C of a command that waits cancels and waits again, the second one aborts. Typer ends the
program with 130 when a `KeyboardInterrupt` leaves the command.

### TrexServer, TrafficRuns, RemoteSessions

`holder`, `loaded`, `sends` and `counters` are the server: the owner of a port, whether
streams or a profile are on it, whose traffic it sends, and whether it has ever sent any. `TrexServer` is external and says what the
adapters take for granted: a port has one owner; commands of others are refused; streams
are changed only while a port is idle; and `Release` leaves traffic going. A
command is for all the ports of a Job, as the adapters send it; only the end of the traffic
(`TrafficEnds`) comes port by port.

`task[j]` is the call that the task of `j` awaits, in the order of `_execute`, and
`work[j][c]` where the worker thread of call `c` is: the command it will send next, what
it waits for, or `"ok"` or `"failed"`. A command may fail before or after it took effect.
`Cancel` (and `TimesOut`, for the `wait_for` of ASTF) leaves the worker where it is, and it
goes on; `To` forgets the result nobody waits for. `Crash` ends all workers, `Reconcile`
is what the next start does for the Jobs whose ports nobody gave back.

`TrafficRuns` tells the documents apart by `workload[j]`: single traffic, benchmarks, the three
storms, datagrams, replays (`"pushed"` when the server reads the capture itself) and sessions.
`FirstOfRun`, `NextOfRun` and `AfterWait` are the commands of a run in their order. Traffic,
each trial of a benchmark and a DNS storm first take the streams away, let the switch learn
(`"teach"` to `"forget"`; the learning streams are taken away after an error, too), and install
their streams again; the others clear the counters and start. `base[j]` is what the counters of
the run of `j` hold besides its own frames, `measured[j]` whether its measurement was called
valid and with which verdict, by the code's own tests for each kind (`Observed`). What makes a
single trial bad of its own accord, links, errors, rates, loss, is a choice (`sound`). The kind
of a document is forgotten (`Remembers`) when no call asks for it any more, which keeps the
states of a Job apart only while it matters.

The mapping to `EnginePromise`: a port is in the hands of a Job (`InHands`) that sends on
it, that owns it once its `prepare` has returned or was lost, or whose lost `prepare` may
yet acquire it; the stage of a Job (`StageOf`) is `"new"` until `prepare` returns, then
`"prepared"`, and `"lost"` or `"closed"` at the end. `EnginePromise!LetsGo`, a worker that
gives ports up before anyone is told, or traffic that comes to its end on one port of a Job
before the other, is no action of `TestJobs`: there a port stays in the hands of a Job for
longer. Its safety properties lose nothing by that: they are proved with such a step at any time,
too (`TestJobsProofs!LetGoHarmless`).
Two facts the mapping brings out: a `prepare` whose rollback fails (`trex_adapter.py:481`)
raises although the ports are still owned, and `jobs.py:1034` takes the raise for
released ports, but nothing is sent on them and the next `prepare` is refused; and a
cancelled STL run may start its next trial between the commands of a cleanup
(`runner[j] = "escaped"`), which `TestJobs` knows as an exception of its properties.

### CaptureCatalog, TestPlans, Admission

`objects` and `resources` are the files of one name of the catalog: per digest what became
of the object, per revision the digest its descriptor names. `publishing[w]` is how far
the publication of a worker is; it goes on when its caller has left. `Damage` is external:
a file under `objects/` is overwritten (`altered`) or cut short (`resized`).

`intent` is the kind of intent that is looked at and `demand` what it asks beyond the
limits of the policy: nothing, one limit of one version, or more than the `jobTimeout` of
its own document (`Overlong`). `AskedBy` groups the limits and says which kinds of intent
can go beyond each, by what their documents hold, whoever checks it; each kind
of intent names those the planner checks and, apart from that, those the admission
checks, which are not the same: the planner checks no timeouts and no limits of traffic
profiles and benchmarks, and the admission compares neither the length of a benchmark's
trials nor the addresses of its packet to a new destination (`NotCompared`). The rates of a
benchmark, in percent of the line rate, and its bursts exceed no limit, for the adapter caps
them when it runs (`trex_adapter.py:1521`, `1653`, `2055`). `Features` is what the analysis finds in a capture and `Paths`
the published revisions of a LabPath, a constant because only an operator writes them.
`plan_test` does not await, so that planning is one step (`PlanTest`), and `WriteCutShort`
is the end of the process in the middle of the plan file. `Identity` is what the plan id
is the digest of.

`job` is one Job of a plan: `accepted`, `validating`, `waiting`, `running`, `done` or
`failed`, with what it was checked against and what it took from the capture. `Restart`
brings another version of the policy and recovers the Job as `_recover` does. The mode of
the engine, the pairing of ASTF ports and the calibration gate are reasons why a
validation may fail (`ValidationFails`); scheduling is in `TestJobs`.

### ArtifactStore

`file[d]` and `row[d]` are the file of a digest and its row in `artifacts`, with their
age reduced to what a cleanup asks: within the grace period or not, retained or
expired. `lock` is `_lock`. `pc[w]` is the await at which the building of a bundle
stands and `n[w]` the content it is writing; `sweep` is where the cleanup stands,
with the lists it has read (`doomed`, `known`, `orphans`) as they were then. A write
puts the file in place and then registers it. `CancelWrite` is a Job cancelled in
either await: it leaves the lock, and the worker thread it has started goes on
(`LostWorker`, at any later time). `raced[d]` records that a cleanup began while such
a worker was at `d`. `Age` lets time pass between cleanups, and `Crash` ends every
frame and every worker.

### The RFC 2544 searches

Each search is a synchronous loop that calls a trial function; the model has one
action per trial or decision and the trial's outcome is the nondeterminism. A
device has a capacity, above which it loses frames, or is erratic and answers in
any way (`Observations`). Rates are integers, `Resolution` units to a step, so that
the ceiling need not be a multiple of the step, as `settings_for` and the policy
allow; rounding is that of Python, half to even (`RoundHalf`). A loop that compares
floats may see an equal difference as a greater one: `Probe` and `SearchEnds` both
allow it. `zeros`, `losses`, `quiet`, `seen`, `points`, `crossed` and `lost` are what
the returned history shows. The searches have no specification of their own: they
run in the suite, which calls them once for every frame size (`CalledAgain`).

`Rfc2544Suite` walks `tests` and, within each, the frame sizes. `rates[f]` is what the
throughput test hands to latency and back-to-back: no result, 0, a rate below the
line rate, or the line rate. The latency test is one action per frame size (`LatencyMeasured`),
valid or not, except that a trial at the rate 0 raises (`LatencyRaises`). `verdicts`
is what each test returned; `gaps` collects what the publication assessment would miss
and `short` the frame sizes without a valid result, whatever the code makes of them. Each
search meets a device of its own, so that the results of a suite combine in every way.
A suite is in strict mode; the direction mode `unidirectional-each` is left out.

### What is abstracted

* Ports of a marker are the ports of the document, so `Needs[j]` stands for both.
* The fencing generation is left out: nothing compares it. The generations the
  code writes can therefore not influence any state that is modelled.
* `_transition` is one step in `TestJobs`: one coroutine at a time moves a Job
  there, except for the cancel API, and that combination is `JobSnapshots`. With
  at most two cancels (`MaxCancelsAssumption`) the three tries cannot run out,
  and the branch `prepared is None` of `_tick` cannot be reached.
* Time is `clock[j]`: 0, 1 once `portWaitTimeout` has passed, 2 once `jobTimeout`
  has. That is the order of the defaults (5 and 10 minutes); a document may
  reverse it, and the time limits then act one after the other in one tick.
* A validation, a calibration check and the building of a result bundle succeed
  or fail, without their reasons.
* Errors of SQLite itself are left out (`_scheduler_loop` logs them and goes on).

## 3. Runs

| run | instance | what it shows |
|---|---|---|
| `snapshots` | 1 Job, 2 writers, 2 requests, revisions up to 5 | `KeepsPromise`, a complete event log and no lost cancel under every interleaving of two transitions, cancels, interruptions, a crash |
| `one_job` | 1 Job, STL, 2 cancels, time limits, 2 ends of the process | write-ahead marker, fail closed, leases, quarantine, life cycle; the Job ends, and no time limit needs to pass for it |
| `shared_port` | 2 Jobs, 1 port, ASTF, a cancel each | the lease covers the execution; ASTF's forgotten handles do not free a port |
| `starved` | 2 Jobs, 1 slot, 1 port, 1 end of the process, time limits for both | executions are bounded; every Job ends although a port may be stranded |
| `clients` | 3 clients of 2 principals, 2 Jobs, 2 documents, revisions up to 4 and an end, 2 broken connections, 17 scripts | one Job per key, retries after the end, ordered and complete streams, exit codes that are true; who waits learns of the end |
| `session` | 2 STL Jobs after one port, a benchmark and one of each other kind, or an ASTF Job, 2 ends of the process | both adapters implement `EnginePromise`; what is called valid was counted from zero; `stop` and `cleanup` return |
| `planning` | 10 kinds of intent, 2 publishers, 2 contents, 3 revisions, 4 revisions of a LabPath, 1 plan, 2 versions of the policy, 1 restart | sound revisions, nothing rewritten, what is sent is what was planned and checked |
| `artifacts` | 2 bundles, one content in common, 2 digests | registered means on disk unless a lost worker raced a cleanup; retention; grace |
| `rfc2544_suite` | 2 suites of 4 and 3 tests, 2 frame sizes, 7.5 steps of rate, 16 capacities and an erratic device, 2 samples, confirmations and repetitions | the searches are sound and end right; the verdict and the publication leave nothing out; every suite ends |
| `double_cancel`, `suite_of_zero`, `replan` | see below | disagreements with the documents |

Properties that say several things of one search or step are conjunctions of named
parts, each with a comment of its own: `ThroughputSound` of `Confirmed`, `Tight` and
`Accurate`; `Ends` of the bound on the trials of a bisection (`Logarithmic`) and the end of
the suite; `CurveSound` of `CurveComplete`, `StopsInTime` and `RetriesMatch`; `BurstsSound` of `Bracketed`, `Accurate` and `AllOrNothing`;
`BisectionsEndRight` of `BestFound` and `TakenIsVerified`; `CancelHonoured` and
`CleanupSpares` of two parts each. A type invariant is checked where the types say most; `ArtifactStore!TypeOK` is only proved.

Bounds. Two writers are enough for `JobSnapshots`: a conflict needs one other
writer, and a third adds only another one of the same kind; the proofs hold for
any number. Five revisions let a call lose three times in a row (submission,
cancel, cancel, transition, ...). Two cancels are what it takes to interrupt a
task and then its `finally` block; two ends of the process to interrupt a
recovery. Two Jobs are enough for one to hold what the other wants. Two bundles are
enough for one to register what the other's cleanup deletes. A client is told one or
two commands: two submissions under one key, by one or two clients, are what a
conflict takes, two broken connections what a resume that is itself resumed takes, and a
Job with four revisions and an end lets events be committed before, between and after
the two reads of `observe`. Two STL Jobs are enough for the second to find the port as
the first has left it, and the first is a benchmark because only a benchmark goes on with
another trial after it was given up; two ends of the process for a reconcile to be cut short; the
ASTF Job has a port of its own, since an Agent has one mode. Two publishers are
enough for one to read what the other is about to write, three revisions for a content
to come back, two versions of the policy for a Job to be planned under one and checked
under the other. One plan is enough because plans meet only under the same name; the
proofs hold for any number of all of these. The searches see intervals whose ends are on and off the
grid: 7.5 steps of rate, 3.75 of the loss curve and 3.5 of bursts. Two samples,
confirmations and repetitions are what tells the first, the last and a retry
apart (strict mode has 3, 3 and 50). Two frame sizes tell the last from the others, and
the second suite has no latency and begins with the loss curve. Deadlock is
checked where the system never stops: when all Jobs have ended the scheduler goes on
ticking. `clients`, `session`, `planning` and `replan` switch it off, because there the
scripts, the Jobs and the restarts run out.

Fairness. `TestJobs!Progress`: the event loop runs what is ready, so the tick, a
task that can go on and an undelivered cancel are weakly fair. Worker threads
return: TRex client calls have timeouts and a run has a finite duration.
`Recover` and what follows `stop()` are weakly fair: a service manager starts the
Agent again (`src/deploy/systemd`). `TestJobs!Fairness` adds that time passes, which a
Job that waits for a stranded port needs; `one_job` does without. The suite is a plain
loop in one thread whose trials have a duration, so its next step is weakly fair.
`JobClients!Fairness`: a client that waits goes on reading, and so does the coroutine
that serves it (`Waits`); a time-out, a broken connection and the Agent's work on a Job
are not fair, so `EndIsSeen` speaks of Jobs that have ended. `RemoteSessions!Spec`: a
coroutine that can go on does (`Step`, time limits included), and a worker over STL
answers, for its client has a synchronous timeout; a worker over ASTF may hang for ever,
which is why its `stop` and `cleanup` have a `wait_for`.
Nothing makes a client submit or cancel, and no end of the process is fair.

### What the runs found

* `double_cancel`: `FailClosed` does not hold. A second cancel interrupts the
  `finally` block of an execution; the next tick's `_finish_cancel` gives the
  port back as `AVAILABLE` while traffic may go on. `FailClosedUnlessCut` says
  this is the only way.
* `suite_of_zero`: a device that loses frames at every rate has a throughput of 0,
  as the design document says; the latency test then builds a trial document at that
  rate, which `Rate` refuses, and the suite ends in an exception instead of a result.

* `replan`: the id of a plan of flows, of sessions or of a storm is the digest of its
  document (`test_plan.py:1391`; also 1000, 1106, 1220, 1545, 1725), while the file also says
  which revision of the LabPath it was made over. A later revision that leaves the document
  alone is refused as a collision. `NoCollisionByPath` says that the other kinds are safe.

What the modules say besides, without a run of its own:

* A cancel that reaches the `finally` block of a Job that has already failed skips
  `release_ports` (`jobs.py:181`, `1140`), and nobody visits a terminal Job again; the end of
  the process between the terminal transition and the release strands a lease, too.
  `LeaseReturnedUnlessCut` excepts both (`src/design.md:689` has leases end with the clean-up).
* The lock of the artifact store is held by coroutines, not by the workers they start
  (`artifacts.py:54`; `src/docs/operations.md:77` says writes and cleanup are serialized): a cancelled
  write can register a digest whose file a cleanup is deleting. `RetainedUnlessRaced`
  says this is the only way.
* The scheduler does not keep the order of `src/design.md:688` when Jobs name overlapping sets of
  ports: one that waits for a busy port is passed over (`jobs.py:324`).
* A trial that is invalid twice does not end a search while another sample of the rate
  is valid (`NoValidTrial`, `src/design.md:623`); after a lost confirmation the next candidate is one
  resolution lower, not the last rate that was crossed (`ConfirmLoses`, line 626), which
  `Confirmed` and `Tight` hold for all the same; and `_assess_throughput` accepts the
  confirmations of a higher rate as those of the reported one (`Publishable`).
* `src/design.md:405` and `534` ask for `INVALID` where a necessary sample cannot be trusted, whatever
  the assertions. A replay and a datagram workload say `NO_ASSERTION` also when they have found
  their own observation invalid (`OfReplay`, `OfDatagrams`; `trex_adapter.py:1036`, `1308`), and
  an ARP storm compares nothing with its baseline (`OfArpStorm`). `MeasuresItsOwn` holds for all
  of them, because `prepare` resets the ports and a run clears the counters.
* The CLI does not resume a stream (`src/design.md:91`): a connection that breaks ends `run` with
  exit code 3 (`StreamBreaks`). A command that is interrupted once goes on waiting and exits with
  the code of the end of its Job, which need not be 130 although a cancel was submitted
  (line 161); a second interrupt ends it with 130 whatever becomes of the Job, as does the
  first one in a command that only looks and has cancelled nothing (`InterruptAborts`). An interrupt
  before the submission is answered ends the command with 130, too, and leaves the Job running
  (`SubmissionUnanswered`). `ExitTruthful` therefore says of a command without a Job to name only
  that it never exits with 0 or 1, the codes of a result that passed or failed.
* A plan is started once per principal, not once (`PlanKey`, line 229), and an idempotency key
  is compared by the digest of the document only: a repeated submission with another
  `retryOf` is answered with the first Job.
* A plan file that was torn by a crash blocks its id: it is neither repaired nor
  accepted (`Persist`). Publishing a content again does not repair a damaged object (`Place`).
* A replay is not compared with what was planned, only its packets are counted
  (`Compiles`), and a compiled file that is there already is used again.
* A Job that waits over a restart with another policy is not checked again; its result
  then reports the new `policyVersion` beside the digest of the specification resolved
  under the old one (`jobs.py:1070`, `1304`; `src/design.md:316`, `802`). `CheckedBeforeItRuns` says what holds.
* The packet that the latency trials of a benchmark send to a new destination (`models.py:975`,
  resolved at `test_plan.py:1892`) is compared with neither `allowedCidrs` nor
  `allowedMacPrefixes`: the validation looks at the packet and the reverse packet only
  (`jobs.py:945`, `trex_adapter.py:196`), and the latency test sends it all the same
  (`trex_adapter.py:1851`). `src/design.md:809` has addresses outside the whitelist refused.
  `CheckedBeforeItRuns` names this exception (`NotCompared`): without it TLC finds a benchmark
  that runs with an address that the policy it was checked against does not allow.
* The length of a benchmark's trials is not compared with `maxRunDuration` (only the other kinds'
  is: `jobs.py:551`, `639`, `689`, `732`, `781`), although `src/docs/rfc2544-publication.md:16` asks
  for a policy that allows trials of 120 seconds. The `jobTimeout` of a document is compared with
  the run of traffic and storms only; the others are cut short by the deadline (`NotCompared`).
* `measure_back_to_back` trusts a valid trial to have sent the burst it was asked for. The
  adapter's trial (`_back_to_back_trial_sync`, `trex_adapter.py:2178`) judges a
  short burst by a duration in whole milliseconds and may call it invalid; `Accurate` is of the search on a device whose
  trials are valid.
* The rates of a document are summed by port and unit (`jobs.py:572`), so that two units on one
  port are each compared with a ceiling of their own.

## 4. Proofs

`JobSnapshotsProofs` proves, for any sets of Jobs, writers and requests and any
bound on revisions, what the run `snapshots` checks:

* `TypeCorrect`: `TypeOK` is inductive by itself.
* `CopySafe`: `CopyFreshOrRefused` is inductive given `TypeOK`. Its heart is
  `RevisionGrows`: every write of a snapshot increases its revision, so a copy
  whose revision is still current is the current snapshot.
* `LogSafe`: `EventLogComplete`, from `StepWrites` (a step changes the snapshot
  and the log together, at one Job, or neither) and the same fact on revisions.
* `CancelSafe`: the two parts of `CancelHonoured` (`CancelKept`, `CancelDecides`) follow from
  `CopyFreshOrRefused`, because a committed copy is the snapshot, so what was
  decided on the copy holds of the snapshot.
* `Implements`: every step is a step of `JobPromise` or leaves `snap` and `log`.

`ArtifactStoreProofs` proves, for any bundles and any sharing of contents, what
the run `artifacts` checks, and `TypeOK`:

* `TypeCorrect`: `TypeOK` is inductive by itself.
* `RetainedSafe`: `RetainedUnlessRaced` needs the strengthening `IInv`: whoever is inside
  holds the lock (`Locked`), a writer that is about to register is within its bundle
  and has put its file there (`Writing`, `FileFirst`), what a lost worker is at during
  a cleanup is raced (`LostRaced`), and what a cleanup has read is still right about
  every digest that is not (`ReadStands`).
* `RetentionSafe`: `RetentionHonoured`, since a `DELETE` takes expired rows only.
* `CleanupSafe`: the two parts of `CleanupSpares` (`ForgetSafe`, `YoungSafe`) follow from `IInv`.

`AdmissionProofs` proves, for any captures, workers, intents, LabPaths, versions and bounds, all
that the run `planning` checks. Its first part is about a catalog alone (`CatalogNext`), the
second shows that every step of `Admission` is such a step (`StepOfCatalog`) and adds what is
planned and run:

* `CatalogSafe`: `CatalogSound` needs `CatalogInv`: the latest revision is the number of
  revisions; one publication at a time is under way (`OneAtATime`, the lock); what it has
  decided still stands, the revision it will write being the next and its content not that
  of the latest (`DecisionStands`); its object is there before its descriptor
  (`ObjectFirst`); revisions in a row differ (`Successive`).
* `NeverRewritten`: `Frozen`, from `RevisionsStay` (the revision that is written is new, by
  `DecisionStands`) and `PlansStay` (a plan is filed only under a name that is not taken).
* `NamesApart`: `NoCollisionByPath`, from `NamedByContent`: the file under a name says what
  the name was made of.
* `SentAsPlanned` and `RunsChecked`: `SendsThePlan` and `CheckedBeforeItRuns`, from `JobInv`: a
  Job has the document of a plan that was whole (`PlanOfJob`), whoever waits was admitted by a
  version (`Checked`), and flows and sessions that are sent were compared (`Extracted`).
  `AdmittedStays`: what admission asks depends on nothing that a step changes.
  `AdmittedWithin`: what a version admits is within all its limits that a document of the kind
  can exceed, but for `NotCompared`; `CheckedBeforeItRuns` does not mention the admission itself.

`TestJobsSteps` and `TestJobsProofs` prove, for any set of Jobs with any needs of ports, either
adapter and any bound on ends of the process, every invariant and action property that the
runs `one_job`, `shared_port` and `starved` check. None of them is inductive. Their
strengthening is `TestJobsInvariant`, in layers, each of which rests on those before it
(TLC has checked each on the instances of the three runs first):

* `TypeCorrect`: `TypeOK`, by components of the state (`Typed`, `RestTyped`, `ClientsTyped`).
* `BaseCorrect`: `MemoryInv` (a process that is down or recovers has no task, worker or list) and
  `PassInv`: however old the scheduler's list is, what it says of a Job nobody works on is so
  (`RowsStand`), and in the middle of a Job the pass has it to itself (`PassHolds`). This is
  what makes the stale list of `_tick` harmless.
* `MarkersCorrect`: `MarkerCoversTraffic`, from `FrameInv`, which says at every await what `handle`,
  `confirmed`, the session and the marker are and whether the Job may still transmit, and
  `RecoveryInv`, which says the same of `_recover`. The two are proved together: a frame
  begins where recovery has left the Job.
* `LeaseCorrect`: `LeaseCoversExecution`; only the task itself gives ports back while it executes.
* `ClosedCorrect`: `FailClosedUnlessCut`, from `ReleasesSettled`: whoever else than the
  execution releases the ports of a Job (the deadline, a spawned cancellation, the scheduler)
  finds a Job that was cut, is quiet, or has no port.
* `QuarantineCorrect`: `QuarantineLifted`; `SlotsCorrect`: `ExecutionsBounded`, from the slot that
  `PassHolds` keeps free until the task is spawned.
* `LifeCorrect`: `LifeCycle`, from `LifeInv`, the state a Job has at each await of its task.
* `ReturnCorrect`: `LeaseReturnedUnlessCut`, from `ReturnInv`, which holds in the first life of the
  process only, as the property does.
* `LetGoHarmless`: all these properties together, but `TypeOK`, of the behaviours in which, besides the
  steps of `TestJobs`, traffic may end on any port of any Job at any time (`LetGo`), as the
  worker threads of the adapters let it (`EnginePromise!LetsGo`). The layers are the invariant
  (`Whole`): each speaks of traffic only to say that there is none, or to bound it.

`Bystander` and `OthersKept` are the lemmas the layers share: a step of one task leaves the frames,
leases and traffic of the others alone.

`JobClientsProofs` proves, for any clients, Jobs, scripts, documents and bounds, every
invariant that the run `clients` checks, from one inductive invariant `Inv`: what the server
has published stays (`History`); a Job has the row its submission stored, and a key names one
Job of its principal (`Rows`); what a client waits for is its own Job (`InCommand`); what the
coroutine behind its stream has read and sent is a prefix of the log after the cursor
(`InStream`, `Brought`); how a command ended agrees with the state it was shown
(`CommandEnded`).

* `OneJobCorrect`: `OneJobPerKey`; `RetriesCorrect`: `RetriesFollow`; `StreamCorrect`:
  `StreamFaithful`; `ExitCorrect`: `ExitTruthful`.

The attempt to prove `ExitTruthful` showed that `ExitCode` was wrong in the model: its cases
overlapped, so that a cancelled Job could end with either of two codes where the code
(`cli.py`, `_exit_code`) asks in order. It is a chain of conditions now.

`RemoteSessionsProofs` proves, for any Jobs with any needs of ports, either adapter for each of them,
any kinds of documents and any number of deaths of the Agent, both safety properties that the run
`session` checks. They share the invariant `IInv`, which is that of the single Jobs (`JobInv`)
and of a process that is down or recovers (`Recovery`):

* Ports are acquired and released together (`HoldsAll`); what is sent is accounted for by a
  Job that has its ports or by a lost run (`SendsAccounted`, `RunLost`); the workers of a Job that are
  left behind are those of the calls before the one it awaits, and none beside a `prepare` or a
  `run` (`Alone`); a known handle is that of an open Job, and a cleanup that is not through has
  one (`Known`); what became of the Job agrees with where its task is (`Fates`).
* What a call has reached by its commands, with old workers of the same Job still sending theirs:
  `PrepareHolds` and `RunHolds`, and `CleanupClears`, for which it matters that the streams are taken
  away before the ports are released and that a worker of ASTF cannot start what is not loaded.
* `OwnMeasurement`: `MeasuresItsOwn`, from `CountsFromZero`: a run starts on ports that are its own and idle,
  and nobody else can send on those.
* `PromiseKept`: `KeepsPromise`. `Effect` and `Enters` sum up what the command of a worker does and which
  label it reaches, `CallKeeps` and `LeaveKeeps` what any step of a coroutine does. To the Job engine a
  step of a worker is at most a `LetsGo` (`Quiet`): that it gives a Job nothing it did not have in its
  hands is `Unmoved`, a part of `WorkKeeps`. The others are the actions of `EnginePromise`, one lemma
  for each (`PreparePromise`, `ClosesPromise`, `ForgetsPromise`, `CrashPromise`, `ConfirmsPromise`). `Promise(K)` is
  `Stl` and `Astf` in one, for TLC cannot check an instance with a parameter.

The attempt to prove the refinement showed that `EnginePromise` was wrong for Jobs with two ports,
which the run `session` has none of: it let a Job lose all its ports at once, whereas traffic ends
on one port after the other. `LetsGo` takes ports now. TLC has checked `IInv` and the refinement
on instances where the first Job has two ports and the second one of them, before the proof.

`Rfc2544Proofs` proves, for any suites, sizes, rates, steps, samples and devices, every
property that `rfc2544_suite` checks except `Ends`:

* `NothingCorrect` and `ClosedCorrect`: `NothingLeftOut` and `FailsClosed`, from `LoopInv`: the tests
  that are done have a verdict (`VerdictsInTurn`); a test without a result, and one that is short of
  a frame size, is invalid (`NoneIsInvalid`, `ShortIsInvalid`); an invalid test is a gap of
  the publication (`InvalidIsGap`).
* `TypeCorrect`, `ThroughputCorrect`, `CurveCorrect`, `BurstsCorrect`, `BisectionsCorrect`: `TypeOK`,
  `ThroughputSound`, `CurveSound`, `BurstsSound` and `BisectionsEndRight`, from `SearchInv`. It is the
  invariant of each search: for throughput where it may stand while it observes, bisects and
  confirms, what it reports and that every rate seen fits the capacity (`Observing`,
  `Bisecting`, `Confirming`, `Reported`, `RatesOfCapacity`); for the curve that its points
  fall, are counted and are repeated once at most (`Falling`, `Counted`, `Repeated`); for
  bursts the bracket and the count of repetitions (`BurstBounds`, `BurstsCounted`,
  `BurstsOfBuffer`). To these it adds that a search that is not under way is at its
  beginning: the searches share `dut`, so that the next device would otherwise belie what an
  earlier search has seen.
* `DivMod` and `Rounding` are the facts about integer division and Python's rounding that
  keep a rounded middle strictly between the bounds.

The theorems rest on the named assumptions of the modules only (what the constants are), and
on no bound of the runs. `MaxCancelsAssumption` is the one that bounds behaviour: with three or
more cancels the three tries of `_transition` could run out, which `TestJobs` leaves to `JobSnapshots`.

Only model-checked:

* Liveness: `EveryJobEnds`, `EndIsSeen`, `CallsReturn` and `Ends`. It needs fairness and `ENABLED`.
  `Ends` also holds the bound `Logarithmic`, whose 2^k is induction over data.
* That the three runs of disagreement find what they find.

## 5. Not modelled, and plan

Not modelled:

* The calibrations. `_environment_key` is probed after the run, and the upsert
  (`storage.py:752`) keeps the higher ceiling: a calibration that has aged out is not renewed
  by one of the same or a lower ceiling. Ages would need a clock that no other part has;
  the gate is an outcome of the validation.
* The arithmetic of a trial (`trex_adapter.py:2454` to 2594 compare the counters of both ports,
  per direction, with those of flow statistics): a trial is an outcome of `Rfc2544Settings`, and
  `TrialValid` knows its baseline and its owner only. The mode
  `unidirectional-each`.
* The weighted allocation of packets, connections and addresses: a closed computation.
* The analyses of packets (TCP reassembly, UDP flows, dialogues): their findings only.
* Schema migration and backup (one copy and one SQLite transaction), roles and the reload of
  credentials, the validation of fields.
* Packet and profile building, rendering, log formats, counters, and the simulated
  engine: they hold no state that outlives a call.

Next, in this order:

1. `TrialValidity` as a part of `Rfc2544Suite`, with the mode `unidirectional-each`.
2. `CalibrationGate`, `SchemaMigration`, `CredentialReload`.
3. `SessionAnalyzer` (TCP reassembly as a state machine), `WeightedAllocation`.
