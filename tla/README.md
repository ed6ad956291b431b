# A verification project for dshd and the dsh agent core

The repository holds two programs. **dshd** (`crates/`, Rust) is the node daemon of a workbench:
it owns the state directory of a node, starts the Harness child process, authenticates against it
and publishes a connection context, and it has to stop, restart and fence that child whatever the
threads around it are doing. **dsh** (`dsh/`, TypeScript) is what runs inside the Harness: an
agent loop with tools, an append-only session log, and many feature packages on top.

This directory holds TLA+ models of the parts that carry the core logic, TLC configurations that
check them on small instances, and TLAPS proofs for every instance. Paths below are relative to
`src/`. `PROJECT.json` links every definition to source lines (`map`), every property to a bug
that breaks it (`mutants`), and every hazard of the code to the properties that would notice it
(`hazards`).

How to run, in this directory: `tlc -config DshAgent.cfg MCDshAgent.tla` (and so on, see the table
of runs) and `tlapm` on each `*Proofs.tla`.

## 1. Inventory

### dshd

| part | state | operations | interacts with | what is hard, what must hold |
|---|---|---|---|---|
| reducer, `dshd-core/state.rs` | `Snapshot`: desired, observed, registration, attempt, generation, context, shutdown | `reduce(snapshot, event)` giving the next snapshot and effects | pure; called by the coordinator | events late, duplicated, about older attempts; the label must stay true and no stale context may be on offer |
| coordinator, `dshd-adapters/coordinator.rs` | snapshot, bounded event queue (64), watchers | take an event, publish the snapshot, carry out the effects; `subscribe` | every thread sends it events; it calls the supervisor, which sends to the same queue | effects run after the snapshot is public; the coordinator may block on its own queue |
| supervisor, `dshd-adapters/supervisor.rs`, `harness.rs` | `children`, `ready` maps; a thread per reader, waiter, bootstrap, backoff, stop | spawn, bootstrap, schedule_backoff, stop | Harness children; events to the coordinator | threads in any order; two stops of one attempt; a child dying during its authentication; a spawn that fails |
| main, `dshd/main.rs` | exit poll, console, signals, `--hold-ms` | start in order; turn signals and lines into events; exit on Stopped | everything above | when it may leave; what it leaves behind |
| identity, desired state, writer guard, `files.rs`, `identity.rs` | `identity.json`, `desired.json`, `writer.lock` | load, create with no overwrite, default, lock | a volume that other daemons may use at once | racing starts; crash or power loss between rename and directory sync |
| configuration, contract, canonical JSON | none | pure | | not modelled: no state |
| central client, proxy, operations | none yet | | | not in this workspace (`NOT_IMPLEMENTED_M3`) |

### dsh

| part | state | operations | interacts with | what is hard, what must hold |
|---|---|---|---|---|
| agent driver and inbox, `core/agent-loop/agent.ts`, `core/agent/inbox.ts` | phase (idle, maintenance, running with abort controller, wake latch, turn, step), two pending lists | followup, steer, inject, cancel, runMaintenance, whenIdle; `kick`, `turn`, `step` | hooks, model, tools, session log; observers called synchronously | re-entrant calls at every notification; wakes that meet a cancellation or the end of a turn; teardown |
| tool-call scheduler, `core/agent-loop/tool-calls.ts` | started and committed counters, the pool, one slot per call | executeToolCalls, runGroup, commitReady, fill | tool runtime, caller's signal, session log | bodies settle in any order; log in model order; cancellation and failure while others run |
| agent lifecycle, `core/agent-loop/index.ts` | registry of agents, setups in progress | create, resume, restore or create, setup, publish, release, teardown | driver, persistence, fibers | two resumes of one session; a creation racing a resume; an id taken during setup |
| write-behind, `session-persistence/write-behind.ts` | per live session: pending events, the write in flight, one deadline, a paused flag, a flush barrier | enqueue, deadline, flush, settle | coordinator | a deadline or a flush that meets a write in flight; a failed write with events behind it |
| persistence coordinator, `session-persistence/coordinator.ts`, `preparations.ts` | per id: durable cursor and owner, a chain of storage operations, retirements, a pool of prepared sessions and their reservations | append, initialise, flush, retire, prepare, commit, repair, inspect, release, reload | session store, agent lifecycle, storage backend | a retirement racing a resume or an inspection; a cached log that has changed; waiters on entries that others remove |
| JSONL backend, `session-persistence-jsonl` | one compressed log file per id | read a prefix, append a frame, truncate, repair, list | file system, other processes | a crash in an append or between the two steps of a repair |
| subagents, `subagent/subagent` | continuation records, controls | spawn, resume, message, settle | lifecycle, driver, jobs | a parent that ends while a child reports |
| jobs, `jobs/jobs-local`, `jobs/tool-jobs` | records with status, reported flag and waiters; wakes spent per owner | start, settle, read, kill, wait, teardown of an owner or of the service | producers, job tools, driver wakes | several ways to learn of a completion, each suppressing the others; a start or a settlement that races a teardown; a cancel that throws |
| tools runtime, `core/tools` | registry, pre, execute and post chains | prepare, dispatch, finalize | scheduler, approvals | what it may do to a call while the scheduler waits |
| approvals and questions, `interaction/` | pending requests | ask, answer, withdraw | user, pre stage of a tool | an answer after the cancellation |
| settings, storage, credentials | layered records | read, write | most packages | stale reads |
| goals, schedule, compaction, workflow | per-feature | drive the agent through its public operations | driver | outside the core |
| gateway, clients, LLM adapters, prompts, presentation, vendored code, SDK | | | | no core logic of their own, or not this project's code |

The two programs meet only as parent and child process: dshd sees a line with a URL on stdout, an
HTTP token exchange, a probe and an exit.

## 2. Modules

```
DshdContextGate          what a holder of a connection context is promised
      ^ implemented by
DshdReducer  ---------   the reducer fed any events at all         (proved: DshdReducerProofs)
      ^ implemented by   |  EXTENDS DshdState (snapshot, events, effects, reduce)
DshdNode     ---------   coordinator + supervisor + children + main (proved: DshdNodeProofs)
DshdBoot                 racing starts on one state directory      (proved: DshdBootProofs)

DshToolLedger            what the log promises about the calls of one step
      ^ implemented by
DshToolCalls             the tool-call scheduler                   (proved: DshToolCallsProofs)

DshSessionTrace          turn and step events, as the session invariant companion checks them
      ^ implemented by
DshAgent                 driver, inbox, maintenance, teardown  (proved: DshAgentProofs)

DshDurableLog            what persistence promises of the log of one session id
      ^ implemented by
DshPersistence           coordinator, pool, JSONL file, lifecycles, crashes and reloads
                         EXTENDS DshWriteBehind (the write controller, one operator per method)
                         (proved: DshPersistenceProofs, DshPersistenceLogProofs)

DshJobRecord             what the job registry promises of every record
      ^ implemented by
DshJobs                  registry, job tools, completion notices, cancelled turns, teardown
                         (proved: DshJobsProofs)
```

The `MC*` modules give constants, symmetry and one bound for TLC and define nothing of the models.
Definitions whose comment starts with *Mutant* are bugs such code could have; no specification
uses them.

**DshdState** translates `state.rs` arm by arm: one operator `On...` per arm of `reduce`, `Counts`
for the guards of the match. `sequence` and `last_error` are left out (only printed), `origin` and
the cookie are functions of the authority; an authority names the child that answered.
Registration keeps only Unregistered and Fenced, since no code constructs the others yet.

**DshdReducer** applies `reduce` to any event about any attempt in any order. What holds here
needs no assumption about threads. **DshdContextGate** is its abstraction: generations are
published one at a time, only the latest is on offer, every pause or close withdraws the offer in
the same step, and a closed node never offers again.

**DshdNode** is the process. `Reduce` takes one event; `Exec...` carries out one effect and the
next event waits until all are done, as in the loop of `Coordinator::spawn`. `outbox` holds the
event the coordinator itself is sending while the queue is full. A child record says whether its
stdout thread and wait thread have yet to report; `tasks` is a bag of bootstrap, backoff and stop
threads, each with its program point. `stop` holds the lock on `children` across the wait for the
child (`ChildrenLocked`), which also blocks a spawn. `MainExits` drops all threads and the queue
but not the children: they run in process groups of their own. The faults `spawn`, `protocol` and
`wait` switch on the error paths of the adapters.

**DshdBoot** starts several daemons on one volume. A start is the sequence of file operations of
`main` up to the writer guard; between two of them another daemon may step, the daemon may be
killed (`Dies`), or the power may fail (`PowerLoss`), which undoes any subset of the renames whose
directory was not synced.

**DshToolCalls** has one step per stretch of `runGroup` between two awaits. `Commit...` and
`Finalize...` are `commitReady`, `Start` and `Prepare...` are `fill` and the pre stage, `Raced` is
the `Promise.race`, `Drained` the `allSettled` after a failure, `EndAborted` the synthetic results
of a cancelled step. `RetryIsCut` is a `tools/execute` wrapper whose second dispatch of a call is
cut short by the check before the body; one that reaches the body is a body still running. Bodies
move on their own while the scheduler waits. The mode of a call is chosen when the code asks for it,
so a call that changes mode under way is included. **DshToolLedger** is its promise to the reader of
the log.

**DshAgent** runs from one point where somebody else may act to the next: an await, or a
synchronous notification of the session log or the agent's status. `pc` names those points:
`Opened` (turn/start), `PreStep` (claim done, hooks awaited), `Step` (model and tools),
`StepEnded`, `Stopping`, `Erred`, `Ended` (turn/end), `Retire` (the loop of `kick` is left).
`sending` is an insertion whose observers run before the rest of `send`; `retiring` is an activity
whose idle notification runs before its promise settles. `wakeRequested`, `aborted`, `activity`
are the phase's fields; `waking`, `prompts`, `taken` are history for the properties.
**DshSessionTrace** is the part of `core/session/src/invariant.ts` about turns and steps.

**DshWriteBehind** is the record of one `SessionWriteBehind` and one operator per method of it, as
functions from a record to the next. It keeps sequence numbers for events. The microtasks of a
settled write (`catch`, `finally`, the continuation of whoever awaited it) are two steps: `Settle`
and `Continue`, between which other code may run.

**DshPersistence** is everything that reads or writes the log of one session id. The process is
single threaded, so an action runs from one await to the next. What overlaps are promises:

* `chain` is `serialize`: the operations queued on the id, of which the first one runs. A write
  (`AppendBegin`, then `AppendCommits` or `AppendFails`), the first write of a prepared session
  (`seed`), the initialisation of a created one (`Created`), a load for the pool (`Load`,
  `NothingToLoad`, `LoadFails`), a commit with its repair (`Commit...`, `Truncate`, `Repair`,
  `Commits`), the revision check of an inspection (`Check`, `CheckFails`), the release of a
  lifecycle (`Retire`) and a cancelled commit (`Void`) are its kinds.
* `session[s]` is a lifecycle from publication until the coordinator has forgotten it: its events,
  how many were handed to its writer, its initialisation, and the callers of `flush` that wait for
  the initialisation (`atInit`) or the writer's barrier (`atBarrier`). `Emit` is `Session.append`,
  `Checkpoint` the flush of the checkpoint policy, `End` the exit of the session, which starts the
  retirement (`retiring`).
* `client[c]` is a call of `prepare` or `inspect` (`does`) with its program point: waiting for a
  retirement, for the pool's entry, for its commit, holding an unpublished session (`reserved`),
  or with a source in hand. `seen` says whether the entry it joined is still the pool's.
  `Setup`, `Publish`, `Release`, `GiveUp` and `Create` are what the agent loop does with the
  answer. `floor` is history: what was durable when an inspection began.
* `file` is the log on disk: the complete frames, and a torn last one from which some records can
  be decoded. `Crash` keeps only the file and may tear the frame being written. `ForeignResume` is
  another process that resumes the id while none here does. `Evict` is the pool's size limit seen
  from one id. `Unload` and `Reload` are a hot reload of the plugin: listeners go first, flushes
  settle, then the new instance adopts the live session.

`Quiet` says that no continuation is ready to run: timers, I/O and calls from outside wait for
that, as in an event loop that empties its microtasks first. A caller in the middle of
`restoreOrCreateConfigured` (`absent`) also goes first, which takes its listing of the store and
its creation as one step.

**DshDurableLog** is the promise: the log of an id only grows, each time to turns that do not nest
and do not cross a resume, and a flush is answered only when the log holds all that it covers.

**DshJobs** is the job registry with those who use it. `job[j]` is a record of the registry, with
the callers that wait (`waiting`) and those still counted (`waiters`: a released wait is counted
until it resumes), and `work` is the producer behind it. `Start` has the preflight of `start`:
the owner is registered and its scope has, or still takes, the cleanup. `Output`, `Wait`,
`Timeout`, `Resume`, `ReadAfterWait` and `Kill` are the tools' calls between two awaits; `Return`
is the end of the call in the tool runtime, which replaces the result of a cancelled call.
`Notified` is the completion listener of tool-jobs with its budget of wakes. The driver of an owner
is reduced to running, cancelled (`cut`) and its inbox; `DshAgent` has the rest. `Dispose`,
`Cleanup`, `Drained` and `Close`, `Down` are the two teardowns. `Stubborn` names the jobs whose
cancel throws. `heard`, `lost` and `left` are history. **DshJobRecord** is the promise: one
terminal status, the first; reports are never taken back; and the completion is announced, once,
exactly when nobody has claimed the report.

## 3. Runs

| run | question | bounds and why they are enough |
|---|---|---|
| `reducer` | does any order of events break the snapshot? | 3 attempts (an old one, the current one, a next one), 2 authorities, generation up to 3; 218 states |
| `node` | do threads, stops and spawn, protocol or wait errors break the node, is every step a reducer step, do shutdown, fence and recovery come to an end? | 2 children (one stopped or dead, one current or coming), a shutdown and a fence, queue of 2 so that senders and the coordinator block; 291 thousand states |
| `boot` | can racing starts, crashes or a power loss break the volume? | 3 daemons of 2 node ids, 4 starts (every one once and a restart), 1 power loss; 474 thousand states |
| `tool_calls` | is the log in order and honest, and does a cancelled step end? | 3 calls through a pool of 2, so the pool is full with a call behind it and an exclusive call may be first, between or last; every stage may throw, and the call in the middle is under a wrapper that may dispatch it again; 1.5 million states |
| `agent` | is the driver's log right, does every cancelled activity converge, is any wake or prompt lost? | 2 messages of any kind, 2 steps per turn, maintenance until the second activity; 433 thousand states |
| `persistence` | is an event lost, doubled, stranded or hidden, is a flush answered too soon, is any caller left waiting? | 2 lifecycles (one retiring while the next starts), 2 callers (one waits on what the other removes), a log of 3 before a lifecycle stops adding turn events of its own, one mishap of any kind at any await; 80 thousand states |
| `jobs` | is every completion heard of, does every record settle once, does a teardown end and leave nothing behind? | 2 jobs (one still settling while the next starts, an unowned one beside an owned one), one of them with a cancel that throws, 2 calls at once (a wait against a read or a kill of the same job), a budget of 1 wake, which the second job exceeds; turns may be cancelled, blocked or fail; 577 thousand states |
| `one_harness` | *violated*: at most one Harness | a failed bootstrap schedules a backoff but no stop; the second child starts beside the first |
| `orphan` | *violated*: no orphans | a shutdown between the Spawn effect and its Spawned event finds nothing to stop |
| `fenced_exit` | *violated*: a node that is fenced and shut down comes to show Stopped | once fenced, the label goes back to Fenced when the stop is done, and Stopped is what main waits for |
| `spawn_lost` | *violated*: while the node should run, a failure or a death is retried | a program that cannot be started is reported as the failure of an attempt nobody adopted, which the reducer drops |
| `lost_wake` | *violated*: a running driver consumes steering | steering between the last look at the inbox and going idle neither wakes nor latches |

The five violated properties state what a document or comment of the repository says; `findings`
quotes it. Each is checked under exactly the faults it needs, and the passing runs state what does
hold in its place:

* `HonestLabel` says only that Fenced is never shown of a node that is not fenced. That a fenced
  node ends with Stopped, as cases ST-04, ST-13 and ST-14 of
  `docs/contracts/central-dshd-conformance.md` require, is what `fenced_exit` refutes, and
  `ClosingEnds` excepts a fenced node from the exit.
* `Recovers` is about the behaviours in which no start of a program fails (`UnheardFailure`). When
  one does, the reducer drops the `Failed` of an attempt that no `Spawned` has made current, and
  the node stays as it was: never started, Unhealthy, or Ready through a child that is dead and
  whose death a late `BootstrapSucceeded` has painted over. `docs/dshd-service-design.md:293`
  promises a retry, and `spawn_lost` shows that there is none. `Recovers` also excepts a coordinator
  that waits for room in its own queue (`Jammed`) and stops at the bound on children.
* `agent` sets `GapSends = FALSE`. That constant says whether code outside the driver may run in
  the one microtask between the last look at the inbox and the retirement; `lost_wake` sets it to
  TRUE, since an async observer of `turn/end` can do so. An observer of an insertion does not send
  another message in the model, but may cancel.

`packages/jobs/tool-jobs/README.md` says that a busy owner's turn cannot close while its inbox
holds a completion notice, and itself names the retirement window as an exception (line 173). In
`DshJobs` any driver may come to rest over a notice (`Rest`, which remembers it in `left`): one that
was cancelled, one whose turn was blocked (`agent.ts:274`), found nothing to do (281) or failed
(316), and one in the window between its last look (331) and the idle phase (226). Such a notice
stays in the inbox of an idle agent until the next message. News that an owner has taken out of
the inbox, or out of a call, can still be lost with the step that carried them: the runtime
replaces the result of a cancelled call, and a step that fails or is blocked after its claim
records nothing (`lost`). `CompletionIsHeard` allows these and says that a completion
is never lost in any other way.

What the passing runs say, in order of importance:

* *dshd*. A closed node starts nothing, even when the spawn was asked for before it was closed
  (`SpawnsOnlyWhenActive`, `ClosedNeverAdopts`). A stop is acknowledged only when no stop thread
  still waits for that child (`AckMeansReaped`). A ready node is ready through a child of its
  current attempt and the missing-URL path of a bootstrap is never taken (`RightChild`). A node that
  should run and is unhealthy or has lost its child gets another one, unless a program could not be
  started (`Recovers`). Shutdown and fence come to an end (`ClosingEnds`). An acknowledged identity
  survives races, crashes and power loss (`AcknowledgedIsForGood`); whoever serves is alone and
  serves what is stored (`ServesWhatIsStored`); a race has a winner (`RaceHasWinner`).
* *tool calls*. A call that was exclusive when it was started is a barrier, and the pool keeps its
  size (`BarrierHolds`; `exclusive` remembers the mode a call was started with, so that a refill
  that does not look again is noticed). A step is honest (`StepIsHonest`): calls and results appear
  in model order, the "unreachable" throw at the end of a group is unreachable, no body outlives the
  step, and "aborted before dispatch" is not said of a body that ran once and was not dispatched
  again. It may be said of one that a `tools/execute` wrapper has retried: the second dispatch meets
  an aborted signal before its body, and `dispatchToolBody` (`core/tools/src/index.ts:1539`) answers
  without looking at whether an earlier one ran. On return the log is complete (`KeepsLedger`), and
  a cancelled step ends (`AbortEnds`).
* *agent*. Turns and steps are numbered and nested as the log's readers expect along all nine
  exits (`KeepsTrace`); follow-ups keep turns of their own, in order (`OwnTurn`); a cancelled turn
  is not recorded as completed or blocked (`CancelIsRecorded`); teardown continues only when
  nothing is active (`DisposerSeesIdle`); a driver that was not cancelled and whose last turn ended
  by itself after a step leaves no waking message behind (`NothingLeftBehind`; one whose turn was
  blocked, failed or found nothing to do returns without a further look, `agent.ts:276`, `283`,
  `322`); cancellation converges (`AbortConverges`); and a wake sent behind a
  cancelled activity takes effect (`WakeSurvivesCancel`).
* *persistence*. Whatever fails, crashes, is repaired or is reloaded, the log only grows, stays
  well formed, and no flush is resolved over an event that is not in it (`KeepsDurableLog`). No
  queued event is left without something that will move it, and a lifecycle is released only when
  it has nothing left to write (`NotStranded`). A live session that was accepted holds the whole
  log, so nothing written behind its back is ever overwritten (`LiveSessionIsTheLog`). An
  inspection shows at least what was durable when it began (`InspectionIsFresh`). Every caller of
  prepare or inspect is answered, however others fail, cancel or evict (`Answered`).
* *jobs*. A completion is never lost between notice, wait, read and kill, and an idle owner is woken
  for it while its budget lasts (`CompletionIsHeard`, with the exceptions above: a driver may rest
  over its notice, and news go with the step that carried them when that is cut short). A record
  settles once and is announced exactly when nobody has claimed the report, also when it was forced
  in a teardown and its producer settles later (`KeepsRecord`). Nothing is left of an owner or a
  service that is gone, not even the work of a start that raced the teardown
  (`NothingOutlivesItsOwner`), and a teardown comes to an end, whoever refuses to be cancelled
  (`DisposalEnds`).

`CHECK_DEADLOCK FALSE` is set where the system really stops: a daemon that has exited, a volume
with no starts left, a step that has returned. In `DshAgent` anybody may cancel at any time, so a
deadlock cannot show there; `AbortConverges` and `WakeSurvivesCancel` speak of getting stuck
instead. In `DshPersistence` a session that has filled its log and saved it may rest for ever;
`Answered` and `NotStranded` speak of getting stuck. In `DshJobs` the service may be down with
nothing left to do.

The safety part of `persistence` was also run by hand with two mishaps (333 thousand states) and
with logs of four (198 thousand, with two mishaps 1.1 million), without an error; the
configuration keeps the size at which the liveness check is quick. The safety part of `jobs` was
also run with two owners and one call at a time (2.3 million states).

### Fairness

* `DshdNode`: weak fairness of the coordinator (`Reduce`, `Execute`), of main's poll, of each wait
  thread, and of bootstrap, backoff and stop threads: OS threads with no unbounded wait but the
  queue, which the coordinator empties. A stop is bounded by `stop_timeout` and SIGKILL, an
  exchange by its HTTP timeout. Nothing is assumed of what a child prints, of when it exits, of
  signals or the console. `Reduce` and `Execute` are one thread and have one condition. A wait
  thread whose `wait` fails has reported the failure and ended; nobody watches that child any more.
* `DshToolCalls`: once the signal is aborted, and while a continuation of the scheduler, a hook or a
  body can go on, one of them does: one condition for all of them, of the event loop and of hooks
  and bodies that are handed the signal. Before that a hook may wait for a user for ever.
* `DshAgent`: code that has begun runs to its next await (`Driver`, `Wake`, `Replay`), and
  `whenIdle` resumes. Hooks, model, tools and maintenance settle only once aborted.
* `DshPersistence`: continuations run; storage operations on the chain complete or fail; whoever
  holds an unpublished session, or has found nothing to resume, goes on. Strong fairness of the
  chain, because `Quiet` is interrupted again and again by arriving calls but an event loop serves
  I/O between them. Strong fairness of each caller's `Reserve`, because those who wait for a
  reservation to settle are woken in the order they joined it. Nothing is assumed of deadlines,
  checkpoints, ends of sessions, or mishaps.
* `DshJobs`: continuations of a settlement and of the two teardowns run, and a producer whose cancel
  returned settles in the end (`JobHooks` demands it, and the registry's README says that a
  teardown otherwise stalls). Nothing is assumed of producers that were not cancelled, of callers
  or of drivers.

### Bounds that are part of a model

`MaxSpawns`: past it a spawn and its backoff do not happen, and the liveness properties except that
case (`OutOfChildren`). `MaxShutdowns`, `MaxFences`, `MaxStarts`, `MaxLosses`: how often the
environment acts. `MaxGeneration` (in the MC module only), `N` of the tool calls and of the
messages. `Retryable`: the calls a wrapper may dispatch again. `MaxSteps`: steps after which tools
ask for no further one. `MaxActivity`: activities after which no maintenance begins. `Slots`,
`Clients`: lifecycles and callers of one id at a time. `MaxEvents`: length from which a lifecycle
appends no turn event of its own (a resume or a repair may still add the events it owes).
`MaxTrouble`: failures, crashes, cancellations, evictions, reloads and foreign writes, counted
together. `Jobs`, `Calls`: records ever started and calls at a time. `Limit` and `Budget` are the
configuration of the code. Everything the code itself counts (attempts, turns, steps, sequence
numbers) is bounded by these.

## 4. Proofs

About the pure function `reduce`, the two modules that follow first state, for any snapshot and any
event, what each of its arms returns (`ReduceCases`, which turns the nested choice into one case per
arm): `DshdReducerProofs` what an arm does to each field (the `...Fields` lemmas), `DshdNodeProofs`
that it keeps the types (`ReduceType`) and what each effect tells about the snapshot that asked for
it (`EffectsTell`, `ReduceMoves`, `WindsDown`).

**DshdReducerProofs** proves, for any set of attempts and any authorities, `TypeCorrect`,
`OfferStaysLatest`, `LabelStaysHonest`, `ClosedStaysClosed` and `ContextPromiseKept`. The
inductive invariant `IInv` is the conjunction of `TypeOK`, `OfferIsLatest` and `HonestLabel`
(`OfferIsLatest`, the connection between offer and generation on which the gate rests, is defined
in the proof module: the `reducer` run checks its consequence `KeepsContextPromise`).
Neither of the last two is inductive without the other: that a context is withdrawn with the label
needs to know that the label was true, and that `Stopped` holds no attempt needs the guards of
`Active`. Each step proof has one step per arm. `ClosedStaysClosed` and the refinement of the gate
follow from `IInv` and the same cases. Assumptions: `NoContextAssumption`, `AttemptsAssumption`.

**DshdNodeProofs** proves, for any capacity of the queue, any number of children, signals and
fences and any failing adapters, `TypeCorrect`, `SpawnsSafe`, `RightChildSafe`, `AcksSafe` and
`ReducerImplemented`. None of the properties is inductive, because each speaks of what is read
long after it was sent. `IInv` therefore says what every message still claims, and that the claim
stays true however late it is read: an event in the queue (`GoodEvent`: a `Spawned` names an
attempt that has a child, a `ReadyUrl` one whose URL is kept, a `BootstrapSucceeded` the child of
its attempt), an effect not yet carried out (`GoodEffect`: a spawn belongs to a node that is still
active, a stop to one that is not) and a thread (`GoodTask`). That effects keep their claim rests
on the coordinator carrying them all out before the next event. `Stops` comes on top: a stop starts
after the last spawn, one thread at a time waits for a child, and an attempt may be reported as
stopped (`Acked`) only when no map entry and no waiting thread is left for it; it holds because
`stop` keeps the lock on the map until the child is reaped. `ReducerImplemented` needs only that one
action writes the snapshot and that the queue holds events the reducer knows, so the theorems
about the reducer hold of the daemon. Assumptions: `BoundsAssumption`, `AuthorityAssumption`,
`NoContextAssumption`.

**DshdBootProofs** proves, for any daemons, node ids and any number of starts, kills and power
losses, `TypeCorrect`, `AcknowledgedSafe`, `ServingSafe` and `SomebodyWins`. `IInv` adds to the
types and `AcknowledgedIsForGood` what each step of `main` relies on: which file it has found or
written (`Stored`, `Written`), that the guard and the serving daemon name each other (`Guarded`),
and that a daemon of the volume's node is refused only while another that has not lost exists
(`Contended`), which must speak of the daemons on the way to a refusal as well. Assumptions:
`BoundsAssumption`, `FilesAssumption`.

**DshToolCallsProofs** proves, for any number of calls, any pool size and any faults, `TypeCorrect`,
`LogInOrder`, `CancellationIsReported`, `FailureIsReported`, `NothingLeftRunning`, from these four
`StepStaysHonest`, `ExclusiveIsBarrier` and `LedgerKept`. The properties are far from inductive: an
order of sequence numbers says nothing of what has been announced. `IInv` adds `Books` (the log
holds exactly calls `1..started` and results `1..committed`, each stamped no later than `seq`),
`Stages` (what stage, slot and `ran` of a call say of each other), `Accounted` (a started call is
committed, in a slot, or in flight, unless something failed) and `Awaits` (what is true at each
await). The barrier has an invariant of its own, `Admission`, on top of `IInv`: a call is prepared
only when the pool has room for it, and the group of an exclusive call is that call alone and begins
when all before it is recorded. Assumptions: `NAssumption`, `MaxParallelAssumption`,
`FaultsAssumption`.

**DshAgentProofs** proves, for any number of messages and any bounds, `TypeCorrect`,
`PromptsKeepTheirTurns`, `TraceKept`, `CancelsAreRecorded`, `TeardownSeesIdle` and, under the
assumption `~GapSends`, `NothingStaysBehind`. `IInv` joins `TypeOK` and `OwnTurn` with `Shape`
(at which program points a turn or step is open, and that the driver's counters are the log's),
`Unsettled` (an agent that is not idle has an activity that is neither settled nor retiring,
which is why `whenIdle` may trust what it reads) and `Queued` (prompts still queued are younger
than those claimed, and a turn that has just opened has claimed nothing). `Swept` (a driver that
ended by itself retires on an empty inbox) is a separate invariant, because it is exactly what
the gap of the `lost_wake` run breaks. Type correctness is proved part by part, one lemma per
part, so that each leaf sees few variables. Assumption: `BoundsAssumption`.

**DshJobsProofs** proves, for any number of jobs, owners and overlapping calls, any limit and any
budget, `TypeCorrect`, `CompletionsAreHeard`, `OwnersTakeTheirJobs` and `RecordsAreKept`.
`CompletionIsHeard` is not inductive: at the settlement it depends on what happened before.
`Claims` says that a report claimed before the end was claimed by a kill whose owner knows (or by
a teardown, when nobody is left to tell), `Callers` that a counted waiter belongs to the owner or
the job to nobody, and the types that a wait is counted exactly while it lasts. `Records` ties
status, announcement, registration and work together, and `Scopes` says that a scope with a job in
it has the cleanup that will drain it, and that a draining scope takes no more; from these follows
that nothing outlives its owner. Most steps move no record: `UnmovedKeeps`, `NewsKept`,
`DriverKeeps` and `TeardownFacts` state once what such steps keep. For the refinement each action
is shown, record by record, to be a step of `DshJobRecord` or a stutter (`RecordStep`); the only
fact it needs beyond the types is that a live record has not been announced. Assumptions:
`NobodyAssumption`, `LimitsAssumption`.

**DshPersistenceProofs** proves, for any number of lifecycles and callers and any mishaps,
`TypeCorrect`, `NothingStranded` and `EntryHeldOnce`. The invariant of `DshPersistence` is built in
layers, each inductive together with those before it; this module holds the first two.

The first, `Lives` (`LifecyclesServed`), is about lifecycles and their write controllers.
`NotStranded` is not inductive: whether queued events will move depends on what the controller's
fields mean together. `WriterGood` says so (a deadline is armed only over queued events and outside
a flush, a flush that waits for a write has one, a continuation belongs to the barrier it will
move), and `Stands` is what remains of the promise between flushes. The first part of the module is
therefore about the controller alone: what each method of `SessionWriteBehind` returns and that it
keeps these facts, and that the numbers queued and in flight remain the last ones handed over, in
order (`Numbered`). A lifecycle may be released only when its queue is empty, and it is released by
an operation that runs long after it was queued; so `Serves` says of every kind of operation on the
chain what it still finds when it runs, and `Unique` that a lifecycle has at most one there. Two
lemmas, `SlotStep` and `OthersStep`, say what a step of one lifecycle and a step of a caller have to
show.

The second, `Pool` (with `Stopped`: a process that is down has no callers), is about the one entry
of the pool. A caller that commits keeps, across awaits, a reference to an entry that others may
reload, take or evict. `HoldersGood` says what such a reference may still claim: one caller at most
holds the entry, and the phase tells how. `CommitsGood` says what the queued commit of a caller is of:
the entry, or, once that is gone, a log that has since grown, which the check of the cursor notices.
`LoadsGood`, `ChecksGood` and `WritesGood` say the same of the other operations on the chain, and
`LogStored` that whoever has read the log has found one.

**DshPersistenceLogProofs** proves, from further layers, `OneOwner`, `LogOfTheLive`,
`DurableLogKept` and `InspectionsCover`.

* `InTurn` and `Owners`: at most one lifecycle is in the store, none retires while one is, and
  whoever waits for a retirement waits for the one under way. A lifecycle that is initialised owns
  the cursor; one that ended and that nobody retires any more was refused, or has work or a stored log
  by which a later one of the same id is refused (`EndedGood`, `CreatedGood`). Without the last a new
  lifecycle could take the cursor over while the tail of an earlier one waits for a retry.
* `Log`: the file is what the events of the cursor's owner begin with, what the owner has queued is
  exactly what the file lacks, and every operation on the chain stores the next part of it. The
  sequence numbers of `Numbered` become positions in the log here. `LogOfTheLive` follows.
* `Sound`: whatever may still be stored (the events of a lifecycle, a prepared session, the closers
  of a repair) keeps the turns of the log, and a repair that has begun knows the file: nobody writes
  it between its two synced steps. A crash there leaves the complete frames, to which every later
  load adds the same closers; the records that only the torn frame held are lost with it, and no
  property speaks of them (`DshDurableLog` promises the complete frames). With it every step is a
  step of `DshDurableLog` or a stutter (`StepGrows`), one lemma per kind of step.
* `Asked`: what was in the file when an inspection began is in the file, and in the events of
  whoever is in the store. `InspectionsCover` follows.

Most steps touch neither file nor cursor: such a step is `Quietly` one of callers or a lifecycle
`Working`, and each layer shows once that these keep it. Assumptions of both modules:
`SlotsAssumption`, `BoundsAssumption`.

Every safety property of the runs that are expected to pass is stated by a theorem. Only
model-checked: liveness (`Answered` and its like in the other runs), which is outside the
prover's reach together with ENABLED. No module uses a RECURSIVE operator. No proof speaks of what
a recursive definition computes for every input: that is induction over data, which the provers
cannot do; the models need none.

## 5. What is left out

* *DshdNode*: length of the backoff, stderr, the bytes of the exchange, `subscribe` and its
  watchers. `docs/dshd-service-design.md:294` gives a start 60 seconds; the code has no such timer,
  so a child may wait for ever without a URL: a hazard with no property, since what is missing is a
  whole mechanism. The deadlock of a coordinator with a full queue at the moment it sends to itself
  is in the model (a send waits), but takes 64 waiting events in the code and only two in the model;
  it is a listed hazard, and `Recovers` excepts it (`Jammed`).
* *DshdBoot*: I/O errors other than a refusal; that generated storage ids are distinct is assumed.
  `persist(STOPPED)` has no caller. A racing daemon may serve an identity whose creator has not
  synced the directory yet; only acknowledged identities are promised for good.
* *DshToolCalls*: arguments, contents, additional contexts. A wrapper may dispatch its call any
  number of times, but answers with its last dispatch or with an answer of its own, and
  does not answer while its body runs. The microtask between the append of a result and the next
  check of the slots is merged.
* *DshAgent*: `prepend` and `replace` of pending messages, appends that fail, composition of
  requests, assembly of chunks, retries of a request within a step. A cancellation with
  `keepInbox` inside an observer of `turn/end` aborts a controller that is replaced at once; it is
  a listed hazard without a property, because no document says what should happen.
* *DshPersistence*: other ids (each has its own chain; they meet only in the pool's limit, `Evict`),
  the uncompressed encoding and the SQLite backend, the public `create`, `append`, `load`,
  `readFrom` and `list` of the service, borrow pins. `createAgent` with an id of the caller's that
  has a stored log, or whose earlier lifecycle still retires, is not an action: the webhook,
  headless and fork callers mint a fresh id, and for the rest the code rejects the creation as a
  collision. Between the refusal and the end of that session an inspection shows its own events, so
  `InspectionIsFresh` says nothing of it. The truncation of a torn log and its restoration are one
  step when a live session is adopted over it, and adoption has no read failure: only a crash tears
  a log, a crash ends every lifecycle, and whoever prepares the id next repairs it first; a failure
  during a reload's adoption would be a second mishap. An abort in the microtasks between the end of
  the operation before a commit and its start counts as one after its start. Tool and step closers
  are represented by the closer of the turn. A rollback that fails after a failed append, which
  leaves a frame the cursor does not cover, is not modelled. A lifecycle whose initialisation failed
  stays failed and its flushes reject, as in the code, which never retries it. A foreign writer acts
  only while nobody here holds the id, as the one-writer rule of the store says. Checkpoints,
  deadlines and ends of sessions come between macrotasks.
* *DshJobs*: output and labels, `list`, `get` and the observers of the visible set (they keep no
  state of their own), controllers that come and go, a starter that throws, sessions that reuse the
  id of an owner. What a torn-down owner would do with a notice is left out: disposal has cleared
  its inbox.
* The components listed as not modelled in `PROJECT.json`, each with its reason.

## 6. Plan

Done: the dshd core (`DshdState`, `DshdContextGate`, `DshdReducer`, `DshdNode`, `DshdBoot`), the
tool-call scheduler (`DshToolLedger`, `DshToolCalls`), the driver (`DshSessionTrace`, `DshAgent`),
background jobs (`DshJobRecord`, `DshJobs`) and persistence of one session id
(`DshDurableLog`, `DshWriteBehind`, `DshPersistence`), all with proofs of every safety property
their runs check.

Next, as far as each adds a question the existing runs do not ask: `DshLifecycle` (teardown of agents
in one registry, composed with `DshAgent`), `DshdWatch` (`subscribe` against `publish`) and
continuation of subagents.
