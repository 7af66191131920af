# Formal models of the nano plugin

TLA+ models, TLC configurations and TLAPS proofs for the `nano` plugin of c8ctl:
a command-line program that hires coding agents as job workers of a BPMN engine,
runs a fleet of such workers under a supervisor daemon, and manages local engine
clusters. Paths below are relative to the repository's root; `plugin` stands for
`c8ctl-plugin.js` and `supervisor/` for `supervisor/src/`.

## 1. The system

| Component | Code | State | Operations | What makes it correct |
|---|---|---|---|---|
| Worker runtime | `supervisor/{registry,activation,parking,dispatch,supervisor,adapters}.ts` | capability map, active counts, drain latch, parking lot, dispatch fibers | tick, promote, long-poll round, claim, dispatch, release, retype | slots are released exactly once on every path; an activation is dispatched once; a waiting job is leased some time |
| Worker shell | `plugin` `workAgent` | `activeJobs`, settles in flight, stop mode | start and end of a run, settle, drain (SIGUSR2), force abort (SIGTERM) | a drain interrupts no job; an abort yields every job the process holds; both end |
| Lock heartbeat | `supervisor/dispatch.ts` | time of the last success | winner extend, beat, give up | the agent is stopped soon after its lock is lost, and not for one slow call |
| Supervisor daemon | `plugin` `runSupervisorDaemon` | workers map, children, timers, operation queue, reload, shutdown | add, remove, drain-remove, restart, reload, stop, child exits, restarts | one live child per worker, none untracked; nobody is left stopped; a stop ends |
| Agentic presence | `supervisor/{agentic,ownership,presence,emit}.ts`, `agentic-endpoint.mjs` | registry of instances and claims, announced set, connection | register, heartbeat, claim, release, reconnect, resync | what the hub shows converges to what runs |
| Reconcile | `supervisor/reconcile.ts`, `plugin` auto job types | deployed processes seen, cache | periodic rewrite of the served types | new processes are served, gone ones are not |
| Settlement | `plugin` 4100–4363 | settles in flight, settlement-pending markers | mark, clear, prune | a live settle is never forgotten; memory is bounded |
| gh token cache | `plugin` 5098–5735 | token, generation, refresh in flight | sync and async refresh, invalidate | an older read never replaces a newer one |
| Liveness monitor | `plugin` 2535–2755 | last output, deadlines | output, idle kill, total kill | a talking agent is not killed, a silent one is |
| Work buffer, relay | `work-buffer.mjs`, `work-relay.mjs`, `work-channel.mjs` | bytes buffered, sessions | push, drain, produce, close | bounded memory, ordered closes |
| Log ring | `supervisor-log-ring.mjs` | lines, files, cursors | append, rotate, tail | nothing tailed twice or lost but by rotation |
| Agent instances | `agent-instance.mjs` | instance, elements, transcript | create, update, complete | the engine's view follows the run |
| Checkpoint, resume | `agent-checkpoint.mjs`, `agent-resume.mjs` | checkpoint commit, manifest | save, yield, resume | work is durable before the job is given up |
| Capture | `plugin` 8648–10247 | child, output, session, request table | run, steer, abort, kill, resolve, nudge | one answer per run, and it is earned |
| Run handler | `plugin` 11521–13900 | stage, directories, sessions, job records | prompt to settle, abort gates, cleanup | every exit cleans up; an aborted run does not settle |
| Hub link | `plugin` agentic discovery, `agentic-endpoint.mjs` | memo, cache, client | discover, connect, refresh, reconnect | a worker finds a hub that came up late |
| Git workspaces | `plugin` 4847–5098, 5745–8306 | clone, branch, push | provision, checkpoint, finalize | no lost commit, retry once after an auth failure |
| Namespaces | `plugin` 8306–8648 | directories, owners | claim, heartbeat, reclaim | no live worker's directory is reclaimed |
| Workforce | `plugin` 17466–18433 | manifest, fleet | start, stop, reload | convergent: a second start changes nothing |
| Cluster, profiles, update, ProcessOS, OS service | the rest of `plugin` | pid files, settings | CLI commands | sequential; file and process I/O |

How they interact: the daemon spawns workers and talks to them by signals
(SIGUSR2 drain, SIGTERM abort, SIGKILL) and by files the worker publishes. A worker's
shell builds the runtime, which leases jobs from the engine over HTTP long-polls,
renews their locks and calls back into the shell to run one. The agentic connection
is a projection of the runtime's claims. Several client processes send requests to
the daemon's socket at once.

Where the difficulty is: fibers and promises interleave at every `await`; an
interrupted fiber returns its slot before the promise it started has unwound;
locks are lost while a settlement is under way; signals arrive twice or before their
handlers exist; the rolling reload runs beside the operation queue; the daemon can be
killed. `PROJECT.json` lists the hazards at their lines.

## 2. Modules

| Module | What it models | Code |
|---|---|---|
| `WorkerRuntime` | one `nano work` process and the engine's view of its jobs | `supervisor/`, `plugin` `workAgent` |
| `LockHeartbeat` | the clock of one dispatched job | `supervisor/dispatch.ts` |
| `JobRun` | the run handler of a job and the records of it, over overlapping activations | `plugin` `runner.run`, settlement seam |
| `AgentCapture` | one agent process, its monitor, the nudge and the verdict | `plugin` 2535–2755, 8648–10247 |
| `GitWork` | the clone, the branch, what the agent does to it, finalizing | `plugin` `provisionRepo`, `finalizeGit` |
| `WipCheckpoint` | snapshots of a workspace on the remote, over activations and elements | `agent-checkpoint.mjs`, `setupWorkspaceCheckpoints` |
| `DurableWork` | abstract: saved work stays recoverable while the task is open | what the comments of `agent-checkpoint.mjs` promise |
| `RunNamespace` | run directories on disk, markers, reap and reclaim | `plugin` 8306–8648 |
| `LiveTerminal` | the live terminal of a job and its steering | `work-relay.mjs`, `supervisor/presence.ts` |
| `LogRing` | the rotating log of a supervised worker | `supervisor-log-ring.mjs`, `startWorker` |
| `AgentInstance` | the durable transcript of a job | `agent-instance.mjs` |
| `GhToken` | the cached gh token | `plugin` 5098–5735 |
| `AgenticPresence` | instances and claims, their projection, the hub's view | `supervisor/{agentic,ownership,presence,emit}.ts` |
| `HubLink` | how a worker finds the hub | `plugin` agentic discovery, `agentic-endpoint.mjs` |
| `SupervisorDaemon` | the daemon and its worker processes | `plugin` `runSupervisorDaemon` |
| `MCJobSteps` | one job from its lock to its log | composes the six job modules with `LockHeartbeat` |
| `MCHostServices` | what a host does beside its jobs | composes `AgenticPresence`, `HubLink`, `GhToken`, `AgentInstance` |
| `MCWorkerRuntime`, `MCSupervisorDaemon`, `MCWipCheckpoint` | values of the constants, the refinement mapping | |
| `WorkerRuntimeProofs`, `SupervisorDaemonProofs`, `JobRunProofs`, `WorkspaceProofs`, `CaptureProofs`, `JobStepsProofs`, `HostServicesProofs`, `WipCheckpointProofs` | theorems (section 5) | |

How the models meet. Every module models what the others do to it as actions of its own.
What `WorkerRuntime` calls `LockLost` is the end of `LockHeartbeat`'s run (`Superseded` or
`RetryUnlessLapsed`); `LockLapses` may happen at any time because `LockHeartbeat` shows the
agent can outlive the lock. A fiber of `WorkerRuntime` in its run is an activation of
`JobRun`, whose `Abort` and `LoseLease` are the runtime's interruption. `AgentEnds` of `JobRun` stands
for a whole behaviour of `AgentCapture`, `Finalize` for one of `GitWork`, `ActivateProducer` and
`Drain` for `AgentInstance`, `FlushFailed` for the end of a run of `WipCheckpoint`, and its directories are those
of `RunNamespace`. What `SupervisorDaemon` sees of a worker (`Boot`, `TakeJob`, `JobEnds`,
`DrainDone`, `AbortDone`) is the outside of `WorkerRuntime`: `DrainDone` requires an idle
worker, as `DrainInterruptsNothing` proves; its fairness is `DrainEnds`, that is, an engine that answers. `AbortDone` has none, since `AbortEnds` needs such an
engine as well: there the daemon goes on to SIGKILL. `RunBegins` and `RunEnds` of `AgenticPresence` are `StartRun` and `RunEnds`
or `Cut` of `WorkerRuntime`, seen from `withOwnedJob`.

`MCJobSteps` and `MCHostServices` put modules side by side that share no variable. A behaviour
moves one of them and leaves the others in an initial state, so a run explores the sum of their
state spaces rather than the product, which would show no more: no property relates two of them.

### WorkerRuntime

`types`, `active`, `quiescing` are the registry (`registry.ts`); `loop`, `targets`,
`reply`, `batch`, `parked` the activation loop (`supervisor.ts` `tick`, `activation.ts`,
`parking.ts`); `phase`, `task`, `slot` the dispatch fibers (`dispatch.ts`); `activeJobs`
is the shell's map; `unwinding` the runs whose fiber was interrupted but whose promise
has not finished (`RawJobRunner` cannot stop a promise, it only aborts it); `lock` and
`wire` the engine and the requests under way. A dispatch whose winner's extend dies by a defect, or is
interrupted, never gives its slot back, since the finalizer that releases it guards only what follows the extend: `leaked` counts these.
A run whose setup fails is `shedding`: its record is gone while the fail it sent, which the handler returns without awaiting it, is
unanswered; the slot comes back with the answer.

One tick of the code is several actions, because it waits in between: `TickRead`
computes the batch sizes, `TickPromote` takes a parked entry, otherwise `StartPolls`
opens one long-poll per type, `PollWins` ends the round at the first non-empty answer
and drops the others, and `DispatchOne` claims and forks for each job of the batch.
A lease token is a member of a finite set and is reused when nobody holds it any more:
this is exact for a code that only compares tokens for equality. Jobs outside `Fenced`
carry no token and compare equal (`SameLease`), as in `recordJobEnd`. The `--auto` rewrite is allowed
while draining, because the code does not stop that loop on a drain.

### LockHeartbeat

`lockUntil` and `owner` are the engine's; `lastOk` is `lastOkAtRef`. An extend is sent,
taken or denied or failed at the engine, then answered; one that the fiber gives up on
may still reach the engine (`stray`). Timers fire on time; all delay is in the engine and the network.

### JobRun

`run[r].pc` is the place of activation `r` in `runner.run`, one stage per gate: every stage looks at the
abort signal where the code does and nowhere else. `disk` holds the run directory, `liveRunDirs`,
`liveRunIds`, the marker file of the job key and the pids in it; `table` is `activeJobs`,
`settlementPendingJobs` and `lastActivationByKey`, all of one job key;
`engine` is who holds the job, and which fails of setups are unanswered: these are sent without being awaited (`Fails`), so the last `finally` block
drops the records at once, no `catch` sees a refusal, and the answer comes later (`ShedAnswered`). A settle has the code's three outcomes (taken, refused, unknown). The TTLs and
caps of the records are one action, `Prune`, that may drop them at any time; the settle marks, which only delay that,
need no state then.

### AgentCapture

`agent` is the process with its children, `pipe` what it wrote and nobody read yet, `cap` the capture
(ACP request table, post-turn grace, total timeout), `mon` the idle monitor with its CPU samples, `job` the
turns of the job. `obs` is what really happened since the monitor last looked: it states what `IdleKillIsFair`
means and influences nothing. Ticks are units of the configured windows; every process has a CPU clock of its own that advances every `Resolution` ticks of CPU time
(`Floor`), and the sampler adds up what they show: processes that take turns, each for less than that, look flat. There are the agent and one child at a time.

### GitWork

`req` is the envelope (base, baseRef, branch), `plan` what `provisionRepo` decides from it, `ws` the clone,
`remote` the branches, `out` the report of `finalizeGit`. A tip is the set of commits that it has beyond the clone.
The agent may commit, switch, detach, reset and push; every git or gh call may fail.

### WipCheckpoint and DurableWork

A unit of work is an edit; a snapshot is the set of units it carries and the run that took it. Each write of a ref is a
compare-and-swap on what the writer last believed; the answer may be lost. `ck` is the checkpoint chain of a run, which
goes on beside the handler (`pc`). `Finish`, `Flush`, `Preserve`, `PushRecovery`, `SettleMeta`, `VerifyOwnership`,
`WritePointer` are the steps of a stopping run, `Deadline` its time limit, `Condemn` and `Reclaim` the orphan sweep of
another job, which judges first and deletes later. `DurableWork` has two variables: the work that anything on the remote
holds, and whether the task is still open, which `MCWipCheckpoint` maps to the process not being finished; `KeepsWork` is
the abstract specification. It is promised of refs younger than their TTL (`MaxAge` 1): an older one may be swept while its process
goes on, which the code means to do.

### RunNamespace, LogRing, LiveTerminal

A namespace of `RunNamespace` is one worker's; its owner record, marker and lock are files whose writes are separate
steps, so a crash may fall between any two. Several activations of one job may run in a worker, an older one that lost its lock beside a newer one; they share the marker,
which is named by the job, and whichever ends first removes it. The marker and the pids in it are written as well as can be: each write may fail, and the harness is spawned all the same.
A nudge spawns a second harness. `LogRing` gives each incarnation of a child a ring of its own on the same
file name, opened at its spawn and closed when its pipes end; a file is the numbers of the chunks in it and its size, and a ring acts on the size it
believes. Every chunk that is received gets a number, those too that a failing operation or a closed descriptor swallows (`hist.lost`). What the bytes become that are
written to a descriptor number which was meanwhile given to another file is left out; that the ring then counts them is not. `LiveTerminal` has a session per job and one steer sink per
worker; a frame with no open socket is lost, as the emit client does not queue it.

### AgentInstance, GhToken, HubLink, AgenticPresence

In `AgentInstance`, an engine call that timed out stays in `calls` or `late` and may still take effect; `script` remembers
which updates were recorded, lost to a cap, or appended twice. The replay of what piled up before the mint is the function `Trail` over the buffer. In `GhToken` a token is the version of the credential
it was read from, and `refresh.overtaken` stands for a generation number that no longer matches. `HubLink` has the hubs that
listen, what the start resolved, the factory's memo and the client. In `AgenticPresence`, `owned` and
`claims` are the ownership registry, `known` is `presenceKnownRef`, `handle` says whether `handleRef` holds a handle;
`shadow` is the emit client's record of what it was given, which it replays on every socket it opens, and `hub` what the hub
shows over the current socket. The client is a library: only what `agentic-endpoint.mjs` relies on is modelled.

### SupervisorDaemon

A record of `Obj` is a worker object of the daemon (one per `add`, two of them may have the
same name one after the other); `fleet` is the workers map. `queue`, `step`, `todo`,
`cur` are `serializeOp` and the running operation; the rolling reload (`rphase` and
its companions) is a coroutine of its own that uses the queue only for its respawn;
`wait` is the set of `waitForChildExit` calls. `spawn()` may fail with an error event
only. A signal reaches a process without handlers, or whose `process.once` handler for it is
used up, as its default action.

## 3. Runs

| Run | Instance | Distinct states | Checks |
|---|---|---|---|
| `auto` | one worker of two slots, two types, two fenced jobs, 3 tokens, 2 fibers, rewrites of the types, one defect | 3.1 million | `TypeOK`, `SlotsAccounted`, `CarriedOnce`, `HolderRecorded`, `DrainInterruptsNothing`, `AbortYieldsHolders` |
| `progress` | one worker of one slot, two types, two jobs, 2 tokens, fair | 77 thousand | `DrainEnds`, `AbortEnds`, `ReadyJobIsLeased` |
| `fleet` | two names, three records (one name is removed and added again), 3 children, 2 requests | 760 thousand | `ChildrenAccounted`, `StoppingIsAttended`, `ExitLeavesNone` |
| `live` | one worker, 2 children, 2 requests, fair | 102 thousand | `ReloadEnds`, `ShutdownEnds`, `ForcedStopEnds`, `OrphansReaped` |
| `retry` | two activations, of one element or of two, one edit each, one fault, an orphan sweep | 5.4 million | `PushesKeep`, `KeepsWork` |
| `jobs` | every component of a job, each on its own instance (below) | 4.1 million | `JobTypes`, `OverrunBounded`, `BlipTolerated`, `NothingLost`, `OffTheBase`, `GhostIsNewest`, `LeavesNothing`, `AbortYields`, `IdleKillIsFair`, `OkIsEarned`, `NoFalseCompletion`, `CloseIsTerminal`, `NeverUnderUse`, `LogIsATail` |
| `host` | presence, hub link, token and transcript, fair | 207 thousand | `HostTypes`, `ClaimsAreRuns`, `InstanceIsShown`, `ColdStartHeals`, `NoResurrection`, `RotationIsSeen`, `Conservation`, `HandsBack` |
| `untracked` | as `live`, without fairness | | violates `ChildrenTracked` |
| `pointer` | one activation, no faults | | violates `PointerYieldsToOthers` |
| `marker` | two activations of `JobRun` | | violates `HarnessIsMarked` |
| `steer` | two jobs of `LiveTerminal` | | violates `SinkDiesWithSession` |
| `reload` | two rotations, two troubles of `GhToken`, fair | | violates `ReloadTakes` |

What the properties say, beside the types:

* A worker's slots: the registry counts the slots held, and those that an extend took with it (`SlotsAccounted`); an activation is in one place
  (`CarriedOnce`); the run that holds the lease is the one on record (`HolderRecorded`), so that an abort yields it
  (`AbortYieldsHolders`), but for a run that failed in its setup and whose own fail is under way; the exit of a drain finds nothing running (`DrainInterruptsNothing`).
* A job's end: an aborted run does not settle unless the agent had already succeeded (`AbortYields`); a handler leaves
  nothing behind however it ends, but a result directory and a transcript producer on the ways out that forget them, and on no other (`LeavesNothing`); a settlement-pending row never speaks of an older
  activation than the newest (`GhostIsNewest`); success is reported for an answer that was given (`OkIsEarned`,
  `NoFalseCompletion`); an agent one of whose processes worked all along is not killed as idle (`IdleKillIsFair`).
* Its work: nothing committed is lost when finalizing reports success (`NothingLost`), nothing lands on the base
  branch (`OffTheBase`), a checkpoint push keeps what the ref held (`PushesKeep`), and what was saved stays recoverable
  until the process is finished (`KeepsWork`, the abstract specification `DurableWork`).
* Its lock: the agent outlives a lost lock for less than two timeouts (`OverrunBounded`), and in a window of three intervals a beat that fails before its deadline
  ends no run (`BlipTolerated`).
* Its traces: nothing follows a close marker (`CloseIsTerminal`); a directory that a live worker's activation uses is not removed, nor one of
  a harness that survived its worker while its marker stands and nobody else has written to it (`NeverUnderUse`); the log ends with the newest output, and what it lacks was lost to an operation that failed (`LogIsATail`); a transcript update is recorded, counted as lost, or still
  on its way, and never twice but by a late answer (`Conservation`), and its end is reached (`HandsBack`).
* The host: the hub shows no job that does not run (`ClaimsAreRuns`) and in the end every instance
  (`InstanceIsShown`); a hub that came up late is found, unless a client was built for another place before (`ColdStartHeals`); a new gh token is not overwritten by an older
  one (`NoResurrection`) and is adopted some time (`RotationIsSeen`).
* The daemon: every live child belongs to a record, and every record to at most one (`ChildrenAccounted`); a record that is
  stopping has someone waiting for it (`StoppingIsAttended`); a daemon exits with no child
  (`ExitLeavesNone`), and its operations end (the `live` run).

Bounds. Two jobs of two types are the least for which a round has a winner and a loser and the
parking lot an order; three tokens allow a job to be leased a second time while an old run of
it unwinds and the other job is leased too; two fibers fill the two slots. In the daemon,
three children let a worker's old, current and next child exist at once; `MaxRequests` bounds the clients only.
The `jobs` run: a heartbeat of interval 2, timeout 2 and window 6 (`workAgent` takes a third of the window for both) over a clock of 24, four full windows; one commit
and one fault of git; two overlapping activations of a handler, the least for which one is stale; a monitor with an idle window of
one tick, a probe of one, a CPU clock of two and a hard cap of three: an idle window and the two flat probes that the clock takes just fit, so that the monitor kills on its CPU samples before the cap does, and one frame that answers nothing in each job (a nudged turn starts the capture afresh, so only a turn before it needs one); two jobs with one frame and one steering line each;
three workers, the least for which two reclaim a third, with two activations begun on the host, in one worker or in two;
two incarnations of a child, and a log of four chunks whose cap of two is shorter than its longest chunk, with two failing operations.
The `host` run: two creates of a transcript, so that one may be retired, buffers of one, so that every cap is met, and three updates;
one rotation against one failing read; four changes of the place of the hub. `retry` has one edit per activation because a second one only adds to the same sets; the
sets of units, not their number, tell the snapshots apart. Every bound of an environment (edits, faults, requests, changes) is in a guard and is named `Max...`.

Deadlock is not checked (`CHECK_DEADLOCK FALSE`): worker, daemon, handler and agent all end, which is
what their stopping is for; that they end only when they should is what the liveness
properties say. Symmetry is used on tokens and fibers (`auto`), on children (`fleet`, `untracked`) and on workers (`jobs`), never in a run
with a liveness property.

Fairness. `WorkerRuntime`: weak fairness of what the event loop does by itself
(timers, fibers, promises of a live process), agents that finish or fail in their setup, the winner's extend, whose deadline `dispatch` sets; strong fairness of `Activate` alone, since a poll that is repeated while a
job is ready again and again will some time coincide with it. Nothing is assumed of signals,
lapses, losses, rewrites or other hosts, nor of the answers to settles and yields, for which the code sets no deadline: `DrainEnds`, `AbortEnds` and `ReadyJobIsLeased`
have that as a premise, `EngineAnswers`. `progress` is an instance without defects (`MaxDefects` 0): one takes the only slot there is. `SupervisorDaemon`: weak fairness of the event
loop, of the delivery of signals and exits, and of timers; a booting worker comes
up or exits. Jobs are assumed to end only where `JobsEnd` is a hypothesis
(`ReloadEnds`, `ShutdownEnds`), since the code waits for them without limit; a force stop must not need it.
`AgenticPresence`: the projection's cadence and the establishing fiber; sockets may stay down or
flap for ever, and jobs may run for ever. `AgentInstance`: the bounded timers of the drain (`RetireCreate`, `FinalCreate`, `FinalSettled`, `Seal`, `Drain`, `Terminate`) and not the engine, which may never answer.
`GhToken`: the refresh timer, the age of the cache and the reads under way; not the caller that recovers. `HubLink`: the start, the connect loop, the refresh and the opening of a socket to a hub that listens; the
hub may move `MaxChanges` times, and `ColdStartHeals` asks only what happens when it stays.

The other modules have safety properties only, and their specifications no fairness.

## 4. What the code does otherwise

Five runs find the code to do something else than one of its own comments or tests says.

* `untracked`. A drain-remove sets `removeOnExit`, which nothing clears. When a
  restart of the same worker is already queued, or is queued before the drain ends, it stops the child,
  the child's exit deletes the record, and `restartWorker` then starts a child for the
  deleted record. Status does not list it and no operation reaches it.
* `pointer`. A run that is stopped by force publishes where its work was recovered, unless the shared slot names
  another run's ref. The test for that compares with the recovery ref only, so the pointer to the WIP ref that this very run wrote with
  its last checkpoint counts as somebody else's. The work is not lost (`KeepsWork` holds), but the slot names the older snapshot.
* `marker`. The harness marker is a file named by the job key, and two activations of a job on one host share
  it. The `finally` of the older one removes the marker the newer one wrote before its harness.
* `steer`. The handler of an ACP agent's output does not ask whether the capture has settled: an answer to
  `session/new` that is read after an abort attaches the steering again, after everything that would detach it has run.
* `reload`. A reload by SIGUSR1 that has read the new token is dropped as superseded when a blocking recovery
  overlaps it, also if the recovery failed to read and wrote the old token back. The reload reports success.

## 5. Proofs

The provers check these for every value of the constants that the named assumptions allow. Each module states an inductive invariant,
one lemma per action that preserves it, and the theorems that follow.

`WorkerRuntimeProofs`, for every set of workers, capacities, types, jobs, tokens and fibers
(`RuntimeAssumption`: workers and fibers finite, capacities positive): `TypeCorrect`, `CapacityAccounting`,
`DrainIsGraceful`. The inductive invariant is `TypeOK /\ LiveFibers /\ SlotsAccounted`, where what an extend takes with it when it dies moves from `HeldBy` to `leaked`. `SlotsAccounted` alone is not inductive:
a fiber that is not idle but holds no slot could end and decrement the count of nobody, so `LiveFibers`
(every live fiber holds a slot of a worker and carries an activation) is carried along. The steps
that fork and end a fiber add and remove one element of `HeldBy(w)`; two lemmas
(`ClaimInv`, `EndInv`) do that once and every action cites them. The drain theorem is the
reason for the accounting: `DrainExit` looks only at the counts. `OneCarrier`, `HolderIsRecorded`, `AbortFindsHolders` need also that a
token is none of the other states of a lock (`TokenAssumption`). A run that ends drops the record of its own token; that this is not
the record of the run that holds the lease (or that this is a run which has given the job back itself) rests on every activation having one carrier, and `CarriedOnce` is inductive only with
`CutApart`: an interrupted run keeps its activation although no fiber carries it, and a later lease gets a token that nobody,
these runs included, still refers to.

`SupervisorDaemonProofs`, for any workers, records, child processes and requests (`DaemonAssumption`): `Accounted`, `Attended`, `ExitsLast`.
The three are proved together, by `DInv`. The dangerous step is a spawn: its record must have no live child. `DInv` says why, for each
of the places that spawn: a timer is armed only for a worker that is down, and is disarmed by whoever stops it (`TimersIdle`); a restart
has waited for every live child of its record, and nobody else takes the name meanwhile (`OpStands`); the reload has waited for the
child it drained, and that child is still the current one (`ReloadStands`); an added record never had a child (`Recorded`). That nobody is
left stopped when the reload gives up needs the other half of `ReloadStands`: if the child was swapped under it, another
operation or a drain-remove is in charge. `QueueStands` has one respawn queued at most, and nothing but that respawn behind the barrier of a shutdown,
so that no operation spawns once the fleet is being stopped (`StopStands`). `SpawnKeeps` and `CalmStep` do the work once
for the steps that spawn and for those after which fewer children are alive.

`JobRunProofs`, for every set of activations (`ActivationAssumption`: positive numbers, in the order of their start): `GhostsAreNewest`,
`HandlersCleanUp`, `AbortedRunsYield`. The invariant `JInv` has the types, `InTurn` (activations start in order), `Rows` (every row of the
shell's tables is about the newest activation), and for every activation `Owns` (which stage holds which resource:
the reason the `finally` finds everything to remove) and `Says` (what the handler may report after which abort). `LeftInv`, proved on top of it, follows what only some ways out give up, the
result directory and the producer: which result the run has by the time it still holds them. Each of the stages
changes one activation; `Beside` says what it leaves to the others, which is what makes the proof independent of their number.

`WorkspaceProofs`, for `JobSpec`, the specification of the `jobs` run. `CommitsAreAccountedFor` and `WorkLandsOffTheBase`, for any number of
commits and of failing git calls (`JobAssumption`), rest on `GitInv`. What the agent did is not known to the code, only what the reflog and the
refs show; so the invariant says that the reflog remembers every commit (`Remembered`), that remote-tracking refs show only what was published (`Published`), and that, from one
scan of `finalizeGit` to the next, the unpushed tip, the strays and the other branches together cover the reflog (`Covered`): this is what the last
word (`Reported`) is derived from. `OwnBranch` needs `SettingUp`, which ties the branch HEAD lands on to the refs the clone has.
`ReapersTakeTheUnused`, for any set of workers, any number of overlapping activations and any age: a marker that somebody
wrote to stands, its pids are of activations that wrote to it, and once the pid of a second turn is in it the first turn is over (`Written`, with `Placed` for the stages in which a harness may run); a directory that was preserved is no older than its
preservation (`Recent`), and its activation is over; and a sweep that has judged a worker dead stays right, since the dead start no job (`Judged`).

`CaptureProofs`, also for `JobSpec`. `KillsOnlyTheIdle`, for all windows and clock resolutions: what the monitor does not see is tied to what it
counts (`Watching`): before its baseline, silence and the rest of the timer fill the idle window; after it, the baseline is a sum of floored shares, one for each process (`Shared`): none falls behind its share while no child ends, and one that burns CPU in every tick
is ahead of it by the ticks gone (`Ahead`), so the sum must move within the resolution. `SuccessIsEarned` rests on `Answers` (which reply in the pipe ends
the main turn), `CutOffIsNotCompleted` on one stop reason being kept per turn (`Turns`). `LogsKeepTheNewest`, for any cap, chunks, incarnations and failing file operations: as long as
the rings do not overlap there is one open ring (`Sole`), which has the named file open or none, and knows its size as long as no operation failed (`Knows`); the two files hold
a sequence in which every chunk that is missing after the first is among the lost ones (`Gapless`), which a rotation, a write and a loss preserve, and the newest chunk
is in it or lost (`Newest`).

`JobStepsProofs` has the lock, for every interval, timeout and window of `HeartbeatAssumption`: `OverrunIsBounded` (the invariant relates
`lockUntil`, `lastOk`, `since` and `now` in each phase of the beat) and `OneBlipIsTolerated`
(under `2 * Interval + Timeout <= Window`, which `workAgent` meets with equality, a run lapses only at its second missed beat or at one that hung until its deadline). It then lifts the lock and the handler to the
composition: a step of `MCJobSteps` is a step of one part or leaves it as it is, so `JobsEndWithTheirLock`, `JobsTolerateOneBlip`, `GhostStaysNewest`, `HandlersLeaveNothing`
and `AbortedJobsYield` are stated for `JobSpec`. `TranscriptsEnd` is the live terminal, for any number of jobs: a transcript whose session is not closed has no close
marker (`Unmarked`), and a closed one is not appended to. `JobTypesHold` collects the type invariants of all parts.

`HostServicesProofs`: `ClaimsAreTrue` for the presence alone, by an invariant that relates the claims of the registry, of the
client's shadow and of the hub (the release of a run is dropped when there is no handle or no socket, so it must also say that
nothing was claimed there); `HostClaimsAreTrue`, `TokensOnlyAdvance`, `HostTypesHold` and `UpdatesAreConserved` for the composition, `HostSpec`.
`TokensOnlyAdvance`, for any number of rotations and failed reads, has `Fenced`: the cache is never newer than what gh has, and a
read waiting to be adopted that is older than the cache has been overtaken. `UpdatesAreConserved`, for any number of updates and creates and any caps: `Once` says that the pending message,
the queue, what was appended, lost or repeated are disjoint and hold what was handed over and is not buffered, and `Buffers` that the buffers hold nothing twice and nothing
once the instance has a key. A turn of the queue may carry several updates and a replay may overflow the queue, so the lemma is about every operator that changes the script, for
any set it accounts for, before it is about a step. The replay is a recursion over the buffer; that the function exists, and that it accounts for each
prefix, is shown of the least index for which it would not (`LeastOf`), which takes only that the naturals are well-founded. The proof found two
faults of the model that no run had shown: a terminal retry limit of zero, which the code rules out (`Math.max(1, ...)` at `agent-instance.mjs:2044`),
and a `CASE` of `CreateReturns` whose guards overlapped, so that its meaning was TLC's choice.

`WipCheckpointProofs`: `PushesLoseNothing`, for any number of activations, elements, edits and faults (`RunAssumption`). That a push replaces
a snapshot by a larger one is not inductive: it rests on what the pusher believes the ref to hold, which it learned by a fetch, a
read after a conflict, or an adoption from another element. The invariant `WInv` says that every snapshot of a living run that anybody knows (the refs,
and the beliefs `seen`, `prior`, `owned`, `expect` of every activation) is contained in that run's workspace and in the snapshot it is
pushing (`Covered`), and that what a run may replace is contained in what it pushes (`Local`).
`CheckpointsKeepWork` is the refinement: under `MaxAge < 2`, `WipCheckpoint` implements `DurableWork`. Refs shrink and vanish, so
the argument is that a recovery ref never holds anything its element's checkpoint or the branch does not (`RefsAnchored`): what a run
recovers it owned, and what it owned was once the checkpoint of its element, which only grows (`PushKeeps`) until a run that has
pushed all of it discards it (`Tidy`) or the process is finished and a sweep may come (`Sweeps`).

Only model-checked. Liveness under fairness (`DrainEnds`, `AbortEnds`, `ReadyJobIsLeased`, `ReloadEnds`, `ShutdownEnds`, `ForcedStopEnds`, `OrphansReaped`,
`InstanceIsShown`, `HandsBack`, `RotationIsSeen`, `ColdStartHeals`) is beyond what the prover does. Every other property of a passing run is a theorem. The runs that find a violation
have nothing to prove.

## 6. Observed, without a run

Consequences of the code that contradict no statement of it, or that are better seen in the code than in a run.

* The worker's signal handlers are `process.once`: a second SIGUSR2, from a stop during a reload, kills the
  jobs in flight. `SupervisorDaemon` has this as the default action of a used-up handler, and its properties hold in spite of it.
* A polling round keeps the types it started with: a process deployed meanwhile waits until one of the old types has a job, or for the next tick.
* The extend of a winner stands before the block whose finalizer releases the slot (`dispatch.ts` 156-172, 276) and catches typed errors only: a defect there, of which
  `dispatch.ts` 194-195 and 242 know, ends the dispatch with its slot claimed, until the worker polls nothing more. An interrupt there only happens when the process stops.
* The handler returns the fail of a failed setup without awaiting it (`plugin` 12641, 12688, 12706, 12929, 13032, 13058), so the run leaves `activeJobs` while it still holds the lease:
  a force abort in that moment does not yield it, and its own fail, if it gets there, or the end of its lock gives the job back.
* A force abort awaits its yields one by one and none has a deadline (`plugin` 14250-14262, `supervisor-engine.mjs` 445-451; 4223-4224 and 12122-12123 say so of the settle path). Against an engine that
  hangs it does not end by itself; the daemon's SIGKILL ends the process.
* An aborted run returns at `plugin` 13487 or 13511 without removing its result directory, and so does one that throws; `liveRunDirs` then shields it from the reaper of this worker
  for as long as it lives, though 13178-13180 has the reaper in mind for a crash. After the setup a transcript producer is discarded by its completion only: an aborted run, or a setup that fails after
  12759, leaves it as it is. The code promises the discard of the setup's aborts (12759-12767), which `LeavesNothing` includes.
* A marker that could not be written, one that an overlapping activation removed or wrote anew, or the pid of a nudge's harness that could not be added to it, let a reclaimer
  delete the directory of a harness which survived its worker; the comments call both writes best effort, and `NeverUnderUse` says what holds with them.
* The long-poll that is under way when a drain begins still leases jobs. `DrainEnds` holds in spite of it.
* `workAgent` beats every third of the window with a deadline as long as the interval (`plugin` 14020), so one extend that hangs until its deadline ends the run; one that fails earlier does not (`BlipTolerated`).
* `plugin` 5116-5118, 5653-5654 and 5695-5696 say that a worker which starts logged out stays anonymous until it goes idle, as an unset cache is never primed while a job runs. But
  the prime at start (5630, called at 12015) writes the outcome of its read, a token or none, so the cache is not unset: the bounded defer applies, and the worker learns of a login while it is busy too. This is
  what `RotationIsSeen` checks.
* A client that was built for an address keeps it for its reconnects. If the hub then moves, the refresh finds the new address for a client that nobody builds; the comments of `agentic-endpoint.mjs` (325-326, 392-394) and
  `plugin` 12505-12506 say that a moved hub heals. `ColdStartHeals` names this as the one way in which a worker without an explicit address does not find its hub; a worker that was given its
  hub, or found it at its start, keeps that address anyway.
* The heartbeat gives up not before the lock expires but less than two timeouts after (`OverrunBounded`).
* A claim made before the first connection reaches neither the shadow nor the hub; that job stays invisible until it ends.
* After a permanent rejection of an agent-instance create the log announces no further attempt, while completing makes one more.
* Log rings of overlapping incarnations of a child rotate the same files, and the newest output is what is lost (`LogIsATail` is stated for rings that do not overlap).
* A rotation that renames the file and cannot open the new one leaves the ring on a closed descriptor (`supervisor-log-ring.mjs` 133-136): what it is given is dropped, its size stands still, and small chunks
  never ask for the rotation that would reopen the file. A write that is cut short counts as whole. Both are losses `LogIsATail` attributes to the operation that failed.
* The idle monitor floors the CPU time of each process to whole seconds before it adds them up (`plugin` 2545, 2631, 2640): children that take turns, each below a second, look flat though together they never pause.
* A reclaimer that crashes leaves its `.reclaiming` file behind.
* The post-turn grace of the ACP capture ends without an unterminated last line of output.
* A settle whose answer is lost leaves a settlement-pending row although the engine took it, until it is pruned.

## 7. Not modelled

* Work buffer: `createBufferedChannel` is exported for embedders, and no command constructs one.
* Engine client selection: a shim without state between two transports; the modules see the engine behind activate, extend and settle.
* Secrets and containers: lookups and command lines; a lookup that fails is `ResolveSecrets` of `JobRun`.
* Workforce manifests, cluster start and stop, profiles, update, ProcessOS, OS service: one sequential command each around file and process I/O.
  A workforce command is a sequence of add and remove requests, which `SupervisorDaemon` receives in any order.
* Of `agent-instance.mjs`, frames that arrive while a transcript is being completed (1432-1439, 1775-1779): they are buffered or appended like others, and the
  end of the queue does not wait for them. Of `work-relay.mjs`, a second session on the stream of an earlier activation.
* The liveness watchdog of the agentic discovery, which no command calls any more; `createRelaySession`, likewise.
* Of `agent-resume.mjs`, the rendering of a prompt from the history; the stage that may stop a run is in `JobRun`.
* Of the settlement seam, the caps over many job keys, which `Prune` stands for; of the reconcile, its cache and cooldowns; of the monitor, the timeout of the human-in-the-loop tool.
* The contents of prompts, frames, results and errors; formatting, logging, tailing and status; command-line parsing; the generated bundle, tests and packaging.
