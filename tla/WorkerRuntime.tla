---------------------------- MODULE WorkerRuntime ----------------------------
(***************************************************************************)
(* One `nano work` process: the Effect runtime that leases jobs from the   *)
(* engine and runs agents (supervisor/src: registry, activation, parking,  *)
(* dispatch, supervisor) and the shell around it that records the running  *)
(* jobs and stops the process (workAgent in c8ctl-plugin.js).              *)
(*                                                                         *)
(* The engine's side of a job is one variable, lock[j].  A lease token is  *)
(* a member of the finite set Token; an activation takes any token nobody  *)
(* refers to any more, so tokens stay unique without a counter.  Time is   *)
(* abstracted: a lock may lapse at any moment (LockHeartbeat has the       *)
(* clock).                                                                 *)
(***************************************************************************)
EXTENDS Naturals, FiniteSets, SequencesExt

CONSTANTS
    Worker,        \* ids in the capability map (the plugin registers one)
    Capacity,      \* [Worker -> jobs it may run at once]
    JobType,
    Job,
    TypeOf,        \* [Job -> JobType]
    Fenced,        \* the jobs whose activations carry a lease token
    Token,
    NoToken,       \* not in Token
    Fiber,         \* identities for the dispatch fibers of the runtime
    InitTypes,     \* [Worker -> types served at start]
    Retyped,       \* the worker whose types reconcile / profile watch rewrite
    Demand,        \* the type sets a rewrite may find
    AutoMode,      \* --auto: the reconcile loop rewrites, and keeps doing so
    MaxBatch,      \* maxBatchPerType
    MaxDefects     \* bound on the extends of a winner that die by a defect

ASSUME RuntimeAssumption ==
    /\ IsFiniteSet(Worker) /\ Retyped \in Worker
    /\ Capacity \in [Worker -> Nat \ {0}]
    /\ TypeOf \in [Job -> JobType]
    /\ Fenced \subseteq Job
    /\ NoToken \notin Token
    /\ IsFiniteSet(Fiber)
    /\ InitTypes \in [Worker -> SUBSET JobType]
    /\ Demand \subseteq SUBSET JobType
    /\ AutoMode \in BOOLEAN
    /\ MaxBatch \in Nat \ {0}
    /\ MaxDefects \in Nat

VARIABLES
    types,       \* registry: serviceable types of each worker
    active,      \* registry: jobs each worker is running
    quiescing,   \* registry: the graceful-drain latch
    loop,        \* where the activation loop stands
    targets,     \* batch size asked for each type of this round, 0 = none
    reply,       \* answers of the round's long-polls, still under way
    batch,       \* the winning batch, jobs not yet claimed for
    parked,      \* parking lot: entries before their deadline, oldest first
    phase,       \* of each dispatch fiber
    task,        \* the activation a fiber carries
    slot,        \* the worker whose slot it holds
    leaked,      \* history: dispatches of each worker that ended inside the
                 \* winner's extend, before dispatch guards their slot
    activeJobs,  \* job key -> token of the run recorded for it
    unwinding,   \* interrupted runs whose finally block has not run, and
                 \* whether they have sent their settlement
    lock,        \* engine: state of each job's lock
    wire,        \* complete / fail requests under way to the engine
    mode,        \* stop mode of the process
    yields       \* jobs a force abort still has to yield

registryVars == <<types, active, quiescing>>
loopVars     == <<loop, targets, reply, batch, parked>>
fiberVars    == <<phase, task, slot, leaked>>
vars == <<registryVars, loopVars, fiberVars,
          activeJobs, unwinding, lock, wire, mode, yields>>

Activation == [job : Job, token : Token]
CutRun     == [job : Job, token : Token, sent : BOOLEAN]
NoTask     == [job |-> "none", token |-> NoToken]
NoWorker   == "none"
Ready      == "ready"         \* activatable
Done       == "done"          \* completed, or failed for good
Elsewhere  == "elsewhere"     \* leased to another host
Request    == [kind : {"complete", "fail", "yield"}, job : Job, token : Token]

\* A lease token is none of the other states of a lock.
ASSUME TokenAssumption == \A t \in Token : t \notin {NoToken, Ready, Done, Elsewhere}

RegistryOK ==
    /\ types \in [Worker -> SUBSET JobType]
    /\ active \in [Worker -> Nat]
    /\ quiescing \in BOOLEAN

LoopOK ==
    /\ loop \in {"idle", "targeted", "polling", "dispatching", "stopped"}
    /\ targets \in [JobType -> Nat]
    /\ reply \in [JobType -> SUBSET Activation]
    /\ batch \subseteq Activation
    /\ parked \in Seq(Activation)

FibersOK ==
    /\ phase \in [Fiber -> {"idle", "extending", "running", "settling", "shedding"}]
    /\ task \in [Fiber -> Activation \cup {NoTask}]
    /\ slot \in [Fiber -> Worker \cup {NoWorker}]
    /\ leaked \in [Worker -> Nat]

ShellOK ==
    /\ activeJobs \in [Job -> Token \cup {NoToken}]
    /\ unwinding \subseteq CutRun
    /\ lock \in [Job -> Token \cup {Ready, Done, Elsewhere}]
    /\ wire \subseteq Request
    /\ mode \in {"serving", "draining", "aborting", "exited"}
    /\ yields \subseteq Activation

\* The type invariant: registry, activation loop, fibers, shell and engine.
TypeOK == RegistryOK /\ LoopOK /\ FibersOK /\ ShellOK

-----------------------------------------------------------------------------
(* Helpers. *)

Live(f)    == phase[f] # "idle"

\* runner.run has not resolved; dispatch guards the slot of such a fiber.
HoldsRun(f) == phase[f] \in {"running", "settling", "shedding"}

\* An activation identity: unleased jobs carry none, so two runs of the same
\* unleased job compare equal.
SameLease(j, s, t) == j \notin Fenced \/ s = t

\* The engine takes an extend or a settle of j fenced by t.
Accepts(j, t) ==
    \/ lock[j] = t
    \/ j \notin Fenced /\ lock[j] \notin {Ready, Done}

\* Tokens some part of the system may still present.
InUse ==
    { lock[j] : j \in Job } \cup { activeJobs[j] : j \in Job }
    \cup { task[f].token : f \in Fiber }
    \cup { a.token : a \in UNION { reply[t] : t \in JobType } }
    \cup { a.token : a \in batch \cup yields } \cup { u.token : u \in unwinding }
    \cup { parked[i].token : i \in DOMAIN parked }
    \cup { m.token : m \in wire }

FreeSlots(t) ==
    Cardinality({ p \in Worker \X (0 .. Cardinality(Fiber)) :
                    /\ t \in types[p[1]]
                    /\ active[p[1]] <= p[2] /\ p[2] < Capacity[p[1]] })

\* Mutated form: the drain latch is not consulted.
BatchSizeIgnoringQuiesce(t) ==
    IF FreeSlots(t) = 0 THEN 0
    ELSE IF FreeSlots(t) < MaxBatch THEN FreeSlots(t) ELSE MaxBatch

\* typesWithSlots, with the clamp of batchSizeFor.
BatchSize(t) ==
    IF quiescing \/ FreeSlots(t) = 0 THEN 0
    ELSE IF FreeSlots(t) < MaxBatch THEN FreeSlots(t) ELSE MaxBatch

CanClaim(w, t) == t \in types[w] /\ active[w] < Capacity[w]

\* registry.claim for an activation of a, and the fork of its dispatch.
ClaimAndFork(a) ==
    \E w \in Worker, f \in Fiber :
        /\ CanClaim(w, TypeOf[a.job])
        /\ ~Live(f)
        /\ active' = [active EXCEPT ![w] = @ + 1]
        /\ phase' = [phase EXCEPT ![f] = "extending"]
        /\ task' = [task EXCEPT ![f] = a]
        /\ slot' = [slot EXCEPT ![f] = w]
        /\ UNCHANGED <<types, quiescing, leaked>>

NoSlotFor(a) == \A w \in Worker : ~CanClaim(w, TypeOf[a.job])

Vanish(f) ==
    /\ phase' = [phase EXCEPT ![f] = "idle"]
    /\ task' = [task EXCEPT ![f] = NoTask]
    /\ slot' = [slot EXCEPT ![f] = NoWorker]

\* Mutated form: an early return and the ensuring finalizer both release.
EndFiberTwice(f) ==
    /\ active' = [active EXCEPT ![slot[f]] = @ - 2]
    /\ Vanish(f)
    /\ UNCHANGED <<types, quiescing, leaked>>

\* The fiber ends and gives its slot back (releaseWorker clamps at 0).
EndFiber(f) ==
    /\ active' = [active EXCEPT ![slot[f]] = IF @ = 0 THEN 0 ELSE @ - 1]
    /\ Vanish(f)
    /\ UNCHANGED <<types, quiescing, leaked>>

\* Mutated form: the record is dropped whoever it belongs to.
JobEndedUnguarded(a) == [activeJobs EXCEPT ![a.job] = NoToken]

\* recordJobEnd: drop the record only when it is this run's.
JobEnded(a) ==
    IF SameLease(a.job, activeJobs[a.job], a.token)
    THEN [activeJobs EXCEPT ![a.job] = NoToken]
    ELSE activeJobs

-----------------------------------------------------------------------------
Init ==
    /\ types = InitTypes
    /\ active = [w \in Worker |-> 0]
    /\ quiescing = FALSE
    /\ loop = "idle"
    /\ targets = [t \in JobType |-> 0]
    /\ reply = [t \in JobType |-> {}]
    /\ batch = {}
    /\ parked = << >>
    /\ phase = [f \in Fiber |-> "idle"]
    /\ task = [f \in Fiber |-> NoTask]
    /\ slot = [f \in Fiber |-> NoWorker]
    /\ leaked = [w \in Worker |-> 0]
    /\ activeJobs = [j \in Job |-> NoToken]
    /\ unwinding = {}
    /\ lock = [j \in Job |-> Ready]
    /\ wire = {}
    /\ mode = "serving"
    /\ yields = {}

-----------------------------------------------------------------------------
(* The activation loop (tick). *)

\* pollBatch: the types worth polling now.  With none the tick only sleeps.
TickRead ==
    /\ loop = "idle"
    /\ \E t \in JobType : BatchSize(t) > 0
    /\ targets' = [t \in JobType |-> BatchSize(t)]
    /\ loop' = "targeted"
    /\ UNCHANGED <<registryVars, reply, batch, parked, fiberVars,
                   activeJobs, unwinding, lock, wire, mode, yields>>

\* Mutated form: the entry taken stays in the lot.
WithoutNothing(i) == parked

\* The rest of the lot once takeFor picked entry i.
Without(i) == RemoveAt(parked, i)

Matches(i) == targets[TypeOf[parked[i].job]] > 0

\* takeFor: take the oldest entry of a polled type, claim a slot and fork it;
\* repark it (behind the others, same deadline) when no slot is left.
TickPromote ==
    /\ loop = "targeted"
    /\ \E i \in DOMAIN parked :
        /\ Matches(i)
        /\ \A k \in DOMAIN parked : Matches(k) => i <= k
        /\ \/ /\ ClaimAndFork(parked[i])
              /\ parked' = Without(i)
           \/ /\ NoSlotFor(parked[i])
              /\ parked' = Append(Without(i), parked[i])
              /\ UNCHANGED <<registryVars, fiberVars>>
    /\ loop' = "idle"
    /\ targets' = [t \in JobType |-> 0]
    /\ UNCHANGED <<reply, batch, activeJobs, unwinding, lock, wire, mode, yields>>

\* Nothing to promote: hold one long-poll per target (activateWinner).  The
\* polls repeat on an empty answer and on an error, so the round only ends
\* when some type yields a job.
StartPolls ==
    /\ loop = "targeted"
    /\ \A i \in DOMAIN parked : ~Matches(i)
    /\ loop' = "polling"
    /\ UNCHANGED <<registryVars, targets, reply, batch, parked, fiberVars,
                   activeJobs, unwinding, lock, wire, mode, yields>>

\* The first non-empty answer wins; the losers are interrupted and whatever
\* they leased is left to lapse.
PollWins(t) ==
    /\ loop = "polling"
    /\ reply[t] # {}
    /\ batch' = reply[t]
    /\ reply' = [u \in JobType |-> {}]
    /\ targets' = [u \in JobType |-> 0]
    /\ loop' = "dispatching"
    /\ UNCHANGED <<registryVars, parked, fiberVars,
                   activeJobs, unwinding, lock, wire, mode, yields>>

\* dispatchBatch, one job: claim a slot and fork, or park.
DispatchOne(a) ==
    /\ loop = "dispatching"
    /\ a \in batch
    /\ \/ ClaimAndFork(a) /\ UNCHANGED parked
       \/ /\ NoSlotFor(a)
          /\ parked' = Append(parked, a)
          /\ UNCHANGED <<registryVars, fiberVars>>
    /\ batch' = batch \ {a}
    /\ loop' = IF batch = {a} THEN "idle" ELSE "dispatching"
    /\ UNCHANGED <<targets, reply, activeJobs, unwinding, lock, wire, mode, yields>>

\* The deadline of a parked entry passes: every later read of the lot prunes
\* it.  The deadline counts from the park, the engine's from the lease, so the
\* lease is gone by then.
ParkedExpires(i) ==
    /\ lock[parked[i].job] # parked[i].token
    /\ parked' = Without(i)
    /\ UNCHANGED <<registryVars, loop, targets, reply, batch, fiberVars,
                   activeJobs, unwinding, lock, wire, mode, yields>>

\* doReconcile (or the profile watch): the worker's types are rewritten.
Retype(T) ==
    /\ T \in Demand
    /\ types[Retyped] # T
    /\ mode = "serving" \/ (AutoMode /\ mode = "draining")
    /\ types' = [types EXCEPT ![Retyped] = T]
    /\ UNCHANGED <<active, quiescing, loopVars, fiberVars,
                   activeJobs, unwinding, lock, wire, mode, yields>>

-----------------------------------------------------------------------------
(* One dispatch fiber. *)

\* The winner's extend is accepted and the runner starts (recordJobStart).
StartRun(f) ==
    /\ phase[f] = "extending"
    /\ Accepts(task[f].job, task[f].token)
    /\ phase' = [phase EXCEPT ![f] = "running"]
    /\ activeJobs' = [activeJobs EXCEPT ![task[f].job] = task[f].token]
    /\ UNCHANGED <<registryVars, loopVars, task, slot, leaked,
                   unwinding, lock, wire, mode, yields>>

\* Mutated form: the claimed slot is not given back.
ExtendFailsKeepingSlot(f) ==
    /\ phase[f] = "extending"
    /\ Vanish(f)
    /\ UNCHANGED <<registryVars, loopVars, leaked,
                   activeJobs, unwinding, lock, wire, mode, yields>>

\* The winner's extend is refused, fails or times out: not started.
ExtendFails(f) ==
    /\ phase[f] = "extending"
    /\ EndFiber(f)
    /\ UNCHANGED <<loopVars, activeJobs, unwinding, lock, wire, mode, yields>>

\* The winner's extend dies by a defect.  It stands before the block whose
\* finalizer releases the slot, and its catch takes typed errors only: the
\* fiber is gone and its slot stays claimed.
ExtendDies(f) ==
    /\ phase[f] = "extending"
    /\ leaked[slot[f]] < MaxDefects
    /\ Vanish(f)
    /\ leaked' = [leaked EXCEPT ![slot[f]] = @ + 1]
    /\ UNCHANGED <<registryVars, loopVars,
                   activeJobs, unwinding, lock, wire, mode, yields>>

\* Setup fails (disk budget, prompt, secrets, repository) and the runner
\* returns the promise of its fail without awaiting it: the finally block
\* drops the record while the request is still under way.
SetupFails(f) ==
    /\ phase[f] = "running"
    /\ phase' = [phase EXCEPT ![f] = "shedding"]
    /\ wire' = wire \cup {[kind |-> "fail", job |-> task[f].job, token |-> task[f].token]}
    /\ activeJobs' = JobEnded(task[f])
    /\ UNCHANGED <<registryVars, loopVars, task, slot, leaked,
                   unwinding, lock, mode, yields>>

\* The agent is finished and the runner sends its settlement.
Settle(f) ==
    /\ phase[f] = "running"
    /\ phase' = [phase EXCEPT ![f] = "settling"]
    /\ \E k \in {"complete", "fail"} :
         wire' = wire \cup {[kind |-> k, job |-> task[f].job, token |-> task[f].token]}
    /\ UNCHANGED <<registryVars, loopVars, task, slot, leaked,
                   activeJobs, unwinding, lock, mode, yields>>

SettleUnderWay(a) ==
    \E m \in wire : m.kind # "yield" /\ m.job = a.job /\ m.token = a.token

\* The settlement was answered (or given up): the runner's finally block runs
\* and the fiber ends.
RunEnds(f) ==
    /\ phase[f] = "settling"
    /\ ~SettleUnderWay(task[f])
    /\ activeJobs' = JobEnded(task[f])
    /\ EndFiber(f)
    /\ UNCHANGED <<loopVars, unwinding, lock, wire, mode, yields>>

\* The returned promise resolves: the run is over and its slot comes back.
ShedAnswered(f) ==
    /\ phase[f] = "shedding"
    /\ ~SettleUnderWay(task[f])
    /\ EndFiber(f)
    /\ UNCHANGED <<loopVars, activeJobs, unwinding, lock, wire, mode, yields>>

\* What is left of f's run once its fiber is interrupted.
Cut(f) == [job |-> task[f].job, token |-> task[f].token,
           sent |-> phase[f] = "settling"]

\* The runs among F whose finally block has still to run, as an interrupt of
\* their fibers leaves them.
CutRuns(F) == { Cut(f) : f \in { g \in F : phase[g] \in {"running", "settling"} } }

\* The heartbeat gives up: the run is interrupted and its slot released at
\* once, while the runner's promise still unwinds.
LockLost(f) ==
    /\ HoldsRun(f)
    /\ unwinding' = unwinding \cup CutRuns({f})
    /\ EndFiber(f)
    /\ UNCHANGED <<loopVars, activeJobs, lock, wire, mode, yields>>

\* A run interrupted after its agent had finished still settles: only a failed
\* result looks at the abort signal again.
LateSettle(u) ==
    /\ u \in unwinding /\ ~u.sent
    /\ mode # "exited"
    /\ unwinding' = (unwinding \ {u}) \cup {[u EXCEPT !.sent = TRUE]}
    /\ \E k \in {"complete", "fail"} :
         wire' = wire \cup {[kind |-> k, job |-> u.job, token |-> u.token]}
    /\ UNCHANGED <<registryVars, loopVars, fiberVars, activeJobs, lock, mode, yields>>

\* The finally block of an interrupted runner.
Unwind(u) ==
    /\ u \in unwinding
    /\ ~SettleUnderWay(u)
    /\ mode # "exited"
    /\ unwinding' = unwinding \ {u}
    /\ activeJobs' = JobEnded(u)
    /\ UNCHANGED <<registryVars, loopVars, fiberVars, lock, wire, mode, yields>>

-----------------------------------------------------------------------------
(* The engine and the other hosts. *)

\* A long-poll is answered: up to the asked number of ready jobs are leased,
\* each under a token nobody refers to.
Activate(t) ==
    /\ loop = "polling"
    /\ reply[t] = {}
    /\ \E S \in SUBSET { j \in Job : lock[j] = Ready /\ TypeOf[j] = t } :
         \E lease \in [S -> Token \ InUse] :
            /\ S # {} /\ Cardinality(S) <= targets[t]
            /\ \A i, j \in S : lease[i] = lease[j] => i = j
            /\ reply' = [reply EXCEPT ![t] =
                            { [job |-> j, token |-> lease[j]] : j \in S }]
            /\ lock' = [j \in Job |-> IF j \in S THEN lease[j] ELSE lock[j]]
    /\ UNCHANGED <<registryVars, loop, targets, batch, parked, fiberVars,
                   activeJobs, unwinding, wire, mode, yields>>

\* The answer is lost on the way; the poll is retried, the lease will lapse.
ReplyLost(t) ==
    /\ reply[t] # {}
    /\ reply' = [reply EXCEPT ![t] = {}]
    /\ UNCHANGED <<registryVars, loop, targets, batch, parked, fiberVars,
                   activeJobs, unwinding, lock, wire, mode, yields>>

LockLapses(j) ==
    /\ lock[j] \in Token
    /\ lock' = [lock EXCEPT ![j] = Ready]
    /\ UNCHANGED <<registryVars, loopVars, fiberVars,
                   activeJobs, unwinding, wire, mode, yields>>

LeasedElsewhere(j) ==
    /\ \/ lock[j] = Ready /\ lock' = [lock EXCEPT ![j] = Elsewhere]
       \/ lock[j] = Elsewhere /\ \E s \in {Ready, Done} :
                                     lock' = [lock EXCEPT ![j] = s]
    /\ UNCHANGED <<registryVars, loopVars, fiberVars,
                   activeJobs, unwinding, wire, mode, yields>>

\* A settlement reaches the engine, which honours it only from the holder.
SettleArrives(m) ==
    /\ m \in wire
    /\ wire' = wire \ {m}
    /\ lock' = IF Accepts(m.job, m.token)
               THEN [lock EXCEPT ![m.job] = IF m.kind = "complete" THEN Done ELSE Ready]
               ELSE lock
    /\ UNCHANGED <<registryVars, loopVars, fiberVars,
                   activeJobs, unwinding, mode, yields>>

SettleLost(m) ==
    /\ m \in wire
    /\ wire' = wire \ {m}
    /\ UNCHANGED <<registryVars, loopVars, fiberVars,
                   activeJobs, unwinding, lock, mode, yields>>

-----------------------------------------------------------------------------
(* Stopping the process. *)

\* SIGUSR2: latch the registry, keep everything else going.
GracefulDrain ==
    /\ mode = "serving"
    /\ mode' = "draining"
    /\ quiescing' = TRUE
    /\ UNCHANGED <<types, active, loopVars, fiberVars,
                   activeJobs, unwinding, lock, wire, yields>>

\* The fibers of w whose slot dispatch guards by a finalizer.
Guarded(w) == { f \in Fiber : HoldsRun(f) /\ slot[f] = w }

\* Those of w still in the winner's extend, which nothing guards.
Unguarded(w) == { f \in Fiber : phase[f] = "extending" /\ slot[f] = w }

\* The runtime fiber is interrupted: the loop stops with its round, every
\* dispatch fiber ends, the runs release their slots and start unwinding.  A
\* dispatch still extending keeps its slot claimed.
InterruptRuntime ==
    /\ loop' = "stopped"
    /\ targets' = [t \in JobType |-> 0]
    /\ reply' = [t \in JobType |-> {}]
    /\ batch' = {}
    /\ parked' = << >>
    /\ active' = [w \in Worker |-> active[w] - Cardinality(Guarded(w))]
    /\ leaked' = [w \in Worker |-> leaked[w] + Cardinality(Unguarded(w))]
    /\ phase' = [f \in Fiber |-> "idle"]
    /\ task' = [f \in Fiber |-> NoTask]
    /\ slot' = [f \in Fiber |-> NoWorker]
    /\ unwinding' = unwinding \cup CutRuns(Fiber)
    /\ UNCHANGED <<types, quiescing>>

\* Mutated form: the drain tears down at its first tick.
DrainExitAtOnce ==
    /\ mode = "draining"
    /\ InterruptRuntime
    /\ mode' = "exited"
    /\ UNCHANGED <<activeJobs, lock, wire, yields>>

\* The drain's own tick saw activeCount = 0: teardownAndExit.
DrainExit ==
    /\ mode = "draining"
    /\ \A w \in Worker : active[w] = 0
    /\ InterruptRuntime
    /\ mode' = "exited"
    /\ UNCHANGED <<activeJobs, lock, wire, yields>>

\* SIGTERM / SIGINT: snapshot the recorded runs, then interrupt the runtime.
ForceAbort ==
    /\ mode \in {"serving", "draining"}
    /\ mode' = "aborting"
    /\ yields' = { [job |-> j, token |-> activeJobs[j]] :
                     j \in { k \in Job : activeJobs[k] # NoToken } }
    /\ InterruptRuntime
    /\ UNCHANGED <<activeJobs, lock, wire>>

YieldUnderWay == \E m \in wire : m.kind = "yield"

\* Mutated form: a yield stays on the list and is sent again.
YieldJobForever(a) ==
    /\ mode = "aborting"
    /\ a \in yields /\ ~YieldUnderWay
    /\ wire' = wire \cup {[kind |-> "yield", job |-> a.job, token |-> a.token]}
    /\ UNCHANGED <<registryVars, loopVars, fiberVars,
                   activeJobs, unwinding, lock, mode, yields>>

\* The yields are sent one after the other, each awaited.
YieldJob(a) ==
    /\ mode = "aborting"
    /\ a \in yields /\ ~YieldUnderWay
    /\ yields' = yields \ {a}
    /\ wire' = wire \cup {[kind |-> "yield", job |-> a.job, token |-> a.token]}
    /\ UNCHANGED <<registryVars, loopVars, fiberVars,
                   activeJobs, unwinding, lock, mode>>

AbortExit ==
    /\ mode = "aborting"
    /\ yields = {} /\ ~YieldUnderWay
    /\ mode' = "exited"
    /\ UNCHANGED <<registryVars, loopVars, fiberVars,
                   activeJobs, unwinding, lock, wire, yields>>

-----------------------------------------------------------------------------
RunFiber(f) ==
    \/ StartRun(f) \/ ExtendFails(f) \/ ExtendDies(f)
    \/ SetupFails(f) \/ ShedAnswered(f)
    \/ Settle(f) \/ RunEnds(f) \/ LockLost(f)

Next ==
    \/ TickRead \/ TickPromote \/ StartPolls
    \/ \E t \in JobType : PollWins(t) \/ Activate(t) \/ ReplyLost(t)
    \/ \E a \in batch : DispatchOne(a)
    \/ \E i \in DOMAIN parked : ParkedExpires(i)
    \/ \E T \in Demand : Retype(T)
    \/ \E f \in Fiber : RunFiber(f)
    \/ \E u \in unwinding : LateSettle(u) \/ Unwind(u)
    \/ \E j \in Job : LockLapses(j) \/ LeasedElsewhere(j)
    \/ \E m \in wire : SettleArrives(m) \/ SettleLost(m)
    \/ GracefulDrain \/ DrainExit
    \/ ForceAbort \/ AbortExit
    \/ \E a \in yields : YieldJob(a)

Spec == Init /\ [][Next]_vars

(***************************************************************************)
(* Fairness.  Every step of the runtime that is enabled is taken: timers,  *)
(* promises and fibers of a running process are never starved.  An agent   *)
(* is assumed to finish, or to fail in its setup.  A type that is polled   *)
(* again and again while a job waits is answered some time.  Nothing is    *)
(* assumed of signals, rewrites, lapses, losses or other hosts, nor of the *)
(* answers to settles and yields: the code sets them no deadline, so the   *)
(* properties that need them say so (EngineAnswers).                       *)
(***************************************************************************)
Fairness ==
    /\ WF_vars(TickRead) /\ WF_vars(TickPromote) /\ WF_vars(StartPolls)
    /\ \A t \in JobType : WF_vars(PollWins(t)) /\ SF_vars(Activate(t))
    /\ WF_vars(\E a \in batch : DispatchOne(a))
    /\ \A f \in Fiber :
          /\ WF_vars(StartRun(f) \/ ExtendFails(f))
          /\ WF_vars(Settle(f) \/ SetupFails(f))
          /\ WF_vars(RunEnds(f) \/ ShedAnswered(f))
    /\ WF_vars(\E u \in unwinding : Unwind(u))
    /\ WF_vars(DrainExit) /\ WF_vars(AbortExit)
    /\ WF_vars(\E a \in yields : YieldJob(a))

LiveSpec == Spec /\ Fairness

-----------------------------------------------------------------------------
(* Properties. *)

InReply(a) == \E t \in JobType : a \in reply[t]
InLot(a)   == \E i \in DOMAIN parked : parked[i] = a

\* The lease held by a run is the one the engine knows for the job.
HoldsLease(f) ==
    /\ HoldsRun(f)
    /\ task[f].job \in Fenced
    /\ lock[task[f].job] = task[f].token

\* The dispatch fibers that hold a slot of w.
HeldBy(w) == { f \in Fiber : Live(f) /\ slot[f] = w }

\* A worker's active count is the number of dispatch fibers that hold a slot
\* of it, however a run ends (answered, refused, failed in setup, lock lost,
\* interrupted), and never above its capacity.  The dispatches that ended
\* inside the winner's extend by a defect or an interrupt are counted apart:
\* dispatch never gives their slots back.
SlotsAccounted ==
    \A w \in Worker :
        /\ active[w] = Cardinality(HeldBy(w)) + leaked[w]
        /\ active[w] <= Capacity[w]

\* An activation has one carrier: a poll's answer, the batch, the parking lot
\* or one dispatch fiber.  Nothing is dispatched twice or dispatched and kept.
CarriedOnce ==
    /\ \A f, g \in Fiber : Live(f) /\ Live(g) /\ task[f] = task[g] => f = g
    /\ \A i, k \in DOMAIN parked : parked[i] = parked[k] => i = k
    /\ \A f \in Fiber : Live(f) =>
           ~InReply(task[f]) /\ task[f] \notin batch /\ ~InLot(task[f])
    /\ \A i \in DOMAIN parked : parked[i] \notin batch /\ ~InReply(parked[i])

\* The run that holds a job's lease is the one recorded under the job's key,
\* whatever older runs of the same job are still unwinding (recordJobEnd's
\* token guard): status shows it and a force abort will yield it.  The one
\* exception is a run that failed in its setup and whose fail, sent and not
\* awaited, is still unanswered.
HolderRecorded ==
    \A f \in Fiber : HoldsLease(f) =>
        \/ activeJobs[task[f].job] = task[f].token
        \/ phase[f] = "shedding"

\* A graceful drain ends the process only when no claimed job is left: its
\* teardown interrupts nothing.
DrainInterruptsNothing ==
    [][mode = "draining" /\ mode' = "exited" => \A f \in Fiber : ~Live(f)]_vars

\* A force abort puts every run that holds its job's lease on the list of
\* jobs to yield, under the token the engine will accept; only a run that has
\* itself given the job back (a failed setup) is left to its own fail.
AbortYieldsHolders ==
    [][mode # "aborting" /\ mode' = "aborting" =>
         \A f \in Fiber : HoldsLease(f) =>
             task[f] \in yields' \/ phase[f] = "shedding"]_vars

\* What the liveness properties need of the engine: a settle or a yield under
\* way is answered or fails some time.  No timeout of the code makes it so.
EngineAnswers == \A m \in Request : []<>(m \notin wire)

\* With an engine that answers, a drain that is not escalated ends once the
\* running agents finish, though the poll under way when it began may still
\* hand out a job.
DrainEnds ==
    EngineAnswers => (mode = "draining" ~> mode \in {"aborting", "exited"})

\* With an engine that answers, a force abort ends, whatever it answers to
\* the yields: they are sent one after the other, each awaited.
AbortEnds == EngineAnswers => (mode = "aborting" ~> mode = "exited")

\* While the served types stay the same and the engine answers, a waiting job
\* of a served type is leased some time: slots come back and every round
\* polls every free type.
ReadyJobIsLeased ==
    EngineAnswers =>
        \A j \in Job :
            lock[j] = Ready /\ (\E w \in Worker : TypeOf[j] \in types[w])
                ~> lock[j] # Ready \/ mode # "serving"

=============================================================================
