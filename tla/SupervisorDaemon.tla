--------------------------- MODULE SupervisorDaemon ---------------------------
(***************************************************************************)
(* The supervisor daemon (runSupervisorDaemon in c8ctl-plugin.js) and the  *)
(* `nano work` processes it spawns: restart on exit, the operations of the *)
(* control socket (add, remove, drain-remove, restart, rolling reload,     *)
(* stop), the queue that serializes most of them, and the daemon's end.    *)
(*                                                                         *)
(* Of a worker process only what the daemon can see or cause is kept:      *)
(* booting or up, a job in flight or not, the signals it has caught        *)
(* (process.once: the second one of a kind takes the default action and    *)
(* kills it).  WorkerRuntime is the inside of one.  Identities of children *)
(* are reused once nobody refers to them.                                  *)
(***************************************************************************)
EXTENDS Naturals, FiniteSets, Sequences

CONSTANTS
    Obj,           \* worker records, one per `add`
    Id,            \* worker names
    IdOf,          \* [Obj -> Id]
    InitFleet,     \* the records in the fleet at the start
    Child,         \* identities for the child processes
    NoObj, NoChild,
    DrainRemove,   \* `workforce stop` is used: drain-removes are requested
    MaxRequests    \* bound on the requests of the control clients

ASSUME DaemonAssumption ==
    /\ IdOf \in [Obj -> Id]
    /\ InitFleet \subseteq Obj
    /\ \A o, p \in InitFleet : IdOf[o] = IdOf[p] => o = p
    /\ IsFiniteSet(Child)
    /\ NoObj \notin Obj /\ NoChild \notin Child
    /\ DrainRemove \in BOOLEAN
    /\ MaxRequests \in Nat

VARIABLES
    fleet,      \* the records in the workers map
    child,      \* w.child
    stopping,   \* w.stopping
    removing,   \* w.removeOnExit
    timer,      \* w.restartTimer is armed
    proc,       \* state of a child process and of its exit event
    owner,      \* the record a child was spawned for
    busy,       \* the child has a job in flight
    caught,     \* signals its handlers have caught
    sig,        \* signals sent and not yet delivered
    queue,      \* opQueue: the running operation first
    step,       \* where the running operation stands
    todo,       \* ids it still has to act on
    cur,        \* the record it waits for
    rphase, rtodo, robj, rchild,   \* the rolling reload
    wait,       \* who waits for the exit of which child
    life,       \* of the daemon
    forced,     \* the shutdown is a force stop
    forcing,    \* a drain was escalated
    requests    \* requests left

fleetVars  == <<fleet, child, stopping, removing, timer>>
procVars   == <<proc, owner, busy, caught, sig>>
opVars     == <<queue, step, todo, cur>>
reloadVars == <<rphase, rtodo, robj, rchild>>
lifeVars   == <<life, forced, forcing>>
vars == <<fleetVars, procVars, opVars, reloadVars, wait, lifeVars, requests>>

Signal == {"usr2", "term"}
OpKind == {"add", "remove", "drainremove", "restart", "respawn", "barrier"}
Op     == [kind : OpKind, ids : SUBSET Id, obj : Obj \cup {NoObj}]
Waiter == [who : {"op", "reload", "shutdown", "escalate"}, child : Child]

\* The type invariant; the workers map has one record per name.
TypeOK ==
    /\ fleet \subseteq Obj
    /\ \A o, p \in fleet : IdOf[o] = IdOf[p] => o = p
    /\ child \in [Obj -> Child \cup {NoChild}]
    /\ stopping \in [Obj -> BOOLEAN] /\ removing \in [Obj -> BOOLEAN]
    /\ timer \in [Obj -> BOOLEAN]
    /\ proc \in [Child -> {"booting", "up", "dead", "refused", "failed", "gone"}]
    /\ owner \in [Child -> Obj \cup {NoObj}]
    /\ busy \in [Child -> BOOLEAN]
    /\ caught \in [Child -> SUBSET Signal] /\ sig \in [Child -> SUBSET Signal]
    /\ queue \in Seq(Op)
    /\ step \in {"idle", "next", "stopping"}
    /\ todo \subseteq Id /\ cur \in Obj \cup {NoObj}
    /\ rphase \in {"off", "next", "draining", "queued", "booting"}
    /\ rtodo \subseteq Id /\ robj \in Obj \cup {NoObj}
    /\ rchild \in Child \cup {NoChild}
    /\ wait \subseteq Waiter
    /\ life \in {"up", "closing", "stopping", "exited", "crashed"}
    /\ forced \in BOOLEAN /\ forcing \in BOOLEAN
    /\ requests \in 0 .. MaxRequests

-----------------------------------------------------------------------------
(* Helpers. *)

Alive(c)  == proc[c] \in {"booting", "up"}
Dying(c)  == proc[c] \in {"dead", "refused", "failed"}    \* event not seen yet
HasPid(o) == child[o] # NoChild /\ proc[child[o]] \in {"booting", "up", "dead", "refused"}

Has(i) == \E o \in fleet : IdOf[o] = i
At(i)  == CHOOSE o \in fleet : IdOf[o] = i

Running      == life \in {"up", "closing", "stopping"}
ShuttingDown == life # "up"

\* Child identities nobody refers to any more.
Fresh == { c \in Child : /\ proc[c] = "gone" /\ c # rchild
                         /\ \A o \in (fleet \cup {cur, robj}) \ {NoObj} : child[o] # c }

\* startWorker(o) with child c: the process starts, or spawn() fails and only
\* an error event follows.
Spawn(o, c) ==
    /\ child' = [child EXCEPT ![o] = c]
    /\ \E p \in {"booting", "failed"} : proc' = [proc EXCEPT ![c] = p]
    /\ owner' = [owner EXCEPT ![c] = o]
    /\ busy' = [busy EXCEPT ![c] = FALSE]
    /\ caught' = [caught EXCEPT ![c] = {}]
    /\ sig' = [sig EXCEPT ![c] = {}]

\* process.kill(pid, s) for the current children of the records S.
Kill(S, s) ==
    sig' = [c \in Child |-> IF \E o \in S : HasPid(o) /\ child[o] = c
                            THEN sig[c] \cup {s} ELSE sig[c]]

WaitersOf(S, who) ==
    { [who |-> who, child |-> child[o]] : o \in { p \in S : HasPid(p) } }

Waits(who) == \E x \in wait : x.who = who

\* A drain's wait has no timeout, a force stop's has STOP_GRACE_MS and the
\* recovery budget.
HasTimeout(x) ==
    x.who \in {"op", "escalate"} \/ (x.who = "shutdown" /\ forced)

Enqueue(op) == queue' = Append(queue, op)

-----------------------------------------------------------------------------
Init ==
    /\ fleet = InitFleet
    /\ child \in [Obj -> Child \cup {NoChild}]
    /\ \A o \in Obj : child[o] = NoChild <=> o \notin InitFleet
    /\ \A o, p \in InitFleet : child[o] = child[p] => o = p
    /\ stopping = [o \in Obj |-> FALSE]
    /\ removing = [o \in Obj |-> FALSE]
    /\ timer = [o \in Obj |-> FALSE]
    /\ proc = [c \in Child |-> IF \E o \in InitFleet : child[o] = c THEN "up" ELSE "gone"]
    /\ owner = [c \in Child |-> IF \E o \in InitFleet : child[o] = c
                                THEN CHOOSE o \in InitFleet : child[o] = c ELSE NoObj]
    /\ busy = [c \in Child |-> FALSE]
    /\ caught = [c \in Child |-> {}] /\ sig = [c \in Child |-> {}]
    /\ queue = << >> /\ step = "idle" /\ todo = {} /\ cur = NoObj
    /\ rphase = "off" /\ rtodo = {} /\ robj = NoObj /\ rchild = NoChild
    /\ wait = {}
    /\ life = "up" /\ forced = FALSE /\ forcing = FALSE
    /\ requests = MaxRequests

-----------------------------------------------------------------------------
(* The worker processes. *)

ChildOnly == UNCHANGED <<fleetVars, opVars, reloadVars, wait, lifeVars, requests>>

\* The handlers are installed and the activation loop is up; or the profile is
\* refused (NANO_EXIT_CONFIG).
Boot(c) ==
    /\ proc[c] = "booting"
    /\ \E p \in {"up", "refused"} : proc' = [proc EXCEPT ![c] = p]
    /\ UNCHANGED <<owner, busy, caught, sig>>
    /\ ChildOnly

TakeJob(c) ==
    /\ proc[c] = "up" /\ caught[c] = {} /\ ~busy[c]
    /\ busy' = [busy EXCEPT ![c] = TRUE]
    /\ UNCHANGED <<proc, owner, caught, sig>>
    /\ ChildOnly

JobEnds(c) ==
    /\ proc[c] = "up" /\ busy[c]
    /\ busy' = [busy EXCEPT ![c] = FALSE]
    /\ UNCHANGED <<proc, owner, caught, sig>>
    /\ ChildOnly

\* A signal arrives.  Before the handlers exist, and after process.once has
\* consumed the one for this signal, the default action ends the process.
Deliver(c, s) ==
    /\ Alive(c) /\ s \in sig[c]
    /\ sig' = [sig EXCEPT ![c] = @ \ {s}]
    /\ IF proc[c] = "booting" \/ s \in caught[c]
       THEN proc' = [proc EXCEPT ![c] = "dead"] /\ UNCHANGED caught
       ELSE caught' = [caught EXCEPT ![c] = @ \cup {s}] /\ UNCHANGED proc
    /\ UNCHANGED <<owner, busy>>
    /\ ChildOnly

\* A drain ends when no job is in flight.
DrainDone(c) ==
    /\ proc[c] = "up" /\ caught[c] = {"usr2"} /\ ~busy[c]
    /\ proc' = [proc EXCEPT ![c] = "dead"]
    /\ UNCHANGED <<owner, busy, caught, sig>>
    /\ ChildOnly

\* A force abort ends after its yields and its recovery.
AbortDone(c) ==
    /\ proc[c] = "up" /\ "term" \in caught[c]
    /\ proc' = [proc EXCEPT ![c] = "dead"]
    /\ UNCHANGED <<owner, busy, caught, sig>>
    /\ ChildOnly

ChildCrash(c) ==
    /\ Alive(c)
    /\ proc' = [proc EXCEPT ![c] = "dead"]
    /\ UNCHANGED <<owner, busy, caught, sig>>
    /\ ChildOnly

\* Mutated form: the parent is only checked when the watchdog is armed.
OrphanReapAtBoot(c) ==
    /\ ~Running /\ proc[c] = "booting"
    /\ proc' = [proc EXCEPT ![c] = "dead"]
    /\ UNCHANGED <<owner, busy, caught, sig>>
    /\ ChildOnly

\* installParentDeathWatchdog: the daemon is gone, the child exits.
OrphanReap(c) ==
    /\ ~Running /\ Alive(c)
    /\ proc' = [proc EXCEPT ![c] = "dead"]
    /\ UNCHANGED <<owner, busy, caught, sig>>
    /\ ChildOnly

-----------------------------------------------------------------------------
(* Exit events, restarts. *)

\* handleDeath, and every waitForChildExit of this child.
ExitEvent(c) ==
    /\ Running /\ Dying(c)
    /\ proc' = [proc EXCEPT ![c] = "gone"]
    /\ busy' = [busy EXCEPT ![c] = FALSE]
    /\ caught' = [caught EXCEPT ![c] = {}]
    /\ sig' = [sig EXCEPT ![c] = {}]
    /\ wait' = { x \in wait : x.child # c }
    /\ LET o == owner[c]
           stays == stopping[o] \/ ShuttingDown \/ ~Has(IdOf[o])
       IN  IF child[o] # c THEN UNCHANGED <<fleet, timer>>
           ELSE /\ fleet' = IF stays /\ removing[o] THEN fleet \ {o} ELSE fleet
                /\ timer' = IF stays \/ proc[c] = "refused" THEN timer
                            ELSE [timer EXCEPT ![o] = TRUE]
    /\ UNCHANGED <<child, stopping, removing, owner, opVars, reloadVars,
                   lifeVars, requests>>

\* The restart timer fires.
RestartTimer(o) ==
    /\ Running /\ timer[o]
    /\ timer' = [timer EXCEPT ![o] = FALSE]
    /\ IF ~stopping[o] /\ ~ShuttingDown /\ Has(IdOf[o])
       THEN \E c \in Fresh : Spawn(o, c)
       ELSE UNCHANGED <<child, procVars>>
    /\ UNCHANGED <<fleet, stopping, removing, opVars, reloadVars, wait,
                   lifeVars, requests>>

\* Mutated form: the force stop's wait has no timeout.
GraceNeverExpires(x) == FALSE /\ UNCHANGED vars

\* forceStopWorker: the grace is over, SIGKILL what is still alive.
GraceExpires(x) ==
    /\ Running /\ x \in wait /\ HasTimeout(x)
    /\ wait' = wait \ {x}
    /\ proc' = IF Alive(x.child) THEN [proc EXCEPT ![x.child] = "dead"] ELSE proc
    /\ UNCHANGED <<fleetVars, owner, busy, caught, sig, opVars, reloadVars,
                   lifeVars, requests>>

-----------------------------------------------------------------------------
(* The control requests, and the queue of operations. *)

\* add / remove / restart: refused once the daemon shuts down, queued else.
Request(op) ==
    /\ life = "up" /\ requests > 0
    /\ op.kind = "drainremove" => DrainRemove
    /\ requests' = requests - 1
    /\ Enqueue(op)
    /\ UNCHANGED <<fleetVars, procVars, step, todo, cur, reloadVars, wait, lifeVars>>

Requests ==
    { [kind |-> "add", ids |-> {}, obj |-> o] : o \in Obj }
    \cup { [kind |-> k, ids |-> I, obj |-> NoObj] :
              k \in {"remove", "drainremove", "restart"}, I \in SUBSET Id \ {{}} }

OpReady(k) == Running /\ step = "idle" /\ queue # << >> /\ Head(queue).kind = k

\* addWorker.  A record is new: nothing may still refer to it.
Add(o) ==
    /\ OpReady("add") /\ o = Head(queue).obj
    /\ queue' = Tail(queue)
    /\ IF Has(IdOf[o]) \/ child[o] # NoChild
       THEN UNCHANGED <<fleet, child, procVars>>
       ELSE \E c \in Fresh : Spawn(o, c) /\ fleet' = fleet \cup {o}
    /\ UNCHANGED <<stopping, removing, timer, step, todo, cur,
                   reloadVars, wait, lifeVars, requests>>

\* resolveTargets, when the operation's turn comes.
OpBegins ==
    /\ \E k \in {"remove", "drainremove", "restart"} : OpReady(k)
    /\ step' = "next"
    /\ todo' = { i \in Head(queue).ids : Has(i) }
    /\ UNCHANGED <<fleetVars, procVars, queue, cur, reloadVars, wait, lifeVars, requests>>

\* removeWorker({force: false}): flag, signal, do not wait.
DrainRemoveNext(i) ==
    /\ Running /\ step = "next" /\ Head(queue).kind = "drainremove" /\ i \in todo
    /\ todo' = todo \ {i}
    /\ IF ~Has(i) THEN UNCHANGED <<fleetVars, sig>>
       ELSE LET o == At(i) IN
            /\ stopping' = [stopping EXCEPT ![o] = TRUE]
            /\ removing' = [removing EXCEPT ![o] = TRUE]
            /\ timer' = [timer EXCEPT ![o] = FALSE]
            /\ Kill({o}, "usr2")
            /\ fleet' = IF HasPid(o) THEN fleet ELSE fleet \ {o}
            /\ UNCHANGED child
    /\ UNCHANGED <<proc, owner, busy, caught, queue, step, cur,
                   reloadVars, wait, lifeVars, requests>>

\* stopWorker({force: true}) on behalf of remove and restart.
StopNext(i) ==
    /\ Running /\ step = "next" /\ Head(queue).kind \in {"remove", "restart"} /\ i \in todo
    /\ todo' = todo \ {i}
    /\ IF ~Has(i) THEN UNCHANGED <<stopping, timer, sig, wait, step, cur>>
       ELSE LET o == At(i) IN
            /\ stopping' = [stopping EXCEPT ![o] = TRUE]
            /\ timer' = [timer EXCEPT ![o] = FALSE]
            /\ Kill({o}, "term")
            /\ wait' = wait \cup WaitersOf({o}, "op")
            /\ cur' = o /\ step' = "stopping"
    /\ UNCHANGED <<fleet, child, removing, proc, owner, busy, caught, queue,
                   reloadVars, lifeVars, requests>>

Stopped(k) == Running /\ step = "stopping" /\ ~Waits("op") /\ Head(queue).kind = k

\* removeWorker deletes whatever the map has under the name.
Removed ==
    /\ Stopped("remove")
    /\ fleet' = { o \in fleet : IdOf[o] # IdOf[cur] }
    /\ step' = "next" /\ cur' = NoObj
    /\ UNCHANGED <<child, stopping, removing, timer, procVars, queue, todo,
                   reloadVars, wait, lifeVars, requests>>

\* Mutated form: the stopping flag is left set.
RestartedStopping ==
    /\ Stopped("restart")
    /\ \E c \in Fresh : Spawn(cur, c)
    /\ step' = "next" /\ cur' = NoObj
    /\ UNCHANGED <<fleet, stopping, removing, timer, queue, todo, reloadVars, wait,
                   lifeVars, requests>>

\* restartWorker starts the record it looked up, whatever the map has by now.
Restarted ==
    /\ Stopped("restart")
    /\ stopping' = [stopping EXCEPT ![cur] = FALSE]
    /\ \E c \in Fresh : Spawn(cur, c)
    /\ step' = "next" /\ cur' = NoObj
    /\ UNCHANGED <<fleet, removing, timer, queue, todo, reloadVars, wait,
                   lifeVars, requests>>

OpEnds ==
    /\ Running /\ step = "next" /\ todo = {}
    /\ step' = "idle"
    /\ queue' = Tail(queue)
    /\ UNCHANGED <<fleetVars, procVars, todo, cur, reloadVars, wait, lifeVars, requests>>

-----------------------------------------------------------------------------
(* Rolling reload: a coroutine beside the queue. *)

ReloadRequest(I) ==
    /\ life = "up" /\ requests > 0
    /\ rphase = "off"
    /\ I # {} /\ \A i \in I : Has(i)
    /\ requests' = requests - 1
    /\ rphase' = "next" /\ rtodo' = I
    /\ UNCHANGED <<fleetVars, procVars, opVars, robj, rchild, wait, lifeVars>>

ReloadOff == rphase' = "off" /\ rtodo' = {} /\ robj' = NoObj /\ rchild' = NoChild

\* The roll is over, or the daemon shuts down, or a target has vanished.
ReloadEndsRoll ==
    /\ Running /\ rphase = "next"
    /\ ShuttingDown \/ rtodo = {} \/ \E i \in rtodo : ~Has(i)
    /\ ReloadOff
    /\ UNCHANGED <<fleetVars, procVars, opVars, wait, lifeVars, requests>>

\* reloadWorker: drain the next worker, outside the queue.
ReloadDrains(i) ==
    /\ Running /\ rphase = "next" /\ ~ShuttingDown
    /\ i \in rtodo /\ Has(i)
    /\ LET o == At(i) IN
       /\ robj' = o /\ rchild' = child[o]
       /\ stopping' = [stopping EXCEPT ![o] = TRUE]
       /\ timer' = [timer EXCEPT ![o] = FALSE]
       /\ Kill({o}, "usr2")
       /\ wait' = wait \cup WaitersOf({o}, "reload")
    /\ rphase' = "draining" /\ rtodo' = rtodo \ {i}
    /\ UNCHANGED <<fleet, child, removing, proc, owner, busy, caught,
                   opVars, lifeVars, requests>>

\* Drained: the respawn takes its turn in the queue.
ReloadQueues ==
    /\ Running /\ rphase = "draining" /\ ~Waits("reload")
    /\ Enqueue([kind |-> "respawn", ids |-> {}, obj |-> NoObj])
    /\ rphase' = "queued"
    /\ UNCHANGED <<fleetVars, procVars, step, todo, cur, rtodo, robj, rchild, wait,
                   lifeVars, requests>>

\* Mutated form: respawn without looking whether the child was swapped.
MayRespawnAnyway == robj \in fleet /\ ~ShuttingDown

MayRespawn == robj \in fleet /\ ~ShuttingDown /\ child[robj] = rchild

\* Respawn unless somebody else acted on the worker meanwhile.
Respawn ==
    /\ OpReady("respawn")
    /\ queue' = Tail(queue)
    /\ IF MayRespawn
       THEN /\ stopping' = [stopping EXCEPT ![robj] = FALSE]
            /\ \E c \in Fresh : Spawn(robj, c) /\ rchild' = c
            /\ rphase' = "booting"
            /\ UNCHANGED <<rtodo, robj>>
       ELSE ReloadOff /\ UNCHANGED <<stopping, child, procVars>>
    /\ UNCHANGED <<fleet, removing, timer, step, todo, cur, wait, lifeVars, requests>>

\* Mutated form: the readiness wait has no deadline.
ReadyOverWhenServing == proc[rchild] = "up"

\* waitForWorkerReady returns: ready, dead, swapped, shutting down, or late.
ReadyOver == TRUE

\* The final gate: only a live, current child that nobody is stopping counts.
ReloadedWell ==
    child[robj] = rchild /\ ~stopping[robj] /\ ~ShuttingDown
    /\ proc[rchild] \in {"booting", "up", "dead", "refused"}

ReloadConfirms ==
    /\ Running /\ rphase = "booting"
    /\ ReadyOver
    /\ IF ReloadedWell THEN /\ rphase' = "next" /\ robj' = NoObj /\ rchild' = NoChild
                            /\ UNCHANGED rtodo
       ELSE ReloadOff
    /\ UNCHANGED <<fleetVars, procVars, opVars, wait, lifeVars, requests>>

-----------------------------------------------------------------------------
(* The end of the daemon. *)

Barrier == [kind |-> "barrier", ids |-> {}, obj |-> NoObj]

\* shutdown(): from a stop request (drain or force) or a signal (force).  It
\* waits for the operations queued so far.
Shutdown(force) ==
    /\ life = "up"
    /\ life' = "closing" /\ forced' = force
    /\ Enqueue(Barrier)
    /\ UNCHANGED <<fleetVars, procVars, step, todo, cur, reloadVars, wait, forcing, requests>>

\* A force stop during a drain escalates it, once.
Escalate ==
    /\ life \in {"closing", "stopping"} /\ ~forced /\ ~forcing
    /\ forcing' = TRUE
    /\ Kill(fleet, "term")
    /\ wait' = wait \cup WaitersOf(fleet, "escalate")
    /\ UNCHANGED <<fleetVars, proc, owner, busy, caught, opVars, reloadVars,
                   life, forced, requests>>

\* Mutated form: the drain waits on dead children too.
ShutdownWaiters == { [who |-> "shutdown", child |-> child[o]] : o \in fleet }

ShutdownWaits == WaitersOf(fleet, "shutdown")

\* Mutated form: the operations in flight are not awaited.
AtOnce ==
    /\ life = "closing"
    /\ queue' = SelectSeq(queue, LAMBDA op : op # Barrier)

\* The operations queued before the shutdown are over.
AtBarrier == OpReady("barrier") /\ queue' = Tail(queue)

\* stopWorker for every worker of the map, in parallel.
StopFleet ==
    /\ AtBarrier
    /\ life' = "stopping"
    /\ stopping' = [o \in Obj |-> stopping[o] \/ o \in fleet]
    /\ timer' = [o \in Obj |-> timer[o] /\ o \notin fleet]
    /\ Kill(fleet, IF forced THEN "term" ELSE "usr2")
    /\ wait' = wait \cup ShutdownWaits
    /\ UNCHANGED <<fleet, child, removing, proc, owner, busy, caught, step, todo, cur,
                   reloadVars, forced, forcing, requests>>

\* The memory of the daemon is gone with it.
Forget ==
    /\ fleet' = {} /\ child' = [o \in Obj |-> NoChild]
    /\ stopping' = [o \in Obj |-> FALSE] /\ removing' = [o \in Obj |-> FALSE]
    /\ timer' = [o \in Obj |-> FALSE]
    /\ queue' = << >> /\ step' = "idle" /\ todo' = {} /\ cur' = NoObj
    /\ ReloadOff
    /\ wait' = {}
    /\ UNCHANGED <<procVars, forced, forcing, requests>>

\* Every worker is stopped: answer the clients and exit.
DaemonExit ==
    /\ life = "stopping" /\ ~Waits("shutdown")
    /\ life' = "exited"
    /\ Forget

\* SIGKILL or a crash of the daemon.
DaemonCrash ==
    /\ Running
    /\ life' = "crashed"
    /\ Forget

-----------------------------------------------------------------------------
ChildNext(c) ==
    \/ Boot(c) \/ TakeJob(c) \/ JobEnds(c)
    \/ \E s \in Signal : Deliver(c, s)
    \/ DrainDone(c) \/ AbortDone(c) \/ ChildCrash(c) \/ OrphanReap(c)
    \/ ExitEvent(c)

OpNext ==
    \/ \E op \in Requests : Request(op)
    \/ \E o \in Obj : Add(o)
    \/ OpBegins \/ Removed \/ Restarted \/ OpEnds
    \/ \E i \in Id : DrainRemoveNext(i) \/ StopNext(i)

ReloadNext ==
    \/ \E I \in SUBSET Id : ReloadRequest(I)
    \/ ReloadEndsRoll \/ ReloadQueues \/ Respawn \/ ReloadConfirms
    \/ \E i \in Id : ReloadDrains(i)

EndNext ==
    \/ \E force \in BOOLEAN : Shutdown(force)
    \/ Escalate \/ StopFleet \/ DaemonExit \/ DaemonCrash

Next ==
    \/ \E c \in Child : ChildNext(c)
    \/ \E o \in Obj : RestartTimer(o)
    \/ \E x \in wait : GraceExpires(x)
    \/ OpNext \/ ReloadNext \/ EndNext

Spec == Init /\ [][Next]_vars

(***************************************************************************)
(* Fairness.  The daemon's event loop and the kernel make progress: events *)
(* and signals are delivered, timers fire, operations advance, an orphan   *)
(* polls its parent.  A worker process comes up or exits.  Nothing is      *)
(* assumed of clients, crashes, jobs, or of how long a force abort takes.  *)
(***************************************************************************)
Fairness ==
    /\ \A c \in Child :
          /\ WF_vars(Boot(c)) /\ WF_vars(DrainDone(c))
          /\ WF_vars(OrphanReap(c)) /\ WF_vars(ExitEvent(c))
          /\ \A s \in Signal : WF_vars(Deliver(c, s))
    /\ \A o \in Obj : WF_vars(RestartTimer(o))
    /\ \A x \in Waiter : WF_vars(GraceExpires(x))
    /\ WF_vars(\E o \in Obj : Add(o))
    /\ WF_vars(OpBegins) /\ WF_vars(Removed) /\ WF_vars(Restarted) /\ WF_vars(OpEnds)
    /\ WF_vars(\E i \in Id : DrainRemoveNext(i) \/ StopNext(i))
    /\ WF_vars(ReloadEndsRoll) /\ WF_vars(ReloadQueues) /\ WF_vars(Respawn)
    /\ WF_vars(ReloadConfirms)
    /\ WF_vars(\E i \in Id : ReloadDrains(i))
    /\ WF_vars(StopFleet) /\ WF_vars(DaemonExit)

LiveSpec == Spec /\ Fairness

\* The jobs in flight end: assumed only where a property says so.
JobsEnd == \A c \in Child : WF_vars(JobEnds(c))

-----------------------------------------------------------------------------
(* Properties. *)

\* A live child is the current child of its record, and its record is in the
\* fleet or was drain-removed: no two live children for one record, and none
\* outside the daemon's view but through the drain-remove path.
ChildrenAccounted ==
    \A c \in Child : Running /\ Alive(c) =>
        child[owner[c]] = c /\ (owner[c] \in fleet \/ removing[owner[c]])

\* A worker with the stopping flag, which suppresses its restart, is one that
\* somebody is still working on: no interleaving of a reload, a restart and a
\* remove leaves a worker down for good with nobody in charge.
StoppingIsAttended ==
    life = "up" => \A o \in fleet :
        stopping[o] => \/ removing[o] \/ cur = o
                       \/ rphase \in {"draining", "queued"} /\ robj = o

\* When the daemon exits, no child of a worker it still knows is alive, be it
\* that a restart, an add, a reload or a restart timer raced the shutdown.
ExitLeavesNone ==
    [][life' = "exited" /\ life # "exited" =>
         \A c \in Child : Alive(c) => removing[owner[c]] /\ owner[c] \notin fleet]_vars

\* A reload comes to an end once the jobs it waits for end, with or without
\* other operations on the same workers.
ReloadEnds == JobsEnd => (rphase # "off" ~> rphase = "off" \/ ~Running)

\* So does a graceful stop.
ShutdownEnds == JobsEnd => (life \in {"closing", "stopping"} ~> ~Running)

\* A force stop ends however long the jobs and their recovery take.
ForcedStopEnds == life = "closing" /\ forced ~> ~Running

\* A daemon that is gone, for whatever reason, leaves no worker behind.
OrphansReaped == ~Running ~> \A c \in Child : ~Alive(c)

\* What the comment on opQueue says: no untracked child is ever spawned.
ChildrenTracked ==
    \A c \in Child : Running /\ Alive(c) => owner[c] \in fleet /\ child[owner[c]] = c

=============================================================================
