----------------------------- MODULE MCJobSteps -----------------------------
(***************************************************************************)
(* One job from its lock to its log: the heartbeat of its lock             *)
(* (LockHeartbeat, whose variables these are), its git workspace, the      *)
(* handler that runs it, the capture of its agent, its live terminal, the  *)
(* namespace on disk it runs in and the log its worker writes.  Each       *)
(* module models what the others do to it, so one run checks them side by  *)
(* side: in a behaviour one of them goes on and the others are off, the    *)
(* heartbeat in an initial state.                                          *)
(***************************************************************************)
EXTENDS LockHeartbeat, TLC

CONSTANTS MaxCommits, MaxFaults, Activation, Idle, Probe, Resolution, Grace, HardCap, MaxUpdates,
          Job, MaxSaid, MaxTyped, Worker, MaxRuns, ReapAge, Child, Cap, MaxLine, MaxWritten, MaxLogFaults
VARIABLES part, req, pc, plan, ws, remote, pub, out, made, faults,
          kind, run, disk, table, engine,
          agent, pipe, cap, mon, obs, job,
          sess, sink, wire, screen, typed,
          proc, stage, ns, harness, kept,
          child, ring, logDisk, wrote, hist

G == INSTANCE GitWork
J == INSTANCE JobRun
P == INSTANCE AgentCapture
T == INSTANCE LiveTerminal
N == INSTANCE RunNamespace WITH Window <- ReapAge
L == INSTANCE LogRing WITH disk <- logDisk, MaxFaults <- MaxLogFaults

ASSUME JobAssumption ==
  /\ G!BoundAssumption /\ J!ActivationAssumption /\ P!WindowAssumption /\ P!LimitAssumption
  /\ T!TerminalAssumption /\ N!WindowAssumption /\ L!RingAssumption

gvars == <<req, pc, plan, ws, remote, pub, out, made, faults>>
jvars == <<kind, run, disk, table, engine>>
pvars == <<agent, pipe, cap, mon, obs, job>>
tvars == <<sess, sink, wire, screen, typed>>
nvars == <<proc, stage, ns, harness, kept>>
lvars == <<child, ring, logDisk, wrote, hist>>
jobVars == <<part, vars, gvars, jvars, pvars, tvars, nvars, lvars>>

Off == "off"
NoGit == /\ req = Off /\ pc = Off /\ plan = Off /\ ws = Off /\ remote = Off /\ pub = Off
         /\ out = Off /\ made = Off /\ faults = Off
NoJob == kind = Off /\ run = Off /\ disk = Off /\ table = Off /\ engine = Off
NoCapture == agent = Off /\ pipe = Off /\ cap = Off /\ mon = Off /\ obs = Off /\ job = Off
NoTerminal == sess = Off /\ sink = Off /\ wire = Off /\ screen = Off /\ typed = Off
NoNamespace == proc = Off /\ stage = Off /\ ns = Off /\ harness = Off /\ kept = Off
NoLog == child = Off /\ ring = Off /\ logDisk = Off /\ wrote = Off /\ hist = Off

(* A base of the job comes before its baseRef; a plain job does what a      *)
(* repository job does, and less.                                           *)
GitInit == G!GInit /\ (req.base = G!None \/ req.baseRef = G!None)
RunInit == J!JInit /\ (kind = [mode |-> "container", leased |-> TRUE] \/ kind.mode = "repo")

JobInit ==
  /\ part \in {"lock", "git", "job", "capture", "terminal", "namespace", "log"}
  /\ Init /\ (part # "lock" => lockUntil = 1)
  /\ IF part = "git" THEN GitInit ELSE NoGit
  /\ IF part = "job" THEN RunInit ELSE NoJob
  /\ IF part = "capture" THEN P!PInit ELSE NoCapture
  /\ IF part = "terminal" THEN T!TInit ELSE NoTerminal
  /\ IF part = "namespace" THEN N!NInit ELSE NoNamespace
  /\ IF part = "log" THEN L!LInit ELSE NoLog

InLock == part = "lock" /\ UNCHANGED <<part, gvars, jvars, pvars, tvars, nvars, lvars>>
InGit == part = "git" /\ UNCHANGED <<part, vars, jvars, pvars, tvars, nvars, lvars>>
InJob == part = "job" /\ UNCHANGED <<part, vars, gvars, pvars, tvars, nvars, lvars>>
InCapture == part = "capture" /\ UNCHANGED <<part, vars, gvars, jvars, tvars, nvars, lvars>>
InTerminal == part = "terminal" /\ UNCHANGED <<part, vars, gvars, jvars, pvars, nvars, lvars>>
InNamespace == part = "namespace" /\ UNCHANGED <<part, vars, gvars, jvars, pvars, tvars, lvars>>
InLog == part = "log" /\ UNCHANGED <<part, vars, gvars, jvars, pvars, tvars, nvars>>

LockStep ==
  \/ InLock /\ Tick
  \/ InLock /\ EngineExtends
  \/ InLock /\ EngineDenies
  \/ InLock /\ EngineErrs
  \/ InLock /\ Reclaim
  \/ InLock /\ ExtendOk
  \/ InLock /\ NotStarted
  \/ InLock /\ Superseded
  \/ InLock /\ Beat
  \/ InLock /\ RetryUnlessLapsed
  \/ InLock /\ AgentFinishes
GitStep ==
  \/ InGit /\ G!Clone
  \/ InGit /\ G!Checkout
  \/ InGit /\ G!Baseline
  \/ InGit /\ G!ChooseBranch
  \/ InGit /\ G!ProvisionFails
  \/ InGit /\ G!AgentCommit
  \/ InGit /\ G!AgentSwitch
  \/ InGit /\ G!AgentPush
  \/ InGit /\ G!OtherMoves
  \/ InGit /\ G!AgentEnds
  \/ InGit /\ G!Scan
  \/ InGit /\ G!Decide
  \/ InGit /\ G!RefuseStrays
  \/ InGit /\ G!CheckStale
  \/ InGit /\ G!Push
  \/ InGit /\ G!VerifyPush
  \/ InGit /\ G!ReconcilePr
JobStep ==
  \/ InJob /\ J!LoseLease
  \/ InJob /\ J!Prune
  \/ InJob /\ \E r \in Activation : J!Start(r)
  \/ InJob /\ \E r \in Activation : J!Abort(r)
  \/ InJob /\ \E r \in Activation : J!SetupAborted(r)
  \/ InJob /\ \E r \in Activation : J!ResolvePrompt(r)
  \/ InJob /\ \E r \in Activation : J!ResolveSecrets(r)
  \/ InJob /\ \E r \in Activation : J!ActivateProducer(r)
  \/ InJob /\ \E r \in Activation : J!ResumeFromHistory(r)
  \/ InJob /\ \E r \in Activation : J!ProvisionRunDir(r)
  \/ InJob /\ \E r \in Activation : J!SetupCheckpoints(r)
  \/ InJob /\ \E r \in Activation : J!OpenRun(r)
  \/ InJob /\ \E r \in Activation : J!Spawn(r)
  \/ InJob /\ \E r \in Activation : J!AgentEnds(r)
  \/ InJob /\ \E r \in Activation : J!Throws(r)
  \/ InJob /\ \E r \in Activation : J!FlushFailed(r)
  \/ InJob /\ \E r \in Activation : J!Recheck(r)
  \/ InJob /\ \E r \in Activation : J!Nudge(r)
  \/ InJob /\ \E r \in Activation : J!Drain(r)
  \/ InJob /\ \E r \in Activation : J!Finalize(r)
  \/ InJob /\ \E r \in Activation : J!CloseCheckpoints(r)
  \/ InJob /\ \E r \in Activation : J!CleanUp(r)
  \/ InJob /\ \E r \in Activation : J!CloseRelay(r)
  \/ InJob /\ \E r \in Activation : J!Report(r)
  \/ InJob /\ \E r \in Activation : J!Settle(r)
  \/ InJob /\ \E r \in Activation : J!SettleRunError(r)
  \/ InJob /\ \E r \in Activation : J!Leave(r)
  \/ InJob /\ \E r \in Activation : J!ShedAnswered(r)
CaptureStep ==
  \/ InCapture /\ P!AgentUpdate
  \/ InCapture /\ P!AgentAnswer
  \/ InCapture /\ P!AgentWritesResult
  \/ InCapture /\ P!AgentExits
  \/ InCapture /\ P!KidStarts
  \/ InCapture /\ P!KidEnds
  \/ InCapture /\ P!Tick
  \/ InCapture /\ P!ReadOutput
  \/ InCapture /\ P!ReadFrame
  \/ InCapture /\ P!SteerAgent
  \/ InCapture /\ P!OneShotCloses
  \/ InCapture /\ P!PtyExits
  \/ InCapture /\ P!AcpCloses
  \/ InCapture /\ P!GraceOver
  \/ InCapture /\ P!TimeOut
  \/ InCapture /\ P!Aborted
  \/ InCapture /\ P!SpawnFails
  \/ InCapture /\ P!Elapse
  \/ InCapture /\ P!AfterTurn
  \/ InCapture /\ P!Report
TerminalStep ==
  \/ InTerminal /\ \E j \in Job : T!Open(j)
  \/ InTerminal /\ \E j \in Job : T!Spawn(j)
  \/ InTerminal /\ \E j \in Job : T!AgentWrites(j)
  \/ InTerminal /\ \E j \in Job : T!Read(j)
  \/ InTerminal /\ \E j \in Job : T!Finish(j)
  \/ InTerminal /\ \E j \in Job : T!Close(j)
  \/ InTerminal /\ \E j \in Job : T!UserTypes(j)
  \/ InTerminal /\ T!SocketOpens
  \/ InTerminal /\ T!SocketDrops
  \/ InTerminal /\ T!Establish
NamespaceStep ==
  \/ InNamespace /\ N!Tick
  \/ InNamespace /\ \E w \in Worker : N!Allocate(w)
  \/ InNamespace /\ \E w \in Worker : N!RecordOwner(w)
  \/ InNamespace /\ \E w \in Worker, r \in Activation : N!StartJob(w, r)
  \/ InNamespace /\ \E w \in Worker, r \in Activation : N!AbandonSetup(w, r)
  \/ InNamespace /\ \E w \in Worker, r \in Activation : N!WriteMarker(w, r)
  \/ InNamespace /\ \E w \in Worker, r \in Activation : N!Spawn(w, r)
  \/ InNamespace /\ \E w \in Worker, r \in Activation : N!Nudge(w, r)
  \/ InNamespace /\ \E w \in Worker, r \in Activation, n \in {1, 2} : N!RecordPid(w, r, n)
  \/ InNamespace /\ \E h \in harness : N!HarnessEnds(h)
  \/ InNamespace /\ \E w \in Worker, r \in Activation : N!EndJob(w, r)
  \/ InNamespace /\ \E w \in Worker : N!Crash(w)
  \/ InNamespace /\ \E w \in Worker : N!ReapOwn(w)
  \/ InNamespace /\ \E w, t \in Worker : N!Judge(w, t)
  \/ InNamespace /\ \E w, t \in Worker : N!TakeLock(w, t)
  \/ InNamespace /\ \E w, t \in Worker : N!Reclaim(w, t)
LogStep ==
  \/ InLog /\ \E c \in Child : L!Spawn(c)
  \/ InLog /\ \E c \in Child : L!Exit(c)
  \/ InLog /\ \E c \in Child : L!CloseRing(c)
  \/ InLog /\ \E c \in Child, len \in 1..MaxLine : L!Write(c, len)
  \/ InLog /\ \E c \in Child, len \in 1..MaxLine : L!WriteRotating(c, len)
  \/ InLog /\ \E c \in Child, len \in 1..MaxLine : L!WriteUnrotated(c, len)
  \/ InLog /\ \E c \in Child, len \in 1..MaxLine : L!WriteFails(c, len)

JobNext == LockStep \/ GitStep \/ JobStep \/ CaptureStep \/ TerminalStep \/ NamespaceStep \/ LogStep
JobSpec == JobInit /\ [][JobNext]_jobVars

-----------------------------------------------------------------------------
(* The properties of the parts, stated and explained in their modules;      *)
(* those of LockHeartbeat go by their own names.                            *)

(* Only the namespaces know the workers, and all of them alike.             *)
Workers == Permutations(Worker)

(* The part that goes on keeps its types.                                   *)
JobTypes ==
  CASE part = "lock" -> TypeOK [] part = "git" -> G!GTypeOK [] part = "job" -> J!JTypeOK
    [] part = "capture" -> P!PTypeOK [] part = "terminal" -> T!TTypeOK
    [] part = "namespace" -> N!NTypeOK [] part = "log" -> L!LTypeOK

(* GitWork: no commit of the agent disappears unsaid, none lands on the base. *)
NothingLost == part = "git" => G!NothingLost
OffTheBase == part = "git" => G!OffTheBase
(* JobRun: an older run does not disturb the records of a newer one, a      *)
(* handler leaves nothing behind, an aborted run does not settle.           *)
GhostIsNewest == part = "job" => J!GhostIsNewest
LeavesNothing == part = "job" => J!LeavesNothing
AbortYields == [][part = "job" => J!SettlesUnaborted]_jobVars
(* AgentCapture: the idle kill hits only what hangs, success is earned, and *)
(* work that was cut off is not called completed.                           *)
IdleKillIsFair == part = "capture" => P!IdleKillIsFair
OkIsEarned == part = "capture" => P!OkIsEarned
NoFalseCompletion == part = "capture" => P!NoFalseCompletion
(* LiveTerminal: nothing follows the close marker of a transcript.          *)
CloseIsTerminal == part = "terminal" => T!CloseIsTerminal
(* RunNamespace: no reaper takes what is in use or was just preserved.      *)
NeverUnderUse == [][part = "namespace" => N!TakesUnused]_jobVars
(* LogRing: the files hold the newest output without a gap.                 *)
LogIsATail == part = "log" => L!LogIsATail
=============================================================================
