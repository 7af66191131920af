--------------------------- MODULE JobStepsProofs ---------------------------
(***************************************************************************)
(* Theorems about the parts of a job, for any constants.                   *)
(*                                                                         *)
(* Lock: for every interval, timeout and window with Interval < Window, a  *)
(* run goes on for less than two timeouts after its lock; and, when the    *)
(* window is at least 2 * Interval + Timeout, as workAgent's is, one       *)
(* missed beat does not end it unless the extend hung up to its deadline.  *)
(* The inductive invariant ties the three clocks together.                 *)
(* lastOk is at most a timeout later than the moment the engine counted    *)
(* from, so lockUntil >= lastOk + Window - Timeout; a beat is only begun   *)
(* while lastOk + Window is ahead; and a beat lasts at most a timeout.     *)
(*                                                                         *)
(* Then these, and the theorems of JobRunProofs, are carried over to the   *)
(* composition that TLC checks: it takes no step that the parts do not.    *)
(* The live terminal is proved about here; with the invariants of the      *)
(* workspaces and of the captures, every part keeps its types.             *)
(***************************************************************************)
EXTENDS WorkspaceProofs, CaptureProofs

JP == INSTANCE JobRunProofs

-----------------------------------------------------------------------------
(* The lock of a dispatched job.                                            *)

\* The engine counted its window from a moment within the awaited extend.
TakenInTime == call = "taken" => lockUntil >= since + Window

\* The lock outlives lastOk by the window less one timeout.
LockFollowsOk == Running => lockUntil + Timeout >= lastOk + Window

\* Where the clock stands within a sleep and within a beat.
BeatInWindow ==
    /\ lastOk <= now /\ since <= now
    /\ beat = "asleep" =>
          /\ (since - lastOk) + Interval < Window
          /\ now <= since + Interval
          /\ misses = 0 => since = lastOk
    /\ beat = "extending" =>
          /\ since - lastOk < Window
          /\ now <= since + Timeout
          /\ misses = 0 => since = lastOk + Interval
    /\ beat = "winner" => now <= since + Timeout

\* An extend is under way only while one is awaited.
CallsAreAwaited == call # "none" => Calling

IInv == TypeOK /\ TakenInTime /\ LockFollowsOk /\ BeatInWindow /\ CallsAreAwaited

\* The first state of a dispatched job satisfies the invariant.
LEMMA InitIInv == Init => IInv
<1> SUFFICES ASSUME Init PROVE IInv
  OBVIOUS
<1> USE HeartbeatAssumption DEF Init
<1>1. TypeOK
  <2>1. stray \in BOOLEAN
    BY Zenon
  <2>2. lockUntil \in Nat
    OBVIOUS
  <2>3. QED
    BY <2>1, <2>2 DEF TypeOK
<1>2. TakenInTime
  BY DEF TakenInTime
<1>3. LockFollowsOk
  BY DEF LockFollowsOk, Running
<1>4. BeatInWindow
  BY DEF BeatInWindow
<1>5. CallsAreAwaited
  BY DEF CallsAreAwaited, Calling
<1>6. QED
  BY <1>1, <1>2, <1>3, <1>4, <1>5 DEF IInv

\* Every step of the engine, of the clock and of the fiber preserves it.
LEMMA NextIInv == IInv /\ [Next]_vars => IInv'
<1> SUFFICES ASSUME IInv, [Next]_vars PROVE IInv'
  OBVIOUS
<1> USE HeartbeatAssumption
        DEF IInv, TypeOK, TakenInTime, LockFollowsOk, BeatInWindow,
            CallsAreAwaited, Running, Calling
<1>1. CASE Tick
  BY <1>1, SMT DEF Tick, engineVars
<1>2. CASE EngineExtends
  <2>1. stray' \in BOOLEAN
    BY <1>2, Zenon DEF EngineExtends
  <2>2. QED
    BY <1>2, <2>1, SMT DEF EngineExtends
<1>3. CASE EngineDenies
  BY <1>3, SMT DEF EngineDenies, engineVars
<1>4. CASE EngineErrs
  BY <1>4, SMT DEF EngineErrs, engineVars
<1>5. CASE Reclaim
  BY <1>5, SMT DEF Reclaim
<1>6. CASE ExtendOk
  BY <1>6, SMT DEF ExtendOk, Sleep, engineVars
<1>7. CASE NotStarted
  BY <1>7, SMT DEF NotStarted, Missed, Over, LeaveStray, engineVars
<1>8. CASE Superseded
  BY <1>8, SMT DEF Superseded, Over, engineVars
<1>9. CASE Beat
  BY <1>9, SMT DEF Beat, engineVars
<1>10. CASE RetryUnlessLapsed
  BY <1>10, SMT DEF RetryUnlessLapsed, Missed, WouldLapse, Over, Sleep,
                    LeaveStray, engineVars
<1>11. CASE AgentFinishes
  BY <1>11, SMT DEF AgentFinishes, Over, LeaveStray, engineVars
<1>12. CASE UNCHANGED vars
  BY <1>12, SMT DEF vars
<1>13. QED
  BY <1>1, <1>2, <1>3, <1>4, <1>5, <1>6, <1>7, <1>8, <1>9, <1>10, <1>11,
     <1>12 DEF Next

\* The invariant holds throughout every behaviour of the specification.
LEMMA SpecIInv == Spec => []IInv
<1>1. Init => IInv
  BY InitIInv
<1>2. IInv /\ [Next]_vars => IInv'
  BY NextIInv
<1>3. QED
  BY <1>1, <1>2, PTL DEF Spec

\* While the agent runs, the clock is less than two timeouts past its lock.
LEMMA LockEndsRun == IInv => OverrunBounded
BY HeartbeatAssumption DEF IInv, TypeOK, LockFollowsOk, BeatInWindow, OverrunBounded, Running

\* The agent is stopped less than two extend timeouts after its lock ran out,
\* whatever becomes of the heartbeat's extends.
THEOREM OverrunIsBounded == Spec => []OverrunBounded
<1>1. IInv => OverrunBounded
  BY LockEndsRun
<1>2. QED
  BY <1>1, SpecIInv, PTL

\* The variables keep their types.
THEOREM TypeCorrect == Spec => []TypeOK
<1>1. IInv => TypeOK
  BY DEF IInv
<1>2. QED
  BY <1>1, SpecIInv, PTL

\* A beat missed with none missed before leaves room for another.
LEMMA LapseTakesTwo ==
    ASSUME 2 * Interval + Timeout <= Window, IInv, [Next]_vars
    PROVE  [OnlyAHangEnds]_vars
<1> SUFFICES ASSUME IInv, Next, why' = "lapsed", why # "lapsed", now # since + Timeout
             PROVE  misses' >= 2
  BY DEF vars, OnlyAHangEnds
<1>1. RetryUnlessLapsed
  BY DEF Next, Tick, EngineExtends, EngineDenies, EngineErrs, Reclaim, ExtendOk,
         NotStarted, Superseded, Beat, AgentFinishes, Over
<1>2. WouldLapse
  BY <1>1 DEF RetryUnlessLapsed, Sleep
<1>3. misses # 0
  BY <1>1, <1>2, HeartbeatAssumption, SMT
  DEF RetryUnlessLapsed, WouldLapse, IInv, TypeOK, BeatInWindow
<1>4. QED
  BY <1>1, <1>3, SMT DEF RetryUnlessLapsed, IInv, TypeOK

\* A window of two intervals and a timeout or more, as workAgent's is, forgives
\* one missed beat that was answered before its deadline.
THEOREM OneBlipIsTolerated ==
    ASSUME 2 * Interval + Timeout <= Window
    PROVE  Spec => BlipTolerated
<1>1. IInv /\ [Next]_vars => [OnlyAHangEnds]_vars
  BY LapseTakesTwo
<1>2. QED
  BY <1>1, SpecIInv, PTL DEF Spec, BlipTolerated

-----------------------------------------------------------------------------
(* Both instances of a module have the same actions.                        *)

LEMMA HandlerActions ==
  ASSUME NEW r \in Activation, InJob /\ (\/ J!Start(r) \/ J!Abort(r) \/ J!SetupAborted(r)
                                         \/ J!ResolvePrompt(r) \/ J!ResolveSecrets(r) \/ J!ActivateProducer(r)
                                         \/ J!ResumeFromHistory(r) \/ J!ProvisionRunDir(r) \/ J!SetupCheckpoints(r)
                                         \/ J!OpenRun(r) \/ J!Spawn(r) \/ J!AgentEnds(r)
                                         \/ J!FlushFailed(r) \/ J!Throws(r) \/ J!Recheck(r) \/ J!Nudge(r)
                                         \/ J!Drain(r) \/ J!Finalize(r) \/ J!CloseCheckpoints(r)
                                         \/ J!CleanUp(r) \/ J!CloseRelay(r) \/ J!Report(r)
                                         \/ J!Settle(r) \/ J!SettleRunError(r) \/ J!Leave(r)
                                         \/ J!ShedAnswered(r))
  PROVE  JP!JStep(r)
<1>1. J!Start(r) => JP!Start(r)
  BY DEF J!Start, JP!Start, J!Nobody, JP!Nobody, J!Goes, JP!Goes, J!RecordJobStart,
       JP!RecordJobStart
<1>2. J!Abort(r) => JP!Abort(r)
  BY DEF J!Abort, JP!Abort, J!Same, JP!Same
<1>3. J!SetupAborted(r) => JP!SetupAborted(r)
  BY DEF J!SetupAborted, JP!SetupAborted, J!Yield, JP!Yield, J!WithoutRunDir, JP!WithoutRunDir,
       J!Disk, JP!Disk
<1>4. J!ResolvePrompt(r) => JP!ResolvePrompt(r)
  BY DEF J!ResolvePrompt, JP!ResolvePrompt, J!Goes, JP!Goes, J!Same, JP!Same,
       J!Fails, JP!Fails, J!WithoutRecord, JP!WithoutRecord, J!SameToken,
       JP!SameToken, J!Nobody, JP!Nobody
<1>5. J!ResolveSecrets(r) => JP!ResolveSecrets(r)
  BY DEF J!ResolveSecrets, JP!ResolveSecrets, J!Goes, JP!Goes, J!Container, JP!Container,
       J!Disk, JP!Disk, J!Fails, JP!Fails, J!WithoutRecord, JP!WithoutRecord, J!SameToken,
       JP!SameToken, J!Nobody, JP!Nobody
<1>6. J!ActivateProducer(r) => JP!ActivateProducer(r)
  BY DEF J!ActivateProducer, JP!ActivateProducer, J!Same, JP!Same
<1>7. J!ResumeFromHistory(r) => JP!ResumeFromHistory(r)
  BY DEF J!ResumeFromHistory, JP!ResumeFromHistory, J!Goes, JP!Goes, J!Same, JP!Same
<1>8. J!ProvisionRunDir(r) => JP!ProvisionRunDir(r)
  BY DEF J!ProvisionRunDir, JP!ProvisionRunDir, J!Goes, JP!Goes, J!Container, JP!Container,
       J!Fails, JP!Fails, J!WithoutRecord, JP!WithoutRecord, J!SameToken,
       JP!SameToken, J!Nobody, JP!Nobody,
       J!WithoutRunDir, JP!WithoutRunDir, J!Disk, JP!Disk
<1>9. J!SetupCheckpoints(r) => JP!SetupCheckpoints(r)
  BY DEF J!SetupCheckpoints, JP!SetupCheckpoints, J!Same, JP!Same
<1>10. J!OpenRun(r) => JP!OpenRun(r)
  BY DEF J!OpenRun, JP!OpenRun, J!Disk, JP!Disk
<1>11. J!Spawn(r) => JP!Spawn(r)
  BY DEF J!Spawn, JP!Spawn, J!Nobody, JP!Nobody, J!Disk, JP!Disk
<1>12. J!AgentEnds(r) => JP!AgentEnds(r)
  BY DEF J!AgentEnds, JP!AgentEnds, J!Same, JP!Same
<1>13. J!FlushFailed(r) => JP!FlushFailed(r)
  BY DEF J!FlushFailed, JP!FlushFailed, J!Goes, JP!Goes, J!Same, JP!Same
<1>14. J!Recheck(r) => JP!Recheck(r)
  BY DEF J!Recheck, JP!Recheck, J!Same, JP!Same
<1>15. J!Nudge(r) => JP!Nudge(r)
  BY DEF J!Nudge, JP!Nudge, J!Same, JP!Same
<1>16. J!Drain(r) => JP!Drain(r)
  BY DEF J!Drain, JP!Drain, J!Goes, JP!Goes, J!Same, JP!Same
<1>17. J!Finalize(r) => JP!Finalize(r)
  BY DEF J!Finalize, JP!Finalize, J!Same, JP!Same
<1>18. J!CloseCheckpoints(r) => JP!CloseCheckpoints(r)
  BY DEF J!CloseCheckpoints, JP!CloseCheckpoints, J!Same, JP!Same
<1>19. J!CleanUp(r) => JP!CleanUp(r)
  BY DEF J!CleanUp, JP!CleanUp, J!Goes, JP!Goes, J!Nobody, JP!Nobody, J!Disk, JP!Disk
<1>20. J!CloseRelay(r) => JP!CloseRelay(r)
  BY DEF J!CloseRelay, JP!CloseRelay, J!Same, JP!Same
<1>21. J!Report(r) => JP!Report(r)
  BY DEF J!Report, JP!Report, J!Disk, JP!Disk
<1>22. J!Settle(r) => JP!Settle(r)
  BY DEF J!Settle, JP!Settle, J!Call, JP!Call, J!Accepts, JP!Accepts, J!Verdict, JP!Verdict, J!Goes,
       JP!Goes, J!RecordSettlementPending, JP!RecordSettlementPending, J!Nobody, JP!Nobody
<1>23. J!SettleRunError(r) => JP!SettleRunError(r)
  BY DEF J!SettleRunError, JP!SettleRunError, J!Goes, JP!Goes, J!Call, JP!Call, J!Accepts,
       JP!Accepts, J!Verdict, JP!Verdict, J!RecordSettlementPending, JP!RecordSettlementPending,
       J!Nobody, JP!Nobody
<1>24. J!Leave(r) => JP!Leave(r)
  BY DEF J!Leave, JP!Leave, J!WithoutRecord, JP!WithoutRecord, J!Goes, JP!Goes, J!Nobody, JP!Nobody, J!SameToken, JP!SameToken
<1>25. J!Throws(r) => JP!Throws(r)
  BY DEF J!Throws, JP!Throws, J!Same, JP!Same
<1>26. J!ShedAnswered(r) => JP!ShedAnswered(r)
  BY DEF J!ShedAnswered, JP!ShedAnswered, J!Accepts, JP!Accepts, J!Nobody, JP!Nobody,
       J!RecordSettlementPending, JP!RecordSettlementPending
<1> QED BY <1>1, <1>2, <1>3, <1>4, <1>5, <1>6, <1>7, <1>8, <1>9, <1>10, <1>11, <1>12, <1>13,
           <1>14, <1>15, <1>16, <1>17, <1>18, <1>19, <1>20, <1>21, <1>22, <1>23, <1>24,
           <1>25, <1>26 DEF JP!JStep

LEMMA JobStepIsOne == ASSUME JobStep PROVE JP!JNext
<1>1. CASE J!LoseLease
  BY <1>1 DEF J!LoseLease, JP!LoseLease, JP!JNext, J!Nobody, JP!Nobody
<1>2. CASE J!Prune
  BY <1>2 DEF J!Prune, JP!Prune, JP!JNext, J!Nobody, JP!Nobody
<1>3. ASSUME NEW r \in Activation, JP!JStep(r) PROVE JP!JNext
  BY <1>3 DEF JP!JNext
<1> QED BY <1>1, <1>2, <1>3, HandlerActions DEF JobStep

(* The handler goes on by its own steps only.                               *)
LEMMA Steps == ASSUME [JobNext]_jobVars PROVE part' = part /\ [JP!JNext]_JP!jvars
<1>1. CASE JobStep
  <2>1. part' = part
    BY <1>1 DEF JobStep, InJob
  <2> QED BY <1>1, <2>1, JobStepIsOne
<1>2. CASE ~JobStep
  <2>1. part' = part /\ UNCHANGED jvars
    BY <1>2 DEF JobNext, LockStep, GitStep, CaptureStep, TerminalStep, NamespaceStep, LogStep, InLock,
       InGit, InCapture, InTerminal, InNamespace, InLog, jobVars
  <2> QED BY <2>1 DEF jvars, JP!jvars
<1> QED BY <1>1, <1>2

-----------------------------------------------------------------------------
(* The inductive invariant of the handler, for the part that goes on.       *)
PartJob == part = "job" => JP!JInv /\ JP!LeftInv

LEMMA Activations == JP!ActivationAssumption
BY JobAssumption DEF J!ActivationAssumption, JP!ActivationAssumption

LEMMA PartJobInv == JobSpec => []PartJob
<1>1. ASSUME JobInit PROVE PartJob
  <2> SUFFICES ASSUME part = "job" PROVE JP!JInv /\ JP!LeftInv
    BY DEF PartJob
  <2>1. JP!JInit
    <3>1. J!JInit
      BY <1>1 DEF JobInit, RunInit
    <3> QED BY <3>1 DEF J!JInit, JP!JInit, J!Unstarted, JP!Unstarted, J!Nobody, JP!Nobody
  <2>2. JP!LeftInv
    BY <2>1 DEF JP!JInit, JP!Unstarted, JP!LeftInv, JP!Left
  <2> QED BY <2>1, <2>2, Activations, JP!JInitInv
<1>2. ASSUME PartJob, [JobNext]_jobVars PROVE PartJob'
  BY <1>2, Steps, Activations, JP!JStepInv, JP!LeftStep DEF PartJob
<1> QED BY <1>1, <1>2, PTL DEF JobSpec

(* recordSettlementPending and recordJobEnd keep the rows of a job about    *)
(* its newest run, whatever order the runs of any number of activations     *)
(* start, abort and end in.                                                 *)
THEOREM GhostStaysNewest == JobSpec => []GhostIsNewest
<1>1. PartJob => GhostIsNewest
  <2>1. JP!JInv => JP!GhostIsNewest
    BY DEF JP!JInv, JP!Rows, JP!GhostIsNewest
  <2>2. JP!GhostIsNewest => J!GhostIsNewest
    BY DEF JP!GhostIsNewest, J!GhostIsNewest, JP!Newest, J!Newest, JP!Nobody, J!Nobody
  <2> QED BY <2>1, <2>2 DEF PartJob, GhostIsNewest
<1> QED BY <1>1, PartJobInv, PTL

(* The finally block of the run handler and the exits before it: what they  *)
(* may leave is a run directory that is kept on purpose, a result directory *)
(* or a producer after an abort or an error, a producer after a failed      *)
(* setup; never a timer, a relay, a container id or a harness.              *)
THEOREM HandlersLeaveNothing == JobSpec => []LeavesNothing
<1>1. PartJob => LeavesNothing
  <2>1. JP!JInv /\ JP!LeftInv => JP!LeavesNothing
    BY JP!NothingIsLeft
  <2>2. JP!LeavesNothing => J!LeavesNothing
    BY DEF JP!LeavesNothing, J!LeavesNothing
  <2> QED BY <2>1, <2>2 DEF PartJob, LeavesNothing
<1> QED BY <1>1, PartJobInv, PTL

(* runner.run looks at the abort signal before it settles a failed run.     *)
THEOREM AbortedJobsYield == JobSpec => AbortYields
<1>1. PartJob /\ [JobNext]_jobVars => [part = "job" => J!SettlesUnaborted]_jobVars
  <2> SUFFICES ASSUME PartJob, [JobNext]_jobVars, part = "job", JP!jvars' # JP!jvars
      PROVE J!SettlesUnaborted
    <3>1. JP!jvars' = JP!jvars => J!SettlesUnaborted
      BY DEF J!SettlesUnaborted, JP!jvars
    <3> QED BY <3>1
  <2>1. JP!SettlesUnaborted
    BY Activations, Steps, JP!SettlesWhenAllowed DEF PartJob
  <2> QED BY <2>1 DEF J!SettlesUnaborted, JP!SettlesUnaborted
<1> QED BY <1>1, PartJobInv, PTL DEF JobSpec, AbortYields

(* A part that goes on leaves the lock as it is, or is the lock.            *)
LEMMA LockSteps == ASSUME [JobNext]_jobVars PROVE [Next]_vars
<1>1. CASE LockStep
  BY <1>1 DEF LockStep, Next
<1>2. CASE ~LockStep
  BY <1>2 DEF JobNext, GitStep, JobStep, CaptureStep, TerminalStep, NamespaceStep, LogStep, InGit,
              InJob, InCapture, InTerminal, InNamespace, InLog, jobVars
<1> QED BY <1>1, <1>2

(* The heartbeat of the dispatch in dispatch.ts gives the agent up in time. *)
THEOREM JobsEndWithTheirLock == JobSpec => []OverrunBounded
<1>1. JobInit => IInv
  BY InitIInv DEF JobInit
<1>2. IInv /\ [JobNext]_jobVars => IInv'
  BY LockSteps, NextIInv
<1>3. IInv => OverrunBounded
  BY LockEndsRun
<1> QED BY <1>1, <1>2, <1>3, PTL DEF JobSpec

(* And it forgives one missed beat that was answered before its deadline,   *)
(* in a window like the one workAgent configures.                           *)
THEOREM JobsTolerateOneBlip ==
  ASSUME 2 * Interval + Timeout <= Window
  PROVE  JobSpec => BlipTolerated
<1>1. JobInit => IInv
  BY InitIInv DEF JobInit
<1>2. IInv /\ [JobNext]_jobVars => IInv'
  BY LockSteps, NextIInv
<1>3. IInv /\ [JobNext]_jobVars => [OnlyAHangEnds]_vars
  BY LockSteps, LapseTakesTwo
<1> QED BY <1>1, <1>2, <1>3, PTL DEF JobSpec, BlipTolerated

-----------------------------------------------------------------------------
(* The live terminal.                                                       *)

(* What a transcript is made of.                                            *)
Chunk == {"open", "out", "close"}
Sessions == [pc : {"idle", "open", "live", "over", "closed"}, kind : {"pipe", "pty", "acp"},
             pipe : {<<>>, <<"out">>, <<"new">>}, said : 0..MaxSaid, asked : BOOLEAN,
             holds : BOOLEAN, freed : BOOLEAN]
TerminalTypes == T!TTypeOK /\ screen \in [Job -> Seq(Chunk)]

(* No transcript has a close marker before its session is closed.           *)
Unmarked ==
  \A j \in Job : sess[j].pc # "closed" => \A i \in DOMAIN screen[j] : screen[j][i] # "close"

TInv == TerminalTypes /\ Unmarked /\ T!CloseIsTerminal

(* A transcript stays as it was, or one without a marker gets a chunk that  *)
(* is its marker only if the session is closed with it.                     *)
Extends(j, chunk, closes) ==
  \/ UNCHANGED screen
  \/ /\ sess[j].pc # "closed" /\ screen' = [screen EXCEPT ![j] = Append(@, chunk)]
     /\ chunk \in Chunk /\ (chunk = "close" => closes)

LEMMA PublishExtends ==
  ASSUME NEW j \in Job, NEW chunk \in Chunk, T!Publish(j, chunk), sess[j].pc # "closed",
         NEW closes \in BOOLEAN, chunk = "close" => closes
  PROVE  Extends(j, chunk, closes)
BY DEF T!Publish, Extends

LEMMA ExtendingKeeps ==
  ASSUME TInv, NEW j \in Job, NEW chunk, Extends(j, chunk, sess'[j].pc = "closed"), T!TTypeOK',
         \A k \in Job : sess[k].pc = "closed" => sess'[k].pc = "closed"
  PROVE  TInv'
<1>1. CASE UNCHANGED screen
  BY <1>1 DEF TInv, TerminalTypes, Unmarked, T!CloseIsTerminal
<1>2. CASE ~UNCHANGED screen
  <2>1. /\ sess[j].pc # "closed" /\ screen' = [screen EXCEPT ![j] = Append(@, chunk)]
        /\ chunk \in Chunk /\ (chunk = "close" => sess'[j].pc = "closed")
    BY <1>2 DEF Extends
  <2>2. /\ screen' \in [Job -> Seq(Chunk)]
        /\ \A k \in Job : k # j => screen'[k] = screen[k]
        /\ screen'[j] = Append(screen[j], chunk) /\ screen[j] \in Seq(Chunk)
    BY <2>1 DEF TInv, TerminalTypes
  <2>3. /\ Len(screen'[j]) = Len(screen[j]) + 1
        /\ DOMAIN screen'[j] = 1..(Len(screen[j]) + 1) /\ DOMAIN screen[j] = 1..Len(screen[j])
        /\ Len(screen[j]) \in Nat
        /\ \A i \in 1..Len(screen[j]) : screen'[j][i] = screen[j][i]
        /\ screen'[j][Len(screen[j]) + 1] = chunk
    BY <2>2
  <2>4. \A i \in DOMAIN screen[j] : screen[j][i] # "close"
    BY <2>1 DEF TInv, Unmarked
  <2>5. \A i \in DOMAIN screen'[j] : screen'[j][i] = "close" => i = Len(screen'[j]) /\ chunk = "close"
    BY <2>3, <2>4
  <2>6. TerminalTypes'
    BY <2>2 DEF TerminalTypes
  <2>7. Unmarked'
    BY <2>1, <2>2, <2>5 DEF TInv, Unmarked
  <2>8. T!CloseIsTerminal'
    BY <2>2, <2>5 DEF TInv, T!CloseIsTerminal
  <2> QED BY <2>6, <2>7, <2>8 DEF TInv
<1> QED BY <1>1, <1>2

LEMMA Said == MaxSaid \in Nat
BY JobAssumption DEF T!TerminalAssumption

LEMMA TInitInv == T!TInit => TInv
<1> SUFFICES ASSUME T!TInit PROVE TInv
  OBVIOUS
<1>1. sess \in [Job -> Sessions]
  <2>1. T!Unopened \in Sessions
    BY Said DEF T!Unopened, Sessions
  <2> QED BY <2>1 DEF T!TInit
<1>2. screen \in [Job -> Seq(Chunk)]
  BY DEF T!TInit
<1> QED BY <1>1, <1>2 DEF T!TInit, TInv, TerminalTypes, T!TTypeOK, Sessions, Unmarked,
       T!CloseIsTerminal, T!Unopened

(* A step that puts a session of the same phase order in the place of one.  *)
LEMMA SessionStep ==
  ASSUME TInv, NEW j \in Job, NEW s \in Sessions, sess' = [sess EXCEPT ![j] = s],
         sess[j].pc = "closed" => s.pc = "closed",
         sink' \in Job \union {T!Nobody}, UNCHANGED wire
  PROVE  /\ T!TTypeOK' /\ sess'[j] = s
         /\ \A k \in Job : sess[k].pc = "closed" => sess'[k].pc = "closed"
<1>1. sess \in [Job -> Sessions]
  BY DEF TInv, TerminalTypes, T!TTypeOK, Sessions
<1>2. sess' \in [Job -> Sessions]
  BY <1>1
<1>3. T!TTypeOK'
  BY <1>2 DEF TInv, TerminalTypes, T!TTypeOK, Sessions
<1> QED BY <1>1, <1>3

LEMMA SessionType == ASSUME TInv, NEW j \in Job PROVE sess \in [Job -> Sessions] /\ sess[j] \in Sessions
BY DEF TInv, TerminalTypes, T!TTypeOK, Sessions

(* A session opens, and says so.                                            *)
LEMMA TOpenInv == ASSUME TInv, NEW j \in Job, T!Open(j) PROVE TInv'
<1>1. PICK how \in {"pipe", "pty", "acp"} :
        sess' = [sess EXCEPT ![j].pc = "open", ![j].kind = how, ![j].asked = how # "acp"]
  BY DEF T!Open
<1> DEFINE s == [sess[j] EXCEPT !.pc = "open", !.kind = how, !.asked = how # "acp"]
<1>2. s \in Sessions /\ s.pc = "open"
  BY SessionType DEF Sessions
<1>3. sess' = [sess EXCEPT ![j] = s]
  BY <1>1, SessionType
<1>4. sess[j].pc = "idle" /\ UNCHANGED <<sink, wire>> /\ T!Publish(j, "open")
  BY DEF T!Open
<1>5. sink' \in Job \union {T!Nobody}
  BY <1>4 DEF TInv, TerminalTypes, T!TTypeOK
<1>6. Extends(j, "open", sess'[j].pc = "closed")
  BY <1>4 DEF T!Publish, Extends, Chunk
<1> HIDE DEF s
<1> QED BY <1>2, <1>3, <1>4, <1>5, <1>6, SessionStep, ExtendingKeeps

(* Its agent starts, writes, and stops; nothing is said.                    *)
LEMMA TAgentInv ==
  ASSUME TInv, NEW j \in Job, T!Spawn(j) \/ T!AgentWrites(j) \/ T!Finish(j) PROVE TInv'
<1>1. sess[j].pc # "closed" /\ UNCHANGED <<wire, screen>> /\ sink' \in Job \union {T!Nobody}
  BY DEF T!Spawn, T!AgentWrites, T!Finish, T!AttachSteer, T!Detach, TInv, TerminalTypes, T!TTypeOK
<1>2. \E s \in Sessions : sess' = [sess EXCEPT ![j] = s]
  <2>1. CASE T!Spawn(j)
    <3> DEFINE s == [sess[j] EXCEPT !.pc = "live"]
               t == [s EXCEPT !.holds = TRUE]
    <3>1. s \in Sessions /\ t \in Sessions
      BY SessionType DEF Sessions
    <3>2. sess' = [sess EXCEPT ![j] = s] \/ sess' = [sess EXCEPT ![j] = t]
      BY <2>1, SessionType DEF T!Spawn, T!AttachSteer
    <3> HIDE DEF s, t
    <3> QED BY <3>1, <3>2
  <2>2. CASE T!AgentWrites(j)
    <3>1. PICK what \in {"out", "new"} :
            sess' = [sess EXCEPT ![j].pipe = <<what>>, ![j].said = @ + 1, ![j].asked = @ \/ what = "new"]
      BY <2>2 DEF T!AgentWrites
    <3> DEFINE s == [sess[j] EXCEPT !.pipe = <<what>>, !.said = @ + 1, !.asked = @ \/ what = "new"]
    <3>2. sess[j].said + 1 \in 0..MaxSaid
      <4>1. sess[j].said \in 0..MaxSaid
        BY SessionType DEF Sessions
      <4>2. sess[j].said < MaxSaid
        BY <2>2 DEF T!AgentWrites
      <4> QED BY <4>1, <4>2, Said
    <3>3. <<what>> \in {<<>>, <<"out">>, <<"new">>} /\ (sess[j].asked \/ what = "new") \in BOOLEAN
      BY <3>1
    <3>4. s \in Sessions
      BY <3>2, <3>3, SessionType DEF Sessions
    <3>5. sess' = [sess EXCEPT ![j] = s]
      BY <3>1, SessionType
    <3> HIDE DEF s
    <3> QED BY <3>4, <3>5
  <2>3. CASE T!Finish(j)
    <3>1. PICK aborted \in BOOLEAN :
            sess' = [sess EXCEPT ![j].pc = "over", ![j].holds = FALSE, ![j].freed = aborted]
      BY <2>3 DEF T!Finish
    <3> DEFINE s == [sess[j] EXCEPT !.pc = "over", !.holds = FALSE, !.freed = aborted]
    <3>2. s \in Sessions
      BY SessionType DEF Sessions
    <3>3. sess' = [sess EXCEPT ![j] = s]
      BY <3>1, SessionType
    <3> HIDE DEF s
    <3> QED BY <3>2, <3>3
  <2> QED BY <2>1, <2>2, <2>3
<1>3. Extends(j, "out", sess'[j].pc = "closed")
  BY <1>1 DEF Extends
<1> QED BY <1>1, <1>2, <1>3, SessionStep, ExtendingKeeps

(* Its output is read, and relayed unless the session was closed.           *)
LEMMA TReadInv == ASSUME TInv, NEW j \in Job, T!Read(j) PROVE TInv'
<1> DEFINE s == [sess[j] EXCEPT !.pipe = <<>>]
           t == [s EXCEPT !.holds = TRUE]
<1>1. s \in Sessions /\ t \in Sessions /\ s.pc = sess[j].pc /\ t.pc = sess[j].pc
  BY SessionType DEF Sessions
<1>2. sess' = [sess EXCEPT ![j] = s] \/ sess' = [sess EXCEPT ![j] = t]
  BY SessionType DEF T!Read, T!AttachSteer
<1>3. UNCHANGED wire /\ sink' \in Job \union {T!Nobody}
  BY DEF T!Read, T!AttachSteer, TInv, TerminalTypes, T!TTypeOK
<1>4. Extends(j, "out", sess'[j].pc = "closed")
  BY DEF T!Read, T!RelayUpdate, T!Publish, Extends, Chunk
<1> HIDE DEF s, t
<1>5. /\ T!TTypeOK'
      /\ \A k \in Job : sess[k].pc = "closed" => sess'[k].pc = "closed"
  <2>1. CASE sess' = [sess EXCEPT ![j] = s]
    BY <1>1, <1>3, <2>1, SessionStep
  <2>2. CASE sess' = [sess EXCEPT ![j] = t]
    BY <1>1, <1>3, <2>2, SessionStep
  <2> QED BY <1>2, <2>1, <2>2
<1> QED BY <1>4, <1>5, ExtendingKeeps

(* The session is closed with its marker.                                   *)
LEMMA TCloseInv == ASSUME TInv, NEW j \in Job, T!Close(j) PROVE TInv'
<1> DEFINE s == [sess[j] EXCEPT !.pc = "closed", !.holds = FALSE]
<1>1. s \in Sessions /\ s.pc = "closed"
  BY SessionType DEF Sessions
<1>2. /\ sess' = [sess EXCEPT ![j] = s] /\ sess[j].pc # "closed" /\ UNCHANGED wire
      /\ T!Publish(j, "close")
  BY SessionType DEF T!Close
<1>3. sink' \in Job \union {T!Nobody}
  BY DEF T!Close, T!Detach, TInv, TerminalTypes, T!TTypeOK
<1> HIDE DEF s
<1>4. /\ T!TTypeOK' /\ sess'[j].pc = "closed"
      /\ \A k \in Job : sess[k].pc = "closed" => sess'[k].pc = "closed"
  BY <1>1, <1>2, <1>3, SessionStep
<1>5. Extends(j, "close", sess'[j].pc = "closed")
  BY <1>2, <1>4 DEF T!Publish, Extends, Chunk
<1> QED BY <1>4, <1>5, ExtendingKeeps

(* The connection comes and goes; a user types.                             *)
LEMMA TWireInv ==
  ASSUME TInv, UNCHANGED <<sess, sink, screen>>, wire' \in [handle : BOOLEAN, up : BOOLEAN]
  PROVE  TInv'
BY DEF TInv, TerminalTypes, T!TTypeOK, Unmarked, T!CloseIsTerminal

LEMMA TStepInv == TInv /\ [T!TNext]_tvars => TInv'
<1> SUFFICES ASSUME TInv, [T!TNext]_tvars PROVE TInv'
  OBVIOUS
<1>0. wire \in [handle : BOOLEAN, up : BOOLEAN]
  BY DEF TInv, TerminalTypes, T!TTypeOK
<1>1. CASE (\E j \in Job : T!UserTypes(j)) \/ UNCHANGED tvars
  BY <1>0, <1>1, TWireInv DEF T!UserTypes, tvars
<1>2. CASE T!SocketOpens \/ T!SocketDrops \/ T!Establish
  <2>1. UNCHANGED <<sess, sink, screen>> /\ wire' \in [handle : BOOLEAN, up : BOOLEAN]
    BY <1>0, <1>2 DEF T!SocketOpens, T!SocketDrops, T!Establish
  <2> QED BY <2>1, TWireInv
<1> QED BY <1>1, <1>2, TOpenInv, TAgentInv, TReadInv, TCloseInv DEF T!TNext

PartTerminal == part = "terminal" => TInv

LEMMA PartTerminalInv == JobSpec => []PartTerminal
<1>1. JobInit => PartTerminal
  BY TInitInv DEF JobInit, PartTerminal
<1>2. PartTerminal /\ [JobNext]_jobVars => PartTerminal'
  <2> SUFFICES ASSUME PartTerminal, [JobNext]_jobVars, part' = "terminal" PROVE TInv'
    BY DEF PartTerminal
  <2>1. CASE TerminalStep
    BY <2>1, TStepInv DEF TerminalStep, InTerminal, PartTerminal, T!TNext
  <2>2. CASE ~TerminalStep
    <3>1. part' = part /\ UNCHANGED tvars
      BY <2>2 DEF JobNext, LockStep, GitStep, JobStep, CaptureStep, NamespaceStep, LogStep,
         InLock, InGit, InJob, InCapture, InNamespace, InLog, jobVars
    <3> QED BY <3>1, TStepInv DEF PartTerminal
  <2> QED BY <2>1, <2>2
<1> QED BY <1>1, <1>2, PTL DEF JobSpec

(* The close marker of createHostRelaySession ends the transcript of a job, *)
(* for any number of jobs, any amount of output and however the connection  *)
(* flaps, although the output of a killed agent is read after its session   *)
(* was closed.                                                              *)
THEOREM TranscriptsEnd == JobSpec => []CloseIsTerminal
<1>1. PartTerminal => CloseIsTerminal
  BY DEF PartTerminal, TInv, CloseIsTerminal
<1> QED BY <1>1, PartTerminalInv, PTL

-----------------------------------------------------------------------------
(* The types of every part.                                                 *)

PartOne == part \in {"lock", "git", "job", "capture", "terminal", "namespace", "log"}

LEMMA PartStays == JobSpec => []PartOne
<1>1. JobInit => PartOne
  BY DEF JobInit, PartOne
<1>2. PartOne /\ [JobNext]_jobVars => PartOne'
  BY Steps DEF PartOne
<1> QED BY <1>1, <1>2, PTL DEF JobSpec

LEMMA LockTypes == JobSpec => []TypeOK
<1>1. JobInit => IInv
  BY InitIInv DEF JobInit
<1>2. IInv /\ [JobNext]_jobVars => IInv'
  BY LockSteps, NextIInv
<1>3. IInv => TypeOK
  BY DEF IInv
<1> QED BY <1>1, <1>2, <1>3, PTL DEF JobSpec

LEMMA HandlerTypes == JP!JInv => J!JTypeOK
BY DEF JP!JInv, JP!JTypeOK, J!JTypeOK, JP!Stage, J!Stage, JP!Nobody, J!Nobody

(* Whichever part goes on, its state stays within its types: the heartbeat, *)
(* the workspace, the handler, the capture, the terminal, the namespace and *)
(* the log, for any number of activations, jobs, workers and children.      *)
THEOREM JobTypesHold == JobSpec => []JobTypes
<1>1. TypeOK /\ PartOne /\ PartGit /\ PartJob /\ PartCapture /\ PartTerminal /\ PartNamespace /\ PartLog
      => JobTypes
  <2> SUFFICES ASSUME TypeOK, PartOne, PartGit, PartJob, PartCapture, PartTerminal, PartNamespace, PartLog
      PROVE JobTypes
    OBVIOUS
  <2>1. part = "git" => G!GTypeOK
    BY GitInvHolds DEF PartGit
  <2>2. part = "job" => J!JTypeOK
    BY HandlerTypes DEF PartJob
  <2>3. part = "capture" => P!PTypeOK
    BY CaptureTypesHold DEF PartCapture
  <2>4. part = "terminal" => T!TTypeOK
    BY DEF PartTerminal, TInv, TerminalTypes
  <2>5. part = "namespace" => N!NTypeOK
    BY NamespaceInvTypes DEF PartNamespace
  <2>6. part = "log" => L!LTypeOK
    BY LogInvHolds DEF PartLog
  <2> QED BY <2>1, <2>2, <2>3, <2>4, <2>5, <2>6, Zenon DEF PartOne, JobTypes
<1> QED BY <1>1, PartStays, LockTypes, PartGitInv, PartJobInv, PartCaptureInv, PartTerminalInv,
       PartNamespaceInv, PartLogInv, PTL
=============================================================================
