------------------------------- MODULE JobRun -------------------------------
(***************************************************************************)
(* The run handler of a worker (runner.run in c8ctl-plugin.js) and the     *)
(* records it keeps of a job: one job key, activated again and again in    *)
(* one worker process.  When the lease of a run is lost its slot is freed  *)
(* at once and its signal aborted, but the handler goes on until it looks  *)
(* at the signal: a replacement of the same job may run beside it.         *)
(***************************************************************************)
EXTENDS Naturals, FiniteSets

CONSTANTS Activation    \* the activations of the job, in their order

ActivationAssumption == Activation \subseteq Nat \ {0}

VARIABLES kind,    \* what the job is, and whether the engine fences its settles
          run,     \* state of each handler
          disk,    \* directories, liveRunDirs, liveRunIds and the marker file of the key
          table,   \* activeJobs, settlementPendingJobs, lastActivationByKey
          engine   \* who holds the job, whether it is done, and the fails of failed
                   \* setups under way to it
jvars == <<kind, run, disk, table, engine>>

Stage == {"idle", "prompt", "secrets", "instance", "resume", "provision", "checkpoint",
          "open", "spawn", "run", "recover", "recheck", "nudge", "drain", "finalize", "close",
          "cleanup", "relay", "report", "complete", "fail", "catch", "leave", "end"}
Unstarted == [pc |-> "idle", aborted |-> FALSE, result |-> "none", checked |-> FALSE,
         producer |-> FALSE, checkpoint |-> FALSE, relay |-> FALSE, harness |-> FALSE,
         keep |-> FALSE, shed |-> FALSE]
Nobody == 0

JInit == /\ kind \in [mode : {"repo", "plain", "container"}, leased : BOOLEAN]
         /\ run = [r \in Activation |-> Unstarted]
         /\ disk = [dirs |-> {}, live |-> {}, ids |-> {}, marker |-> Nobody, pids |-> {}]
         /\ table = [active |-> Nobody, ghost |-> Nobody, last |-> Nobody]
         /\ engine = [lease |-> Nobody, done |-> FALSE, sent |-> {}]

Container == kind.mode = "container"
Goes(r, p) == [run EXCEPT ![r].pc = p]
Disk == UNCHANGED <<kind, table, engine>>
Same == UNCHANGED <<kind, disk, table, engine>>

(* A lease token identifies an activation; unleased ones compare equal.     *)
SameToken(q, r) == ~kind.leased \/ q = r

-----------------------------------------------------------------------------
(* The engine activates the job; the worker carries it once, so an older    *)
(* handler still going has been aborted.                                    *)

RecordJobStart(r) == [table EXCEPT !.active = r, !.ghost = Nobody, !.last = r]
Start(r) ==
  /\ run[r].pc = "idle" /\ engine.lease = Nobody /\ ~engine.done
  /\ \A q \in Activation : q < r => run[q].pc = "end" \/ run[q].aborted
  /\ \A q \in Activation : q < r => run[q].pc # "idle"
  /\ run' = Goes(r, "prompt")
  /\ table' = RecordJobStart(r)
  /\ engine' = [engine EXCEPT !.lease = r]
  /\ UNCHANGED <<kind, disk>>

LoseLease == /\ engine.lease # Nobody /\ engine' = [engine EXCEPT !.lease = Nobody]
             /\ UNCHANGED <<kind, run, disk, table>>

Abort(r) == /\ run[r].pc \notin {"idle", "leave", "end"} /\ ~run[r].aborted
            /\ run' = [run EXCEPT ![r].aborted = TRUE] /\ Same

-----------------------------------------------------------------------------
(* Setup.  Each step first looks at the signal (checkSetupAbort), undoes    *)
(* what the earlier ones did, and stops without settling the job.           *)

Yield(r) == [run EXCEPT ![r].pc = "leave", ![r].producer = FALSE, ![r].checkpoint = FALSE]

\* Mutated form: the directory stays in liveRunDirs.
WithoutRunDirStillLive(r) == [disk EXCEPT !.dirs = @ \ {<<r, "run">>}, !.ids = @ \ {r}]

WithoutRunDir(r) == [disk EXCEPT !.dirs = @ \ {<<r, "run">>}, !.live = @ \ {<<r, "run">>},
                                 !.ids = @ \ {r}]

SetupAborted(r) ==
  /\ run[r].pc \in {"prompt", "secrets", "instance", "resume", "provision", "checkpoint", "open"}
  /\ run[r].aborted
  /\ run' = Yield(r) /\ disk' = WithoutRunDir(r) /\ Disk

(* The last finally block: the records of the run.                          *)
WithoutRecord(r) ==
  [table EXCEPT !.active = IF @ # Nobody /\ SameToken(@, r) THEN Nobody ELSE @]

(* A full disk, a prompt that cannot be fetched, a missing secret, a bad    *)
(* repository fail the job.  The handler returns the promise of its fail    *)
(* without awaiting it: the finally block runs at once, and no catch sees a *)
(* refusal.                                                                 *)
Fails(r) == /\ run' = [run EXCEPT ![r].pc = "end", ![r].shed = TRUE]
            /\ engine' = [engine EXCEPT !.sent = @ \union {r}]
            /\ table' = WithoutRecord(r)
            /\ UNCHANGED kind

ResolvePrompt(r) == /\ run[r].pc = "prompt" /\ ~run[r].aborted
                    /\ \/ run' = Goes(r, "secrets") /\ Same
                       \/ Fails(r) /\ UNCHANGED disk
ResolveSecrets(r) ==
  /\ run[r].pc = "secrets" /\ ~run[r].aborted
  /\ \/ Fails(r) /\ UNCHANGED disk
     \/ /\ run' = Goes(r, "instance")
        /\ disk' = IF Container THEN [disk EXCEPT !.ids = @ \union {r}] ELSE disk
        /\ Disk

ActivateProducer(r) ==
  /\ run[r].pc = "instance" /\ ~run[r].aborted
  /\ \E external \in BOOLEAN :
       run' = [run EXCEPT ![r].pc = "resume", ![r].producer = external]
  /\ Same
ResumeFromHistory(r) == /\ run[r].pc = "resume" /\ ~run[r].aborted
                        /\ run' = Goes(r, "provision") /\ Same

(* A malformed repository fails before there is a directory; a clone that   *)
(* fails takes its directory with it.  Nothing is awaited in between.       *)
ProvisionRunDir(r) ==
  /\ run[r].pc = "provision" /\ ~run[r].aborted
  /\ \/ /\ run' = Goes(r, "checkpoint")
        /\ disk' = IF Container THEN disk
                   ELSE [disk EXCEPT !.dirs = @ \union {<<r, "run">>}, !.live = @ \union {<<r, "run">>}]
        /\ Disk
     \/ ~Container /\ Fails(r) /\ disk' = WithoutRunDir(r)
SetupCheckpoints(r) ==
  /\ run[r].pc = "checkpoint" /\ ~run[r].aborted
  /\ run' = [run EXCEPT ![r].pc = "open", ![r].checkpoint = kind.mode = "repo"]
  /\ Same

(* The result directory and the marker that guards the harness, then the    *)
(* harness; recordHarnessPid adds its pid to whatever marker is there.      *)
OpenRun(r) ==
  /\ run[r].pc = "open" /\ ~run[r].aborted
  /\ run' = [run EXCEPT ![r].pc = "spawn", ![r].relay = TRUE]
  /\ disk' = [disk EXCEPT !.dirs = @ \union {<<r, "res">>}, !.live = @ \union {<<r, "res">>},
                          !.marker = r, !.pids = {}]
  /\ Disk
Spawn(r) ==
  /\ run[r].pc = "spawn"
  /\ run' = [run EXCEPT ![r].pc = "run", ![r].harness = TRUE]
  /\ disk' = IF disk.marker = Nobody THEN disk ELSE [disk EXCEPT !.pids = @ \union {r}]
  /\ Disk

-----------------------------------------------------------------------------
(* The agent is over.  An aborted run only recovers its checkpoint; a       *)
(* failed one flushes it and looks at the signal again; runAgentJob and     *)
(* what follows may throw.                                                  *)

AgentEnds(r) ==
  /\ run[r].pc = "run"
  /\ \E result \in {"ok", "failed", "threw"} \union (IF run[r].aborted THEN {"aborted"} ELSE {}) :
       run' = [run EXCEPT ![r].harness = FALSE, ![r].result = result, ![r].pc =
                 CASE result = "ok" -> "nudge" [] result = "failed" -> "recover"
                   [] OTHER -> "close"]
  /\ Same

(* A flush, the nudge or the drain throws.                                  *)
Throws(r) ==
  /\ run[r].pc \in {"recover", "nudge", "drain"}
  /\ run' = [run EXCEPT ![r].harness = FALSE, ![r].result = "threw", ![r].pc = "close"]
  /\ Same
FlushFailed(r) == run[r].pc = "recover" /\ run' = Goes(r, "recheck") /\ Same

\* Mutated form: the signal is not looked at again.
RecheckBlindly(r) ==
  /\ run[r].pc = "recheck" /\ run' = Goes(r, "drain") /\ Same

Recheck(r) ==
  /\ run[r].pc = "recheck"
  /\ run' = IF run[r].aborted THEN [run EXCEPT ![r].pc = "close", ![r].result = "aborted"]
            ELSE [run EXCEPT ![r].pc = "drain", ![r].checked = TRUE]
  /\ Same
(* An agent that forgot its result file is asked for it, which runs it once *)
(* more; then the transcript is drained for a bounded time.                 *)
Nudge(r) == /\ run[r].pc = "nudge" /\ Same
            /\ \/ ~run[r].harness /\ run' = [run EXCEPT ![r].harness = TRUE]
               \/ run' = [run EXCEPT ![r].pc = "drain", ![r].harness = FALSE]
Drain(r) == run[r].pc = "drain" /\ run' = Goes(r, "finalize") /\ Same

(* finalizeGit; a failed push keeps the workspace (as --keep-runs does).    *)
Finalize(r) ==
  /\ run[r].pc = "finalize"
  /\ \E pushFailed \in IF kind.mode = "repo" /\ run[r].result = "ok" THEN BOOLEAN ELSE {FALSE} :
       run' = [run EXCEPT ![r].pc = "close", ![r].keep = pushFailed]
  /\ Same

-----------------------------------------------------------------------------
(* The finally block: close the checkpoints, drop the marker and the        *)
(* directory, close the relay.                                              *)

CloseCheckpoints(r) == /\ run[r].pc = "close" /\ Same
                       /\ run' = [run EXCEPT ![r].pc = "cleanup", ![r].checkpoint = FALSE]
CleanUp(r) ==
  /\ run[r].pc = "cleanup" /\ run' = Goes(r, "relay")
  /\ disk' = [disk EXCEPT !.ids = @ \ {r}, !.marker = Nobody, !.pids = {},
                          !.live = @ \ {<<r, "run">>},
                          !.dirs = IF run[r].keep THEN @ ELSE @ \ {<<r, "run">>}]
  /\ Disk
CloseRelay(r) ==
  /\ run[r].pc = "relay" /\ Same
  /\ run' = [run EXCEPT ![r].relay = FALSE, ![r].pc =
               CASE run[r].result = "aborted" -> "leave" [] run[r].result = "threw" -> "catch"
                 [] OTHER -> "report"]

(* The result is read, its directory goes, and the transcript is completed: *)
(* an agent that left nothing at all fails its job (detectEmptyAgentJob).   *)
Report(r) ==
  /\ run[r].pc = "report"
  /\ disk' = [disk EXCEPT !.dirs = @ \ {<<r, "res">>}, !.live = @ \ {<<r, "res">>}]
  /\ \E empty \in BOOLEAN :
       run' = [run EXCEPT ![r].producer = FALSE, ![r].pc =
                 IF run[r].result = "ok" /\ ~empty THEN "complete" ELSE "fail"]
  /\ Disk

-----------------------------------------------------------------------------
(* Settling.  The engine fences a leased settle; what it refuses because    *)
(* the lease is gone is shown as settlement-pending, unless a newer         *)
(* activation owns the row.                                                 *)

Accepts(r) == ~engine.done /\ IF kind.leased THEN engine.lease = r ELSE engine.lease # Nobody
Verdict(p) == [engine EXCEPT !.lease = Nobody, !.done = p = "complete"]

\* Mutated form: an older activation is not told from the newest.
RecordSettlementPendingAnyway(r) ==
  LET mine == table.active \in {Nobody, r}
  IN IF kind.leased /\ mine THEN [table EXCEPT !.ghost = r] ELSE table

RecordSettlementPending(r) ==
  LET mine == IF table.active # Nobody THEN table.active = r ELSE table.last = r
  IN IF kind.leased /\ mine THEN [table EXCEPT !.ghost = r] ELSE table

Call(r, p, returned, threw) ==
  \/ /\ Accepts(r) /\ engine' = Verdict(p) /\ UNCHANGED table
     /\ \E lost \in BOOLEAN : run' = Goes(r, IF lost THEN threw ELSE returned)
  \/ ~Accepts(r) /\ table' = RecordSettlementPending(r) /\ run' = Goes(r, threw) /\ UNCHANGED engine
  \/ run' = Goes(r, threw) /\ UNCHANGED <<table, engine>>       \* never got there

Settle(r) == /\ run[r].pc \in {"complete", "fail"} /\ Call(r, run[r].pc, "leave", "catch")
             /\ UNCHANGED <<kind, disk>>

(* The answer to a fail that nobody awaits: a refusal is still recorded.    *)
ShedAnswered(r) ==
  /\ r \in engine.sent /\ UNCHANGED <<kind, run, disk>>
  /\ LET left == [engine EXCEPT !.sent = @ \ {r}]
     IN \/ Accepts(r) /\ engine' = [left EXCEPT !.lease = Nobody] /\ UNCHANGED table
        \/ ~Accepts(r) /\ engine' = left /\ table' = RecordSettlementPending(r)
        \/ engine' = left /\ UNCHANGED table

SettleRunError(r) ==
  /\ run[r].pc = "catch" /\ UNCHANGED <<kind, disk>>
  /\ \/ run[r].aborted /\ run' = Goes(r, "leave") /\ UNCHANGED <<table, engine>>
     \/ ~run[r].aborted /\ Call(r, "fail", "leave", "leave")

Leave(r) ==
  /\ run[r].pc = "leave" /\ run' = Goes(r, "end")
  /\ table' = WithoutRecord(r) /\ UNCHANGED <<kind, disk, engine>>

(* The records age: a ghost after its TTL, the last activation when no      *)
(* settle in flight protects it.  The caps, reached with enough other keys, *)
(* drop either of them at any time, so the settles in flight need no state. *)
Prune ==
  /\ \/ table.ghost # Nobody /\ table' = [table EXCEPT !.ghost = Nobody]
     \/ table.last # Nobody /\ table' = [table EXCEPT !.last = Nobody]
  /\ UNCHANGED <<kind, run, disk, engine>>

JStep(r) == \/ Start(r) \/ Abort(r) \/ SetupAborted(r) \/ ResolvePrompt(r) \/ ResolveSecrets(r)
            \/ ActivateProducer(r) \/ ResumeFromHistory(r) \/ ProvisionRunDir(r)
            \/ SetupCheckpoints(r) \/ OpenRun(r) \/ Spawn(r) \/ AgentEnds(r) \/ FlushFailed(r) \/ Throws(r)
            \/ Recheck(r) \/ Nudge(r) \/ Drain(r) \/ Finalize(r) \/ CloseCheckpoints(r)
            \/ CleanUp(r) \/ CloseRelay(r) \/ Report(r) \/ Settle(r) \/ SettleRunError(r) \/ Leave(r)
            \/ ShedAnswered(r)
JNext == LoseLease \/ Prune \/ \E r \in Activation : JStep(r)
JSpec == JInit /\ [][JNext]_jvars

-----------------------------------------------------------------------------
JTypeOK ==
  /\ kind \in [mode : {"repo", "plain", "container"}, leased : BOOLEAN]
  /\ run \in [Activation -> [pc : Stage, aborted : BOOLEAN, checked : BOOLEAN,
        result : {"none", "ok", "failed", "threw", "aborted"}, producer : BOOLEAN,
        checkpoint : BOOLEAN, relay : BOOLEAN, harness : BOOLEAN, keep : BOOLEAN,
        shed : BOOLEAN]]
  /\ disk \in [dirs : SUBSET (Activation \X {"run", "res"}), ids : SUBSET Activation,
               live : SUBSET (Activation \X {"run", "res"}),
               marker : Activation \union {Nobody}, pids : SUBSET Activation]
  /\ table \in [active : Activation \union {Nobody}, ghost : Activation \union {Nobody},
                last : Activation \union {Nobody}]
  /\ engine \in [lease : Activation \union {Nobody}, done : BOOLEAN, sent : SUBSET Activation]

Newest(r) == run[r].pc # "idle" /\ \A q \in Activation : q > r => run[q].pc = "idle"

(* A settlement-pending row is about the newest activation of its job: the  *)
(* late refusal of an older run never brings its row back.                  *)
GhostIsNewest == table.ghost # Nobody => Newest(table.ghost)

(* What a handler leaves when it ends.  Never: a run directory that is not  *)
(* kept on purpose, a container id, a checkpoint timer, a relay, a harness. *)
(* A result directory, which liveRunDirs then shields from the reaper, only *)
(* when the agent had started and the run was aborted or threw; a producer  *)
(* of transcripts that nobody closed, only then or when the setup failed:   *)
(* an abort of the setup always discards it.                                *)
LeavesNothing ==
  \A r \in Activation : run[r].pc = "end" =>
    /\ <<r, "run">> \notin disk.live /\ r \notin disk.ids
    /\ <<r, "run">> \in disk.dirs => run[r].keep
    /\ <<r, "res">> \in disk.dirs \union disk.live => run[r].result \in {"aborted", "threw"}
    /\ run[r].producer => run[r].result \in {"aborted", "threw"} \/ run[r].shed
    /\ ~run[r].checkpoint /\ ~run[r].relay /\ ~run[r].harness

(* A run that was aborted does not settle the job any more, unless its      *)
(* agent had succeeded or the abort came after the last look at the signal; *)
(* a failed setup sends its fail only while the run is not aborted.         *)
SettlesUnaborted ==
  \A r \in Activation : run[r].aborted =>
    /\ engine'.lease # engine.lease /\ engine.lease = r /\ run'[r].pc # run[r].pc
         => run[r].result = "ok" \/ run[r].checked
    /\ r \in engine'.sent => r \in engine.sent
AbortYields == [][SettlesUnaborted]_jvars

(* A harness that runs has a marker in the worker's namespace, so that the  *)
(* namespace is not reclaimed under it should the worker die.               *)
HarnessIsMarked == \A r \in Activation : run[r].harness => disk.marker # Nobody
=============================================================================
