---------------------------- MODULE JobRunProofs ----------------------------
(***************************************************************************)
(* For any number of overlapping activations of a job: the records the     *)
(* worker keeps of it are about the newest one, every handler cleans up    *)
(* whichever way it ends, and one that was aborted does not settle.        *)
(***************************************************************************)
EXTENDS JobRun, TLAPS

RunRecord ==
  [pc : Stage, aborted : BOOLEAN, checked : BOOLEAN,
   result : {"none", "ok", "failed", "threw", "aborted"}, producer : BOOLEAN,
   checkpoint : BOOLEAN, relay : BOOLEAN, harness : BOOLEAN, keep : BOOLEAN,
   shed : BOOLEAN]

(* Stages in which a handler may own its run directory, its checkpointer,   *)
(* its relay session.                                                       *)
Working == {"instance", "resume", "provision", "checkpoint", "open", "spawn", "run", "recover",
            "recheck", "nudge", "drain", "finalize", "close", "cleanup"}
Checkpointing == Working \ {"instance", "resume", "provision", "checkpoint", "cleanup"}
Relaying == (Checkpointing \ {"open"}) \union {"cleanup", "relay"}

(* What a handler owns, and what it may still say of its job.               *)
Owns(r) ==
  /\ run[r].pc \notin Working => /\ <<r, "run">> \notin disk.live /\ r \notin disk.ids
                                 /\ <<r, "run">> \in disk.dirs => run[r].keep
  /\ run[r].checkpoint => run[r].pc \in Checkpointing
  /\ run[r].relay => run[r].pc \in Relaying
  /\ run[r].harness => run[r].pc \in {"run", "nudge"}
Says(r) ==
  /\ run[r].pc \in {"nudge", "complete"} => run[r].result = "ok"
  /\ run[r].pc \in {"report", "fail"} => run[r].result = "ok" \/ run[r].checked
  /\ run[r].pc \in {"drain", "finalize", "close", "cleanup", "relay"} =>
       run[r].result \in {"ok", "threw", "aborted"} \/ run[r].checked

(* The activations start in their order, and the rows are about the newest. *)
InTurn == \A q, r \in Activation : q < r /\ run[r].pc # "idle" => run[q].pc # "idle"
Rows == /\ table.active # Nobody => Newest(table.active)
        /\ table.ghost # Nobody => Newest(table.ghost)
        /\ table.last # Nobody => Newest(table.last)

JInv == JTypeOK /\ InTurn /\ Rows /\ \A r \in Activation : Owns(r) /\ Says(r)

(* What the step of one handler leaves alone.                               *)
Beside(r) ==
  \A q \in Activation : q # r =>
    /\ run'[q] = run[q]
    /\ <<q, "run">> \in disk'.live => <<q, "run">> \in disk.live
    /\ <<q, "run">> \in disk'.dirs => <<q, "run">> \in disk.dirs
    /\ q \in disk'.ids => q \in disk.ids
RowsShrink == /\ table'.active \in {table.active, Nobody} /\ table'.ghost \in {table.ghost, Nobody}
              /\ table'.last \in {table.last, Nobody}
(* A row may also be set for the activation that has it already.            *)
GhostOfRow == /\ table'.active = table.active /\ table'.last = table.last
              /\ table'.ghost \in {table.ghost, table.active, table.last}

(* The types, record by record.                                             *)
DiskRecord == [dirs : SUBSET (Activation \X {"run", "res"}), ids : SUBSET Activation,
               live : SUBSET (Activation \X {"run", "res"}),
               marker : Activation \union {Nobody}, pids : SUBSET Activation]

LEMMA RunTypes == ASSUME JTypeOK PROVE run \in [Activation -> RunRecord] /\ disk \in DiskRecord
BY DEF JTypeOK, RunRecord, DiskRecord

LEMMA TypesKept ==
  ASSUME JTypeOK, run' \in [Activation -> RunRecord], disk' \in DiskRecord,
         UNCHANGED <<kind, table, engine>>
  PROVE  JTypeOK'
BY DEF JTypeOK, RunRecord, DiskRecord

TableRecord == [active : Activation \union {Nobody}, ghost : Activation \union {Nobody},
                last : Activation \union {Nobody}]
EngineRecord == [lease : Activation \union {Nobody}, done : BOOLEAN, sent : SUBSET Activation]

LEMMA OtherTypes ==
  ASSUME JTypeOK, run' \in [Activation -> RunRecord], disk' \in DiskRecord,
         table' \in TableRecord, engine' \in EngineRecord, UNCHANGED kind
  PROVE  JTypeOK'
BY DEF JTypeOK, RunRecord, DiskRecord, TableRecord, EngineRecord

LEMMA Types == ASSUME JTypeOK PROVE table \in TableRecord /\ engine \in EngineRecord
BY DEF JTypeOK, TableRecord, EngineRecord

LEMMA HandlerStep ==
  ASSUME JInv, JTypeOK', NEW r \in Activation, run[r].pc # "idle", run'[r].pc # "idle",
         Beside(r), Owns(r)', Says(r)', RowsShrink \/ GhostOfRow
  PROVE  JInv'
<1>1. \A q \in Activation : run'[q].pc = "idle" <=> run[q].pc = "idle"
  BY DEF Beside
<1>2. InTurn'
  BY <1>1 DEF JInv, InTurn
<1>3. \A x \in Activation : Newest(x) => Newest(x)'
  BY <1>1 DEF Newest
<1>4. {table.active, table.ghost, table.last} \subseteq Activation \union {Nobody}
  BY DEF JInv, JTypeOK
<1>5. Rows'
  BY <1>3, <1>4 DEF JInv, Rows, RowsShrink, GhostOfRow
<1>6. \A q \in Activation : Owns(q)' /\ Says(q)'
  <2> SUFFICES ASSUME NEW q \in Activation, q # r PROVE Owns(q)' /\ Says(q)'
    OBVIOUS
  <2>1. Owns(q) /\ Says(q) /\ run'[q] = run[q]
    BY DEF JInv, Beside
  <2> QED BY <2>1 DEF Owns, Says, Beside
<1> QED BY <1>2, <1>5, <1>6 DEF JInv

LEMMA JInitInv == ActivationAssumption /\ JInit => JInv
<1> SUFFICES ASSUME ActivationAssumption, JInit PROVE JInv
  OBVIOUS
<1>1. Unstarted \in RunRecord
  BY DEF Unstarted, RunRecord, Stage
<1>2. JTypeOK
  BY <1>1 DEF JInit, JTypeOK, RunRecord
<1>3. \A r \in Activation : run[r] = Unstarted
  BY DEF JInit
<1>4. InTurn /\ Rows
  BY <1>3 DEF JInit, InTurn, Rows, Unstarted
<1>5. \A r \in Activation : Owns(r) /\ Says(r)
  BY <1>3 DEF JInit, Owns, Says, Unstarted
<1> QED BY <1>2, <1>4, <1>5 DEF JInv

-----------------------------------------------------------------------------
(* One lemma for each stage of the handler.                                 *)

LEMMA AbortStep == ASSUME JInv, NEW r \in Activation, Abort(r) PROVE JInv'
<1>1. JTypeOK'
  <2>1. run' \in [Activation -> RunRecord]
    <3>1. run' = [run EXCEPT ![r].aborted = TRUE]
      BY DEF Abort
    <3>2. run \in [Activation -> RunRecord]
      BY RunTypes DEF JInv
    <3>3. [run[r] EXCEPT !.aborted = TRUE] \in RunRecord
      BY <3>2 DEF RunRecord, Stage
    <3> QED BY <3>1, <3>2, <3>3
  <2>2. disk' \in DiskRecord
    BY RunTypes DEF JInv, DiskRecord, Abort, Same
  <2>3. UNCHANGED <<kind, table, engine>>
    BY DEF Abort, Same
  <2> QED BY <2>1, <2>2, <2>3, TypesKept DEF JInv
<1>2. run[r] \in RunRecord /\ Owns(r) /\ Says(r)
  BY DEF JInv, JTypeOK, RunRecord
<1>3. run[r].pc # "idle" /\ run'[r].pc # "idle" /\ Beside(r)
  BY <1>2 DEF JInv, JTypeOK, RunRecord, Beside, Abort, Same
<1>4. Owns(r)' /\ Says(r)'
  BY <1>2 DEF JInv, JTypeOK, RunRecord, Owns, Says, Working, Checkpointing, Relaying, Abort, Same
<1>5. RowsShrink
  BY DEF RowsShrink, Abort, Same
<1> QED BY <1>1, <1>3, <1>4, <1>5, HandlerStep

LEMMA SetupAbortedStep == ASSUME JInv, NEW r \in Activation, SetupAborted(r) PROVE JInv'
<1>1. JTypeOK'
  <2>1. run' \in [Activation -> RunRecord]
    <3>1. run' = [run EXCEPT ![r].pc = "leave", ![r].producer = FALSE, ![r].checkpoint = FALSE]
      BY DEF SetupAborted, Yield
    <3>2. run \in [Activation -> RunRecord]
      BY RunTypes DEF JInv
    <3>3. [run[r] EXCEPT !.pc = "leave", !.producer = FALSE, !.checkpoint = FALSE] \in RunRecord
      BY <3>2 DEF RunRecord, Stage
    <3> QED BY <3>1, <3>2, <3>3
  <2>2. disk' \in DiskRecord
    BY RunTypes DEF JInv, DiskRecord, SetupAborted, Yield, WithoutRunDir, Disk
  <2>3. UNCHANGED <<kind, table, engine>>
    BY DEF SetupAborted, Yield, WithoutRunDir, Disk
  <2> QED BY <2>1, <2>2, <2>3, TypesKept DEF JInv
<1>2. run[r] \in RunRecord /\ Owns(r) /\ Says(r)
  BY DEF JInv, JTypeOK, RunRecord
<1>3. run[r].pc # "idle" /\ run'[r].pc # "idle" /\ Beside(r)
  BY <1>2 DEF JInv, JTypeOK, RunRecord, Beside, SetupAborted, Yield, WithoutRunDir, Disk
<1>4. Owns(r)' /\ Says(r)'
  BY <1>2 DEF JInv, JTypeOK, RunRecord, Owns, Says, Working, Checkpointing, Relaying, SetupAborted, Yield, WithoutRunDir, Disk
<1>5. RowsShrink
  BY DEF RowsShrink, SetupAborted, Yield, WithoutRunDir, Disk
<1> QED BY <1>1, <1>3, <1>4, <1>5, HandlerStep

(* A setup that failed: the handler is over, its fail is under way.          *)
LEMMA FailsStep ==
  ASSUME JInv, NEW r \in Activation, Fails(r), run[r].pc \in {"prompt", "secrets", "provision"},
         disk' = WithoutRunDir(r) \/ (run[r].pc # "provision" /\ disk' = disk)
  PROVE  JInv'
<1>0. /\ run \in [Activation -> RunRecord] /\ disk \in DiskRecord
      /\ table \in TableRecord /\ engine \in EngineRecord
  BY RunTypes, Types DEF JInv
<1>1. run' = [run EXCEPT ![r].pc = "end", ![r].shed = TRUE] /\ UNCHANGED kind
  BY DEF Fails
<1>2. run' \in [Activation -> RunRecord]
  <2>1. [run[r] EXCEPT !.pc = "end", !.shed = TRUE] \in RunRecord
    BY <1>0 DEF RunRecord, Stage
  <2> QED BY <1>0, <1>1, <2>1
<1>3. disk' \in DiskRecord
  <2>1. CASE disk' = disk
    BY <1>0, <2>1
  <2>2. CASE disk' = WithoutRunDir(r)
    BY <1>0, <2>2 DEF DiskRecord, WithoutRunDir
  <2> QED BY <2>1, <2>2
<1>4. table' \in TableRecord /\ RowsShrink
  BY <1>0 DEF Fails, WithoutRecord, TableRecord, RowsShrink
<1>5. engine' \in EngineRecord
  BY <1>0 DEF Fails, EngineRecord
<1>6. JTypeOK'
  BY <1>1, <1>2, <1>3, <1>4, <1>5, OtherTypes DEF JInv
<1>7. /\ run'[r].pc = "end" /\ \A q \in Activation : q # r => run'[q] = run[q]
      /\ run'[r].checkpoint = run[r].checkpoint /\ run'[r].relay = run[r].relay
      /\ run'[r].harness = run[r].harness /\ run'[r].keep = run[r].keep
  BY <1>0, <1>1 DEF RunRecord
<1>8. /\ disk'.live \subseteq disk.live /\ disk'.dirs \subseteq disk.dirs
      /\ disk'.ids \subseteq disk.ids
      /\ disk' = WithoutRunDir(r) => /\ <<r, "run">> \notin disk'.live \union disk'.dirs
                                    /\ r \notin disk'.ids
  <2>1. CASE disk' = disk /\ disk' # WithoutRunDir(r)
    BY <2>1
  <2>2. CASE disk' = WithoutRunDir(r)
    BY <1>0, <2>2 DEF DiskRecord, WithoutRunDir
  <2> QED BY <2>1, <2>2
<1>9. Beside(r)
  BY <1>7, <1>8 DEF Beside
<1>10. Owns(r)
  BY DEF JInv
<1>11. ~run[r].checkpoint /\ ~run[r].relay /\ ~run[r].harness
  BY <1>10 DEF Owns, Checkpointing, Relaying, Working
<1>12. Owns(r)' /\ Says(r)'
  BY <1>7, <1>8, <1>10, <1>11 DEF Owns, Says, Working
<1> QED BY <1>4, <1>6, <1>7, <1>9, <1>12, HandlerStep

LEMMA ResolvePromptStep == ASSUME JInv, NEW r \in Activation, ResolvePrompt(r) PROVE JInv'
<1>1. CASE Fails(r) /\ UNCHANGED disk
  BY <1>1, FailsStep DEF ResolvePrompt
<1>2. CASE ~(Fails(r) /\ UNCHANGED disk)
  <2>1. /\ run' = [run EXCEPT ![r].pc = "secrets"] /\ run[r].pc = "prompt"
        /\ UNCHANGED <<kind, table, engine>>
    BY <1>2 DEF ResolvePrompt, Goes, Same, Disk
  <2>2. disk' = disk
    BY <1>2 DEF ResolvePrompt, Same
  <2>3. run \in [Activation -> RunRecord] /\ disk \in DiskRecord
    BY RunTypes DEF JInv
  <2>4. run' \in [Activation -> RunRecord]
    BY <2>1, <2>3 DEF RunRecord, Stage
  <2>5. JTypeOK'
    BY <2>1, <2>2, <2>3, <2>4, TypesKept DEF JInv, DiskRecord
  <2>6. Beside(r) /\ run'[r].pc = "secrets" /\ RowsShrink
    BY <2>1, <2>2, <2>3 DEF Beside, RunRecord, DiskRecord, RowsShrink
  <2>7. Owns(r)
    BY DEF JInv
  <2>8. Owns(r)' /\ Says(r)'
    BY <2>1, <2>2, <2>3, <2>7 DEF Owns, Says, Working, Checkpointing, Relaying, RunRecord
  <2> QED BY <2>1, <2>5, <2>6, <2>8, HandlerStep
<1> QED BY <1>1, <1>2

LEMMA ResolveSecretsStep == ASSUME JInv, NEW r \in Activation, ResolveSecrets(r) PROVE JInv'
<1>1. CASE Fails(r) /\ UNCHANGED disk
  BY <1>1, FailsStep DEF ResolveSecrets
<1>2. CASE ~(Fails(r) /\ UNCHANGED disk)
  <2>1. /\ run' = [run EXCEPT ![r].pc = "instance"] /\ run[r].pc = "secrets"
        /\ UNCHANGED <<kind, table, engine>>
    BY <1>2 DEF ResolveSecrets, Goes, Same, Disk
  <2>2. disk' = disk \/ disk' = [disk EXCEPT !.ids = @ \union {r}]
    BY <1>2 DEF ResolveSecrets, Same
  <2>3. run \in [Activation -> RunRecord] /\ disk \in DiskRecord
    BY RunTypes DEF JInv
  <2>4. run' \in [Activation -> RunRecord]
    BY <2>1, <2>3 DEF RunRecord, Stage
  <2>5. JTypeOK'
    BY <2>1, <2>2, <2>3, <2>4, TypesKept DEF JInv, DiskRecord
  <2>6. Beside(r) /\ run'[r].pc = "instance" /\ RowsShrink
    BY <2>1, <2>2, <2>3 DEF Beside, RunRecord, DiskRecord, RowsShrink
  <2>7. Owns(r)
    BY DEF JInv
  <2>8. Owns(r)' /\ Says(r)'
    BY <2>1, <2>2, <2>3, <2>7 DEF Owns, Says, Working, Checkpointing, Relaying, RunRecord
  <2> QED BY <2>1, <2>5, <2>6, <2>8, HandlerStep
<1> QED BY <1>1, <1>2

LEMMA ActivateProducerStep == ASSUME JInv, NEW r \in Activation, ActivateProducer(r) PROVE JInv'
<1>1. JTypeOK'
  <2>1. run' \in [Activation -> RunRecord]
    <3>1. PICK external \in BOOLEAN : run' = [run EXCEPT ![r].pc = "resume", ![r].producer = external]
      BY DEF ActivateProducer
    <3>2. run \in [Activation -> RunRecord]
      BY RunTypes DEF JInv
    <3>3. [run[r] EXCEPT !.pc = "resume", !.producer = external] \in RunRecord
      BY <3>2 DEF RunRecord, Stage
    <3> QED BY <3>1, <3>2, <3>3
  <2>2. disk' \in DiskRecord
    BY RunTypes DEF JInv, DiskRecord, ActivateProducer, Same
  <2>3. UNCHANGED <<kind, table, engine>>
    BY DEF ActivateProducer, Same
  <2> QED BY <2>1, <2>2, <2>3, TypesKept DEF JInv
<1>2. run[r] \in RunRecord /\ Owns(r) /\ Says(r)
  BY DEF JInv, JTypeOK, RunRecord
<1>3. run[r].pc # "idle" /\ run'[r].pc # "idle" /\ Beside(r)
  BY <1>2 DEF JInv, JTypeOK, RunRecord, Beside, ActivateProducer, Same
<1>4. Owns(r)' /\ Says(r)'
  BY <1>2 DEF JInv, JTypeOK, RunRecord, Owns, Says, Working, Checkpointing, Relaying, ActivateProducer, Same
<1>5. RowsShrink
  BY DEF RowsShrink, ActivateProducer, Same
<1> QED BY <1>1, <1>3, <1>4, <1>5, HandlerStep

LEMMA ResumeFromHistoryStep == ASSUME JInv, NEW r \in Activation, ResumeFromHistory(r) PROVE JInv'
<1>1. JTypeOK'
  <2>1. run' \in [Activation -> RunRecord]
    BY RunTypes DEF JInv, RunRecord, Stage, ResumeFromHistory, Goes, Same
  <2>2. disk' \in DiskRecord
    BY RunTypes DEF JInv, DiskRecord, ResumeFromHistory, Goes, Same
  <2>3. UNCHANGED <<kind, table, engine>>
    BY DEF ResumeFromHistory, Goes, Same
  <2> QED BY <2>1, <2>2, <2>3, TypesKept DEF JInv
<1>2. run[r] \in RunRecord /\ Owns(r) /\ Says(r)
  BY DEF JInv, JTypeOK, RunRecord
<1>3. run[r].pc # "idle" /\ run'[r].pc # "idle" /\ Beside(r)
  BY <1>2 DEF JInv, JTypeOK, RunRecord, Beside, ResumeFromHistory, Goes, Same
<1>4. Owns(r)' /\ Says(r)'
  BY <1>2 DEF JInv, JTypeOK, RunRecord, Owns, Says, Working, Checkpointing, Relaying, ResumeFromHistory, Goes, Same
<1>5. RowsShrink
  BY DEF RowsShrink, ResumeFromHistory, Goes, Same
<1> QED BY <1>1, <1>3, <1>4, <1>5, HandlerStep

LEMMA ProvisionRunDirStep == ASSUME JInv, NEW r \in Activation, ProvisionRunDir(r) PROVE JInv'
<1>1. CASE Fails(r) /\ disk' = WithoutRunDir(r)
  <2>1. run[r].pc = "provision"
    BY DEF ProvisionRunDir
  <2>2. run[r].pc \in {"prompt", "secrets", "provision"}
    BY <2>1
  <2>3. disk' = WithoutRunDir(r) \/ (run[r].pc # "provision" /\ disk' = disk)
    BY <1>1
  <2>4. Fails(r)
    BY <1>1
  <2> QED BY <2>2, <2>3, <2>4, FailsStep
<1>2. CASE ~(Fails(r) /\ disk' = WithoutRunDir(r))
  <2> DEFINE new == <<r, "run">>
  <2>1. /\ run' = [run EXCEPT ![r].pc = "checkpoint"] /\ run[r].pc = "provision"
        /\ UNCHANGED <<kind, table, engine>>
    BY <1>2 DEF ProvisionRunDir, Goes, Disk
  <2>2. disk' = disk \/ disk' = [disk EXCEPT !.dirs = @ \union {new}, !.live = @ \union {new}]
    BY <1>2 DEF ProvisionRunDir
  <2>3. /\ run \in [Activation -> RunRecord] /\ disk \in DiskRecord
        /\ new \in Activation \X {"run", "res"} /\ \A q \in Activation : q # r => <<q, "run">> # new
    BY RunTypes DEF JInv
  <2> HIDE DEF new
  <2>4. run' \in [Activation -> RunRecord]
    BY <2>1, <2>3 DEF RunRecord, Stage
  <2>5. disk' \in DiskRecord
    <3>1. CASE disk' = disk
      BY <2>3, <3>1
    <3>2. CASE disk' = [disk EXCEPT !.dirs = @ \union {new}, !.live = @ \union {new}]
      BY <2>3, <3>2 DEF DiskRecord
    <3> QED BY <2>2, <3>1, <3>2
  <2>6. JTypeOK'
    BY <2>1, <2>4, <2>5, TypesKept DEF JInv
  <2>7. /\ disk'.live \subseteq disk.live \union {new} /\ disk'.dirs \subseteq disk.dirs \union {new}
        /\ disk'.ids = disk.ids
    BY <2>2, <2>3 DEF DiskRecord
  <2>8. Beside(r) /\ run'[r].pc = "checkpoint" /\ RowsShrink
    BY <2>1, <2>3, <2>7 DEF Beside, RunRecord, RowsShrink
  <2>9. Owns(r)
    BY DEF JInv
  <2>10. Owns(r)' /\ Says(r)'
    BY <2>1, <2>3, <2>9 DEF Owns, Says, Working, Checkpointing, Relaying, RunRecord
  <2> QED BY <2>1, <2>6, <2>8, <2>10, HandlerStep
<1> QED BY <1>1, <1>2

LEMMA SetupCheckpointsStep == ASSUME JInv, NEW r \in Activation, SetupCheckpoints(r) PROVE JInv'
<1>1. JTypeOK'
  <2>1. run' \in [Activation -> RunRecord]
    <3>1. PICK repo \in BOOLEAN : run' = [run EXCEPT ![r].pc = "open", ![r].checkpoint = repo]
      BY DEF SetupCheckpoints
    <3>2. run \in [Activation -> RunRecord]
      BY RunTypes DEF JInv
    <3>3. [run[r] EXCEPT !.pc = "open", !.checkpoint = repo] \in RunRecord
      BY <3>2 DEF RunRecord, Stage
    <3> QED BY <3>1, <3>2, <3>3
  <2>2. disk' \in DiskRecord
    BY RunTypes DEF JInv, DiskRecord, SetupCheckpoints, Same
  <2>3. UNCHANGED <<kind, table, engine>>
    BY DEF SetupCheckpoints, Same
  <2> QED BY <2>1, <2>2, <2>3, TypesKept DEF JInv
<1>2. run[r] \in RunRecord /\ Owns(r) /\ Says(r)
  BY DEF JInv, JTypeOK, RunRecord
<1>3. run[r].pc # "idle" /\ run'[r].pc # "idle" /\ Beside(r)
  BY <1>2 DEF JInv, JTypeOK, RunRecord, Beside, SetupCheckpoints, Same
<1>4. Owns(r)' /\ Says(r)'
  BY <1>2 DEF JInv, JTypeOK, RunRecord, Owns, Says, Working, Checkpointing, Relaying, SetupCheckpoints, Same
<1>5. RowsShrink
  BY DEF RowsShrink, SetupCheckpoints, Same
<1> QED BY <1>1, <1>3, <1>4, <1>5, HandlerStep

LEMMA OpenRunStep == ASSUME JInv, NEW r \in Activation, OpenRun(r) PROVE JInv'
<1>1. JTypeOK'
  <2>1. run' \in [Activation -> RunRecord]
    <3>1. run' = [run EXCEPT ![r].pc = "spawn", ![r].relay = TRUE]
      BY DEF OpenRun
    <3>2. run \in [Activation -> RunRecord]
      BY RunTypes DEF JInv
    <3>3. [run[r] EXCEPT !.pc = "spawn", !.relay = TRUE] \in RunRecord
      BY <3>2 DEF RunRecord, Stage
    <3> QED BY <3>1, <3>2, <3>3
  <2>2. disk' \in DiskRecord
    <3>1. disk' = [disk EXCEPT !.dirs = @ \union {<<r, "res">>}, !.live = @ \union {<<r, "res">>},
                               !.marker = r, !.pids = {}]
      BY DEF OpenRun
    <3>2. disk \in DiskRecord /\ <<r, "res">> \in Activation \X {"run", "res"}
      BY RunTypes DEF JInv
    <3> QED BY <3>1, <3>2 DEF DiskRecord
  <2>3. UNCHANGED <<kind, table, engine>>
    BY DEF OpenRun, Disk
  <2> QED BY <2>1, <2>2, <2>3, TypesKept DEF JInv
<1>2. run[r] \in RunRecord /\ Owns(r) /\ Says(r)
  BY DEF JInv, JTypeOK, RunRecord
<1>3. run[r].pc # "idle" /\ run'[r].pc # "idle" /\ Beside(r)
  BY <1>2 DEF JInv, JTypeOK, RunRecord, Beside, OpenRun, Disk
<1>4. Owns(r)' /\ Says(r)'
  BY <1>2 DEF JInv, JTypeOK, RunRecord, Owns, Says, Working, Checkpointing, Relaying, OpenRun, Disk
<1>5. RowsShrink
  BY DEF RowsShrink, OpenRun, Disk
<1> QED BY <1>1, <1>3, <1>4, <1>5, HandlerStep

LEMMA SpawnStep == ASSUME JInv, NEW r \in Activation, Spawn(r) PROVE JInv'
<1>1. JTypeOK'
  <2>1. run' \in [Activation -> RunRecord]
    <3>1. run' = [run EXCEPT ![r].pc = "run", ![r].harness = TRUE]
      BY DEF Spawn
    <3>2. run \in [Activation -> RunRecord]
      BY RunTypes DEF JInv
    <3>3. [run[r] EXCEPT !.pc = "run", !.harness = TRUE] \in RunRecord
      BY <3>2 DEF RunRecord, Stage
    <3> QED BY <3>1, <3>2, <3>3
  <2>2. disk' \in DiskRecord
    BY RunTypes DEF JInv, DiskRecord, Spawn, Disk
  <2>3. UNCHANGED <<kind, table, engine>>
    BY DEF Spawn, Disk
  <2> QED BY <2>1, <2>2, <2>3, TypesKept DEF JInv
<1>2. run[r] \in RunRecord /\ Owns(r) /\ Says(r)
  BY DEF JInv, JTypeOK, RunRecord
<1>3. run[r].pc # "idle" /\ run'[r].pc # "idle" /\ Beside(r)
  BY <1>2 DEF JInv, JTypeOK, RunRecord, Beside, Spawn, Disk
<1>4. Owns(r)' /\ Says(r)'
  BY <1>2 DEF JInv, JTypeOK, RunRecord, Owns, Says, Working, Checkpointing, Relaying, Spawn, Disk
<1>5. RowsShrink
  BY DEF RowsShrink, Spawn, Disk
<1> QED BY <1>1, <1>3, <1>4, <1>5, HandlerStep

LEMMA AgentEndsStep == ASSUME JInv, NEW r \in Activation, AgentEnds(r) PROVE JInv'
<1>1. JTypeOK'
  <2>1. run' \in [Activation -> RunRecord]
    BY RunTypes DEF JInv, RunRecord, Stage, AgentEnds, Same
  <2>2. disk' \in DiskRecord
    BY RunTypes DEF JInv, DiskRecord, AgentEnds, Same
  <2>3. UNCHANGED <<kind, table, engine>>
    BY DEF AgentEnds, Same
  <2> QED BY <2>1, <2>2, <2>3, TypesKept DEF JInv
<1>2. run[r] \in RunRecord /\ Owns(r) /\ Says(r)
  BY DEF JInv, JTypeOK, RunRecord
<1>3. run[r].pc # "idle" /\ run'[r].pc # "idle" /\ Beside(r)
  BY <1>2 DEF JInv, JTypeOK, RunRecord, Beside, AgentEnds, Same
<1>4. Owns(r)' /\ Says(r)'
  BY <1>2 DEF JInv, JTypeOK, RunRecord, Owns, Says, Working, Checkpointing, Relaying, AgentEnds, Same
<1>5. RowsShrink
  BY DEF RowsShrink, AgentEnds, Same
<1> QED BY <1>1, <1>3, <1>4, <1>5, HandlerStep

LEMMA ThrowsStep == ASSUME JInv, NEW r \in Activation, Throws(r) PROVE JInv'
<1>1. /\ run' = [run EXCEPT ![r].harness = FALSE, ![r].result = "threw", ![r].pc = "close"]
      /\ run[r].pc \in {"recover", "nudge", "drain"} /\ UNCHANGED <<kind, disk, table, engine>>
  BY DEF Throws, Same
<1>2. run \in [Activation -> RunRecord] /\ disk \in DiskRecord
  BY RunTypes DEF JInv
<1>3. run' \in [Activation -> RunRecord]
  <2>1. [run[r] EXCEPT !.harness = FALSE, !.result = "threw", !.pc = "close"] \in RunRecord
    BY <1>2 DEF RunRecord, Stage
  <2> QED BY <1>1, <1>2, <2>1
<1>4. JTypeOK'
  BY <1>1, <1>2, <1>3, TypesKept DEF JInv
<1>5. Beside(r) /\ run'[r].pc = "close" /\ RowsShrink
  BY <1>1, <1>2 DEF Beside, RunRecord, RowsShrink
<1>6. Owns(r)
  BY DEF JInv
<1>7. Owns(r)' /\ Says(r)'
  BY <1>1, <1>2, <1>6 DEF Owns, Says, Working, Checkpointing, Relaying, RunRecord
<1> QED BY <1>1, <1>4, <1>5, <1>7, HandlerStep

LEMMA FlushFailedStep == ASSUME JInv, NEW r \in Activation, FlushFailed(r) PROVE JInv'
<1>1. JTypeOK'
  <2>1. run' \in [Activation -> RunRecord]
    BY RunTypes DEF JInv, RunRecord, Stage, FlushFailed, Goes, Same
  <2>2. disk' \in DiskRecord
    BY RunTypes DEF JInv, DiskRecord, FlushFailed, Goes, Same
  <2>3. UNCHANGED <<kind, table, engine>>
    BY DEF FlushFailed, Goes, Same
  <2> QED BY <2>1, <2>2, <2>3, TypesKept DEF JInv
<1>2. run[r] \in RunRecord /\ Owns(r) /\ Says(r)
  BY DEF JInv, JTypeOK, RunRecord
<1>3. run[r].pc # "idle" /\ run'[r].pc # "idle" /\ Beside(r)
  BY <1>2 DEF JInv, JTypeOK, RunRecord, Beside, FlushFailed, Goes, Same
<1>4. Owns(r)' /\ Says(r)'
  BY <1>2 DEF JInv, JTypeOK, RunRecord, Owns, Says, Working, Checkpointing, Relaying, FlushFailed, Goes, Same
<1>5. RowsShrink
  BY DEF RowsShrink, FlushFailed, Goes, Same
<1> QED BY <1>1, <1>3, <1>4, <1>5, HandlerStep

LEMMA RecheckStep == ASSUME JInv, NEW r \in Activation, Recheck(r) PROVE JInv'
<1>1. JTypeOK'
  <2>1. run' \in [Activation -> RunRecord]
    <3>1. \/ run' = [run EXCEPT ![r].pc = "close", ![r].result = "aborted"]
          \/ run' = [run EXCEPT ![r].pc = "drain", ![r].checked = TRUE]
      BY DEF Recheck
    <3>2. run \in [Activation -> RunRecord]
      BY RunTypes DEF JInv
    <3>3. /\ [run[r] EXCEPT !.pc = "close", !.result = "aborted"] \in RunRecord
          /\ [run[r] EXCEPT !.pc = "drain", !.checked = TRUE] \in RunRecord
      BY <3>2 DEF RunRecord, Stage
    <3> QED BY <3>1, <3>2, <3>3
  <2>2. disk' \in DiskRecord
    BY RunTypes DEF JInv, DiskRecord, Recheck, Same
  <2>3. UNCHANGED <<kind, table, engine>>
    BY DEF Recheck, Same
  <2> QED BY <2>1, <2>2, <2>3, TypesKept DEF JInv
<1>2. run[r] \in RunRecord /\ Owns(r) /\ Says(r)
  BY DEF JInv, JTypeOK, RunRecord
<1>3. run[r].pc # "idle" /\ run'[r].pc # "idle" /\ Beside(r)
  BY <1>2 DEF JInv, JTypeOK, RunRecord, Beside, Recheck, Same
<1>4. Owns(r)' /\ Says(r)'
  BY <1>2 DEF JInv, JTypeOK, RunRecord, Owns, Says, Working, Checkpointing, Relaying, Recheck, Same
<1>5. RowsShrink
  BY DEF RowsShrink, Recheck, Same
<1> QED BY <1>1, <1>3, <1>4, <1>5, HandlerStep

LEMMA NudgeStep == ASSUME JInv, NEW r \in Activation, Nudge(r) PROVE JInv'
<1>1. JTypeOK'
  <2>1. run' \in [Activation -> RunRecord]
    <3>1. \/ run' = [run EXCEPT ![r].harness = TRUE]
          \/ run' = [run EXCEPT ![r].pc = "drain", ![r].harness = FALSE]
      BY DEF Nudge
    <3>2. run \in [Activation -> RunRecord]
      BY RunTypes DEF JInv
    <3>3. /\ [run[r] EXCEPT !.harness = TRUE] \in RunRecord
          /\ [run[r] EXCEPT !.pc = "drain", !.harness = FALSE] \in RunRecord
      BY <3>2 DEF RunRecord, Stage
    <3> QED BY <3>1, <3>2, <3>3
  <2>2. disk' \in DiskRecord
    BY RunTypes DEF JInv, DiskRecord, Nudge, Same
  <2>3. UNCHANGED <<kind, table, engine>>
    BY DEF Nudge, Same
  <2> QED BY <2>1, <2>2, <2>3, TypesKept DEF JInv
<1>2. run[r] \in RunRecord /\ Owns(r) /\ Says(r)
  BY DEF JInv, JTypeOK, RunRecord
<1>3. run[r].pc # "idle" /\ run'[r].pc # "idle" /\ Beside(r)
  BY <1>2 DEF JInv, JTypeOK, RunRecord, Beside, Nudge, Same
<1>4. Owns(r)' /\ Says(r)'
  BY <1>2 DEF JInv, JTypeOK, RunRecord, Owns, Says, Working, Checkpointing, Relaying, Nudge, Same
<1>5. RowsShrink
  BY DEF RowsShrink, Nudge, Same
<1> QED BY <1>1, <1>3, <1>4, <1>5, HandlerStep

LEMMA DrainStep == ASSUME JInv, NEW r \in Activation, Drain(r) PROVE JInv'
<1>1. JTypeOK'
  <2>1. run' \in [Activation -> RunRecord]
    BY RunTypes DEF JInv, RunRecord, Stage, Drain, Goes, Same
  <2>2. disk' \in DiskRecord
    BY RunTypes DEF JInv, DiskRecord, Drain, Goes, Same
  <2>3. UNCHANGED <<kind, table, engine>>
    BY DEF Drain, Goes, Same
  <2> QED BY <2>1, <2>2, <2>3, TypesKept DEF JInv
<1>2. run[r] \in RunRecord /\ Owns(r) /\ Says(r)
  BY DEF JInv, JTypeOK, RunRecord
<1>3. run[r].pc # "idle" /\ run'[r].pc # "idle" /\ Beside(r)
  BY <1>2 DEF JInv, JTypeOK, RunRecord, Beside, Drain, Goes, Same
<1>4. Owns(r)' /\ Says(r)'
  BY <1>2 DEF JInv, JTypeOK, RunRecord, Owns, Says, Working, Checkpointing, Relaying, Drain, Goes, Same
<1>5. RowsShrink
  BY DEF RowsShrink, Drain, Goes, Same
<1> QED BY <1>1, <1>3, <1>4, <1>5, HandlerStep

LEMMA FinalizeStep == ASSUME JInv, NEW r \in Activation, Finalize(r) PROVE JInv'
<1>1. JTypeOK'
  <2>1. run' \in [Activation -> RunRecord]
    <3>1. PICK pushFailed \in BOOLEAN : run' = [run EXCEPT ![r].pc = "close", ![r].keep = pushFailed]
      BY DEF Finalize
    <3>2. run \in [Activation -> RunRecord]
      BY RunTypes DEF JInv
    <3>3. [run[r] EXCEPT !.pc = "close", !.keep = pushFailed] \in RunRecord
      BY <3>2 DEF RunRecord, Stage
    <3> QED BY <3>1, <3>2, <3>3
  <2>2. disk' \in DiskRecord
    BY RunTypes DEF JInv, DiskRecord, Finalize, Same
  <2>3. UNCHANGED <<kind, table, engine>>
    BY DEF Finalize, Same
  <2> QED BY <2>1, <2>2, <2>3, TypesKept DEF JInv
<1>2. run[r] \in RunRecord /\ Owns(r) /\ Says(r)
  BY DEF JInv, JTypeOK, RunRecord
<1>3. run[r].pc # "idle" /\ run'[r].pc # "idle" /\ Beside(r)
  BY <1>2 DEF JInv, JTypeOK, RunRecord, Beside, Finalize, Same
<1>4. Owns(r)' /\ Says(r)'
  BY <1>2 DEF JInv, JTypeOK, RunRecord, Owns, Says, Working, Checkpointing, Relaying, Finalize, Same
<1>5. RowsShrink
  BY DEF RowsShrink, Finalize, Same
<1> QED BY <1>1, <1>3, <1>4, <1>5, HandlerStep

LEMMA CloseCheckpointsStep == ASSUME JInv, NEW r \in Activation, CloseCheckpoints(r) PROVE JInv'
<1>1. JTypeOK'
  <2>1. run' \in [Activation -> RunRecord]
    <3>1. run' = [run EXCEPT ![r].pc = "cleanup", ![r].checkpoint = FALSE]
      BY DEF CloseCheckpoints
    <3>2. run \in [Activation -> RunRecord]
      BY RunTypes DEF JInv
    <3>3. [run[r] EXCEPT !.pc = "cleanup", !.checkpoint = FALSE] \in RunRecord
      BY <3>2 DEF RunRecord, Stage
    <3> QED BY <3>1, <3>2, <3>3
  <2>2. disk' \in DiskRecord
    BY RunTypes DEF JInv, DiskRecord, CloseCheckpoints, Same
  <2>3. UNCHANGED <<kind, table, engine>>
    BY DEF CloseCheckpoints, Same
  <2> QED BY <2>1, <2>2, <2>3, TypesKept DEF JInv
<1>2. run[r] \in RunRecord /\ Owns(r) /\ Says(r)
  BY DEF JInv, JTypeOK, RunRecord
<1>3. run[r].pc # "idle" /\ run'[r].pc # "idle" /\ Beside(r)
  BY <1>2 DEF JInv, JTypeOK, RunRecord, Beside, CloseCheckpoints, Same
<1>4. Owns(r)' /\ Says(r)'
  BY <1>2 DEF JInv, JTypeOK, RunRecord, Owns, Says, Working, Checkpointing, Relaying, CloseCheckpoints, Same
<1>5. RowsShrink
  BY DEF RowsShrink, CloseCheckpoints, Same
<1> QED BY <1>1, <1>3, <1>4, <1>5, HandlerStep

LEMMA CleanUpStep == ASSUME JInv, NEW r \in Activation, CleanUp(r) PROVE JInv'
<1>1. JTypeOK'
  <2>1. run' \in [Activation -> RunRecord]
    BY RunTypes DEF JInv, RunRecord, Stage, CleanUp, Goes, Disk
  <2>2. disk' \in DiskRecord
    BY RunTypes DEF JInv, DiskRecord, CleanUp, Goes, Disk
  <2>3. UNCHANGED <<kind, table, engine>>
    BY DEF CleanUp, Goes, Disk
  <2> QED BY <2>1, <2>2, <2>3, TypesKept DEF JInv
<1>2. run[r] \in RunRecord /\ Owns(r) /\ Says(r)
  BY DEF JInv, JTypeOK, RunRecord
<1>3. run[r].pc # "idle" /\ run'[r].pc # "idle" /\ Beside(r)
  BY <1>2 DEF JInv, JTypeOK, RunRecord, Beside, CleanUp, Goes, Disk
<1>4. Owns(r)' /\ Says(r)'
  BY <1>2 DEF JInv, JTypeOK, RunRecord, Owns, Says, Working, Checkpointing, Relaying, CleanUp, Goes, Disk
<1>5. RowsShrink
  BY DEF RowsShrink, CleanUp, Goes, Disk
<1> QED BY <1>1, <1>3, <1>4, <1>5, HandlerStep

LEMMA CloseRelayStep == ASSUME JInv, NEW r \in Activation, CloseRelay(r) PROVE JInv'
<1>1. JTypeOK'
  <2>1. run' \in [Activation -> RunRecord]
    BY RunTypes DEF JInv, RunRecord, Stage, CloseRelay, Same
  <2>2. disk' \in DiskRecord
    BY RunTypes DEF JInv, DiskRecord, CloseRelay, Same
  <2>3. UNCHANGED <<kind, table, engine>>
    BY DEF CloseRelay, Same
  <2> QED BY <2>1, <2>2, <2>3, TypesKept DEF JInv
<1>2. run[r] \in RunRecord /\ Owns(r) /\ Says(r)
  BY DEF JInv, JTypeOK, RunRecord
<1>3. run[r].pc # "idle" /\ run'[r].pc # "idle" /\ Beside(r)
  BY <1>2 DEF JInv, JTypeOK, RunRecord, Beside, CloseRelay, Same
<1>4. Owns(r)' /\ Says(r)'
  BY <1>2 DEF JInv, JTypeOK, RunRecord, Owns, Says, Working, Checkpointing, Relaying, CloseRelay, Same
<1>5. RowsShrink
  BY DEF RowsShrink, CloseRelay, Same
<1> QED BY <1>1, <1>3, <1>4, <1>5, HandlerStep

LEMMA ReportStep == ASSUME JInv, NEW r \in Activation, Report(r) PROVE JInv'
<1>1. JTypeOK'
  <2>1. run' \in [Activation -> RunRecord]
    BY RunTypes DEF JInv, RunRecord, Stage, Report, Disk
  <2>2. disk' \in DiskRecord
    BY RunTypes DEF JInv, DiskRecord, Report, Disk
  <2>3. UNCHANGED <<kind, table, engine>>
    BY DEF Report, Disk
  <2> QED BY <2>1, <2>2, <2>3, TypesKept DEF JInv
<1>2. run[r] \in RunRecord /\ Owns(r) /\ Says(r)
  BY DEF JInv, JTypeOK, RunRecord
<1>3. run[r].pc # "idle" /\ run'[r].pc # "idle" /\ Beside(r)
  BY <1>2 DEF JInv, JTypeOK, RunRecord, Beside, Report, Disk
<1>4. Owns(r)' /\ Says(r)'
  BY <1>2 DEF JInv, JTypeOK, RunRecord, Owns, Says, Working, Checkpointing, Relaying, Report, Disk
<1>5. RowsShrink
  BY DEF RowsShrink, Report, Disk
<1> QED BY <1>1, <1>3, <1>4, <1>5, HandlerStep

-----------------------------------------------------------------------------
(* The steps that touch the engine or the rows of the job.                  *)

LEMMA StartStep ==
  ASSUME ActivationAssumption, JInv, NEW r \in Activation, Start(r)
  PROVE  JInv'
<1>0. /\ run \in [Activation -> RunRecord] /\ disk \in DiskRecord
      /\ table \in TableRecord /\ engine \in EngineRecord
  BY RunTypes, Types DEF JInv
<1>1. run' = [run EXCEPT ![r].pc = "prompt"] /\ run[r].pc = "idle" /\ UNCHANGED <<kind, disk>>
  BY DEF Start, Goes
<1>2. run' \in [Activation -> RunRecord]
  BY <1>0, <1>1 DEF RunRecord, Stage
<1>3. table' = [active |-> r, ghost |-> Nobody, last |-> r]
  BY <1>0 DEF Start, RecordJobStart, TableRecord
<1>4. engine' = [engine EXCEPT !.lease = r]
  BY DEF Start
<1>5. JTypeOK'
  BY <1>0, <1>1, <1>2, <1>3, <1>4, OtherTypes DEF JInv, TableRecord, EngineRecord
<1>6. /\ run'[r].pc = "prompt"
      /\ \A q \in Activation : q # r => run'[q] = run[q]
  BY <1>0, <1>1
<1>7. Activation \subseteq Nat
  BY DEF ActivationAssumption
<1>8. InTurn'
  BY <1>6, <1>7 DEF JInv, InTurn, Start
<1>9. Newest(r)'
  BY <1>1, <1>6, <1>7 DEF JInv, InTurn, Newest
<1>10. Rows'
  BY <1>3, <1>9 DEF Rows
<1>11. \A q \in Activation : Owns(q)' /\ Says(q)'
  <2>1. ASSUME NEW q \in Activation, q # r PROVE Owns(q)' /\ Says(q)'
    BY <1>1, <1>6, <2>1 DEF JInv, Owns, Says
  <2>2. /\ run'[r].checkpoint = run[r].checkpoint /\ run'[r].relay = run[r].relay
        /\ run'[r].harness = run[r].harness /\ run'[r].keep = run[r].keep
    BY <1>0, <1>1 DEF RunRecord
  <2>3. Owns(r)
    BY DEF JInv
  <2>4. Owns(r)'
    BY <1>1, <1>6, <2>2, <2>3 DEF Owns, Working, Checkpointing, Relaying
  <2>5. Says(r)'
    BY <1>6 DEF Says
  <2> QED BY <2>1, <2>4, <2>5
<1> QED BY <1>5, <1>8, <1>10, <1>11 DEF JInv

(* What one call to the engine does to the records.                         *)
LEMMA CallStep ==
  ASSUME JInv, NEW r \in Activation, NEW p, UNCHANGED <<kind, disk>>,
         NEW after \in {"leave", "catch"}, Call(r, p, "leave", after),
         run[r].pc \in {"complete", "fail", "catch"}
  PROVE  JInv'
<1>0. /\ run \in [Activation -> RunRecord] /\ disk \in DiskRecord
      /\ table \in TableRecord /\ engine \in EngineRecord
  BY RunTypes, Types DEF JInv
<1>1. run' = [run EXCEPT ![r].pc = "leave"] \/ run' = [run EXCEPT ![r].pc = "catch"]
  BY DEF Call, Goes
<1>2. run' \in [Activation -> RunRecord]
  BY <1>0, <1>1 DEF RunRecord, Stage
<1>3. engine' = engine \/ engine' = Verdict(p)
  BY DEF Call
<1>4. engine' \in EngineRecord
  <2>1. PICK done \in BOOLEAN : Verdict(p) = [engine EXCEPT !.lease = Nobody, !.done = done]
    BY DEF Verdict
  <2> QED BY <1>0, <1>3, <2>1 DEF EngineRecord
<1>5. /\ table' = table \/ table' = [table EXCEPT !.ghost = r]
      /\ table' # table => table.active = r \/ table.last = r
  BY DEF Call, RecordSettlementPending
<1>6. table' \in TableRecord /\ (RowsShrink \/ GhostOfRow)
  BY <1>0, <1>5 DEF TableRecord, RowsShrink, GhostOfRow
<1>7. JTypeOK'
  BY <1>0, <1>2, <1>4, <1>6, OtherTypes DEF JInv
<1>8. /\ run[r].pc # "idle" /\ run'[r].pc \in {"leave", "catch"}
      /\ \A q \in Activation : q # r => run'[q] = run[q]
      /\ run'[r].checkpoint = run[r].checkpoint /\ run'[r].relay = run[r].relay
      /\ run'[r].harness = run[r].harness /\ run'[r].keep = run[r].keep
  BY <1>0, <1>1 DEF RunRecord
<1>9. Beside(r)
  BY <1>8 DEF Beside
<1>10. Owns(r)
  BY DEF JInv
<1>11. Owns(r)' /\ Says(r)'
  BY <1>8, <1>10 DEF Owns, Says, Working, Checkpointing, Relaying
<1> QED BY <1>6, <1>7, <1>8, <1>9, <1>11, HandlerStep

LEMMA SettleStep == ASSUME JInv, NEW r \in Activation, Settle(r) PROVE JInv'
BY CallStep DEF Settle

LEMMA SettleRunErrorStep == ASSUME JInv, NEW r \in Activation, SettleRunError(r) PROVE JInv'
<1>0. run \in [Activation -> RunRecord] /\ run[r].pc = "catch" /\ UNCHANGED <<kind, disk>>
  BY RunTypes DEF JInv, SettleRunError
<1>1. CASE Call(r, "fail", "leave", "leave")
  BY <1>0, <1>1, CallStep
<1>2. CASE run' = Goes(r, "leave") /\ UNCHANGED <<table, engine>>
  <2>1. run' \in [Activation -> RunRecord]
    BY <1>0, <1>2 DEF Goes, RunRecord, Stage
  <2>2. JTypeOK'
    BY <1>0, <1>2, <2>1, RunTypes, TypesKept DEF JInv
  <2>3. /\ run'[r].pc = "leave" /\ \A q \in Activation : q # r => run'[q] = run[q]
        /\ run'[r].checkpoint = run[r].checkpoint /\ run'[r].relay = run[r].relay
        /\ run'[r].harness = run[r].harness /\ run'[r].keep = run[r].keep
    BY <1>0, <1>2 DEF Goes, RunRecord
  <2>4. Owns(r)
    BY DEF JInv
  <2>5. Owns(r)' /\ Says(r)'
    BY <1>0, <2>3, <2>4 DEF Owns, Says, Working, Checkpointing, Relaying
  <2>6. Beside(r) /\ RowsShrink
    BY <1>0, <1>2, <2>3 DEF Beside, RowsShrink
  <2> QED BY <1>0, <2>2, <2>3, <2>5, <2>6, HandlerStep
<1> QED BY <1>1, <1>2 DEF SettleRunError

LEMMA LeaveStep == ASSUME JInv, NEW r \in Activation, Leave(r) PROVE JInv'
<1>0. /\ run \in [Activation -> RunRecord] /\ table \in TableRecord /\ engine \in EngineRecord
      /\ disk \in DiskRecord /\ run[r].pc = "leave" /\ UNCHANGED <<kind, disk, engine>>
      /\ run' = [run EXCEPT ![r].pc = "end"]
  BY RunTypes, Types DEF JInv, Leave, Goes
<1>1. run' \in [Activation -> RunRecord]
  BY <1>0 DEF RunRecord, Stage
<1>2. table' \in TableRecord /\ RowsShrink
  BY <1>0 DEF Leave, WithoutRecord, TableRecord, RowsShrink
<1>3. JTypeOK'
  BY <1>0, <1>1, <1>2, OtherTypes DEF JInv
<1>4. /\ run'[r].pc = "end" /\ \A q \in Activation : q # r => run'[q] = run[q]
      /\ run'[r].checkpoint = run[r].checkpoint /\ run'[r].relay = run[r].relay
      /\ run'[r].harness = run[r].harness /\ run'[r].keep = run[r].keep
  BY <1>0 DEF RunRecord
<1>5. Owns(r)
  BY DEF JInv
<1>6. Owns(r)' /\ Says(r)'
  BY <1>0, <1>4, <1>5 DEF Owns, Says, Working, Checkpointing, Relaying
<1>7. Beside(r)
  BY <1>0, <1>4 DEF Beside
<1> QED BY <1>0, <1>2, <1>3, <1>4, <1>6, <1>7, HandlerStep

(* Nothing but the rows, or the engine.                                     *)
LEMMA RecordStep ==
  ASSUME JInv, UNCHANGED <<kind, run, disk>>, table' \in TableRecord, engine' \in EngineRecord,
         RowsShrink \/ GhostOfRow
  PROVE  JInv'
<1>1. JTypeOK'
  BY RunTypes, OtherTypes DEF JInv
<1>2. InTurn' /\ \A r \in Activation : Owns(r)' /\ Says(r)'
  BY DEF JInv, InTurn, Owns, Says
<1>3. \A x \in Activation : Newest(x) => Newest(x)'
  BY DEF Newest
<1>4. table \in TableRecord
  BY Types DEF JInv
<1>5. Rows'
  BY <1>3, <1>4 DEF JInv, Rows, RowsShrink, GhostOfRow, TableRecord
<1> QED BY <1>1, <1>2, <1>5 DEF JInv

LEMMA ShedAnsweredStep == ASSUME JInv, NEW r \in Activation, ShedAnswered(r) PROVE JInv'
<1>0. table \in TableRecord /\ engine \in EngineRecord
  BY Types DEF JInv
<1>1. UNCHANGED <<kind, run, disk>>
  BY DEF ShedAnswered
<1>2. engine' \in EngineRecord
  BY <1>0 DEF ShedAnswered, EngineRecord
<1>3. /\ table' = table \/ table' = [table EXCEPT !.ghost = r]
      /\ table' # table => table.active = r \/ table.last = r
  BY DEF ShedAnswered, RecordSettlementPending
<1>4. table' \in TableRecord /\ (RowsShrink \/ GhostOfRow)
  BY <1>0, <1>3 DEF TableRecord, RowsShrink, GhostOfRow
<1> QED BY <1>1, <1>2, <1>4, RecordStep

LEMMA JStepInv == ActivationAssumption /\ JInv /\ [JNext]_jvars => JInv'
<1> SUFFICES ASSUME ActivationAssumption, JInv, [JNext]_jvars PROVE JInv'
  OBVIOUS
<1>0. table \in TableRecord /\ engine \in EngineRecord
  BY Types DEF JInv
<1>1. CASE LoseLease
  <2>1. engine' \in EngineRecord /\ UNCHANGED <<kind, run, disk, table>>
    BY <1>0, <1>1 DEF LoseLease, EngineRecord
  <2> QED BY <1>0, <2>1, RecordStep DEF RowsShrink
<1>2. CASE Prune
  <2>1. table' \in TableRecord /\ RowsShrink /\ UNCHANGED <<kind, run, disk, engine>>
    BY <1>0, <1>2 DEF Prune, TableRecord, RowsShrink
  <2> QED BY <1>0, <2>1, RecordStep
<1>3. CASE UNCHANGED jvars
  BY <1>0, <1>3, RecordStep DEF jvars, RowsShrink
<1>4. ASSUME NEW r \in Activation, JStep(r) PROVE JInv'
  BY <1>4, StartStep, AbortStep, SetupAbortedStep, ResolvePromptStep, ResolveSecretsStep,
     ActivateProducerStep, ResumeFromHistoryStep, ProvisionRunDirStep, SetupCheckpointsStep,
     OpenRunStep, SpawnStep, AgentEndsStep, FlushFailedStep, ThrowsStep, RecheckStep, NudgeStep, DrainStep,
     FinalizeStep, CloseCheckpointsStep, CleanUpStep, CloseRelayStep, ReportStep, SettleStep,
     SettleRunErrorStep, LeaveStep, ShedAnsweredStep DEF JStep
<1> QED BY <1>1, <1>2, <1>3, <1>4 DEF JNext

-----------------------------------------------------------------------------
(* What only the way through the report takes away: the result directory    *)
(* and the producer of transcripts.                                         *)
Running == {"spawn", "run", "recover", "recheck", "nudge", "drain", "finalize", "close",
            "cleanup", "relay", "report"}
Left(r) ==
  /\ <<r, "res">> \in disk.dirs \union disk.live =>
       run[r].pc \in Running \/ run[r].result \in {"aborted", "threw"}
  /\ run[r].producer => \/ run[r].pc \in {"resume", "provision", "checkpoint", "open"} \union Running
                       \/ run[r].result \in {"aborted", "threw"} \/ run[r].shed
LeftInv == \A r \in Activation : Left(r)

(* The pairs of the step's own activation are all that may come; "res" ones *)
(* come in OpenRun only.                                                    *)
NoMoreResults == \A q \in Activation :
  <<q, "res">> \in disk'.dirs \union disk'.live => <<q, "res">> \in disk.dirs \union disk.live

LEMMA LeftOfOne ==
  ASSUME LeftInv, NEW r \in Activation, NoMoreResults, Left(r)',
         \A q \in Activation : q # r => run'[q] = run[q]
  PROVE  LeftInv'
BY DEF LeftInv, Left, NoMoreResults

LEMMA LeftStep ==
  ASSUME ActivationAssumption, JInv, LeftInv, [JNext]_jvars PROVE LeftInv'
<1>0. run \in [Activation -> RunRecord] /\ disk \in DiskRecord
  BY RunTypes DEF JInv
<1> USE DEF Running
<1>1. CASE UNCHANGED <<run, disk>>
  BY <1>1 DEF LeftInv, Left
<1>2. ASSUME NEW r \in Activation, JStep(r) PROVE LeftInv'
  <2>1. Left(r) /\ run[r] \in RunRecord
    BY <1>0 DEF LeftInv
  <2>2. CASE Abort(r)
    <3>1. NoMoreResults
      BY <1>0, <2>2 DEF NoMoreResults, DiskRecord, Abort, Same
    <3>2. Left(r)' /\ \A q \in Activation : q # r => run'[q] = run[q]
      BY <1>0, <2>1, <2>2, <3>1 DEF Left, NoMoreResults, RunRecord, Abort, Same
    <3> QED BY <3>1, <3>2, LeftOfOne
  <2>3. CASE SetupAborted(r)
    <3>1. NoMoreResults
      BY <1>0, <2>3 DEF NoMoreResults, DiskRecord, SetupAborted, Yield, WithoutRunDir
    <3>2. Left(r)' /\ \A q \in Activation : q # r => run'[q] = run[q]
      BY <1>0, <2>1, <2>3, <3>1 DEF Left, NoMoreResults, RunRecord, SetupAborted, Yield, WithoutRunDir
    <3> QED BY <3>1, <3>2, LeftOfOne
  <2>4. CASE ResolvePrompt(r)
    <3>1. NoMoreResults
      BY <1>0, <2>4 DEF NoMoreResults, DiskRecord, ResolvePrompt, Goes, Fails, Same
    <3>2. Left(r)' /\ \A q \in Activation : q # r => run'[q] = run[q]
      BY <1>0, <2>1, <2>4, <3>1 DEF Left, NoMoreResults, RunRecord, ResolvePrompt, Goes, Fails, Same
    <3> QED BY <3>1, <3>2, LeftOfOne
  <2>5. CASE ResolveSecrets(r)
    <3>1. NoMoreResults
      BY <1>0, <2>5 DEF NoMoreResults, DiskRecord, ResolveSecrets, Goes, Fails
    <3>2. Left(r)' /\ \A q \in Activation : q # r => run'[q] = run[q]
      BY <1>0, <2>1, <2>5, <3>1 DEF Left, NoMoreResults, RunRecord, ResolveSecrets, Goes, Fails
    <3> QED BY <3>1, <3>2, LeftOfOne
  <2>6. CASE ActivateProducer(r)
    <3>1. NoMoreResults
      BY <1>0, <2>6 DEF NoMoreResults, DiskRecord, ActivateProducer, Same
    <3>2. Left(r)' /\ \A q \in Activation : q # r => run'[q] = run[q]
      BY <1>0, <2>1, <2>6, <3>1 DEF Left, NoMoreResults, RunRecord, ActivateProducer, Same
    <3> QED BY <3>1, <3>2, LeftOfOne
  <2>7. CASE ResumeFromHistory(r)
    <3>1. NoMoreResults
      BY <1>0, <2>7 DEF NoMoreResults, DiskRecord, ResumeFromHistory, Goes, Same
    <3>2. Left(r)' /\ \A q \in Activation : q # r => run'[q] = run[q]
      BY <1>0, <2>1, <2>7, <3>1 DEF Left, NoMoreResults, RunRecord, ResumeFromHistory, Goes, Same
    <3> QED BY <3>1, <3>2, LeftOfOne
  <2>8. CASE ProvisionRunDir(r)
    <3>1. NoMoreResults
      <4>1. CASE disk' = WithoutRunDir(r)
        BY <1>0, <4>1 DEF NoMoreResults, DiskRecord, WithoutRunDir
      <4>2. CASE disk' # WithoutRunDir(r)
        <5>1. \/ disk' = disk
              \/ disk' = [disk EXCEPT !.dirs = @ \union {<<r, "run">>},
                                      !.live = @ \union {<<r, "run">>}]
          BY <2>8, <4>2 DEF ProvisionRunDir
        <5>2. /\ disk'.dirs \subseteq disk.dirs \union {<<r, "run">>}
              /\ disk'.live \subseteq disk.live \union {<<r, "run">>}
          BY <1>0, <5>1 DEF DiskRecord
        <5> QED BY <5>2 DEF NoMoreResults
      <4> QED BY <4>1, <4>2
    <3>2. Left(r)' /\ \A q \in Activation : q # r => run'[q] = run[q]
      BY <1>0, <2>1, <2>8, <3>1 DEF Left, NoMoreResults, RunRecord, ProvisionRunDir, Goes, Fails, WithoutRunDir
    <3> QED BY <3>1, <3>2, LeftOfOne
  <2>9. CASE SetupCheckpoints(r)
    <3>1. NoMoreResults
      BY <1>0, <2>9 DEF NoMoreResults, DiskRecord, SetupCheckpoints, Same
    <3>2. Left(r)' /\ \A q \in Activation : q # r => run'[q] = run[q]
      BY <1>0, <2>1, <2>9, <3>1 DEF Left, NoMoreResults, RunRecord, SetupCheckpoints, Same
    <3> QED BY <3>1, <3>2, LeftOfOne
  <2>10. CASE Spawn(r)
    <3>1. NoMoreResults
      BY <1>0, <2>10 DEF NoMoreResults, DiskRecord, Spawn
    <3>2. Left(r)' /\ \A q \in Activation : q # r => run'[q] = run[q]
      BY <1>0, <2>1, <2>10, <3>1 DEF Left, NoMoreResults, RunRecord, Spawn
    <3> QED BY <3>1, <3>2, LeftOfOne
  <2>11. CASE AgentEnds(r)
    <3>1. NoMoreResults
      BY <1>0, <2>11 DEF NoMoreResults, DiskRecord, AgentEnds, Same
    <3>2. Left(r)' /\ \A q \in Activation : q # r => run'[q] = run[q]
      BY <1>0, <2>1, <2>11, <3>1 DEF Left, NoMoreResults, RunRecord, AgentEnds, Same
    <3> QED BY <3>1, <3>2, LeftOfOne
  <2>12. CASE FlushFailed(r)
    <3>1. NoMoreResults
      BY <1>0, <2>12 DEF NoMoreResults, DiskRecord, FlushFailed, Goes, Same
    <3>2. Left(r)' /\ \A q \in Activation : q # r => run'[q] = run[q]
      BY <1>0, <2>1, <2>12, <3>1 DEF Left, NoMoreResults, RunRecord, FlushFailed, Goes, Same
    <3> QED BY <3>1, <3>2, LeftOfOne
  <2>13. CASE Throws(r)
    <3>1. NoMoreResults
      BY <1>0, <2>13 DEF NoMoreResults, DiskRecord, Throws, Same
    <3>2. Left(r)' /\ \A q \in Activation : q # r => run'[q] = run[q]
      BY <1>0, <2>1, <2>13, <3>1 DEF Left, NoMoreResults, RunRecord, Throws, Same
    <3> QED BY <3>1, <3>2, LeftOfOne
  <2>14. CASE Recheck(r)
    <3>1. NoMoreResults
      BY <1>0, <2>14 DEF NoMoreResults, DiskRecord, Recheck, Same
    <3>2. Left(r)' /\ \A q \in Activation : q # r => run'[q] = run[q]
      BY <1>0, <2>1, <2>14, <3>1 DEF Left, NoMoreResults, RunRecord, Recheck, Same
    <3> QED BY <3>1, <3>2, LeftOfOne
  <2>15. CASE Nudge(r)
    <3>1. NoMoreResults
      BY <1>0, <2>15 DEF NoMoreResults, DiskRecord, Nudge, Same
    <3>2. Left(r)' /\ \A q \in Activation : q # r => run'[q] = run[q]
      BY <1>0, <2>1, <2>15, <3>1 DEF Left, NoMoreResults, RunRecord, Nudge, Same
    <3> QED BY <3>1, <3>2, LeftOfOne
  <2>16. CASE Drain(r)
    <3>1. NoMoreResults
      BY <1>0, <2>16 DEF NoMoreResults, DiskRecord, Drain, Goes, Same
    <3>2. Left(r)' /\ \A q \in Activation : q # r => run'[q] = run[q]
      BY <1>0, <2>1, <2>16, <3>1 DEF Left, NoMoreResults, RunRecord, Drain, Goes, Same
    <3> QED BY <3>1, <3>2, LeftOfOne
  <2>17. CASE Finalize(r)
    <3>1. NoMoreResults
      BY <1>0, <2>17 DEF NoMoreResults, DiskRecord, Finalize, Same
    <3>2. Left(r)' /\ \A q \in Activation : q # r => run'[q] = run[q]
      BY <1>0, <2>1, <2>17, <3>1 DEF Left, NoMoreResults, RunRecord, Finalize, Same
    <3> QED BY <3>1, <3>2, LeftOfOne
  <2>18. CASE CloseCheckpoints(r)
    <3>1. NoMoreResults
      BY <1>0, <2>18 DEF NoMoreResults, DiskRecord, CloseCheckpoints, Same
    <3>2. Left(r)' /\ \A q \in Activation : q # r => run'[q] = run[q]
      BY <1>0, <2>1, <2>18, <3>1 DEF Left, NoMoreResults, RunRecord, CloseCheckpoints, Same
    <3> QED BY <3>1, <3>2, LeftOfOne
  <2>19. CASE CleanUp(r)
    <3>1. NoMoreResults
      BY <1>0, <2>19 DEF NoMoreResults, DiskRecord, CleanUp, Goes
    <3>2. Left(r)' /\ \A q \in Activation : q # r => run'[q] = run[q]
      BY <1>0, <2>1, <2>19, <3>1 DEF Left, NoMoreResults, RunRecord, CleanUp, Goes
    <3> QED BY <3>1, <3>2, LeftOfOne
  <2>20. CASE CloseRelay(r)
    <3>1. NoMoreResults
      BY <1>0, <2>20 DEF NoMoreResults, DiskRecord, CloseRelay, Same
    <3>2. Left(r)' /\ \A q \in Activation : q # r => run'[q] = run[q]
      BY <1>0, <2>1, <2>20, <3>1 DEF Left, NoMoreResults, RunRecord, CloseRelay, Same
    <3> QED BY <3>1, <3>2, LeftOfOne
  <2>21. CASE Settle(r)
    <3>1. NoMoreResults
      BY <1>0, <2>21 DEF NoMoreResults, DiskRecord, Settle, Call, Goes
    <3>2. Left(r)' /\ \A q \in Activation : q # r => run'[q] = run[q]
      BY <1>0, <2>1, <2>21, <3>1 DEF Left, NoMoreResults, RunRecord, Settle, Call, Goes
    <3> QED BY <3>1, <3>2, LeftOfOne
  <2>22. CASE SettleRunError(r)
    <3>1. NoMoreResults
      BY <1>0, <2>22 DEF NoMoreResults, DiskRecord, SettleRunError, Call, Goes
    <3>2. Left(r)' /\ \A q \in Activation : q # r => run'[q] = run[q]
      BY <1>0, <2>1, <2>22, <3>1 DEF Left, NoMoreResults, RunRecord, SettleRunError, Call, Goes
    <3> QED BY <3>1, <3>2, LeftOfOne
  <2>23. CASE Leave(r)
    <3>1. NoMoreResults
      BY <1>0, <2>23 DEF NoMoreResults, DiskRecord, Leave, Goes
    <3>2. Left(r)' /\ \A q \in Activation : q # r => run'[q] = run[q]
      BY <1>0, <2>1, <2>23, <3>1 DEF Left, NoMoreResults, RunRecord, Leave, Goes
    <3> QED BY <3>1, <3>2, LeftOfOne
  <2>24. CASE Start(r)
    <3>1. NoMoreResults
      BY <1>0, <2>24 DEF NoMoreResults, DiskRecord, Start, Goes
    <3>2. Left(r)' /\ \A q \in Activation : q # r => run'[q] = run[q]
      BY <1>0, <2>1, <2>24, <3>1 DEF Left, NoMoreResults, RunRecord, Start, Goes
    <3> QED BY <3>1, <3>2, LeftOfOne
  <2>25. CASE OpenRun(r)
    <3>1. /\ run'[r].pc = "spawn" /\ \A q \in Activation : q # r => run'[q] = run[q]
      BY <1>0, <2>25 DEF OpenRun, RunRecord
    <3>2. disk'.dirs \union disk'.live \subseteq disk.dirs \union disk.live \union {<<r, "res">>}
      BY <1>0, <2>25 DEF OpenRun, DiskRecord
    <3> QED BY <3>1, <3>2 DEF LeftInv, Left
  <2>26. CASE Report(r)
    <3>1. /\ ~run'[r].producer /\ \A q \in Activation : q # r => run'[q] = run[q]
      BY <1>0, <2>26 DEF Report, RunRecord
    <3>2. /\ <<r, "res">> \notin disk'.dirs \union disk'.live
          /\ disk'.dirs \subseteq disk.dirs /\ disk'.live \subseteq disk.live
      BY <1>0, <2>26 DEF Report, DiskRecord
    <3> QED BY <3>1, <3>2 DEF LeftInv, Left
  <2>27. CASE ShedAnswered(r)
    BY <1>1, <2>27 DEF ShedAnswered
  <2> QED BY <1>2, <2>2, <2>3, <2>4, <2>5, <2>6, <2>7, <2>8, <2>9, <2>10,
     <2>11, <2>12, <2>13, <2>14, <2>15, <2>16, <2>17, <2>18, <2>19, <2>20,
     <2>21, <2>22, <2>23, <2>24, <2>25, <2>26, <2>27 DEF JStep
<1> QED BY <1>1, <1>2 DEF JNext, jvars, LoseLease, Prune

-----------------------------------------------------------------------------
(* recordSettlementPending and recordJobEnd, whatever order the runs of the *)
(* job end in: a row is about the newest activation.                        *)
THEOREM GhostsAreNewest == ASSUME ActivationAssumption PROVE JSpec => []GhostIsNewest
<1>0. (JInit => JInv) /\ (JInv /\ [JNext]_jvars => JInv')
  BY JInitInv, JStepInv
<1>1. JInv => GhostIsNewest
  BY DEF JInv, Rows, GhostIsNewest
<1> QED BY <1>0, <1>1, PTL DEF JSpec

LEMMA NothingIsLeft == JInv /\ LeftInv => LeavesNothing
<1> SUFFICES ASSUME JInv, LeftInv, NEW r \in Activation, run[r].pc = "end"
             PROVE  /\ <<r, "run">> \notin disk.live /\ r \notin disk.ids
                    /\ <<r, "run">> \in disk.dirs => run[r].keep
                    /\ <<r, "res">> \in disk.dirs \union disk.live =>
                         run[r].result \in {"aborted", "threw"}
                    /\ run[r].producer => run[r].result \in {"aborted", "threw"} \/ run[r].shed
                    /\ ~run[r].checkpoint /\ ~run[r].relay /\ ~run[r].harness
  BY DEF LeavesNothing
<1>1. Owns(r) /\ Left(r)
  BY DEF JInv, LeftInv
<1> QED BY <1>1 DEF Owns, Left, Working, Checkpointing, Relaying, Running

(* The finally block of the handler, and the early exits before it: a run   *)
(* directory only if it is kept, a result directory only after an abort or  *)
(* an error, a producer only then or after a failed setup, nothing else.    *)
THEOREM HandlersCleanUp == ASSUME ActivationAssumption PROVE JSpec => []LeavesNothing
<1>1. JInit => JInv /\ LeftInv
  BY JInitInv DEF JInit, LeftInv, Left, Unstarted
<1>2. JInv /\ LeftInv /\ [JNext]_jvars => JInv' /\ LeftInv'
  BY JStepInv, LeftStep
<1>3. JInv /\ LeftInv => LeavesNothing
  BY NothingIsLeft
<1> QED BY <1>1, <1>2, <1>3, PTL DEF JSpec

(* The gates of the handler: an aborted run settles only what its agent had *)
(* finished, or what it looked at the signal for.                           *)
LEMMA SettlesWhenAllowed ==
  ASSUME ActivationAssumption, JInv, [JNext]_jvars PROVE [SettlesUnaborted]_jvars
<1> SUFFICES ASSUME JInv, JNext, NEW s \in Activation, run[s].aborted
             PROVE  /\ engine'.lease # engine.lease /\ engine.lease = s /\ run'[s].pc # run[s].pc
                          => run[s].result = "ok" \/ run[s].checked
                    /\ s \in engine'.sent => s \in engine.sent
  BY DEF SettlesUnaborted
<1>0. s # Nobody /\ engine \in EngineRecord /\ run \in [Activation -> RunRecord]
  BY Types, RunTypes DEF ActivationAssumption, Nobody, JInv
<1>1. CASE LoseLease \/ Prune
  BY <1>0, <1>1 DEF LoseLease, Prune, EngineRecord
<1>2. ASSUME NEW r \in Activation, JStep(r)
      PROVE  /\ engine'.lease # engine.lease /\ engine.lease = s /\ run'[s].pc # run[s].pc
                  => run[s].result = "ok" \/ run[s].checked
             /\ s \in engine'.sent => s \in engine.sent
  <2>1. CASE UNCHANGED engine
    BY <2>1
  <2>2. CASE Start(r)
    BY <1>0, <2>2 DEF Start, EngineRecord
  <2>3. CASE Fails(r) /\ ~run[r].aborted
    BY <1>0, <2>3 DEF Fails, EngineRecord
  <2>4. CASE ShedAnswered(r)
    BY <1>0, <2>4 DEF ShedAnswered, EngineRecord
  <2>5. CASE Settle(r) \/ SettleRunError(r)
    <3>1. engine'.sent = engine.sent
      BY <1>0, <2>5 DEF Settle, SettleRunError, Call, Verdict, EngineRecord
    <3>2. \E p \in {"leave", "catch"} : run' = [run EXCEPT ![r].pc = p]
      BY <2>5 DEF Settle, SettleRunError, Call, Goes
    <3>3. run'[s].pc # run[s].pc => s = r
      BY <1>0, <3>2
    <3>4. Says(r)
      BY DEF JInv
    <3>5. s = r /\ engine' # engine => run[s].result = "ok" \/ run[s].checked
      BY <2>5, <3>4 DEF Settle, SettleRunError, Says
    <3> QED BY <3>1, <3>3, <3>5
  <2> QED BY <1>2, <2>1, <2>2, <2>3, <2>4, <2>5 DEF JStep, Abort, SetupAborted, ResolvePrompt,
     ResolveSecrets, ActivateProducer, ResumeFromHistory, ProvisionRunDir, SetupCheckpoints,
     OpenRun, Spawn, AgentEnds, FlushFailed, Throws, Recheck, Nudge, Drain, Finalize,
     CloseCheckpoints, CleanUp, CloseRelay, Report, Leave, Same, Disk
<1> QED BY <1>1, <1>2 DEF JNext

(* So no run settles after its abort beside its replacement (runner.run).   *)
THEOREM AbortedRunsYield == ASSUME ActivationAssumption PROVE JSpec => AbortYields
<1>0. (JInit => JInv) /\ (JInv /\ [JNext]_jvars => JInv')
  BY JInitInv, JStepInv
<1>1. JInv /\ [JNext]_jvars => [SettlesUnaborted]_jvars
  BY SettlesWhenAllowed
<1> QED BY <1>0, <1>1, PTL DEF JSpec, AbortYields
=============================================================================
