---------------------------- MODULE RunNamespace ----------------------------
(***************************************************************************)
(* The directories of a host's workers (agent-runs/worker-<incarnation>).  *)
(* A worker process owns one namespace and reaps the aged directories in   *)
(* it that no activation of its own uses; a namespace whose owner is dead  *)
(* is reclaimed by any other worker, unless a harness of the dead one may  *)
(* still be running in it.  A marker says so: it is written, if it can be, *)
(* before the harness is spawned and gets its pid afterwards.  It is named *)
(* by the job, so the activations of a worker here, which are of one job,  *)
(* share it: a lock that runs out lets the next begin before the last is   *)
(* over.                                                                   *)
(***************************************************************************)
EXTENDS FiniteSets, Naturals

CONSTANTS Worker,      \* worker processes (incarnations)
          Activation,  \* activations of the job in each of them, by number
          MaxRuns,     \* bound: activations begun on the host
          Window       \* reapAgeMs, in ticks

WindowAssumption == Window \in Nat

VARIABLES proc,      \* each process: its phase and the sweep it is in
          stage,     \* how far each activation of each process is
          ns,        \* each namespace on disk
          harness,   \* the harness processes: worker, activation, turn
          kept       \* ticks since the workspace of an activation was preserved
nvars == <<proc, stage, ns, harness, kept>>

NoDir == Window + 1
NoDirs == [r \in Activation |-> NoDir]
(* The marker: the pids in it and, for the properties, who wrote to it.     *)
NoMarker == [there |-> FALSE, pids |-> {}, by |-> {}]
Absent == [exists |-> FALSE, owner |-> FALSE, age |-> 0, marker |-> NoMarker,
           dir |-> NoDirs, lock |-> FALSE]
Down(w) == [pc |-> "down", sweep |-> "none", target |-> w]
NInit == /\ proc = [w \in Worker |-> Down(w)] /\ ns = [w \in Worker |-> Absent]
         /\ stage = [w \in Worker |-> [r \in Activation |-> "none"]]
         /\ harness = {} /\ kept = [w \in Worker |-> NoDirs]

Older(age) == IF age >= Window THEN age ELSE age + 1
Aged(dirs) == [r \in Activation |-> Older(dirs[r])]
Tick == /\ ns' = [w \in Worker |-> [ns[w] EXCEPT !.age = Older(@), !.dir = Aged(@)]]
        /\ kept' = [w \in Worker |-> Aged(kept[w])]
        /\ UNCHANGED <<proc, stage, harness>>

(* allocateWorkerNamespace: the directory, then its owner record, linked in *)
(* one step; a worker that cannot allocate exits.                           *)
Allocate(w) ==
  /\ proc[w].pc = "down" /\ ~ns[w].exists
  /\ proc' = [proc EXCEPT ![w].pc = "boot"]
  /\ ns' = [ns EXCEPT ![w] = [Absent EXCEPT !.exists = TRUE]]
  /\ UNCHANGED <<stage, harness, kept>>
RecordOwner(w) ==
  /\ proc[w].pc = "boot" /\ proc' = [proc EXCEPT ![w].pc = "up"]
  /\ ns' = [ns EXCEPT ![w].owner = TRUE, ![w].age = 0]
  /\ UNCHANGED <<stage, harness, kept>>

-----------------------------------------------------------------------------
(* One activation: its directory, writeJobMarker, the harness of its first  *)
(* turn and that of the nudge, recordHarnessPid.  The marker is written and *)
(* completed as well as can be: the harness starts without it too.          *)
InStage(w, r, s) == proc[w].pc = "up" /\ stage[w][r] = s
To(w, r, s) == stage' = [stage EXCEPT ![w][r] = s]

Begun == {a \in Worker \X Activation : stage[a[1]][a[2]] # "none"}
StartJob(w, r) ==
  /\ InStage(w, r, "none") /\ To(w, r, "setup") /\ Cardinality(Begun) < MaxRuns
  /\ \A q \in Activation : q < r => stage[w][q] # "none"
  /\ ns' = [ns EXCEPT ![w].dir[r] = 0, ![w].age = 0]
  /\ UNCHANGED <<proc, harness, kept>>
AbandonSetup(w, r) ==
  /\ InStage(w, r, "setup") /\ To(w, r, "over")
  /\ ns' = [ns EXCEPT ![w].dir[r] = NoDir, ![w].age = 0]
  /\ UNCHANGED <<proc, harness, kept>>
WriteMarker(w, r) ==
  /\ InStage(w, r, "setup") /\ To(w, r, "ready")
  /\ \/ ns' = [ns EXCEPT ![w].marker = [there |-> TRUE, pids |-> {}, by |-> {r}]]
     \/ UNCHANGED ns
  /\ UNCHANGED <<proc, harness, kept>>
Spawn(w, r) ==
  /\ InStage(w, r, "ready") /\ To(w, r, "spawned")
  /\ harness' = harness \union {<<w, r, 1>>} /\ UNCHANGED <<proc, ns, kept>>
Nudge(w, r) ==
  /\ InStage(w, r, "runs") /\ <<w, r, 1>> \notin harness /\ To(w, r, "respawned")
  /\ harness' = harness \union {<<w, r, 2>>} /\ UNCHANGED <<proc, ns, kept>>
WithPid(m, r, turn) == [m EXCEPT !.pids = @ \union {<<r, turn>>}, !.by = @ \union {r}]
RecordPid(w, r, turn) ==
  /\ \/ turn = 1 /\ InStage(w, r, "spawned") /\ To(w, r, "runs")
     \/ turn = 2 /\ InStage(w, r, "respawned") /\ To(w, r, "nudged")
  /\ \/ ns[w].marker.there /\ ns' = [ns EXCEPT ![w].marker = WithPid(@, r, turn)]
     \/ UNCHANGED ns
  /\ UNCHANGED <<proc, harness, kept>>
HarnessEnds(h) == h \in harness /\ harness' = harness \ {h} /\ UNCHANGED <<proc, stage, ns, kept>>

(* The marker of the job goes, whoever wrote it; the workspace too, unless  *)
(* it is preserved: then it and the namespace are touched, so that both     *)
(* keep a whole window from now.                                            *)
RemoveJobMarker(n) == [n EXCEPT !.marker = NoMarker]

\* Mutated form: the namespace itself is not touched.
PreserveOnlyDir(n, r) == [n EXCEPT !.dir[r] = 0]

Preserve(n, r) == [n EXCEPT !.dir[r] = 0, !.age = 0]
EndJob(w, r) ==
  /\ \E s \in {"ready", "runs", "nudged"} : InStage(w, r, s)
  /\ <<w, r, 1>> \notin harness /\ <<w, r, 2>> \notin harness /\ To(w, r, "over")
  /\ \/ /\ ns' = [ns EXCEPT ![w] = [RemoveJobMarker(@) EXCEPT !.dir[r] = NoDir, !.age = 0]]
        /\ UNCHANGED kept
     \/ /\ ns' = [ns EXCEPT ![w] = Preserve(RemoveJobMarker(@), r)]
        /\ kept' = [kept EXCEPT ![w][r] = 0]
  /\ UNCHANGED <<proc, harness>>

(* The process dies, and its activations; what it spawned may outlive it.   *)
Crash(w) ==
  /\ proc[w].pc \in {"boot", "up"} /\ proc' = [proc EXCEPT ![w] = [Down(w) EXCEPT !.pc = "dead"]]
  /\ stage' = [stage EXCEPT ![w] = [r \in Activation |-> IF @[r] = "none" THEN "none" ELSE "over"]]
  /\ UNCHANGED <<ns, harness, kept>>

-----------------------------------------------------------------------------
(* reapOwnedNamespace: the aged directories of no activation in flight.     *)
InFlight(w, r) == proc[w].pc = "up" /\ stage[w][r] \notin {"none", "over"}
ReapOwn(w) ==
  LET aged == {r \in Activation : ~InFlight(w, r) /\ ns[w].dir[r] = Window}
      without(dirs) == [r \in Activation |-> IF r \in aged THEN NoDir ELSE dirs[r]]
  IN /\ proc[w].pc = "up" /\ aged # {}
     /\ ns' = [ns EXCEPT ![w].dir = without(@), ![w].age = 0]
     /\ kept' = [kept EXCEPT ![w] = without(@)] /\ UNCHANGED <<proc, stage, harness>>

(* reclaimOrphanNamespaces, interleaved with everybody else's: check, lock, *)
(* check again, delete.  An owner that cannot be judged counts as alive.    *)
Owned(t) == ns[t].exists /\ ns[t].owner
OwnerDead(t) == proc[t].pc = "dead"
HasLiveHarness(t) == /\ ns[t].marker.there
                     /\ \/ ns[t].marker.pids = {}
                        \/ \E p \in ns[t].marker.pids : <<t, p[1], p[2]>> \in harness
Sweeping(w, t, p) == [proc EXCEPT ![w].sweep = p, ![w].target = t]
Done(w) == Sweeping(w, w, "none")

Judge(w, t) ==
  /\ proc[w].pc = "up" /\ proc[w].sweep = "none" /\ t # w
  /\ Owned(t) /\ ns[t].age >= Window /\ OwnerDead(t) /\ ~HasLiveHarness(t)
  /\ proc' = Sweeping(w, t, "judged") /\ UNCHANGED <<stage, ns, harness, kept>>
TakeLock(w, t) ==
  /\ proc[w].sweep = "judged" /\ proc[w].target = t
  /\ IF ns[t].exists /\ ~ns[t].lock
     THEN /\ ns' = [ns EXCEPT ![t].lock = TRUE, ![t].age = 0]
          /\ proc' = Sweeping(w, t, "locked")
     ELSE UNCHANGED ns /\ proc' = Done(w)
  /\ UNCHANGED <<stage, harness, kept>>
Reclaim(w, t) ==
  /\ proc[w].sweep = "locked" /\ proc[w].target = t /\ proc' = Done(w)
  /\ IF Owned(t) /\ OwnerDead(t) /\ ~HasLiveHarness(t)
     THEN ns' = [ns EXCEPT ![t] = Absent] /\ kept' = [kept EXCEPT ![t] = NoDirs]
     ELSE ns' = [ns EXCEPT ![t].lock = FALSE, ![t].age = 0] /\ UNCHANGED kept
  /\ UNCHANGED <<stage, harness>>

NNext == \/ Tick \/ \E h \in harness : HarnessEnds(h)
         \/ \E w \in Worker : \/ Allocate(w) \/ RecordOwner(w) \/ Crash(w) \/ ReapOwn(w)
                              \/ \E t \in Worker : Judge(w, t) \/ TakeLock(w, t) \/ Reclaim(w, t)
         \/ \E w \in Worker, r \in Activation :
              \/ StartJob(w, r) \/ AbandonSetup(w, r) \/ WriteMarker(w, r) \/ Spawn(w, r)
              \/ Nudge(w, r) \/ (\E turn \in {1, 2} : RecordPid(w, r, turn)) \/ EndJob(w, r)
NSpec == NInit /\ [][NNext]_nvars

-----------------------------------------------------------------------------
NTypeOK ==
  /\ harness \subseteq Worker \X Activation \X {1, 2}
  /\ kept \in [Worker -> [Activation -> 0..NoDir]]
  /\ stage \in [Worker -> [Activation -> {"none", "setup", "ready", "spawned", "runs", "respawned",
                                         "nudged", "over"}]]
  /\ ns \in [Worker -> [exists : BOOLEAN, owner : BOOLEAN, lock : BOOLEAN, age : 0..Window,
                        dir : [Activation -> 0..NoDir],
                        marker : [there : BOOLEAN, pids : SUBSET (Activation \X {1, 2}),
                                  by : SUBSET Activation]]]
  /\ \A w \in Worker : proc[w] \in [pc : {"down", "boot", "up", "dead"},
                                 sweep : {"none", "judged", "locked"}, target : Worker]

(* No reaper takes the directory of an activation that a live worker runs,  *)
(* though another of the same job be over; nor that of a harness which      *)
(* outlives its worker, where a marker stands that no other activation has  *)
(* written to (of the harness of a nudge, where its pid is in it too); and  *)
(* a preserved workspace stays for a whole window, though its worker may    *)
(* die right after.                                                         *)
TakesUnused ==
  \A w \in Worker, r \in Activation : ns[w].dir[r] # NoDir /\ ns'[w].dir[r] = NoDir =>
    /\ InFlight(w, r) => ~InFlight(w, r)'
    /\ ns[w].marker.by = {r} => \A turn \in {1, 2} :
         <<w, r, turn>> \in harness => turn = 2 /\ <<r, 2>> \notin ns[w].marker.pids
    /\ kept[w][r] >= Window
NeverUnderUse == [][TakesUnused]_nvars
=============================================================================
