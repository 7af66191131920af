--------------------------- MODULE WipCheckpoint ---------------------------
(***************************************************************************)
(* The work-in-progress checkpoints of an agent job (agent-checkpoint.mjs  *)
(* and setupWorkspaceCheckpoints in c8ctl-plugin.js).  Every activation of *)
(* an element instance, here a run, snapshots its workspace to the remote  *)
(* ref wip/<key>, and copies its last snapshot to recovered/<key> when it  *)
(* is stopped or fails.  Every write of a ref is leased on the value the   *)
(* writer last believed it to hold.  A run whose job lease is gone goes on *)
(* until it notices, so several runs write the same refs.                  *)
(*                                                                         *)
(* The work itself is a set of units: an edit adds one, a snapshot carries *)
(* those of the workspace, a restore lays them down again.                 *)
(***************************************************************************)
EXTENDS Naturals

CONSTANTS Run,       \* activations, numbered in the order the engine makes them
          Key,       \* element instances of one task; a larger one is a re-entry
          MaxEdits,  \* edits of one run
          MaxFaults, \* failed calls to git, to the remote or to the engine
          MaxAge     \* 1: a snapshot gets past the GC grace; 2: also past the TTL

ASSUME RunAssumption == Run \subseteq Nat \ {0}
ASSUME KeyAssumption == Key \subseteq Nat \ {0}
ASSUME BoundAssumption == {MaxEdits, MaxFaults, MaxAge} \subseteq Nat

VARIABLES wip,       \* refs/nano/wip/<key> on the remote
          rec,       \* refs/nano/recovered/<key> on the remote
          age,       \* age class of the snapshot each ref holds
          pushed,    \* units that are on the pushed work branch
          slot,      \* process variable resumeFromCheckpoint: <<run, kind>>
          lease,     \* the run whose job lease the engine honours, 0 for none
          element,   \* engine state of each element instance
          finished,  \* the process instance is finished
          act,       \* local state of each run
          doomed,    \* refs a GC sweep decided to delete, with the sha it saw
          faults
vars == <<wip, rec, age, pushed, slot, lease, element, finished, act, doomed, faults>>

Unit == Run \X Nat
Snapshot == [run : Run, units : SUBSET Unit]
None == [run |-> 0, units |-> {}]
RefName == {"wip", "rec"} \X Key

Fresh == [key |-> 0, pc |-> "idle", ck |-> "idle", why |-> "none",
          aborted |-> FALSE, meta |-> FALSE, off |-> FALSE, est |-> TRUE,
          restored |-> FALSE, preserved |-> FALSE, drop |-> FALSE,
          ws |-> {}, last |-> {}, prior |-> None, expect |-> None,
          snap |-> None, owned |-> None, seen |-> None]

(* A run that is over keeps nothing but what it left in flight.             *)
To(r, p) == [act EXCEPT ![r] = IF p = "done"
                               THEN [Fresh EXCEPT !.pc = p, !.key = act[r].key, !.ck = act[r].ck, !.meta = act[r].meta]
                               ELSE [@ EXCEPT !.pc = p]]

(***************************************************************************)
(* Units that some ref or the work branch still holds.                     *)
(***************************************************************************)
Held == pushed \union UNION {wip[k].units \union rec[k].units : k \in Key}

Fail == faults < MaxFaults /\ faults' = faults + 1
Remote == <<wip, rec, age>>
Engine == <<lease, element, finished>>

Init == /\ wip = [k \in Key |-> None] /\ rec = [k \in Key |-> None]
        /\ age = [n \in RefName |-> 0]
        /\ pushed = {} /\ slot = <<0, "none">>
        /\ lease = 0 /\ element = [k \in Key |-> "none"] /\ finished = FALSE
        /\ act = [r \in Run |-> Fresh]
        /\ doomed = {} /\ faults = 0

-----------------------------------------------------------------------------
(* The engine.  It activates the runs one at a time; a lease that expires   *)
(* or an SLA boundary that cancels the element frees the job without the    *)
(* run knowing.                                                             *)

Activate(r) ==
  /\ act[r].pc = "idle" /\ lease = 0 /\ ~finished
  /\ \A q \in Run : q < r => act[q].pc # "idle"
  /\ \E k \in Key :
       /\ element[k] # "terminal" /\ \A j \in Key : j < k => element[j] = "terminal"
       /\ element' = [element EXCEPT ![k] = "active"]
       /\ act' = [act EXCEPT ![r].key = k, ![r].pc = "fetch"]
  /\ lease' = r
  /\ UNCHANGED <<Remote, pushed, slot, finished, doomed, faults>>

LoseLease == lease # 0 /\ lease' = 0
             /\ UNCHANGED <<Remote, pushed, slot, element, finished, act, doomed, faults>>

CancelElement(k) ==
  /\ element[k] = "active" /\ element' = [element EXCEPT ![k] = "terminal"]
  /\ lease' = 0 /\ UNCHANGED <<Remote, pushed, slot, finished, act, doomed, faults>>

FinishProcess ==
  /\ ~finished /\ finished' = TRUE
  /\ \A k \in Key : element[k] # "active"
  /\ UNCHANGED <<Remote, pushed, slot, lease, element, act, doomed, faults>>

(* A heartbeat finds the lease gone, or stop --force.                       *)
Abort(r) ==
  /\ act[r].pc \notin {"idle", "finalize", "discard", "done"} /\ ~act[r].aborted
  /\ act' = [act EXCEPT ![r].aborted = TRUE]
  /\ UNCHANGED <<Remote, pushed, slot, Engine, doomed, faults>>

-----------------------------------------------------------------------------
(* Setup: fetch the prior snapshot, adopt a predecessor's, restore.         *)

FetchPrior(r) ==
  /\ act[r].pc = "fetch" /\ ~act[r].aborted
  /\ LET found == wip[act[r].key]
     IN \/ /\ found # None
           /\ act' = [act EXCEPT ![r].prior = found, ![r].pc = "restore"]
           /\ UNCHANGED faults
        \/ /\ found = None /\ UNCHANGED faults
           /\ act' = [act EXCEPT ![r].pc = "run"]
        \/ /\ Fail
           /\ act' = [act EXCEPT ![r].est = FALSE, ![r].pc = "run"]
  /\ UNCHANGED <<Remote, pushed, slot, Engine, doomed>>

(* Only a bare string naming the exact predecessor is trusted; the process  *)
(* may name either ref of an earlier element instance.                      *)
FetchPredecessor(r) ==
  /\ act[r].pc = "fetch" /\ ~act[r].aborted /\ wip[act[r].key] = None
  /\ \E k \in Key : \E cp \in {wip[k], rec[k]} :
       /\ k < act[r].key /\ cp # None
       /\ act' = [act EXCEPT ![r].seen = cp, ![r].pc = "adopt"]
  /\ UNCHANGED <<Remote, pushed, slot, Engine, doomed, faults>>

Adopt(r) ==
  /\ act[r].pc = "adopt"
  /\ LET k == act[r].key
         won == wip[k] = None
         cp == IF won THEN act[r].seen ELSE wip[k]
     IN \/ /\ ~act[r].aborted /\ UNCHANGED faults
           /\ wip' = [wip EXCEPT ![k] = cp]
           /\ age' = IF won THEN [age EXCEPT ![<<"wip", k>>] = 0] ELSE age
           /\ slot' = <<r, "wip">>
           /\ act' = [act EXCEPT ![r].prior = cp, ![r].seen = None, ![r].pc = "restore"]
        \/ /\ ~act[r].aborted /\ Fail
           /\ act' = [act EXCEPT ![r].pc = "run", ![r].seen = None]
           /\ UNCHANGED <<wip, age, slot>>
  /\ UNCHANGED <<rec, pushed, Engine, doomed>>

(* A snapshot of another branch, a dirty clone or a conflicting patch is    *)
(* not laid down; its ref then stays out of this run's hands.               *)
Restore(r) ==
  /\ act[r].pc = "restore" /\ ~act[r].aborted
  /\ LET cp == act[r].prior
     IN \/ /\ act' = [act EXCEPT ![r].ws = cp.units, ![r].restored = TRUE,
                                 ![r].expect = cp, ![r].owned = cp, ![r].pc = "run"]
           /\ UNCHANGED faults
        \/ /\ Fail /\ act' = [act EXCEPT ![r].owned = cp, ![r].pc = "run"]
  /\ UNCHANGED <<Remote, pushed, slot, Engine, doomed>>

SetupAborted(r) ==
  /\ act[r].pc \in {"fetch", "adopt", "restore"} /\ act[r].aborted
  /\ act' = To(r, "done")
  /\ UNCHANGED <<Remote, pushed, slot, Engine, doomed, faults>>

-----------------------------------------------------------------------------
(* One checkpoint: snapshot, leased push, and on a lease rejection a        *)
(* re-read that decides who moved the ref.                                  *)

(* The units of a run are made in their order.                              *)
Edit(r) ==
  /\ act[r].pc = "run" /\ ~act[r].aborted
  /\ \E n \in 1..MaxEdits :
       /\ <<r, n>> \notin act[r].ws
       /\ n > 1 => <<r, n - 1>> \in act[r].ws
       /\ act' = [act EXCEPT ![r].ws = @ \union {<<r, n>>}]
  /\ UNCHANGED <<Remote, pushed, slot, Engine, doomed, faults>>

(* An unchanged or clean workspace is skipped, and so is every checkpoint   *)
(* of a run whose checkpointing was disabled.                               *)
Due(r) == ~act[r].off /\ act[r].ws # {} /\ act[r].ws # act[r].last
Snapped(r) == [act EXCEPT ![r].snap = [run |-> r, units |-> act[r].ws], ![r].ck = "push"]

TakeSnapshot(r) ==
  /\ act[r].pc = "run" /\ act[r].ck = "idle" /\ Due(r)
  /\ act' = Snapped(r)
  /\ UNCHANGED <<Remote, pushed, slot, Engine, doomed, faults>>

(* The remote compares and swaps.                                           *)
Accept(r) == /\ wip[act[r].key] = act[r].expect
             /\ wip' = [wip EXCEPT ![act[r].key] = act[r].snap]
             /\ age' = [age EXCEPT ![<<"wip", act[r].key>>] = 0]
Landed(r) == [act EXCEPT ![r].expect = act[r].snap, ![r].last = act[r].snap.units,
                         ![r].est = TRUE, ![r].owned = act[r].snap,
                         ![r].snap = None, ![r].ck = "note"]

PushCheckpoint(r) ==
  /\ act[r].ck \in {"push", "repush"}
  /\ \/ Accept(r) /\ act' = Landed(r) /\ UNCHANGED faults
     \/ /\ Accept(r) /\ Fail                  \* accepted, but the answer is lost
        /\ act' = [act EXCEPT ![r].ck = "idle", ![r].snap = None]
     \/ /\ Fail /\ UNCHANGED <<wip, age>>
        /\ \E refused \in BOOLEAN :           \* policy or auth, or just transient
             act' = [act EXCEPT ![r].ck = "idle", ![r].snap = None, ![r].off = refused]
     \/ /\ wip[act[r].key] # act[r].expect /\ UNCHANGED <<wip, age, faults>>
        /\ act' = IF act[r].ck = "push" THEN [act EXCEPT ![r].ck = "reread"]
                  ELSE [act EXCEPT ![r].ck = "idle", ![r].snap = None, ![r].off = act[r].est]
  /\ UNCHANGED <<rec, pushed, slot, Engine, doomed>>

\* Mutated form: takes over from its predecessor too.
RereadTakingOver(r) ==
  /\ act[r].ck = "reread"
  /\ LET current == wip[act[r].key]
     IN IF current # None /\ current.run \in {r, act[r].prior.run}
        THEN act' = [act EXCEPT ![r].expect = current, ![r].ck = "repush"]
        ELSE act' = [act EXCEPT ![r].ck = "idle", ![r].snap = None, ![r].off = act[r].est]
  /\ UNCHANGED <<Remote, pushed, slot, Engine, doomed, faults>>

(* After a lease rejection: take over only from itself; leave a superseded  *)
(* run's newer snapshot alone and retry; give way to anybody else, unless   *)
(* the start was blind.                                                     *)
Reread(r) ==
  /\ act[r].ck = "reread"
  /\ \E current \in {wip[act[r].key], None} :
       /\ IF current = wip[act[r].key] THEN UNCHANGED faults ELSE Fail
       /\ \/ /\ current.run = r
             /\ act' = [act EXCEPT ![r].expect = current, ![r].ck = "repush"]
          \/ /\ current.run # r
             /\ LET superseded == act[r].restored /\ current # None
                                  /\ current.run = act[r].prior.run
                IN act' = [act EXCEPT ![r].ck = "idle", ![r].snap = None,
                                      ![r].off = act[r].est /\ ~superseded]
  /\ UNCHANGED <<Remote, pushed, slot, Engine, doomed>>

(* onCheckpoint publishes the ref in the process variable.  The flush of an *)
(* aborted run leaves that write in flight; any other checkpoint awaits it, *)
(* and the abort signal cancels it.                                         *)
Aborting(r) == act[r].why = "abort" /\ act[r].pc # "flush"   \* the flush is what runs
Note(r) ==
  /\ act[r].ck = "note"
  /\ \/ /\ Aborting(r) /\ UNCHANGED slot
        /\ act' = [act EXCEPT ![r].ck = "idle", ![r].meta = TRUE]
     \/ /\ ~Aborting(r)
        /\ slot' = IF act[r].aborted THEN slot ELSE <<r, "wip">>
        /\ act' = [act EXCEPT ![r].ck = "idle"]
  /\ UNCHANGED <<Remote, pushed, Engine, doomed, faults>>

EndMeta(r) ==
  /\ act[r].meta /\ slot' = <<r, "wip">>
  /\ act' = [act EXCEPT ![r].meta = FALSE]
  /\ UNCHANGED <<Remote, pushed, Engine, doomed, faults>>

-----------------------------------------------------------------------------
(* The end of a run.                                                        *)

Finish(r) ==
  /\ act[r].pc = "run"
  /\ \/ act[r].aborted /\ act' = [act EXCEPT ![r].pc = "flush", ![r].why = "abort"]
     \/ ~act[r].aborted /\ act' = [act EXCEPT ![r].pc = "flush", ![r].why = "failed"]
     \/ ~act[r].aborted /\ act' = [act EXCEPT ![r].pc = "finalize"]
  /\ UNCHANGED <<Remote, pushed, slot, Engine, doomed, faults>>

(* One last, forced checkpoint behind whatever is in flight.                *)
Flush(r) ==
  /\ act[r].pc = "flush" /\ act[r].ck = "idle"
  /\ act' = [(IF Due(r) THEN Snapped(r) ELSE act) EXCEPT ![r].pc = "preserve"]
  /\ UNCHANGED <<Remote, pushed, slot, Engine, doomed, faults>>

AfterPreserve(r) == IF act[r].why = "abort" THEN "settle" ELSE "ack"
Mine(r, cp) == cp.run \in {r, act[r].prior.run}

(* Drain the chain, observe the recovery ref; only a ref that is absent or  *)
(* carries this run's or its predecessor's identity may be replaced.        *)
Preserve(r) ==
  /\ act[r].pc = "preserve" /\ act[r].ck = "idle"
  /\ LET cur == rec[act[r].key]
         go == act[r].owned # None /\ (cur = None \/ Mine(r, cur))
     IN \/ /\ UNCHANGED faults
           /\ act' = IF go THEN [act EXCEPT ![r].seen = cur, ![r].pc = "recpush"]
                     ELSE To(r, AfterPreserve(r))
        \/ /\ Fail /\ act[r].owned # None     \* unreadable: create-only
           /\ act' = [act EXCEPT ![r].seen = None, ![r].pc = "recpush"]
  /\ UNCHANGED <<Remote, pushed, slot, Engine, doomed>>

PushRecovery(r) ==
  /\ act[r].pc = "recpush"
  /\ LET k == act[r].key
         Over(ok) == [To(r, AfterPreserve(r)) EXCEPT ![r].preserved = ok, ![r].seen = None]
     IN \/ /\ rec[k] = act[r].seen
           /\ rec' = [rec EXCEPT ![k] = act[r].owned]
           /\ \E a \in IF wip[k] = act[r].owned THEN {age[<<"wip", k>>]} ELSE 0..MaxAge :
                age' = [age EXCEPT ![<<"rec", k>>] = a]
           /\ \/ act' = Over(TRUE) /\ UNCHANGED faults
              \/ act' = Over(FALSE) /\ Fail
        \/ /\ rec[k] # act[r].seen /\ UNCHANGED <<rec, age, faults>>
           /\ act' = Over(FALSE)
  /\ UNCHANGED <<wip, pushed, slot, Engine, doomed>>

(* The forced stop lets its own WIP pointer land before it publishes the    *)
(* recovery pointer, and publishes that only while it owns the ref.         *)
SettleMeta(r) ==
  /\ act[r].pc = "settle" /\ ~act[r].meta
  /\ act' = To(r, IF act[r].preserved THEN "verify" ELSE "done")
  /\ UNCHANGED <<Remote, pushed, slot, Engine, doomed, faults>>

VerifyOwnership(r) ==
  /\ act[r].pc = "verify"
  /\ act' = To(r, IF rec[act[r].key] = act[r].owned THEN "point" ELSE "done")
  /\ UNCHANGED <<Remote, pushed, slot, Engine, doomed, faults>>

(* The read-back compares the ref in the slot with the recovery ref; a read *)
(* that fails or lags behind lets the write through.                        *)
Names(r, s) == s[2] = "rec" /\ act[s[1]].key = act[r].key
WritePointer(r) ==
  /\ act[r].pc = "point"
  /\ \/ /\ slot = <<0, "none">> \/ Names(r, slot)
        /\ slot' = <<r, "rec">> /\ UNCHANGED faults
     \/ Fail /\ slot' = <<r, "rec">>
  /\ act' = To(r, "done")
  /\ UNCHANGED <<Remote, pushed, Engine, doomed>>
SkipPointer(r) ==
  /\ act[r].pc = "point" /\ slot # <<0, "none">> /\ ~Names(r, slot)
  /\ act' = To(r, "done")
  /\ UNCHANGED <<Remote, pushed, slot, Engine, doomed, faults>>

(* FORCE_STOP_RECOVERY_MS: git and the engine calls are cancelled, and the  *)
(* run is settled before it yields the job.                                 *)
Deadline(r) ==
  /\ act[r].why = "abort" /\ act[r].pc # "done"
  /\ act' = [To(r, "done") EXCEPT ![r].ck = "idle", ![r].meta = FALSE]
  /\ UNCHANGED <<Remote, pushed, slot, Engine, doomed, faults>>

(* finalizeGit pushes what the agent committed; the ref may go after the    *)
(* ack only if nothing is left uncommitted and no prior was left on it.     *)
Finalize(r) ==
  /\ act[r].pc = "finalize" /\ act[r].ck = "idle"
  /\ \E committed \in SUBSET act[r].ws :
       LET ok == committed # {}
       IN /\ pushed' = pushed \union committed
          /\ act' = [act EXCEPT ![r].pc = "ack", ![r].drop =
                       ok /\ committed = act[r].ws
                       /\ (act[r].prior = None \/ act[r].restored)]
  /\ UNCHANGED <<Remote, slot, Engine, doomed, faults>>

(* A failed job is handed back with its retries, a finished one completes   *)
(* its element; the engine refuses either without the lease.                *)
Settle(r) ==
  /\ act[r].pc = "ack"
  /\ LET fails == act[r].why = "failed"
         yields == lease # r \/ (fails /\ act[r].aborted)
     IN /\ lease' = IF yields THEN lease ELSE 0
        /\ element' = IF yields \/ fails THEN element ELSE [element EXCEPT ![act[r].key] = "terminal"]
        /\ act' = To(r, IF ~yields /\ ~fails /\ act[r].drop THEN "discard" ELSE "done")
  /\ UNCHANGED <<Remote, pushed, slot, finished, doomed, faults>>

DiscardAfterAck(r) ==
  /\ act[r].pc = "discard"
  /\ \/ /\ wip[act[r].key] = act[r].owned
        /\ wip' = [wip EXCEPT ![act[r].key] = None] /\ UNCHANGED faults
     \/ wip[act[r].key] # act[r].owned /\ UNCHANGED <<wip, faults>>
     \/ Fail /\ UNCHANGED wip
  /\ act' = To(r, "done")
  /\ UNCHANGED <<rec, age, pushed, slot, Engine, doomed>>

-----------------------------------------------------------------------------
(* The orphan sweep of another job on the same remote: it lists the refs,   *)
(* asks the engine about old ones, and deletes each leased on what it saw.  *)

Ref(n) == IF n[1] = "wip" THEN wip[n[2]] ELSE rec[n[2]]

\* Mutated form: the process is not asked about.
OrphanOfElement(n) == age[n] >= 2 \/ (age[n] >= 1 /\ element[n[2]] = "terminal")

Orphan(n) == \/ age[n] >= 2
             \/ age[n] >= 1 /\ element[n[2]] = "terminal" /\ finished

TimePasses ==
  /\ \E n \in RefName : Ref(n) # None /\ age[n] < MaxAge
  /\ age' = [n \in RefName |-> IF Ref(n) # None /\ age[n] < MaxAge THEN age[n] + 1 ELSE age[n]]
  /\ UNCHANGED <<wip, rec, pushed, slot, Engine, act, doomed, faults>>

Condemn(n) == /\ doomed = {} /\ Ref(n) # None /\ Orphan(n)
              /\ doomed' = {[name |-> n, sha |-> Ref(n)]}
              /\ UNCHANGED <<Remote, pushed, slot, Engine, act, faults>>

Reclaim(d) ==
  /\ doomed' = doomed \ {d}
  /\ IF Ref(d.name) # d.sha THEN UNCHANGED Remote
     ELSE /\ age' = [age EXCEPT ![d.name] = 0]
          /\ wip' = IF d.name[1] = "wip" THEN [wip EXCEPT ![d.name[2]] = None] ELSE wip
          /\ rec' = IF d.name[1] = "rec" THEN [rec EXCEPT ![d.name[2]] = None] ELSE rec
  /\ UNCHANGED <<pushed, slot, Engine, act, faults>>

-----------------------------------------------------------------------------
RunStep(r) == \/ FetchPrior(r) \/ FetchPredecessor(r) \/ Adopt(r) \/ Restore(r)
              \/ SetupAborted(r) \/ TakeSnapshot(r) \/ PushCheckpoint(r) \/ Reread(r)
              \/ Note(r) \/ EndMeta(r) \/ Finish(r) \/ Flush(r) \/ Preserve(r)
              \/ PushRecovery(r) \/ SettleMeta(r) \/ VerifyOwnership(r)
              \/ WritePointer(r) \/ SkipPointer(r) \/ Deadline(r) \/ Finalize(r)
              \/ Settle(r) \/ DiscardAfterAck(r)

Next == \/ \E r \in Run : Activate(r) \/ Abort(r) \/ Edit(r) \/ RunStep(r)
        \/ LoseLease \/ FinishProcess \/ TimePasses
        \/ \E k \in Key : CancelElement(k)
        \/ \E n \in RefName : Condemn(n)
        \/ \E d \in doomed : Reclaim(d)

Spec == Init /\ [][Next]_vars

-----------------------------------------------------------------------------
(* A leased push or an adoption never drops units the WIP ref held: who     *)
(* replaces a snapshot has it in the workspace (createWorkspaceCheckpoint). *)
PushesKeep == [][\A k \in Key : wip'[k] # None => wip[k].units \subseteq wip'[k].units]_wip

(* "skip the write when the slot already names a DIFFERENT run's ref (a     *)
(* newer activation beat us)": a run gives way to another run only.         *)
PointerYieldsToOthers == [][\A r \in Run : SkipPointer(r) => slot[1] # r]_vars
=============================================================================
