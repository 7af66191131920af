------------------------ MODULE WipCheckpointProofs ------------------------
(***************************************************************************)
(* For any number of activations and element instances: no push of a       *)
(* checkpoint drops work that the reference held, and the checkpoints      *)
(* implement DurableWork.                                                  *)
(***************************************************************************)
EXTENDS MCWipCheckpoint, TLAPS

MaybeSnapshot == Snapshot \union {None}
Phase == {"idle", "fetch", "adopt", "restore", "run", "flush", "preserve",
          "recpush", "settle", "verify", "point", "finalize", "ack", "discard", "done"}
Act == [key : Key \union {0}, pc : Phase, ck : {"idle", "push", "reread", "repush", "note"},
        why : {"none", "failed", "abort"},
        aborted : BOOLEAN, meta : BOOLEAN, off : BOOLEAN, est : BOOLEAN,
        restored : BOOLEAN, preserved : BOOLEAN, drop : BOOLEAN,
        ws : SUBSET Unit, last : SUBSET Unit,
        prior : MaybeSnapshot, expect : MaybeSnapshot, snap : MaybeSnapshot,
        owned : MaybeSnapshot, seen : MaybeSnapshot]

Typed == /\ wip \in [Key -> MaybeSnapshot] /\ rec \in [Key -> MaybeSnapshot]
         /\ act \in [Run -> Act]

(* A snapshot of a run that goes on is part of its workspace, and of the    *)
(* snapshot it is pushing.                                                  *)
Busy == {"push", "reread", "repush"}
Covered(cp, a) ==
  \A r \in Run : cp.run = r /\ a[r].pc # "done" =>
    /\ cp.units \subseteq a[r].ws
    /\ a[r].ck \in Busy => cp.units \subseteq a[r].snap.units

(* What a run may replace is in its workspace, and in what it is pushing.   *)
Early == {"idle", "fetch", "adopt", "restore"}
Pushing == {"run", "flush", "preserve", "finalize"}
Local(r, a) ==
  /\ a.pc \notin {"idle", "done"} => a.key \in Key
  /\ a.pc \notin Pushing => a.ck = "idle"
  /\ a.pc \in Early => a.ws = {} /\ a.expect = None
  /\ a.expect.units \subseteq a.ws
  /\ a.ck \in Busy => /\ a.snap.run = r /\ a.snap.units \subseteq a.ws
                      /\ a.expect.units \subseteq a.snap.units

Minds(a) == {a.seen, a.prior, a.owned, a.expect}
WInv == /\ Typed
        /\ \A k \in Key : Covered(wip[k], act) /\ Covered(rec[k], act)
        /\ \A r \in Run : \A cp \in Minds(act[r]) : Covered(cp, act)
        /\ \A r \in Run : Local(r, act[r])

-----------------------------------------------------------------------------
(* What a step of r may do to its own record: the workspace only grows, and *)
(* so does the snapshot it pushes.                                          *)
Grows(r) ==
  act'[r].pc # "done" =>
    /\ act[r].pc # "done" /\ act[r].ws \subseteq act'[r].ws
    /\ act'[r].ck \in Busy => \/ act[r].ck \in Busy /\ act'[r].snap = act[r].snap
                              \/ act[r].ws \subseteq act'[r].snap.units

(* A snapshot that may be written or remembered: a known one, or the new    *)
(* one of r once its push is over.                                          *)
Fit(cp, r) == \/ Covered(cp, act)
              \/ cp.run = r /\ cp.units \subseteq act'[r].ws /\ act'[r].ck \notin Busy

LEMMA NoneCovered == ASSUME RunAssumption, NEW a PROVE Covered(None, a)
BY DEF RunAssumption, Covered, None

LEMMA RunKeeps ==
  ASSUME WInv, NEW r \in Run, \A q \in Run : q # r => act'[q] = act[q], Grows(r)
  PROVE  \A cp : Fit(cp, r) => Covered(cp, act')
<1> SUFFICES ASSUME NEW cp, Fit(cp, r), NEW q \in Run, cp.run = q, act'[q].pc # "done"
    PROVE /\ cp.units \subseteq act'[q].ws
          /\ act'[q].ck \in Busy => cp.units \subseteq act'[q].snap.units
  BY DEF Covered
<1>1. CASE q # r
  BY <1>1 DEF Fit, Covered
<1>2. CASE q = r /\ Covered(cp, act)
  BY <1>2 DEF Covered, Grows
<1>3. CASE q = r /\ ~Covered(cp, act)
  BY <1>3 DEF Fit
<1> QED BY <1>1, <1>2, <1>3

LEMMA RunStepKeeps ==
  ASSUME WInv, NEW r \in Run, Typed', \A q \in Run : q # r => act'[q] = act[q],
         Grows(r), Local(r, act'[r]),
         \A k \in Key : Fit(wip'[k], r) /\ Fit(rec'[k], r),
         \A cp \in Minds(act'[r]) : Fit(cp, r)
  PROVE  WInv'
<1>1. \A cp : Fit(cp, r) => Covered(cp, act')
  BY RunKeeps
<1>2. \A k \in Key : Covered(wip'[k], act') /\ Covered(rec'[k], act')
  BY <1>1
<1>3. \A q \in Run : \A cp \in Minds(act'[q]) : Fit(cp, r)
  <2> SUFFICES ASSUME NEW q \in Run, q # r PROVE \A cp \in Minds(act'[q]) : Fit(cp, r)
    OBVIOUS
  <2>1. act'[q] = act[q]
    OBVIOUS
  <2> QED BY <2>1 DEF WInv, Fit
<1>4. \A q \in Run : \A cp \in Minds(act'[q]) : Covered(cp, act')
  BY <1>1, <1>3
<1>5. \A q \in Run : Local(q, act'[q])
  BY DEF WInv
<1> QED BY <1>2, <1>4, <1>5 DEF WInv, Covered, Minds, Local

(* Most steps leave the references alone and remember only what is known.   *)
Known(r) == Minds(act[r]) \union {None} \union {wip[k] : k \in Key} \union {rec[k] : k \in Key}

LEMMA KnownCovered ==
  ASSUME WInv, RunAssumption, NEW r \in Run PROVE \A cp \in Known(r) : Covered(cp, act)
<1> SUFFICES ASSUME NEW cp \in Known(r) PROVE Covered(cp, act)
  OBVIOUS
<1>1. CASE cp = None
  BY <1>1, NoneCovered
<1>2. CASE cp \in Minds(act[r])
  BY <1>2 DEF WInv
<1>3. CASE \E k \in Key : cp \in {wip[k], rec[k]}
  BY <1>3 DEF WInv
<1> QED BY <1>1, <1>2, <1>3 DEF Known

LEMMA QuietStep ==
  ASSUME WInv, RunAssumption, NEW r \in Run, NEW a \in Act, act' = [act EXCEPT ![r] = a],
         UNCHANGED <<wip, rec>>, Grows(r), Local(r, a), Minds(a) \subseteq Known(r)
  PROVE  WInv'
<1>1. act'[r] = a /\ \A q \in Run : q # r => act'[q] = act[q]
  BY DEF WInv, Typed
<1>2. Typed'
  BY DEF WInv, Typed
<1>3. \A k \in Key : Fit(wip'[k], r) /\ Fit(rec'[k], r)
  BY DEF WInv, Fit
<1>4. \A cp \in Minds(a) : Fit(cp, r)
  BY KnownCovered DEF Fit
<1> QED BY <1>1, <1>2, <1>3, <1>4, RunStepKeeps

(* What is known of the record of a run.                                    *)
LEMMA RecordOf ==
  ASSUME WInv, NEW r \in Run PROVE act \in [Run -> Act] /\ act[r] \in Act /\ Local(r, act[r])
BY DEF WInv, Typed

(* A run that goes on to its next stage with nothing in flight, or ends.    *)
LEMMA ToStep ==
  ASSUME WInv, RunAssumption, NEW r \in Run, NEW p \in Phase \ (Early \union Pushing),
         UNCHANGED <<wip, rec>>, act' = To(r, p), act[r].pc \notin {"idle", "done"}, act[r].ck = "idle"
  PROVE  WInv'
<1> USE RecordOf
<1>1. CASE p = "done"
  <2> DEFINE a == [Fresh EXCEPT !.pc = "done", !.key = act[r].key, !.ck = act[r].ck, !.meta = act[r].meta]
  <2>1. act' = [act EXCEPT ![r] = a]
    BY <1>1 DEF To
  <2>2. a \in Act
    BY DEF Fresh, Act, Phase, MaybeSnapshot
  <2>3. act'[r] = a /\ a.pc = "done" /\ a.ck = "idle" /\ a.expect = None /\ Minds(a) = {None}
    BY <2>1, <2>2 DEF Fresh, Act, Minds
  <2>4. Grows(r) /\ Local(r, a)
    BY <2>3 DEF Grows, Local, Busy, Early, Pushing, None
  <2> QED BY <2>1, <2>2, <2>3, <2>4, QuietStep DEF Known
<1>2. CASE p # "done"
  <2> DEFINE a == [act[r] EXCEPT !.pc = p]
  <2>1. act' = [act EXCEPT ![r] = a]
    BY <1>2 DEF To
  <2>2. a \in Act
    BY DEF Act
  <2>3. Grows(r) /\ Local(r, a)
    BY <2>1, <2>2 DEF Grows, Local, Busy, Early, Pushing, Act
  <2>4. Minds(a) = Minds(act[r])
    BY DEF Act, Minds
  <2> QED BY <2>1, <2>2, <2>3, <2>4, QuietStep DEF Known
<1> QED BY <1>1, <1>2

-----------------------------------------------------------------------------
(* One lemma for each action of a run.                                      *)

LEMMA ActivateStep == ASSUME WInv, RunAssumption, NEW r \in Run, Activate(r) PROVE WInv'
<1>0. act \in [Run -> Act] /\ act[r] \in Act /\ Local(r, act[r])
  BY RecordOf
<1>1. PICK k \in Key : act' = [act EXCEPT ![r].key = k, ![r].pc = "fetch"]
  BY DEF Activate
<1> DEFINE a == [act[r] EXCEPT !.key = k, !.pc = "fetch"]
<1>2. act' = [act EXCEPT ![r] = a]
  BY <1>0, <1>1
<1>3. a \in Act
  BY <1>0, <1>1 DEF Act, Phase
<1>4. Grows(r) /\ Local(r, a)
  BY <1>0, <1>2, <1>3 DEF Grows, Local, Busy, Early, Pushing, Act, Activate
<1>5. Minds(a) \subseteq Known(r)
  BY <1>0 DEF Act, Minds, Known
<1>6. UNCHANGED <<wip, rec>>
  BY DEF Activate, Remote
<1> QED BY <1>0, <1>2, <1>3, <1>4, <1>5, <1>6, QuietStep

LEMMA AbortStep == ASSUME WInv, RunAssumption, NEW r \in Run, Abort(r) PROVE WInv'
<1>0. act \in [Run -> Act] /\ act[r] \in Act /\ Local(r, act[r])
  BY RecordOf
<1> DEFINE a == [act[r] EXCEPT !.aborted = TRUE]
<1>2. act' = [act EXCEPT ![r] = a]
  BY <1>0 DEF Abort
<1>3. a \in Act
  BY <1>0 DEF Act
<1>4. Grows(r) /\ Local(r, a)
  BY <1>0, <1>2, <1>3 DEF Grows, Local, Busy, Early, Pushing, Act, Abort
<1>5. Minds(a) \subseteq Known(r)
  BY <1>0 DEF Act, Minds, Known
<1>6. UNCHANGED <<wip, rec>>
  BY DEF Abort, Remote
<1> QED BY <1>0, <1>2, <1>3, <1>4, <1>5, <1>6, QuietStep

LEMMA EditStep == ASSUME WInv, RunAssumption, NEW r \in Run, Edit(r) PROVE WInv'
<1>0. act \in [Run -> Act] /\ act[r] \in Act /\ Local(r, act[r])
  BY RecordOf
<1>1. PICK n \in 1..MaxEdits : act' = [act EXCEPT ![r].ws = act[r].ws \union {<<r, n>>}]
  BY DEF Edit
<1> DEFINE a == [act[r] EXCEPT !.ws = act[r].ws \union {<<r, n>>}]
<1>2. act' = [act EXCEPT ![r] = a]
  BY <1>0, <1>1
<1>3. a \in Act
  BY <1>0, <1>1 DEF Act, Unit
<1>4. Grows(r) /\ Local(r, a)
  BY <1>0, <1>2, <1>3 DEF Grows, Local, Busy, Early, Pushing, Act, Edit
<1>5. Minds(a) \subseteq Known(r)
  BY <1>0 DEF Act, Minds, Known
<1>6. UNCHANGED <<wip, rec>>
  BY DEF Edit, Remote
<1> QED BY <1>0, <1>2, <1>3, <1>4, <1>5, <1>6, QuietStep

LEMMA TakeSnapshotStep == ASSUME WInv, RunAssumption, NEW r \in Run, TakeSnapshot(r) PROVE WInv'
<1>0. act \in [Run -> Act] /\ act[r] \in Act /\ Local(r, act[r])
  BY RecordOf
<1> DEFINE a == [act[r] EXCEPT !.snap = [run |-> r, units |-> act[r].ws], !.ck = "push"]
<1>2. act' = [act EXCEPT ![r] = a]
  BY <1>0 DEF TakeSnapshot, Snapped
<1>3. a \in Act
  BY <1>0 DEF Act, MaybeSnapshot, Snapshot
<1>4. Grows(r) /\ Local(r, a)
  BY <1>0, <1>2, <1>3 DEF Grows, Local, Busy, Early, Pushing, Act, TakeSnapshot
<1>5. Minds(a) \subseteq Known(r)
  BY <1>0 DEF Act, Minds, Known
<1>6. UNCHANGED <<wip, rec>>
  BY DEF TakeSnapshot, Remote
<1> QED BY <1>0, <1>2, <1>3, <1>4, <1>5, <1>6, QuietStep

LEMMA EndMetaStep == ASSUME WInv, RunAssumption, NEW r \in Run, EndMeta(r) PROVE WInv'
<1>0. act \in [Run -> Act] /\ act[r] \in Act /\ Local(r, act[r])
  BY RecordOf
<1> DEFINE a == [act[r] EXCEPT !.meta = FALSE]
<1>2. act' = [act EXCEPT ![r] = a]
  BY <1>0 DEF EndMeta
<1>3. a \in Act
  BY <1>0 DEF Act
<1>4. Grows(r) /\ Local(r, a)
  BY <1>0, <1>2, <1>3 DEF Grows, Local, Busy, Early, Pushing, Act, EndMeta
<1>5. Minds(a) \subseteq Known(r)
  BY <1>0 DEF Act, Minds, Known
<1>6. UNCHANGED <<wip, rec>>
  BY DEF EndMeta, Remote
<1> QED BY <1>0, <1>2, <1>3, <1>4, <1>5, <1>6, QuietStep

LEMMA FetchPriorStep == ASSUME WInv, RunAssumption, NEW r \in Run, FetchPrior(r) PROVE WInv'
<1>0. act \in [Run -> Act] /\ act[r] \in Act /\ Local(r, act[r])
  BY RecordOf
<1>9. UNCHANGED <<wip, rec>>
  BY DEF FetchPrior, Remote
<1>1. act[r].pc = "fetch" /\ act[r].key \in Key /\ wip[act[r].key] \in MaybeSnapshot
  BY <1>0 DEF FetchPrior, Local, WInv, Typed
<1> DEFINE found == wip[act[r].key]
<1>2. CASE act' = [act EXCEPT ![r].prior = found, ![r].pc = "restore"]
  <2> DEFINE a == [act[r] EXCEPT !.prior = found, !.pc = "restore"]
  <2>2. act' = [act EXCEPT ![r] = a]
    BY <1>0, <1>2
  <2>3. a \in Act
    BY <1>0, <1>2, <1>1 DEF Act, Phase
  <2>4. Grows(r) /\ Local(r, a)
    BY <1>0, <1>1, <1>2, <2>2, <2>3 DEF Grows, Local, Busy, Early, Pushing, Act
  <2>5. Minds(a) \subseteq Known(r)
    BY <1>0, <1>2, <1>1 DEF Act, Minds, Known
  <2> QED BY <1>0, <1>9, <2>2, <2>3, <2>4, <2>5, QuietStep
<1>3. CASE act' = [act EXCEPT ![r].pc = "run"]
  <2> DEFINE a == [act[r] EXCEPT !.pc = "run"]
  <2>2. act' = [act EXCEPT ![r] = a]
    BY <1>0, <1>3
  <2>3. a \in Act
    BY <1>0, <1>3 DEF Act, Phase
  <2>4. Grows(r) /\ Local(r, a)
    BY <1>0, <1>1, <1>3, <2>2, <2>3 DEF Grows, Local, Busy, Early, Pushing, Act
  <2>5. Minds(a) \subseteq Known(r)
    BY <1>0, <1>3 DEF Act, Minds, Known
  <2> QED BY <1>0, <1>9, <2>2, <2>3, <2>4, <2>5, QuietStep
<1>4. CASE act' = [act EXCEPT ![r].est = FALSE, ![r].pc = "run"]
  <2> DEFINE a == [act[r] EXCEPT !.est = FALSE, !.pc = "run"]
  <2>2. act' = [act EXCEPT ![r] = a]
    BY <1>0, <1>4
  <2>3. a \in Act
    BY <1>0, <1>4 DEF Act, Phase
  <2>4. Grows(r) /\ Local(r, a)
    BY <1>0, <1>1, <1>4, <2>2, <2>3 DEF Grows, Local, Busy, Early, Pushing, Act
  <2>5. Minds(a) \subseteq Known(r)
    BY <1>0, <1>4 DEF Act, Minds, Known
  <2> QED BY <1>0, <1>9, <2>2, <2>3, <2>4, <2>5, QuietStep
<1> QED BY <1>2, <1>3, <1>4 DEF FetchPrior

LEMMA FetchPredecessorStep == ASSUME WInv, RunAssumption, NEW r \in Run, FetchPredecessor(r) PROVE WInv'
<1>0. act \in [Run -> Act] /\ act[r] \in Act /\ Local(r, act[r])
  BY RecordOf
<1>p. PICK k \in Key : \E cp \in {wip[k], rec[k]} : act' = [act EXCEPT ![r].seen = cp, ![r].pc = "adopt"]
  BY DEF FetchPredecessor
<1>1. PICK cp \in {wip[k], rec[k]} : act' = [act EXCEPT ![r].seen = cp, ![r].pc = "adopt"]
  BY <1>p
<1>2. act[r].pc = "fetch" /\ cp \in MaybeSnapshot /\ cp \in Known(r)
  BY DEF FetchPredecessor, WInv, Typed, Known
<1> DEFINE a == [act[r] EXCEPT !.seen = cp, !.pc = "adopt"]
<1>3. act' = [act EXCEPT ![r] = a]
  BY <1>0, <1>1
<1>4. a \in Act
  BY <1>0, <1>2 DEF Act, Phase
<1>5. Grows(r) /\ Local(r, a)
  BY <1>0, <1>2, <1>3, <1>4 DEF Grows, Local, Busy, Early, Pushing, Act
<1>6. Minds(a) \subseteq Known(r)
  BY <1>0, <1>2 DEF Act, Minds, Known
<1>7. UNCHANGED <<wip, rec>>
  BY DEF FetchPredecessor, Remote
<1> QED BY <1>0, <1>3, <1>4, <1>5, <1>6, <1>7, QuietStep

LEMMA RestoreStep == ASSUME WInv, RunAssumption, NEW r \in Run, Restore(r) PROVE WInv'
<1>0. act \in [Run -> Act] /\ act[r] \in Act /\ Local(r, act[r])
  BY RecordOf
<1>9. UNCHANGED <<wip, rec>>
  BY DEF Restore, Remote
<1>1. act[r].pc = "restore" /\ act[r].ws = {} /\ act[r].ck = "idle" /\ act[r].prior.units \subseteq Unit
  BY <1>0 DEF Restore, Local, Early, Pushing, Act, MaybeSnapshot, Snapshot, None
<1> DEFINE cp == act[r].prior
<1>2. CASE act' = [act EXCEPT ![r].ws = cp.units, ![r].restored = TRUE,
                               ![r].expect = cp, ![r].owned = cp, ![r].pc = "run"]
  <2> DEFINE a == [act[r] EXCEPT !.ws = cp.units, !.restored = TRUE, !.expect = cp, !.owned = cp, !.pc = "run"]
  <2>2. act' = [act EXCEPT ![r] = a]
    BY <1>0, <1>2
  <2>3. a \in Act
    BY <1>0, <1>2, <1>1 DEF Act, Phase
  <2>4. Grows(r) /\ Local(r, a)
    BY <1>0, <1>1, <1>2, <2>2, <2>3 DEF Grows, Local, Busy, Early, Pushing, Act
  <2>5. Minds(a) \subseteq Known(r)
    BY <1>0, <1>2 DEF Act, Minds, Known
  <2> QED BY <1>0, <1>9, <2>2, <2>3, <2>4, <2>5, QuietStep
<1>3. CASE act' = [act EXCEPT ![r].owned = cp, ![r].pc = "run"]
  <2> DEFINE a == [act[r] EXCEPT !.owned = cp, !.pc = "run"]
  <2>2. act' = [act EXCEPT ![r] = a]
    BY <1>0, <1>3
  <2>3. a \in Act
    BY <1>0, <1>3 DEF Act, Phase
  <2>4. Grows(r) /\ Local(r, a)
    BY <1>0, <1>1, <1>3, <2>2, <2>3 DEF Grows, Local, Busy, Early, Pushing, Act
  <2>5. Minds(a) \subseteq Known(r)
    BY <1>0, <1>3 DEF Act, Minds, Known
  <2> QED BY <1>0, <1>9, <2>2, <2>3, <2>4, <2>5, QuietStep
<1> QED BY <1>2, <1>3 DEF Restore

LEMMA SetupAbortedStep == ASSUME WInv, RunAssumption, NEW r \in Run, SetupAborted(r) PROVE WInv'
<1>0. act \in [Run -> Act] /\ act[r] \in Act /\ Local(r, act[r])
  BY RecordOf
<1>9. UNCHANGED <<wip, rec>>
  BY DEF SetupAborted, Remote
<1>1. act[r].pc \notin {"idle", "done"} /\ act[r].ck = "idle"
  BY <1>0 DEF SetupAborted, Local, Pushing
<1>2. PICK p \in {"done"} : act' = To(r, p)
  BY DEF SetupAborted
<1>3. p \in Phase \ (Early \union Pushing)
  BY <1>2 DEF Phase, Early, Pushing
<1> QED BY <1>1, <1>2, <1>3, <1>9, ToStep

LEMMA SettleMetaStep == ASSUME WInv, RunAssumption, NEW r \in Run, SettleMeta(r) PROVE WInv'
<1>0. act \in [Run -> Act] /\ act[r] \in Act /\ Local(r, act[r])
  BY RecordOf
<1>9. UNCHANGED <<wip, rec>>
  BY DEF SettleMeta, Remote
<1>1. act[r].pc \notin {"idle", "done"} /\ act[r].ck = "idle"
  BY <1>0 DEF SettleMeta, Local, Pushing
<1>2. PICK p \in {"verify", "done"} : act' = To(r, p)
  BY DEF SettleMeta
<1>3. p \in Phase \ (Early \union Pushing)
  BY <1>2 DEF Phase, Early, Pushing
<1> QED BY <1>1, <1>2, <1>3, <1>9, ToStep

LEMMA VerifyOwnershipStep == ASSUME WInv, RunAssumption, NEW r \in Run, VerifyOwnership(r) PROVE WInv'
<1>0. act \in [Run -> Act] /\ act[r] \in Act /\ Local(r, act[r])
  BY RecordOf
<1>9. UNCHANGED <<wip, rec>>
  BY DEF VerifyOwnership, Remote
<1>1. act[r].pc \notin {"idle", "done"} /\ act[r].ck = "idle"
  BY <1>0 DEF VerifyOwnership, Local, Pushing
<1>2. PICK p \in {"point", "done"} : act' = To(r, p)
  BY DEF VerifyOwnership
<1>3. p \in Phase \ (Early \union Pushing)
  BY <1>2 DEF Phase, Early, Pushing
<1> QED BY <1>1, <1>2, <1>3, <1>9, ToStep

LEMMA WritePointerStep == ASSUME WInv, RunAssumption, NEW r \in Run, WritePointer(r) PROVE WInv'
<1>0. act \in [Run -> Act] /\ act[r] \in Act /\ Local(r, act[r])
  BY RecordOf
<1>9. UNCHANGED <<wip, rec>>
  BY DEF WritePointer, Remote
<1>1. act[r].pc \notin {"idle", "done"} /\ act[r].ck = "idle"
  BY <1>0 DEF WritePointer, Local, Pushing
<1>2. PICK p \in {"done"} : act' = To(r, p)
  BY DEF WritePointer
<1>3. p \in Phase \ (Early \union Pushing)
  BY <1>2 DEF Phase, Early, Pushing
<1> QED BY <1>1, <1>2, <1>3, <1>9, ToStep

LEMMA SkipPointerStep == ASSUME WInv, RunAssumption, NEW r \in Run, SkipPointer(r) PROVE WInv'
<1>0. act \in [Run -> Act] /\ act[r] \in Act /\ Local(r, act[r])
  BY RecordOf
<1>9. UNCHANGED <<wip, rec>>
  BY DEF SkipPointer, Remote
<1>1. act[r].pc \notin {"idle", "done"} /\ act[r].ck = "idle"
  BY <1>0 DEF SkipPointer, Local, Pushing
<1>2. PICK p \in {"done"} : act' = To(r, p)
  BY DEF SkipPointer
<1>3. p \in Phase \ (Early \union Pushing)
  BY <1>2 DEF Phase, Early, Pushing
<1> QED BY <1>1, <1>2, <1>3, <1>9, ToStep

LEMMA SettleStep == ASSUME WInv, RunAssumption, NEW r \in Run, Settle(r) PROVE WInv'
<1>0. act \in [Run -> Act] /\ act[r] \in Act /\ Local(r, act[r])
  BY RecordOf
<1>9. UNCHANGED <<wip, rec>>
  BY DEF Settle, Remote
<1>1. act[r].pc \notin {"idle", "done"} /\ act[r].ck = "idle"
  BY <1>0 DEF Settle, Local, Pushing
<1>2. PICK p \in {"discard", "done"} : act' = To(r, p)
  BY DEF Settle
<1>3. p \in Phase \ (Early \union Pushing)
  BY <1>2 DEF Phase, Early, Pushing
<1> QED BY <1>1, <1>2, <1>3, <1>9, ToStep

LEMMA RereadStep == ASSUME WInv, RunAssumption, NEW r \in Run, Reread(r) PROVE WInv'
<1>0. act \in [Run -> Act] /\ act[r] \in Act /\ Local(r, act[r])
  BY RecordOf
<1>9. UNCHANGED <<wip, rec>>
  BY DEF Reread, Remote
<1>1. act[r].ck = "reread" /\ act[r].pc # "done" /\ act[r].key \in Key
  BY <1>0 DEF Reread, Local, Pushing
<1>2. PICK current \in {wip[act[r].key], None} :
        \/ /\ current.run = r
           /\ act' = [act EXCEPT ![r].expect = current, ![r].ck = "repush"]
        \/ /\ current.run # r
           /\ \E off \in BOOLEAN : act' = [act EXCEPT ![r].ck = "idle", ![r].snap = None, ![r].off = off]
  <2>1. \A p \in BOOLEAN : (act[r].est /\ ~p) \in BOOLEAN
    BY Zenon DEF Act
  <2> QED BY <1>0, <2>1 DEF Reread, Act
<1>3. current \in MaybeSnapshot /\ current \in Known(r) /\ Covered(current, act)
  BY <1>1, KnownCovered DEF WInv, Typed, Known, MaybeSnapshot
<1>4. current.run = r => current.units \subseteq act[r].snap.units /\ current.units \subseteq act[r].ws
  BY <1>1, <1>3 DEF Covered, Busy
<1>5. CASE current.run = r /\ act' = [act EXCEPT ![r].expect = current, ![r].ck = "repush"]
  <2> DEFINE a == [act[r] EXCEPT !.expect = current, !.ck = "repush"]
  <2>2. act' = [act EXCEPT ![r] = a]
    BY <1>0, <1>5
  <2>3. a \in Act
    BY <1>0, <1>5, <1>3 DEF Act
  <2>4. Grows(r) /\ Local(r, a)
    BY <1>0, <1>1, <1>4, <1>5, <2>2, <2>3 DEF Grows, Local, Busy, Early, Pushing, Act
  <2>5. Minds(a) \subseteq Known(r)
    BY <1>0, <1>5, <1>3 DEF Act, Minds, Known
  <2> QED BY <1>0, <1>9, <2>2, <2>3, <2>4, <2>5, QuietStep
<1>6. CASE \E off \in BOOLEAN : act' = [act EXCEPT ![r].ck = "idle", ![r].snap = None, ![r].off = off]
  <2>1. PICK off \in BOOLEAN : act' = [act EXCEPT ![r].ck = "idle", ![r].snap = None, ![r].off = off]
    BY <1>6
  <2> DEFINE a == [act[r] EXCEPT !.ck = "idle", !.snap = None, !.off = off]
  <2>2. act' = [act EXCEPT ![r] = a]
    BY <1>0, <2>1
  <2>3. a \in Act
    BY <1>0 DEF Act, MaybeSnapshot
  <2>4. Grows(r) /\ Local(r, a)
    BY <1>0, <1>1, <2>2, <2>3 DEF Grows, Local, Busy, Early, Pushing, Act
  <2>5. Minds(a) \subseteq Known(r)
    BY <1>0 DEF Act, Minds, Known
  <2> QED BY <1>0, <1>9, <2>2, <2>3, <2>4, <2>5, QuietStep
<1> QED BY <1>2, <1>5, <1>6

LEMMA NoteStep == ASSUME WInv, RunAssumption, NEW r \in Run, Note(r) PROVE WInv'
<1>0. act \in [Run -> Act] /\ act[r] \in Act /\ Local(r, act[r])
  BY RecordOf
<1>9. UNCHANGED <<wip, rec>>
  BY DEF Note, Remote
<1>1. act[r].ck = "note"
  BY DEF Note
<1>2. CASE act' = [act EXCEPT ![r].ck = "idle", ![r].meta = TRUE]
  <2> DEFINE a == [act[r] EXCEPT !.ck = "idle", !.meta = TRUE]
  <2>2. act' = [act EXCEPT ![r] = a]
    BY <1>0, <1>2
  <2>3. a \in Act
    BY <1>0, <1>2 DEF Act
  <2>4. Grows(r) /\ Local(r, a)
    BY <1>0, <1>1, <1>2, <2>2, <2>3 DEF Grows, Local, Busy, Early, Pushing, Act
  <2>5. Minds(a) \subseteq Known(r)
    BY <1>0, <1>2 DEF Act, Minds, Known
  <2> QED BY <1>0, <1>9, <2>2, <2>3, <2>4, <2>5, QuietStep
<1>3. CASE act' = [act EXCEPT ![r].ck = "idle"]
  <2> DEFINE a == [act[r] EXCEPT !.ck = "idle"]
  <2>2. act' = [act EXCEPT ![r] = a]
    BY <1>0, <1>3
  <2>3. a \in Act
    BY <1>0, <1>3 DEF Act
  <2>4. Grows(r) /\ Local(r, a)
    BY <1>0, <1>1, <1>3, <2>2, <2>3 DEF Grows, Local, Busy, Early, Pushing, Act
  <2>5. Minds(a) \subseteq Known(r)
    BY <1>0, <1>3 DEF Act, Minds, Known
  <2> QED BY <1>0, <1>9, <2>2, <2>3, <2>4, <2>5, QuietStep
<1> QED BY <1>2, <1>3 DEF Note

LEMMA FinishStep == ASSUME WInv, RunAssumption, NEW r \in Run, Finish(r) PROVE WInv'
<1>0. act \in [Run -> Act] /\ act[r] \in Act /\ Local(r, act[r])
  BY RecordOf
<1>9. UNCHANGED <<wip, rec>>
  BY DEF Finish, Remote
<1>1. act[r].pc = "run" /\ act[r].key \in Key
  BY <1>0 DEF Finish, Local
<1>2. CASE \E w \in {"abort", "failed"} : act' = [act EXCEPT ![r].pc = "flush", ![r].why = w]
  <2>1. PICK w \in {"abort", "failed"} : act' = [act EXCEPT ![r].pc = "flush", ![r].why = w]
    BY <1>2
  <2> DEFINE a == [act[r] EXCEPT !.pc = "flush", !.why = w]
  <2>2. act' = [act EXCEPT ![r] = a]
    BY <1>0, <2>1
  <2>3. a \in Act
    BY <1>0, <1>2 DEF Act, Phase
  <2>4. Grows(r) /\ Local(r, a)
    BY <1>0, <1>1, <1>2, <2>2, <2>3 DEF Grows, Local, Busy, Early, Pushing, Act
  <2>5. Minds(a) \subseteq Known(r)
    BY <1>0, <1>2 DEF Act, Minds, Known
  <2> QED BY <1>0, <1>9, <2>2, <2>3, <2>4, <2>5, QuietStep
<1>3. CASE act' = [act EXCEPT ![r].pc = "finalize"]
  <2> DEFINE a == [act[r] EXCEPT !.pc = "finalize"]
  <2>2. act' = [act EXCEPT ![r] = a]
    BY <1>0, <1>3
  <2>3. a \in Act
    BY <1>0, <1>3 DEF Act, Phase
  <2>4. Grows(r) /\ Local(r, a)
    BY <1>0, <1>1, <1>3, <2>2, <2>3 DEF Grows, Local, Busy, Early, Pushing, Act
  <2>5. Minds(a) \subseteq Known(r)
    BY <1>0, <1>3 DEF Act, Minds, Known
  <2> QED BY <1>0, <1>9, <2>2, <2>3, <2>4, <2>5, QuietStep
<1> QED BY <1>2, <1>3 DEF Finish

LEMMA FlushStep == ASSUME WInv, RunAssumption, NEW r \in Run, Flush(r) PROVE WInv'
<1>0. act \in [Run -> Act] /\ act[r] \in Act /\ Local(r, act[r])
  BY RecordOf
<1>9. UNCHANGED <<wip, rec>>
  BY DEF Flush, Remote
<1>1. act[r].pc = "flush" /\ act[r].ck = "idle"
  BY DEF Flush
<1>2. CASE act' = [Snapped(r) EXCEPT ![r].pc = "preserve"]
  <2> DEFINE a == [act[r] EXCEPT !.snap = [run |-> r, units |-> act[r].ws], !.ck = "push", !.pc = "preserve"]
  <2>2. act' = [act EXCEPT ![r] = a]
    BY <1>0, <1>2 DEF Snapped
  <2>3. a \in Act
    BY <1>0 DEF Act, MaybeSnapshot, Snapshot, Phase
  <2>4. Grows(r) /\ Local(r, a)
    BY <1>0, <1>1, <2>2, <2>3 DEF Grows, Local, Busy, Early, Pushing, Act
  <2>5. Minds(a) \subseteq Known(r)
    BY <1>0 DEF Act, Minds, Known
  <2> QED BY <1>0, <1>9, <2>2, <2>3, <2>4, <2>5, QuietStep
<1>3. CASE act' = [act EXCEPT ![r].pc = "preserve"]
  <2> DEFINE a == [act[r] EXCEPT !.pc = "preserve"]
  <2>2. act' = [act EXCEPT ![r] = a]
    BY <1>0, <1>3
  <2>3. a \in Act
    BY <1>0, <1>3 DEF Act, Phase
  <2>4. Grows(r) /\ Local(r, a)
    BY <1>0, <1>1, <1>3, <2>2, <2>3 DEF Grows, Local, Busy, Early, Pushing, Act
  <2>5. Minds(a) \subseteq Known(r)
    BY <1>0, <1>3 DEF Act, Minds, Known
  <2> QED BY <1>0, <1>9, <2>2, <2>3, <2>4, <2>5, QuietStep
<1> QED BY <1>2, <1>3 DEF Flush

LEMMA PushCheckpointStep == ASSUME WInv, RunAssumption, NEW r \in Run, PushCheckpoint(r) PROVE WInv'
<1>0. act \in [Run -> Act] /\ act[r] \in Act /\ Local(r, act[r])
  BY RecordOf
<1>1. act[r].ck \in {"push", "repush"} /\ act[r].pc # "done" /\ act[r].key \in Key /\ UNCHANGED rec
  BY <1>0 DEF PushCheckpoint, Local, Pushing
<1>2. /\ act[r].snap \in Snapshot /\ act[r].snap.run = r /\ act[r].snap.units \subseteq act[r].ws
      /\ act[r].snap.units \subseteq Unit
  BY <1>0, <1>1 DEF Local, Busy, Act, MaybeSnapshot, None, Snapshot, RunAssumption
<1>3. CASE Accept(r) /\ act' = Landed(r)
  <2> DEFINE a == [act[r] EXCEPT !.expect = act[r].snap, !.last = act[r].snap.units, !.est = TRUE,
                                 !.owned = act[r].snap, !.snap = None, !.ck = "note"]
  <2>1. act' = [act EXCEPT ![r] = a]
    BY <1>0, <1>3 DEF Landed
  <2>2. a \in Act
    BY <1>0, <1>2 DEF Act, MaybeSnapshot
  <2>3. act'[r] = a /\ (\A q \in Run : q # r => act'[q] = act[q]) /\ wip' = [wip EXCEPT ![act[r].key] = act[r].snap]
    BY <1>0, <1>3, <2>1 DEF Accept
  <2>4. Typed'
    <3>1. wip' \in [Key -> MaybeSnapshot]
      BY <1>2, <2>3 DEF WInv, Typed, MaybeSnapshot
    <3>2. act' \in [Run -> Act]
      BY <1>0, <2>1, <2>2
    <3> QED BY <1>1, <3>1, <3>2 DEF WInv, Typed
  <2>5. Grows(r) /\ Local(r, act'[r])
    BY <1>0, <1>1, <1>2, <2>2, <2>3 DEF Grows, Local, Busy, Early, Pushing, Act
  <2>6. a.ws = act[r].ws /\ a.ck = "note"
    BY <1>0 DEF Act
  <2>7. Fit(act[r].snap, r)
    BY <1>2, <2>3, <2>6 DEF Fit, Busy
  <2>8. \A k \in Key : Fit(wip'[k], r) /\ Fit(rec'[k], r)
    BY <1>1, <2>3, <2>7 DEF WInv, Typed, Fit
  <2>9. \A cp \in Minds(act'[r]) : Fit(cp, r)
    <3>1. Minds(a) \subseteq Minds(act[r]) \union {act[r].snap}
      BY <1>0 DEF Act, Minds
    <3>2. \A cp \in Minds(act[r]) : Covered(cp, act)
      BY DEF WInv
    <3> QED BY <2>3, <2>7, <3>1, <3>2 DEF Fit
  <2> QED BY <2>3, <2>4, <2>5, <2>8, <2>9, RunStepKeeps
<1>4. CASE Accept(r) /\ act' = [act EXCEPT ![r].ck = "idle", ![r].snap = None]
  <2> DEFINE a == [act[r] EXCEPT !.ck = "idle", !.snap = None]
  <2>1. act' = [act EXCEPT ![r] = a]
    BY <1>0, <1>4
  <2>2. a \in Act
    BY <1>0 DEF Act, MaybeSnapshot
  <2>3. act'[r] = a /\ (\A q \in Run : q # r => act'[q] = act[q]) /\ wip' = [wip EXCEPT ![act[r].key] = act[r].snap]
    BY <1>0, <1>4, <2>1 DEF Accept
  <2>4. Typed'
    <3>1. wip' \in [Key -> MaybeSnapshot]
      BY <1>2, <2>3 DEF WInv, Typed, MaybeSnapshot
    <3>2. act' \in [Run -> Act]
      BY <1>0, <2>1, <2>2
    <3> QED BY <1>1, <3>1, <3>2 DEF WInv, Typed
  <2>5. Grows(r) /\ Local(r, act'[r])
    BY <1>0, <1>1, <1>2, <2>2, <2>3 DEF Grows, Local, Busy, Early, Pushing, Act
  <2>6. a.ws = act[r].ws /\ a.ck = "idle"
    BY <1>0 DEF Act
  <2>7. Fit(act[r].snap, r)
    BY <1>2, <2>3, <2>6 DEF Fit, Busy
  <2>8. \A k \in Key : Fit(wip'[k], r) /\ Fit(rec'[k], r)
    BY <1>1, <2>3, <2>7 DEF WInv, Typed, Fit
  <2>9. \A cp \in Minds(act'[r]) : Fit(cp, r)
    <3>1. Minds(a) = Minds(act[r])
      BY <1>0 DEF Act, Minds
    <3> QED BY <2>3, <3>1 DEF Fit, WInv
  <2> QED BY <2>3, <2>4, <2>5, <2>8, <2>9, RunStepKeeps
<1>5. CASE /\ UNCHANGED <<wip, rec>>
            /\ \/ \E off \in BOOLEAN : act' = [act EXCEPT ![r].ck = "idle", ![r].snap = None, ![r].off = off]
               \/ act' = [act EXCEPT ![r].ck = "reread"]
  <2>0. UNCHANGED <<wip, rec>>
    BY <1>5
  <2>1. CASE \E off \in BOOLEAN : act' = [act EXCEPT ![r].ck = "idle", ![r].snap = None, ![r].off = off]
    <3>1. PICK off \in BOOLEAN : act' = [act EXCEPT ![r].ck = "idle", ![r].snap = None, ![r].off = off]
      BY <2>1
    <3> DEFINE a == [act[r] EXCEPT !.ck = "idle", !.snap = None, !.off = off]
    <3>2. act' = [act EXCEPT ![r] = a]
      BY <1>0, <3>1
    <3>3. a \in Act
      BY <1>0 DEF Act, MaybeSnapshot
    <3>4. Grows(r) /\ Local(r, a)
      BY <1>0, <1>1, <3>2, <3>3 DEF Grows, Local, Busy, Early, Pushing, Act
    <3>5. Minds(a) \subseteq Known(r)
      BY <1>0 DEF Act, Minds, Known
    <3> QED BY <1>0, <2>0, <3>2, <3>3, <3>4, <3>5, QuietStep
  <2>2. CASE act' = [act EXCEPT ![r].ck = "reread"]
    <3> DEFINE a == [act[r] EXCEPT !.ck = "reread"]
    <3>2. act' = [act EXCEPT ![r] = a]
      BY <1>0, <2>2
    <3>3. a \in Act
      BY <1>0 DEF Act
    <3>4. Grows(r) /\ Local(r, a)
      BY <1>0, <1>1, <3>2, <3>3 DEF Grows, Local, Busy, Early, Pushing, Act
    <3>5. Minds(a) \subseteq Known(r)
      BY <1>0 DEF Act, Minds, Known
    <3> QED BY <1>0, <2>0, <3>2, <3>3, <3>4, <3>5, QuietStep
  <2> QED BY <1>5, <2>1, <2>2
<1>6. act[r].est \in BOOLEAN
  BY <1>0 DEF Act
<1> QED BY <1>1, <1>3, <1>4, <1>5, <1>6 DEF PushCheckpoint

LEMMA AdoptStep == ASSUME WInv, RunAssumption, NEW r \in Run, Adopt(r) PROVE WInv'
<1>0. act \in [Run -> Act] /\ act[r] \in Act /\ Local(r, act[r])
  BY RecordOf
<1>1. act[r].pc = "adopt" /\ act[r].key \in Key /\ UNCHANGED rec
  BY <1>0 DEF Adopt, Local
<1> DEFINE k == act[r].key
           cp == IF wip[k] = None THEN act[r].seen ELSE wip[k]
<1>2. cp \in MaybeSnapshot /\ cp \in Known(r) /\ Covered(cp, act)
  <2>1. wip[k] \in MaybeSnapshot /\ act[r].seen \in MaybeSnapshot
    BY <1>0, <1>1 DEF WInv, Typed, Act
  <2>2. cp \in Known(r)
    BY <1>1 DEF Known, Minds
  <2> QED BY <2>1, <2>2, KnownCovered
<1> HIDE DEF cp
<1>3. CASE wip' = [wip EXCEPT ![k] = cp] /\ act' = [act EXCEPT ![r].prior = cp, ![r].seen = None, ![r].pc = "restore"]
  <2> DEFINE a == [act[r] EXCEPT !.prior = cp, !.seen = None, !.pc = "restore"]
  <2>1. act' = [act EXCEPT ![r] = a]
    BY <1>0, <1>3
  <2>2. a \in Act
    BY <1>0, <1>2 DEF Act, MaybeSnapshot, Phase
  <2>3. act'[r] = a /\ (\A q \in Run : q # r => act'[q] = act[q])
    BY <1>0, <2>1
  <2>4. Typed'
    <3>1. wip' \in [Key -> MaybeSnapshot]
      BY <1>2, <1>3 DEF WInv, Typed
    <3>2. act' \in [Run -> Act]
      BY <1>0, <2>1, <2>2
    <3> QED BY <1>1, <3>1, <3>2 DEF WInv, Typed
  <2>5. Grows(r) /\ Local(r, act'[r])
    BY <1>0, <1>1, <2>2, <2>3 DEF Grows, Local, Busy, Early, Pushing, Act
  <2>6. \A j \in Key : Fit(wip'[j], r) /\ Fit(rec'[j], r)
    BY <1>1, <1>2, <1>3 DEF WInv, Typed, Fit
  <2>7. \A c \in Minds(act'[r]) : Fit(c, r)
    <3>1. Minds(a) \subseteq Known(r) \union {cp}
      BY <1>0 DEF Act, Minds, Known
    <3> QED BY <1>2, <2>3, <3>1, KnownCovered DEF Fit
  <2> QED BY <2>3, <2>4, <2>5, <2>6, <2>7, RunStepKeeps
<1>4. CASE UNCHANGED wip /\ act' = [act EXCEPT ![r].pc = "run", ![r].seen = None]
  <2> DEFINE a == [act[r] EXCEPT !.pc = "run", !.seen = None]
  <2>2. act' = [act EXCEPT ![r] = a]
    BY <1>0, <1>4
  <2>3. a \in Act
    BY <1>0 DEF Act, Phase, MaybeSnapshot
  <2>4. Grows(r) /\ Local(r, a)
    BY <1>0, <1>1, <2>2, <2>3 DEF Grows, Local, Busy, Early, Pushing, Act
  <2>5. Minds(a) \subseteq Known(r)
    BY <1>0 DEF Act, Minds, Known
  <2> QED BY <1>0, <1>1, <1>4, <2>2, <2>3, <2>4, <2>5, QuietStep
<1> QED BY <1>3, <1>4 DEF Adopt, cp

LEMMA PreserveStep == ASSUME WInv, RunAssumption, NEW r \in Run, Preserve(r) PROVE WInv'
<1>0. act \in [Run -> Act] /\ act[r] \in Act /\ Local(r, act[r])
  BY RecordOf
<1>9. UNCHANGED <<wip, rec>>
  BY DEF Preserve, Remote
<1>1. act[r].pc = "preserve" /\ act[r].ck = "idle" /\ act[r].key \in Key
  BY <1>0 DEF Preserve, Local
<1>2. CASE act' = To(r, AfterPreserve(r))
  <2>1. AfterPreserve(r) \in Phase \ (Early \union Pushing)
    BY DEF AfterPreserve, Phase, Early, Pushing
  <2> QED BY <1>1, <1>2, <1>9, <2>1, ToStep
<1>3. ASSUME NEW cur \in {rec[act[r].key], None}, act' = [act EXCEPT ![r].seen = cur, ![r].pc = "recpush"]
      PROVE  WInv'
  <2>1. cur \in MaybeSnapshot /\ cur \in Known(r)
    BY <1>1 DEF WInv, Typed, Known, MaybeSnapshot
  <2> DEFINE a == [act[r] EXCEPT !.seen = cur, !.pc = "recpush"]
  <2>2. act' = [act EXCEPT ![r] = a]
    BY <1>0, <1>3
  <2>3. a \in Act
    BY <1>0, <2>1 DEF Act, Phase
  <2>4. Grows(r) /\ Local(r, a)
    BY <1>0, <1>1, <2>2, <2>3 DEF Grows, Local, Busy, Early, Pushing, Act
  <2>5. Minds(a) \subseteq Known(r)
    BY <1>0, <2>1 DEF Act, Minds, Known
  <2> QED BY <1>0, <1>9, <2>2, <2>3, <2>4, <2>5, QuietStep
<1> QED BY <1>2, <1>3 DEF Preserve

LEMMA PushRecoveryStep == ASSUME WInv, RunAssumption, NEW r \in Run, PushRecovery(r) PROVE WInv'
<1>0. act \in [Run -> Act] /\ act[r] \in Act /\ Local(r, act[r])
  BY RecordOf
<1>1. act[r].pc = "recpush" /\ act[r].ck = "idle" /\ act[r].key \in Key /\ UNCHANGED wip
  BY <1>0 DEF PushRecovery, Local, Pushing
<1>2. PICK ok \in BOOLEAN : act' = [To(r, AfterPreserve(r)) EXCEPT ![r].preserved = ok, ![r].seen = None]
  BY DEF PushRecovery
<1>3. rec' \in {rec, [rec EXCEPT ![act[r].key] = act[r].owned]}
  BY DEF PushRecovery
<1>4. rec' \in [Key -> MaybeSnapshot] /\ \A k \in Key : rec'[k] \in {rec[k], act[r].owned}
  <2>1. act[r].owned \in MaybeSnapshot /\ rec \in [Key -> MaybeSnapshot]
    BY <1>0 DEF Act, WInv, Typed
  <2> QED BY <1>1, <1>3, <2>1
<1>5. \A k \in Key : Fit(wip'[k], r) /\ Fit(rec'[k], r)
  BY <1>1, <1>4 DEF Fit, WInv, Minds
<1>6. CASE AfterPreserve(r) = "settle"
  <2> DEFINE a == [act[r] EXCEPT !.pc = "settle", !.preserved = ok, !.seen = None]
  <2>1. act' = [act EXCEPT ![r] = a]
    BY <1>0, <1>2, <1>6 DEF To
  <2>2. a \in Act
    BY <1>0 DEF Act, MaybeSnapshot, Phase
  <2>3. act'[r] = a /\ (\A q \in Run : q # r => act'[q] = act[q]) /\ Typed'
    BY <1>0, <1>1, <1>4, <2>1, <2>2 DEF WInv, Typed
  <2>4. Grows(r) /\ Local(r, act'[r])
    BY <1>0, <1>1, <2>2, <2>3 DEF Grows, Local, Busy, Early, Pushing, Act
  <2>5. \A c \in Minds(act'[r]) : Fit(c, r)
    <3>1. Minds(a) \subseteq Known(r)
      BY <1>0 DEF Act, Minds, Known
    <3> QED BY <2>3, <3>1, KnownCovered DEF Fit
  <2> QED BY <1>5, <2>3, <2>4, <2>5, RunStepKeeps
<1>7. CASE AfterPreserve(r) = "ack"
  <2> DEFINE a == [act[r] EXCEPT !.pc = "ack", !.preserved = ok, !.seen = None]
  <2>1. act' = [act EXCEPT ![r] = a]
    BY <1>0, <1>2, <1>7 DEF To
  <2>2. a \in Act
    BY <1>0 DEF Act, MaybeSnapshot, Phase
  <2>3. act'[r] = a /\ (\A q \in Run : q # r => act'[q] = act[q]) /\ Typed'
    BY <1>0, <1>1, <1>4, <2>1, <2>2 DEF WInv, Typed
  <2>4. Grows(r) /\ Local(r, act'[r])
    BY <1>0, <1>1, <2>2, <2>3 DEF Grows, Local, Busy, Early, Pushing, Act
  <2>5. \A c \in Minds(act'[r]) : Fit(c, r)
    <3>1. Minds(a) \subseteq Known(r)
      BY <1>0 DEF Act, Minds, Known
    <3> QED BY <2>3, <3>1, KnownCovered DEF Fit
  <2> QED BY <1>5, <2>3, <2>4, <2>5, RunStepKeeps
<1> QED BY <1>6, <1>7 DEF AfterPreserve

LEMMA FinalizeStep == ASSUME WInv, RunAssumption, NEW r \in Run, Finalize(r) PROVE WInv'
<1>0. act \in [Run -> Act] /\ act[r] \in Act /\ Local(r, act[r])
  BY RecordOf
<1>9. UNCHANGED <<wip, rec>>
  BY DEF Finalize, Remote
<1>1. act[r].pc = "finalize" /\ act[r].ck = "idle" /\ act[r].key \in Key
  BY <1>0 DEF Finalize, Local
<1>2. PICK drop \in BOOLEAN : act' = [act EXCEPT ![r].pc = "ack", ![r].drop = drop]
  <2>1. PICK committed \in SUBSET act[r].ws :
          act' = [act EXCEPT ![r].pc = "ack", ![r].drop =
                    committed # {} /\ committed = act[r].ws /\ (act[r].prior = None \/ act[r].restored)]
    BY DEF Finalize
  <2>2. (committed # {} /\ committed = act[r].ws /\ (act[r].prior = None \/ act[r].restored)) \in BOOLEAN
    BY Zenon
  <2> QED BY <2>1, <2>2
<1> DEFINE a == [act[r] EXCEPT !.pc = "ack", !.drop = drop]
<1>3. act' = [act EXCEPT ![r] = a]
  BY <1>0, <1>2
<1>4. a \in Act
  BY <1>0 DEF Act, Phase
<1>5. Grows(r) /\ Local(r, a)
  BY <1>0, <1>1, <1>3, <1>4 DEF Grows, Local, Busy, Early, Pushing, Act
<1>6. Minds(a) \subseteq Known(r)
  BY <1>0 DEF Act, Minds, Known
<1> QED BY <1>0, <1>3, <1>4, <1>5, <1>6, <1>9, QuietStep

LEMMA DeadlineStep == ASSUME WInv, RunAssumption, NEW r \in Run, Deadline(r) PROVE WInv'
<1>0. act \in [Run -> Act] /\ act[r] \in Act /\ Local(r, act[r])
  BY RecordOf
<1>9. UNCHANGED <<wip, rec>>
  BY DEF Deadline, Remote
<1>1. act[r].pc # "done"
  BY DEF Deadline
<1> DEFINE b == [Fresh EXCEPT !.pc = "done", !.key = act[r].key, !.ck = act[r].ck, !.meta = act[r].meta]
           a == [b EXCEPT !.ck = "idle", !.meta = FALSE]
<1>b. b \in Act /\ b.pc = "done" /\ b.expect = None /\ Minds(b) = {None} /\ To(r, "done") = [act EXCEPT ![r] = b]
  <2>1. b \in Act
    BY <1>0 DEF Fresh, Act, Phase, MaybeSnapshot
  <2>2. To(r, "done") = [act EXCEPT ![r] = b]
    BY DEF To
  <2> QED BY <2>1, <2>2 DEF Fresh, Minds, Act
<1> HIDE DEF b
<1>2. act' = [act EXCEPT ![r] = a]
  BY <1>0, <1>b DEF Deadline
<1>3. a \in Act
  BY <1>b DEF Act
<1>4. act'[r] = a /\ a.pc = "done" /\ a.ck = "idle" /\ a.expect = None /\ Minds(a) = {None}
  BY <1>0, <1>b, <1>2, <1>3 DEF Act, Minds
<1>5. Grows(r) /\ Local(r, a)
  BY <1>4 DEF Grows, Local, Busy, Early, Pushing, None
<1> QED BY <1>0, <1>2, <1>3, <1>4, <1>5, <1>9, QuietStep DEF Known

(* A reference may be deleted at any time.                                  *)
LEMMA RefsDropped ==
  ASSUME WInv, RunAssumption, UNCHANGED act, wip' \in [Key -> MaybeSnapshot], rec' \in [Key -> MaybeSnapshot],
         \A k \in Key : wip'[k] \in {wip[k], None} /\ rec'[k] \in {rec[k], None}
  PROVE  WInv'
<1>1. \A k \in Key : Covered(wip'[k], act) /\ Covered(rec'[k], act)
  BY NoneCovered DEF WInv
<1> QED BY <1>1 DEF WInv, Typed, Covered, Minds, Local

LEMMA DiscardAfterAckStep == ASSUME WInv, RunAssumption, NEW r \in Run, DiscardAfterAck(r) PROVE WInv'
<1>0. act \in [Run -> Act] /\ act[r] \in Act /\ Local(r, act[r])
  BY RecordOf
<1>1. act[r].pc = "discard" /\ act[r].ck = "idle" /\ act[r].key \in Key /\ UNCHANGED rec
  BY <1>0 DEF DiscardAfterAck, Local, Pushing
<1>2. wip' \in {wip, [wip EXCEPT ![act[r].key] = None]} /\ act' = To(r, "done")
  BY DEF DiscardAfterAck
<1> DEFINE a == [Fresh EXCEPT !.pc = "done", !.key = act[r].key, !.ck = act[r].ck, !.meta = act[r].meta]
<1>3. act' = [act EXCEPT ![r] = a]
  BY <1>2 DEF To
<1>4. a \in Act
  BY <1>0 DEF Fresh, Act, Phase, MaybeSnapshot
<1>5. act'[r] = a /\ a.pc = "done" /\ a.ck = "idle" /\ a.expect = None /\ Minds(a) = {None}
  BY <1>0, <1>1, <1>3, <1>4 DEF Fresh, Act, Minds
<1>6. Grows(r) /\ Local(r, act'[r])
  BY <1>5 DEF Grows, Local, Busy, Early, Pushing, None
<1>7. \A q \in Run : q # r => act'[q] = act[q]
  BY <1>0, <1>3
<1>8. wip' \in [Key -> MaybeSnapshot] /\ \A k \in Key : wip'[k] \in {wip[k], None}
  BY <1>1, <1>2 DEF WInv, Typed, MaybeSnapshot
<1>9. Typed'
  BY <1>0, <1>1, <1>3, <1>4, <1>8 DEF WInv, Typed
<1>10. Covered(None, act)
  BY NoneCovered
<1>11. \A k \in Key : Fit(wip'[k], r) /\ Fit(rec'[k], r)
  BY <1>1, <1>8, <1>10 DEF WInv, Fit
<1>12. \A cp \in Minds(act'[r]) : Fit(cp, r)
  BY <1>5, <1>10 DEF Fit
<1> QED BY <1>6, <1>7, <1>9, <1>11, <1>12, RunStepKeeps

LEMMA ReclaimStep == ASSUME WInv, RunAssumption, NEW d \in doomed, Reclaim(d) PROVE WInv'
<1>1. UNCHANGED act
  BY DEF Reclaim
<1>2. /\ wip' \in {wip, [wip EXCEPT ![d.name[2]] = None]}
      /\ rec' \in {rec, [rec EXCEPT ![d.name[2]] = None]}
  BY DEF Reclaim, Remote
<1>3. /\ wip' \in [Key -> MaybeSnapshot] /\ rec' \in [Key -> MaybeSnapshot]
      /\ \A k \in Key : wip'[k] \in {wip[k], None} /\ rec'[k] \in {rec[k], None}
  BY <1>2 DEF WInv, Typed, MaybeSnapshot
<1> QED BY <1>1, <1>3, RefsDropped

-----------------------------------------------------------------------------
LEMMA WInitInv == ASSUME RunAssumption, Init PROVE WInv
<1>1. Fresh \in Act
  BY DEF Fresh, Act, Phase, MaybeSnapshot
<1>2. Typed
  BY <1>1 DEF Init, Typed, MaybeSnapshot
<1>3. \A r \in Run : Local(r, act[r]) /\ Minds(act[r]) = {None}
  BY DEF Init, Fresh, Local, Minds, Busy, Early, None
<1>4. Covered(None, act)
  BY NoneCovered
<1>5. \A k \in Key : wip[k] = None /\ rec[k] = None
  BY DEF Init
<1> QED BY <1>2, <1>3, <1>4, <1>5 DEF WInv

LEMMA WInvStep == ASSUME RunAssumption, WInv, [Next]_vars PROVE WInv'
<1>1. ASSUME NEW r \in Run, Activate(r) \/ Abort(r) \/ Edit(r) PROVE WInv'
  BY <1>1, ActivateStep, AbortStep, EditStep
<1>2. ASSUME NEW r \in Run, RunStep(r) PROVE WInv'
  BY <1>2, FetchPriorStep, FetchPredecessorStep, AdoptStep, RestoreStep, SetupAbortedStep,
     TakeSnapshotStep, PushCheckpointStep, RereadStep, NoteStep, EndMetaStep, FinishStep, FlushStep,
     PreserveStep, PushRecoveryStep, SettleMetaStep, VerifyOwnershipStep, WritePointerStep,
     SkipPointerStep, DeadlineStep, FinalizeStep, SettleStep, DiscardAfterAckStep DEF RunStep
<1>3. CASE \E d \in doomed : Reclaim(d)
  BY <1>3, ReclaimStep
<1>4. CASE UNCHANGED <<wip, rec, act>>
  BY <1>4 DEF WInv, Typed, Covered, Minds, Local
<1>5. CASE LoseLease \/ FinishProcess \/ TimePasses \/ (\E k \in Key : CancelElement(k))
           \/ (\E n \in RefName : Condemn(n)) \/ UNCHANGED vars
  BY <1>4, <1>5 DEF LoseLease, FinishProcess, TimePasses, CancelElement, Condemn, Remote, vars
<1> QED BY <1>1, <1>2, <1>3, <1>5 DEF Next

(* The step of the proof: the writer's lease names a snapshot that its own  *)
(* workspace, and so the new snapshot, contains.                            *)
LEMMA PushKeeps ==
  ASSUME RunAssumption, WInv, [Next]_vars
  PROVE  [\A k \in Key : wip'[k] # None => wip[k].units \subseteq wip'[k].units]_wip
<1> DEFINE Kept == \A k \in Key : wip'[k] # None => wip[k].units \subseteq wip'[k].units
<1> SUFFICES ASSUME wip' # wip PROVE Kept
  OBVIOUS
<1>1. ASSUME NEW r \in Run, NEW cp, NEW k \in Key, wip' = [wip EXCEPT ![k] = cp],
             cp # None => wip[k].units \subseteq cp.units
      PROVE  Kept
  BY <1>1 DEF WInv, Typed
<1>2. ASSUME NEW r \in Run, Adopt(r) PROVE Kept
  <2>1. act[r].key \in Key
    BY <1>2, RecordOf DEF Adopt, Local
  <2>2. wip[act[r].key] = None /\ wip' = [wip EXCEPT ![act[r].key] = act[r].seen]
    BY <1>2, <2>1 DEF Adopt, WInv, Typed
  <2> QED BY <2>1, <2>2, <1>1 DEF None
<1>3. ASSUME NEW r \in Run, PushCheckpoint(r) PROVE Kept
  <2>1. Accept(r) /\ act[r].ck \in Busy
    BY <1>3 DEF PushCheckpoint, Busy
  <2>2. act[r].key \in Key /\ act[r].expect.units \subseteq act[r].snap.units
    BY <2>1, RecordOf DEF Local, Busy, Pushing
  <2> QED BY <2>1, <2>2, <1>1 DEF Accept
<1>4. ASSUME NEW r \in Run, DiscardAfterAck(r) PROVE Kept
  <2>1. act[r].key \in Key /\ wip' = [wip EXCEPT ![act[r].key] = None]
    BY <1>4, RecordOf DEF DiscardAfterAck, Local
  <2> QED BY <2>1, <1>1
<1>5. ASSUME NEW d \in doomed, Reclaim(d) PROVE Kept
  <2>1. wip' = [wip EXCEPT ![d.name[2]] = None]
    BY <1>5 DEF Reclaim, Remote
  <2> QED BY <2>1 DEF WInv, Typed
<1>6. ASSUME NEW r \in Run, RunStep(r) PROVE Kept
  BY <1>2, <1>3, <1>4, <1>6 DEF RunStep, FetchPrior, FetchPredecessor, Restore, SetupAborted,
     TakeSnapshot, Reread, Note, EndMeta, Finish, Flush, Preserve, PushRecovery, SettleMeta,
     VerifyOwnership, WritePointer, SkipPointer, Deadline, Finalize, Settle, Remote
<1> QED BY <1>5, <1>6 DEF Next, Activate, Abort, Edit, LoseLease, FinishProcess, TimePasses,
     CancelElement, Condemn, Remote, vars

(* For any number of runs, keys, edits and faults, a leased push or an      *)
(* adoption keeps what the WIP reference held (createWorkspaceCheckpoint).  *)
THEOREM PushesLoseNothing == ASSUME RunAssumption PROVE Spec => PushesKeep
<1>1. Init => WInv
  BY WInitInv
<1>2. WInv /\ [Next]_vars => WInv'
  BY WInvStep
<1>3. WInv /\ [Next]_vars
        => [\A k \in Key : wip'[k] # None => wip[k].units \subseteq wip'[k].units]_wip
  BY PushKeeps
<1> QED BY <1>1, <1>2, <1>3, PTL DEF Spec, PushesKeep

-----------------------------------------------------------------------------
(* The refinement of DurableWork.  What a recovery ref holds was once the   *)
(* checkpoint of its element, and checkpoints only grow, until the work is  *)
(* on the pushed branch; so the checkpoints and the branch hold everything. *)

Anchor(k) == wip[k].units \union pushed

(* A run owns what its workspace has, unless it could not restore it; the   *)
(* run that drops its checkpoint has pushed what it owns.                   *)
Tidy(a, branch) ==
  /\ a.pc \in Early => ~a.restored /\ a.owned = None
  /\ a.pc = "idle" => a.prior = None
  /\ a.prior = None \/ a.restored => a.owned.units \subseteq a.ws
  /\ a.drop => a.pc \in {"ack", "discard"} /\ a.owned.units \subseteq branch
  /\ a.pc = "discard" => a.drop

RefsAnchored == ~finished =>
  \A k \in Key : /\ rec[k].units \subseteq Anchor(k)
                 /\ \A r \in Run : act[r].key = k =>
                      act[r].owned.units \union act[r].prior.units \subseteq Anchor(k)

Sweeps == age \in [RefName -> 0..MaxAge] /\ (doomed # {} => finished)

AInv == Sweeps /\ RefsAnchored /\ \A r \in Run : Tidy(act[r], pushed)

(* What a step of a run leaves alone.                                       *)
LEMMA Frames ==
  ASSUME NEW r \in Run, RunStep(r)
  PROVE  /\ UNCHANGED <<finished, doomed>>
         /\ wip' = wip \/ Adopt(r) \/ PushCheckpoint(r) \/ DiscardAfterAck(r)
         /\ rec' = rec \/ PushRecovery(r)
         /\ age' = age \/ Adopt(r) \/ PushCheckpoint(r) \/ PushRecovery(r)
<1> DEFINE Shared == UNCHANGED <<finished, doomed, wip, rec, age>>
<1>1. CASE Adopt(r) \/ PushCheckpoint(r)
  BY <1>1 DEF Adopt, PushCheckpoint, Engine
<1>2. CASE DiscardAfterAck(r)
  BY <1>2 DEF DiscardAfterAck, Engine
<1>3. CASE PushRecovery(r)
  BY <1>3 DEF PushRecovery, Engine
<1>4. CASE FetchPrior(r) \/ FetchPredecessor(r) \/ Restore(r)
  BY <1>4 DEF FetchPrior, FetchPredecessor, Restore, Engine, Remote
<1>5. CASE SetupAborted(r) \/ TakeSnapshot(r) \/ Reread(r) \/ Note(r) \/ EndMeta(r)
  BY <1>5 DEF SetupAborted, TakeSnapshot, Reread, Note, EndMeta, Engine, Remote
<1>6. CASE Finish(r) \/ Flush(r) \/ Preserve(r) \/ SettleMeta(r) \/ VerifyOwnership(r)
  BY <1>6 DEF Finish, Flush, Preserve, SettleMeta, VerifyOwnership, Engine, Remote
<1>7. CASE WritePointer(r) \/ SkipPointer(r) \/ Deadline(r)
  BY <1>7 DEF WritePointer, SkipPointer, Deadline, Engine, Remote
<1>8. CASE Finalize(r) \/ Settle(r)
  BY <1>8 DEF Finalize, Settle, Engine, Remote
<1> QED BY <1>1, <1>2, <1>3, <1>4, <1>5, <1>6, <1>7, <1>8 DEF RunStep

(* What every other step leaves alone.                                      *)
LEMMA OtherFrames ==
  ASSUME [Next]_vars, ~\E r \in Run : RunStep(r)
  PROVE  /\ UNCHANGED <<wip, rec>> \/ \E d \in doomed : Reclaim(d)
         /\ age' = age \/ TimePasses \/ \E d \in doomed : Reclaim(d)
         /\ \/ UNCHANGED doomed
            \/ \E n \in RefName : Condemn(n)
            \/ \E d \in doomed : Reclaim(d)
         /\ finished => finished'
<1>1. ASSUME NEW r \in Run, Activate(r) \/ Abort(r) \/ Edit(r) PROVE UNCHANGED <<wip, rec, age, doomed, finished>>
  BY <1>1 DEF Activate, Abort, Edit, Remote, Engine
<1>2. CASE LoseLease \/ FinishProcess \/ TimePasses
  BY <1>2 DEF LoseLease, FinishProcess, TimePasses, Remote, Engine
<1>3. ASSUME NEW k \in Key, CancelElement(k) PROVE UNCHANGED <<wip, rec, age, doomed, finished>>
  BY <1>3 DEF CancelElement, Remote
<1>4. ASSUME NEW n \in RefName, Condemn(n) PROVE UNCHANGED <<wip, rec, age, finished>>
  BY <1>4 DEF Condemn, Remote, Engine
<1>5. ASSUME NEW d \in doomed, Reclaim(d) PROVE UNCHANGED finished
  BY <1>5 DEF Reclaim, Engine
<1>6. CASE UNCHANGED vars
  BY <1>6 DEF vars
<1> QED BY <1>1, <1>2, <1>3, <1>4, <1>5, <1>6 DEF Next

(* What a step of r does to its record and to the branch.                   *)
Works(r) ==
  /\ \A q \in Run : q # r => act'[q] = act[q]
  /\ Tidy(act'[r], pushed') /\ pushed \subseteq pushed'
  /\ act'[r].key = act[r].key \/ act[r].pc = "idle"
  /\ {act'[r].owned, act'[r].prior} \subseteq {act[r].owned, act[r].prior, None, wip'[act'[r].key]}

LEMMA PushWorks == ASSUME WInv, AInv, NEW r \in Run, PushCheckpoint(r) PROVE Works(r)
<1>1. /\ act \in [Run -> Act] /\ act[r] \in Act /\ act[r].key \in Key /\ wip \in [Key -> MaybeSnapshot]
      /\ act[r].pc \in Pushing /\ act[r].snap.units \subseteq act[r].ws /\ pushed' = pushed
      /\ Tidy(act[r], pushed)
  BY RecordOf DEF PushCheckpoint, Local, Busy, WInv, Typed, Pushing, AInv
<1>2. CASE Accept(r) /\ act' = Landed(r)
  <2>1. /\ act'[r] = [act[r] EXCEPT !.expect = act[r].snap, !.last = act[r].snap.units, !.est = TRUE,
                                    !.owned = act[r].snap, !.snap = None, !.ck = "note"]
        /\ \A q \in Run : q # r => act'[q] = act[q]
    BY <1>1, <1>2 DEF Landed
  <2>2. wip'[act[r].key] = act[r].snap
    BY <1>1, <1>2 DEF Accept
  <2>3. /\ act'[r].pc = act[r].pc /\ act'[r].key = act[r].key /\ act'[r].prior = act[r].prior
        /\ act'[r].restored = act[r].restored /\ act'[r].drop = act[r].drop /\ act'[r].ws = act[r].ws
        /\ act'[r].owned = act[r].snap
    BY <1>1, <2>1 DEF Act
  <2> QED BY <1>1, <2>1, <2>2, <2>3 DEF Works, Tidy, Early, Pushing
<1>3. CASE \/ act' = [act EXCEPT ![r].ck = "idle", ![r].snap = None]
           \/ \E off : act' = [act EXCEPT ![r].ck = "idle", ![r].snap = None, ![r].off = off]
           \/ act' = [act EXCEPT ![r].ck = "reread"]
  BY <1>1, <1>3 DEF Works, Tidy, Act
<1> QED BY <1>2, <1>3 DEF PushCheckpoint

LEMMA WorkStep ==
  ASSUME WInv, AInv, NEW r \in Run, Activate(r) \/ Abort(r) \/ Edit(r) \/ RunStep(r) PROVE Works(r)
<1> USE RecordOf DEF Works, Tidy, AInv, Local, Act, None, Remote, Early, Pushing, Busy
<1>1. CASE Activate(r)
  BY <1>1 DEF Activate
<1>2. CASE Abort(r)
  BY <1>2 DEF Abort
<1>3. CASE Edit(r)
  BY <1>3 DEF Edit, Unit
<1>4. CASE TakeSnapshot(r)
  BY <1>4 DEF TakeSnapshot, Snapped
<1>5. CASE EndMeta(r)
  BY <1>5 DEF EndMeta
<1>6. CASE FetchPrior(r)
  BY <1>6 DEF FetchPrior, Fail
<1>7. CASE FetchPredecessor(r)
  BY <1>7 DEF FetchPredecessor
<1>8. CASE Restore(r)
  BY <1>8 DEF Restore, Fail
<1>9. CASE Reread(r)
  BY <1>9 DEF Reread, Fail
<1>10. CASE Note(r)
  BY <1>10 DEF Note, Aborting
<1>11. CASE Finish(r)
  BY <1>11 DEF Finish
<1>12. CASE Flush(r)
  BY <1>12 DEF Flush, Snapped, Due
<1>13. CASE Adopt(r)
  BY <1>13 DEF Adopt, Fail
<1>14. CASE Finalize(r)
  BY <1>14 DEF Finalize
<1>15. CASE SetupAborted(r)
  BY <1>15 DEF SetupAborted, To, Fresh
<1>16. CASE SettleMeta(r)
  BY <1>16 DEF SettleMeta, To, Fresh
<1>17. CASE VerifyOwnership(r)
  BY <1>17 DEF VerifyOwnership, To, Fresh
<1>18. CASE WritePointer(r)
  BY <1>18 DEF WritePointer, To, Fresh, Fail
<1>19. CASE SkipPointer(r)
  BY <1>19 DEF SkipPointer, To, Fresh
<1>20. CASE Deadline(r)
  BY <1>20 DEF Deadline, To, Fresh
<1>21. CASE Settle(r)
  BY <1>21 DEF Settle, To, Fresh
<1>22. CASE DiscardAfterAck(r)
  BY <1>22 DEF DiscardAfterAck, To, Fresh
<1>23. CASE Preserve(r)
  BY <1>23 DEF Preserve, To, Fresh, AfterPreserve, Fail
<1>24. CASE PushRecovery(r)
  BY <1>24 DEF PushRecovery, To, Fresh, AfterPreserve, Fail
<1> QED BY <1>1, <1>2, <1>3, <1>4, <1>5, <1>6, <1>7, <1>8, <1>9, <1>10, <1>11, <1>12, <1>13, <1>14, <1>15, <1>16, <1>17, <1>18, <1>19, <1>20, <1>21, <1>22, <1>23, <1>24, PushWorks DEF RunStep

(* Nothing leaves the pushed branch.                                        *)
LEMMA BranchGrows == ASSUME WInv, AInv, [Next]_vars PROVE pushed \subseteq pushed'
<1>1. ASSUME NEW r \in Run, Activate(r) \/ Abort(r) \/ Edit(r) \/ RunStep(r) PROVE pushed \subseteq pushed'
  BY <1>1, WorkStep DEF Works
<1> QED BY <1>1 DEF Next, LoseLease, FinishProcess, TimePasses, CancelElement, Condemn, Reclaim, vars

(* While the process goes on, what a checkpoint or the branch holds stays.  *)
LEMMA AnchorsGrow ==
  ASSUME RunAssumption, WInv, AInv, [Next]_vars, ~finished, NEW k \in Key
  PROVE  Anchor(k) \subseteq Anchor(k)'
<1>1. pushed \subseteq pushed'
  BY BranchGrows
<1>2. wip'[k].units = {} => wip[k].units \subseteq pushed
  <2>1. CASE wip' = wip
    BY <2>1
  <2>2. ASSUME NEW r \in Run, Adopt(r) PROVE wip'[k] = wip[k] \/ wip[k] = None
    BY <2>2, RecordOf DEF Adopt, Local, WInv, Typed
  <2>3. ASSUME NEW r \in Run, PushCheckpoint(r) PROVE wip[k].units \subseteq wip'[k].units
    <3>1. act[r].ck \in Busy
      BY <2>3 DEF PushCheckpoint, Busy
    <3>2. act[r].key \in Key /\ act[r].expect.units \subseteq act[r].snap.units
      BY <3>1, RecordOf DEF Local, Busy, Pushing
    <3> QED BY <2>3, <3>2 DEF PushCheckpoint, Accept, WInv, Typed
  <2>4. ASSUME NEW r \in Run, DiscardAfterAck(r) PROVE wip'[k] = wip[k] \/ wip[k].units \subseteq pushed
    BY <2>4, RecordOf DEF DiscardAfterAck, Local, WInv, Typed, AInv, Tidy
  <2>5. ASSUME NEW d \in doomed PROVE FALSE
    BY <2>5 DEF AInv, Sweeps
  <2>6. ASSUME NEW r \in Run, RunStep(r) PROVE wip'[k].units = {} => wip[k].units \subseteq pushed
    <3>1. wip' = wip \/ Adopt(r) \/ PushCheckpoint(r) \/ DiscardAfterAck(r)
      BY <2>6, Frames
    <3>2. CASE Adopt(r)
      <4>1. wip'[k] = wip[k] \/ wip[k] = None
        BY <2>2, <3>2
      <4>2. None.units = {}
        BY DEF None
      <4> QED BY <4>1, <4>2
    <3>3. CASE PushCheckpoint(r)
      BY <2>3, <3>3
    <3>4. CASE DiscardAfterAck(r)
      <4>1. wip'[k] = wip[k] \/ wip[k].units \subseteq pushed
        BY <2>4, <3>4
      <4> QED BY <4>1
    <3> QED BY <2>1, <3>1, <3>2, <3>3, <3>4
  <2> QED BY <2>1, <2>5, <2>6, OtherFrames
<1>3. wip'[k] # None => wip[k].units \subseteq wip'[k].units
  BY PushKeeps
<1> QED BY <1>1, <1>2, <1>3 DEF Anchor, None

LEMMA AInitInv == ASSUME BoundAssumption, Init PROVE AInv
<1>1. Sweeps
  BY DEF Sweeps, Init, BoundAssumption
<1>2. RefsAnchored /\ \A r \in Run : Tidy(act[r], pushed)
  BY DEF RefsAnchored, Tidy, Init, Fresh, None, Early
<1> QED BY <1>1, <1>2 DEF AInv

LEMMA SweepStep == ASSUME BoundAssumption, MaxAge < 2, AInv, WInv, [Next]_vars PROVE Sweeps'
<1>1. MaxAge \in {0, 1} /\ age \in [RefName -> 0..MaxAge] /\ (doomed # {} => finished)
  BY DEF BoundAssumption, AInv, Sweeps
<1>2. finished => finished'
  BY Frames, OtherFrames
<1>3. age' \in [RefName -> 0..MaxAge]
  <2>1. CASE age' = age
    BY <1>1, <2>1
  <2>2. CASE TimePasses
    BY <1>1, <2>2 DEF TimePasses
  <2>3. ASSUME NEW r \in Run, Adopt(r) \/ PushCheckpoint(r) PROVE age' \in [RefName -> 0..MaxAge]
    BY <1>1, <2>3 DEF Adopt, PushCheckpoint, Accept
  <2>4. ASSUME NEW r \in Run, PushRecovery(r) PROVE age' \in [RefName -> 0..MaxAge]
    <3>1. act[r].key \in Key
      BY <2>4, RecordOf DEF PushRecovery, Local
    <3>2. <<"wip", act[r].key>> \in RefName
      BY <3>1 DEF RefName
    <3> QED BY <1>1, <2>4, <3>2 DEF PushRecovery
  <2>5. ASSUME NEW d \in doomed, Reclaim(d) PROVE age' \in [RefName -> 0..MaxAge]
    BY <1>1, <2>5 DEF Reclaim, Remote
  <2> QED BY <2>1, <2>2, <2>3, <2>4, <2>5, Frames, OtherFrames
<1>4. doomed' # {} => finished'
  <2>1. CASE doomed' \subseteq doomed
    BY <1>1, <1>2, <2>1
  <2>2. ASSUME NEW n \in RefName, Condemn(n) PROVE finished
    <3>1. age[n] < 2
      BY <1>1
    <3> QED BY <2>2, <3>1, <1>1 DEF Condemn, Orphan
  <2>3. ASSUME NEW d \in doomed, Reclaim(d) PROVE doomed' \subseteq doomed
    BY <2>3 DEF Reclaim
  <2> QED BY <2>1, <2>2, <2>3, <1>2, Frames, OtherFrames
<1> QED BY <1>3, <1>4 DEF Sweeps

(* What the refs and the runs hold is anchored, whatever the step.          *)
LEMMA AnchoredStep ==
  ASSUME RunAssumption, WInv, AInv, [Next]_vars, ~finished' PROVE RefsAnchored'
<1>1. ~finished /\ doomed = {}
  BY Frames, OtherFrames DEF AInv, Sweeps
<1>2. ASSUME NEW k \in Key PROVE /\ Anchor(k) \subseteq Anchor(k)' /\ wip'[k].units \subseteq Anchor(k)'
                                 /\ rec[k].units \subseteq Anchor(k)
                                 /\ \A r \in Run : act[r].key = k =>
                                      act[r].owned.units \union act[r].prior.units \subseteq Anchor(k)
  BY <1>1, AnchorsGrow DEF AInv, RefsAnchored, Anchor
<1>3. ASSUME NEW k \in Key PROVE rec'[k].units \subseteq Anchor(k)'
  <2>1. CASE rec' = rec
    BY <1>2, <2>1
  <2>2. ASSUME NEW r \in Run, PushRecovery(r) PROVE rec'[k] = rec[k] \/ (rec'[k] = act[r].owned /\ act[r].key = k)
    <3>1. rec' = rec \/ rec' = [rec EXCEPT ![act[r].key] = act[r].owned]
      BY <2>2 DEF PushRecovery
    <3>2. rec \in [Key -> MaybeSnapshot]
      BY DEF WInv, Typed
    <3> QED BY <3>1, <3>2
  <2>3. ASSUME NEW r \in Run, PushRecovery(r) PROVE rec'[k].units \subseteq Anchor(k)'
    BY <1>2, <2>2, <2>3
  <2> QED BY <1>1, <2>1, <2>3, Frames, OtherFrames
<1>4. ASSUME NEW r \in Run, NEW k \in Key, act'[r].key = k
      PROVE  act'[r].owned.units \union act'[r].prior.units \subseteq Anchor(k)'
  <2>1. CASE act'[r] = act[r]
    BY <1>2, <1>4, <2>1
  <2>2. CASE Works(r)
    <3>1. CASE act[r].key = k
      <4>1. \A cp \in {act'[r].owned, act'[r].prior} : cp.units \subseteq Anchor(k)'
        BY <1>2, <1>4, <2>2, <3>1 DEF Works, None
      <4> QED BY <4>1
    <3>2. CASE act[r].pc = "idle"
      <4>1. act[r].owned = None /\ act[r].prior = None
        BY <3>2 DEF AInv, Tidy, Early
      <4>2. \A cp \in {act'[r].owned, act'[r].prior} : cp.units \subseteq Anchor(k)'
        BY <1>2, <1>4, <2>2, <4>1 DEF Works, None
      <4> QED BY <4>2
    <3> QED BY <1>4, <2>2, <3>1, <3>2 DEF Works
  <2>3. ASSUME NEW q \in Run, Activate(q) \/ Abort(q) \/ Edit(q) \/ RunStep(q) PROVE act'[r] = act[r] \/ Works(r)
    BY <2>3, WorkStep DEF Works
  <2> QED BY <2>1, <2>2, <2>3 DEF Next, LoseLease, FinishProcess, TimePasses, CancelElement, Condemn, Reclaim, vars
<1> QED BY <1>3, <1>4 DEF RefsAnchored

LEMMA AInvStep ==
  ASSUME RunAssumption, BoundAssumption, MaxAge < 2, WInv, AInv, [Next]_vars PROVE AInv'
<1>1. Sweeps'
  BY SweepStep
<1>2. RefsAnchored'
  BY AnchoredStep DEF RefsAnchored
<1>3. ASSUME NEW r \in Run PROVE Tidy(act'[r], pushed')
  <2>1. CASE act'[r] = act[r] /\ pushed \subseteq pushed'
    BY <2>1 DEF AInv, Tidy
  <2>2. ASSUME NEW q \in Run, Activate(q) \/ Abort(q) \/ Edit(q) \/ RunStep(q)
        PROVE  Works(r) \/ (act'[r] = act[r] /\ pushed \subseteq pushed')
    BY <2>2, WorkStep DEF Works
  <2>3. CASE Works(r)
    BY <2>3 DEF Works
  <2> QED BY <2>1, <2>2, <2>3 DEF Next, LoseLease, FinishProcess, TimePasses, CancelElement, Condemn, Reclaim, vars
<1> QED BY <1>1, <1>2, <1>3 DEF AInv

(* A step of an open task loses no unit that is held.                       *)
LEMMA HeldStays ==
  ASSUME RunAssumption, WInv, AInv, [Next]_vars, ~finished PROVE Held \subseteq Held'
<1>1. pushed \subseteq pushed'
  BY BranchGrows
<1>2. ASSUME NEW k \in Key PROVE wip[k].units \union rec[k].units \subseteq Anchor(k)'
  BY AnchorsGrow DEF Anchor, AInv, RefsAnchored
<1>3. ASSUME NEW k \in Key PROVE Anchor(k)' \subseteq Held'
  BY DEF Anchor, Held
<1> QED BY <1>1, <1>2, <1>3 DEF Held

(* No interleaving of activations, aborts, checkpoints, recoveries, GC      *)
(* sweeps and finalizations loses work a ref or the branch held while the   *)
(* process goes on, unless a ref outlives its TTL: the checkpoints          *)
(* (agent-checkpoint.mjs) implement DurableWork.                            *)
THEOREM CheckpointsKeepWork ==
  ASSUME RunAssumption, BoundAssumption, MaxAge < 2 PROVE Spec => KeepsWork
<1>1. Init => WInv /\ AInv
  BY WInitInv, AInitInv
<1>2. WInv /\ AInv /\ [Next]_vars => WInv' /\ AInv'
  BY WInvStep, AInvStep
<1>3. Init => Work!Init
  BY DEF Init, Work!Init, Held, None
<1>4. WInv /\ AInv /\ [Next]_vars => [Work!Next]_<<Held, ~finished>>
  BY HeldStays DEF Work!Next, Work!Save, Work!Forget
<1> QED BY <1>1, <1>2, <1>3, <1>4, PTL DEF Spec, KeepsWork, Work!Spec

=============================================================================
