------------------------- MODULE WorkerRuntimeProofs -------------------------
(***************************************************************************)
(* For every set of workers, capacities, jobs, tokens and fibers:          *)
(* the variables of WorkerRuntime keep their types, the capacity           *)
(* accounting of the registry is exact but for the slots lost in the       *)
(* winner's extend, and therefore a graceful drain, which looks only at    *)
(* that accounting, interrupts no claimed job.                             *)
(*                                                                         *)
(* The first inductive invariant, IInv, is TypeOK, SlotsAccounted and       *)
(* LiveFibers: a fiber that is not idle holds a slot of some worker and     *)
(* carries an activation.  Without the last one, a fiber could end and      *)
(* leave the count of its worker as it was.                                *)
(*                                                                         *)
(* The second, CInv, adds that an activation has one carrier, and that an   *)
(* interrupted run has an activation no fiber carries.  From it follows     *)
(* that the run with the lease is on record, and that a force abort, which  *)
(* looks only at the records, yields it.                                   *)
(***************************************************************************)
EXTENDS WorkerRuntime, FiniteSetTheorems, SequenceTheorems, TLAPS

\* A fiber that is not idle holds a slot and carries an activation.
LiveFibers == \A f \in Fiber : Live(f) => slot[f] \in Worker /\ task[f] \in Activation

IInv == TypeOK /\ LiveFibers /\ SlotsAccounted

-----------------------------------------------------------------------------
(* Lemmas about the helpers. *)

\* Every subset of the fibers is finite and has a cardinality.
LEMMA HeldByFinite ==
    \A w : IsFiniteSet(HeldBy(w)) /\ Cardinality(HeldBy(w)) \in Nat
  BY FS_Subset, FS_CardinalityType, RuntimeAssumption DEF HeldBy, RuntimeAssumption

\* The free slots of a type are counted by a natural number, and so is the
\* batch that is asked for.
LEMMA BatchSizeType == \A t \in JobType : BatchSize(t) \in Nat
<1> SUFFICES ASSUME NEW t \in JobType PROVE BatchSize(t) \in Nat
  OBVIOUS
<1> DEFINE Pairs == Worker \X (0 .. Cardinality(Fiber))
           Free  == { p \in Pairs : /\ t \in types[p[1]]
                                    /\ active[p[1]] <= p[2] /\ p[2] < Capacity[p[1]] }
<1>1. IsFiniteSet(0 .. Cardinality(Fiber))
  BY FS_CardinalityType, FS_Interval, RuntimeAssumption DEF RuntimeAssumption
<1>2. IsFiniteSet(Pairs)
  BY <1>1, FS_Product, RuntimeAssumption DEF RuntimeAssumption
<1>3. Cardinality(Free) \in Nat
  <2>1. Free \in SUBSET Pairs
    OBVIOUS
  <2>2. IsFiniteSet(Free)
    BY <1>2, <2>1, FS_Subset
  <2>3. QED
    BY <2>2, FS_CardinalityType
<1>4. FreeSlots(t) \in Nat
  BY <1>3 DEF FreeSlots
<1>5. QED
  BY <1>4, RuntimeAssumption DEF BatchSize, RuntimeAssumption

\* Taking an entry from the lot leaves a sequence of activations.
LEMMA WithoutType ==
    ASSUME TypeOK, NEW i \in DOMAIN parked
    PROVE  Without(i) \in Seq(Activation) /\ parked[i] \in Activation
<1>1. parked \in Seq(Activation) /\ i \in 1 .. Len(parked)
  BY LenProperties DEF TypeOK, LoopOK
<1>2. \A k \in 1 .. Len(parked) : parked[k] \in Activation
  BY <1>1, ElementOfSeq
<1>3. Len(parked) \in Nat
  BY <1>1, LenProperties
<1>4. SubSeq(parked, 1, i - 1) \in Seq(Activation)
  BY <1>1, <1>2, <1>3, SubSeqProperties
<1>5. SubSeq(parked, i + 1, Len(parked)) \in Seq(Activation)
  BY <1>1, <1>2, <1>3, SubSeqProperties
<1>6. QED
  BY <1>1, <1>2, <1>4, <1>5, ConcatProperties DEF Without, RemoveAt

-----------------------------------------------------------------------------
(* What the three ways to change the fibers do to the invariant. *)

\* Claiming a slot and forking a fiber keeps the accounting exact.
LEMMA ClaimInv ==
    ASSUME IInv, NEW a \in Activation, ClaimAndFork(a)
    PROVE  RegistryOK' /\ FibersOK' /\ LiveFibers' /\ SlotsAccounted'
<1>1. PICK w \in Worker, f \in Fiber :
        /\ CanClaim(w, TypeOf[a.job])
        /\ ~Live(f)
        /\ active' = [active EXCEPT ![w] = @ + 1]
        /\ phase' = [phase EXCEPT ![f] = "extending"]
        /\ task' = [task EXCEPT ![f] = a]
        /\ slot' = [slot EXCEPT ![f] = w]
        /\ UNCHANGED <<types, quiescing, leaked>>
  BY DEF ClaimAndFork
<1> USE DEF IInv, TypeOK, RegistryOK, FibersOK
<1>2. RegistryOK'
  BY <1>1 DEF RegistryOK
<1>3. FibersOK'
  BY <1>1 DEF FibersOK
<1>4. LiveFibers'
  BY <1>1 DEF LiveFibers, Live
<1>5. HeldBy(w)' = HeldBy(w) \cup {f} /\ f \notin HeldBy(w)
  BY <1>1 DEF HeldBy, Live
<1>6. \A v \in Worker \ {w} : HeldBy(v)' = HeldBy(v)
  BY <1>1 DEF HeldBy, Live
<1>7. Cardinality(HeldBy(w)') = Cardinality(HeldBy(w)) + 1
  BY <1>5, HeldByFinite, FS_AddElement
<1>8. \A v \in Worker : active'[v] = Cardinality(HeldBy(v)') + leaked'[v]
  BY <1>1, <1>6, <1>7, HeldByFinite DEF SlotsAccounted
<1>9. \A v \in Worker : active'[v] <= Capacity[v]
  <2>1. \A v \in Worker : active[v] \in Nat /\ Capacity[v] \in Nat /\ active[v] <= Capacity[v]
    BY RuntimeAssumption DEF SlotsAccounted, RuntimeAssumption
  <2>2. QED
    BY <1>1, <2>1 DEF CanClaim
<1>10. QED
  BY <1>2, <1>3, <1>4, <1>8, <1>9 DEF SlotsAccounted

\* Ending a fiber gives back exactly the slot it held.
LEMMA EndInv ==
    ASSUME IInv, NEW f \in Fiber, Live(f), EndFiber(f)
    PROVE  RegistryOK' /\ FibersOK' /\ LiveFibers' /\ SlotsAccounted'
<1> USE DEF IInv, TypeOK, RegistryOK, FibersOK
<1>1. PICK w \in Worker : w = slot[f]
  BY DEF LiveFibers
<1>2. RegistryOK'
  BY <1>1 DEF RegistryOK, EndFiber, Vanish
<1>3. FibersOK'
  BY DEF FibersOK, EndFiber, Vanish
<1>4. LiveFibers'
  BY DEF LiveFibers, Live, EndFiber, Vanish
<1>5. HeldBy(w)' = HeldBy(w) \ {f} /\ f \in HeldBy(w)
  <2>1. f \in HeldBy(w)
    BY <1>1 DEF HeldBy
  <2>2. \A g \in Fiber : (Live(g)' /\ slot'[g] = w) <=> (Live(g) /\ slot[g] = w /\ g # f)
    BY <1>1 DEF EndFiber, Vanish, Live
  <2>3. QED
    BY <2>1, <2>2 DEF HeldBy
<1>6. \A v \in Worker \ {w} : HeldBy(v)' = HeldBy(v)
  BY <1>1 DEF HeldBy, Live, EndFiber, Vanish
<1>7. /\ Cardinality(HeldBy(w)') = Cardinality(HeldBy(w)) - 1
      /\ Cardinality(HeldBy(w)') \in Nat /\ Cardinality(HeldBy(w)) \in Nat
  BY <1>5, HeldByFinite, FS_RemoveElement, FS_CardinalityType
<1>8. \A v \in Worker : active'[v] = Cardinality(HeldBy(v)') + leaked'[v]
  <2>1. active[w] = Cardinality(HeldBy(w)) + leaked[w] /\ leaked[w] \in Nat /\ leaked' = leaked
    BY <1>1 DEF SlotsAccounted, EndFiber
  <2>2. active'[w] = active[w] - 1
    BY <1>1, <1>7, <2>1 DEF EndFiber
  <2>3. \A v \in Worker \ {w} : active'[v] = active[v]
    BY <1>1 DEF EndFiber
  <2>4. QED
    BY <1>6, <1>7, <2>1, <2>2, <2>3 DEF SlotsAccounted
<1>9. \A v \in Worker : active'[v] <= Capacity[v]
  <2>1. \A v \in Worker : active[v] \in Nat /\ Capacity[v] \in Nat /\ active[v] <= Capacity[v]
    BY RuntimeAssumption DEF SlotsAccounted, RuntimeAssumption
  <2>2. QED
    BY <1>1, <2>1 DEF EndFiber
<1>10. QED
  BY <1>2, <1>3, <1>4, <1>8, <1>9 DEF SlotsAccounted

\* A fiber that dies in the winner's extend moves its slot to the leaked ones.
LEMMA DiesInv ==
    ASSUME IInv, NEW f \in Fiber, ExtendDies(f)
    PROVE  RegistryOK' /\ FibersOK' /\ LiveFibers' /\ SlotsAccounted'
<1> USE DEF IInv, TypeOK, RegistryOK, FibersOK
<1>1. PICK w \in Worker : w = slot[f]
  BY DEF LiveFibers, ExtendDies, Live
<1>2. RegistryOK'
  BY DEF RegistryOK, ExtendDies, registryVars
<1>3. FibersOK'
  BY <1>1 DEF FibersOK, ExtendDies, Vanish
<1>4. LiveFibers'
  BY DEF LiveFibers, Live, ExtendDies, Vanish
<1>5. HeldBy(w)' = HeldBy(w) \ {f} /\ f \in HeldBy(w)
  <2>1. f \in HeldBy(w)
    BY <1>1 DEF HeldBy, ExtendDies, Live
  <2>2. \A g \in Fiber : (Live(g)' /\ slot'[g] = w) <=> (Live(g) /\ slot[g] = w /\ g # f)
    BY <1>1 DEF ExtendDies, Vanish, Live
  <2>3. QED
    BY <2>1, <2>2 DEF HeldBy
<1>6. \A v \in Worker \ {w} : HeldBy(v)' = HeldBy(v)
  BY <1>1 DEF HeldBy, Live, ExtendDies, Vanish
<1>7. /\ Cardinality(HeldBy(w)') = Cardinality(HeldBy(w)) - 1
      /\ Cardinality(HeldBy(w)') \in Nat /\ Cardinality(HeldBy(w)) \in Nat
  BY <1>5, HeldByFinite, FS_RemoveElement, FS_CardinalityType
<1>8. /\ active' = active /\ leaked'[w] = leaked[w] + 1
      /\ \A v \in Worker \ {w} : leaked'[v] = leaked[v]
  BY <1>1 DEF ExtendDies, registryVars
<1>9. SlotsAccounted'
  BY <1>6, <1>7, <1>8 DEF SlotsAccounted
<1>10. QED
  BY <1>2, <1>3, <1>4, <1>9

\* Interrupting the runtime releases the guarded slots and leaks the others.
LEMMA InterruptInv ==
    ASSUME IInv, InterruptRuntime
    PROVE  RegistryOK' /\ FibersOK' /\ LiveFibers' /\ SlotsAccounted'
<1> USE DEF IInv, TypeOK, RegistryOK, FibersOK, InterruptRuntime
<1>1. ASSUME NEW w \in Worker
      PROVE  /\ Cardinality(Guarded(w)) \in Nat /\ Cardinality(Unguarded(w)) \in Nat
             /\ Cardinality(HeldBy(w)) = Cardinality(Guarded(w)) + Cardinality(Unguarded(w))
  <2>1. IsFiniteSet(Guarded(w)) /\ IsFiniteSet(Unguarded(w))
    BY FS_Subset, RuntimeAssumption DEF Guarded, Unguarded, RuntimeAssumption
  <2>2. Guarded(w) \cap Unguarded(w) = {}
    BY DEF Guarded, Unguarded, HoldsRun
  <2>3. HeldBy(w) = Guarded(w) \cup Unguarded(w)
    BY DEF HeldBy, Guarded, Unguarded, HoldsRun, Live
  <2>4. Cardinality(Guarded(w)) \in Nat /\ Cardinality(Unguarded(w)) \in Nat
    BY <2>1, FS_CardinalityType
  <2>5. Cardinality(HeldBy(w)) = Cardinality(Guarded(w)) + Cardinality(Unguarded(w))
                                 - Cardinality(Guarded(w) \cap Unguarded(w))
    BY <2>1, <2>3, FS_Union
  <2>6. Cardinality(Guarded(w) \cap Unguarded(w)) = 0
    BY <2>2, FS_EmptySet
  <2>7. QED
    BY <2>4, <2>5, <2>6
<1>2. \A w \in Worker : active'[w] = leaked'[w] /\ active'[w] \in Nat /\ active'[w] <= active[w]
  BY <1>1 DEF SlotsAccounted
<1>3. RegistryOK'
  BY <1>2 DEF RegistryOK
<1>4. FibersOK'
  BY <1>1 DEF FibersOK
<1>5. \A f \in Fiber : ~Live(f)'
  BY DEF Live
<1>6. LiveFibers'
  BY <1>5 DEF LiveFibers
<1>7. SlotsAccounted'
  <2>1. \A w \in Worker : HeldBy(w)' = {}
    BY <1>5 DEF HeldBy
  <2>2. \A w \in Worker : Cardinality(HeldBy(w)') = 0
    BY <2>1, FS_EmptySet
  <2>3. \A w \in Worker : active'[w] <= Capacity[w]
    BY <1>2, RuntimeAssumption DEF SlotsAccounted, RuntimeAssumption
  <2>4. QED
    BY <1>2, <2>2, <2>3 DEF SlotsAccounted
<1>8. QED
  BY <1>3, <1>4, <1>6, <1>7

\* A change of phase of a live fiber that stays live moves no slot.
LEMMA PhaseInv ==
    ASSUME IInv, NEW f \in Fiber, Live(f), NEW p \in {"running", "settling", "shedding"},
           phase' = [phase EXCEPT ![f] = p], UNCHANGED <<task, slot, active, leaked>>
    PROVE  LiveFibers' /\ SlotsAccounted'
<1> USE DEF IInv, TypeOK, RegistryOK, FibersOK
<1>1. \A g \in Fiber : Live(g)' <=> Live(g)
  BY DEF Live
<1>2. LiveFibers'
  BY <1>1 DEF LiveFibers
<1>3. \A w \in Worker : HeldBy(w)' = HeldBy(w)
  BY <1>1 DEF HeldBy
<1>4. SlotsAccounted'
  BY <1>3 DEF SlotsAccounted
<1>5. QED
  BY <1>2, <1>4

-----------------------------------------------------------------------------
(* The steps. *)

\* A step that changes neither fibers nor counts keeps the accounting.
LEMMA AccountingUntouched ==
    ASSUME IInv, UNCHANGED <<active, fiberVars>>
    PROVE  FibersOK' /\ LiveFibers' /\ SlotsAccounted'
<1> USE DEF IInv, TypeOK, RegistryOK, FibersOK, fiberVars
<1>1. FibersOK'
  BY DEF FibersOK
<1>2. LiveFibers'
  BY DEF LiveFibers, Live
<1>3. \A w \in Worker : HeldBy(w)' = HeldBy(w)
  BY DEF HeldBy, Live
<1>4. SlotsAccounted'
  BY <1>3 DEF SlotsAccounted
<1>5. QED
  BY <1>1, <1>2, <1>4

\* The activation loop, the registry and the parking lot.
LEMMA LoopStep ==
    ASSUME IInv,
           \/ TickRead \/ TickPromote \/ StartPolls
           \/ \E t \in JobType : PollWins(t) \/ ReplyLost(t)
           \/ \E a \in batch : DispatchOne(a)
           \/ \E i \in DOMAIN parked : ParkedExpires(i)
           \/ \E T \in Demand : Retype(T)
    PROVE  IInv'
<1> USE DEF TypeOK
<1>1. CASE TickRead
  <2>1. LoopOK' /\ ShellOK' /\ RegistryOK'
    BY <1>1, BatchSizeType DEF TickRead, IInv, LoopOK, ShellOK, RegistryOK, registryVars
  <2>2. QED
    BY <1>1, <2>1, AccountingUntouched DEF TickRead, IInv, registryVars
<1>2. CASE TickPromote
  <2>1. PICK i \in DOMAIN parked :
          \/ /\ ClaimAndFork(parked[i])
             /\ parked' = Without(i)
          \/ /\ parked' = Append(Without(i), parked[i])
             /\ UNCHANGED <<registryVars, fiberVars>>
    BY <1>2 DEF TickPromote
  <2>2. Without(i) \in Seq(Activation) /\ parked[i] \in Activation
    BY WithoutType DEF IInv
  <2>3. Append(Without(i), parked[i]) \in Seq(Activation)
    BY <2>2, AppendProperties
  <2>4. LoopOK'
    BY <1>2, <2>1, <2>2, <2>3 DEF TickPromote, IInv, LoopOK
  <2>5. ShellOK'
    BY <1>2 DEF TickPromote, IInv, ShellOK
  <2>6. RegistryOK' /\ FibersOK' /\ LiveFibers' /\ SlotsAccounted'
    <3>1. CASE ClaimAndFork(parked[i])
      BY <2>2, <3>1, ClaimInv
    <3>2. CASE UNCHANGED <<registryVars, fiberVars>>
      BY <3>2, AccountingUntouched DEF IInv, RegistryOK, registryVars
    <3>3. QED
      BY <2>1, <3>1, <3>2
  <2>7. QED
    BY <2>4, <2>5, <2>6 DEF IInv
<1>3. CASE StartPolls
  <2>1. LoopOK' /\ ShellOK' /\ RegistryOK'
    BY <1>3 DEF StartPolls, IInv, LoopOK, ShellOK, RegistryOK, registryVars
  <2>2. QED
    BY <1>3, <2>1, AccountingUntouched DEF StartPolls, IInv, registryVars
<1>4. ASSUME NEW t \in JobType, PollWins(t) \/ ReplyLost(t) PROVE IInv'
  <2>1. LoopOK' /\ ShellOK' /\ RegistryOK'
    BY <1>4 DEF PollWins, ReplyLost, IInv, LoopOK, ShellOK, RegistryOK, registryVars
  <2>2. QED
    BY <1>4, <2>1, AccountingUntouched DEF PollWins, ReplyLost, IInv, registryVars
<1>5. ASSUME NEW a \in batch, DispatchOne(a) PROVE IInv'
  <2>1. a \in Activation /\ parked \in Seq(Activation)
    BY DEF IInv, LoopOK
  <2>2. Append(parked, a) \in Seq(Activation)
    BY <2>1, AppendProperties
  <2>3. LoopOK'
    BY <1>5, <2>1, <2>2 DEF DispatchOne, IInv, LoopOK
  <2>4. ShellOK'
    BY <1>5 DEF DispatchOne, IInv, ShellOK
  <2>5. RegistryOK' /\ FibersOK' /\ LiveFibers' /\ SlotsAccounted'
    <3>1. CASE ClaimAndFork(a)
      BY <2>1, <3>1, ClaimInv
    <3>2. CASE UNCHANGED <<registryVars, fiberVars>>
      BY <3>2, AccountingUntouched DEF IInv, RegistryOK, registryVars
    <3>3. QED
      BY <1>5, <3>1, <3>2 DEF DispatchOne
  <2>6. QED
    BY <2>3, <2>4, <2>5 DEF IInv
<1>6. ASSUME NEW i \in DOMAIN parked, ParkedExpires(i) PROVE IInv'
  <2>1. Without(i) \in Seq(Activation)
    BY WithoutType DEF IInv
  <2>2. LoopOK' /\ ShellOK' /\ RegistryOK'
    BY <1>6, <2>1 DEF ParkedExpires, IInv, LoopOK, ShellOK, RegistryOK, registryVars
  <2>3. QED
    BY <1>6, <2>2, AccountingUntouched DEF ParkedExpires, IInv, registryVars
<1>7. ASSUME NEW T \in Demand, Retype(T) PROVE IInv'
  <2>1. T \in SUBSET JobType
    BY RuntimeAssumption DEF RuntimeAssumption
  <2>2. LoopOK' /\ ShellOK' /\ RegistryOK'
    BY <1>7, <2>1 DEF Retype, IInv, LoopOK, ShellOK, RegistryOK, loopVars
  <2>3. QED
    BY <1>7, <2>2, AccountingUntouched DEF Retype, IInv
<1>8. QED
  BY <1>1, <1>2, <1>3, <1>4, <1>5, <1>6, <1>7

\* What is left of interrupted runs.
LEMMA CutRunsType == ASSUME IInv, NEW F \in SUBSET Fiber PROVE CutRuns(F) \subseteq CutRun
<1>1. ASSUME NEW f \in F, phase[f] \in {"running", "settling"} PROVE Cut(f) \in CutRun
  BY <1>1 DEF IInv, LiveFibers, Live, Cut, CutRun, Activation
<1>2. QED
  BY <1>1 DEF CutRuns

\* One dispatch fiber.
LEMMA FiberStep ==
    ASSUME IInv, NEW f \in Fiber, RunFiber(f)
    PROVE  IInv'
<1> USE DEF TypeOK
<1>1. task[f] \in Activation \cup {NoTask} /\ (Live(f) => task[f] \in Activation)
  BY DEF IInv, FibersOK, LiveFibers
<1>2. CASE StartRun(f)
  <2>1. Live(f)
    BY <1>2 DEF StartRun, Live
  <2>2. task[f].job \in Job /\ task[f].token \in Token
    BY <1>1, <2>1 DEF Activation
  <2>3. LoopOK' /\ ShellOK' /\ RegistryOK' /\ FibersOK'
    BY <1>2, <2>2
    DEF StartRun, IInv, LoopOK, ShellOK, RegistryOK, FibersOK, registryVars, loopVars
  <2>4. LiveFibers' /\ SlotsAccounted'
    BY <1>2, <2>1, PhaseInv DEF StartRun, registryVars
  <2>5. QED
    BY <2>3, <2>4 DEF IInv
<1>3. CASE ExtendFails(f)
  <2>1. Live(f) /\ EndFiber(f)
    BY <1>3 DEF ExtendFails, Live
  <2>2. RegistryOK' /\ FibersOK' /\ LiveFibers' /\ SlotsAccounted'
    BY <2>1, EndInv
  <2>3. LoopOK' /\ ShellOK'
    BY <1>3 DEF ExtendFails, IInv, LoopOK, ShellOK, loopVars
  <2>4. QED
    BY <2>2, <2>3 DEF IInv
<1>4. CASE Settle(f)
  <2>1. Live(f)
    BY <1>4 DEF Settle, Live
  <2>2. wire' \subseteq Request
    BY <1>1, <1>4, <2>1 DEF Settle, Activation, Request, IInv, ShellOK
  <2>3. LoopOK' /\ ShellOK' /\ RegistryOK' /\ FibersOK'
    BY <1>4, <2>2
    DEF Settle, IInv, LoopOK, ShellOK, RegistryOK, FibersOK, registryVars, loopVars
  <2>4. LiveFibers' /\ SlotsAccounted'
    BY <1>4, <2>1, PhaseInv DEF Settle, registryVars
  <2>5. QED
    BY <2>3, <2>4 DEF IInv
<1>5. CASE RunEnds(f)
  <2>1. Live(f) /\ EndFiber(f)
    BY <1>5 DEF RunEnds, Live
  <2>2. RegistryOK' /\ FibersOK' /\ LiveFibers' /\ SlotsAccounted'
    BY <2>1, EndInv
  <2>3. LoopOK' /\ ShellOK'
    BY <1>5 DEF RunEnds, JobEnded, IInv, LoopOK, ShellOK, loopVars
  <2>4. QED
    BY <2>2, <2>3 DEF IInv
<1>6. CASE LockLost(f)
  <2>1. Live(f) /\ EndFiber(f)
    BY <1>6 DEF LockLost, Live, HoldsRun
  <2>2. RegistryOK' /\ FibersOK' /\ LiveFibers' /\ SlotsAccounted'
    BY <2>1, EndInv
  <2>3. CutRuns({f}) \subseteq CutRun
    BY CutRunsType
  <2>4. LoopOK' /\ ShellOK'
    BY <1>6, <2>3 DEF LockLost, IInv, LoopOK, ShellOK, loopVars
  <2>5. QED
    BY <2>2, <2>4 DEF IInv
<1>7. CASE ExtendDies(f)
  <2>1. LoopOK' /\ ShellOK'
    BY <1>7 DEF ExtendDies, IInv, LoopOK, ShellOK, loopVars
  <2>2. QED
    BY <1>7, <2>1, DiesInv DEF IInv
<1>8. CASE SetupFails(f)
  <2>1. Live(f)
    BY <1>8 DEF SetupFails, Live
  <2>2. wire' \subseteq Request
    BY <1>1, <1>8, <2>1 DEF SetupFails, Activation, Request, IInv, ShellOK
  <2>3. LoopOK' /\ RegistryOK' /\ FibersOK'
    BY <1>8 DEF SetupFails, IInv, LoopOK, RegistryOK, FibersOK, registryVars, loopVars
  <2>4. ShellOK'
    BY <1>8, <2>2 DEF SetupFails, JobEnded, IInv, ShellOK
  <2>5. LiveFibers' /\ SlotsAccounted'
    BY <1>8, <2>1, PhaseInv DEF SetupFails, registryVars
  <2>6. QED
    BY <2>3, <2>4, <2>5 DEF IInv
<1>9. CASE ShedAnswered(f)
  <2>1. Live(f) /\ EndFiber(f)
    BY <1>9 DEF ShedAnswered, Live
  <2>2. RegistryOK' /\ FibersOK' /\ LiveFibers' /\ SlotsAccounted'
    BY <2>1, EndInv
  <2>3. LoopOK' /\ ShellOK'
    BY <1>9 DEF ShedAnswered, IInv, LoopOK, ShellOK, loopVars
  <2>4. QED
    BY <2>2, <2>3 DEF IInv
<1>10. QED
  BY <1>2, <1>3, <1>4, <1>5, <1>6, <1>7, <1>8, <1>9 DEF RunFiber

\* The engine and the finally blocks: only the shell's and the engine's
\* variables change, and the answers of the polls.
LEMMA OutsideStep ==
    ASSUME IInv,
           \/ \E t \in JobType : Activate(t)
           \/ \E u \in unwinding : LateSettle(u) \/ Unwind(u)
           \/ \E j \in Job : LockLapses(j) \/ LeasedElsewhere(j)
           \/ \E m \in wire : SettleArrives(m) \/ SettleLost(m)
    PROVE  IInv'
<1> USE DEF TypeOK
<1>1. ASSUME NEW t \in JobType, Activate(t) PROVE IInv'
  <2>0. PICK S \in SUBSET { j \in Job : lock[j] = Ready /\ TypeOf[j] = t } :
          \E lease \in [S -> Token \ InUse] :
            /\ reply' = [reply EXCEPT ![t] =
                            { [job |-> j, token |-> lease[j]] : j \in S }]
            /\ lock' = [j \in Job |-> IF j \in S THEN lease[j] ELSE lock[j]]
    BY <1>1 DEF Activate
  <2>1. PICK lease \in [S -> Token \ InUse] :
          /\ reply' = [reply EXCEPT ![t] =
                          { [job |-> j, token |-> lease[j]] : j \in S }]
          /\ lock' = [j \in Job |-> IF j \in S THEN lease[j] ELSE lock[j]]
    BY <2>0
  <2>2. { [job |-> j, token |-> lease[j]] : j \in S } \subseteq Activation
    BY DEF Activation
  <2>3. LoopOK'
    BY <1>1, <2>1, <2>2 DEF Activate, IInv, LoopOK
  <2>4. lock' \in [Job -> Token \cup {Ready, Done, Elsewhere}]
    BY <2>1 DEF IInv, ShellOK
  <2>5. ShellOK' /\ RegistryOK'
    BY <1>1, <2>4 DEF Activate, IInv, ShellOK, RegistryOK, registryVars
  <2>6. QED
    BY <1>1, <2>3, <2>5, AccountingUntouched DEF Activate, IInv, registryVars
<1>2. ASSUME NEW u \in unwinding, LateSettle(u) \/ Unwind(u) PROVE IInv'
  <2>1. CASE LateSettle(u)
    <3>1. u \in CutRun /\ unwinding \subseteq CutRun /\ wire \subseteq Request
      BY <1>2 DEF IInv, ShellOK
    <3>2. [u EXCEPT !.sent = TRUE] \in CutRun /\ u.job \in Job /\ u.token \in Token
      BY <3>1 DEF CutRun
    <3>3. unwinding' \subseteq CutRun
      BY <2>1, <3>1, <3>2 DEF LateSettle
    <3>4. PICK k \in {"complete", "fail"} :
            wire' = wire \cup {[kind |-> k, job |-> u.job, token |-> u.token]}
      BY <2>1 DEF LateSettle
    <3>5. [kind |-> k, job |-> u.job, token |-> u.token] \in Request
      BY <3>2 DEF Request
    <3>6. wire' \subseteq Request
      BY <3>1, <3>4, <3>5
    <3>7. LoopOK' /\ ShellOK' /\ RegistryOK'
      BY <2>1, <3>3, <3>6 DEF LateSettle, IInv, LoopOK, ShellOK, RegistryOK, registryVars, loopVars
    <3>8. QED
      BY <2>1, <3>7, AccountingUntouched DEF LateSettle, IInv, registryVars
  <2>2. CASE Unwind(u)
    <3>1. LoopOK' /\ ShellOK' /\ RegistryOK'
      BY <2>2 DEF Unwind, JobEnded, IInv, LoopOK, ShellOK, RegistryOK, registryVars, loopVars
    <3>2. QED
      BY <2>2, <3>1, AccountingUntouched DEF Unwind, IInv, registryVars
  <2>3. QED
    BY <1>2, <2>1, <2>2
<1>3. ASSUME NEW j \in Job, LockLapses(j) \/ LeasedElsewhere(j) PROVE IInv'
  <2>1. LoopOK' /\ ShellOK' /\ RegistryOK'
    BY <1>3 DEF LockLapses, LeasedElsewhere, IInv, LoopOK, ShellOK, RegistryOK,
                registryVars, loopVars
  <2>2. QED
    BY <1>3, <2>1, AccountingUntouched DEF LockLapses, LeasedElsewhere, IInv, registryVars
<1>4. ASSUME NEW m \in wire, SettleArrives(m) \/ SettleLost(m) PROVE IInv'
  <2>1. LoopOK' /\ ShellOK' /\ RegistryOK'
    BY <1>4 DEF SettleArrives, SettleLost, IInv, LoopOK, ShellOK, RegistryOK,
                registryVars, loopVars
  <2>2. QED
    BY <1>4, <2>1, AccountingUntouched DEF SettleArrives, SettleLost, IInv, registryVars
<1>5. QED
  BY <1>1, <1>2, <1>3, <1>4

\* The stop modes.
LEMMA StopStep ==
    ASSUME IInv,
           \/ GracefulDrain \/ DrainExit \/ ForceAbort \/ AbortExit
           \/ \E a \in yields : YieldJob(a)
    PROVE  IInv'
<1> USE DEF TypeOK
<1>1. CASE GracefulDrain
  <2>1. quiescing' \in BOOLEAN
    BY <1>1, Zenon DEF GracefulDrain
  <2>2. LoopOK' /\ ShellOK' /\ RegistryOK'
    BY <1>1, <2>1 DEF GracefulDrain, IInv, LoopOK, ShellOK, RegistryOK, loopVars
  <2>3. QED
    BY <1>1, <2>2, AccountingUntouched DEF GracefulDrain, IInv
<1>2. CASE DrainExit \/ ForceAbort
  <2>1. InterruptRuntime
    BY <1>2 DEF DrainExit, ForceAbort
  <2>2. RegistryOK' /\ FibersOK' /\ LiveFibers' /\ SlotsAccounted'
    BY <2>1, InterruptInv
  <2>3. LoopOK'
    BY <2>1, EmptySeq DEF InterruptRuntime, LoopOK
  <2>4. unwinding' \subseteq CutRun
    <3>1. CutRuns(Fiber) \subseteq CutRun
      BY CutRunsType
    <3>2. QED
      BY <2>1, <3>1 DEF InterruptRuntime, IInv, ShellOK
  <2>5. yields' \subseteq Activation
    BY <1>2 DEF DrainExit, ForceAbort, IInv, ShellOK, Activation
  <2>6. ShellOK'
    BY <1>2, <2>4, <2>5 DEF DrainExit, ForceAbort, IInv, ShellOK
  <2>7. QED
    BY <2>2, <2>3, <2>6 DEF IInv
<1>3. CASE AbortExit
  <2>1. LoopOK' /\ ShellOK' /\ RegistryOK'
    BY <1>3 DEF AbortExit, IInv, LoopOK, ShellOK, RegistryOK, loopVars, registryVars
  <2>2. QED
    BY <1>3, <2>1, AccountingUntouched DEF AbortExit, IInv, registryVars
<1>4. ASSUME NEW a \in yields, YieldJob(a) PROVE IInv'
  <2>1. wire' \subseteq Request
    BY <1>4 DEF YieldJob, IInv, ShellOK, Activation, Request
  <2>2. LoopOK' /\ ShellOK' /\ RegistryOK'
    BY <1>4, <2>1 DEF YieldJob, IInv, LoopOK, ShellOK, RegistryOK, loopVars, registryVars
  <2>3. QED
    BY <1>4, <2>2, AccountingUntouched DEF YieldJob, IInv, registryVars
<1>5. QED
  BY <1>1, <1>2, <1>3, <1>4

\* The initial state: no fiber is live, no slot is taken.
LEMMA InitIInv == Init => IInv
<1> SUFFICES ASSUME Init PROVE IInv
  OBVIOUS
<1> USE RuntimeAssumption DEF TypeOK, Init, RuntimeAssumption
<1>1. quiescing \in BOOLEAN
  BY Zenon
<1>2. RegistryOK /\ ShellOK
  BY <1>1 DEF RegistryOK, ShellOK
<1>3. FibersOK
  BY DEF FibersOK
<1>4. LoopOK
  BY EmptySeq DEF LoopOK
<1>5. LiveFibers
  BY DEF LiveFibers, Live
<1>6. \A w \in Worker : HeldBy(w) = {}
  BY DEF HeldBy, Live
<1>7. SlotsAccounted
  <2>1. \A w \in Worker : active[w] = 0 /\ leaked[w] = 0 /\ Capacity[w] \in Nat /\ 0 <= Capacity[w]
    OBVIOUS
  <2>2. Cardinality({}) = 0
    BY FS_EmptySet
  <2>3. \A w \in Worker : Cardinality(HeldBy(w)) = 0
    BY <1>6, <2>2
  <2>4. QED
    BY <2>1, <2>3 DEF SlotsAccounted
<1>8. QED
  BY <1>2, <1>3, <1>4, <1>5, <1>7 DEF IInv

\* Every step preserves the invariant.
LEMMA NextIInv == IInv /\ [Next]_vars => IInv'
<1> SUFFICES ASSUME IInv, [Next]_vars PROVE IInv'
  OBVIOUS
<1>1. CASE UNCHANGED vars
  <2>1. LoopOK' /\ ShellOK' /\ RegistryOK'
    BY <1>1 DEF TypeOK, vars, IInv, LoopOK, ShellOK, RegistryOK, loopVars, registryVars
  <2>2. QED
    BY <1>1, <2>1, AccountingUntouched DEF TypeOK, vars, IInv, registryVars
<1>2. CASE Next
  BY <1>2, LoopStep, FiberStep, OutsideStep, StopStep DEF Next
<1>3. QED
  BY <1>1, <1>2

\* The invariant holds throughout.
LEMMA SpecIInv == Spec => []IInv
<1>1. Init => IInv
  BY InitIInv
<1>2. IInv /\ [Next]_vars => IInv'
  BY NextIInv
<1>3. QED
  BY <1>1, <1>2, PTL DEF Spec

-----------------------------------------------------------------------------
(* One carrier for each activation, and the record of the run that holds   *)
(* the lease.  The second rests on the first: a run that ends drops the     *)
(* record of its own token, which must not be the holder's.  Neither is     *)
(* inductive without the interrupted runs, which still have an activation   *)
(* although no fiber carries it.                                            *)

\* The activation of an interrupted run.
CutOf(u) == [job |-> u.job, token |-> u.token]

\* Nothing that is still carried or waits is also unwinding, and a job of
\* the batch is in no answer.
CutApart ==
    /\ \A a \in batch : ~InReply(a)
    /\ \A u \in unwinding :
         /\ ~InReply(CutOf(u)) /\ CutOf(u) \notin batch /\ ~InLot(CutOf(u))
         /\ \A f \in Fiber : Live(f) => task[f] # CutOf(u)

CInv == IInv /\ CarriedOnce /\ CutApart

\* An entry that is taken from a lot without repetition is no longer in it,
\* and the rest has no repetition.
LEMMA RemoveOnce ==
    ASSUME NEW S, NEW s \in Seq(S), NEW i \in DOMAIN s,
           \A m, n \in DOMAIN s : s[m] = s[n] => m = n
    PROVE  LET r == RemoveAt(s, i)
           IN  /\ \A m, n \in DOMAIN r : r[m] = r[n] => m = n
               /\ \A m \in DOMAIN r : r[m] # s[i] /\ \E n \in DOMAIN s : r[m] = s[n]
<1> DEFINE r == RemoveAt(s, i)
           N == Len(s)
<1>1. N \in Nat /\ DOMAIN s = 1 .. N /\ i \in 1 .. N /\ \A k \in 1 .. N : s[k] \in S
  BY LenProperties, ElementOfSeq
<1>2. /\ SubSeq(s, 1, i - 1) \in Seq(S) /\ Len(SubSeq(s, 1, i - 1)) = i - 1
      /\ \A k \in 1 .. i - 1 : SubSeq(s, 1, i - 1)[k] = s[k]
  BY <1>1, SubSeqProperties
<1>3. /\ SubSeq(s, i + 1, N) \in Seq(S) /\ Len(SubSeq(s, i + 1, N)) = N - i
      /\ \A k \in 1 .. N - i : SubSeq(s, i + 1, N)[k] = s[k + i]
  <2>1. i + 1 \in Int /\ N \in Int /\ \A k \in i + 1 .. N : s[k] \in S
    BY <1>1
  <2>2. /\ SubSeq(s, i + 1, N) \in Seq(S)
        /\ Len(SubSeq(s, i + 1, N)) = IF i + 1 <= N THEN N - (i + 1) + 1 ELSE 0
        /\ \A k \in 1 .. N - (i + 1) + 1 : SubSeq(s, i + 1, N)[k] = s[(i + 1) + k - 1]
    BY <2>1, SubSeqProperties
  <2> QED BY <1>1, <2>2
<1> HIDE DEF N
<1> DEFINE p == SubSeq(s, 1, i - 1)
           q == SubSeq(s, i + 1, N)
<1>4. /\ p \in Seq(S) /\ Len(p) = i - 1 /\ \A k \in 1 .. i - 1 : p[k] = s[k]
      /\ q \in Seq(S) /\ Len(q) = N - i /\ \A k \in 1 .. N - i : q[k] = s[k + i]
  BY <1>2, <1>3
<1>5. r = p \o q
  BY DEF RemoveAt, N
<1> HIDE DEF r, p, q
<1>6. /\ r \in Seq(S) /\ Len(r) = Len(p) + Len(q)
      /\ \A k \in 1 .. Len(p) + Len(q) : r[k] = IF k <= Len(p) THEN p[k] ELSE q[k - Len(p)]
  BY <1>4, <1>5, ConcatProperties
<1>7. DOMAIN r = 1 .. N - 1
  <2>1. DOMAIN r = 1 .. Len(r)
    BY <1>6, LenProperties
  <2> QED BY <1>1, <1>4, <1>6, <2>1
<1>8. \A k \in 1 .. N - 1 : r[k] = IF k < i THEN s[k] ELSE s[k + 1]
  <2> SUFFICES ASSUME NEW k \in 1 .. N - 1 PROVE r[k] = IF k < i THEN s[k] ELSE s[k + 1]
    OBVIOUS
  <2>1. CASE k < i
    BY <1>1, <1>4, <1>6, <2>1
  <2>2. CASE ~(k < i)
    <3>1. r[k] = q[k - (i - 1)]
      BY <1>1, <1>4, <1>6, <2>2
    <3>2. k - (i - 1) \in 1 .. N - i
      BY <1>1, <2>2
    <3>3. q[k - (i - 1)] = s[(k - (i - 1)) + i]
      BY <1>4, <3>2
    <3>4. (k - (i - 1)) + i = k + 1
      BY <1>1
    <3> QED BY <2>2, <3>1, <3>3, <3>4
  <2> QED BY <2>1, <2>2
<1>9. ASSUME NEW m \in DOMAIN r
      PROVE  \E n \in 1 .. N : n # i /\ r[m] = s[n] /\ n = IF m < i THEN m ELSE m + 1
  BY <1>1, <1>7, <1>8
<1>10. \A m, n \in DOMAIN r : r[m] = r[n] => m = n
  BY <1>1, <1>7, <1>9
<1>11. \A m \in DOMAIN r : r[m] # s[i] /\ \E n \in DOMAIN s : r[m] = s[n]
  BY <1>1, <1>9
<1> QED BY <1>10, <1>11 DEF r

\* An entry that is put behind a lot it is not in.
LEMMA AppendOnce ==
    ASSUME NEW S, NEW s \in Seq(S), NEW e \in S,
           \A m, n \in DOMAIN s : s[m] = s[n] => m = n,
           \A m \in DOMAIN s : s[m] # e
    PROVE  LET r == Append(s, e)
           IN  /\ \A m, n \in DOMAIN r : r[m] = r[n] => m = n
               /\ \A m \in DOMAIN r : r[m] = e \/ \E n \in DOMAIN s : r[m] = s[n]
<1> DEFINE r == Append(s, e)
<1>1. /\ Len(s) \in Nat /\ DOMAIN s = 1 .. Len(s)
      /\ r \in Seq(S) /\ Len(r) = Len(s) + 1
      /\ \A k \in 1 .. Len(s) : r[k] = s[k]
      /\ r[Len(s) + 1] = e
  BY LenProperties, AppendProperties
<1>2. DOMAIN r = 1 .. Len(s) + 1
  BY <1>1, LenProperties
<1> HIDE DEF r
<1> QED BY <1>1, <1>2 DEF r

\* What a step leaves to every carrier: nothing is carried, answered, parked
\* or unwound that was not before.
Fewer ==
    /\ \A f \in Fiber : Live(f)' => Live(f) /\ task'[f] = task[f]
    /\ \A t \in JobType : reply'[t] \subseteq reply[t]
    /\ batch' \subseteq batch
    /\ parked' = parked
    /\ \A u \in unwinding' : \E v \in unwinding : CutOf(u) = CutOf(v)

LEMMA FewerStep ==
    ASSUME CarriedOnce, CutApart, Fewer
    PROVE  CarriedOnce' /\ CutApart'
<1>1. \A a : InReply(a)' => InReply(a)
  BY DEF Fewer, InReply
<1>2. \A a : InLot(a)' <=> InLot(a)
  BY DEF Fewer, InLot
<1>3. CarriedOnce'
  BY <1>1, <1>2 DEF CarriedOnce, Fewer
<1>4. \A a \in batch' : ~InReply(a)'
  BY <1>1 DEF CutApart, Fewer
<1>5. ASSUME NEW u \in unwinding'
      PROVE  /\ ~InReply(CutOf(u))' /\ CutOf(u) \notin batch' /\ ~InLot(CutOf(u))'
             /\ \A f \in Fiber : Live(f)' => task'[f] # CutOf(u)
  <2>1. PICK v \in unwinding : CutOf(u) = CutOf(v)
    BY DEF Fewer
  <2> QED BY <1>1, <1>2, <2>1 DEF CutApart, Fewer
<1> QED BY <1>3, <1>4, <1>5 DEF CutApart, CutOf

\* A run whose fiber ends may go on unwinding: its activation moves from the
\* one to the other.
LEMMA CutStep ==
    ASSUME IInv, CarriedOnce, CutApart, NEW f \in Fiber, Live(f), Vanish(f),
           UNCHANGED loopVars,
           unwinding' \subseteq unwinding \cup {Cut(f)}
    PROVE  CarriedOnce' /\ CutApart'
<1>1. /\ ~Live(f)'
      /\ \A g \in Fiber \ {f} : (Live(g)' <=> Live(g)) /\ task'[g] = task[g]
  BY DEF Vanish, IInv, TypeOK, FibersOK, Live
<1>2. CutOf(Cut(f)) = task[f]
  BY DEF IInv, LiveFibers, Activation, Cut, CutOf
<1>3. /\ \A a : (InReply(a)' <=> InReply(a)) /\ (InLot(a)' <=> InLot(a))
      /\ batch' = batch /\ parked' = parked
  BY DEF loopVars, InReply, InLot
<1>4. CarriedOnce'
  BY <1>1, <1>3 DEF CarriedOnce
<1>5. ASSUME NEW u \in unwinding'
      PROVE  /\ ~InReply(CutOf(u))' /\ CutOf(u) \notin batch' /\ ~InLot(CutOf(u))'
             /\ \A g \in Fiber : Live(g)' => task'[g] # CutOf(u)
  <2>1. CASE u \in unwinding
    BY <1>1, <1>3, <2>1 DEF CutApart
  <2>2. CASE u = Cut(f)
    BY <1>1, <1>2, <1>3, <2>2 DEF CarriedOnce
  <2> QED BY <2>1, <2>2
<1> QED BY <1>3, <1>4, <1>5 DEF CutApart, CutOf

\* A fork: the activation a leaves the batch or the lot for a fiber that was
\* idle.
LEMMA ForkStep ==
    ASSUME IInv, CarriedOnce, CutApart, NEW a \in Activation, ClaimAndFork(a),
           UNCHANGED <<reply, unwinding>>,
           batch' \subseteq batch, a \notin batch', ~InReply(a),
           \A m, n \in DOMAIN parked' : parked'[m] = parked'[n] => m = n,
           \A m \in DOMAIN parked' : parked'[m] # a /\ InLot(parked'[m]),
           \A g \in Fiber : Live(g) => task[g] # a,
           \A u \in unwinding : CutOf(u) # a
    PROVE  CarriedOnce' /\ CutApart'
<1>1. PICK f \in Fiber :
        /\ ~Live(f) /\ task'[f] = a
        /\ \A g \in Fiber \ {f} : (Live(g)' <=> Live(g)) /\ task'[g] = task[g]
  BY DEF ClaimAndFork, IInv, TypeOK, FibersOK, Live
<1>2. /\ \A b : (InReply(b)' <=> InReply(b)) /\ (InLot(b)' => InLot(b))
      /\ ~InLot(a)'
  BY DEF InReply, InLot
<1>3. \A g, h \in Fiber : Live(g)' /\ Live(h)' /\ task'[g] = task'[h] => g = h
  BY <1>1 DEF CarriedOnce
<1>4. \A g \in Fiber : Live(g)' => ~InReply(task[g])' /\ task'[g] \notin batch' /\ ~InLot(task[g])'
  <2> SUFFICES ASSUME NEW g \in Fiber, Live(g)'
               PROVE  ~InReply(task'[g]) /\ task'[g] \notin batch' /\ (\A m \in DOMAIN parked' : parked'[m] # task'[g])
    BY DEF InReply, InLot
  <2>1. CASE g = f
    BY <1>1, <2>1
  <2>2. CASE g # f
    BY <1>1, <2>2 DEF CarriedOnce, InLot
  <2> QED BY <2>1, <2>2
<1>5. \A m \in DOMAIN parked' : parked'[m] \notin batch' /\ ~InReply(parked[m])'
  BY DEF CarriedOnce, InReply, InLot
<1>6. CarriedOnce'
  BY <1>3, <1>4, <1>5 DEF CarriedOnce
<1>7. CutApart'
  BY <1>1, <1>2 DEF CutApart, CutOf
<1> QED BY <1>6, <1>7

\* A round that was answered: only the answers and the batch change.
LEMMA RoundStep ==
    ASSUME CInv, NEW t \in JobType, PollWins(t) \/ Activate(t) \/ ReplyLost(t)
    PROVE  CarriedOnce' /\ CutApart'
<1>1. CASE PollWins(t)
  <2>1. /\ \A a : ~InReply(a)'
        /\ \A a \in batch' : InReply(a)
        /\ parked' = parked /\ unwinding' = unwinding /\ task' = task /\ phase' = phase
    BY <1>1 DEF PollWins, InReply, fiberVars
  <2>2. CarriedOnce'
    BY <2>1 DEF CInv, CarriedOnce, InLot, Live
  <2>3. CutApart'
    BY <2>1 DEF CInv, CutApart, InLot, Live, CutOf
  <2> QED BY <2>2, <2>3
<1>2. CASE Activate(t)
  <2>1. PICK S \in SUBSET { j \in Job : lock[j] = Ready /\ TypeOf[j] = t } :
          \E lease \in [S -> Token \ InUse] :
            /\ reply' = [reply EXCEPT ![t] =
                            { [job |-> j, token |-> lease[j]] : j \in S }]
            /\ lock' = [j \in Job |-> IF j \in S THEN lease[j] ELSE lock[j]]
    BY <1>2 DEF Activate
  <2>2. PICK lease \in [S -> Token \ InUse] :
          reply' = [reply EXCEPT ![t] = { [job |-> j, token |-> lease[j]] : j \in S }]
    BY <2>1
  <2>3. batch' = batch /\ parked' = parked /\ unwinding' = unwinding /\ task' = task /\ phase' = phase
    BY <1>2 DEF Activate, fiberVars
  <2>4. \A a : InReply(a)' => InReply(a) \/ a.token \notin InUse
    BY <2>2 DEF InReply, CInv, IInv, TypeOK, LoopOK
  <2>5. /\ \A a \in batch : a.token \in InUse
        /\ \A f \in Fiber : task[f].token \in InUse
        /\ \A i \in DOMAIN parked : parked[i].token \in InUse
        /\ \A u \in unwinding : CutOf(u).token \in InUse
    BY DEF InUse, CutOf
  <2>6. CarriedOnce'
    BY <2>3, <2>4, <2>5 DEF CInv, CarriedOnce, InLot, Live
  <2>7. CutApart'
    BY <2>3, <2>4, <2>5 DEF CInv, CutApart, InLot, Live, CutOf
  <2> QED BY <2>6, <2>7
<1>3. CASE ReplyLost(t)
  <2>1. Fewer
    BY <1>3 DEF ReplyLost, Fewer, fiberVars, Live, CInv, IInv, TypeOK, LoopOK
  <2> QED BY <2>1, FewerStep DEF CInv
<1> QED BY <1>1, <1>2, <1>3

\* A job of the batch is forked or parked.
LEMMA DispatchStep ==
    ASSUME CInv, NEW a \in batch, DispatchOne(a)
    PROVE  CarriedOnce' /\ CutApart'
<1>1. a \in Activation /\ parked \in Seq(Activation)
  BY DEF CInv, IInv, TypeOK, LoopOK
<1>2. /\ batch' = batch \ {a} /\ reply' = reply /\ unwinding' = unwinding
      /\ ~InReply(a) /\ (\A u \in unwinding : CutOf(u) # a)
      /\ \A g \in Fiber : Live(g) => task[g] # a
  BY DEF DispatchOne, CInv, CutApart, CarriedOnce
<1>3. CASE ClaimAndFork(a) /\ UNCHANGED parked
  BY <1>1, <1>2, <1>3, ForkStep DEF CInv, CarriedOnce, InLot
<1>4. CASE parked' = Append(parked, a) /\ UNCHANGED <<registryVars, fiberVars>>
  <2>1. /\ \A m, n \in DOMAIN parked' : parked'[m] = parked'[n] => m = n
        /\ \A m \in DOMAIN parked' : parked'[m] = a \/ InLot(parked'[m])
    BY <1>1, <1>4, AppendOnce DEF CInv, CarriedOnce, InLot
  <2>2. \A b : (InReply(b)' <=> InReply(b)) /\ (InLot(b)' => b = a \/ InLot(b))
    BY <1>2, <2>1 DEF InReply, InLot
  <2>3. task' = task /\ \A f : Live(f)' <=> Live(f)
    BY <1>4 DEF fiberVars, Live
  <2>4. \A f \in Fiber : Live(f)' =>
            ~InReply(task[f])' /\ task'[f] \notin batch' /\ ~InLot(task[f])'
    BY <1>2, <2>2, <2>3 DEF CInv, CarriedOnce, InReply, InLot
  <2>5. \A m \in DOMAIN parked' : parked'[m] \notin batch' /\ ~InReply(parked[m])'
    BY <1>2, <2>1 DEF CInv, CarriedOnce, InReply, InLot
  <2>6. CarriedOnce'
    BY <2>1, <2>3, <2>4, <2>5 DEF CInv, CarriedOnce
  <2>7. CutApart'
    BY <1>2, <2>2, <2>3 DEF CInv, CutApart, CutOf
  <2> QED BY <2>6, <2>7
<1> QED BY <1>3, <1>4 DEF DispatchOne

\* The oldest entry of the lot is forked or put back, or an entry expires.
LEMMA LotStep ==
    ASSUME CInv, TickPromote \/ \E i \in DOMAIN parked : ParkedExpires(i)
    PROVE  CarriedOnce' /\ CutApart'
<1>1. PICK i \in DOMAIN parked :
        \/ TickPromote /\ ClaimAndFork(parked[i]) /\ parked' = Without(i)
        \/ /\ TickPromote /\ parked' = Append(Without(i), parked[i])
           /\ UNCHANGED <<registryVars, fiberVars>>
        \/ ParkedExpires(i)
  BY DEF TickPromote
<1> DEFINE a == parked[i]
           r == Without(i)
<1>2. parked \in Seq(Activation) /\ r \in Seq(Activation) /\ a \in Activation
  BY WithoutType DEF CInv, IInv, TypeOK, LoopOK
<1>3. /\ \A m, n \in DOMAIN r : r[m] = r[n] => m = n
      /\ \A m \in DOMAIN r : r[m] # a /\ InLot(r[m])
  BY <1>2, RemoveOnce DEF CInv, CarriedOnce, InLot, Without
<1>4. InLot(a)
  BY DEF InLot
<1>5. batch' = batch /\ reply' = reply /\ unwinding' = unwinding
  BY DEF TickPromote, ParkedExpires
<1>6. /\ a \notin batch /\ ~InReply(a) /\ (\A u \in unwinding : CutOf(u) # a)
      /\ \A g \in Fiber : Live(g) => task[g] # a
  BY <1>4 DEF CInv, CutApart, CarriedOnce
<1> HIDE DEF a, r
<1>8. CASE ClaimAndFork(a) /\ parked' = r
  BY <1>2, <1>3, <1>5, <1>6, <1>8, ForkStep DEF CInv
<1>9. ASSUME UNCHANGED fiberVars,
             \A m, n \in DOMAIN parked' : parked'[m] = parked'[n] => m = n,
             \A m \in DOMAIN parked' : InLot(parked'[m])
      PROVE  CarriedOnce' /\ CutApart'
  <2>1. \A b : (InReply(b)' <=> InReply(b)) /\ (InLot(b)' => InLot(b))
    BY <1>5, <1>9 DEF InReply, InLot
  <2>2. task' = task /\ \A f : Live(f)' <=> Live(f)
    BY <1>9 DEF fiberVars, Live
  <2>3. \A m \in DOMAIN parked' : parked'[m] \notin batch' /\ ~InReply(parked[m])'
    BY <1>5, <1>9 DEF CInv, CarriedOnce, InReply, InLot
  <2>4. CarriedOnce'
    BY <1>5, <1>9, <2>1, <2>2, <2>3 DEF CInv, CarriedOnce
  <2>5. CutApart'
    BY <1>5, <2>1, <2>2 DEF CInv, CutApart, CutOf
  <2> QED BY <2>4, <2>5
<1>10. CASE parked' = Append(r, a) /\ UNCHANGED <<registryVars, fiberVars>>
  <2>1. /\ \A m, n \in DOMAIN parked' : parked'[m] = parked'[n] => m = n
        /\ \A m \in DOMAIN parked' : parked'[m] = a \/ \E n \in DOMAIN r : parked'[m] = r[n]
    BY <1>2, <1>3, <1>10, AppendOnce
  <2>2. \A m \in DOMAIN parked' : InLot(parked'[m])
    BY <1>3, <1>4, <2>1
  <2> QED BY <1>9, <1>10, <2>1, <2>2
<1>11. CASE ParkedExpires(i)
  <2>1. parked' = r /\ UNCHANGED fiberVars
    BY <1>11 DEF ParkedExpires, r
  <2> QED BY <1>3, <1>9, <2>1
<1> QED BY <1>1, <1>8, <1>10, <1>11 DEF a, r

\* The other steps only take something away, or let a fiber's run unwind.
LEMMA CarrierStep == ASSUME CInv, [Next]_vars PROVE CarriedOnce' /\ CutApart'
<1> USE DEF CInv
<1>1. ASSUME UNCHANGED <<reply, batch, parked, fiberVars, unwinding>>
      PROVE  CarriedOnce' /\ CutApart'
  <2>1. Fewer
    BY <1>1 DEF Fewer, fiberVars, Live
  <2> QED BY <2>1, FewerStep
<1>2. CASE TickRead \/ StartPolls
  BY <1>1, <1>2 DEF TickRead, StartPolls
<1>3. CASE TickPromote
  BY <1>3, LotStep
<1>4. CASE \E i \in DOMAIN parked : ParkedExpires(i)
  BY <1>4, LotStep
<1>5. CASE \E t \in JobType : PollWins(t) \/ Activate(t) \/ ReplyLost(t)
  BY <1>5, RoundStep
<1>6. CASE \E a \in batch : DispatchOne(a)
  BY <1>6, DispatchStep
<1>7. CASE \E T \in Demand : Retype(T)
  BY <1>1, <1>7 DEF Retype, loopVars
<1>8. ASSUME NEW f \in Fiber, RunFiber(f) PROVE CarriedOnce' /\ CutApart'
  <2>1. CASE StartRun(f) \/ Settle(f) \/ SetupFails(f)
    <3>1. /\ \A g \in Fiber : Live(g)' => Live(g) /\ task'[g] = task[g]
          /\ UNCHANGED <<loopVars, unwinding>>
      BY <2>1 DEF StartRun, Settle, SetupFails, Live, IInv, TypeOK, FibersOK
    <3>2. Fewer
      BY <3>1 DEF Fewer, loopVars
    <3> QED BY <3>2, FewerStep
  <2>2. CASE ExtendFails(f) \/ ExtendDies(f) \/ RunEnds(f) \/ ShedAnswered(f) \/ LockLost(f)
    <3>1. /\ Live(f) /\ Vanish(f) /\ UNCHANGED loopVars
          /\ unwinding' \subseteq unwinding \cup {Cut(f)}
      BY <2>2 DEF ExtendFails, ExtendDies, RunEnds, ShedAnswered, LockLost, EndFiber, CutRuns,
                  Live, HoldsRun
    <3> QED BY <3>1, CutStep
  <2> QED BY <1>8, <2>1, <2>2 DEF RunFiber
<1>9. ASSUME NEW u \in unwinding, LateSettle(u) \/ Unwind(u) PROVE CarriedOnce' /\ CutApart'
  <2>1. /\ UNCHANGED <<loopVars, fiberVars>>
        /\ \A v \in unwinding' : v \in unwinding \/ v = [u EXCEPT !.sent = TRUE]
    BY <1>9 DEF LateSettle, Unwind
  <2>2. CutOf([u EXCEPT !.sent = TRUE]) = CutOf(u)
    BY DEF CutOf, IInv, TypeOK, ShellOK, CutRun
  <2>3. Fewer
    BY <2>1, <2>2 DEF Fewer, loopVars, fiberVars, Live
  <2> QED BY <2>3, FewerStep
<1>10. CASE \E j \in Job : LockLapses(j) \/ LeasedElsewhere(j)
  BY <1>1, <1>10 DEF LockLapses, LeasedElsewhere, loopVars
<1>11. CASE \E m \in wire : SettleArrives(m) \/ SettleLost(m)
  BY <1>1, <1>11 DEF SettleArrives, SettleLost, loopVars
<1>12. CASE GracefulDrain \/ AbortExit \/ \E a \in yields : YieldJob(a)
  BY <1>1, <1>12 DEF GracefulDrain, AbortExit, YieldJob, loopVars
<1>13. CASE DrainExit \/ ForceAbort
  <2>1. /\ batch' = {} /\ parked' = << >>
        /\ (\A f \in Fiber : ~Live(f)') /\ \A t \in JobType : reply'[t] = {}
    BY <1>13 DEF DrainExit, ForceAbort, InterruptRuntime, Live
  <2>2. DOMAIN parked' = {}
    BY <2>1
  <2>3. \A a : ~InReply(a)' /\ ~InLot(a)'
    BY <2>1, <2>2 DEF InReply, InLot
  <2> QED BY <2>1, <2>2, <2>3 DEF CarriedOnce, CutApart
<1>14. CASE UNCHANGED vars
  BY <1>1, <1>14 DEF vars, loopVars
<1> QED
  BY <1>2, <1>3, <1>4, <1>5, <1>6, <1>7, <1>8, <1>9, <1>10, <1>11, <1>12, <1>13, <1>14 DEF Next

\* The carriers of every behaviour.
LEMMA SpecCInv == Spec => []CInv
<1>1. Init => CInv
  <2> SUFFICES ASSUME Init PROVE CInv
    OBVIOUS
  <2>1. /\ (\A f \in Fiber : ~Live(f)) /\ DOMAIN parked = {} /\ batch = {} /\ unwinding = {}
    BY DEF Init, Live
  <2> QED BY <2>1, InitIInv DEF CInv, CarriedOnce, CutApart
<1>2. CInv /\ [Next]_vars => CInv'
  BY NextIInv, CarrierStep DEF CInv
<1>3. QED
  BY <1>1, <1>2, PTL DEF Spec

-----------------------------------------------------------------------------
(* The record of the holder. *)

\* The step leaves f its run, and a run that shed its job stays so.
RunGoesOn(f) ==
    /\ HoldsRun(f) /\ task'[f] = task[f]
    /\ phase[f] = "shedding" => phase'[f] = "shedding"

\* A step that gives no run a lease and leaves the records alone.
LEMMA HolderKept ==
    ASSUME HolderRecorded, activeJobs' = activeJobs,
           \A f \in Fiber : HoldsLease(f)' => HoldsLease(f) /\ RunGoesOn(f)
    PROVE  HolderRecorded'
BY DEF HolderRecorded, RunGoesOn

\* No lock is given to a run that has it already: a lock that changes hands
\* gets a token that nobody refers to, or none.
LEMMA LockMoves ==
    ASSUME CInv, HolderRecorded, UNCHANGED <<fiberVars, activeJobs>>,
           \A j \in Job : lock'[j] \in {lock[j], Ready, Done, Elsewhere} \/ lock'[j] \notin InUse
    PROVE  HolderRecorded'
<1>1. \A f \in Fiber : task[f].token \in InUse
  BY DEF InUse
<1>2. \A f \in Fiber : Live(f) => task[f].job \in Job /\ task[f].token \in Token
  BY DEF CInv, IInv, LiveFibers, Activation
<1>3. \A f \in Fiber : HoldsLease(f)' => HoldsLease(f) /\ RunGoesOn(f)
  <2> SUFFICES ASSUME NEW f \in Fiber, HoldsLease(f)' PROVE HoldsLease(f) /\ RunGoesOn(f)
    OBVIOUS
  <2>1. HoldsRun(f) /\ RunGoesOn(f) /\ task[f].job \in Fenced /\ lock'[task[f].job] = task[f].token
    BY DEF HoldsLease, HoldsRun, fiberVars, RunGoesOn
  <2>2. Live(f)
    BY <2>1 DEF HoldsRun, Live
  <2>3. lock[task[f].job] = task[f].token
    BY <1>1, <1>2, <2>1, <2>2, TokenAssumption
  <2> QED BY <2>1, <2>3 DEF HoldsLease
<1> QED BY <1>3, HolderKept

\* A run that ends, or unwinds, drops only its own record: another run that
\* holds the lease of the job has another token.
LEMMA OthersKept ==
    ASSUME CInv, HolderRecorded, NEW b \in Activation,
           activeJobs' = JobEnded(b), lock' = lock,
           \A f \in Fiber : HoldsRun(f)' =>
               RunGoesOn(f) /\ (task[f] # b \/ phase'[f] = "shedding")
    PROVE  HolderRecorded'
<1> SUFFICES ASSUME NEW f \in Fiber, HoldsLease(f)', phase'[f] # "shedding"
             PROVE  activeJobs'[task'[f].job] = task'[f].token
  BY DEF HolderRecorded
<1>1. HoldsLease(f) /\ task'[f] = task[f] /\ task[f] # b /\ phase[f] # "shedding"
  BY DEF HoldsLease, RunGoesOn
<1>2. task[f] \in Activation /\ task[f].job \in Fenced
  BY <1>1 DEF CInv, IInv, LiveFibers, HoldsLease, HoldsRun, Live
<1>3. activeJobs[task[f].job] = task[f].token
  BY <1>1 DEF HolderRecorded
<1>4. CASE task[f].job # b.job
  BY <1>1, <1>2, <1>3, <1>4 DEF JobEnded, CInv, IInv, TypeOK, ShellOK, Activation
<1>5. CASE task[f].job = b.job
  <2>1. task[f].token # b.token
    BY <1>1, <1>2, <1>5 DEF Activation
  <2> QED BY <1>1, <1>2, <1>3, <1>5, <2>1 DEF JobEnded, SameLease
<1> QED BY <1>4, <1>5

\* A run that starts is the holder, and is recorded.
LEMMA StartRecords ==
    ASSUME CInv, HolderRecorded, NEW f \in Fiber, StartRun(f)
    PROVE  HolderRecorded'
<1> SUFFICES ASSUME NEW g \in Fiber, HoldsLease(g)', phase'[g] # "shedding"
             PROVE  activeJobs'[task'[g].job] = task'[g].token
  BY DEF HolderRecorded
<1>1. /\ Live(f) /\ Accepts(task[f].job, task[f].token) /\ task' = task /\ lock' = lock
      /\ activeJobs' = [activeJobs EXCEPT ![task[f].job] = task[f].token]
      /\ phase' = [phase EXCEPT ![f] = "running"]
  BY DEF StartRun, Live
<1>2. activeJobs \in [Job -> Token \cup {NoToken}] /\ task[f].job \in Job
  BY <1>1 DEF CInv, IInv, TypeOK, ShellOK, LiveFibers, Activation
<1>3. task[g].job \in Fenced /\ lock[task[g].job] = task[g].token
  BY <1>1 DEF HoldsLease
<1>4. CASE task[g].job = task[f].job
  BY <1>1, <1>2, <1>3, <1>4 DEF Accepts
<1>5. CASE task[g].job # task[f].job
  <2>1. HoldsLease(g) /\ phase[g] # "shedding"
    BY <1>1, <1>3, <1>5 DEF HoldsLease, HoldsRun, CInv, IInv, TypeOK, FibersOK
  <2> QED BY <1>1, <1>2, <1>5, <2>1 DEF HolderRecorded
<1> QED BY <1>4, <1>5

\* Every step keeps the record of the holder.
LEMMA HolderStep == ASSUME CInv, HolderRecorded, [Next]_vars PROVE HolderRecorded'
<1>1. ASSUME activeJobs' = activeJobs, lock' = lock,
             \A f \in Fiber : HoldsRun(f)' => RunGoesOn(f)
      PROVE  HolderRecorded'
  BY <1>1, HolderKept DEF HoldsLease, RunGoesOn
<1>2. ASSUME UNCHANGED <<activeJobs, lock, fiberVars>> PROVE HolderRecorded'
  BY <1>1, <1>2 DEF fiberVars, HoldsRun, RunGoesOn
<1>3. ASSUME NEW a, ClaimAndFork(a), UNCHANGED <<activeJobs, lock>> PROVE HolderRecorded'
  BY <1>1, <1>3 DEF ClaimAndFork, RunGoesOn, HoldsRun, Live, CInv, IInv, TypeOK, FibersOK
<1>4. CASE TickRead \/ StartPolls \/ GracefulDrain \/ AbortExit
  BY <1>2, <1>4 DEF TickRead, StartPolls, GracefulDrain, AbortExit
<1>5. CASE TickPromote
  <2>1. /\ UNCHANGED <<activeJobs, lock>>
        /\ (\E a : ClaimAndFork(a)) \/ UNCHANGED fiberVars
    BY <1>5 DEF TickPromote
  <2> QED BY <1>2, <1>3, <2>1
<1>6. ASSUME NEW t \in JobType, PollWins(t) \/ ReplyLost(t) PROVE HolderRecorded'
  BY <1>2, <1>6 DEF PollWins, ReplyLost
<1>7. ASSUME NEW t \in JobType, Activate(t) PROVE HolderRecorded'
  <2>1. UNCHANGED <<fiberVars, activeJobs>>
    BY <1>7 DEF Activate
  <2>2. \A j \in Job : lock'[j] = lock[j] \/ lock'[j] \notin InUse
    <3>1. PICK S \in SUBSET { j \in Job : lock[j] = Ready /\ TypeOf[j] = t } :
            \E lease \in [S -> Token \ InUse] :
              lock' = [j \in Job |-> IF j \in S THEN lease[j] ELSE lock[j]]
      BY <1>7 DEF Activate
    <3> HIDE DEF InUse
    <3> QED BY <3>1
  <2> QED BY <2>1, <2>2, LockMoves
<1>8. ASSUME NEW a \in batch, DispatchOne(a) PROVE HolderRecorded'
  BY <1>2, <1>3, <1>8 DEF DispatchOne
<1>9. CASE \E i \in DOMAIN parked : ParkedExpires(i)
  BY <1>2, <1>9 DEF ParkedExpires
<1>10. CASE \E T \in Demand : Retype(T)
  BY <1>2, <1>10 DEF Retype
<1>11. ASSUME NEW f \in Fiber, RunFiber(f) PROVE HolderRecorded'
  <2>1. CASE StartRun(f)
    BY <2>1, StartRecords
  <2>2. CASE ExtendFails(f) \/ ExtendDies(f) \/ ShedAnswered(f) \/ LockLost(f)
    BY <1>1, <2>2 DEF ExtendFails, ExtendDies, ShedAnswered, LockLost, EndFiber, Vanish,
                      RunGoesOn, HoldsRun, CInv, IInv, TypeOK, FibersOK
  <2>3. CASE Settle(f)
    BY <1>1, <2>3 DEF Settle, RunGoesOn, HoldsRun, CInv, IInv, TypeOK, FibersOK
  <2>4. CASE RunEnds(f)
    <3>1. task[f] \in Activation /\ activeJobs' = JobEnded(task[f]) /\ lock' = lock
      BY <2>4 DEF RunEnds, CInv, IInv, LiveFibers, Live
    <3>2. \A g \in Fiber : HoldsRun(g)' => RunGoesOn(g) /\ task[g] # task[f]
      BY <2>4 DEF RunEnds, EndFiber, Vanish, RunGoesOn, HoldsRun, Live, CInv, CarriedOnce,
                  IInv, TypeOK, FibersOK
    <3> QED BY <3>1, <3>2, OthersKept
  <2>5. CASE SetupFails(f)
    <3>1. task[f] \in Activation /\ activeJobs' = JobEnded(task[f]) /\ lock' = lock
      BY <2>5 DEF SetupFails, CInv, IInv, LiveFibers, Live
    <3>2. \A g \in Fiber : HoldsRun(g)' => RunGoesOn(g) /\ (g = f \/ task[g] # task[f])
      BY <2>5 DEF SetupFails, RunGoesOn, HoldsRun, Live, CInv, CarriedOnce, IInv, TypeOK, FibersOK
    <3>3. phase'[f] = "shedding"
      BY <2>5 DEF SetupFails, CInv, IInv, TypeOK, FibersOK
    <3> QED BY <3>1, <3>2, <3>3, OthersKept
  <2> QED BY <1>11, <2>1, <2>2, <2>3, <2>4, <2>5 DEF RunFiber
<1>12. ASSUME NEW u \in unwinding, LateSettle(u) \/ Unwind(u) PROVE HolderRecorded'
  <2>1. CASE LateSettle(u)
    BY <1>2, <2>1 DEF LateSettle
  <2>2. CASE Unwind(u)
    <3>1. CutOf(u) \in Activation /\ activeJobs' = JobEnded(CutOf(u)) /\ lock' = lock
      BY <2>2 DEF Unwind, CutOf, CutRun, Activation, JobEnded, SameLease, CInv, IInv, TypeOK, ShellOK
    <3>2. \A g \in Fiber : HoldsRun(g)' => RunGoesOn(g) /\ task[g] # CutOf(u)
      BY <2>2 DEF Unwind, RunGoesOn, fiberVars, HoldsRun, Live, CInv, CutApart
    <3> QED BY <3>1, <3>2, OthersKept
  <2> QED BY <1>12, <2>1, <2>2
<1>13. ASSUME NEW j \in Job, LockLapses(j) \/ LeasedElsewhere(j) PROVE HolderRecorded'
  <2>1. \A k \in Job : lock'[k] \in {lock[k], Ready, Done, Elsewhere}
    BY <1>13 DEF LockLapses, LeasedElsewhere, CInv, IInv, TypeOK, ShellOK
  <2> QED BY <1>13, <2>1, LockMoves DEF LockLapses, LeasedElsewhere
<1>14. ASSUME NEW m \in wire, SettleArrives(m) \/ SettleLost(m) PROVE HolderRecorded'
  <2>1. \A k \in Job : lock'[k] \in {lock[k], Ready, Done, Elsewhere}
    BY <1>14 DEF SettleArrives, SettleLost, CInv, IInv, TypeOK, ShellOK
  <2> QED BY <1>14, <2>1, LockMoves DEF SettleArrives, SettleLost
<1>15. CASE DrainExit \/ ForceAbort
  BY <1>1, <1>15 DEF DrainExit, ForceAbort, InterruptRuntime, HoldsRun
<1>16. CASE \E a \in yields : YieldJob(a)
  BY <1>2, <1>16 DEF YieldJob
<1>17. CASE UNCHANGED vars
  BY <1>2, <1>17 DEF vars
<1> QED
  BY <1>4, <1>5, <1>6, <1>7, <1>8, <1>9, <1>10, <1>11, <1>12, <1>13, <1>14, <1>15, <1>16, <1>17
  DEF Next

-----------------------------------------------------------------------------
(* The theorems. *)

\* The variables keep their types in every behaviour of the runtime.
THEOREM TypeCorrect == Spec => []TypeOK
<1>1. IInv => TypeOK
  BY DEF IInv
<1>2. QED
  BY <1>1, SpecIInv, PTL

\* The registry counts exactly the slots that are held and those that a
\* dispatch lost inside the winner's extend, and never more than the capacity.
THEOREM CapacityAccounting == Spec => []SlotsAccounted
<1>1. IInv => SlotsAccounted
  BY DEF IInv
<1>2. QED
  BY <1>1, SpecIInv, PTL

\* The drain's exit test reads the registry's counts only; with the accounting
\* exact, they are zero only when no claimed job is left.
THEOREM DrainIsGraceful == Spec => DrainInterruptsNothing
<1>1. IInv /\ [Next]_vars =>
        [mode = "draining" /\ mode' = "exited" => \A f \in Fiber : ~Live(f)]_vars
  <2> SUFFICES ASSUME IInv, Next, mode = "draining", mode' = "exited",
                      NEW f \in Fiber, Live(f)
               PROVE  FALSE
    BY DEF vars
  <2>1. DrainExit
    <3> USE DEF InterruptRuntime
    <3>1. ~(TickRead \/ TickPromote \/ StartPolls)
      BY DEF TickRead, TickPromote, StartPolls
    <3>2. \A t \in JobType : ~(PollWins(t) \/ Activate(t) \/ ReplyLost(t))
      BY DEF PollWins, Activate, ReplyLost
    <3>3. /\ \A a : ~DispatchOne(a) /\ ~YieldJob(a)
          /\ \A u : ~LateSettle(u) /\ ~Unwind(u)
          /\ \A i : ~ParkedExpires(i)
          /\ \A T : ~Retype(T)
      BY DEF DispatchOne, LateSettle, Unwind, YieldJob, ParkedExpires, Retype
    <3>4. \A g : ~RunFiber(g)
      BY DEF RunFiber, StartRun, ExtendFails, ExtendDies, SetupFails, ShedAnswered,
             Settle, RunEnds, LockLost
    <3>5. \A j : ~LockLapses(j) /\ ~LeasedElsewhere(j)
      BY DEF LockLapses, LeasedElsewhere
    <3>6. \A m : ~SettleArrives(m) /\ ~SettleLost(m)
      BY DEF SettleArrives, SettleLost
    <3>7. ~GracefulDrain /\ ~ForceAbort /\ ~AbortExit
      BY DEF GracefulDrain, ForceAbort, AbortExit
    <3>8. QED
      BY <3>1, <3>2, <3>3, <3>4, <3>5, <3>6, <3>7 DEF Next
  <2>2. PICK w \in Worker : f \in HeldBy(w)
    BY DEF IInv, LiveFibers, HeldBy
  <2>3. Cardinality(HeldBy(w)) = 0
    BY <2>1, <2>2, HeldByFinite DEF DrainExit, IInv, TypeOK, FibersOK, SlotsAccounted
  <2>4. HeldBy(w) = {}
    BY <2>3, HeldByFinite, FS_EmptySet
  <2>5. QED
    BY <2>2, <2>4
<1>2. QED
  BY <1>1, SpecIInv, PTL DEF Spec, DrainInterruptsNothing

\* Every activation has one carrier: it is not dispatched twice, and not kept
\* once it is dispatched, whatever polls, parks, lapses and restarts.
THEOREM OneCarrier == Spec => []CarriedOnce
<1>1. CInv => CarriedOnce
  BY DEF CInv
<1>2. QED
  BY <1>1, SpecCInv, PTL

\* The run that holds the lease is the one on record, unless it failed in its
\* setup and its own fail is under way.
THEOREM HolderIsRecorded == Spec => []HolderRecorded
<1>1. Init => HolderRecorded
  BY DEF Init, HolderRecorded, HoldsLease, HoldsRun
<1>2. CInv /\ HolderRecorded /\ [Next]_vars => HolderRecorded'
  BY HolderStep
<1>3. QED
  BY <1>1, <1>2, SpecCInv, PTL DEF Spec

\* A force abort yields what is on record, hence every run with a lease that
\* has not given its job back itself.
THEOREM AbortFindsHolders == Spec => AbortYieldsHolders
<1>1. IInv /\ HolderRecorded /\ [Next]_vars =>
        [mode # "aborting" /\ mode' = "aborting" =>
           \A f \in Fiber : HoldsLease(f) =>
               task[f] \in yields' \/ phase[f] = "shedding"]_vars
  <2> SUFFICES ASSUME IInv, HolderRecorded, Next, mode # "aborting", mode' = "aborting",
                      NEW f \in Fiber, HoldsLease(f), phase[f] # "shedding"
               PROVE  task[f] \in yields'
    BY DEF vars
  <2>1. ForceAbort
    <3>1. /\ ~(TickRead \/ TickPromote \/ StartPolls \/ GracefulDrain \/ DrainExit \/ AbortExit)
          /\ \A t : ~(PollWins(t) \/ Activate(t) \/ ReplyLost(t))
      BY DEF TickRead, TickPromote, StartPolls, GracefulDrain, DrainExit, AbortExit,
             PollWins, Activate, ReplyLost
    <3>2. /\ \A a : ~DispatchOne(a) /\ ~YieldJob(a)
          /\ \A u : ~LateSettle(u) /\ ~Unwind(u)
          /\ \A i : ~ParkedExpires(i)
          /\ \A T : ~Retype(T)
      BY DEF DispatchOne, LateSettle, Unwind, YieldJob, ParkedExpires, Retype
    <3>3. \A g : ~RunFiber(g)
      BY DEF RunFiber, StartRun, ExtendFails, ExtendDies, SetupFails, ShedAnswered,
             Settle, RunEnds, LockLost
    <3>4. /\ \A j : ~LockLapses(j) /\ ~LeasedElsewhere(j)
          /\ \A m : ~SettleArrives(m) /\ ~SettleLost(m)
      BY DEF LockLapses, LeasedElsewhere, SettleArrives, SettleLost
    <3> QED BY <3>1, <3>2, <3>3, <3>4 DEF Next
  <2>2. task[f] \in Activation
    BY DEF IInv, LiveFibers, HoldsLease, HoldsRun, Live
  <2>3. activeJobs[task[f].job] = task[f].token /\ task[f].token # NoToken
    BY <2>2, TokenAssumption DEF HolderRecorded, Activation
  <2>4. /\ task[f].job \in { k \in Job : activeJobs[k] # NoToken }
        /\ task[f] = [job |-> task[f].job, token |-> activeJobs[task[f].job]]
    BY <2>2, <2>3 DEF Activation
  <2> QED BY <2>1, <2>4 DEF ForceAbort
<1>2. QED
  BY <1>1, SpecIInv, HolderIsRecorded, PTL DEF Spec, AbortYieldsHolders

=============================================================================
