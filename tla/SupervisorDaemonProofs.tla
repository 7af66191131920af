------------------------ MODULE SupervisorDaemonProofs ------------------------
(***************************************************************************)
(* For any number of workers, records, child processes and requests: every *)
(* live child is accounted for, a stopping worker has somebody in charge,  *)
(* and the daemon exits with none of its workers alive.                    *)
(*                                                                         *)
(* The three rest on one invariant.  A spawn is the dangerous step: its    *)
(* record must have no live child.  For each of the four places that spawn *)
(* the invariant says why it has none: a timer is armed only for a dead    *)
(* child and is disarmed by whoever stops the worker; the operation and    *)
(* the reload wait for every live child of their record; a record that is  *)
(* added never had one.                                                    *)
(***************************************************************************)
EXTENDS SupervisorDaemon, SequenceTheorems, TLAPS

\* A child that is not gone was spawned for a record.
Owned == \A c \in Child : proc[c] # "gone" => owner[c] \in Obj

\* An armed timer is one of a worker that is down and that nobody stops.
TimersIdle ==
    \A o \in Obj : timer[o] =>
        /\ ~stopping[o] /\ child[o] # NoChild /\ (o \in fleet \/ removing[o])
        /\ \A c \in Child : Alive(c) => owner[c] # o

\* A record that never had a child is not in the fleet, and nobody stops it;
\* one that had is in the fleet, or was removed from it.
Recorded ==
    /\ \A o \in Obj : child[o] = NoChild => o \notin fleet /\ ~stopping[o]
    /\ \A o \in Obj : child[o] # NoChild => o \in fleet \/ removing[o] \/ stopping[o]

\* The running operation waits for the live children of the record it stops,
\* and no other record takes its name.
OpStands ==
    /\ step # "stopping" => cur = NoObj
    /\ step # "idle" => queue # << >>
    /\ step = "stopping" =>
         /\ cur \in Obj /\ stopping[cur] /\ child[cur] # NoChild
         /\ cur \in fleet \/ removing[cur]
         /\ \A o \in fleet : IdOf[o] = IdOf[cur] => o = cur
         /\ \A c \in Child : Alive(c) /\ owner[c] = cur => [who |-> "op", child |-> c] \in wait

\* The reload waits for the child it drains as long as it is current; if the
\* child was swapped, whoever stops the worker now is not the reload.
ReloadStands ==
    rphase \in {"draining", "queued"} =>
        /\ robj \in Obj /\ rchild \in Child
        /\ child[robj] = rchild => stopping[robj]
        /\ child[robj] = rchild /\ Alive(rchild) =>
             rphase = "draining" /\ [who |-> "reload", child |-> rchild] \in wait
        /\ life = "up" /\ robj \in fleet /\ child[robj] # rchild /\ stopping[robj] =>
             removing[robj] \/ cur = robj

\* One respawn is queued while the reload is queued, and nothing but a respawn
\* is queued behind the barrier of a shutdown.
QueueStands ==
    /\ \A i \in DOMAIN queue : queue[i].kind = "respawn" => rphase = "queued"
    /\ \A i, j \in DOMAIN queue : queue[i].kind = "respawn" /\ queue[j].kind = "respawn" => i = j
    /\ \A i, j \in DOMAIN queue : i < j /\ queue[i].kind = "barrier" => queue[j].kind = "respawn"
    /\ life = "up" => \A i \in DOMAIN queue : queue[i].kind # "barrier"
    /\ life = "stopping" => step = "idle" /\ \A i \in DOMAIN queue : queue[i].kind = "respawn"

\* A stop waits for every live child of the fleet.
StopStands ==
    life = "stopping" =>
        \A c \in Child : Alive(c) /\ owner[c] \in fleet => [who |-> "shutdown", child |-> c] \in wait

DInv == /\ TypeOK /\ Owned /\ ChildrenAccounted /\ TimersIdle /\ Recorded /\ OpStands
        /\ ReloadStands /\ QueueStands /\ StopStands /\ StoppingIsAttended

-----------------------------------------------------------------------------
(* Lemmas about the helpers. *)

\* The record under a name.
LEMMA AtIs == \A i : Has(i) => At(i) \in fleet /\ IdOf[At(i)] = i
BY DEF Has, At

\* The waits for the children of S name live children only, and all of them.
LEMMA WaitersAre ==
    ASSUME TypeOK, NEW S \in SUBSET Obj, NEW who \in {"op", "reload", "shutdown", "escalate"}
    PROVE  /\ WaitersOf(S, who) \subseteq Waiter
           /\ \A o \in S : child[o] # NoChild /\ Alive(child[o]) =>
                             [who |-> who, child |-> child[o]] \in WaitersOf(S, who)
<1>1. \A o \in S : HasPid(o) => child[o] \in Child
  BY DEF HasPid, TypeOK
<1>2. \A o \in S : child[o] # NoChild /\ Alive(child[o]) => HasPid(o)
  BY DEF HasPid, Alive
<1>3. WaitersOf(S, who) \subseteq Waiter
  BY <1>1 DEF WaitersOf, Waiter
<1> QED BY <1>2, <1>3 DEF WaitersOf

\* The queue without its first operation.
LEMMA TailIs ==
    ASSUME queue \in Seq(Op), queue # << >>
    PROVE  /\ Tail(queue) \in Seq(Op) /\ Head(queue) \in Op /\ 1 \in DOMAIN queue
           /\ Head(queue) = queue[1]
           /\ \A i \in DOMAIN Tail(queue) : i + 1 \in DOMAIN queue /\ Tail(queue)[i] = queue[i + 1]
           /\ DOMAIN queue \subseteq Nat /\ DOMAIN Tail(queue) \subseteq Nat \ {0}
<1>1. /\ Tail(queue) \in Seq(Op) /\ Head(queue) \in Op
      /\ Len(Tail(queue)) = Len(queue) - 1
      /\ \A i \in 1 .. Len(Tail(queue)) : Tail(queue)[i] = queue[i + 1]
  BY HeadTailProperties
<1>2. Len(queue) \in Nat \ {0} /\ DOMAIN queue = 1 .. Len(queue) /\ Head(queue) = queue[1]
  BY EmptySeq, LenProperties
<1>3. DOMAIN Tail(queue) = 1 .. Len(Tail(queue))
  BY <1>1, LenProperties
<1> QED BY <1>1, <1>2, <1>3

\* The queue with one more operation.
LEMMA AppendIs ==
    ASSUME queue \in Seq(Op), NEW op \in Op, Enqueue(op)
    PROVE  /\ queue' \in Seq(Op) /\ queue' # << >>
           /\ queue # << >> => Head(queue') = Head(queue)
           /\ \A i \in DOMAIN queue' : \/ i \in DOMAIN queue /\ queue'[i] = queue[i]
                                       \/ i = Len(queue) + 1 /\ queue'[i] = op
           /\ DOMAIN queue = 1 .. Len(queue) /\ Len(queue) \in Nat
           /\ DOMAIN queue' = 1 .. Len(queue) + 1
<1>1. /\ queue' \in Seq(Op) /\ queue' # << >> /\ Len(queue') = Len(queue) + 1
      /\ \A i \in 1 .. Len(queue) : queue'[i] = queue[i]
      /\ queue'[Len(queue) + 1] = op
  BY AppendProperties DEF Enqueue
<1>2. /\ Len(queue) \in Nat /\ DOMAIN queue = 1 .. Len(queue) /\ DOMAIN queue' = 1 .. Len(queue')
      /\ queue # << >> => Len(queue) \in Nat \ {0}
  BY <1>1, EmptySeq, LenProperties
<1>3. queue # << >> => Head(queue') = Head(queue)
  <2>1. Head(queue') = queue'[1] /\ Head(queue) = queue[1]
    OBVIOUS
  <2> QED BY <1>1, <1>2, <2>1
<1> QED BY <1>1, <1>2, <1>3

-----------------------------------------------------------------------------
(* Steps after which fewer children are alive. *)

\* Nothing is spawned, and what is no longer waited for is not alive.  A record
\* that leaves the fleet was drain-removed; a timer is armed only for a worker
\* that is down and that nobody stops.
LEMMA CalmStep ==
    ASSUME DInv, TypeOK',
           UNCHANGED <<child, stopping, removing, owner, opVars, reloadVars, lifeVars>>,
           \A c \in Child : Alive(c)' => Alive(c),
           \A c \in Child : proc'[c] # "gone" => proc[c] # "gone",
           \A x \in wait : x \in wait' \/ ~Alive(x.child)',
           fleet' \subseteq fleet,
           \A o \in fleet \ fleet' : removing[o],
           \A o \in Obj : timer'[o] =>
             \/ timer[o]
             \/ /\ ~stopping[o] /\ child[o] # NoChild /\ (o \in fleet' \/ removing[o])
                /\ \A c \in Child : Alive(c)' => owner[c] # o
    PROVE  DInv'
<1> USE DEF opVars, reloadVars, lifeVars
<1>1. Owned'
  BY DEF DInv, Owned
<1>2. ChildrenAccounted'
  BY DEF DInv, ChildrenAccounted, Running, Owned, Alive
<1>3. TimersIdle'
  BY DEF DInv, TimersIdle
<1>4. Recorded'
  BY DEF DInv, Recorded
<1>5. OpStands'
  <2>1. ASSUME step = "stopping", NEW c \in Child, Alive(c)', owner[c] = cur
        PROVE  [who |-> "op", child |-> c] \in wait'
    BY <2>1 DEF DInv, OpStands
  <2> QED BY <2>1 DEF DInv, OpStands
<1>6. ReloadStands'
  <2>1. ASSUME rphase \in {"draining", "queued"}, child[robj] = rchild, Alive(rchild)'
        PROVE  rphase = "draining" /\ [who |-> "reload", child |-> rchild] \in wait'
    <3>1. Alive(rchild)
      BY <2>1 DEF DInv, ReloadStands
    <3> QED BY <2>1, <3>1 DEF DInv, ReloadStands
  <2> QED BY <2>1 DEF DInv, ReloadStands, Alive
<1>7. QueueStands'
  BY DEF DInv, QueueStands
<1>8. StopStands'
  <2>1. ASSUME life = "stopping", NEW c \in Child, Alive(c)', owner[c] \in fleet'
        PROVE  [who |-> "shutdown", child |-> c] \in wait'
    BY <2>1 DEF DInv, StopStands
  <2> QED BY <2>1 DEF StopStands
<1>9. StoppingIsAttended'
  BY DEF DInv, StoppingIsAttended
<1> QED BY <1>1, <1>2, <1>3, <1>4, <1>5, <1>6, <1>7, <1>8, <1>9 DEF DInv

-----------------------------------------------------------------------------
(* The processes, their exits and the waits. *)

\* A step of a process.
LEMMA ProcessStep ==
    ASSUME DInv, NEW c \in Child,
           \/ Boot(c) \/ TakeJob(c) \/ JobEnds(c)
           \/ \E s \in Signal : Deliver(c, s)
           \/ DrainDone(c) \/ AbortDone(c) \/ ChildCrash(c) \/ OrphanReap(c)
    PROVE  DInv'
<1> USE DEF ChildOnly, fleetVars
<1>1. /\ ChildOnly /\ owner' = owner
      /\ \/ proc' = proc
         \/ Alive(c) /\ \E p \in {"up", "dead", "refused"} : proc' = [proc EXCEPT ![c] = p]
  BY DEF Boot, TakeJob, JobEnds, Deliver, DrainDone, AbortDone, ChildCrash, OrphanReap, Alive
<1>2. \A d \in Child : (Alive(d)' => Alive(d)) /\ (proc'[d] # "gone" => proc[d] # "gone")
  BY <1>1 DEF Alive, DInv, TypeOK
<1>3. /\ proc' \in [Child -> {"booting", "up", "dead", "refused", "failed", "gone"}]
      /\ busy' \in [Child -> BOOLEAN]
      /\ caught' \in [Child -> SUBSET Signal] /\ sig' \in [Child -> SUBSET Signal]
  <2> USE DEF DInv, TypeOK, Signal
  <2>1. CASE Boot(c)
    BY <2>1 DEF Boot
  <2>2. CASE TakeJob(c) \/ JobEnds(c)
    BY <2>2 DEF TakeJob, JobEnds
  <2>3. ASSUME NEW s \in Signal, Deliver(c, s)
        PROVE  /\ proc' \in [Child -> {"booting", "up", "dead", "refused", "failed", "gone"}]
               /\ busy' \in [Child -> BOOLEAN]
               /\ caught' \in [Child -> SUBSET Signal] /\ sig' \in [Child -> SUBSET Signal]
    BY <2>3 DEF Deliver
  <2>4. CASE DrainDone(c) \/ AbortDone(c) \/ ChildCrash(c) \/ OrphanReap(c)
    BY <2>4 DEF DrainDone, AbortDone, ChildCrash, OrphanReap
  <2> QED BY <2>1, <2>2, <2>3, <2>4
<1>4. TypeOK'
  BY <1>1, <1>3 DEF DInv, TypeOK, opVars, reloadVars, lifeVars
<1> QED BY <1>1, <1>2, <1>4, CalmStep

\* A child's exit is seen.
LEMMA ExitStep == ASSUME DInv, NEW c \in Child, ExitEvent(c) PROVE DInv'
<1> DEFINE o == owner[c]
           stays == stopping[o] \/ ShuttingDown \/ ~Has(IdOf[o])
<1>1. /\ Running /\ Dying(c) /\ proc' = [proc EXCEPT ![c] = "gone"]
      /\ busy' = [busy EXCEPT ![c] = FALSE]
      /\ caught' = [caught EXCEPT ![c] = {}] /\ sig' = [sig EXCEPT ![c] = {}]
      /\ wait' = { x \in wait : x.child # c }
      /\ UNCHANGED <<child, stopping, removing, owner, opVars, reloadVars, lifeVars, requests>>
  BY DEF ExitEvent
<1>2. \/ UNCHANGED <<fleet, timer>>
      \/ /\ child[o] = c
         /\ fleet' = IF stays /\ removing[o] THEN fleet \ {o} ELSE fleet
         /\ timer' = IF stays \/ proc[c] = "refused" THEN timer ELSE [timer EXCEPT ![o] = TRUE]
  BY DEF ExitEvent
<1>3. o \in Obj
  BY <1>1 DEF DInv, Owned, Dying
<1>4. \A d \in Child : /\ Alive(d)' => Alive(d)
                       /\ d = c => ~Alive(d)'
                       /\ proc'[d] # "gone" => proc[d] # "gone"
  BY <1>1 DEF Alive, Dying, DInv, TypeOK
<1>5. fleet' \subseteq fleet /\ \A p \in fleet \ fleet' : removing[p]
  BY <1>2
<1>6. ASSUME NEW p \in Obj, timer'[p], ~timer[p]
      PROVE  /\ ~stopping[p] /\ child[p] # NoChild /\ (p \in fleet' \/ removing[p])
             /\ \A d \in Child : Alive(d)' => owner[d] # p
  <2>1. p = o /\ child[o] = c /\ ~stays /\ fleet' = fleet
    BY <1>2, <1>3, <1>6 DEF DInv, TypeOK
  <2>2. c # NoChild
    BY DaemonAssumption DEF DaemonAssumption
  <2>3. \A d \in Child : Alive(d)' => owner[d] # p
    BY <1>1, <1>4, <2>1 DEF DInv, ChildrenAccounted
  <2>4. p \in fleet \/ removing[p]
    BY <1>3, <2>1, <2>2 DEF DInv, Recorded
  <2> QED BY <2>1, <2>2, <2>3, <2>4
<1>7. \A x \in wait : x \in wait' \/ ~Alive(x.child)'
  BY <1>1, <1>4 DEF DInv, TypeOK, Waiter
<1>8. TypeOK'
  <2>1. timer' \in [Obj -> BOOLEAN]
    BY <1>2, <1>3 DEF DInv, TypeOK
  <2> QED BY <1>1, <1>5, <2>1 DEF DInv, TypeOK, opVars, reloadVars, lifeVars
<1> QED BY <1>1, <1>4, <1>5, <1>6, <1>7, <1>8, CalmStep

\* A wait reaches its timeout.
LEMMA GraceStep == ASSUME DInv, NEW x \in wait, GraceExpires(x) PROVE DInv'
<1>1. /\ wait' = wait \ {x}
      /\ proc' = IF Alive(x.child) THEN [proc EXCEPT ![x.child] = "dead"] ELSE proc
      /\ UNCHANGED <<fleetVars, owner, busy, caught, sig, opVars, reloadVars, lifeVars, requests>>
  BY DEF GraceExpires
<1>2. x.child \in Child
  BY DEF DInv, TypeOK, Waiter
<1>3. /\ ~Alive(x.child)'
      /\ \A d \in Child : (Alive(d)' => Alive(d)) /\ (proc'[d] # "gone" => proc[d] # "gone")
  BY <1>1, <1>2 DEF Alive, DInv, TypeOK
<1>4. TypeOK'
  BY <1>1, <1>2 DEF DInv, TypeOK, fleetVars, opVars, reloadVars, lifeVars
<1> QED BY <1>1, <1>3, <1>4, CalmStep DEF fleetVars

\* Nothing happens.
LEMMA StutterStep == ASSUME DInv, UNCHANGED vars PROVE DInv'
<1> USE DEF vars, fleetVars, procVars
<1>1. TypeOK'
  BY DEF DInv, TypeOK, opVars, reloadVars, lifeVars
<1> QED BY <1>1, CalmStep DEF Alive

-----------------------------------------------------------------------------
(* Spawns. *)

\* A child is spawned for a record without a live child, in or removed from
\* the fleet, not stopping and without a timer.
LEMMA SpawnKeeps ==
    ASSUME DInv, NEW o \in Obj, NEW c \in Fresh, Spawn(o, c),
           \A d \in Child : Alive(d) => owner[d] # o,
           UNCHANGED <<removing, wait, life>>, life # "stopping",
           \A p \in Obj : timer'[p] => p # o /\ timer[p],
           ~stopping'[o], \A p \in Obj : p # o => stopping'[p] = stopping[p],
           fleet \subseteq fleet', fleet' \subseteq fleet \cup {o},
           o \in fleet' \/ removing[o]
    PROVE  /\ Owned' /\ ChildrenAccounted' /\ TimersIdle' /\ Recorded' /\ StopStands'
           /\ UNCHANGED reloadVars /\ (cur' = cur \/ cur = o) =>
                ReloadStands' /\ StoppingIsAttended'
<1>1. /\ c \in Child /\ proc[c] = "gone" /\ c # rchild /\ c # NoChild
      /\ child' = [child EXCEPT ![o] = c] /\ owner' = [owner EXCEPT ![c] = o]
      /\ \E p \in {"booting", "failed"} : proc' = [proc EXCEPT ![c] = p]
  BY DaemonAssumption DEF DaemonAssumption, Fresh, Spawn
<1>2. \A d \in Child : d # c => /\ owner'[d] = owner[d] /\ proc'[d] = proc[d]
                                /\ (Alive(d)' <=> Alive(d))
  BY <1>1 DEF DInv, TypeOK, Alive
<1>3. owner'[c] = o /\ child'[o] = c /\ \A p \in Obj : p # o => child'[p] = child[p]
  BY <1>1 DEF DInv, TypeOK
<1>4. Owned'
  BY <1>2, <1>3 DEF DInv, Owned
<1>5. ChildrenAccounted'
  <2>1. ASSUME NEW d \in Child, Running', Alive(d)'
        PROVE  child'[owner'[d]] = d /\ (owner'[d] \in fleet' \/ removing'[owner'[d]])
    <3>1. CASE d = c
      BY <1>3, <3>1
    <3>2. CASE d # c
      <4>1. Alive(d) /\ Running /\ owner'[d] = owner[d]
        BY <1>2, <2>1, <3>2 DEF Running
      <4>2. owner[d] \in Obj /\ owner[d] # o
        BY <4>1 DEF DInv, Owned, Alive
      <4> QED BY <1>3, <4>1, <4>2 DEF DInv, ChildrenAccounted
    <3> QED BY <3>1, <3>2
  <2> QED BY <2>1 DEF ChildrenAccounted
<1>6. TimersIdle'
  <2>1. ASSUME NEW p \in Obj, timer'[p]
        PROVE  /\ ~stopping'[p] /\ child'[p] # NoChild /\ (p \in fleet' \/ removing'[p])
               /\ \A d \in Child : Alive(d)' => owner'[d] # p
    <3>1. p # o /\ timer[p]
      BY <2>1
    <3> QED BY <1>2, <1>3, <3>1 DEF DInv, TimersIdle
  <2> QED BY <2>1 DEF TimersIdle
<1>7. Recorded'
  BY <1>1, <1>3 DEF DInv, Recorded
<1>8. StopStands'
  BY DEF StopStands
<1>9. ASSUME UNCHANGED reloadVars, cur' = cur \/ cur = o
      PROVE  ReloadStands' /\ StoppingIsAttended'
  <2> USE DEF reloadVars
  <2>1. ASSUME rphase \in {"draining", "queued"}
        PROVE  /\ robj \in Obj /\ rchild \in Child
               /\ child'[robj] = rchild => stopping'[robj]
               /\ child'[robj] = rchild /\ Alive(rchild)' =>
                    rphase = "draining" /\ [who |-> "reload", child |-> rchild] \in wait
               /\ life = "up" /\ robj \in fleet' /\ child'[robj] # rchild /\ stopping'[robj] =>
                    removing[robj] \/ cur' = robj
    <3>1. robj \in Obj /\ rchild \in Child
      BY <2>1 DEF DInv, ReloadStands
    <3>2. CASE robj = o
      BY <1>1, <1>3, <3>1, <3>2
    <3>3. CASE robj # o
      <4>1. child'[robj] = child[robj]
        BY <1>3, <3>1, <3>3
      <4>2. Alive(rchild)' <=> Alive(rchild)
        <5>1. proc'[rchild] = proc[rchild]
          BY <1>1, <1>2, <3>1
        <5> QED BY <1>9, <5>1 DEF Alive
      <4>3. robj \in fleet' => robj \in fleet
        BY <3>3
      <4> QED BY <1>9, <2>1, <3>1, <3>3, <4>1, <4>2, <4>3 DEF DInv, ReloadStands
    <3> QED BY <3>2, <3>3
  <2>2. ReloadStands'
    BY <1>9, <2>1 DEF ReloadStands
  <2>3. StoppingIsAttended'
    BY <1>9 DEF DInv, StoppingIsAttended, TypeOK
  <2> QED BY <2>2, <2>3
<1> QED BY <1>4, <1>5, <1>6, <1>7, <1>8, <1>9

\* A spawn keeps the types.
LEMMA SpawnTypes ==
    ASSUME TypeOK, NEW o \in Obj, NEW c \in Fresh, Spawn(o, c)
    PROVE  /\ child' \in [Obj -> Child \cup {NoChild}]
           /\ proc' \in [Child -> {"booting", "up", "dead", "refused", "failed", "gone"}]
           /\ owner' \in [Child -> Obj \cup {NoObj}]
           /\ busy' \in [Child -> BOOLEAN]
           /\ caught' \in [Child -> SUBSET Signal] /\ sig' \in [Child -> SUBSET Signal]
BY DEF Fresh, Spawn, TypeOK

\* An operation leaves the queue, and the reload stays as it is.
LEMMA NextOp ==
    ASSUME DInv, queue # << >>, queue' = Tail(queue), step' \in {step, "idle"},
           UNCHANGED <<life, rphase>>
    PROVE  queue' \in Seq(Op) /\ QueueStands'
<1>1. queue \in Seq(Op)
  BY DEF DInv, TypeOK
<1>2. /\ queue' \in Seq(Op)
      /\ \A i \in DOMAIN queue' : i \in Nat /\ i + 1 \in DOMAIN queue /\ queue'[i] = queue[i + 1]
  BY <1>1, TailIs
<1> QED BY <1>2 DEF DInv, QueueStands

\* The children, the fleet and what is said of them stay as they are, or an
\* operation or reload takes note of it.
LEMMA QuietStep ==
    ASSUME DInv, UNCHANGED <<fleet, child, stopping, removing, timer, procVars, wait, life,
                             forced, forcing>>,
           queue' \in Seq(Op), step' \in {"idle", "next", "stopping"}, todo' \subseteq Id,
           cur' = cur, UNCHANGED reloadVars, requests' \in 0 .. MaxRequests,
           QueueStands', OpStands'
    PROVE  DInv'
<1> USE DEF procVars, reloadVars
<1>1. TypeOK'
  BY DEF DInv, TypeOK
<1>2. Owned' /\ ChildrenAccounted' /\ TimersIdle' /\ Recorded' /\ StopStands'
  BY DEF DInv, Owned, ChildrenAccounted, TimersIdle, Recorded, StopStands, Alive, Running
<1>3. ReloadStands' /\ StoppingIsAttended'
  BY DEF DInv, ReloadStands, StoppingIsAttended, Alive
<1> QED BY <1>1, <1>2, <1>3 DEF DInv

\* A restart timer fires.
LEMMA TimerStep == ASSUME DInv, NEW o \in Obj, RestartTimer(o) PROVE DInv'
<1>1. /\ Running /\ timer[o] /\ timer' = [timer EXCEPT ![o] = FALSE]
      /\ UNCHANGED <<fleet, stopping, removing, opVars, reloadVars, wait, lifeVars, requests>>
      /\ \/ /\ life = "up" /\ ~stopping[o] /\ \E c \in Fresh : Spawn(o, c)
         \/ UNCHANGED <<child, procVars>>
  BY DEF RestartTimer, ShuttingDown
<1>2. \A p \in Obj : timer'[p] => p # o /\ timer[p]
  BY <1>1 DEF DInv, TypeOK
<1>3. timer' \in [Obj -> BOOLEAN]
  BY <1>1 DEF DInv, TypeOK
<1>4. CASE UNCHANGED <<child, procVars>>
  <2> USE DEF procVars
  <2>1. TypeOK'
    BY <1>1, <1>3, <1>4 DEF DInv, TypeOK, opVars, reloadVars, lifeVars
  <2> QED BY <1>1, <1>2, <1>4, <2>1, CalmStep DEF Alive
<1>5. ASSUME life = "up", ~stopping[o], NEW c \in Fresh, Spawn(o, c)
      PROVE  DInv'
  <2>1. TypeOK'
    BY <1>1, <1>3, <1>5, SpawnTypes DEF DInv, TypeOK, opVars, reloadVars, lifeVars
  <2>2. (o \in fleet \/ removing[o]) /\ \A d \in Child : Alive(d) => owner[d] # o
    BY <1>1 DEF DInv, TimersIdle
  <2>3. /\ Owned' /\ ChildrenAccounted' /\ TimersIdle' /\ Recorded' /\ StopStands'
        /\ ReloadStands' /\ StoppingIsAttended'
    BY <1>1, <1>2, <1>5, <2>2, SpawnKeeps DEF opVars, lifeVars
  <2>4. QueueStands'
    BY <1>1 DEF DInv, QueueStands, opVars, reloadVars, lifeVars
  <2>5. OpStands'
    <3>1. /\ c \in Child /\ child' = [child EXCEPT ![o] = c]
          /\ owner' = [owner EXCEPT ![c] = o]
          /\ \A d \in Child : d # c => proc'[d] = proc[d]
      BY <1>5 DEF Fresh, Spawn, DInv, TypeOK
    <3>2. step = "stopping" => cur \in Obj /\ cur # o
      BY <1>5 DEF DInv, OpStands
    <3>3. ASSUME step = "stopping", NEW d \in Child, Alive(d)', owner'[d] = cur
          PROVE  [who |-> "op", child |-> d] \in wait
      <4>1. d # c
        BY <3>1, <3>2, <3>3 DEF DInv, TypeOK
      <4>2. Alive(d) /\ owner[d] = cur
        BY <3>1, <3>3, <4>1 DEF Alive, DInv, TypeOK
      <4> QED BY <3>3, <4>2 DEF DInv, OpStands
    <3> QED BY <1>1, <3>1, <3>2, <3>3 DEF DInv, OpStands, TypeOK, opVars
  <2> QED BY <2>1, <2>3, <2>4, <2>5 DEF DInv
<1> QED BY <1>1, <1>4, <1>5

\* A worker is added.
LEMMA AddStep == ASSUME DInv, NEW o \in Obj, Add(o) PROVE DInv'
<1>1. /\ OpReady("add") /\ queue' = Tail(queue)
      /\ UNCHANGED <<stopping, removing, timer, step, todo, cur, reloadVars, wait,
                     lifeVars, requests>>
      /\ \/ UNCHANGED <<fleet, child, procVars>>
         \/ /\ ~Has(IdOf[o]) /\ child[o] = NoChild
            /\ fleet' = fleet \cup {o} /\ \E c \in Fresh : Spawn(o, c)
  BY DEF Add
<1>2. /\ queue # << >> /\ queue[1].kind = "add" /\ step = "idle" /\ Running
      /\ queue \in Seq(Op) /\ 1 \in DOMAIN queue
  BY <1>1, TailIs DEF OpReady, DInv, TypeOK
<1>3. queue' \in Seq(Op) /\ QueueStands'
  BY <1>1, <1>2, NextOp DEF DInv, reloadVars, lifeVars
<1>4. OpStands'
  BY <1>1, <1>2 DEF DInv, OpStands
<1>5. CASE UNCHANGED <<fleet, child, procVars>>
  BY <1>1, <1>3, <1>4, <1>5, QuietStep DEF DInv, TypeOK, reloadVars, lifeVars
<1>6. ASSUME ~Has(IdOf[o]), child[o] = NoChild, fleet' = fleet \cup {o},
             NEW c \in Fresh, Spawn(o, c)
      PROVE  DInv'
  <2>1. TypeOK'
    <3>1. fleet' \subseteq Obj /\ \A p, q \in fleet' : IdOf[p] = IdOf[q] => p = q
      BY <1>6 DEF Has, DInv, TypeOK
    <3> QED BY <1>1, <1>3, <1>6, <3>1, SpawnTypes DEF DInv, TypeOK, reloadVars, lifeVars
  <2>2. life # "stopping"
    BY <1>2 DEF DInv, QueueStands
  <2>3. ~stopping[o] /\ ~timer[o]
    BY <1>6 DEF DInv, Recorded, TimersIdle
  <2>4. ASSUME NEW d \in Child, Alive(d) PROVE owner[d] # o
    <3>1. d # NoChild
      BY DaemonAssumption DEF DaemonAssumption
    <3> QED BY <1>2, <1>6, <2>4, <3>1 DEF DInv, ChildrenAccounted
  <2>5. /\ Owned' /\ ChildrenAccounted' /\ TimersIdle' /\ Recorded' /\ StopStands'
        /\ ReloadStands' /\ StoppingIsAttended'
    BY <1>1, <1>6, <2>2, <2>3, <2>4, SpawnKeeps DEF lifeVars
  <2> QED BY <1>3, <1>4, <2>1, <2>5 DEF DInv
<1> QED BY <1>1, <1>5, <1>6

-----------------------------------------------------------------------------
(* Requests and operations. *)

\* A signal to some records keeps the types.
LEMMA KillTypes ==
    ASSUME TypeOK, NEW S, NEW s \in Signal, Kill(S, s)
    PROVE  sig' \in [Child -> SUBSET Signal]
BY DEF Kill, TypeOK

\* While an operation is under way the shutdown has not come to its turn.
LEMMA BeforeStop == DInv /\ step # "idle" => life # "stopping"
BY DEF DInv, QueueStands

\* A client's request is queued.
LEMMA RequestStep == ASSUME DInv, NEW op \in Requests, Request(op) PROVE DInv'
<1>1. /\ life = "up" /\ requests > 0 /\ requests' = requests - 1 /\ Enqueue(op)
      /\ UNCHANGED <<fleetVars, procVars, step, todo, cur, reloadVars, wait, lifeVars>>
  BY DEF Request
<1>2. op \in Op /\ op.kind \notin {"respawn", "barrier"}
  BY DEF Requests, Op, OpKind
<1>3. queue \in Seq(Op) /\ MaxRequests \in Nat /\ requests \in 0 .. MaxRequests
  BY DaemonAssumption DEF DaemonAssumption, DInv, TypeOK
<1>4. /\ queue' \in Seq(Op) /\ queue' # << >>
      /\ \A i \in DOMAIN queue' : \/ i \in DOMAIN queue /\ queue'[i] = queue[i]
                                  \/ queue'[i].kind \notin {"respawn", "barrier"}
  BY <1>1, <1>2, <1>3, AppendIs
<1>5. QueueStands'
  BY <1>1, <1>4 DEF DInv, QueueStands, reloadVars, lifeVars
<1>6. OpStands'
  BY <1>1, <1>4 DEF DInv, OpStands, Alive, procVars, fleetVars
<1>7. requests' \in 0 .. MaxRequests
  BY <1>1, <1>3
<1> QED BY <1>1, <1>4, <1>5, <1>6, <1>7, QuietStep DEF DInv, TypeOK, fleetVars, lifeVars

\* An operation has its turn.
LEMMA BeginStep == ASSUME DInv, OpBegins PROVE DInv'
<1>1. /\ Running /\ step = "idle" /\ queue # << >>
      /\ Head(queue).kind \in {"remove", "drainremove", "restart"}
      /\ step' = "next" /\ todo' = { i \in Head(queue).ids : Has(i) }
      /\ UNCHANGED <<fleetVars, procVars, queue, cur, reloadVars, wait, lifeVars, requests>>
  BY DEF OpBegins, OpReady
<1>2. queue \in Seq(Op) /\ Head(queue) \in Op /\ Head(queue) = queue[1] /\ 1 \in DOMAIN queue
  BY <1>1, TailIs DEF DInv, TypeOK
<1>3. QueueStands'
  BY <1>1, <1>2 DEF DInv, QueueStands, reloadVars, lifeVars
<1>4. OpStands'
  BY <1>1 DEF DInv, OpStands
<1>5. todo' \subseteq Id
  BY <1>1, <1>2 DEF Op
<1> QED BY <1>1, <1>2, <1>3, <1>4, <1>5, QuietStep DEF DInv, TypeOK, fleetVars, lifeVars

\* An operation is over.
LEMMA EndStep == ASSUME DInv, OpEnds PROVE DInv'
<1>1. /\ step = "next" /\ step' = "idle" /\ queue' = Tail(queue)
      /\ UNCHANGED <<fleetVars, procVars, todo, cur, reloadVars, wait, lifeVars, requests>>
  BY DEF OpEnds
<1>2. queue # << >>
  BY <1>1 DEF DInv, OpStands
<1>3. queue' \in Seq(Op) /\ QueueStands'
  BY <1>1, <1>2, NextOp DEF reloadVars, lifeVars
<1>4. OpStands'
  BY <1>1 DEF DInv, OpStands
<1> QED BY <1>1, <1>3, <1>4, QuietStep DEF DInv, TypeOK, fleetVars, lifeVars

\* A drain-remove flags and signals one worker.
LEMMA DrainRemoveStep == ASSUME DInv, NEW i \in Id, DrainRemoveNext(i) PROVE DInv'
<1> DEFINE o == At(i)
<1>1. /\ Running /\ step = "next" /\ todo' = todo \ {i}
      /\ UNCHANGED <<proc, owner, busy, caught, queue, step, cur, reloadVars, wait,
                     lifeVars, requests>>
  BY DEF DrainRemoveNext
<1>2. todo' \subseteq Id /\ QueueStands' /\ OpStands' /\ life # "stopping"
  BY <1>1, BeforeStop DEF DInv, TypeOK, QueueStands, OpStands, reloadVars, lifeVars
<1>3. CASE ~Has(i)
  <2>1. UNCHANGED <<fleetVars, sig>>
    BY <1>3 DEF DrainRemoveNext
  <2> QED BY <1>1, <1>2, <2>1, QuietStep DEF DInv, TypeOK, fleetVars, procVars, lifeVars
<1>4. CASE Has(i)
  <2>1. /\ stopping' = [stopping EXCEPT ![o] = TRUE] /\ removing' = [removing EXCEPT ![o] = TRUE]
        /\ timer' = [timer EXCEPT ![o] = FALSE] /\ Kill({o}, "usr2")
        /\ fleet' = IF HasPid(o) THEN fleet ELSE fleet \ {o}
        /\ child' = child
    BY <1>4 DEF DrainRemoveNext
  <2>2. o \in fleet /\ o \in Obj
    BY <1>4, AtIs DEF DInv, TypeOK
  <2>3. sig' \in [Child -> SUBSET Signal]
    BY <2>1, KillTypes DEF DInv, Signal
  <2>4. /\ stopping' \in [Obj -> BOOLEAN] /\ removing' \in [Obj -> BOOLEAN]
        /\ timer' \in [Obj -> BOOLEAN]
        /\ stopping'[o] /\ removing'[o] /\ ~timer'[o]
        /\ \A p \in Obj : p # o => /\ stopping'[p] = stopping[p] /\ removing'[p] = removing[p]
                                   /\ timer'[p] = timer[p] /\ (p \in fleet' <=> p \in fleet)
        /\ fleet' \subseteq fleet
    BY <2>1, <2>2 DEF DInv, TypeOK
  <2>5. TypeOK'
    BY <1>1, <1>2, <2>1, <2>3, <2>4 DEF DInv, TypeOK, reloadVars, lifeVars
  <2>6. Owned'
    BY <1>1 DEF DInv, Owned
  <2>7. ChildrenAccounted'
    <3>1. ASSUME NEW d \in Child, Alive(d), Running
          PROVE  child[owner[d]] = d /\ (owner[d] \in fleet' \/ removing'[owner[d]])
      <4>1. owner[d] \in Obj
        BY <3>1 DEF DInv, Owned, Alive
      <4>2. child[owner[d]] = d /\ (owner[d] \in fleet \/ removing[owner[d]])
        BY <3>1 DEF DInv, ChildrenAccounted
      <4> QED BY <2>4, <4>1, <4>2
    <3> QED BY <1>1, <2>1, <3>1 DEF ChildrenAccounted, Alive, Running, lifeVars
  <2>8. TimersIdle'
    <3>1. ASSUME NEW p \in Obj, timer'[p]
          PROVE  /\ ~stopping'[p] /\ child[p] # NoChild /\ (p \in fleet' \/ removing'[p])
                 /\ \A d \in Child : Alive(d) => owner[d] # p
      BY <2>4, <3>1 DEF DInv, TimersIdle
    <3> QED BY <1>1, <2>1, <3>1 DEF TimersIdle, Alive
  <2>9. Recorded'
    BY <2>1, <2>2, <2>4 DEF DInv, Recorded
  <2>10. ReloadStands'
    <3>1. rphase \in {"draining", "queued"} => robj \in Obj
      BY DEF DInv, ReloadStands
    <3> QED BY <1>1, <2>1, <2>4, <3>1 DEF DInv, ReloadStands, Alive, reloadVars, lifeVars
  <2>11. StopStands'
    BY <1>1, <1>2 DEF StopStands, lifeVars
  <2>12. StoppingIsAttended'
    BY <1>1, <2>4 DEF DInv, TypeOK, StoppingIsAttended, reloadVars, lifeVars
  <2> QED BY <1>2, <2>5, <2>6, <2>7, <2>8, <2>9, <2>10, <2>11, <2>12 DEF DInv
<1> QED BY <1>3, <1>4

\* A remove or a restart stops one worker, and waits for its child.
LEMMA StopStep == ASSUME DInv, NEW i \in Id, StopNext(i) PROVE DInv'
<1> DEFINE o == At(i)
<1>1. /\ Running /\ step = "next" /\ todo' = todo \ {i} /\ cur = NoObj
      /\ UNCHANGED <<fleet, child, removing, proc, owner, busy, caught, queue, reloadVars,
                     lifeVars, requests>>
  BY DEF StopNext, DInv, OpStands
<1>2. todo' \subseteq Id /\ life # "stopping"
  BY <1>1, BeforeStop DEF DInv, TypeOK
<1>3. QueueStands'
  BY <1>1, <1>2 DEF DInv, QueueStands, reloadVars, lifeVars
<1>4. CASE ~Has(i)
  <2>1. UNCHANGED <<stopping, timer, sig, wait, step, cur>>
    BY <1>4 DEF StopNext
  <2>2. OpStands'
    BY <1>1, <2>1 DEF DInv, OpStands
  <2> QED BY <1>1, <1>2, <1>3, <2>1, <2>2, QuietStep DEF DInv, TypeOK, procVars, lifeVars
<1>5. CASE Has(i)
  <2>1. /\ stopping' = [stopping EXCEPT ![o] = TRUE] /\ timer' = [timer EXCEPT ![o] = FALSE]
        /\ Kill({o}, "term") /\ wait' = wait \cup WaitersOf({o}, "op")
        /\ cur' = o /\ step' = "stopping"
    BY <1>5 DEF StopNext
  <2>2. o \in fleet /\ o \in Obj
    BY <1>5, AtIs DEF DInv, TypeOK
  <2>3. sig' \in [Child -> SUBSET Signal]
    BY <2>1, KillTypes DEF DInv, Signal
  <2>4. /\ stopping' \in [Obj -> BOOLEAN] /\ timer' \in [Obj -> BOOLEAN]
        /\ stopping'[o] /\ ~timer'[o]
        /\ \A p \in Obj : p # o => stopping'[p] = stopping[p] /\ timer'[p] = timer[p]
    BY <2>1, <2>2 DEF DInv, TypeOK
  <2>5. /\ wait' \subseteq Waiter /\ wait \subseteq wait'
        /\ child[o] # NoChild /\ Alive(child[o]) => [who |-> "op", child |-> child[o]] \in wait'
    BY <2>1, <2>2, WaitersAre DEF DInv, TypeOK
  <2>6. TypeOK'
    BY <1>1, <1>2, <2>1, <2>2, <2>3, <2>4, <2>5 DEF DInv, TypeOK, reloadVars, lifeVars
  <2>7. Owned' /\ ChildrenAccounted'
    BY <1>1 DEF DInv, Owned, ChildrenAccounted, Alive, Running, lifeVars
  <2>8. TimersIdle'
    <3>1. ASSUME NEW p \in Obj, timer'[p]
          PROVE  /\ ~stopping'[p] /\ child[p] # NoChild /\ (p \in fleet \/ removing[p])
                 /\ \A d \in Child : Alive(d) => owner[d] # p
      BY <2>4, <3>1 DEF DInv, TimersIdle
    <3> QED BY <1>1, <3>1 DEF TimersIdle, Alive
  <2>9. Recorded'
    BY <1>1, <2>2, <2>4 DEF DInv, Recorded
  <2>10. OpStands'
    <3>1. ASSUME NEW d \in Child, Alive(d), owner[d] = o
          PROVE  [who |-> "op", child |-> d] \in wait'
      <4>1. child[o] = d /\ d # NoChild
        BY <1>1, <3>1, DaemonAssumption DEF DaemonAssumption, DInv, ChildrenAccounted
      <4> QED BY <2>5, <3>1, <4>1
    <3>2. child[o] # NoChild
      BY <2>2 DEF DInv, Recorded
    <3>3. \A p \in fleet : IdOf[p] = IdOf[o] => p = o
      BY <2>2 DEF DInv, TypeOK
    <3>4. queue # << >>
      BY <1>1 DEF DInv, OpStands
    <3> QED BY <1>1, <2>1, <2>2, <2>4, <3>1, <3>2, <3>3, <3>4 DEF OpStands, Alive
  <2>11. ReloadStands'
    <3>1. rphase \in {"draining", "queued"} => robj \in Obj /\ cur # robj
      BY <1>1, DaemonAssumption DEF DaemonAssumption, DInv, ReloadStands
    <3> QED BY <1>1, <2>1, <2>4, <2>5, <3>1 DEF DInv, ReloadStands, Alive, reloadVars, lifeVars
  <2>12. StopStands'
    BY <1>1, <1>2 DEF StopStands, lifeVars
  <2>13. StoppingIsAttended'
    <3>1. \A p \in fleet : p \in Obj /\ p # NoObj
      BY DaemonAssumption DEF DaemonAssumption, DInv, TypeOK
    <3> QED BY <1>1, <2>1, <2>4, <3>1 DEF DInv, StoppingIsAttended, reloadVars, lifeVars
  <2> QED BY <1>3, <2>6, <2>7, <2>8, <2>9, <2>10, <2>11, <2>12, <2>13 DEF DInv
<1> QED BY <1>4, <1>5

\* What an operation knows of the worker it has stopped.
LEMMA StoppedIs ==
    ASSUME DInv, NEW k, Stopped(k)
    PROVE  /\ cur \in Obj /\ stopping[cur] /\ child[cur] # NoChild /\ ~timer[cur]
           /\ cur \in fleet \/ removing[cur]
           /\ \A p \in fleet : IdOf[p] = IdOf[cur] => p = cur
           /\ \A d \in Child : Alive(d) => owner[d] # cur
           /\ step = "stopping" /\ queue # << >> /\ life # "stopping"
<1>1. step = "stopping" /\ ~Waits("op")
  BY DEF Stopped
<1>2. \A d \in Child : [who |-> "op", child |-> d] \notin wait
  BY <1>1 DEF Waits
<1>3. ~timer[cur]
  BY <1>1 DEF DInv, OpStands, TimersIdle
<1> QED BY <1>1, <1>2, <1>3, BeforeStop DEF DInv, OpStands

\* A remove deletes the worker it has stopped.
LEMMA RemovedStep == ASSUME DInv, Removed PROVE DInv'
<1>1. /\ Stopped("remove") /\ fleet' = { o \in fleet : IdOf[o] # IdOf[cur] }
      /\ step' = "next" /\ cur' = NoObj
      /\ UNCHANGED <<child, stopping, removing, timer, procVars, queue, todo, reloadVars, wait,
                     lifeVars, requests>>
  BY DEF Removed
<1>2. /\ cur \in Obj /\ stopping[cur] /\ ~timer[cur]
      /\ \A d \in Child : Alive(d) => owner[d] # cur
      /\ queue # << >> /\ life # "stopping"
  BY <1>1, StoppedIs
<1>3. fleet' \subseteq fleet /\ \A p \in fleet : p # cur => p \in fleet'
  BY <1>1, StoppedIs
<1>4. cur \notin fleet'
  BY <1>1
<1>5. TypeOK'
  BY <1>1, <1>3 DEF DInv, TypeOK, procVars, reloadVars, lifeVars
<1>6. Owned' /\ ChildrenAccounted'
  BY <1>1, <1>2, <1>3 DEF DInv, Owned, ChildrenAccounted, Alive, Running, procVars, lifeVars
<1>7. TimersIdle'
  BY <1>1, <1>2, <1>3 DEF DInv, TimersIdle, Alive, procVars
<1>8. Recorded'
  BY <1>1, <1>2, <1>3 DEF DInv, Recorded
<1>9. OpStands' /\ StopStands' /\ QueueStands'
  BY <1>1, <1>2 DEF DInv, OpStands, StopStands, QueueStands, reloadVars, lifeVars
<1>10. ReloadStands'
  BY <1>1, <1>3, <1>4 DEF DInv, ReloadStands, Alive, procVars, reloadVars, lifeVars
<1>11. StoppingIsAttended'
  BY <1>1, <1>3, <1>4 DEF DInv, StoppingIsAttended, reloadVars, lifeVars
<1> QED BY <1>5, <1>6, <1>7, <1>8, <1>9, <1>10, <1>11 DEF DInv

\* A restart starts the worker it has stopped.
LEMMA RestartedStep == ASSUME DInv, Restarted PROVE DInv'
<1>1. /\ Stopped("restart") /\ stopping' = [stopping EXCEPT ![cur] = FALSE]
      /\ step' = "next" /\ cur' = NoObj
      /\ UNCHANGED <<fleet, removing, timer, queue, todo, reloadVars, wait, lifeVars, requests>>
  BY DEF Restarted
<1>2. PICK c \in Fresh : Spawn(cur, c)
  BY DEF Restarted
<1>3. /\ cur \in Obj /\ ~timer[cur] /\ (cur \in fleet \/ removing[cur])
      /\ \A d \in Child : Alive(d) => owner[d] # cur
      /\ queue # << >> /\ life # "stopping"
  BY <1>1, StoppedIs
<1>4. /\ stopping' \in [Obj -> BOOLEAN] /\ ~stopping'[cur]
      /\ \A p \in Obj : p # cur => stopping'[p] = stopping[p]
  BY <1>1, <1>3 DEF DInv, TypeOK
<1>5. TypeOK'
  BY <1>1, <1>2, <1>3, <1>4, SpawnTypes DEF DInv, TypeOK, reloadVars, lifeVars
<1>6. /\ Owned' /\ ChildrenAccounted' /\ TimersIdle' /\ Recorded' /\ StopStands'
      /\ ReloadStands' /\ StoppingIsAttended'
  <2>1. \A p \in Obj : timer'[p] => p # cur /\ timer[p]
    BY <1>1, <1>3
  <2> QED BY <1>1, <1>2, <1>3, <1>4, <2>1, SpawnKeeps DEF lifeVars
<1>7. OpStands' /\ QueueStands'
  BY <1>1, <1>3 DEF DInv, OpStands, QueueStands, reloadVars, lifeVars
<1> QED BY <1>5, <1>6, <1>7 DEF DInv

-----------------------------------------------------------------------------
(* The rolling reload. *)

\* The reload begins, ends or moves on, and is in charge of no worker.
LEMMA ReloadMoves ==
    ASSUME DInv, TypeOK', UNCHANGED <<fleetVars, procVars, opVars, wait, lifeVars>>,
           rphase \in {"off", "next", "booting"}, rphase' \in {"off", "next", "booting"}
    PROVE  DInv'
<1> USE DEF fleetVars, procVars, opVars, lifeVars
<1>1. Owned' /\ ChildrenAccounted' /\ TimersIdle' /\ Recorded' /\ OpStands' /\ StopStands'
  BY DEF DInv, Owned, ChildrenAccounted, TimersIdle, Recorded, OpStands, StopStands, Alive, Running
<1>2. ReloadStands' /\ QueueStands' /\ StoppingIsAttended'
  BY DEF DInv, ReloadStands, QueueStands, StoppingIsAttended
<1> QED BY <1>1, <1>2 DEF DInv

LEMMA ReloadMoveSteps ==
    ASSUME DInv, (\E I \in SUBSET Id : ReloadRequest(I)) \/ ReloadEndsRoll \/ ReloadConfirms
    PROVE  DInv'
<1> USE DEF DInv, TypeOK, fleetVars, procVars, opVars, lifeVars
<1>1. ASSUME NEW I \in SUBSET Id, ReloadRequest(I) PROVE DInv'
  <2>1. requests' \in 0 .. MaxRequests
    BY <1>1, DaemonAssumption DEF DaemonAssumption, ReloadRequest
  <2>2. TypeOK'
    BY <1>1, <2>1 DEF ReloadRequest
  <2> QED BY <1>1, <2>2, ReloadMoves DEF ReloadRequest
<1>2. CASE ReloadEndsRoll
  <2>1. TypeOK'
    BY <1>2 DEF ReloadEndsRoll, ReloadOff
  <2> QED BY <1>2, <2>1, ReloadMoves DEF ReloadEndsRoll, ReloadOff
<1>3. CASE ReloadConfirms
  <2>1. TypeOK'
    BY <1>3 DEF ReloadConfirms, ReloadOff
  <2> QED BY <1>3, <2>1, ReloadMoves DEF ReloadConfirms, ReloadOff
<1> QED BY <1>1, <1>2, <1>3

\* The reload drains one worker.
LEMMA ReloadDrainStep == ASSUME DInv, NEW i \in Id, ReloadDrains(i) PROVE DInv'
<1> DEFINE o == At(i)
<1>1. /\ life = "up" /\ rphase = "next" /\ rphase' = "draining" /\ rtodo' = rtodo \ {i}
      /\ robj' = o /\ rchild' = child[o]
      /\ stopping' = [stopping EXCEPT ![o] = TRUE] /\ timer' = [timer EXCEPT ![o] = FALSE]
      /\ Kill({o}, "usr2") /\ wait' = wait \cup WaitersOf({o}, "reload")
      /\ UNCHANGED <<fleet, child, removing, proc, owner, busy, caught, opVars, lifeVars,
                     requests>>
  BY DEF ReloadDrains, ShuttingDown
<1>2. o \in fleet /\ o \in Obj
  BY AtIs DEF ReloadDrains, DInv, TypeOK
<1>3. sig' \in [Child -> SUBSET Signal]
  BY <1>1, KillTypes DEF DInv, Signal
<1>4. /\ stopping' \in [Obj -> BOOLEAN] /\ timer' \in [Obj -> BOOLEAN]
      /\ stopping'[o] /\ ~timer'[o]
      /\ \A p \in Obj : p # o => stopping'[p] = stopping[p] /\ timer'[p] = timer[p]
  BY <1>1, <1>2 DEF DInv, TypeOK
<1>5. /\ wait' \subseteq Waiter /\ wait \subseteq wait'
      /\ child[o] # NoChild /\ Alive(child[o]) => [who |-> "reload", child |-> child[o]] \in wait'
  BY <1>1, <1>2, WaitersAre DEF DInv, TypeOK
<1>6. child[o] # NoChild /\ child[o] \in Child
  BY <1>2 DEF DInv, Recorded, TypeOK
<1>7. TypeOK'
  BY <1>1, <1>2, <1>3, <1>4, <1>5, <1>6 DEF DInv, TypeOK, opVars, lifeVars
<1>8. Owned' /\ ChildrenAccounted' /\ StopStands'
  BY <1>1 DEF DInv, Owned, ChildrenAccounted, StopStands, Alive, Running, lifeVars
<1>9. TimersIdle'
  <2>1. ASSUME NEW p \in Obj, timer'[p]
        PROVE  /\ ~stopping'[p] /\ child[p] # NoChild /\ (p \in fleet \/ removing[p])
               /\ \A d \in Child : Alive(d) => owner[d] # p
    BY <1>4, <2>1 DEF DInv, TimersIdle
  <2> QED BY <1>1, <2>1 DEF TimersIdle, Alive
<1>10. Recorded'
  BY <1>1, <1>2, <1>4 DEF DInv, Recorded
<1>11. OpStands'
  <2>1. step = "stopping" => stopping'[cur]
    BY <1>4 DEF DInv, OpStands
  <2> QED BY <1>1, <1>5, <2>1 DEF DInv, OpStands, Alive, opVars
<1>12. ReloadStands'
  BY <1>1, <1>2, <1>4, <1>5, <1>6 DEF ReloadStands, Alive
<1>13. QueueStands'
  BY <1>1 DEF DInv, QueueStands, opVars, lifeVars
<1>14. StoppingIsAttended'
  BY <1>1, <1>4 DEF DInv, TypeOK, StoppingIsAttended, opVars, lifeVars
<1> QED BY <1>7, <1>8, <1>9, <1>10, <1>11, <1>12, <1>13, <1>14 DEF DInv

\* The drained worker's respawn is queued.
LEMMA ReloadQueuesStep == ASSUME DInv, ReloadQueues PROVE DInv'
<1> DEFINE op == [kind |-> "respawn", ids |-> {}, obj |-> NoObj]
<1>1. /\ rphase = "draining" /\ ~Waits("reload") /\ Enqueue(op) /\ rphase' = "queued"
      /\ UNCHANGED <<fleetVars, procVars, step, todo, cur, rtodo, robj, rchild, wait, lifeVars,
                     requests>>
  BY DEF ReloadQueues
<1>2. op \in Op /\ queue \in Seq(Op)
  BY DEF Op, OpKind, DInv, TypeOK
<1> HIDE DEF op
<1>3. /\ queue' \in Seq(Op) /\ queue' # << >>
      /\ \A i \in DOMAIN queue' : \/ i \in DOMAIN queue /\ queue'[i] = queue[i]
                                  \/ i = Len(queue) + 1 /\ queue'[i] = op
      /\ DOMAIN queue = 1 .. Len(queue) /\ Len(queue) \in Nat
  BY <1>1, <1>2, AppendIs
<1>4. op.kind = "respawn"
  BY DEF op
<1>5. \A i \in DOMAIN queue : queue[i].kind # "respawn"
  BY <1>1 DEF DInv, QueueStands
<1>6. QueueStands'
  BY <1>1, <1>3, <1>4, <1>5 DEF DInv, QueueStands, lifeVars
<1>7. ReloadStands'
  <2>1. [who |-> "reload", child |-> rchild] \notin wait
    BY <1>1 DEF Waits
  <2> QED BY <1>1, <2>1 DEF DInv, ReloadStands, Alive, fleetVars, procVars, lifeVars
<1>8. TypeOK'
  BY <1>1, <1>3 DEF DInv, TypeOK, fleetVars, procVars, lifeVars
<1> USE <1>1 DEF fleetVars, procVars, lifeVars
<1>9. Owned' /\ ChildrenAccounted' /\ TimersIdle' /\ Recorded' /\ StopStands'
  BY DEF DInv, Owned, ChildrenAccounted, TimersIdle, Recorded, StopStands, Alive, Running
<1>10. OpStands' /\ StoppingIsAttended'
  BY <1>3 DEF DInv, OpStands, StoppingIsAttended, Alive
<1> QED BY <1>6, <1>7, <1>8, <1>9, <1>10 DEF DInv

\* The respawn has its turn.
LEMMA RespawnStep == ASSUME DInv, Respawn PROVE DInv'
<1>1. /\ OpReady("respawn") /\ queue' = Tail(queue)
      /\ UNCHANGED <<fleet, removing, timer, step, todo, cur, wait, lifeVars, requests>>
  BY DEF Respawn
<1>2. /\ queue # << >> /\ step = "idle" /\ Running /\ Head(queue).kind = "respawn"
      /\ queue \in Seq(Op)
  BY <1>1 DEF OpReady, DInv, TypeOK
<1>3. /\ queue' \in Seq(Op) /\ Head(queue) = queue[1] /\ 1 \in DOMAIN queue
      /\ \A i \in DOMAIN queue' : /\ i \in Nat \ {0} /\ i + 1 \in DOMAIN queue
                                  /\ queue'[i] = queue[i + 1]
  BY <1>1, <1>2, TailIs
<1>4. rphase = "queued" /\ \A i \in DOMAIN queue' : queue'[i].kind # "respawn"
  BY <1>2, <1>3 DEF DInv, QueueStands
<1>5. QueueStands'
  BY <1>1, <1>3, <1>4 DEF DInv, QueueStands, lifeVars
<1>6. OpStands'
  BY <1>1, <1>2 DEF DInv, OpStands
<1>7. robj \in Obj /\ rchild \in Child
  BY <1>4 DEF DInv, ReloadStands
<1>8. CASE MayRespawn
  <2>1. /\ stopping' = [stopping EXCEPT ![robj] = FALSE] /\ rphase' = "booting"
        /\ UNCHANGED <<rtodo, robj>> /\ \E c \in Fresh : Spawn(robj, c) /\ rchild' = c
    BY <1>8 DEF Respawn
  <2>2. PICK c \in Fresh : Spawn(robj, c) /\ rchild' = c
    BY <2>1
  <2>3. robj \in fleet /\ life = "up" /\ child[robj] = rchild
    BY <1>8 DEF MayRespawn, ShuttingDown
  <2>4. ~Alive(rchild) /\ stopping[robj] /\ ~timer[robj]
    BY <1>4, <1>7, <2>3 DEF DInv, ReloadStands, TimersIdle
  <2>5. \A d \in Child : Alive(d) => owner[d] # robj
    BY <1>2, <2>3, <2>4 DEF DInv, ChildrenAccounted
  <2>6. /\ stopping' \in [Obj -> BOOLEAN] /\ ~stopping'[robj]
        /\ \A p \in Obj : p # robj => stopping'[p] = stopping[p]
    BY <1>7, <2>1 DEF DInv, TypeOK
  <2>7. TypeOK'
    <3>1. rchild' \in Child
      BY <2>2 DEF Fresh
    <3> QED BY <1>1, <1>3, <1>7, <2>1, <2>2, <2>6, <3>1, SpawnTypes DEF DInv, TypeOK, lifeVars
  <2>8. Owned' /\ ChildrenAccounted' /\ TimersIdle' /\ Recorded' /\ StopStands'
    <3>1. \A p \in Obj : timer'[p] => p # robj /\ timer[p]
      BY <1>1, <2>4
    <3> QED BY <1>1, <1>7, <2>2, <2>3, <2>5, <2>6, <3>1, SpawnKeeps DEF lifeVars
  <2>9. ReloadStands'
    BY <2>1 DEF ReloadStands
  <2>10. StoppingIsAttended'
    BY <1>1, <2>6 DEF DInv, TypeOK, StoppingIsAttended, lifeVars
  <2> QED BY <1>5, <1>6, <2>7, <2>8, <2>9, <2>10 DEF DInv
<1>9. CASE ~MayRespawn
  <2>1. ReloadOff /\ UNCHANGED <<stopping, child, procVars>>
    BY <1>9 DEF Respawn
  <2> USE <1>1, <2>1 DEF ReloadOff, procVars, lifeVars
  <2>2. TypeOK'
    BY <1>3 DEF DInv, TypeOK
  <2>3. Owned' /\ ChildrenAccounted' /\ TimersIdle' /\ Recorded' /\ StopStands'
    BY DEF DInv, Owned, ChildrenAccounted, TimersIdle, Recorded, StopStands, Alive, Running
  <2>4. ReloadStands'
    BY DEF ReloadStands
  <2>5. StoppingIsAttended'
    <3>1. ASSUME life = "up", robj \in fleet, stopping[robj] PROVE removing[robj] \/ cur = robj
      BY <1>4, <1>9, <3>1 DEF DInv, ReloadStands, MayRespawn, ShuttingDown
    <3> QED BY <3>1 DEF DInv, StoppingIsAttended
  <2> QED BY <1>5, <1>6, <2>2, <2>3, <2>4, <2>5 DEF DInv
<1> QED BY <1>8, <1>9

-----------------------------------------------------------------------------
(* The end of the daemon. *)

LEMMA ShutdownStep == ASSUME DInv, NEW force \in BOOLEAN, Shutdown(force) PROVE DInv'
<1>1. /\ life = "up" /\ life' = "closing" /\ forced' = force /\ Enqueue(Barrier)
      /\ UNCHANGED <<fleetVars, procVars, step, todo, cur, reloadVars, wait, forcing, requests>>
  BY DEF Shutdown
<1>2. Barrier \in Op /\ queue \in Seq(Op) /\ Barrier.kind = "barrier"
  BY DEF Barrier, Op, OpKind, DInv, TypeOK
<1>3. /\ queue' \in Seq(Op) /\ queue' # << >>
      /\ \A i \in DOMAIN queue' : \/ i \in DOMAIN queue /\ queue'[i] = queue[i]
                                  \/ i = Len(queue) + 1 /\ queue'[i] = Barrier
      /\ DOMAIN queue = 1 .. Len(queue) /\ Len(queue) \in Nat
      /\ DOMAIN queue' = 1 .. Len(queue) + 1
  BY <1>1, <1>2, AppendIs
<1>4. \A i \in DOMAIN queue : queue[i].kind # "barrier"
  BY <1>1 DEF DInv, QueueStands
<1>5. QueueStands'
  <2>1. \A i \in DOMAIN queue' : queue'[i].kind = "barrier" => i = Len(queue) + 1
    BY <1>3, <1>4
  <2>2. \A i \in DOMAIN queue' : queue'[i].kind = "respawn" =>
           i \in DOMAIN queue /\ queue[i].kind = "respawn"
    BY <1>2, <1>3
  <2>3. \A i, j \in DOMAIN queue' : i < j /\ queue'[i].kind = "barrier" => FALSE
    BY <1>3, <2>1
  <2> QED BY <1>1, <2>2, <2>3 DEF DInv, QueueStands, reloadVars
<1> USE <1>1 DEF fleetVars, procVars, reloadVars
<1>6. TypeOK'
  BY <1>3 DEF DInv, TypeOK
<1>7. Owned' /\ ChildrenAccounted' /\ TimersIdle' /\ Recorded' /\ StopStands'
  BY DEF DInv, Owned, ChildrenAccounted, TimersIdle, Recorded, StopStands, Alive, Running
<1>8. OpStands' /\ ReloadStands' /\ StoppingIsAttended'
  BY <1>3 DEF DInv, OpStands, ReloadStands, StoppingIsAttended, Alive
<1> QED BY <1>5, <1>6, <1>7, <1>8 DEF DInv

LEMMA EscalateStep == ASSUME DInv, Escalate PROVE DInv'
<1>1. /\ life \in {"closing", "stopping"} /\ forcing' = TRUE /\ Kill(fleet, "term")
      /\ wait' = wait \cup WaitersOf(fleet, "escalate")
      /\ UNCHANGED <<fleetVars, proc, owner, busy, caught, opVars, reloadVars, life, forced,
                     requests>>
  BY DEF Escalate
<1>2. sig' \in [Child -> SUBSET Signal]
  BY <1>1, KillTypes DEF DInv, Signal
<1>3. fleet \in SUBSET Obj
  BY DEF DInv, TypeOK
<1>4. wait' \subseteq Waiter /\ wait \subseteq wait'
  BY <1>1, <1>3, WaitersAre DEF DInv, TypeOK
<1> USE <1>1 DEF fleetVars, opVars, reloadVars
<1>5. TypeOK'
  BY <1>2, <1>4 DEF DInv, TypeOK
<1>6. Owned' /\ ChildrenAccounted' /\ TimersIdle' /\ Recorded' /\ QueueStands'
  BY DEF DInv, Owned, ChildrenAccounted, TimersIdle, Recorded, QueueStands, Alive, Running
<1>7. OpStands' /\ ReloadStands' /\ StopStands' /\ StoppingIsAttended'
  BY <1>4 DEF DInv, OpStands, ReloadStands, StopStands, StoppingIsAttended, Alive
<1> QED BY <1>5, <1>6, <1>7 DEF DInv

LEMMA StopFleetStep == ASSUME DInv, StopFleet PROVE DInv'
<1>1. /\ OpReady("barrier") /\ queue' = Tail(queue) /\ life' = "stopping"
      /\ stopping' = [o \in Obj |-> stopping[o] \/ o \in fleet]
      /\ timer' = [o \in Obj |-> timer[o] /\ o \notin fleet]
      /\ wait' = wait \cup WaitersOf(fleet, "shutdown")
      /\ \E s \in Signal : Kill(fleet, s)
      /\ UNCHANGED <<fleet, child, removing, proc, owner, busy, caught, step, todo, cur,
                     reloadVars, forced, forcing, requests>>
  BY DEF StopFleet, AtBarrier, ShutdownWaits, Signal
<1>2. /\ queue # << >> /\ step = "idle" /\ Running /\ Head(queue).kind = "barrier"
      /\ queue \in Seq(Op) /\ fleet \in SUBSET Obj
  BY <1>1 DEF OpReady, DInv, TypeOK
<1>3. /\ queue' \in Seq(Op) /\ Head(queue) = queue[1] /\ 1 \in DOMAIN queue
      /\ \A i \in DOMAIN queue' : /\ i \in Nat \ {0} /\ i + 1 \in DOMAIN queue
                                  /\ queue'[i] = queue[i + 1]
  BY <1>1, <1>2, TailIs
<1>4. sig' \in [Child -> SUBSET Signal]
  BY <1>1, KillTypes DEF DInv
<1>5. /\ wait' \subseteq Waiter /\ wait \subseteq wait'
      /\ \A o \in fleet : child[o] # NoChild /\ Alive(child[o]) =>
                            [who |-> "shutdown", child |-> child[o]] \in wait'
  BY <1>1, <1>2, WaitersAre DEF DInv, TypeOK
<1>6. TypeOK'
  BY <1>1, <1>3, <1>4, <1>5 DEF DInv, TypeOK, reloadVars
<1>7. Owned' /\ ChildrenAccounted'
  BY <1>1, <1>2 DEF DInv, Owned, ChildrenAccounted, Alive, Running
<1>8. TimersIdle'
  <2>1. ASSUME NEW p \in Obj, timer'[p]
        PROVE  /\ ~stopping'[p] /\ child[p] # NoChild /\ (p \in fleet \/ removing[p])
               /\ \A d \in Child : Alive(d) => owner[d] # p
    BY <1>1, <2>1 DEF DInv, TimersIdle
  <2> QED BY <1>1, <2>1 DEF TimersIdle, Alive
<1>9. Recorded'
  BY <1>1 DEF DInv, Recorded
<1>10. OpStands'
  BY <1>1, <1>2 DEF DInv, OpStands
<1>11. ReloadStands'
  BY <1>1, <1>5 DEF DInv, ReloadStands, Alive, reloadVars
<1>12. QueueStands'
  <2>1. \A i \in DOMAIN queue' : queue'[i].kind = "respawn"
    <3>1. ASSUME NEW i \in DOMAIN queue' PROVE queue'[i].kind = "respawn"
      <4>1. 1 < i + 1
        BY <1>3
      <4> QED BY <1>2, <1>3, <4>1 DEF DInv, QueueStands
    <3> QED BY <3>1
  <2> QED BY <1>1, <1>2, <1>3, <2>1 DEF DInv, QueueStands, reloadVars
<1>13. StopStands'
  <2>1. ASSUME NEW d \in Child, Alive(d), owner[d] \in fleet
        PROVE  [who |-> "shutdown", child |-> d] \in wait'
    <3>1. child[owner[d]] = d /\ d # NoChild
      BY <1>2, <2>1, DaemonAssumption DEF DaemonAssumption, DInv, ChildrenAccounted
    <3> QED BY <1>5, <2>1, <3>1
  <2> QED BY <1>1, <2>1 DEF StopStands, Alive
<1>14. StoppingIsAttended'
  BY <1>1 DEF StoppingIsAttended
<1> QED BY <1>6, <1>7, <1>8, <1>9, <1>10, <1>11, <1>12, <1>13, <1>14 DEF DInv

\* The daemon is gone, and its memory with it.
LEMMA ForgetStep == ASSUME DInv, DaemonExit \/ DaemonCrash PROVE DInv'
<1>1. Forget /\ life' \in {"exited", "crashed"}
  BY DEF DaemonExit, DaemonCrash
<1> USE <1>1 DEF Forget, ReloadOff, procVars
<1>2. queue' = << >> /\ queue' \in Seq(Op) /\ DOMAIN queue' = {}
  BY EmptySeq
<1>3. TypeOK'
  BY <1>2 DEF DInv, TypeOK
<1>4. Owned' /\ ChildrenAccounted' /\ TimersIdle' /\ Recorded'
  BY DEF DInv, Owned, ChildrenAccounted, TimersIdle, Recorded, Running
<1>5. OpStands' /\ ReloadStands' /\ StopStands' /\ StoppingIsAttended'
  BY DEF OpStands, ReloadStands, StopStands, StoppingIsAttended
<1>6. QueueStands'
  BY <1>2 DEF QueueStands
<1> QED BY <1>3, <1>4, <1>5, <1>6 DEF DInv

-----------------------------------------------------------------------------
(* The theorems. *)

LEMMA InitHolds == Init => DInv
<1> SUFFICES ASSUME Init PROVE DInv
  OBVIOUS
<1> USE DaemonAssumption DEF DaemonAssumption, Init
<1>1. \A c \in Child : Alive(c) \/ proc[c] # "gone" =>
        owner[c] \in InitFleet /\ child[owner[c]] = c
  BY DEF Alive
<1>2. \A c \in Child : owner[c] \in Obj \cup {NoObj}
  <2>1. ASSUME NEW c \in Child PROVE owner[c] \in Obj \cup {NoObj}
    <3>1. CASE \E o \in InitFleet : child[o] = c
      <4>1. (CHOOSE o \in InitFleet : child[o] = c) \in InitFleet
        BY <3>1
      <4> QED BY <3>1, <4>1
    <3>2. CASE ~\E o \in InitFleet : child[o] = c
      BY <3>2
    <3> QED BY <3>1, <3>2
  <2> QED BY <2>1
<1>3. queue = << >> /\ queue \in Seq(Op) /\ DOMAIN queue = {}
  BY EmptySeq
<1>4. TypeOK
  <2>1. owner \in [Child -> Obj \cup {NoObj}]
    BY <1>2
  <2>2. proc \in [Child -> {"booting", "up", "dead", "refused", "failed", "gone"}]
    OBVIOUS
  <2>3. requests \in 0 .. MaxRequests
    OBVIOUS
  <2>4. /\ fleet \subseteq Obj /\ \A o, p \in fleet : IdOf[o] = IdOf[p] => o = p
        /\ child \in [Obj -> Child \cup {NoChild}]
        /\ stopping \in [Obj -> BOOLEAN] /\ removing \in [Obj -> BOOLEAN]
        /\ timer \in [Obj -> BOOLEAN] /\ busy \in [Child -> BOOLEAN]
        /\ caught \in [Child -> SUBSET Signal] /\ sig \in [Child -> SUBSET Signal]
    OBVIOUS
  <2>5. /\ step = "idle" /\ todo = {} /\ cur = NoObj /\ wait = {}
        /\ rphase = "off" /\ rtodo = {} /\ robj = NoObj /\ rchild = NoChild
        /\ life = "up" /\ forced = FALSE /\ forcing = FALSE
    OBVIOUS
  <2> HIDE DEF Init
  <2> QED BY <1>3, <2>1, <2>2, <2>3, <2>4, <2>5 DEF TypeOK
<1>5. Owned /\ ChildrenAccounted
  BY <1>1 DEF Owned, ChildrenAccounted
<1>6. TimersIdle /\ Recorded
  BY DEF TimersIdle, Recorded
<1>7. OpStands /\ ReloadStands /\ StopStands /\ StoppingIsAttended
  BY DEF OpStands, ReloadStands, StopStands, StoppingIsAttended
<1>8. QueueStands
  BY <1>3 DEF QueueStands
<1> QED BY <1>4, <1>5, <1>6, <1>7, <1>8 DEF DInv

LEMMA NextKeeps == DInv /\ [Next]_vars => DInv'
<1> SUFFICES ASSUME DInv, [Next]_vars PROVE DInv'
  OBVIOUS
<1>1. ASSUME NEW c \in Child, ChildNext(c) PROVE DInv'
  BY <1>1, ProcessStep, ExitStep DEF ChildNext
<1>2. ASSUME NEW o \in Obj, RestartTimer(o) PROVE DInv'
  BY <1>2, TimerStep
<1>3. ASSUME NEW x \in wait, GraceExpires(x) PROVE DInv'
  BY <1>3, GraceStep
<1>4. CASE OpNext
  BY <1>4, RequestStep, AddStep, BeginStep, RemovedStep, RestartedStep, EndStep,
     DrainRemoveStep, StopStep DEF OpNext
<1>5. CASE ReloadNext
  BY <1>5, ReloadMoveSteps, ReloadDrainStep, ReloadQueuesStep, RespawnStep DEF ReloadNext
<1>6. CASE EndNext
  BY <1>6, ShutdownStep, EscalateStep, StopFleetStep, ForgetStep DEF EndNext
<1>7. CASE UNCHANGED vars
  BY <1>7, StutterStep
<1> QED BY <1>1, <1>2, <1>3, <1>4, <1>5, <1>6, <1>7 DEF Next

LEMMA Invariance == Spec => []DInv
BY InitHolds, NextKeeps, PTL DEF Spec

\* A live child is the current child of its record, which is in the fleet or
\* was drain-removed: startWorker never leaves a second process running.
THEOREM Accounted == Spec => []ChildrenAccounted
BY Invariance, PTL DEF DInv

\* A worker that is not restarted on exit is one that an operation, a drain
\* or the reload is still at: no interleaving leaves a worker down for good.
THEOREM Attended == Spec => []StoppingIsAttended
BY Invariance, PTL DEF DInv

\* The daemon exits after every worker of its fleet, whatever raced shutdown().
THEOREM ExitsLast == Spec => ExitLeavesNone
<1>1. DInv /\ [Next]_vars =>
        [life' = "exited" /\ life # "exited" =>
           \A c \in Child : Alive(c) => removing[owner[c]] /\ owner[c] \notin fleet]_vars
  <2> SUFFICES ASSUME DInv, Next, life' = "exited", life # "exited",
                      NEW c \in Child, Alive(c)
               PROVE  removing[owner[c]] /\ owner[c] \notin fleet
    BY DEF vars, lifeVars
  <2>1. DaemonExit
    <3>1. ~\E d \in Child : ChildNext(d)
      BY DEF ChildNext, ChildOnly, Boot, TakeJob, JobEnds, Deliver, DrainDone, AbortDone,
             ChildCrash, OrphanReap, ExitEvent, lifeVars
    <3>2. ~\E o \in Obj : RestartTimer(o)
      BY DEF RestartTimer, lifeVars
    <3>3. ~\E x \in wait : GraceExpires(x)
      BY DEF GraceExpires, lifeVars
    <3>4. ~OpNext
      BY DEF OpNext, Request, Add, OpBegins, Removed, Restarted, OpEnds, DrainRemoveNext,
             StopNext, lifeVars
    <3>5. ~ReloadNext
      BY DEF ReloadNext, ReloadRequest, ReloadEndsRoll, ReloadQueues, Respawn, ReloadConfirms,
             ReloadDrains, lifeVars
    <3>6. EndNext
      BY <3>1, <3>2, <3>3, <3>4, <3>5 DEF Next
    <3> QED BY <3>6 DEF EndNext, Shutdown, Escalate, StopFleet, DaemonCrash
  <2>2. life = "stopping" /\ ~Waits("shutdown")
    BY <2>1 DEF DaemonExit
  <2>3. [who |-> "shutdown", child |-> c] \notin wait
    BY <2>2 DEF Waits
  <2>4. owner[c] \notin fleet
    BY <2>2, <2>3 DEF DInv, StopStands
  <2> QED BY <2>2, <2>4 DEF DInv, ChildrenAccounted, Running
<1> QED BY <1>1, Invariance, PTL DEF Spec, ExitLeavesNone

=============================================================================
