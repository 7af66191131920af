------------------------------- MODULE LogRing -------------------------------
(***************************************************************************)
(* The log of a supervised worker (supervisor-log-ring.mjs): the daemon    *)
(* reads what the child writes and appends it to a file that it rotates at *)
(* a cap.  Each incarnation of the child has a ring of its own on the same *)
(* file, opened when it is spawned and closed when its pipes have ended    *)
(* (startWorker in c8ctl-plugin.js).                                       *)
(***************************************************************************)
EXTENDS Naturals, Sequences

CONSTANTS Child,        \* the incarnations of the worker, in their order
          Cap,          \* maxBytes
          MaxLine,      \* bound: the length of a chunk
          MaxWritten,   \* bound: chunks received
          MaxFaults     \* bound: file operations that fail

RingAssumption == /\ Child \subseteq Nat \ {0} /\ {Cap, MaxLine} \subseteq Nat \ {0}
                         /\ {MaxWritten, MaxFaults} \subseteq Nat

VARIABLES child,    \* the process of each incarnation
          ring,     \* its ring: the file it has open, the size it believes
          disk,     \* the files there were, and which of them have a name
          wrote,    \* the chunks that the children wrote, numbered from 1
          hist      \* faults, the chunks lost to them, and whether two rings
                    \* were ever open at once
lvars == <<child, ring, disk, wrote, hist>>

NoFile == 0
ClosedRing == [open |-> FALSE, fd |-> NoFile, size |-> 0]
Empty == [said |-> <<>>, size |-> 0]    \* a file: its chunks by number, and its bytes

LInit == /\ child = [c \in Child |-> "unborn"] /\ ring = [c \in Child |-> ClosedRing]
         /\ disk = [main |-> NoFile, old |-> NoFile, data |-> <<>>]
         /\ wrote = 0 /\ hist = [faults |-> 0, lost |-> {}, overlapped |-> FALSE]

(* open(logFile, "a"), with the size that fstat tells.                      *)
Opened(d) == IF d.main # NoFile THEN d
             ELSE [d EXCEPT !.main = Len(d.data) + 1, !.data = Append(@, Empty)]
On(d) == [open |-> TRUE, fd |-> d.main, size |-> d.data[d.main].size]

(* The chunk at hand arrives in the log, or it is lost.                     *)
Arrives(fault) == hist' = [hist EXCEPT !.faults = @ + fault]
IsLost(fault) == hist' = [hist EXCEPT !.faults = @ + fault, !.lost = @ \union {wrote + 1}]
MayFault == hist.faults < MaxFaults

(* startWorker, also for a restart: the predecessor has exited, but its     *)
(* pipes may still be open.                                                 *)
Spawn(c) ==
  /\ child[c] = "unborn" /\ \A b \in Child : b < c => child[b] \in {"exited", "closed"}
  /\ child' = [child EXCEPT ![c] = "up"]
  /\ disk' = Opened(disk) /\ ring' = [ring EXCEPT ![c] = On(Opened(disk))]
  /\ hist' = [hist EXCEPT !.overlapped = @ \/ \E b \in Child : ring[b].open]
  /\ UNCHANGED wrote

-----------------------------------------------------------------------------
(* write(chunk).  A rotation that cannot rename keeps the old file; one     *)
(* that cannot open the new one is left on a closed descriptor.  What is    *)
(* written to that is dropped until a rotation or a new ring reopens the    *)
(* file: the size does not grow, so small chunks never ask for a rotation   *)
(* unless the number of the descriptor was given to another file.           *)

\* Mutated form: the chunk itself is not counted.
MustRotateLate(c, len) == ring[c].size > Cap

MustRotate(c, len) == ring[c].size > 0 /\ ring[c].size + len > Cap

Renamed(d) == [d EXCEPT !.old = d.main, !.main = NoFile]
Rotated == Opened(IF disk.main # NoFile THEN Renamed(disk) ELSE disk)   \* nothing to rename: reopened
Grown(r, len) == [r EXCEPT !.size = @ + len]
WriteTo(c, d, r, len, fault) ==
  IF r.fd = NoFile
  THEN /\ disk' = d /\ \E s \in {r, Grown(r, len)} : ring' = [ring EXCEPT ![c] = s]
       /\ IsLost(fault)
  ELSE /\ disk' = [d EXCEPT !.data[r.fd] = [said |-> Append(@.said, wrote + 1), size |-> @.size + len]]
       /\ ring' = [ring EXCEPT ![c] = Grown(r, len)] /\ Arrives(fault)

Feeds(c) == /\ child[c] \in {"up", "exited"} /\ ring[c].open /\ wrote < MaxWritten
            /\ wrote' = wrote + 1 /\ UNCHANGED child

Write(c, len) == Feeds(c) /\ ~MustRotate(c, len) /\ WriteTo(c, disk, ring[c], len, 0)
WriteRotating(c, len) == Feeds(c) /\ MustRotate(c, len) /\ WriteTo(c, Rotated, On(Rotated), len, 0)
WriteUnrotated(c, len) ==
  /\ Feeds(c) /\ MustRotate(c, len) /\ disk.main # NoFile /\ MayFault
  /\ \/ WriteTo(c, disk, On(disk), len, 1)           \* the rename fails
     \/ WriteTo(c, Rotated, On(Rotated), len, 1)     \* the first open fails
     \/ \E d \in {disk, Renamed(disk)} : WriteTo(c, d, [ring[c] EXCEPT !.fd = NoFile], len, 1)

(* writeSync throws, or writes a part of the chunk, which the ring takes    *)
(* for the whole: either way the chunk is lost.                             *)
LandsIn(c, d, r, len) ==
  \/ disk' = d /\ ring' = [ring EXCEPT ![c] = r]
  \/ \E part \in 1..(len - 1) :
       /\ r.fd # NoFile /\ disk' = [d EXCEPT !.data[r.fd].size = @ + part]
       /\ ring' = [ring EXCEPT ![c] = Grown(r, len)]
WriteFails(c, len) ==
  /\ Feeds(c) /\ MayFault /\ IsLost(1)
  /\ \/ (MustRotate(c, len) => disk.main = NoFile) /\ LandsIn(c, disk, ring[c], len)
     \/ MustRotate(c, len) /\ LandsIn(c, Rotated, On(Rotated), len)

-----------------------------------------------------------------------------
(* A child exits; "close" comes when its pipes have ended, which whoever    *)
(* inherited them may delay.                                                *)

Exit(c) == child[c] = "up" /\ child' = [child EXCEPT ![c] = "exited"]
           /\ UNCHANGED <<ring, disk, wrote, hist>>
CloseRing(c) == /\ child[c] = "exited" /\ child' = [child EXCEPT ![c] = "closed"]
                /\ ring' = [ring EXCEPT ![c] = ClosedRing] /\ UNCHANGED <<disk, wrote, hist>>

LNext == \E c \in Child :
           \/ Spawn(c) \/ Exit(c) \/ CloseRing(c)
           \/ \E len \in 1..MaxLine : \/ Write(c, len) \/ WriteRotating(c, len)
                                     \/ WriteUnrotated(c, len) \/ WriteFails(c, len)
LSpec == LInit /\ [][LNext]_lvars

-----------------------------------------------------------------------------
Said(f) == IF f = NoFile THEN <<>> ELSE disk.data[f].said
Kept == Said(disk.old) \o Said(disk.main)

LTypeOK ==
  /\ child \in [Child -> {"unborn", "up", "exited", "closed"}]
  /\ {disk.main, disk.old} \subseteq 0..Len(disk.data)
  /\ \A f \in DOMAIN disk.data : disk.data[f] \in [said : Seq(1..MaxWritten), size : Nat]
  /\ \A c \in Child : ring[c].fd \in 0..Len(disk.data) /\ (ring[c].open <=> child[c] \in {"up", "exited"})
  /\ wrote \in 0..MaxWritten /\ hist.faults \in 0..MaxFaults /\ hist.lost \subseteq 1..wrote

(* The two files hold the output in its order, each chunk once, from one    *)
(* incarnation to the next, and end with the newest: what is missing from   *)
(* the first chunk they hold to the newest one was lost to an operation     *)
(* that failed.  If none failed nothing is missing and each file is at most *)
(* the cap, or a single chunk longer than it.  This takes that the rings do *)
(* not overlap: a worker that is restarted while something still holds the  *)
(* pipes of its predecessor has two rings that rotate the same file under   *)
(* each other.                                                              *)
InOrder == \A i, j \in DOMAIN Kept : i < j => Kept[i] < Kept[j]
Holds(n) == \E i \in DOMAIN Kept : Kept[i] = n
Passed(n) == n < wrote /\ \A i \in DOMAIN Kept : n < Kept[i]
Bounded == \A f \in {disk.main, disk.old} \ {NoFile} :
             disk.data[f].size <= Cap \/ Len(disk.data[f].said) = 1
LogIsATail ==
  ~hist.overlapped =>
    /\ InOrder
    /\ \A n \in 1..wrote : Holds(n) \/ n \in hist.lost \/ Passed(n)
    /\ hist.faults = 0 => hist.lost = {} /\ Bounded
=============================================================================
