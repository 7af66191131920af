---------------------------- MODULE LiveTerminal ----------------------------
(***************************************************************************)
(* The live terminal of the jobs of one worker: what an agent says goes to *)
(* the hub as the transcript of its job (createHostRelaySession in         *)
(* work-relay.mjs over the one connection of agentic-endpoint.mjs), and    *)
(* what a user types there comes back to the agent through the steer       *)
(* router (supervisor/src/presence.ts), which knows one sink per worker.   *)
(* The slot of an aborted job is free before its session is closed.        *)
(***************************************************************************)
EXTENDS Naturals, Sequences

CONSTANTS Job,        \* the jobs of the worker, in their order
          MaxSaid,    \* bound: chunks of output of an agent
          MaxTyped    \* bound: steer frames

TerminalAssumption == Job \subseteq Nat \ {0} /\ {MaxSaid, MaxTyped} \subseteq Nat

VARIABLES sess,     \* the session and the capture of each job
          sink,     \* the sink registered for this worker, by its job
          wire,     \* the handle and its socket
          screen,   \* what the hub received of each transcript
          typed     \* steer frames: the job each was for, the agent that got it
tvars == <<sess, sink, wire, screen, typed>>

Nobody == 0
Unopened == [pc |-> "idle", kind |-> "pipe", pipe |-> <<>>, said |-> 0, asked |-> TRUE,
             holds |-> FALSE, freed |-> FALSE]
TInit == /\ sess = [j \in Job |-> Unopened] /\ sink = Nobody
         /\ wire = [handle |-> FALSE, up |-> FALSE]
         /\ screen = [j \in Job |-> <<>>] /\ typed = <<>>

(* A frame without a handle, or between a drop and the next open, is lost.  *)
Publish(j, chunk) == screen' = IF wire.handle /\ wire.up THEN [screen EXCEPT ![j] = Append(@, chunk)]
                               ELSE screen

\* Mutated form: the close is not remembered.
RelayUpdateAlways(j) == Publish(j, "out")

(* relayUpdate: nothing follows the close marker.                           *)
RelayUpdate(j) == IF sess[j].pc = "closed" THEN UNCHANGED screen ELSE Publish(j, "out")

-----------------------------------------------------------------------------
(* relaySessionFor, and the spawn of the agent; a pty takes steering at once, *)
(* an ACP agent when it has answered session/new.                           *)

Over(j) == sess[j].pc \in {"idle", "closed"} \/ sess[j].freed
Open(j) ==
  /\ sess[j].pc = "idle" /\ \A i \in Job : i < j => sess[i].pc # "idle" /\ Over(i)
  /\ \E kind \in {"pipe", "pty", "acp"} :
       sess' = [sess EXCEPT ![j].pc = "open", ![j].kind = kind, ![j].asked = kind # "acp"]
  /\ Publish(j, "open") /\ UNCHANGED <<sink, wire, typed>>

AttachSteer(j, state) == /\ sink' = j /\ sess' = [state EXCEPT ![j].holds = TRUE]
Detach(j) == sink' = IF sess[j].holds THEN Nobody ELSE sink   \* unregister(workerName)

Spawn(j) ==
  /\ sess[j].pc = "open"
  /\ LET spawned == [sess EXCEPT ![j].pc = "live"]
     IN IF sess[j].kind = "pty" THEN AttachSteer(j, spawned) ELSE sess' = spawned /\ UNCHANGED sink
  /\ UNCHANGED <<wire, screen, typed>>

(* The agent writes; what it wrote is read even after it was killed, as the *)
(* handler of the data does not look at whether the capture is settled.     *)
AgentWrites(j) ==
  /\ sess[j].pc = "live" /\ sess[j].pipe = <<>> /\ sess[j].said < MaxSaid
  /\ \E what \in {"out"} \union (IF sess[j].asked THEN {} ELSE {"new"}) :
       sess' = [sess EXCEPT ![j].pipe = <<what>>, ![j].said = @ + 1, ![j].asked = @ \/ what = "new"]
  /\ UNCHANGED <<sink, wire, screen, typed>>
Read(j) ==
  /\ sess[j].pipe # <<>>
  /\ LET read == [sess EXCEPT ![j].pipe = <<>>]
     IN IF Head(sess[j].pipe) = "new"
        THEN AttachSteer(j, read) /\ UNCHANGED screen
        ELSE sess' = read /\ RelayUpdate(j) /\ UNCHANGED sink
  /\ UNCHANGED <<wire, typed>>

(* The capture settles: it exits or is killed, or its run is aborted, which *)
(* frees the slot.                                                          *)
Finish(j) ==
  /\ sess[j].pc \in {"open", "live"}
  /\ \E aborted \in BOOLEAN :
       sess' = [sess EXCEPT ![j].pc = "over", ![j].holds = FALSE, ![j].freed = aborted]
  /\ Detach(j) /\ UNCHANGED <<wire, screen, typed>>

(* After the recovery and the finalize of the run: the close marker, then   *)
(* every subscription of the session.                                       *)
Close(j) ==
  /\ sess[j].pc = "over"
  /\ sess' = [sess EXCEPT ![j].pc = "closed", ![j].holds = FALSE]
  /\ Publish(j, "close") /\ Detach(j) /\ UNCHANGED <<wire, typed>>

-----------------------------------------------------------------------------
(* A user types into the terminal of a job.  The router hands the frame to  *)
(* the sink of the worker, which takes only frames of its own job.          *)

Takes(owner, j) == owner = j
UserTypes(j) ==
  /\ wire.up /\ Len(typed) < MaxTyped
  /\ typed' = IF wire.handle /\ sink # Nobody /\ Takes(sink, j)
              THEN Append(typed, [for |-> j, to |-> sink]) ELSE Append(typed, [for |-> j, to |-> Nobody])
  /\ UNCHANGED <<sess, sink, wire, screen>>

(* The route is installed with the first handle and outlives its sockets.   *)
SocketOpens == /\ ~wire.up /\ wire' = [wire EXCEPT !.up = TRUE] /\ UNCHANGED <<sess, sink, screen, typed>>
SocketDrops == /\ wire.up /\ wire' = [wire EXCEPT !.up = FALSE] /\ UNCHANGED <<sess, sink, screen, typed>>
Establish == /\ wire.up /\ ~wire.handle /\ wire' = [wire EXCEPT !.handle = TRUE]
             /\ UNCHANGED <<sess, sink, screen, typed>>

TNext == \/ \E j \in Job : \/ Open(j) \/ Spawn(j) \/ AgentWrites(j) \/ Read(j) \/ Finish(j)
                           \/ Close(j) \/ UserTypes(j)
         \/ SocketOpens \/ SocketDrops \/ Establish
TSpec == TInit /\ [][TNext]_tvars

-----------------------------------------------------------------------------
TTypeOK ==
  /\ sess \in [Job -> [pc : {"idle", "open", "live", "over", "closed"}, kind : {"pipe", "pty", "acp"},
                       pipe : {<<>>, <<"out">>, <<"new">>}, said : 0..MaxSaid, asked : BOOLEAN,
                       holds : BOOLEAN, freed : BOOLEAN]]
  /\ sink \in Job \union {Nobody} /\ wire \in [handle : BOOLEAN, up : BOOLEAN]

(* However late a killed agent's output is read, the transcript the hub has *)
(* of a job ends with its close marker if it has one ("the close marker     *)
(* must stay terminal").                                                    *)
CloseIsTerminal ==
  \A j \in Job : \A i \in DOMAIN screen[j] : screen[j][i] = "close" => i = Len(screen[j])

(* "closed in the finally so its steer subscription never leaks across jobs" *)
SinkDiesWithSession == \A j \in Job : sess[j].pc = "closed" => sink # j
=============================================================================
