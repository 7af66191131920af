---------------------------- MODULE AgentCapture ----------------------------
(***************************************************************************)
(* One run of an agent process (spawnCaptureOneShot, spawnCapturePty and   *)
(* spawnCaptureAcp in c8ctl-plugin.js), the monitor that kills it when it  *)
(* hangs, and what the worker makes of its turn: a turn without a result   *)
(* is asked for one in a second run (resolveAgentResultWithNudge), and a   *)
(* turn that was cut off is not believed (downgradeBudgetStopResult).      *)
(* Time passes in ticks.                                                   *)
(***************************************************************************)
EXTENDS Naturals, Sequences

CONSTANTS Idle,        \* idleTimeoutMs
          Probe,       \* recoveryWindowMs
          Resolution,  \* the CPU clock of the sampler advances every so many ticks
          Grace,       \* acpPostTurnGraceMs
          HardCap,     \* timeoutMs
          MaxUpdates   \* bound: frames of a job that answer nothing

WindowAssumption == {Idle, Probe, Resolution, HardCap} \subseteq Nat \ {0}
LimitAssumption == {Grace, MaxUpdates} \subseteq Nat

VARIABLES agent,   \* the agent process and its children
          pipe,    \* what it wrote and the worker has not read
          cap,     \* the capture: protocol, requests, timers, outcome
          mon,     \* createIdleLivenessMonitor
          obs,     \* what really happened since the monitor last looked
          job      \* the turns of the job and its verdict
pvars == <<agent, pipe, cap, mon, obs, job>>

Off == HardCap + 1                       \* a timer that is not running
Process == {"agent", "child"}            \* bound: one child at a time
NoSample == 2 * HardCap + 1
Main == 3                                \* initialize, session/new, session/prompt
Steer == 4                               \* a prompt the user typed meanwhile
StopReason == {"none", "end_turn", "max_tokens"}
IsTruncatedStopReason(s) == s \notin {"none", "end_turn"}

NewAgent == [up |-> TRUE, code |-> 0, answered |-> 0, said |-> 0, kids |-> FALSE,
             cpu |-> [p \in Process |-> 0]]
NewCap(proto) == [proto |-> proto, sent |-> 1, steered |-> FALSE, resolved |-> FALSE,
                  tail |-> FALSE, stop |-> "none", grace |-> Off, clock |-> 0, over |-> "no"]
Armed == [due |-> Idle, last |-> Idle, prev |-> NoSample, flat |-> 0]
Fresh == [silent |-> 0, steady |-> {}, blind |-> FALSE]

PInit == /\ \E proto \in {"pipe", "pty", "acp"} : cap = NewCap(proto)
         /\ agent = NewAgent /\ pipe = <<>> /\ mon = Armed /\ obs = Fresh
         /\ job = [phase |-> "turn", nudged |-> FALSE, stops |-> <<>>, file |-> "none",
                   out |-> FALSE, delivered |-> FALSE, status |-> "none"]

Acp == cap.proto = "acp"
Open == job.phase = "turn" /\ cap.over = "no"

-----------------------------------------------------------------------------
(* The agent.                                                               *)

Speaks(frame) == /\ Open /\ agent.up /\ pipe' = Append(pipe, frame) /\ pipe = <<>>
                 /\ UNCHANGED <<cap, mon, obs, job>>

AgentUpdate ==
  /\ agent.said < MaxUpdates
  /\ \E kind \in {"update"} \union (IF Acp THEN {"garbage", "half"} ELSE {}) :
       /\ Speaks([kind |-> kind, id |-> 0, stop |-> "none"])
       /\ agent' = [agent EXCEPT !.said = IF kind = "half" THEN MaxUpdates ELSE @ + 1]

AgentAnswer ==
  /\ Acp
  /\ \E id \in 1..Steer, stop \in StopReason, kind \in {"reply", "error"} :
       /\ IF id = Steer THEN cap.steered /\ stop = "none"
          ELSE id = agent.answered + 1 /\ id <= cap.sent
       /\ id < Main \/ kind = "error" => stop = "none"
       /\ Speaks([kind |-> kind, id |-> id, stop |-> stop])
       /\ agent' = IF id = Steer THEN agent ELSE [agent EXCEPT !.answered = id]

AgentWritesResult ==
  /\ Open /\ agent.up /\ job.file = "none"
  /\ \E claim \in {"completed", "blocked"} : job' = [job EXCEPT !.file = claim]
  /\ UNCHANGED <<agent, pipe, cap, mon, obs>>

AgentExits == /\ Open /\ agent.up
              /\ \E code \in {0, 1} : agent' = [agent EXCEPT !.up = FALSE, !.code = code, !.kids = FALSE]
              /\ UNCHANGED <<pipe, cap, mon, obs, job>>

(* A child starts, or one ends, perhaps for another, and takes its CPU time *)
(* out of the sum.                                                          *)
KidStarts == /\ Open /\ agent.up /\ ~agent.kids /\ agent' = [agent EXCEPT !.kids = TRUE]
             /\ UNCHANGED <<pipe, cap, mon, obs, job>>
KidEnds == /\ Open /\ agent.kids
           /\ \E more \in BOOLEAN : agent' = [agent EXCEPT !.kids = more, !.cpu["child"] = 0]
           /\ obs' = [obs EXCEPT !.steady = {}] /\ UNCHANGED <<pipe, cap, mon, job>>

Alive == {p \in Process : IF p = "child" THEN agent.kids ELSE agent.up}
Less(t) == IF t \in {0, Off} THEN t ELSE t - 1
Tick ==
  /\ Open /\ cap.clock < HardCap
  /\ cap' = [cap EXCEPT !.clock = @ + 1, !.grace = Less(@)]
  /\ mon' = [mon EXCEPT !.due = Less(@)]
  /\ \E burning \in SUBSET Alive :
       /\ agent' = [agent EXCEPT !.cpu = [p \in Process |-> IF p \in burning THEN @[p] + 1 ELSE @[p]]]
       /\ obs' = [obs EXCEPT !.steady = @ \intersect burning, !.silent = IF @ < Idle THEN @ + 1 ELSE @]
  /\ UNCHANGED <<pipe, job>>

-----------------------------------------------------------------------------
(* The capture settles once, and its timers go.  It kills the tree of an    *)
(* agent that is still up; a pty only hangs up on it.                       *)

KillTree == IF cap.proto = "pty" THEN {agent, [agent EXCEPT !.up = FALSE]}
            ELSE {[agent EXCEPT !.up = FALSE, !.kids = FALSE]}
Settled(outcome) == [cap EXCEPT !.over = outcome, !.grace = Off]
Finish(outcome) == /\ cap' = Settled(outcome)
                   /\ agent' \in KillTree /\ pipe' = <<>> /\ mon' = Armed /\ UNCHANGED job

(* Output (re)arms the monitor and starts a fresh silent stretch.           *)
Arm == mon' = Armed /\ obs' = [obs EXCEPT !.silent = 0, !.steady = {}]

\* Mutated form: the id of a reply is not compared.
ResolvesAny(frame, id) == frame.kind = "reply"

Resolves(frame, id) == frame.kind = "reply" /\ frame.id = id
(* The next request goes out; the answer to session/prompt ends the turn,   *)
(* and an agent that then lingers is reaped after the grace.                *)
HandleReply(frame) ==
  LET next == [cap EXCEPT !.sent = @ + 1]
  IN IF Resolves(frame, cap.sent)
     THEN IF cap.sent < Main THEN next
          ELSE [cap EXCEPT !.resolved = TRUE, !.stop = frame.stop, !.grace = Grace]
     ELSE cap

ReadOutput ==
  /\ Open /\ ~Acp /\ pipe # <<>> /\ Arm
  /\ pipe' = Tail(pipe) /\ job' = [job EXCEPT !.out = TRUE]
  /\ UNCHANGED <<agent, cap>>

(* A frame that is no JSON, or that refuses the request in flight, ends the *)
(* capture; one that is still without its line end waits in the buffer.     *)
Breaks(frame) == frame.kind = "garbage" \/ (frame.kind = "error" /\ frame.id = cap.sent)
Shows(frame) == frame.kind = "update"    \* emitTranscript
ReadFrame ==
  /\ Open /\ Acp /\ pipe # <<>> /\ Arm
  /\ LET frame == Head(pipe)
     IN \/ /\ Breaks(frame)
           /\ cap' = Settled("failed") /\ agent' \in KillTree
           /\ pipe' = <<>> /\ UNCHANGED job
        \/ /\ ~Breaks(frame)
           /\ cap' = [HandleReply(frame) EXCEPT !.tail = @ \/ frame.kind = "half"]
           /\ pipe' = Tail(pipe) /\ UNCHANGED agent
           /\ job' = [job EXCEPT !.out = @ \/ Shows(frame)]

SteerAgent == /\ Open /\ Acp /\ cap.sent >= Main /\ ~cap.steered
              /\ cap' = [cap EXCEPT !.steered = TRUE] /\ UNCHANGED <<agent, pipe, mon, obs, job>>

(* "close" comes when the output was read; the exit of a pty does not wait. *)
Closes(ok) == Open /\ ~agent.up /\ Finish(IF ok THEN "ok" ELSE "failed") /\ UNCHANGED obs
OneShotCloses == cap.proto = "pipe" /\ pipe = <<>> /\ Closes(agent.code = 0)
PtyExits == cap.proto = "pty" /\ Closes(agent.code = 0)
AcpCloses == Acp /\ pipe = <<>> /\ Closes(cap.resolved /\ agent.code = 0 /\ ~cap.tail)

GraceOver == Open /\ cap.grace = 0 /\ Finish("ok") /\ UNCHANGED obs
TimeOut == Open /\ cap.clock = HardCap /\ Finish("timeout") /\ UNCHANGED obs
Aborted == Open /\ Finish("aborted") /\ UNCHANGED obs
SpawnFails == Open /\ cap.clock = 0 /\ pipe = <<>> /\ Finish("failed") /\ UNCHANGED obs

(* The monitor: without live children, or blind, silence alone is a hang;   *)
(* otherwise the CPU time of the subtree must stand still, and as long as   *)
(* the sampler needs to show a movement.  It floors the time of each        *)
(* process before it adds them up.                                          *)
Floor(p) == agent.cpu[p] \div Resolution
Sample == Floor("agent") + Floor("child")

\* Mutated form: one flat window is enough.
FlatAtOnce(flat) == TRUE

FlatEnough(flat) == flat >= Resolution
Reprobe(sample, flat) ==
  /\ mon' = [due |-> Probe, last |-> Probe, prev |-> sample, flat |-> flat]
  /\ UNCHANGED <<agent, pipe, cap, job>>
Elapse ==
  /\ Open /\ mon.due = 0
  /\ \/ /\ Finish("idle")                      \* no children, or the sample failed
        /\ obs' = [obs EXCEPT !.blind = TRUE]
     \/ /\ agent.kids /\ (mon.prev = NoSample \/ Sample # mon.prev)
        /\ Reprobe(Sample, 0) /\ obs' = [obs EXCEPT !.steady = Process]
     \/ /\ agent.kids /\ Sample = mon.prev /\ UNCHANGED obs
        /\ LET flat == mon.flat + mon.last
           IN IF FlatEnough(flat) THEN Finish("idle") ELSE Reprobe(Sample, flat)

-----------------------------------------------------------------------------
(* The worker's verdict.  A successful turn that left no result but some    *)
(* output is asked for the result in one more run.                          *)

Stops == Append(job.stops, cap.stop)
AfterTurn ==
  /\ job.phase = "turn" /\ cap.over # "no"
  /\ IF cap.over = "ok" /\ job.file = "none" /\ job.out /\ ~job.nudged
     THEN /\ job' = [job EXCEPT !.nudged = TRUE, !.stops = Stops]
          /\ cap' = NewCap(cap.proto) /\ mon' = Armed /\ obs' = Fresh
         /\ agent' = [NewAgent EXCEPT !.said = agent.said]
     ELSE /\ job' = [job EXCEPT !.stops = Stops, !.phase =
                       IF cap.over = "ok" \/ job.nudged THEN "report" ELSE "failed"]
          /\ UNCHANGED <<cap, agent, mon, obs>>
  /\ pipe' = <<>>

\* Mutated form: the last turn decides.
LastStopReason == job.stops[Len(job.stops)]

(* A cut-off nudge counts, and an orderly one does not hide a cut-off turn. *)
EffectiveStopReason ==
  IF Len(job.stops) = 2 /\ IsTruncatedStopReason(job.stops[2]) THEN job.stops[2] ELSE job.stops[1]
Downgrade(claim, delivered) ==
  IF IsTruncatedStopReason(EffectiveStopReason) /\ ~delivered /\ claim # "blocked"
  THEN "blocked" ELSE claim
DetectEmpty(status, delivered) == status = "none" /\ ~job.out /\ ~delivered
Report ==
  /\ job.phase = "report"
  /\ \E delivered \in BOOLEAN :                             \* isWorkDelivered
       LET status == Downgrade(job.file, delivered)
       IN job' = [job EXCEPT !.delivered = delivered, !.status = status, !.phase =
                    IF DetectEmpty(status, delivered) THEN "failed" ELSE "completed"]
  /\ UNCHANGED <<agent, pipe, cap, mon, obs>>

PNext == \/ AgentUpdate \/ AgentAnswer \/ AgentWritesResult \/ AgentExits \/ KidStarts \/ KidEnds
         \/ Tick \/ ReadOutput \/ ReadFrame \/ SteerAgent
         \/ OneShotCloses \/ PtyExits \/ AcpCloses \/ GraceOver \/ TimeOut \/ Aborted \/ SpawnFails
         \/ Elapse \/ AfterTurn \/ Report
PSpec == PInit /\ [][PNext]_pvars

-----------------------------------------------------------------------------
PTypeOK ==
  /\ agent.answered \in 0..Main /\ agent.cpu \in [Process -> 0..HardCap] /\ Len(pipe) <= 1
  /\ cap.sent \in 1..Main /\ cap.stop \in StopReason /\ cap.clock \in 0..HardCap
  /\ cap.over \in {"no", "ok", "failed", "timeout", "aborted", "idle"}
  /\ mon.due \in 0..(Idle + Probe) /\ mon.flat < Resolution + Probe
  /\ job.phase \in {"turn", "report", "completed", "failed"}
  /\ job.status \in {"none", "completed", "blocked"} /\ Len(job.stops) <= 2

(* The idle kill never hits an agent that spoke within the idle window, nor *)
(* one with a process that burned CPU all the time since the monitor took   *)
(* its baseline while no child ended, however coarse its sampler            *)
(* (createIdleLivenessMonitor).  Processes that take turns, each too short  *)
(* for the clock of the sampler, do look flat.                              *)
IdleKillIsFair == cap.over = "idle" => obs.silent >= Idle /\ (obs.steady # {} => obs.blind)

(* A capture that reports success really got the end of the agent's main    *)
(* turn, not the answer to a steering prompt or an early exit; and no agent *)
(* outlives its capture but one on a terminal that ignores the hangup.      *)
OkIsEarned ==
  cap.over # "no" => /\ cap.over = "ok" => IF Acp THEN agent.answered = Main ELSE agent.code = 0
                     /\ cap.proto # "pty" => ~agent.up

(* If any turn of the job was cut off, the job says "completed" only when   *)
(* the work was delivered, whatever the nudged agent claims.                *)
NoFalseCompletion ==
  job.phase = "completed" /\ (\E i \in DOMAIN job.stops : IsTruncatedStopReason(job.stops[i]))
    => job.delivered \/ job.status = "blocked"
=============================================================================
