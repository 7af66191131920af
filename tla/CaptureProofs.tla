--------------------------- MODULE CaptureProofs ---------------------------
(***************************************************************************)
(* What becomes of the output of an agent and of a worker: proofs about    *)
(* AgentCapture (when a capture kills, and what it calls success) and      *)
(* LogRing (what the rotated files hold), as parts of MCJobSteps.          *)
(***************************************************************************)
EXTENDS MCJobSteps, SequenceTheorems, TLAPS

-----------------------------------------------------------------------------
(* AgentCapture.  The types of its records.                                 *)
Agents == [up : BOOLEAN, code : {0, 1}, answered : 0..P!Main, said : Nat, kids : BOOLEAN,
           cpu : [P!Process -> 0..HardCap]]
Frames == [kind : {"update", "garbage", "half", "reply", "error"}, id : 0..P!Steer,
           stop : P!StopReason]
Captures == [proto : {"pipe", "pty", "acp"}, sent : 1..P!Main, steered : BOOLEAN,
             resolved : BOOLEAN, tail : BOOLEAN, stop : P!StopReason, grace : Nat,
             clock : 0..HardCap, over : {"no", "ok", "failed", "timeout", "aborted", "idle"}]
Monitors == [due : Nat, last : Nat, prev : Nat, flat : Nat]
Observed == [silent : 0..Idle, steady : SUBSET P!Process, blind : BOOLEAN]
Jobs == [phase : {"turn", "report", "completed", "failed"}, nudged : BOOLEAN,
         stops : Seq(P!StopReason), file : {"none", "completed", "blocked"}, out : BOOLEAN,
         delivered : BOOLEAN, status : {"none", "completed", "blocked"}]
CaptureTypes == /\ agent \in Agents /\ cap \in Captures /\ mon \in Monitors /\ obs \in Observed
                /\ job \in Jobs /\ (pipe = <<>> \/ \E frame \in Frames : pipe = <<frame>>)

(* The clock bounds the CPU time, and the monitor the stretches it counts.  *)
Clocked == /\ \A p \in P!Process : agent.cpu[p] <= cap.clock
           /\ cap.clock <= HardCap
           /\ mon.due <= mon.last /\ mon.last \in {Idle, Probe} /\ mon.flat < Resolution

(* A reply in the pipe answers what the agent answered, or a steering       *)
(* prompt; only the end of the main turn resolves the capture and starts    *)
(* the grace.                                                               *)
Answers ==
  /\ \A frame \in Frames : pipe = <<frame>> /\ frame.kind = "reply" /\ frame.id # P!Steer =>
       frame.id <= agent.answered
  /\ cap.resolved => P!Acp /\ agent.answered = P!Main
  /\ ~cap.resolved => cap.grace = P!Off

(* While the capture is open: until the monitor has a baseline, the silence *)
(* and what is left of the timer make up the idle window.  As long as a     *)
(* process burns CPU in every tick since that baseline, its CPU time is     *)
(* ahead of its share of the baseline by the ticks since, and no process is *)
(* behind its share.                                                        *)
Ahead(p, share) ==
  /\ agent.cpu[p] >= share * Resolution
  /\ p \in obs.steady => agent.cpu[p] + mon.due >= share * Resolution + mon.flat + mon.last
Shared == \E a, b \in Nat : mon.prev = a + b /\ Ahead("agent", a) /\ Ahead("child", b)
Watching ==
  cap.over = "no" =>
    /\ mon.prev = P!NoSample => obs.silent + mon.due >= Idle /\ obs.steady = {}
    /\ mon.prev # P!NoSample => obs.silent >= Idle
    /\ obs.steady # {} => Shared

(* One stop reason for each turn that is over.                              *)
Turns == Len(job.stops) = (IF job.nudged THEN 1 ELSE 0) + (IF job.phase = "turn" THEN 0 ELSE 1)

CaptureInv == /\ CaptureTypes /\ Clocked /\ Answers /\ Watching /\ Turns
              /\ P!IdleKillIsFair /\ P!OkIsEarned /\ P!NoFalseCompletion

LEMMA WindowsArePositive ==
  /\ Idle \in Nat \ {0} /\ Probe \in Nat \ {0} /\ Resolution \in Nat \ {0} /\ HardCap \in Nat \ {0}
  /\ Grace \in Nat /\ MaxUpdates \in Nat
BY JobAssumption DEF P!WindowAssumption, P!LimitAssumption

(* The clock of the sampler: the CPU time in steps of its resolution.       *)
LEMMA Sampled ==
  ASSUME NEW cpu \in Nat
  PROVE  /\ cpu \div Resolution \in Nat
         /\ (cpu \div Resolution) * Resolution <= cpu
         /\ cpu < (cpu \div Resolution) * Resolution + Resolution
         /\ cpu \div Resolution <= cpu
BY WindowsArePositive

LEMMA CaptureInitInv == ASSUME P!PInit PROVE CaptureInv
<1>1. PICK proto \in {"pipe", "pty", "acp"} : cap = P!NewCap(proto)
  BY DEF P!PInit
<1>2. /\ agent = P!NewAgent /\ pipe = <<>> /\ mon = P!Armed /\ obs = P!Fresh
      /\ job = [phase |-> "turn", nudged |-> FALSE, stops |-> <<>>, file |-> "none",
                out |-> FALSE, delivered |-> FALSE, status |-> "none"]
  BY DEF P!PInit
<1>3. job \in Jobs /\ Len(job.stops) = 0 /\ job.phase = "turn" /\ ~job.nudged
  BY <1>2 DEF Jobs
<1>4. CaptureTypes /\ Clocked
  BY <1>1, <1>2, <1>3, WindowsArePositive
  DEF CaptureTypes, Clocked, Agents, Captures, Monitors, Observed, P!NewAgent, P!NewCap, P!Armed,
      P!Fresh, P!Main, P!Off, P!NoSample, P!StopReason
<1>5. Answers
  BY <1>1, <1>2 DEF Answers, P!NewCap
<1>6. Watching
  BY <1>1, <1>2, WindowsArePositive DEF Watching, P!NewCap, P!Armed, P!Fresh
<1> QED BY <1>1, <1>3, <1>4, <1>5, <1>6
        DEF CaptureInv, Turns, P!IdleKillIsFair, P!OkIsEarned, P!NoFalseCompletion, P!NewCap

(* While the capture is open its outcome and the verdict are.               *)
LEMMA OpenKeeps ==
  ASSUME CaptureInv, P!Open, job'.phase = job.phase, cap'.over = cap.over
  PROVE  P!IdleKillIsFair' /\ P!OkIsEarned' /\ P!NoFalseCompletion'
BY DEF P!Open, P!IdleKillIsFair, P!OkIsEarned, P!NoFalseCompletion

LEMMA SpeaksOne ==
  ASSUME NEW frame \in Frames, P!Speaks(frame)
  PROVE  /\ P!Open /\ agent.up /\ pipe' = <<frame>> /\ UNCHANGED <<cap, mon, obs, job>>
         /\ \A f : pipe' = <<f>> => f = frame
BY DEF P!Speaks

LEMMA AgentUpdateInv == ASSUME CaptureInv, P!AgentUpdate PROVE CaptureInv'
<1> USE DEF CaptureInv
<1>1. PICK kind_ \in {"update", "garbage", "half"} :
        /\ P!Speaks([kind |-> kind_, id |-> 0, stop |-> "none"])
        /\ agent' = [agent EXCEPT !.said = IF kind_ = "half" THEN MaxUpdates ELSE @ + 1]
  BY DEF P!AgentUpdate
<1> DEFINE frame == [kind |-> kind_, id |-> 0, stop |-> "none"]
<1>2. frame \in Frames
  BY DEF Frames, P!Steer, P!StopReason
<1>3. /\ P!Open /\ pipe' = <<frame>> /\ UNCHANGED <<cap, mon, obs, job>>
      /\ \A f : pipe' = <<f>> => f = frame
  <2> HIDE DEF frame
  <2> QED BY <1>1, <1>2, SpeaksOne DEF frame
<1>4. agent' \in Agents /\ agent'.cpu = agent.cpu /\ agent'.answered = agent.answered
  BY <1>1, WindowsArePositive DEF CaptureTypes, Agents
<1>5. CaptureTypes'
  BY <1>2, <1>3, <1>4 DEF CaptureTypes
<1>6. Answers'
  <2>1. frame.kind # "reply"
    OBVIOUS
  <2> HIDE DEF frame
  <2> QED BY <1>3, <1>4, <2>1 DEF Answers, P!Acp
<1> QED BY <1>3, <1>4, <1>5, <1>6, OpenKeeps DEF Clocked, Watching, Shared, Ahead, Turns

LEMMA AgentAnswerInv == ASSUME CaptureInv, P!AgentAnswer PROVE CaptureInv'
<1> USE DEF CaptureInv
<1>1. PICK id \in 1..P!Steer, stop \in P!StopReason, kind_ \in {"reply", "error"} :
        /\ IF id = P!Steer THEN cap.steered /\ stop = "none"
           ELSE id = agent.answered + 1 /\ id <= cap.sent
        /\ P!Speaks([kind |-> kind_, id |-> id, stop |-> stop])
        /\ agent' = IF id = P!Steer THEN agent ELSE [agent EXCEPT !.answered = id]
  BY DEF P!AgentAnswer
<1> DEFINE frame == [kind |-> kind_, id |-> id, stop |-> stop]
<1>2. frame \in Frames /\ frame.id = id
  BY DEF Frames, P!Steer
<1>3. /\ P!Open /\ pipe' = <<frame>> /\ UNCHANGED <<cap, mon, obs, job>>
      /\ \A f : pipe' = <<f>> => f = frame
  <2> HIDE DEF frame
  <2> QED BY <1>1, <1>2, SpeaksOne DEF frame
<1>4. /\ agent' \in Agents /\ agent'.cpu = agent.cpu /\ agent'.up = agent.up
      /\ id # P!Steer => agent'.answered = id /\ agent.answered < id
      /\ id = P!Steer => agent'.answered = agent.answered
  BY <1>1 DEF CaptureTypes, Agents, Captures, P!Steer, P!Main
<1>5. CaptureTypes'
  <2> HIDE DEF frame
  <2> QED BY <1>2, <1>3, <1>4 DEF CaptureTypes
<1>6. cap.resolved => agent'.answered = P!Main
  BY <1>1, <1>4 DEF Answers, CaptureTypes, Captures, P!Main, P!Steer
<1>7. Answers'
  <2> HIDE DEF frame
  <2> QED BY <1>2, <1>3, <1>4, <1>6 DEF Answers, P!Acp
<1> QED BY <1>3, <1>4, <1>5, <1>7, OpenKeeps DEF Clocked, Watching, Shared, Ahead, Turns

LEMMA AgentWritesResultInv == ASSUME CaptureInv, P!AgentWritesResult PROVE CaptureInv'
<1> USE DEF CaptureInv
<1>1. /\ P!Open /\ UNCHANGED <<agent, pipe, cap, mon, obs>>
      /\ \E claim \in {"completed", "blocked"} : job' = [job EXCEPT !.file = claim]
  BY DEF P!AgentWritesResult
<1>2. /\ job' \in Jobs /\ job'.phase = job.phase /\ job'.stops = job.stops
      /\ job'.nudged = job.nudged
  BY <1>1 DEF CaptureTypes, Jobs
<1> QED BY <1>1, <1>2, OpenKeeps DEF CaptureTypes, Clocked, Answers, Watching, Shared, Ahead, Turns, P!Acp

(* The agent exits, or a child of it starts or ends.                        *)
LEMMA ProcessInv == ASSUME CaptureInv, P!AgentExits \/ P!KidStarts \/ P!KidEnds PROVE CaptureInv'
<1> USE DEF CaptureInv
<1>1. P!Open /\ UNCHANGED <<pipe, cap, mon, job>>
  BY DEF P!AgentExits, P!KidStarts, P!KidEnds
<1>2. /\ agent' \in Agents /\ agent'.answered = agent.answered
      /\ \/ agent'.cpu = agent.cpu
         \/ agent'.cpu = [agent.cpu EXCEPT !["child"] = 0] /\ obs'.steady = {}
  <2>1. CASE P!AgentExits
    BY <2>1 DEF P!AgentExits, CaptureTypes, Agents
  <2>2. CASE P!KidStarts
    BY <2>2 DEF P!KidStarts, CaptureTypes, Agents
  <2>3. CASE P!KidEnds
    <3>1. PICK more \in BOOLEAN : agent' = [agent EXCEPT !.kids = more, !.cpu["child"] = 0]
      BY <2>3 DEF P!KidEnds
    <3>2. obs'.steady = {}
      BY <2>3 DEF P!KidEnds, CaptureTypes, Observed
    <3>3. agent \in Agents /\ 0 \in 0..HardCap
      BY WindowsArePositive DEF CaptureTypes
    <3> DEFINE cpu == [agent.cpu EXCEPT !["child"] = 0]
    <3>4. cpu \in [P!Process -> 0..HardCap]
      BY <3>3 DEF Agents
    <3>5. agent' = [agent EXCEPT !.kids = more, !.cpu = cpu]
      BY <3>1
    <3> HIDE DEF cpu
    <3>6. agent' \in Agents /\ agent'.answered = agent.answered /\ agent'.cpu = cpu
      BY <3>3, <3>4, <3>5 DEF Agents
    <3> QED BY <3>2, <3>6 DEF cpu
  <2> QED BY <2>1, <2>2, <2>3
<1>3. /\ obs' \in Observed /\ obs'.silent = obs.silent
      /\ obs'.steady # {} => obs'.steady = obs.steady
  BY DEF P!AgentExits, P!KidStarts, P!KidEnds, CaptureTypes, Observed
<1>4. CaptureTypes'
  BY <1>1, <1>2, <1>3 DEF CaptureTypes
<1>5. Clocked'
  <2>1. cap.clock \in Nat /\ agent.cpu \in [P!Process -> 0..HardCap]
    BY WindowsArePositive DEF CaptureTypes, Agents, Captures
  <2> QED BY <1>1, <1>2, <2>1 DEF Clocked
<1>6. Watching'
  <2>1. CASE obs'.steady = {}
    BY <1>1, <1>3, <2>1 DEF Watching
  <2>2. CASE obs'.steady # {}
    BY <1>1, <1>2, <1>3, <2>2 DEF Watching, Shared, Ahead
  <2> QED BY <2>1, <2>2
<1> QED BY <1>1, <1>2, <1>4, <1>5, <1>6, OpenKeeps DEF Answers, Turns, P!Acp

LEMMA TickInv == ASSUME CaptureInv, P!Tick PROVE CaptureInv'
<1> USE DEF CaptureInv
<1>1. /\ P!Open /\ cap.clock < HardCap /\ UNCHANGED <<pipe, job>>
      /\ cap' = [cap EXCEPT !.clock = @ + 1, !.grace = P!Less(@)]
      /\ mon' = [mon EXCEPT !.due = P!Less(@)]
  BY DEF P!Tick
<1>2. PICK burning \in SUBSET P!Alive :
        /\ agent' = [agent EXCEPT !.cpu = [p \in P!Process |-> IF p \in burning THEN @[p] + 1 ELSE @[p]]]
        /\ obs' = [obs EXCEPT !.steady = @ \intersect burning,
                              !.silent = IF @ < Idle THEN @ + 1 ELSE @]
  BY DEF P!Tick
<1>3. agent \in Agents /\ cap \in Captures /\ mon \in Monitors /\ obs \in Observed
  BY DEF CaptureTypes
<1>4. /\ P!Less(cap.grace) \in Nat /\ (cap.grace = P!Off => P!Less(cap.grace) = P!Off)
      /\ P!Less(mon.due) \in Nat /\ P!Less(mon.due) <= mon.due /\ mon.due <= P!Less(mon.due) + 1
      /\ P!Less(mon.due) = 0 => mon.due <= 1
  BY <1>3, WindowsArePositive DEF P!Less, P!Off, Captures, Monitors
<1>5. /\ cap' \in Captures /\ cap'.clock = cap.clock + 1 /\ cap'.grace = P!Less(cap.grace)
      /\ cap'.proto = cap.proto /\ cap'.resolved = cap.resolved /\ cap'.over = cap.over
  <2>1. cap.clock + 1 \in 0..HardCap
    BY <1>1, <1>3, WindowsArePositive DEF Captures
  <2> QED BY <1>1, <1>3, <1>4, <2>1 DEF Captures
<1>6. /\ mon' \in Monitors /\ mon'.due = P!Less(mon.due) /\ mon'.last = mon.last
      /\ mon'.prev = mon.prev /\ mon'.flat = mon.flat
  BY <1>1, <1>3, <1>4 DEF Monitors
<1>7. /\ agent' \in Agents /\ agent'.answered = agent.answered
      /\ \A p \in P!Process : /\ agent.cpu[p] \in Nat
                              /\ agent'.cpu[p] = IF p \in burning THEN agent.cpu[p] + 1 ELSE agent.cpu[p]
  <2> DEFINE cpu == [p \in P!Process |-> IF p \in burning THEN agent.cpu[p] + 1 ELSE agent.cpu[p]]
  <2>1. \A p \in P!Process : agent.cpu[p] \in Nat /\ agent.cpu[p] + 1 \in 0..HardCap
    BY <1>1, <1>3, WindowsArePositive DEF Agents, Captures, Clocked
  <2>2. cpu \in [P!Process -> 0..HardCap]
    BY <1>3, <2>1 DEF Agents
  <2>3. agent' = [agent EXCEPT !.cpu = cpu]
    BY <1>2
  <2>4. \A p \in P!Process : cpu[p] = IF p \in burning THEN agent.cpu[p] + 1 ELSE agent.cpu[p]
    OBVIOUS
  <2> HIDE DEF cpu
  <2>5. agent' \in Agents /\ agent'.answered = agent.answered /\ agent'.cpu = cpu
    BY <1>3, <2>2, <2>3 DEF Agents
  <2> QED BY <2>1, <2>4, <2>5
<1>8. /\ obs' \in Observed /\ obs'.steady = obs.steady \intersect burning
      /\ obs'.silent = IF obs.silent < Idle THEN obs.silent + 1 ELSE obs.silent
  <2> DEFINE steady == obs.steady \intersect burning
             silent == IF obs.silent < Idle THEN obs.silent + 1 ELSE obs.silent
  <2>1. steady \in SUBSET P!Process /\ silent \in 0..Idle
    BY <1>3, WindowsArePositive DEF Observed
  <2>2. obs' = [obs EXCEPT !.steady = steady, !.silent = silent]
    BY <1>2
  <2> HIDE DEF steady, silent
  <2>3. obs' \in Observed /\ obs'.steady = steady /\ obs'.silent = silent
    BY <1>3, <2>1, <2>2 DEF Observed
  <2> QED BY <2>3 DEF steady, silent
<1>9. CaptureTypes'
  BY <1>1, <1>5, <1>6, <1>7, <1>8 DEF CaptureTypes
<1>10. Clocked'
  <2>1. \A p \in P!Process : agent'.cpu[p] <= cap'.clock
    BY <1>3, <1>5, <1>7, WindowsArePositive DEF Clocked, Captures
  <2> QED BY <1>1, <1>3, <1>4, <1>5, <1>6, <2>1, WindowsArePositive DEF Clocked, Captures, Monitors
<1>11. Answers'
  BY <1>1, <1>4, <1>5, <1>7 DEF Answers, P!Acp
<1>12. Watching'
  <2> SUFFICES ASSUME cap'.over = "no"
      PROVE  /\ mon'.prev = P!NoSample => obs'.silent + mon'.due >= Idle /\ obs'.steady = {}
             /\ mon'.prev # P!NoSample => obs'.silent >= Idle
             /\ obs'.steady # {} => Shared'
    BY DEF Watching
  <2>1. /\ mon.prev = P!NoSample => obs.silent + mon.due >= Idle /\ obs.steady = {}
        /\ mon.prev # P!NoSample => obs.silent >= Idle
        /\ obs.steady # {} => Shared
    BY <1>5 DEF Watching
  <2>2. obs.silent \in 0..Idle /\ mon.due \in Nat
    BY <1>3 DEF Observed, Monitors
  <2>3. /\ mon'.prev = P!NoSample => obs'.silent + mon'.due >= Idle /\ obs'.steady = {}
        /\ mon'.prev # P!NoSample => obs'.silent >= Idle
    <3>1. /\ obs'.silent \in Nat /\ obs'.silent >= obs.silent
          /\ obs'.silent < Idle => obs'.silent = obs.silent + 1
      BY <1>8, <2>2, WindowsArePositive
    <3>2. mon'.due \in Nat /\ mon.due <= mon'.due + 1
      BY <1>4, <1>6
    <3>3. obs.silent + mon.due >= Idle => obs'.silent + mon'.due >= Idle
      BY <2>2, <3>1, <3>2, WindowsArePositive
    <3>4. obs.silent >= Idle => obs'.silent >= Idle
      BY <2>2, <3>1, WindowsArePositive
    <3>5. obs.steady = {} => obs'.steady = {}
      BY <1>8
    <3> QED BY <1>6, <2>1, <3>3, <3>4, <3>5
  <2>4. ASSUME obs'.steady # {} PROVE Shared'
    <3>1. PICK a, b \in Nat : mon.prev = a + b /\ Ahead("agent", a) /\ Ahead("child", b)
      BY <1>8, <2>1, <2>4 DEF Shared
    <3>2. ASSUME NEW p \in P!Process, NEW share \in Nat, Ahead(p, share) PROVE Ahead(p, share)'
      <4>1. share * Resolution \in Nat /\ mon.flat \in Nat /\ mon.last \in Nat
        BY <1>3, WindowsArePositive DEF Monitors
      <4>2. agent.cpu[p] \in Nat /\ agent'.cpu[p] \in {agent.cpu[p], agent.cpu[p] + 1}
            /\ (p \in obs'.steady => p \in obs.steady /\ agent'.cpu[p] = agent.cpu[p] + 1)
        BY <1>7, <1>8
      <4> DEFINE floor == share * Resolution
      <4> HIDE DEF floor
      <4>3. agent'.cpu[p] >= floor
        BY <3>2, <4>1, <4>2 DEF Ahead, floor
      <4>4. p \in obs'.steady => agent'.cpu[p] + mon'.due >= floor + mon'.flat + mon'.last
        BY <1>4, <1>6, <2>2, <3>2, <4>1, <4>2 DEF Ahead, floor
      <4> QED BY <4>3, <4>4 DEF Ahead, floor
    <3>3. Ahead("agent", a)' /\ Ahead("child", b)'
      BY <3>1, <3>2 DEF P!Process
    <3> QED BY <1>6, <3>1, <3>3 DEF Shared
  <2> QED BY <2>3, <2>4
<1> QED BY <1>1, <1>5, <1>9, <1>10, <1>11, <1>12, OpenKeeps DEF Turns

LEMMA ArmType ==
  ASSUME CaptureInv, P!Arm
  PROVE  /\ mon' \in Monitors /\ mon'.due = Idle /\ mon'.last = Idle /\ mon'.prev = P!NoSample
         /\ mon'.flat = 0 /\ obs' \in Observed /\ obs'.silent = 0 /\ obs'.steady = {}
<1>1. mon' = [due |-> Idle, last |-> Idle, prev |-> P!NoSample, flat |-> 0]
  BY DEF P!Arm, P!Armed
<1>2. P!NoSample \in Nat /\ Idle \in Nat /\ 0 \in 0..Idle
  BY WindowsArePositive DEF P!NoSample
<1>3. obs \in Observed /\ obs' = [obs EXCEPT !.silent = 0, !.steady = {}]
  BY DEF CaptureInv, CaptureTypes, P!Arm
<1>4. obs' \in Observed /\ obs'.silent = 0 /\ obs'.steady = {}
  BY <1>2, <1>3 DEF Observed
<1> QED BY <1>1, <1>2, <1>4 DEF Monitors

(* What arms the monitor again.                                             *)
LEMMA Rearmed ==
  ASSUME CaptureInv, P!Arm, cap'.clock = cap.clock, agent'.cpu = agent.cpu
  PROVE  Clocked' /\ Watching'
BY ArmType, WindowsArePositive DEF CaptureInv, Clocked, Watching

LEMMA PipeOne ==
  ASSUME CaptureInv, pipe # <<>>
  PROVE  /\ Head(pipe) \in Frames /\ Tail(pipe) = <<>> /\ pipe = <<Head(pipe)>>
<1>1. PICK frame \in Frames : pipe = <<frame>>
  BY DEF CaptureInv, CaptureTypes
<1>2. Head(<<frame>>) = frame /\ Tail(<<frame>>) = <<>>
  OBVIOUS
<1> QED BY <1>1, <1>2

LEMMA NoFrame == \A frame : <<>> # <<frame>>
<1> TAKE frame
<1>1. Len(<<>>) = 0 /\ Len(<<frame>>) = 1
  OBVIOUS
<1> QED BY <1>1

LEMMA ReadOutputInv == ASSUME CaptureInv, P!ReadOutput PROVE CaptureInv'
<1> USE DEF CaptureInv
<1>1. /\ P!Open /\ pipe # <<>> /\ P!Arm /\ pipe' = Tail(pipe) /\ UNCHANGED <<agent, cap>>
      /\ job' = [job EXCEPT !.out = TRUE]
  BY DEF P!ReadOutput
<1>2. /\ job' \in Jobs /\ job'.phase = job.phase /\ job'.stops = job.stops
      /\ job'.nudged = job.nudged
  BY <1>1 DEF CaptureTypes, Jobs
<1>3. pipe' = <<>>
  BY <1>1, PipeOne
<1>4. CaptureTypes'
  BY <1>1, <1>2, <1>3, ArmType DEF CaptureTypes
<1>5. Answers'
  BY <1>1, <1>3, NoFrame DEF Answers, P!Acp
<1> QED BY <1>1, <1>2, <1>4, <1>5, Rearmed, OpenKeeps DEF Turns

LEMMA SteerAgentInv == ASSUME CaptureInv, P!SteerAgent PROVE CaptureInv'
<1> USE DEF CaptureInv
<1>1. /\ P!Open /\ cap' = [cap EXCEPT !.steered = TRUE] /\ UNCHANGED <<agent, pipe, mon, obs, job>>
  BY DEF P!SteerAgent
<1>2. /\ cap' \in Captures /\ cap'.clock = cap.clock /\ cap'.over = cap.over
      /\ cap'.proto = cap.proto /\ cap'.resolved = cap.resolved /\ cap'.grace = cap.grace
  BY <1>1 DEF CaptureTypes, Captures
<1> QED BY <1>1, <1>2, OpenKeeps DEF CaptureTypes, Clocked, Answers, Watching, Shared, Ahead, Turns, P!Acp

(* What becomes of the agent when its capture settles.                      *)
LEMMA Killed ==
  ASSUME CaptureInv, agent' \in P!KillTree
  PROVE  /\ agent' \in Agents /\ agent'.answered = agent.answered /\ agent'.cpu = agent.cpu
         /\ agent'.code = agent.code
         /\ cap.proto # "pty" => ~agent'.up
         /\ ~agent.up => ~agent'.up
<1>1. agent \in Agents
  BY DEF CaptureInv, CaptureTypes
<1>2. \/ agent' = agent /\ cap.proto = "pty"
      \/ agent' = [agent EXCEPT !.up = FALSE]
      \/ agent' = [agent EXCEPT !.up = FALSE, !.kids = FALSE]
  BY DEF P!KillTree
<1> QED BY <1>1, <1>2 DEF Agents

LEMMA SettledTypes ==
  ASSUME CaptureInv,
         NEW outcome \in {"ok", "failed", "timeout", "aborted", "idle"}, cap' = P!Settled(outcome)
  PROVE  /\ cap' \in Captures /\ cap'.over = outcome /\ cap'.clock = cap.clock
         /\ cap'.proto = cap.proto /\ cap'.resolved = cap.resolved /\ cap'.grace = P!Off
<1>1. P!Off \in Nat
  BY WindowsArePositive DEF P!Off
<1>2. cap \in Captures
  BY DEF CaptureInv, CaptureTypes
<1> QED BY <1>1, <1>2 DEF Captures, P!Settled

LEMMA FinishInv ==
  ASSUME CaptureInv, P!Open, P!Finish("ok") \/ P!Finish("failed") \/ P!Finish("timeout")
                               \/ P!Finish("aborted") \/ P!Finish("idle"),
         obs' = obs \/ obs' = [obs EXCEPT !.blind = TRUE],
         P!Finish("ok") => IF P!Acp THEN agent.answered = P!Main ELSE agent.code = 0,
         P!Finish("idle") => obs.silent >= Idle /\ (obs.steady # {} => obs'.blind)
  PROVE  CaptureInv'
<1> USE DEF CaptureInv
<1>1. PICK outcome \in {"ok", "failed", "timeout", "aborted", "idle"} : P!Finish(outcome)
  OBVIOUS
<1>2. /\ cap' = P!Settled(outcome) /\ agent' \in P!KillTree /\ pipe' = <<>>
      /\ mon' = P!Armed /\ job' = job
  BY <1>1 DEF P!Finish
<1>3. /\ cap' \in Captures /\ cap'.over = outcome /\ cap'.clock = cap.clock
      /\ cap'.proto = cap.proto /\ cap'.resolved = cap.resolved /\ cap'.grace = P!Off
  BY <1>2, SettledTypes
<1> mon' \in Monitors /\ mon'.due = Idle /\ mon'.last = Idle /\ mon'.flat = 0
  BY <1>2, WindowsArePositive DEF P!Armed, Monitors, P!NoSample
<1>4. obs' \in Observed /\ obs'.silent = obs.silent /\ obs'.steady = obs.steady
  BY DEF CaptureTypes, Observed
<1>5. CaptureTypes'
  BY <1>2, <1>3, <1>4, Killed DEF CaptureTypes
<1>6. Clocked'
  BY <1>2, <1>3, Killed, WindowsArePositive DEF Clocked
<1>7. Answers'
  BY <1>2, <1>3, Killed, NoFrame DEF Answers, P!Acp
<1>8. Watching'
  BY <1>3 DEF Watching
<1>9. P!IdleKillIsFair'
  BY <1>1, <1>3, <1>4 DEF P!IdleKillIsFair
<1>10. P!OkIsEarned'
  BY <1>1, <1>2, <1>3, Killed DEF P!OkIsEarned, P!Acp
<1> QED BY <1>2, <1>5, <1>6, <1>7, <1>8, <1>9, <1>10 DEF Turns, P!NoFalseCompletion

(* A capture that ends of itself, by its timer or by an abort.              *)
LEMMA SettlesInv ==
  ASSUME CaptureInv, P!OneShotCloses \/ P!PtyExits \/ P!AcpCloses \/ P!GraceOver \/ P!TimeOut
                       \/ P!Aborted \/ P!SpawnFails
  PROVE  CaptureInv'
<1> USE DEF CaptureInv
<1>1. P!Open /\ obs' = obs
  BY DEF P!OneShotCloses, P!PtyExits, P!AcpCloses, P!Closes, P!GraceOver, P!TimeOut, P!Aborted,
         P!SpawnFails
<1>2. \A o1, o2 : P!Finish(o1) /\ P!Finish(o2) => o1 = o2
  BY DEF P!Finish, P!Settled, CaptureTypes, Captures
<1>3. P!Finish("ok") \/ P!Finish("failed") \/ P!Finish("timeout") \/ P!Finish("aborted")
  BY DEF P!OneShotCloses, P!PtyExits, P!AcpCloses, P!Closes, P!GraceOver, P!TimeOut, P!Aborted,
         P!SpawnFails
<1>4. ASSUME P!Finish("ok")
      PROVE  IF P!Acp THEN agent.answered = P!Main ELSE agent.code = 0
  <2>1. CASE P!OneShotCloses \/ P!PtyExits
    <3>1. agent.code = 0 /\ ~P!Acp
      BY <1>2, <1>4, <2>1 DEF P!OneShotCloses, P!PtyExits, P!Closes, P!Acp
    <3> QED BY <3>1
  <2>2. CASE P!AcpCloses
    <3>1. cap.resolved
      BY <1>2, <1>4, <2>2 DEF P!AcpCloses, P!Closes
    <3> QED BY <3>1 DEF Answers
  <2>3. CASE P!GraceOver
    <3>1. cap.resolved
      BY <2>3, WindowsArePositive DEF P!GraceOver, Answers, P!Off
    <3> QED BY <3>1 DEF Answers
  <2>4. CASE P!TimeOut \/ P!Aborted \/ P!SpawnFails
    BY <1>2, <1>4, <2>4 DEF P!TimeOut, P!Aborted, P!SpawnFails
  <2> QED BY <2>1, <2>2, <2>3, <2>4
<1>5. ~P!Finish("idle")
  BY <1>2, <1>3
<1> QED BY <1>1, <1>3, <1>4, <1>5, FinishInv

LEMMA ReadFrameInv == ASSUME CaptureInv, P!ReadFrame PROVE CaptureInv'
<1> USE DEF CaptureInv
<1> DEFINE frame == Head(pipe)
<1>1. /\ P!Open /\ P!Acp /\ pipe # <<>> /\ P!Arm
      /\ \/ /\ P!Breaks(frame)
            /\ cap' = P!Settled("failed") /\ agent' \in P!KillTree
            /\ pipe' = <<>> /\ UNCHANGED job
         \/ /\ ~P!Breaks(frame)
            /\ cap' = [P!HandleReply(frame) EXCEPT !.tail = @ \/ frame.kind = "half"]
            /\ pipe' = Tail(pipe) /\ UNCHANGED agent
            /\ job' = [job EXCEPT !.out = @ \/ P!Shows(frame)]
  BY DEF P!ReadFrame
<1>2. frame \in Frames /\ pipe = <<frame>> /\ pipe' = <<>>
  BY <1>1, PipeOne
<1> HIDE DEF frame
<1>3. CASE /\ P!Breaks(frame)
           /\ cap' = P!Settled("failed") /\ agent' \in P!KillTree
           /\ pipe' = <<>> /\ UNCHANGED job
  <2>1. /\ cap' \in Captures /\ cap'.over = "failed" /\ cap'.clock = cap.clock
        /\ cap'.proto = cap.proto /\ cap'.resolved = cap.resolved /\ cap'.grace = P!Off
    BY <1>3, SettledTypes
  <2>2. CaptureTypes'
    BY <1>1, <1>2, <1>3, <2>1, Killed, ArmType DEF CaptureTypes
  <2>3. Clocked' /\ Watching'
    BY <1>1, <1>3, <2>1, Killed, Rearmed
  <2>4. Answers'
    BY <1>2, <1>3, <2>1, Killed, NoFrame DEF Answers, P!Acp
  <2> QED BY <1>3, <2>1, <2>2, <2>3, <2>4, Killed
          DEF Turns, P!IdleKillIsFair, P!OkIsEarned, P!NoFalseCompletion
<1>4. CASE /\ ~P!Breaks(frame)
           /\ cap' = [P!HandleReply(frame) EXCEPT !.tail = @ \/ frame.kind = "half"]
           /\ UNCHANGED agent
           /\ job' = [job EXCEPT !.out = @ \/ P!Shows(frame)]
  <2> DEFINE next == P!HandleReply(frame)
  <2>1. CASE ~P!Resolves(frame, cap.sent)
    <3>1. next = cap
      BY <2>1 DEF P!HandleReply
    <3> QED
      <4>1. /\ cap' = [cap EXCEPT !.tail = @ \/ frame.kind = "half"] /\ cap \in Captures
            /\ (cap.tail \/ frame.kind = "half") \in BOOLEAN
        BY <1>4, <3>1 DEF CaptureTypes, Captures
      <4>2. /\ cap' \in Captures /\ cap'.over = cap.over /\ cap'.clock = cap.clock
            /\ cap'.proto = cap.proto /\ cap'.resolved = cap.resolved /\ cap'.grace = cap.grace
        BY <4>1 DEF Captures
      <4>3. /\ job' \in Jobs /\ job'.phase = job.phase /\ job'.stops = job.stops
            /\ job'.nudged = job.nudged
        <5>1. (job.out \/ P!Shows(frame)) \in BOOLEAN /\ job \in Jobs
          BY DEF CaptureTypes, Jobs
        <5> QED BY <1>4, <5>1 DEF Jobs
      <4>4. CaptureTypes'
        BY <1>1, <1>2, <1>4, <4>2, <4>3, ArmType DEF CaptureTypes
      <4>5. Answers'
        BY <1>2, <1>4, <4>2, NoFrame DEF Answers, P!Acp
      <4> QED BY <1>1, <1>4, <4>2, <4>3, <4>4, <4>5, Rearmed, OpenKeeps DEF Turns
  <2>2. CASE P!Resolves(frame, cap.sent)
    <3>1. frame.kind = "reply" /\ frame.id = cap.sent /\ cap.sent \in 1..P!Main
      BY <2>2 DEF P!Resolves, CaptureTypes, Captures
    <3>2. cap.sent <= agent.answered /\ agent.answered \in 0..P!Main
      BY <1>2, <3>1 DEF Answers, CaptureTypes, Agents, P!Main, P!Steer
    <3>3. next = IF cap.sent < P!Main THEN [cap EXCEPT !.sent = @ + 1]
                 ELSE [cap EXCEPT !.resolved = TRUE, !.stop = frame.stop, !.grace = Grace]
      BY <2>2 DEF P!HandleReply
    <3>4. /\ next \in Captures /\ next.over = cap.over /\ next.clock = cap.clock
          /\ next.proto = cap.proto
          /\ \/ next.resolved = cap.resolved /\ next.grace = cap.grace
             \/ next.resolved /\ agent.answered = P!Main
      <4>1. CASE cap.sent < P!Main
        BY <3>1, <3>3, <4>1 DEF CaptureTypes, Captures, P!Main
      <4>2. CASE ~(cap.sent < P!Main)
        <5>1. next = [cap EXCEPT !.resolved = TRUE, !.stop = frame.stop, !.grace = Grace]
          BY <3>3, <4>2
        <5>2. agent.answered = P!Main /\ frame.stop \in P!StopReason /\ Grace \in Nat
          BY <1>2, <3>1, <3>2, <4>2, WindowsArePositive DEF Frames, P!Main
        <5> QED BY <5>1, <5>2 DEF CaptureTypes, Captures
      <4> QED BY <4>1, <4>2
    <3> HIDE DEF next
    <3>5. /\ cap' = [next EXCEPT !.tail = @ \/ frame.kind = "half"]
          /\ (next.tail \/ frame.kind = "half") \in BOOLEAN
      BY <1>4, <3>4 DEF Captures, next
    <3>6. /\ cap' \in Captures /\ cap'.over = cap.over /\ cap'.clock = cap.clock
          /\ cap'.proto = cap.proto /\ cap'.resolved = next.resolved /\ cap'.grace = next.grace
      BY <3>4, <3>5 DEF Captures
    <3>7. /\ job' \in Jobs /\ job'.phase = job.phase /\ job'.stops = job.stops
          /\ job'.nudged = job.nudged
      <4>1. (job.out \/ P!Shows(frame)) \in BOOLEAN /\ job \in Jobs
        BY DEF CaptureTypes, Jobs
      <4> QED BY <1>4, <4>1 DEF Jobs
    <3>8. CaptureTypes'
      BY <1>1, <1>2, <1>4, <3>6, <3>7, ArmType DEF CaptureTypes
    <3>9. Answers'
      BY <1>1, <1>2, <1>4, <3>4, <3>6, NoFrame DEF Answers, P!Acp
    <3> QED BY <1>1, <1>4, <3>6, <3>7, <3>8, <3>9, Rearmed, OpenKeeps DEF Turns
  <2> QED BY <2>1, <2>2
<1> QED BY <1>1, <1>3, <1>4

(* If the sum of the floors is what it was, so is each of them.             *)
LEMMA SharesStand ==
  ASSUME CaptureInv, NEW a \in Nat, NEW b \in Nat, P!Sample = a + b,
         Ahead("agent", a), Ahead("child", b)
  PROVE  P!Floor("agent") = a /\ P!Floor("child") = b
<1>1. \A p \in P!Process : agent.cpu[p] \in Nat
  BY WindowsArePositive DEF CaptureInv, CaptureTypes, Agents
<1>2. ASSUME NEW p \in P!Process, NEW share \in Nat, Ahead(p, share)
      PROVE  P!Floor(p) \in Nat /\ P!Floor(p) >= share
  <2>1. agent.cpu[p] \in Nat /\ agent.cpu[p] >= share * Resolution
    BY <1>1, <1>2 DEF Ahead
  <2>2. ASSUME NEW cpu \in Nat, cpu >= share * Resolution
        PROVE  cpu \div Resolution >= share
    BY <2>2, WindowsArePositive
  <2> QED BY <2>1, <2>2, Sampled DEF P!Floor
<1>3. P!Floor("agent") \in Nat /\ P!Floor("agent") >= a /\ P!Floor("child") \in Nat /\ P!Floor("child") >= b
  BY <1>2 DEF P!Process
<1> QED BY <1>3 DEF P!Sample

(* The timer of the monitor: silent for the idle window at least, and a     *)
(* process that burned CPU since the baseline shows it to the sampler.      *)
LEMMA ElapseInv == ASSUME CaptureInv, P!Elapse PROVE CaptureInv'
<1> USE DEF CaptureInv
<1>1. /\ P!Open /\ mon.due = 0 /\ cap.over = "no"
      /\ agent \in Agents /\ mon \in Monitors /\ obs \in Observed
  BY DEF P!Elapse, P!Open, CaptureTypes
<1>2. obs.silent >= Idle /\ obs.silent \in Nat
  BY <1>1, WindowsArePositive DEF Watching, Observed
<1>3. /\ P!Sample \in Nat /\ P!Sample <= 2 * HardCap /\ P!Sample = P!Floor("agent") + P!Floor("child")
      /\ \A p \in P!Process : /\ agent.cpu[p] \in Nat /\ P!Floor(p) \in Nat
                              /\ P!Floor(p) * Resolution \in Nat
                              /\ P!Floor(p) * Resolution <= agent.cpu[p]
                              /\ agent.cpu[p] < P!Floor(p) * Resolution + Resolution
  <2>1. ASSUME NEW p \in P!Process
        PROVE  /\ agent.cpu[p] \in Nat /\ P!Floor(p) \in Nat /\ P!Floor(p) <= HardCap
               /\ P!Floor(p) * Resolution \in Nat
               /\ P!Floor(p) * Resolution <= agent.cpu[p]
               /\ agent.cpu[p] < P!Floor(p) * Resolution + Resolution
    <3>1. agent.cpu[p] \in Nat /\ agent.cpu[p] <= HardCap
      BY <1>1, WindowsArePositive DEF Agents
    <3>2. /\ P!Floor(p) \in Nat /\ P!Floor(p) <= agent.cpu[p]
          /\ P!Floor(p) * Resolution <= agent.cpu[p]
          /\ agent.cpu[p] < P!Floor(p) * Resolution + Resolution
      BY <3>1, Sampled DEF P!Floor
    <3>3. P!Floor(p) * Resolution \in Nat
      BY <3>2, WindowsArePositive
    <3> QED BY <3>1, <3>2, <3>3, WindowsArePositive
  <2>2. /\ P!Floor("agent") \in Nat /\ P!Floor("agent") <= HardCap
        /\ P!Floor("child") \in Nat /\ P!Floor("child") <= HardCap
    BY <2>1 DEF P!Process
  <2> QED BY <2>1, <2>2, WindowsArePositive DEF P!Sample
<1>4. CASE P!Finish("idle") /\ obs' = [obs EXCEPT !.blind = TRUE]
  <2>1. obs'.blind /\ ~P!Finish("ok")
    BY <1>1, <1>4 DEF Observed, P!Finish, P!Settled, CaptureTypes, Captures
  <2> QED BY <1>1, <1>2, <1>4, <2>1, FinishInv
<1>5. ASSUME NEW flat \in Nat, flat < Resolution, P!Reprobe(P!Sample, flat),
             obs' \in Observed, obs'.silent = obs.silent,
             \A p \in obs'.steady : agent.cpu[p] >= P!Floor(p) * Resolution + flat
      PROVE  CaptureInv'
  <2>1. /\ mon' = [due |-> Probe, last |-> Probe, prev |-> P!Sample, flat |-> flat]
        /\ UNCHANGED <<agent, pipe, cap, job>>
    BY <1>5 DEF P!Reprobe
  <2>2. /\ mon' \in Monitors /\ mon'.due = Probe /\ mon'.last = Probe /\ mon'.prev = P!Sample
        /\ mon'.flat = flat
    BY <1>3, <1>5, <2>1, WindowsArePositive DEF Monitors
  <2>3. CaptureTypes'
    BY <1>5, <2>1, <2>2 DEF CaptureTypes
  <2>4. Clocked'
    BY <1>5, <2>1, <2>2, WindowsArePositive DEF Clocked
  <2>5. Watching'
    <3>1. mon'.prev # P!NoSample
      BY <1>3, <2>2, WindowsArePositive DEF P!NoSample
    <3>2. obs'.silent >= Idle
      BY <1>2, <1>5
    <3>3. ASSUME NEW p \in P!Process
          PROVE  /\ agent'.cpu[p] >= P!Floor(p) * Resolution
                 /\ p \in obs'.steady =>
                      agent'.cpu[p] + mon'.due >= P!Floor(p) * Resolution + mon'.flat + mon'.last
      <4> DEFINE floor == P!Floor(p) * Resolution
      <4>1. /\ agent'.cpu[p] = agent.cpu[p] /\ agent.cpu[p] \in Nat /\ floor \in Nat
            /\ floor <= agent.cpu[p] /\ (p \in obs'.steady => agent.cpu[p] >= floor + flat)
        BY <1>3, <1>5, <2>1
      <4> HIDE DEF floor
      <4>2. /\ agent'.cpu[p] >= floor
            /\ p \in obs'.steady => agent'.cpu[p] + mon'.due >= floor + mon'.flat + mon'.last
        BY <1>5, <2>2, <4>1, WindowsArePositive
      <4> QED BY <4>2 DEF floor
    <3>4. Shared'
      <4> DEFINE a == P!Floor("agent")
                 b == P!Floor("child")
      <4>1. /\ "agent" \in P!Process /\ "child" \in P!Process
            /\ a \in Nat /\ b \in Nat /\ mon'.prev = a + b
        BY <1>3, <2>2 DEF P!Process
      <4>2. /\ agent'.cpu["agent"] >= a * Resolution /\ agent'.cpu["child"] >= b * Resolution
            /\ "agent" \in obs'.steady =>
                 agent'.cpu["agent"] + mon'.due >= a * Resolution + mon'.flat + mon'.last
            /\ "child" \in obs'.steady =>
                 agent'.cpu["child"] + mon'.due >= b * Resolution + mon'.flat + mon'.last
        BY <3>3, <4>1
      <4> HIDE DEF a, b
      <4> QED BY <4>1, <4>2 DEF Shared, Ahead
    <3> QED BY <3>1, <3>2, <3>4 DEF Watching
  <2> QED BY <1>1, <2>1, <2>3, <2>4, <2>5, OpenKeeps DEF Answers, Turns, P!Acp
<1>6. CASE P!Reprobe(P!Sample, 0) /\ obs' = [obs EXCEPT !.steady = P!Process]
  <2>1. obs' \in Observed /\ obs'.silent = obs.silent
    BY <1>1, <1>6 DEF Observed
  <2>2. \A p \in obs'.steady : agent.cpu[p] >= P!Floor(p) * Resolution + 0
    BY <1>3, <2>1 DEF Observed
  <2> QED BY <1>5, <1>6, <2>1, <2>2, WindowsArePositive
<1>7. CASE /\ P!Sample = mon.prev /\ UNCHANGED obs
           /\ LET flat == mon.flat + mon.last
              IN IF P!FlatEnough(flat) THEN P!Finish("idle") ELSE P!Reprobe(P!Sample, flat)
  <2> DEFINE flat == mon.flat + mon.last
  <2>1. flat \in Nat
    BY <1>1 DEF Monitors
  <2>2. ASSUME NEW p \in obs.steady PROVE agent.cpu[p] >= P!Floor(p) * Resolution + flat
    <3>1. PICK a, b \in Nat : mon.prev = a + b /\ Ahead("agent", a) /\ Ahead("child", b)
      BY <1>1, <2>2 DEF Watching, Shared
    <3>2. P!Floor("agent") = a /\ P!Floor("child") = b
      BY <1>7, <3>1, SharesStand
    <3>3. p \in P!Process /\ Ahead(p, P!Floor(p))
      BY <1>1, <2>2, <3>1, <3>2 DEF Observed, P!Process
    <3>4. agent.cpu[p] + mon.due >= P!Floor(p) * Resolution + mon.flat + mon.last
      BY <2>2, <3>3 DEF Ahead
    <3>5. agent.cpu[p] \in Nat /\ P!Floor(p) * Resolution \in Nat
      BY <1>3, <3>3
    <3> DEFINE floor == P!Floor(p) * Resolution
    <3> HIDE DEF floor
    <3>6. agent.cpu[p] >= floor + flat
      BY <1>1, <3>4, <3>5 DEF Monitors, floor
    <3> QED BY <3>6 DEF floor
  <2> HIDE DEF flat
  <2>3. CASE P!FlatEnough(flat)
    <3>1. obs.steady = {}
      <4> SUFFICES ASSUME NEW p \in obs.steady PROVE FALSE
        OBVIOUS
      <4> DEFINE floor == P!Floor(p) * Resolution
      <4>1. /\ agent.cpu[p] \in Nat /\ floor \in Nat /\ agent.cpu[p] < floor + Resolution
            /\ agent.cpu[p] >= floor + flat
        BY <1>1, <1>3, <2>2 DEF Observed
      <4> HIDE DEF floor
      <4> QED BY <2>1, <2>3, <4>1, WindowsArePositive DEF P!FlatEnough
    <3>2. P!Finish("idle") /\ ~P!Finish("ok")
      BY <1>7, <2>3 DEF flat, P!Finish, P!Settled, CaptureTypes, Captures
    <3> QED BY <1>1, <1>2, <1>7, <3>1, <3>2, FinishInv
  <2>4. CASE ~P!FlatEnough(flat)
    <3>1. flat < Resolution /\ P!Reprobe(P!Sample, flat)
      BY <1>7, <2>1, <2>4, WindowsArePositive DEF P!FlatEnough, flat
    <3> QED BY <1>1, <1>5, <1>7, <2>1, <2>2, <3>1
  <2> QED BY <2>3, <2>4
<1> QED BY <1>4, <1>6, <1>7 DEF P!Elapse

LEMMA AfterTurnInv == ASSUME CaptureInv, P!AfterTurn PROVE CaptureInv'
<1> USE DEF CaptureInv
<1>1. /\ job.phase = "turn" /\ cap.over # "no" /\ pipe' = <<>>
      /\ job \in Jobs /\ cap \in Captures
  BY DEF P!AfterTurn, CaptureTypes
<1>2. P!Stops \in Seq(P!StopReason) /\ Len(P!Stops) = Len(job.stops) + 1
  BY <1>1 DEF P!Stops, Jobs, Captures
<1>3. CASE /\ ~job.nudged
           /\ job' = [job EXCEPT !.nudged = TRUE, !.stops = P!Stops]
           /\ cap' = P!NewCap(cap.proto) /\ mon' = P!Armed /\ obs' = P!Fresh
           /\ agent' = [P!NewAgent EXCEPT !.said = agent.said]
  <2>1. /\ job' \in Jobs /\ job'.nudged /\ job'.phase = "turn" /\ job'.stops = P!Stops
    BY <1>1, <1>2, <1>3 DEF Jobs
  <2>2. CaptureTypes' /\ Clocked'
    <3>1. P!NewAgent \in Agents /\ \A p \in P!Process : P!NewAgent.cpu[p] = 0
      BY WindowsArePositive DEF Agents, P!NewAgent, P!Main
    <3>2. agent' \in Agents /\ agent'.cpu = P!NewAgent.cpu
      BY <1>1, <1>3, <3>1 DEF CaptureTypes, Agents
    <3> QED BY <1>1, <1>3, <2>1, <3>1, <3>2, WindowsArePositive
            DEF CaptureTypes, Clocked, Captures, Monitors, Observed, P!NewCap, P!Armed,
                P!Fresh, P!Main, P!Off, P!NoSample, P!StopReason
  <2>3. Answers'
    BY <1>1, <1>3, NoFrame DEF Answers, P!NewCap
  <2>4. Watching'
    BY <1>3, WindowsArePositive DEF Watching, P!NewCap, P!Armed, P!Fresh
  <2>5. Turns'
    BY <1>1, <1>2, <1>3, <2>1 DEF Turns
  <2> QED BY <1>3, <2>1, <2>2, <2>3, <2>4, <2>5
          DEF P!IdleKillIsFair, P!OkIsEarned, P!NoFalseCompletion, P!NewCap
<1>4. CASE /\ \E to \in {"report", "failed"} : job' = [job EXCEPT !.stops = P!Stops, !.phase = to]
           /\ UNCHANGED <<cap, agent, mon, obs>>
  <2>1. /\ job' \in Jobs /\ job'.nudged = job.nudged /\ job'.phase \in {"report", "failed"}
        /\ job'.stops = P!Stops
    BY <1>1, <1>2, <1>4 DEF Jobs
  <2>2. CaptureTypes'
    BY <1>1, <1>4, <2>1 DEF CaptureTypes
  <2>3. Answers'
    BY <1>1, <1>4, NoFrame DEF Answers, P!Acp
  <2>4. Turns'
    <3>1. Len(job.stops) = (IF job.nudged THEN 1 ELSE 0)
      BY <1>1 DEF Turns
    <3>2. Len(job'.stops) = Len(job.stops) + 1 /\ job'.phase # "turn"
      BY <1>2, <2>1
    <3> QED BY <2>1, <3>1, <3>2 DEF Turns
  <2> QED BY <1>4, <2>1, <2>2, <2>3, <2>4
          DEF Clocked, Watching, Shared, Ahead, P!IdleKillIsFair, P!OkIsEarned, P!NoFalseCompletion, P!Acp
<1> QED BY <1>3, <1>4 DEF P!AfterTurn

(* If any of the turns was cut off, the effective stop reason says so.      *)
LEMMA CutOffCounts ==
  ASSUME CaptureInv, job.phase # "turn",
         NEW i \in DOMAIN job.stops, P!IsTruncatedStopReason(job.stops[i])
  PROVE  P!IsTruncatedStopReason(P!EffectiveStopReason)
<1>1. job.stops \in Seq(P!StopReason) /\ Len(job.stops) \in {1, 2} /\ i \in 1..Len(job.stops)
  BY DEF CaptureInv, CaptureTypes, Turns, Jobs
<1>2. CASE Len(job.stops) = 2 /\ P!IsTruncatedStopReason(job.stops[2])
  BY <1>2 DEF P!EffectiveStopReason
<1>3. CASE ~(Len(job.stops) = 2 /\ P!IsTruncatedStopReason(job.stops[2]))
  <2>1. i = 1
    BY <1>1, <1>3
  <2> QED BY <1>3, <2>1 DEF P!EffectiveStopReason
<1> QED BY <1>2, <1>3

LEMMA ReportInv == ASSUME CaptureInv, P!Report PROVE CaptureInv'
<1> USE DEF CaptureInv
<1>1. job.phase = "report" /\ UNCHANGED <<agent, pipe, cap, mon, obs>> /\ job \in Jobs
  BY DEF P!Report, CaptureTypes
<1>2. PICK delivered \in BOOLEAN :
        LET status == P!Downgrade(job.file, delivered)
        IN job' = [job EXCEPT !.delivered = delivered, !.status = status, !.phase =
                     IF P!DetectEmpty(status, delivered) THEN "failed" ELSE "completed"]
  BY DEF P!Report
<1> DEFINE status == P!Downgrade(job.file, delivered)
           to == IF P!DetectEmpty(status, delivered) THEN "failed" ELSE "completed"
<1>3. status \in {"none", "completed", "blocked"} /\ to \in {"failed", "completed"}
  BY <1>1 DEF P!Downgrade, Jobs
<1>4. P!IsTruncatedStopReason(P!EffectiveStopReason) => delivered \/ status = "blocked"
  BY DEF P!Downgrade
<1>5. job' = [job EXCEPT !.delivered = delivered, !.status = status, !.phase = to]
  BY <1>2
<1> HIDE DEF status, to
<1>6. /\ job' \in Jobs /\ job'.delivered = delivered /\ job'.status = status /\ job'.phase = to
      /\ job'.stops = job.stops /\ job'.nudged = job.nudged
  BY <1>1, <1>3, <1>5 DEF Jobs
<1>7. P!NoFalseCompletion'
  BY <1>1, <1>4, <1>6, CutOffCounts DEF P!NoFalseCompletion, P!IsTruncatedStopReason
<1>8. Turns'
  BY <1>1, <1>3, <1>6 DEF Turns
<1> QED BY <1>1, <1>6, <1>7, <1>8
        DEF CaptureTypes, Clocked, Answers, Watching, Shared, Ahead, P!IdleKillIsFair, P!OkIsEarned, P!Acp

LEMMA CaptureStepInv == ASSUME CaptureInv, [P!PNext]_pvars PROVE CaptureInv'
<1>1. CASE UNCHANGED pvars
  BY <1>1 DEF pvars, CaptureInv, CaptureTypes, Clocked, Answers, Watching, Shared, Ahead, Turns, P!Acp,
      P!IdleKillIsFair, P!OkIsEarned, P!NoFalseCompletion
<1> QED BY <1>1, AgentUpdateInv, AgentAnswerInv, AgentWritesResultInv, ProcessInv, TickInv,
          ReadOutputInv, ReadFrameInv, SteerAgentInv, SettlesInv, ElapseInv, AfterTurnInv, ReportInv
       DEF P!PNext

LEMMA CaptureTypesHold == CaptureInv => P!PTypeOK
<1> SUFFICES ASSUME CaptureInv PROVE P!PTypeOK
  OBVIOUS
<1>1. CaptureTypes /\ Clocked /\ Turns
  BY DEF CaptureInv
<1>2. Len(pipe) <= 1
  BY <1>1 DEF CaptureTypes
<1>3. mon.due \in 0..(Idle + Probe) /\ mon.flat < Resolution + Probe
  BY <1>1, WindowsArePositive DEF CaptureTypes, Clocked, Monitors
<1>4. Len(job.stops) <= 2
  BY <1>1 DEF Turns, CaptureTypes, Jobs
<1> QED BY <1>1, <1>2, <1>3, <1>4 DEF P!PTypeOK, CaptureTypes, Agents, Captures, Jobs

(* The same, for the capture of a job.                                      *)
PartCapture == part = "capture" => CaptureInv

LEMMA PartCaptureInv == JobSpec => []PartCapture
<1>1. JobInit => PartCapture
  BY CaptureInitInv DEF JobInit, PartCapture
<1>2. PartCapture /\ [JobNext]_jobVars => PartCapture'
  <2> SUFFICES ASSUME PartCapture, [JobNext]_jobVars, part' = "capture" PROVE CaptureInv'
    BY DEF PartCapture
  <2>1. CASE CaptureStep
    BY <2>1, CaptureStepInv DEF CaptureStep, InCapture, PartCapture, P!PNext
  <2>2. CASE ~CaptureStep
    <3>1. part' = part /\ UNCHANGED pvars
      BY <2>2 DEF JobNext, LockStep, GitStep, JobStep, TerminalStep, NamespaceStep, LogStep,
         InLock, InGit, InJob, InTerminal, InNamespace, InLog, jobVars
    <3> QED BY <3>1, CaptureStepInv DEF PartCapture
  <2> QED BY <2>1, <2>2
<1> QED BY <1>1, <1>2, PTL DEF JobSpec

(* createIdleLivenessMonitor: whatever the windows and however coarse the   *)
(* sampler, it kills only after a silent idle window, and never an agent of *)
(* whose processes it could see one burn CPU all the time since the         *)
(* baseline while no child of it ended.                                     *)
THEOREM KillsOnlyTheIdle == JobSpec => []IdleKillIsFair
<1>1. PartCapture => IdleKillIsFair
  BY DEF PartCapture, CaptureInv, IdleKillIsFair
<1> QED BY <1>1, PartCaptureInv, PTL

(* spawnCaptureAcp and its two siblings: success is the end of the agent's  *)
(* own turn, and what the capture could kill does not outlive it.           *)
THEOREM SuccessIsEarned == JobSpec => []OkIsEarned
<1>1. PartCapture => OkIsEarned
  BY DEF PartCapture, CaptureInv, OkIsEarned
<1> QED BY <1>1, PartCaptureInv, PTL

(* effectiveStopReason and downgradeBudgetStopResult: a turn that was cut   *)
(* off is not reported as completed work, nudged or not.                    *)
THEOREM CutOffIsNotCompleted == JobSpec => []NoFalseCompletion
<1>1. PartCapture => NoFalseCompletion
  BY DEF PartCapture, CaptureInv, NoFalseCompletion
<1> QED BY <1>1, PartCaptureInv, PTL
-----------------------------------------------------------------------------
(* LogRing.  Its files: one with chunks has bytes.                          *)
LogFiles == [said : Seq(1..MaxWritten), size : Nat]
Rings == [open : BOOLEAN, fd : Nat, size : Nat]
Disks == [main : Nat, old : Nat, data : Seq(LogFiles)]
Sized(d) == /\ d \in Disks /\ d.main <= Len(d.data) /\ d.old <= Len(d.data)
            /\ \A f \in 1..Len(d.data) : d.data[f].said # <<>> => d.data[f].size > 0

LogTypes == /\ child \in [Child -> {"unborn", "up", "exited", "closed"}]
            /\ ring \in [Child -> Rings] /\ Sized(logDisk)
            /\ \A c \in Child : /\ ring[c].fd <= Len(logDisk.data)
                                /\ ring[c].open <=> child[c] \in {"up", "exited"}
            /\ wrote \in 0..MaxWritten
            /\ hist \in [faults : 0..MaxLogFaults, lost : SUBSET (1..wrote), overlapped : BOOLEAN]

(* A sequence of chunks in their order, of which only chunks of the set     *)
(* "lost" are missing from the first one on, up to chunk n.                 *)
Among(s, x) == \E i \in 1..Len(s) : s[i] = x
Below(s, x) == \A i \in 1..Len(s) : x < s[i]
Gapless(s, n, lost) ==
  /\ \A i, j \in 1..Len(s) : i < j => s[i] < s[j]
  /\ \A i \in 1..Len(s) : s[i] <= n
  /\ \A x \in 1..n : Among(s, x) \/ x \in lost \/ Below(s, x)

(* The two named files of a disk hold such a sequence; without a fault none *)
(* is lost and each file is at most the cap, or one chunk.                  *)
SaidIn(d, f) == IF f = L!NoFile THEN <<>> ELSE d.data[f].said
AllIn(d) == SaidIn(d, d.old) \o SaidIn(d, d.main)
Capped(d, f) == f # L!NoFile => d.data[f].size <= Cap \/ Len(d.data[f].said) = 1
TailOf(d, n, k, lost) ==
  /\ d.main # L!NoFile => d.main # d.old
  /\ Gapless(AllIn(d), n, lost)
  /\ k = 0 => lost = {} /\ Capped(d, d.main) /\ Capped(d, d.old)
Newest(d, n, lost) == n > 0 => Among(AllIn(d), n) \/ n \in lost

(* A ring that has a file open has the one with the name, and without a     *)
(* fault it knows its size.                                                 *)
Knows(d, r, k) ==
  /\ r.fd # L!NoFile => r.fd = d.main
  /\ k = 0 => r.fd # L!NoFile /\ r.size = d.data[d.main].size

(* As long as no two rings were open at once.                               *)
Sole == /\ \A c, b \in Child : ring[c].open /\ ring[b].open => b = c
        /\ \A c \in Child : ring[c].open => Knows(logDisk, ring[c], hist.faults)
LogInv == /\ LogTypes
          /\ ~hist.overlapped => /\ TailOf(logDisk, wrote, hist.faults, hist.lost)
                                 /\ Newest(logDisk, wrote, hist.lost) /\ Sole

LEMMA LogBounds == /\ Child \subseteq Nat \ {0} /\ Cap \in Nat \ {0} /\ MaxLine \in Nat \ {0}
                   /\ MaxWritten \in Nat /\ MaxLogFaults \in Nat
BY JobAssumption DEF L!RingAssumption

(* Sequences: what a rotation drops, what a write adds or loses.            *)
LEMMA GaplessSuffix ==
  ASSUME NEW o \in Seq(1..MaxWritten), NEW m \in Seq(1..MaxWritten), NEW n \in Nat, NEW lost,
         Gapless(o \o m, n, lost)
  PROVE  Gapless(m, n, lost)
<1>1. /\ Len(o \o m) = Len(o) + Len(m) /\ Len(o) \in Nat /\ Len(m) \in Nat
      /\ \A i \in 1..Len(o) : (o \o m)[i] = o[i]
      /\ \A i \in 1..Len(m) : (o \o m)[Len(o) + i] = m[i]
  BY Z3
<1> DEFINE s == o \o m
           k == Len(o)
<1>2. \A i \in 1..Len(m) : k + i \in 1..Len(s) /\ s[k + i] = m[i]
  BY <1>1
<1>3. /\ \A i, j \in 1..Len(s) : i < j => s[i] < s[j]
      /\ \A i \in 1..Len(s) : s[i] <= n
      /\ \A x \in 1..n : Among(s, x) \/ x \in lost \/ Below(s, x)
  BY DEF Gapless
<1>4. /\ Len(s) = k + Len(m) /\ k \in Nat /\ Len(m) \in Nat
  BY <1>1
<1> HIDE DEF s, k
<1>5. \A i, j \in 1..Len(m) : i < j => m[i] < m[j]
  <2> SUFFICES ASSUME NEW i \in 1..Len(m), NEW j \in 1..Len(m), i < j PROVE m[i] < m[j]
    OBVIOUS
  <2>1. k + i < k + j
    BY <1>4
  <2> QED BY <1>2, <1>3, <2>1
<1>6. \A i \in 1..Len(m) : m[i] <= n
  BY <1>2, <1>3
<1>7. ASSUME NEW x \in 1..n PROVE Among(m, x) \/ x \in lost \/ Below(m, x)
  <2>1. CASE Below(s, x)
    BY <1>2, <2>1 DEF Below
  <2>2. CASE Among(s, x)
    <3>1. PICK i \in 1..Len(s) : s[i] = x
      BY <2>2 DEF Among
    <3>2. CASE i > k
      <4>1. i - k \in 1..Len(m) /\ k + (i - k) = i
        BY <1>4, <3>2
      <4> QED BY <1>2, <3>1, <4>1 DEF Among
    <3>3. CASE ~(i > k)
      <4>1. ASSUME NEW j \in 1..Len(m) PROVE x < m[j]
        <5>1. i < k + j /\ k + j \in 1..Len(s)
          BY <1>2, <1>4, <3>3
        <5> QED BY <1>2, <1>3, <3>1, <5>1
      <4> QED BY <4>1 DEF Below
    <3> QED BY <3>2, <3>3
  <2> QED BY <1>3, <2>1, <2>2
<1> QED BY <1>5, <1>6, <1>7 DEF Gapless

LEMMA GaplessAppend ==
  ASSUME NEW s \in Seq(1..MaxWritten), NEW n \in Nat, NEW lost, Gapless(s, n, lost)
  PROVE  /\ Gapless(Append(s, n + 1), n + 1, lost) /\ Among(Append(s, n + 1), n + 1)
         /\ Gapless(s, n + 1, lost \union {n + 1})
<1>1. /\ Len(Append(s, n + 1)) = Len(s) + 1 /\ Len(s) \in Nat
      /\ Append(s, n + 1)[Len(s) + 1] = n + 1
      /\ \A i \in 1..Len(s) : Append(s, n + 1)[i] = s[i]
  OBVIOUS
<1>0. \A i \in 1..Len(s) : s[i] \in Int
  <2>1. \A i \in 1..Len(s) : s[i] \in 1..MaxWritten
    BY ElementOfSeq
  <2> QED BY <2>1
<1> DEFINE t == Append(s, n + 1)
<1> HIDE DEF t
<1>2. /\ \A i, j \in 1..Len(s) : i < j => s[i] < s[j]
      /\ \A i \in 1..Len(s) : s[i] <= n
      /\ \A x \in 1..n : Among(s, x) \/ x \in lost \/ Below(s, x)
  BY DEF Gapless
<1>3. \A i, j \in 1..Len(t) : i < j => t[i] < t[j]
  BY <1>0, <1>1, <1>2 DEF t
<1>4. \A i \in 1..Len(t) : t[i] <= n + 1
  BY <1>0, <1>1, <1>2 DEF t
<1>5. Among(t, n + 1)
  BY <1>1 DEF t, Among
<1>6. ASSUME NEW x \in 1..(n + 1) PROVE Among(t, x) \/ x \in lost \/ Below(t, x)
  <2>1. CASE x = n + 1
    BY <1>5, <2>1
  <2>2. CASE x # n + 1
    <3>1. x \in 1..n /\ x < n + 1
      BY <2>2
    <3>2. Among(s, x) => Among(t, x)
      BY <1>1 DEF t, Among
    <3>3. Below(s, x) => Below(t, x)
      BY <1>1, <3>1 DEF t, Below
    <3> QED BY <1>2, <3>1, <3>2, <3>3
  <2> QED BY <2>1, <2>2
<1>7. Gapless(s, n + 1, lost \union {n + 1})
  <2>1. ASSUME NEW x \in 1..(n + 1), x # n + 1 PROVE x \in 1..n
    BY <2>1
  <2>2. \A i \in 1..Len(s) : s[i] <= n + 1
    BY <1>0, <1>2
  <2> QED BY <1>2, <2>1, <2>2 DEF Gapless
<1> QED BY <1>3, <1>4, <1>5, <1>6, <1>7 DEF Gapless, t

LEMMA Concatenated ==
  ASSUME NEW o \in Seq(1..MaxWritten), NEW m \in Seq(1..MaxWritten), NEW n \in 1..MaxWritten
  PROVE  /\ o \o Append(m, n) = Append(o \o m, n) /\ o \o m \in Seq(1..MaxWritten)
         /\ o \o <<>> = o /\ <<>> \o m = m
BY Z3

LEMMA GaplessWritten ==
  ASSUME NEW o \in Seq(1..MaxWritten), NEW m \in Seq(1..MaxWritten), NEW n \in Nat,
         n + 1 \in 1..MaxWritten, NEW lost, Gapless(o \o m, n, lost)
  PROVE  Gapless(o \o Append(m, n + 1), n + 1, lost) /\ Among(o \o Append(m, n + 1), n + 1)
<1> DEFINE x == n + 1
<1>1. x \in 1..MaxWritten
  OBVIOUS
<1> HIDE DEF x
<1>2. o \o Append(m, x) = Append(o \o m, x) /\ o \o m \in Seq(1..MaxWritten)
  BY <1>1, Concatenated
<1>3. o \o Append(m, n + 1) = Append(o \o m, n + 1)
  BY <1>2 DEF x
<1> QED BY <1>2, <1>3, GaplessAppend

LEMMA SaidIsSeq ==
  ASSUME NEW d, Sized(d), NEW f \in 0..Len(d.data)
  PROVE  SaidIn(d, f) \in Seq(1..MaxWritten) /\ Len(SaidIn(d, f)) \in Nat
<1>1. CASE f = 0
  BY <1>1 DEF SaidIn, L!NoFile
<1>2. CASE f # 0
  <2>1. f \in 1..Len(d.data) /\ d.data \in Seq(LogFiles)
    BY <1>2 DEF Sized, Disks
  <2>2. d.data[f] \in LogFiles
    BY <2>1
  <2> QED BY <1>2, <2>2 DEF SaidIn, L!NoFile, LogFiles
<1> QED BY <1>1, <1>2

LEMMA SizeIsNat ==
  ASSUME NEW d, Sized(d), NEW f \in 1..Len(d.data) PROVE d.data[f].size \in Nat
<1>1. d.data \in Seq(LogFiles)
  BY DEF Sized, Disks
<1>2. d.data[f] \in LogFiles
  BY <1>1
<1> QED BY <1>2 DEF LogFiles

(* All that the named files of a disk hold.                                 *)
LEMMA AllIsSeq ==
  ASSUME NEW d, Sized(d)
  PROVE  /\ AllIn(d) \in Seq(1..MaxWritten)
         /\ SaidIn(d, d.old) \in Seq(1..MaxWritten) /\ SaidIn(d, d.main) \in Seq(1..MaxWritten)
<1>1. d.old \in 0..Len(d.data) /\ d.main \in 0..Len(d.data)
  BY DEF Sized, Disks
<1>2. SaidIn(d, d.old) \in Seq(1..MaxWritten) /\ SaidIn(d, d.main) \in Seq(1..MaxWritten)
  BY <1>1, SaidIsSeq
<1> QED BY <1>2 DEF AllIn

LEMMA LogInitInv == ASSUME L!LInit PROVE LogInv
<1>1. Sized(logDisk) /\ AllIn(logDisk) = <<>>
  BY DEF L!LInit, L!NoFile, Sized, Disks, AllIn, SaidIn
<1>2. LogTypes
  BY <1>1, LogBounds DEF L!LInit, L!NoFile, L!ClosedRing, LogTypes, Rings
<1>3. Gapless(<<>>, 0, {})
  BY DEF Gapless, Below
<1>4. /\ TailOf(logDisk, wrote, hist.faults, hist.lost) /\ Newest(logDisk, wrote, hist.lost)
      /\ Sole
  BY <1>1, <1>3 DEF L!LInit, L!NoFile, L!ClosedRing, TailOf, Newest, Capped, Sole
<1> QED BY <1>2, <1>4 DEF LogInv

(* open: there is a file under the name, the others are as they were, and   *)
(* the tail is not touched.                                                 *)
LEMMA OpenedDisk ==
  ASSUME NEW d, Sized(d)
  PROVE  /\ Sized(L!Opened(d)) /\ L!Opened(d).main \in 1..Len(L!Opened(d).data)
         /\ Len(L!Opened(d).data) >= Len(d.data) /\ L!Opened(d).old = d.old
         /\ \A f \in 1..Len(d.data) : L!Opened(d).data[f] = d.data[f]
         /\ d.main # L!NoFile => L!Opened(d) = d
         /\ d.main = L!NoFile => /\ L!Opened(d).main = Len(d.data) + 1
                                 /\ L!Opened(d).data[L!Opened(d).main] = L!Empty
<1>1. CASE d.main # L!NoFile
  BY <1>1 DEF L!Opened, L!NoFile, Sized, Disks
<1>2. CASE d.main = L!NoFile
  <2> DEFINE e == L!Opened(d)
             fresh == Append(d.data, L!Empty)
  <2>1. d \in Disks /\ d.data \in Seq(LogFiles) /\ d.old \in Nat
    BY DEF Sized, Disks
  <2>2. L!Empty \in LogFiles /\ L!Empty.said = <<>> /\ L!Empty.size = 0
    BY DEF L!Empty, LogFiles
  <2>3. /\ fresh \in Seq(LogFiles) /\ Len(fresh) = Len(d.data) + 1 /\ fresh[Len(d.data) + 1] = L!Empty
        /\ \A f \in 1..Len(d.data) : fresh[f] = d.data[f]
    BY <2>1, <2>2
  <2>4. e = [d EXCEPT !.main = Len(d.data) + 1, !.data = fresh]
    BY <1>2 DEF L!Opened
  <2> HIDE DEF fresh
  <2>5. e \in Disks /\ e.main = Len(d.data) + 1 /\ e.data = fresh /\ e.old = d.old
    <3>1. Len(d.data) + 1 \in Nat
      BY <2>1
    <3> HIDE DEF e
    <3> QED BY <2>1, <2>3, <2>4, <3>1 DEF Disks
  <2> HIDE DEF e
  <2>6. \A f \in 1..Len(fresh) : fresh[f].said # <<>> => fresh[f].size > 0
    <3> TAKE f \in 1..Len(fresh)
    <3>1. CASE f = Len(d.data) + 1
      BY <2>2, <2>3, <3>1
    <3>2. CASE f \in 1..Len(d.data)
      BY <2>3, <3>2 DEF Sized
    <3> QED BY <2>1, <2>3, <3>1, <3>2
  <2>7. Sized(e)
    BY <2>1, <2>3, <2>5, <2>6 DEF Sized
  <2> QED BY <1>2, <2>1, <2>3, <2>5, <2>7 DEF e, L!NoFile
<1> QED BY <1>1, <1>2

LEMMA OpenedTail ==
  ASSUME NEW d, Sized(d), NEW n \in Nat, NEW k, NEW lost, TailOf(d, n, k, lost)
  PROVE  TailOf(L!Opened(d), n, k, lost) /\ AllIn(L!Opened(d)) = AllIn(d)
<1>1. CASE d.main # L!NoFile
  BY <1>1 DEF L!Opened
<1>2. CASE d.main = L!NoFile
  <2> DEFINE e == L!Opened(d)
  <2>1. d.old \in 0..Len(d.data) /\ Len(d.data) \in Nat
    BY DEF Sized, Disks
  <2>2. /\ e.main = Len(d.data) + 1 /\ e.data[e.main] = L!Empty /\ e.old = d.old
        /\ \A f \in 1..Len(d.data) : e.data[f] = d.data[f]
    BY <1>2, OpenedDisk
  <2> HIDE DEF e
  <2>3. SaidIn(e, e.main) = <<>> /\ SaidIn(d, d.main) = <<>> /\ SaidIn(e, e.old) = SaidIn(d, d.old)
    BY <1>2, <2>1, <2>2 DEF SaidIn, L!NoFile, L!Empty
  <2>4. Capped(e, e.main) /\ (Capped(d, d.old) => Capped(e, e.old)) /\ e.main # e.old
    BY <2>1, <2>2, LogBounds DEF Capped, L!NoFile, L!Empty
  <2>5. AllIn(e) = AllIn(d)
    BY <2>3 DEF AllIn
  <2> QED BY <2>4, <2>5 DEF TailOf, e
<1> QED BY <1>1, <1>2

(* rename: what had the name is all there is.                               *)
LEMMA RenamedDisk ==
  ASSUME NEW d, Sized(d), d.main # L!NoFile
  PROVE  /\ Sized(L!Renamed(d)) /\ L!Renamed(d).main = L!NoFile
         /\ L!Renamed(d).data = d.data /\ L!Renamed(d).old = d.main
<1> DEFINE e == L!Renamed(d)
<1>1. d \in Disks /\ d.main \in Nat /\ d.main <= Len(d.data)
  BY DEF Sized, Disks
<1>2. e = [d EXCEPT !.old = d.main, !.main = 0]
  BY DEF L!Renamed, L!NoFile
<1> HIDE DEF e
<1>3. e \in Disks /\ e.main = 0 /\ e.old = d.main /\ e.data = d.data
  BY <1>1, <1>2 DEF Disks
<1>4. Len(d.data) \in Nat
  BY <1>1 DEF Disks
<1>5. Sized(e)
  BY <1>1, <1>3, <1>4 DEF Sized
<1> QED BY <1>3, <1>5 DEF e, L!NoFile

LEMMA RenamedTail ==
  ASSUME NEW d, Sized(d), d.main # L!NoFile, NEW n \in Nat, NEW k, NEW lost, TailOf(d, n, k, lost)
  PROVE  TailOf(L!Renamed(d), n, k, lost)
<1> DEFINE e == L!Renamed(d)
           m == SaidIn(d, d.main)
           o == SaidIn(d, d.old)
<1>1. e.main = L!NoFile /\ e.data = d.data /\ e.old = d.main
  BY RenamedDisk
<1> HIDE DEF e
<1>2. SaidIn(e, e.main) = <<>> /\ SaidIn(e, e.old) = m /\ Capped(e, e.main)
      /\ (Capped(d, d.main) => Capped(e, e.old))
  BY <1>1 DEF SaidIn, Capped, L!NoFile
<1>3. m \in Seq(1..MaxWritten) /\ o \in Seq(1..MaxWritten)
  BY AllIsSeq
<1>4. Gapless(o \o m, n, lost)
  BY DEF TailOf, AllIn
<1> HIDE DEF m, o
<1>5. Gapless(m, n, lost)
  BY <1>3, <1>4, GaplessSuffix
<1>6. AllIn(e) = m
  BY <1>2, <1>3 DEF AllIn
<1> QED BY <1>1, <1>2, <1>5, <1>6 DEF TailOf, e

(* writeSync: one chunk more in the file that has the name.                 *)
Wrote(d, f, n, len) == [d EXCEPT !.data[f] = [said |-> Append(@.said, n), size |-> @.size + len]]

LEMMA WrittenDisk ==
  ASSUME NEW d, Sized(d), NEW f \in 1..Len(d.data), NEW n \in 1..MaxWritten, NEW len \in 1..MaxLine
  PROVE  /\ Sized(Wrote(d, f, n, len)) /\ Wrote(d, f, n, len).main = d.main
         /\ Wrote(d, f, n, len).old = d.old /\ Len(Wrote(d, f, n, len).data) = Len(d.data)
         /\ Wrote(d, f, n, len).data[f].said = Append(d.data[f].said, n)
         /\ Wrote(d, f, n, len).data[f].size = d.data[f].size + len
         /\ \A g \in 1..Len(d.data) \ {f} : Wrote(d, f, n, len).data[g] = d.data[g]
<1> DEFINE e == Wrote(d, f, n, len)
           file == [said |-> Append(d.data[f].said, n), size |-> d.data[f].size + len]
           data == [d.data EXCEPT ![f] = file]
<1>1. d \in Disks /\ d.data \in Seq(LogFiles)
  BY DEF Sized, Disks
<1>2. d.data[f] \in LogFiles
  BY <1>1
<1>3. d.data[f].said \in Seq(1..MaxWritten) /\ d.data[f].size \in Nat
  BY <1>2 DEF LogFiles
<1>4. Append(d.data[f].said, n) \in Seq(1..MaxWritten) /\ Append(d.data[f].said, n) # <<>>
  <2> DEFINE said == d.data[f].said
  <2>1. said \in Seq(1..MaxWritten)
    BY <1>3
  <2> HIDE DEF said
  <2>2. Append(said, n) \in Seq(1..MaxWritten) /\ Append(said, n) # <<>>
    BY <2>1, AppendProperties
  <2> QED BY <2>2 DEF said
<1>5. d.data[f].size + len \in Nat /\ d.data[f].size + len > 0
  BY <1>3, LogBounds
<1>6. file \in LogFiles /\ file.said # <<>> /\ file.size > 0
  BY <1>4, <1>5 DEF LogFiles
<1>7. e = [d EXCEPT !.data = data]
  BY DEF Wrote
<1> HIDE DEF file, e
<1>8. data \in Seq(LogFiles) /\ Len(data) = Len(d.data)
      /\ \A g \in 1..Len(d.data) : data[g] = IF g = f THEN file ELSE d.data[g]
  BY <1>1, <1>6, ExceptSeq
<1> HIDE DEF data
<1>9. e \in Disks /\ e.data = data /\ e.main = d.main /\ e.old = d.old
  BY <1>1, <1>7, <1>8 DEF Disks
<1>10. Sized(e)
  BY <1>6, <1>8, <1>9 DEF Sized
<1> QED BY <1>8, <1>9, <1>10 DEF file, e

LEMMA WrittenTail ==
  ASSUME NEW d, Sized(d), d.main # L!NoFile, NEW n \in Nat, n + 1 \in 1..MaxWritten, NEW k, NEW lost,
         TailOf(d, n, k, lost), NEW len \in 1..MaxLine,
         k = 0 => Len(SaidIn(d, d.main)) = 0 \/ d.data[d.main].size + len <= Cap
  PROVE  /\ TailOf(Wrote(d, d.main, n + 1, len), n + 1, k, lost)
         /\ Newest(Wrote(d, d.main, n + 1, len), n + 1, lost)
<1> DEFINE e == Wrote(d, d.main, n + 1, len)
           m == SaidIn(d, d.main)
           o == SaidIn(d, d.old)
<1>1. d.main \in 1..Len(d.data) /\ d.old \in 0..Len(d.data) /\ d.main # d.old
  BY DEF Sized, Disks, TailOf, L!NoFile
<1>2. m = d.data[d.main].said /\ m \in Seq(1..MaxWritten) /\ o \in Seq(1..MaxWritten)
  <2>1. m = d.data[d.main].said
    BY DEF SaidIn, L!NoFile
  <2> QED BY <2>1, AllIsSeq
<1>3. /\ e.main = d.main /\ e.old = d.old
      /\ e.data[d.main].said = Append(m, n + 1) /\ e.data[d.main].size = d.data[d.main].size + len
      /\ \A g \in 1..Len(d.data) \ {d.main} : e.data[g] = d.data[g]
  <2>1. /\ e.main = d.main /\ e.old = d.old
        /\ e.data[d.main].said = Append(d.data[d.main].said, n + 1)
        /\ e.data[d.main].size = d.data[d.main].size + len
        /\ \A g \in 1..Len(d.data) \ {d.main} : e.data[g] = d.data[g]
    BY <1>1, WrittenDisk
  <2> HIDE DEF e, m
  <2> QED BY <1>2, <2>1
<1> HIDE DEF e
<1>4. SaidIn(e, e.main) = Append(m, n + 1) /\ SaidIn(e, e.old) = o
  <2> HIDE DEF m
  <2>1. SaidIn(e, e.main) = Append(m, n + 1)
    BY <1>1, <1>3 DEF SaidIn, L!NoFile
  <2>2. SaidIn(e, e.old) = o
    BY <1>1, <1>3 DEF SaidIn, L!NoFile
  <2> QED BY <2>1, <2>2
<1>5. k = 0 => Capped(e, e.main) /\ Capped(e, e.old)
  <2> SUFFICES ASSUME k = 0 PROVE Capped(e, e.main) /\ Capped(e, e.old)
    OBVIOUS
  <2>1. Capped(e, e.old)
    BY <1>1, <1>3 DEF TailOf, Capped, L!NoFile
  <2>2. Len(m) = 0 => Len(Append(m, n + 1)) = 1
    BY <1>2
  <2> QED BY <1>3, <2>1, <2>2 DEF Capped
<1>6. Gapless(o \o m, n, lost)
  BY DEF TailOf, AllIn
<1> HIDE DEF m, o
<1>7. Gapless(o \o Append(m, n + 1), n + 1, lost) /\ Among(o \o Append(m, n + 1), n + 1)
  BY <1>2, <1>6, GaplessWritten
<1>8. AllIn(e) = o \o Append(m, n + 1)
  BY <1>4 DEF AllIn
<1> QED BY <1>1, <1>3, <1>5, <1>7, <1>8 DEF TailOf, Newest, e

(* A chunk is lost, after a fault.                                          *)
LEMMA LostTail ==
  ASSUME NEW d, Sized(d), NEW n \in Nat, NEW k, k # 0, NEW lost, TailOf(d, n, k, lost)
  PROVE  TailOf(d, n + 1, k, lost \union {n + 1}) /\ Newest(d, n + 1, lost \union {n + 1})
<1>1. Gapless(AllIn(d), n + 1, lost \union {n + 1})
  BY AllIsSeq, GaplessAppend DEF TailOf
<1> QED BY <1>1 DEF TailOf, Newest

(* A part of it lands in a file: more bytes, the same chunks.               *)
Torn(d, f, bytes) == [d EXCEPT !.data[f].size = @ + bytes]

LEMMA TornDisk ==
  ASSUME NEW d, Sized(d), NEW f \in 1..Len(d.data), NEW bytes \in Nat
  PROVE  /\ Sized(Torn(d, f, bytes)) /\ Torn(d, f, bytes).main = d.main
         /\ Torn(d, f, bytes).old = d.old /\ Len(Torn(d, f, bytes).data) = Len(d.data)
         /\ AllIn(Torn(d, f, bytes)) = AllIn(d)
<1> DEFINE e == Torn(d, f, bytes)
           file == [d.data[f] EXCEPT !.size = @ + bytes]
           data == [d.data EXCEPT ![f] = file]
<1>1. d \in Disks /\ d.data \in Seq(LogFiles) /\ Len(d.data) \in Nat
  BY DEF Sized, Disks
<1>2. d.data[f] \in LogFiles
  BY <1>1
<1>3. /\ file \in LogFiles /\ file.said = d.data[f].said
      /\ file.said # <<>> => file.size > 0
  BY <1>2 DEF LogFiles, Sized
<1>4. e = [d EXCEPT !.data = data]
  BY DEF Torn
<1> HIDE DEF file, e
<1>5. data \in Seq(LogFiles) /\ Len(data) = Len(d.data)
      /\ \A g \in 1..Len(d.data) : data[g] = IF g = f THEN file ELSE d.data[g]
  BY <1>1, <1>3, ExceptSeq
<1> HIDE DEF data
<1>6. e \in Disks /\ e.data = data /\ e.main = d.main /\ e.old = d.old
  BY <1>1, <1>4, <1>5 DEF Disks
<1>7. Sized(e)
  BY <1>3, <1>5, <1>6 DEF Sized
<1>8. \A g \in 0..Len(d.data) : SaidIn(e, g) = SaidIn(d, g)
  BY <1>1, <1>3, <1>5, <1>6 DEF SaidIn, L!NoFile
<1>9. d.main \in 0..Len(d.data) /\ d.old \in 0..Len(d.data)
  BY <1>1 DEF Sized, Disks
<1> QED BY <1>5, <1>6, <1>7, <1>8, <1>9 DEF AllIn, e

-----------------------------------------------------------------------------
(* What a step leaves, once the types are seen to: the tail, unless two     *)
(* rings were ever open at once.                                            *)
LEMMA RotatedDisk ==
  ASSUME Sized(logDisk)
  PROVE  /\ Sized(L!Rotated) /\ L!Rotated.main \in 1..Len(L!Rotated.data)
         /\ Len(L!Rotated.data) >= Len(logDisk.data)
         /\ SaidIn(L!Rotated, L!Rotated.main) = <<>>
<1>1. CASE logDisk.main # L!NoFile
  <2>1. /\ Sized(L!Renamed(logDisk)) /\ L!Renamed(logDisk).main = L!NoFile
        /\ L!Renamed(logDisk).data = logDisk.data
    BY <1>1, RenamedDisk
  <2>2. L!Rotated = L!Opened(L!Renamed(logDisk))
    BY <1>1 DEF L!Rotated
  <2> QED BY <2>1, <2>2, OpenedDisk DEF SaidIn, L!Empty
<1>2. CASE logDisk.main = L!NoFile
  <2>1. L!Rotated = L!Opened(logDisk)
    BY <1>2 DEF L!Rotated
  <2> QED BY <1>2, <2>1, OpenedDisk DEF SaidIn, L!Empty
<1> QED BY <1>1, <1>2

LEMMA RotatedTail ==
  ASSUME Sized(logDisk), NEW n \in Nat, NEW k, NEW lost, TailOf(logDisk, n, k, lost)
  PROVE  TailOf(L!Rotated, n, k, lost)
<1>1. CASE logDisk.main # L!NoFile
  <2>1. Sized(L!Renamed(logDisk)) /\ TailOf(L!Renamed(logDisk), n, k, lost)
    BY <1>1, RenamedDisk, RenamedTail
  <2>2. L!Rotated = L!Opened(L!Renamed(logDisk))
    BY <1>1 DEF L!Rotated
  <2> QED BY <2>1, <2>2, OpenedTail
<1>2. CASE logDisk.main = L!NoFile
  <2>1. L!Rotated = L!Opened(logDisk)
    BY <1>2 DEF L!Rotated
  <2> QED BY <2>1, OpenedTail
<1> QED BY <1>1, <1>2

(* One ring's step: its disk and its ring are of the right types, the rest  *)
(* of the rings stay as they are.                                           *)
LEMMA RingStep ==
  ASSUME LogInv, NEW c \in Child, NEW d, NEW r \in Rings, NEW k \in 0..MaxLogFaults,
         NEW lost \in SUBSET (1..wrote'),
         ring[c].open, r.open, child' = child,
         logDisk' = d, ring' = [ring EXCEPT ![c] = r], wrote' \in 0..MaxWritten,
         hist' = [hist EXCEPT !.faults = k, !.lost = lost],
         Sized(d), Len(d.data) >= Len(logDisk.data), r.fd <= Len(d.data),
         ~hist.overlapped => TailOf(d, wrote', k, lost) /\ Newest(d, wrote', lost) /\ Knows(d, r, k)
  PROVE  LogInv'
<1>1. LogTypes
  BY DEF LogInv
<1>2. /\ ring' \in [Child -> Rings] /\ ring'[c] = r
      /\ \A b \in Child \ {c} : ring'[b] = ring[b]
  BY <1>1 DEF LogTypes
<1>3. /\ hist' \in [faults : 0..MaxLogFaults, lost : SUBSET (1..wrote'), overlapped : BOOLEAN]
      /\ hist'.faults = k /\ hist'.lost = lost /\ hist'.overlapped = hist.overlapped
  BY <1>1 DEF LogTypes
<1>4. \A b \in Child : /\ ring'[b].fd <= Len(logDisk'.data)
                       /\ ring'[b].open <=> child'[b] \in {"up", "exited"}
  <2> TAKE b \in Child
  <2>1. CASE b = c
    BY <1>1, <1>2, <2>1 DEF LogTypes
  <2>2. CASE b # c
    <3>1. ring'[b].fd \in Nat /\ Len(logDisk.data) \in Nat /\ Len(d.data) \in Nat
      BY <1>1, <1>2 DEF LogTypes, Rings, Sized, Disks
    <3>2. ring'[b] = ring[b] /\ ring[b].fd <= Len(logDisk.data)
          /\ (ring[b].open <=> child[b] \in {"up", "exited"})
      BY <1>1, <1>2, <2>2 DEF LogTypes
    <3> QED BY <3>1, <3>2
  <2> QED BY <2>1, <2>2
<1>5. LogTypes'
  BY <1>1, <1>2, <1>3, <1>4 DEF LogTypes, Sized
<1>6. ~hist'.overlapped => /\ TailOf(logDisk, wrote, hist.faults, hist.lost)'
                          /\ Newest(logDisk, wrote, hist.lost)'
  BY <1>3 DEF TailOf, Newest, AllIn, SaidIn, Capped
<1>7. ~hist'.overlapped => Sole'
  <2> SUFFICES ASSUME ~hist.overlapped PROVE Sole'
    BY <1>3
  <2>1. \A b \in Child : ring[b].open => b = c
    BY DEF LogInv, Sole
  <2>2. \A b \in Child : ring'[b].open => b = c
    BY <1>2, <2>1
  <2>3. Knows(logDisk', ring'[c], hist'.faults)
    BY <1>2, <1>3
  <2> QED BY <2>2, <2>3 DEF Sole, Knows
<1> QED BY <1>5, <1>6, <1>7 DEF LogInv

(* What the writes start from.                                              *)
LEMMA Feeding ==
  ASSUME LogInv, NEW c \in Child, L!Feeds(c)
  PROVE  /\ ring[c].open /\ ring[c] \in Rings /\ Sized(logDisk) /\ ring[c].fd <= Len(logDisk.data)
         /\ hist.faults \in 0..MaxLogFaults /\ Len(logDisk.data) \in Nat
         /\ wrote \in Nat /\ wrote' = wrote + 1 /\ child' = child
         /\ wrote + 1 \in 1..MaxWritten /\ wrote' \in 0..MaxWritten
         /\ hist.lost \in SUBSET (1..wrote') /\ hist.lost \union {wrote + 1} \in SUBSET (1..wrote')
         /\ hist = [hist EXCEPT !.lost = hist.lost]
         /\ logDisk.main # L!NoFile => logDisk.main \in 1..Len(logDisk.data)
         /\ ~hist.overlapped => /\ TailOf(logDisk, wrote, hist.faults, hist.lost)
                                /\ Knows(logDisk, ring[c], hist.faults)
<1>1. wrote \in 0..MaxWritten /\ wrote < MaxWritten /\ wrote' = wrote + 1 /\ hist.lost \subseteq 1..wrote
  BY DEF LogInv, LogTypes, L!Feeds
<1>2. /\ wrote \in Nat /\ wrote + 1 \in 1..MaxWritten /\ wrote' \in 0..MaxWritten
      /\ hist.lost \subseteq 1..wrote' /\ hist.lost \union {wrote + 1} \subseteq 1..wrote'
  BY <1>1, LogBounds
<1> QED BY <1>1, <1>2 DEF LogInv, LogTypes, Sole, L!Feeds, Sized, Disks, L!NoFile

LEMMA GrownRing ==
  ASSUME NEW r \in Rings, NEW len \in Nat
  PROVE  /\ L!Grown(r, len) \in Rings /\ L!Grown(r, len).open = r.open
         /\ L!Grown(r, len).fd = r.fd /\ L!Grown(r, len).size = r.size + len
BY DEF L!Grown, Rings

(* write: to a disk on which the rotation, if there was one, left the tail. *)
LEMMA WriteToInv ==
  ASSUME LogInv, NEW c \in Child, NEW d, NEW r \in Rings, NEW fault \in Nat,
         NEW len \in 1..MaxLine, hist.faults + fault \in 0..MaxLogFaults,
         L!Feeds(c), L!WriteTo(c, d, r, len, fault), r.open,
         Sized(d), Len(d.data) >= Len(logDisk.data), r.fd <= Len(d.data),
         ~hist.overlapped => /\ TailOf(d, wrote, hist.faults + fault, hist.lost)
                             /\ Knows(d, r, hist.faults + fault)
                             /\ hist.faults + fault = 0 => \/ Len(SaidIn(d, d.main)) = 0
                                                           \/ d.data[d.main].size + len <= Cap
  PROVE  LogInv'
<1> DEFINE k == hist.faults + fault
           q == L!Grown(r, len)
<1>1. k \in 0..MaxLogFaults
  OBVIOUS
<1>2. q \in Rings /\ q.open /\ q.fd = r.fd /\ q.size = r.size + len
  <2>1. len \in Nat
    BY LogBounds
  <2> QED BY <2>1, GrownRing
<1>3. CASE r.fd = L!NoFile
  <2> DEFINE lost == hist.lost \union {wrote + 1}
  <2>1. PICK s \in {r, q} : logDisk' = d /\ ring' = [ring EXCEPT ![c] = s]
    BY <1>3 DEF L!WriteTo
  <2>2. hist' = [hist EXCEPT !.faults = k, !.lost = lost]
    BY <1>3 DEF L!WriteTo, L!IsLost
  <2>3. s \in Rings /\ s.open /\ s.fd = r.fd
    BY <1>2, <2>1
  <2>4. lost \in SUBSET (1..wrote')
    BY Feeding
  <2> HIDE DEF k, lost, q
  <2>5. ~hist.overlapped => TailOf(d, wrote', k, lost) /\ Newest(d, wrote', lost) /\ Knows(d, s, k)
    <3> SUFFICES ASSUME ~hist.overlapped
                 PROVE  TailOf(d, wrote', k, lost) /\ Newest(d, wrote', lost) /\ Knows(d, s, k)
      OBVIOUS
    <3>1. k # 0 /\ Knows(d, s, k)
      BY <1>3, <2>3 DEF Knows, k
    <3>2. TailOf(d, wrote, k, hist.lost) /\ wrote \in Nat /\ wrote' = wrote + 1
      BY Feeding DEF k
    <3> QED BY <3>1, <3>2, LostTail DEF lost
  <2> QED BY <1>1, <2>1, <2>2, <2>3, <2>4, <2>5, Feeding, RingStep
<1>4. CASE r.fd # L!NoFile
  <2> DEFINE e == Wrote(d, r.fd, wrote + 1, len)
  <2>1. logDisk' = e /\ ring' = [ring EXCEPT ![c] = q] /\ hist' = [hist EXCEPT !.faults = k]
    BY <1>4 DEF Wrote, L!WriteTo, L!Arrives
  <2>2. hist' = [hist EXCEPT !.faults = k, !.lost = hist.lost]
    BY <2>1 DEF LogInv, LogTypes
  <2>3. r.fd \in 1..Len(d.data)
    BY <1>4 DEF Rings, L!NoFile, Sized, Disks
  <2>4. /\ Sized(e) /\ e.main = d.main /\ e.old = d.old /\ Len(e.data) = Len(d.data)
        /\ e.data[r.fd].size = d.data[r.fd].size + len
    BY <2>3, Feeding, WrittenDisk
  <2>5. ASSUME ~hist.overlapped
        PROVE  TailOf(e, wrote', k, hist.lost) /\ Newest(e, wrote', hist.lost) /\ Knows(e, q, k)
    <3>1. r.fd = d.main /\ (k = 0 => r.size = d.data[d.main].size)
      BY <1>4, <2>5 DEF Knows
    <3>2. e = Wrote(d, d.main, wrote + 1, len)
      BY <3>1
    <3>3. TailOf(e, wrote + 1, k, hist.lost) /\ Newest(e, wrote + 1, hist.lost)
      BY <1>4, <2>5, <3>1, <3>2, Feeding, WrittenTail
    <3>4. Knows(e, q, k)
      BY <1>2, <1>4, <2>4, <3>1 DEF Knows
    <3> QED BY <3>3, <3>4, Feeding
  <2> HIDE DEF e, q, k
  <2> QED BY <1>1, <1>2, <2>1, <2>2, <2>4, <2>5, Feeding, RingStep
<1> QED BY <1>3, <1>4

LEMMA LogWriteInv ==
  ASSUME LogInv, NEW c \in Child, NEW len \in 1..MaxLine, L!Write(c, len) PROVE LogInv'
<1>1. L!Feeds(c) /\ L!WriteTo(c, logDisk, ring[c], len, 0) /\ ~L!MustRotate(c, len)
  BY DEF L!Write
<1>2. ASSUME ~hist.overlapped, hist.faults = 0
      PROVE  Len(SaidIn(logDisk, logDisk.main)) = 0 \/ logDisk.data[logDisk.main].size + len <= Cap
  <2>1. ring[c].fd = logDisk.main /\ ring[c].fd # L!NoFile
        /\ ring[c].size = logDisk.data[logDisk.main].size
    BY <1>1, <1>2, Feeding DEF Knows
  <2>2. logDisk.main \in 1..Len(logDisk.data) /\ ring[c].size \in Nat /\ len \in Nat
    BY <1>1, <2>1, Feeding, LogBounds DEF Rings
  <2>3. CASE ring[c].size > 0
    BY <1>1, <2>1, <2>2, <2>3, LogBounds DEF L!MustRotate
  <2>4. CASE ~(ring[c].size > 0)
    <3>1. logDisk.data[logDisk.main].said = <<>>
      BY <1>1, <2>1, <2>2, <2>4, Feeding DEF Sized
    <3> QED BY <2>1, <3>1 DEF SaidIn
  <2> QED BY <2>3, <2>4
<1>3. Len(logDisk.data) >= Len(logDisk.data) /\ hist.faults + 0 = hist.faults
  BY <1>1, Feeding
<1> QED BY <1>1, <1>2, <1>3, Feeding, WriteToInv

LEMMA OnRotated ==
  ASSUME LogInv, NEW k
  PROVE  /\ L!On(L!Rotated) \in Rings /\ L!On(L!Rotated).open /\ Sized(L!Rotated)
         /\ Len(L!Rotated.data) >= Len(logDisk.data) /\ L!On(L!Rotated).fd <= Len(L!Rotated.data)
         /\ Len(SaidIn(L!Rotated, L!Rotated.main)) = 0 /\ Knows(L!Rotated, L!On(L!Rotated), k)
<1>1. Sized(logDisk)
  BY DEF LogInv, LogTypes
<1>2. /\ Sized(L!Rotated) /\ L!Rotated.main \in 1..Len(L!Rotated.data)
      /\ Len(L!Rotated.data) >= Len(logDisk.data) /\ SaidIn(L!Rotated, L!Rotated.main) = <<>>
  BY <1>1, RotatedDisk
<1>3. L!Rotated.data \in Seq(LogFiles) /\ L!Rotated.main \in Nat
  BY <1>2 DEF Sized, Disks
<1>4. L!Rotated.data[L!Rotated.main].size \in Nat
  BY <1>2, SizeIsNat
<1> QED BY <1>2, <1>3, <1>4 DEF L!On, Rings, Knows, L!NoFile

LEMMA LogWriteRotatingInv ==
  ASSUME LogInv, NEW c \in Child, NEW len \in 1..MaxLine, L!WriteRotating(c, len) PROVE LogInv'
<1>1. /\ L!Feeds(c) /\ L!WriteTo(c, L!Rotated, L!On(L!Rotated), len, 0)
  BY DEF L!WriteRotating
<1>2. ~hist.overlapped => TailOf(L!Rotated, wrote, hist.faults, hist.lost)
  BY <1>1, Feeding, RotatedTail
<1>3. hist.faults + 0 = hist.faults /\ hist.faults \in 0..MaxLogFaults
  BY <1>1, Feeding
<1> QED BY <1>1, <1>2, <1>3, OnRotated, WriteToInv

LEMMA Faulty ==
  ASSUME LogInv, L!MayFault
  PROVE  /\ hist.faults + 1 \in 0..MaxLogFaults /\ hist.faults + 1 # 0
         /\ \A d, n : TailOf(d, n, hist.faults, hist.lost) => TailOf(d, n, hist.faults + 1, hist.lost)
BY LogBounds DEF LogInv, LogTypes, L!MayFault, TailOf

LEMMA LogWriteUnrotatedInv ==
  ASSUME LogInv, NEW c \in Child, NEW len \in 1..MaxLine, L!WriteUnrotated(c, len) PROVE LogInv'
<1> DEFINE k == hist.faults + 1
<1>1. L!Feeds(c) /\ logDisk.main # L!NoFile /\ L!MayFault
  BY DEF L!WriteUnrotated
<1>2. /\ k \in 0..MaxLogFaults /\ k # 0
      /\ \A d, n : TailOf(d, n, hist.faults, hist.lost) => TailOf(d, n, k, hist.lost)
  BY <1>1, Faulty
<1>3. ~hist.overlapped => TailOf(logDisk, wrote, k, hist.lost)
  BY <1>1, <1>2, Feeding
<1>4. CASE L!WriteTo(c, logDisk, L!On(logDisk), len, 1)
  <2>1. logDisk.main \in 1..Len(logDisk.data) /\ logDisk.data \in Seq(LogFiles)
    BY <1>1, Feeding DEF Sized, Disks
  <2>2. logDisk.data[logDisk.main].size \in Nat
    BY <1>1, <2>1, SizeIsNat, Feeding
  <2>3. /\ L!On(logDisk) \in Rings /\ L!On(logDisk).open /\ L!On(logDisk).fd <= Len(logDisk.data)
        /\ Knows(logDisk, L!On(logDisk), k) /\ Len(logDisk.data) >= Len(logDisk.data)
    BY <1>1, <2>1, <2>2 DEF L!On, Rings, Knows
  <2> QED BY <1>1, <1>2, <1>3, <1>4, <2>3, Feeding, WriteToInv
<1>5. CASE L!WriteTo(c, L!Rotated, L!On(L!Rotated), len, 1)
  <2>1. ~hist.overlapped => TailOf(L!Rotated, wrote, k, hist.lost)
    BY <1>1, <1>3, Feeding, RotatedTail
  <2> QED BY <1>1, <1>2, <1>5, <2>1, OnRotated, WriteToInv
<1>6. ASSUME NEW d \in {logDisk, L!Renamed(logDisk)},
             L!WriteTo(c, d, [ring[c] EXCEPT !.fd = L!NoFile], len, 1)
      PROVE  LogInv'
  <2> DEFINE r == [ring[c] EXCEPT !.fd = L!NoFile]
  <2>1. r \in Rings /\ r.open /\ r.fd = L!NoFile
    BY <1>1, Feeding DEF Rings, L!NoFile
  <2>2. Sized(d) /\ d.data = logDisk.data
    BY <1>1, <1>6, Feeding, RenamedDisk
  <2>3. ~hist.overlapped => TailOf(d, wrote, k, hist.lost)
    BY <1>1, <1>3, <1>6, Feeding, RenamedTail
  <2>4. L!WriteTo(c, d, r, len, 1)
    BY <1>6
  <2> HIDE DEF r
  <2>5. Knows(d, r, k)
    BY <1>2, <2>1 DEF Knows
  <2>6. Len(d.data) >= Len(logDisk.data) /\ r.fd <= Len(d.data)
    BY <1>1, <2>1, <2>2, Feeding DEF L!NoFile
  <2> QED BY <1>1, <1>2, <2>1, <2>2, <2>3, <2>4, <2>5, <2>6, WriteToInv
<1> QED BY <1>4, <1>5, <1>6 DEF L!WriteUnrotated

(* writeSync fails, or writes a part.                                       *)
LEMMA LandsInv ==
  ASSUME LogInv, NEW c \in Child, NEW d, NEW r \in Rings, NEW len \in 1..MaxLine,
         L!Feeds(c), L!MayFault, L!IsLost(1), L!LandsIn(c, d, r, len), r.open,
         Sized(d), Len(d.data) >= Len(logDisk.data), r.fd <= Len(d.data),
         ~hist.overlapped => /\ TailOf(d, wrote, hist.faults, hist.lost)
                             /\ Knows(d, r, hist.faults)
  PROVE  LogInv'
<1> DEFINE k == hist.faults + 1
           lost == hist.lost \union {wrote + 1}
<1>1. k \in 0..MaxLogFaults /\ k # 0 /\ hist' = [hist EXCEPT !.faults = k, !.lost = lost]
      /\ lost \in SUBSET (1..wrote')
  BY Faulty, Feeding DEF L!IsLost
<1> HIDE DEF k, lost
<1>2. ~hist.overlapped => TailOf(d, wrote, k, hist.lost)
  BY Faulty DEF k
<1>3. CASE logDisk' = d /\ ring' = [ring EXCEPT ![c] = r]
  <2>1. ASSUME ~hist.overlapped
        PROVE  TailOf(d, wrote', k, lost) /\ Newest(d, wrote', lost) /\ Knows(d, r, k)
    <3>1. TailOf(d, wrote', k, lost) /\ Newest(d, wrote', lost)
      BY <1>1, <1>2, <2>1, Feeding, LostTail DEF lost
    <3> QED BY <1>1, <2>1, <3>1 DEF Knows
  <2> QED BY <1>1, <1>3, <2>1, Feeding, RingStep
<1>4. ASSUME NEW bytes \in 1..(len - 1), r.fd # L!NoFile,
             logDisk' = Torn(d, r.fd, bytes), ring' = [ring EXCEPT ![c] = L!Grown(r, len)]
      PROVE  LogInv'
  <2> DEFINE q == L!Grown(r, len)
             e == Torn(d, r.fd, bytes)
  <2>1. q \in Rings /\ q.open /\ q.fd = r.fd
    <3>1. len \in Nat
      BY LogBounds
    <3> QED BY <3>1, GrownRing
  <2>2. r.fd \in 1..Len(d.data) /\ bytes \in Nat
    BY <1>4, LogBounds DEF Rings, L!NoFile, Sized, Disks
  <2>3. /\ Sized(e) /\ e.main = d.main /\ e.old = d.old /\ Len(e.data) = Len(d.data)
        /\ AllIn(e) = AllIn(d)
    BY <2>2, TornDisk
  <2>4. logDisk' = e /\ ring' = [ring EXCEPT ![c] = q]
    BY <1>4
  <2> HIDE DEF q, e
  <2>5. ASSUME ~hist.overlapped
        PROVE  TailOf(e, wrote', k, lost) /\ Newest(e, wrote', lost) /\ Knows(e, q, k)
    <3>1. TailOf(e, wrote, k, hist.lost)
      BY <1>1, <1>2, <2>3, <2>5 DEF TailOf
    <3>2. TailOf(e, wrote', k, lost) /\ Newest(e, wrote', lost)
      BY <1>1, <2>3, <3>1, Feeding, LostTail DEF lost
    <3>3. Knows(e, q, k)
      BY <1>1, <2>1, <2>3, <2>5 DEF Knows
    <3> QED BY <3>2, <3>3
  <2>6. Len(e.data) >= Len(logDisk.data) /\ q.fd <= Len(e.data)
    BY <2>1, <2>3
  <2> QED BY <1>1, <2>1, <2>3, <2>4, <2>5, <2>6, Feeding, RingStep
<1> QED BY <1>3, <1>4 DEF L!LandsIn, Torn

LEMMA LogWriteFailsInv ==
  ASSUME LogInv, NEW c \in Child, NEW len \in 1..MaxLine, L!WriteFails(c, len) PROVE LogInv'
<1>1. L!Feeds(c) /\ L!MayFault /\ L!IsLost(1)
  BY DEF L!WriteFails
<1>2. CASE L!LandsIn(c, logDisk, ring[c], len)
  <2>1. Len(logDisk.data) >= Len(logDisk.data)
    BY <1>1, Feeding
  <2> QED BY <1>1, <1>2, <2>1, Feeding, LandsInv
<1>3. CASE L!LandsIn(c, L!Rotated, L!On(L!Rotated), len)
  <2>1. ~hist.overlapped => TailOf(L!Rotated, wrote, hist.faults, hist.lost)
    BY <1>1, Feeding, RotatedTail
  <2> QED BY <1>1, <1>3, <2>1, OnRotated, LandsInv
<1> QED BY <1>2, <1>3 DEF L!WriteFails

LEMMA LogSpawnInv == ASSUME LogInv, NEW c \in Child, L!Spawn(c) PROVE LogInv'
<1> DEFINE d == L!Opened(logDisk)
           r == L!On(L!Opened(logDisk))
<1>1. /\ child[c] = "unborn" /\ child' = [child EXCEPT ![c] = "up"] /\ wrote' = wrote
      /\ logDisk' = d /\ ring' = [ring EXCEPT ![c] = r] /\ hist'.faults = hist.faults
      /\ hist'.overlapped = (hist.overlapped \/ \E b \in Child : ring[b].open)
      /\ hist' \in [faults : 0..MaxLogFaults, lost : SUBSET (1..wrote), overlapped : BOOLEAN]
      /\ hist'.lost = hist.lost
  BY DEF L!Spawn, LogInv, LogTypes
<1>2. LogTypes /\ Sized(logDisk)
  BY DEF LogInv, LogTypes
<1>3. /\ Sized(d) /\ d.main \in 1..Len(d.data) /\ Len(d.data) >= Len(logDisk.data)
  BY <1>2, OpenedDisk
<1>4. d.data[d.main].size \in Nat /\ Len(d.data) \in Nat /\ Len(logDisk.data) \in Nat
  BY <1>2, <1>3, SizeIsNat DEF Sized, Disks
<1>5. r \in Rings /\ r.open /\ r.fd = d.main /\ r.size = d.data[d.main].size
  BY <1>3, <1>4 DEF L!On, Rings
<1> HIDE DEF d, r
<1>6. LogTypes'
  <2>1. \A b \in Child : /\ ring'[b].fd <= Len(logDisk'.data)
                         /\ ring'[b].open <=> child'[b] \in {"up", "exited"}
    <3> TAKE b \in Child
    <3>1. CASE b = c
      BY <1>1, <1>2, <1>3, <1>5, <3>1 DEF LogTypes
    <3>2. CASE b # c
      <4>1. ring'[b] = ring[b] /\ child'[b] = child[b] /\ ring[b].fd \in Nat
        BY <1>1, <1>2, <3>2 DEF LogTypes, Rings
      <4>2. ring[b].fd <= Len(logDisk.data) /\ (ring[b].open <=> child[b] \in {"up", "exited"})
        BY <1>2 DEF LogTypes
      <4> QED BY <1>1, <1>3, <1>4, <4>1, <4>2
    <3> QED BY <3>1, <3>2
  <2>2. ring' \in [Child -> Rings] /\ child' \in [Child -> {"unborn", "up", "exited", "closed"}]
    BY <1>1, <1>2, <1>5 DEF LogTypes
  <2> QED BY <1>1, <1>2, <1>3, <2>1, <2>2 DEF LogTypes, Sized
<1>7. ASSUME ~hist'.overlapped
      PROVE  /\ TailOf(logDisk, wrote, hist.faults, hist.lost)'
             /\ Newest(logDisk, wrote, hist.lost)' /\ Sole'
  <2>1. ~hist.overlapped /\ \A b \in Child : ~ring[b].open
    BY <1>1, <1>7
  <2>2. TailOf(d, wrote, hist.faults, hist.lost) /\ AllIn(d) = AllIn(logDisk)
    BY <1>2, <2>1, OpenedTail DEF d, LogInv, LogTypes
  <2>6. Newest(d, wrote, hist.lost)
    BY <2>1, <2>2 DEF LogInv, Newest
  <2>3. \A b \in Child : ring'[b].open => b = c
    BY <1>1, <1>2, <2>1 DEF LogTypes
  <2>4. Knows(d, r, hist.faults)
    BY <1>3, <1>5 DEF Knows, L!NoFile
  <2>5. ring'[c] = r
    BY <1>1, <1>2 DEF LogTypes
  <2> QED BY <1>1, <2>2, <2>3, <2>4, <2>5, <2>6 DEF Sole, Knows, TailOf, Newest, AllIn, SaidIn, Capped
<1> QED BY <1>6, <1>7 DEF LogInv

LEMMA LogEndInv == ASSUME LogInv, NEW c \in Child, L!Exit(c) \/ L!CloseRing(c) PROVE LogInv'
<1>1. UNCHANGED <<logDisk, wrote, hist>> /\ LogTypes
  BY DEF L!Exit, L!CloseRing, LogInv
<1>2. L!ClosedRing \in Rings /\ ~L!ClosedRing.open /\ L!ClosedRing.fd = 0
  BY DEF L!ClosedRing, Rings, L!NoFile
<1>3. PICK x \in {"exited", "closed"} : child' = [child EXCEPT ![c] = x]
  BY DEF L!Exit, L!CloseRing
<1>4. /\ ring' \in [Child -> Rings]
      /\ \A b \in Child \ {c} : ring'[b] = ring[b] /\ child'[b] = child[b]
      /\ child' \in [Child -> {"unborn", "up", "exited", "closed"}]
      /\ ring'[c] \in {ring[c], L!ClosedRing} /\ child'[c] \in {"exited", "closed"}
      /\ ring'[c].open <=> child'[c] = "exited"
  BY <1>1, <1>2, <1>3 DEF LogTypes, L!Exit, L!CloseRing
<1>5. \A b \in Child : /\ ring'[b].fd <= Len(logDisk.data) /\ (ring'[b].open => ring'[b] = ring[b])
                       /\ ring'[b].open <=> child'[b] \in {"up", "exited"}
  <2> TAKE b \in Child
  <2>1. Len(logDisk.data) \in Nat
    BY <1>1 DEF LogTypes, Sized, Disks
  <2>2. CASE b = c
    BY <1>1, <1>2, <1>4, <2>1, <2>2 DEF LogTypes
  <2>3. CASE b # c
    BY <1>1, <1>4, <2>3 DEF LogTypes
  <2> QED BY <2>2, <2>3
<1>6. LogTypes'
  BY <1>1, <1>4, <1>5 DEF LogTypes, Sized
<1>7. ~hist.overlapped => /\ TailOf(logDisk, wrote, hist.faults, hist.lost)'
                         /\ Newest(logDisk, wrote, hist.lost)' /\ Sole'
  BY <1>1, <1>5 DEF LogInv, Sole, Knows, TailOf, Newest, AllIn, SaidIn, Capped
<1> QED BY <1>1, <1>6, <1>7 DEF LogInv

LEMMA LogStepInv == ASSUME LogInv, L!LNext \/ UNCHANGED lvars PROVE LogInv'
<1>1. CASE UNCHANGED lvars
  BY <1>1 DEF lvars, LogInv, LogTypes, Sole, Knows, TailOf, Newest, AllIn, SaidIn, Capped, Sized
<1>2. ASSUME NEW c \in Child, L!Spawn(c) \/ L!Exit(c) \/ L!CloseRing(c) PROVE LogInv'
  BY <1>2, LogSpawnInv, LogEndInv
<1>3. ASSUME NEW c \in Child, NEW len \in 1..MaxLine,
             \/ L!Write(c, len) \/ L!WriteRotating(c, len) \/ L!WriteUnrotated(c, len)
             \/ L!WriteFails(c, len)
      PROVE  LogInv'
  BY <1>3, LogWriteInv, LogWriteRotatingInv, LogWriteUnrotatedInv, LogWriteFailsInv
<1> QED BY <1>1, <1>2, <1>3 DEF L!LNext

LEMMA LogInvHolds == LogInv => L!LTypeOK /\ L!LogIsATail
<1> SUFFICES ASSUME LogInv PROVE L!LTypeOK /\ L!LogIsATail
  OBVIOUS
<1>1. LogTypes /\ Sized(logDisk)
  BY DEF LogInv, LogTypes
<1>2. /\ logDisk.main \in 0..Len(logDisk.data) /\ logDisk.old \in 0..Len(logDisk.data)
      /\ logDisk.data \in Seq(LogFiles) /\ Len(logDisk.data) \in Nat
  BY <1>1 DEF Sized, Disks
<1>3. L!LTypeOK
  <2>1. \A c \in Child : /\ ring[c].fd \in 0..Len(logDisk.data)
                         /\ ring[c].open <=> child[c] \in {"up", "exited"}
    BY <1>1, <1>2 DEF LogTypes, Rings
  <2>2. \A f \in DOMAIN logDisk.data : logDisk.data[f] \in [said : Seq(1..MaxWritten), size : Nat]
    <3>1. \A f \in DOMAIN logDisk.data : logDisk.data[f] \in LogFiles
      BY <1>2
    <3> QED BY <3>1 DEF LogFiles
  <2> QED BY <1>1, <1>2, <2>1, <2>2 DEF LogTypes, L!LTypeOK
<1>4. L!LogIsATail
  <2> SUFFICES ASSUME ~hist.overlapped
               PROVE  /\ L!InOrder
                      /\ \A n \in 1..wrote : L!Holds(n) \/ n \in hist.lost \/ L!Passed(n)
                      /\ hist.faults = 0 => hist.lost = {} /\ L!Bounded
    BY DEF L!LogIsATail
  <2>1. /\ Gapless(AllIn(logDisk), wrote, hist.lost) /\ Newest(logDisk, wrote, hist.lost)
        /\ hist.faults = 0 => /\ hist.lost = {} /\ Capped(logDisk, logDisk.main)
                              /\ Capped(logDisk, logDisk.old)
    BY DEF LogInv, TailOf
  <2> DEFINE s == AllIn(logDisk)
  <2>2. L!Kept = s /\ s \in Seq(1..MaxWritten)
    BY <1>1, AllIsSeq DEF L!Kept, L!Said, AllIn, SaidIn
  <2> HIDE DEF s
  <2>3. DOMAIN s = 1..Len(s)
    BY <2>2
  <2>4. L!InOrder
    BY <2>1, <2>2, <2>3 DEF L!InOrder, Gapless, s
  <2>5. ASSUME NEW n \in 1..wrote PROVE L!Holds(n) \/ n \in hist.lost \/ L!Passed(n)
    <3>1. /\ Among(s, n) => L!Holds(n)
          /\ Below(s, n) /\ n < wrote => L!Passed(n)
      BY <2>2, <2>3 DEF Among, Below, L!Holds, L!Passed
    <3>2. Among(s, n) \/ n \in hist.lost \/ Below(s, n)
      BY <2>1 DEF Gapless, s
    <3>3. n = wrote => Among(s, n) \/ n \in hist.lost
      BY <2>1 DEF Newest, s
    <3>4. n < wrote \/ n = wrote
      BY <1>1 DEF LogTypes
    <3> QED BY <3>1, <3>2, <3>3, <3>4
  <2>6. hist.faults = 0 => L!Bounded
    BY <2>1 DEF Capped, L!Bounded
  <2> QED BY <2>1, <2>4, <2>5, <2>6
<1> QED BY <1>3, <1>4

PartLog == part = "log" => LogInv

LEMMA PartLogInv == JobSpec => []PartLog
<1>1. JobInit => PartLog
  BY LogInitInv DEF JobInit, PartLog
<1>2. PartLog /\ [JobNext]_jobVars => PartLog'
  <2> SUFFICES ASSUME PartLog, [JobNext]_jobVars, part' = "log" PROVE LogInv'
    BY DEF PartLog
  <2>1. CASE LogStep
    BY <2>1, LogStepInv DEF LogStep, InLog, PartLog, L!LNext
  <2>2. CASE ~LogStep
    <3>1. part' = part /\ UNCHANGED lvars
      BY <2>2 DEF JobNext, LockStep, GitStep, JobStep, CaptureStep, TerminalStep, NamespaceStep,
         InLock, InGit, InJob, InCapture, InTerminal, InNamespace, jobVars
    <3> QED BY <3>1, LogStepInv DEF PartLog
  <2> QED BY <2>1, <2>2
<1> QED BY <1>1, <1>2, PTL DEF JobSpec

(* createLogRing and startWorker: for every cap, chunk and number of        *)
(* incarnations the two files hold the output in its order and end with the *)
(* newest; what is missing in between was lost to a file operation that     *)
(* failed, and if none did nothing is missing and each file is within the   *)
(* cap or one chunk.  Unless two rings were once open together.             *)
THEOREM LogsKeepTheNewest == JobSpec => []LogIsATail
<1>1. PartLog => LogIsATail
  BY LogInvHolds DEF PartLog, LogIsATail
<1> QED BY <1>1, PartLogInv, PTL
=============================================================================
