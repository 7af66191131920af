--------------------------- MODULE AgentInstance ---------------------------
(***************************************************************************)
(* The durable transcript of one job: createAgentInstanceProducer in       *)
(* agent-instance.mjs.  The producer mints (or adopts) an AgentInstance in *)
(* the engine, turns the session updates of the agent into turns, appends  *)
(* them one at a time, and closes the instance when the job succeeded.     *)
(* Every engine call is bounded: on a timeout the producer goes on while   *)
(* the call stays in flight and may still take effect.                     *)
(***************************************************************************)
EXTENDS Naturals, Sequences, SequencesExt, FiniteSets

CONSTANTS MaxUpdates,   \* session updates of the run
          Plan,         \* plan contents
          MaxCreates,   \* bound: hot-path create attempts
          MaxInFlight,  \* maxInFlightCreates
          BufferMax,    \* preMintBufferMax
          MaxPending,   \* maxPendingAppends
          MaxChunks,    \* chunks that fit maxPendingMessageBytes
          TerminalMax   \* terminalRetryMax, at least 1

LimitAssumption ==
  /\ {MaxUpdates, MaxCreates, MaxInFlight, BufferMax, MaxPending, MaxChunks, TerminalMax} \subseteq Nat
  /\ TerminalMax # 0

VARIABLES prod,    \* the producer's own state
          script,  \* turns on their way: pending message, append queue, plan ids
          calls,   \* create requests in flight, with what the engine made of them
          late,    \* appends that timed out and may still land
          eng,     \* the engine's instance: made, status, history
          next     \* id of the next session update
avars == <<prod, script, calls, late, eng, next>>

Update(id) == [id : {id}, kind : {"chunk", "message", "tool"}] \union
              [id : {id}, kind : {"plan"}, plan : Plan]

AInit ==
  /\ prod = [phase |-> "new", attempts |-> 0, gen |-> 0, creating |-> 0, key |-> FALSE,
             disabled |-> FALSE, finalizing |-> FALSE, finalized |-> FALSE, ok |-> FALSE,
             tries |-> 0, buffer |-> <<>>, plan |-> <<>>]
  /\ script = [msg |-> {}, queue |-> <<>>, lost |-> {}, repeated |-> {},
               recorded |-> {}, inFlight |-> {}, appended |-> {}]
  /\ calls = {} /\ late = {} /\ next = 1
  /\ \E made \in BOOLEAN :     \* an earlier activation may have left an instance
       eng = [made |-> made, status |-> "open", history |-> <<>>]

-----------------------------------------------------------------------------
(* Classifying an update into turns, with the caps on the way.              *)

AppendTurn(s, turn, reserved) ==
  IF Len(s.queue) >= MaxPending + (IF reserved THEN 1 ELSE 0)
  THEN [s EXCEPT !.lost = @ \union turn.ids]
  ELSE [s EXCEPT !.queue = Append(@, turn)]

\* Mutated form: the pending message is dropped.
FlushMessageForgetting(s) == [s EXCEPT !.msg = {}]

FlushMessage(s) ==
  IF s.msg = {} THEN s
  ELSE AppendTurn([s EXCEPT !.msg = {}], [kind |-> "message", ids |-> s.msg], FALSE)

AddChunk(s, u) ==
  IF Cardinality(s.msg) >= MaxChunks THEN [s EXCEPT !.lost = @ \union {u.id}]
  ELSE [s EXCEPT !.msg = @ \union {u.id}]

(* A plan equal to one recorded or on its way is not appended again.        *)
OnPlan(s, u, reserved) ==
  IF u.plan \in s.recorded \union s.inFlight THEN [s EXCEPT !.repeated = @ \union {u.id}]
  ELSE LET turn == [kind |-> "plan", ids |-> {u.id}, plan |-> u.plan]
           flushed == FlushMessage(s)
           sent == AppendTurn(flushed, turn, reserved)
       IN IF sent.queue = flushed.queue THEN sent
          ELSE [sent EXCEPT !.inFlight = @ \union {u.plan}]

IngestClassified(s, u, reserved) ==
  CASE u.kind = "chunk"   -> AddChunk(s, u)
    [] u.kind = "message" -> AddChunk(FlushMessage(s), u)
    [] u.kind = "tool"    -> AppendTurn(FlushMessage(s), [kind |-> "tool", ids |-> {u.id}], FALSE)
    [] u.kind = "plan"    -> OnPlan(s, u, reserved)

(* What piled up before the instance had a key: the updates in their order, *)
(* then the latest plan.                                                    *)
Trail(s, buffer) ==
  LET after[i \in 0..Len(buffer)] ==
        IF i = 0 THEN s ELSE IngestClassified(after[i - 1], buffer[i], FALSE)
  IN after
Replay(s, buffer, plan) ==
  LET replayed == Trail(s, buffer)[Len(buffer)]
  IN IF plan = <<>> THEN replayed ELSE IngestClassified(replayed, Head(plan), TRUE)

BufferPreMint(u) ==
  CASE u.kind = "plan" ->
         /\ prod' = [prod EXCEPT !.plan = <<u>>]
         /\ script' = [script EXCEPT !.repeated = @ \union {p.id : p \in ToSet(prod.plan)}]
    [] u.kind # "plan" /\ Len(prod.buffer) >= BufferMax ->
         script' = [script EXCEPT !.lost = @ \union {u.id}] /\ UNCHANGED prod
    [] OTHER -> prod' = [prod EXCEPT !.buffer = Append(@, u)] /\ UNCHANGED script

Ids(updates) == {updates[i].id : i \in DOMAIN updates}
LoseBuffers(s) == [s EXCEPT !.lost = @ \union Ids(prod.buffer \o prod.plan)]

-----------------------------------------------------------------------------
(* Creating the instance.                                                   *)

Begin(p) == [p EXCEPT !.gen = @ + 1, !.creating = p.gen + 1, !.attempts = @ + 1]
Request == calls' = calls \union {[gen |-> prod.gen + 1, reply |-> "none"]}

MayCreate == /\ ~prod.disabled /\ ~prod.key /\ prod.creating = 0
             /\ ~prod.finalized /\ ~prod.finalizing
             /\ Cardinality(calls) < MaxInFlight /\ prod.attempts < MaxCreates

Activate == /\ prod.phase = "new" /\ prod' = [Begin(prod) EXCEPT !.phase = "run"]
            /\ Request /\ UNCHANGED <<script, late, eng, next>>

(* The engine serves the request; a second create of an element instance    *)
(* is answered 409 with the key of the first.                               *)
EngineCreate(c) ==
  /\ c.reply = "none"
  /\ \E reply \in {"made", "permanent", "transient"} :
       /\ calls' = (calls \ {c}) \union {[c EXCEPT !.reply = reply]}
       /\ eng' = [eng EXCEPT !.made = @ \/ reply = "made"]
  /\ UNCHANGED <<prod, script, late, next>>

Retired(c) == prod.finalized \/ c.gen # prod.creating \/ c.gen # prod.gen

CreateReturns(c) ==
  /\ c.reply # "none" /\ calls' = calls \ {c}
  /\ IF Retired(c) THEN UNCHANGED <<prod, script>>
     ELSE /\ prod' = [prod EXCEPT !.creating = 0,
                        !.disabled = @ \/ c.reply = "permanent",
                        !.key = @ \/ c.reply = "made",
                        !.buffer = IF c.reply = "made" THEN <<>> ELSE @,
                        !.plan = IF c.reply = "made" THEN <<>> ELSE @]
          /\ script' = CASE c.reply # "made" -> script
                         [] c.reply = "made" /\ prod.disabled -> LoseBuffers(script)
                         [] OTHER -> Replay(script, prod.buffer, prod.plan)
  /\ UNCHANGED <<late, eng, next>>

\* Mutated form: the slot stays taken.
RetireCreateHolding ==
  /\ prod.creating # 0 /\ prod' = [prod EXCEPT !.gen = @ + 1]
  /\ UNCHANGED <<script, calls, late, eng, next>>

\* Mutated form: the last create is never given up.
RetireCreateHot ==
  /\ prod.creating # 0 /\ prod.phase # "final"
  /\ prod' = [prod EXCEPT !.gen = @ + 1, !.creating = 0]
  /\ UNCHANGED <<script, calls, late, eng, next>>

(* No answer within finalizeTimeoutMs: the attempt gives up its slot and    *)
(* whatever it still brings is dropped.                                     *)
RetireCreate ==
  /\ prod.creating # 0 /\ prod' = [prod EXCEPT !.gen = @ + 1, !.creating = 0]
  /\ UNCHANGED <<script, calls, late, eng, next>>

-----------------------------------------------------------------------------
(* activate() waits for the first attempt.                                  *)
Running == prod.phase = "run" /\ (prod.attempts = 1 => prod.creating = 0)

Ingest ==
  /\ Running /\ next <= MaxUpdates /\ next' = next + 1
  /\ \E u \in Update(next) :
       \/ /\ prod.disabled
          /\ script' = [script EXCEPT !.lost = @ \union {u.id}] /\ UNCHANGED <<prod, calls>>
       \/ /\ ~prod.disabled /\ prod.key
          /\ script' = IngestClassified(script, u, FALSE) /\ UNCHANGED <<prod, calls>>
       \/ ~prod.disabled /\ ~prod.key /\ BufferPreMint(u) /\ UNCHANGED calls
  /\ UNCHANGED <<late, eng>>

(* An update that finds no key also retries the create once the backoff is  *)
(* over.                                                                    *)
RetryCreate ==
  /\ Running /\ MayCreate /\ prod' = Begin(prod) /\ Request
  /\ UNCHANGED <<script, late, eng, next>>

(* The append chain works on one turn at a time.                            *)
Landed(s, turn) == [s EXCEPT !.queue = Tail(@), !.appended = @ \union turn.ids,
  !.recorded = IF turn.kind = "plan" THEN @ \union {turn.plan} ELSE @,
  !.inFlight = IF turn.kind = "plan" THEN @ \ {turn.plan} ELSE @]
Failed(s, turn) == [s EXCEPT !.queue = Tail(@), !.lost = @ \union turn.ids,
  !.inFlight = IF turn.kind = "plan" THEN @ \ {turn.plan} ELSE @]

Write(turn) == eng' = IF turn.kind = "completed" THEN [eng EXCEPT !.status = "completed"]
                      ELSE [eng EXCEPT !.history = Append(@, turn)]

AppendNext ==
  /\ script.queue # <<>>
  /\ LET turn == Head(script.queue)
     IN \/ Write(turn) /\ script' = Landed(script, turn) /\ UNCHANGED late
        \/ script' = Failed(script, turn) /\ UNCHANGED <<late, eng>>
        \/ script' = Failed(script, turn) /\ late' = late \union {turn} /\ UNCHANGED eng
  /\ UNCHANGED <<prod, calls, next>>

LandLate(turn) == /\ late' = late \ {turn}
                  /\ Write(IF turn.kind = "completed" THEN turn ELSE [turn EXCEPT !.kind = "late"])
                  /\ UNCHANGED <<prod, script, calls, next>>

-----------------------------------------------------------------------------
(* complete(ok) and discard().                                              *)

Complete ==
  /\ Running
  /\ \E ok \in BOOLEAN :
       LET unminted == ~prod.disabled /\ ~prod.key
       IN prod' = [prod EXCEPT !.ok = ok, !.finalizing = unminted,
                               !.phase = IF unminted THEN "await" ELSE "seal"]
  /\ UNCHANGED <<script, calls, late, eng, next>>

(* The one last attempt, past the backoff and the in-flight cap.            *)
FinalCreate ==
  /\ prod.phase = "await" /\ prod.creating = 0
  /\ IF prod.key THEN prod' = [prod EXCEPT !.phase = "seal"] /\ UNCHANGED calls
     ELSE prod' = [Begin(prod) EXCEPT !.phase = "final"] /\ Request
  /\ UNCHANGED <<script, late, eng, next>>

FinalSettled ==
  /\ prod.phase = "final" /\ prod.creating = 0
  /\ prod' = [prod EXCEPT !.phase = "seal"]
  /\ UNCHANGED <<script, calls, late, eng, next>>

Seal ==
  /\ prod.phase = "seal"
  /\ LET silent == prod.disabled \/ ~prod.key
     IN /\ prod' = [prod EXCEPT !.finalized = TRUE, !.buffer = <<>>, !.plan = <<>>,
                                !.phase = IF silent THEN "over" ELSE "drain"]
        /\ script' = IF silent
             THEN [LoseBuffers(script) EXCEPT !.lost = @ \union script.msg, !.msg = {}]
             ELSE FlushMessage(script)
  /\ UNCHANGED <<calls, late, eng, next>>

(* The bounded drain ends empty or on its deadline; then the terminal       *)
(* update goes out at once, or behind the appends still queued.             *)
Drain ==
  /\ prod.phase = "drain"
  /\ \/ /\ script.queue = <<>> /\ UNCHANGED script
        /\ prod' = [prod EXCEPT !.phase = IF prod.ok THEN "terminal" ELSE "over"]
     \/ /\ script.queue # <<>> /\ prod' = [prod EXCEPT !.phase = "over"]
        /\ script' = IF ~prod.ok THEN script ELSE
             [script EXCEPT !.queue = Append(@, [kind |-> "completed", ids |-> {}])]
  /\ UNCHANGED <<calls, late, eng, next>>

Terminate ==
  /\ prod.phase = "terminal"
  /\ LET done == [kind |-> "completed", ids |-> {}]
     IN \/ Write(done) /\ prod' = [prod EXCEPT !.phase = "over"] /\ UNCHANGED late
        \/ /\ UNCHANGED <<eng, late>>
           /\ \E permanent \in BOOLEAN :
                prod' = [prod EXCEPT !.tries = @ + 1, !.phase =
                           IF permanent \/ prod.tries + 1 >= TerminalMax THEN "over" ELSE @]
        \/ /\ late' = late \union {done} /\ UNCHANGED eng
           /\ prod' = [prod EXCEPT !.phase = "over"]
  /\ UNCHANGED <<script, calls, next>>

(* The job was lost before it ran, or was handed to another producer.       *)
Discard ==
  /\ Running /\ ~prod.disabled
  /\ prod' = [prod EXCEPT !.finalized = TRUE, !.phase = "over", !.gen = @ + 1,
                          !.creating = 0, !.buffer = <<>>, !.plan = <<>>]
  /\ script' = FlushMessage(LoseBuffers(script))
  /\ UNCHANGED <<calls, late, eng, next>>

ANext == \/ Activate \/ RetireCreate \/ Ingest \/ RetryCreate \/ AppendNext
         \/ \E c \in calls : EngineCreate(c) \/ CreateReturns(c)
         \/ \E turn \in late : LandLate(turn)
         \/ Complete \/ FinalCreate \/ FinalSettled \/ Seal \/ Drain \/ Terminate \/ Discard

AFairness == /\ WF_avars(RetireCreate) /\ WF_avars(FinalCreate) /\ WF_avars(FinalSettled)
             /\ WF_avars(Seal) /\ WF_avars(Drain) /\ WF_avars(Terminate)
ASpec == AInit /\ [][ANext]_avars /\ AFairness

-----------------------------------------------------------------------------
Turns == [kind : {"message", "tool", "plan", "late", "completed"}, ids : SUBSET (1..MaxUpdates)]
IsTurn(t) == [kind |-> t.kind, ids |-> t.ids] \in Turns
ATypeOK ==
  /\ prod.phase \in {"new", "run", "await", "final", "seal", "drain", "terminal", "over"}
  /\ prod.creating \in {0, prod.gen} /\ prod.gen \in Nat /\ prod.tries \in 0..TerminalMax
  /\ Len(prod.buffer) <= BufferMax /\ Len(prod.plan) <= 1
  /\ script.recorded \in SUBSET Plan /\ script.inFlight \in SUBSET Plan
  /\ \A t \in ToSet(script.queue) \union ToSet(eng.history) \union late : IsTurn(t)
  /\ Len(script.queue) <= MaxPending + 2
  /\ next \in 1..(MaxUpdates + 1)

(* Every update handed to the producer is on its way, appended, or counted  *)
(* as lost or repeated, and in one of these places only: the replay, the    *)
(* flushes and the discard neither forget nor send an update twice.         *)
Accounts == <<script.msg, UNION {t.ids : t \in ToSet(script.queue)}, Ids(prod.buffer),
              Ids(prod.plan), script.appended, script.lost, script.repeated>>
Conservation ==
  /\ UNION ToSet(Accounts) = 1..(next - 1)
  /\ \A i, j \in DOMAIN Accounts : i # j => Accounts[i] \intersect Accounts[j] = {}

(* complete() hands the job back even if the engine never answers.          *)
HandsBack == (prod.phase \notin {"new", "run"}) ~> (prod.phase = "over")

=============================================================================
