---------------------------- MODULE LockHeartbeat ----------------------------
(***************************************************************************)
(* The clock behind one dispatched job (supervisor/src/dispatch.ts): the   *)
(* extend that must succeed before the agent starts, the heartbeat that    *)
(* renews the lock while it runs, and the rule by which the heartbeat      *)
(* gives up.  The engine has its own view: it holds the lock until         *)
(* lockUntil and may hand the job to another host from then on.            *)
(*                                                                         *)
(* Timers of the process fire on time: it is the delays of the engine and  *)
(* of the network that this module is about.                               *)
(***************************************************************************)
EXTENDS Integers

CONSTANTS
    Interval,      \* extendIntervalMs
    Timeout,       \* extendTimeoutMs, by default the same as Interval
    Window,        \* recoveryWindowMs
    InitialLock,   \* initialLockMs, the short lock of the activation
    MaxTime        \* bound of the clock, for TLC

ASSUME HeartbeatAssumption ==
    /\ Interval \in Nat \ {0} /\ Timeout \in Nat \ {0}
    /\ Window \in Nat /\ InitialLock \in Nat \ {0} /\ MaxTime \in Nat
    /\ Interval < Window        \* lockExtendIntervalMs is capped below it

VARIABLES
    now,         \* the clock
    lockUntil,   \* engine: until when the job is locked
    owner,       \* engine: which host holds the job
    beat,        \* what the dispatch fiber waits for
    since,       \* when it began to
    call,        \* the extend under way
    stray,       \* an extend given up on that may still reach the engine
    lastOk,      \* lastOkAtRef
    misses,      \* beats missed since lastOk (not in the code: for BlipTolerated)
    why          \* how the run ended

vars == <<now, lockUntil, owner, beat, since, call, stray, lastOk, misses, why>>
engineVars == <<lockUntil, owner>>

Running == beat \in {"asleep", "extending"}       \* the agent child is alive
Calling == beat \in {"winner", "extending"}       \* an extend is awaited

\* The type invariant.
TypeOK ==
    /\ now \in Nat /\ lockUntil \in Nat /\ since \in Nat /\ lastOk \in Nat
    /\ owner \in {"us", "other"}
    /\ beat \in {"winner", "asleep", "extending", "over"}
    /\ call \in {"none", "sent", "taken", "denied", "failed"}
    /\ stray \in BOOLEAN
    /\ misses \in Nat
    /\ why \in {"none", "notStarted", "finished", "terminal", "lapsed"}

-----------------------------------------------------------------------------
\* The job was leased, and perhaps parked, a while ago; its winner extend
\* leaves now.
Init ==
    /\ now = 0
    /\ lockUntil \in 1 .. InitialLock
    /\ owner = "us"
    /\ beat = "winner" /\ since = 0 /\ call = "sent"
    /\ stray = FALSE
    /\ lastOk = 0 /\ misses = 0
    /\ why = "none"

\* Time passes, up to the next timer of the fiber.
Tick ==
    /\ now < MaxTime
    /\ beat = "asleep" => now < since + Interval
    /\ Calling => now < since + Timeout
    /\ now' = now + 1
    /\ UNCHANGED <<engineVars, beat, since, call, stray, lastOk, misses, why>>

(* The engine. *)

\* An extend sets the lock a window ahead of the moment it is processed.  The
\* job carries a lease token: only the holder's extends are taken.
EngineExtends ==
    /\ owner = "us"
    /\ \/ call = "sent" /\ call' = "taken" /\ UNCHANGED stray
       \/ stray /\ stray' = FALSE /\ UNCHANGED call
    /\ lockUntil' = now + Window
    /\ UNCHANGED <<now, owner, beat, since, lastOk, misses, why>>

\* isTerminalRenewalError: the lease is gone, or the request is refused for
\* good (400, 401, 403, 422).
EngineDenies ==
    /\ call = "sent"
    /\ call' = "denied"
    /\ UNCHANGED <<now, engineVars, beat, since, stray, lastOk, misses, why>>

\* A 5xx, a 429, a broken connection: taken or not, the answer is an error.
EngineErrs ==
    /\ \/ call = "sent" \/ call = "taken"
    /\ call' = "failed"
    /\ UNCHANGED <<now, engineVars, beat, since, stray, lastOk, misses, why>>

\* The lock ran out and the job went to another host.
Reclaim ==
    /\ owner = "us" /\ now >= lockUntil
    /\ owner' = "other"
    /\ UNCHANGED <<now, lockUntil, beat, since, call, stray, lastOk, misses, why>>

(* The fiber. *)

Sleep == beat' = "asleep" /\ since' = now /\ call' = "none"
Over(reason) == beat' = "over" /\ why' = reason /\ call' = "none" /\ UNCHANGED since

\* Mutated form: the success is booked at the beat's expected time.
ExtendOkBackdated ==
    /\ Calling /\ call = "taken"
    /\ lastOk' = now - Interval
    /\ misses' = 0
    /\ Sleep
    /\ UNCHANGED <<now, engineVars, stray, why>>

\* The answer of an extend arrives: lastOk is the moment of the answer.  The
\* winner's starts the agent.
ExtendOk ==
    /\ Calling /\ call = "taken"
    /\ lastOk' = now
    /\ misses' = 0
    /\ Sleep
    /\ UNCHANGED <<now, engineVars, stray, why>>

\* The deadline passed, or an error came back.
Missed == Calling /\ (call = "failed" \/ now = since + Timeout)

\* The request is aborted, which does not call back what has already left: it
\* may still reach the engine.
LeaveStray == stray' = (stray \/ call = "sent")

\* The winner's extend failed: the agent is not started.
NotStarted ==
    /\ beat = "winner"
    /\ call = "denied" \/ Missed
    /\ Over("notStarted") /\ LeaveStray
    /\ UNCHANGED <<now, engineVars, lastOk, misses>>

\* A terminal error ends the run at once.
Superseded ==
    /\ beat = "extending" /\ call = "denied"
    /\ Over("terminal")
    /\ UNCHANGED <<now, engineVars, stray, lastOk, misses>>

Beat ==
    /\ beat = "asleep" /\ now = since + Interval
    /\ beat' = "extending" /\ since' = now /\ call' = "sent"
    /\ UNCHANGED <<now, engineVars, stray, lastOk, misses, why>>

\* Mutated form: one more beat is allowed.
WouldLapseLate == now - lastOk >= Window

\* Mutated form: the margin is counted twice.
WouldLapseEarly == (now - lastOk) + 3 * Interval >= Window

\* The next beat would land at or after the end of the window.
WouldLapse == (now - lastOk) + Interval >= Window

\* retryUnlessLapsed.
RetryUnlessLapsed ==
    /\ beat = "extending" /\ Missed
    /\ misses' = misses + 1
    /\ LeaveStray
    /\ IF WouldLapse THEN Over("lapsed") ELSE Sleep /\ UNCHANGED why
    /\ UNCHANGED <<now, engineVars, lastOk>>

AgentFinishes ==
    /\ Running
    /\ Over("finished") /\ LeaveStray
    /\ UNCHANGED <<now, engineVars, lastOk, misses>>

Next ==
    \/ Tick
    \/ EngineExtends \/ EngineDenies \/ EngineErrs \/ Reclaim
    \/ ExtendOk \/ NotStarted \/ Superseded \/ Beat \/ RetryUnlessLapsed
    \/ AgentFinishes

Spec == Init /\ [][Next]_vars

-----------------------------------------------------------------------------
(* Properties. *)

\* However extends are delayed, lost or refused, the agent is stopped less than
\* two extend timeouts after its lock ran out: one for the answer that made
\* lastOk later than the engine's own clock, one for the last beat.
OverrunBounded == Running => now < lockUntil + 2 * Timeout

\* One beat that fails before its deadline never ends a run: the run lapses at
\* its second missed beat, or at a beat that hung for the whole timeout.  It
\* takes 2 * Interval + Timeout <= Window, which workAgent just meets: its
\* interval is a third of the window and its timeout the interval, so there a
\* single beat that hangs is enough.
OnlyAHangEnds == why' = "lapsed" /\ why # "lapsed" => misses' >= 2 \/ now = since + Timeout
BlipTolerated == [][OnlyAHangEnds]_vars

=============================================================================
