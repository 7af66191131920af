------------------------------ MODULE GhToken ------------------------------
(***************************************************************************)
(* The cached gh token of a worker (c8ctl-plugin.js): the gh CLI holds the *)
(* credential, the worker a copy.  The copy is refreshed by a timer and by *)
(* SIGUSR1 with an asynchronous read, and by a job whose git call was      *)
(* refused with a blocking one, which may run while the asynchronous read  *)
(* is under way.  A generation number keeps the older read from winning.   *)
(***************************************************************************)
EXTENDS Naturals

CONSTANTS MaxRotations,   \* bound: changes of the credential that gh holds
          MaxTrouble      \* bound: reads that fail, jobs that are refused

RotationAssumption == {MaxRotations, MaxTrouble} \subseteq Nat

VARIABLES cred,      \* what gh holds: its version, and whether somebody is logged in
          cache,     \* ghAuthTokenCache
          refresh,   \* the asynchronous refresh in flight (ghAuthRefreshInFlight)
          waiting,   \* callers of refreshGhAuthTokenAsync that wait for it
          reload,    \* the last SIGUSR1: the version gh held then, and how it went
          holds,     \* the token a job works with, Jobless without one
          trouble
kvars == <<cred, cache, refresh, waiting, reload, holds, trouble>>

NoToken == 0
Jobless == MaxRotations + 2
Caller == {"timer", "signal", "job"}
Forced == {"signal", "job"}
Fresh == 0   \* less than GH_AUTH_TOKEN_TTL_MS since the last check
Stale == 1
Overdue == 2 \* GH_AUTH_TOKEN_MAX_DEFER_MS and more

Quiet == [pc |-> "none", by |-> "timer", ver |-> 0, token |-> NoToken, failed |-> FALSE,
          overtaken |-> FALSE]
Token == IF cred.out THEN NoToken ELSE cred.ver

(* What adoptGhAuthToken makes of a read: a failed one keeps the old token, *)
(* and the scopes are probed for a new token or where they are unknown.     *)
Adopt(old, failed, ver, token, probed) ==
  IF failed THEN [old EXCEPT !.age = Fresh, !.scopes = @ /\ old.token # NoToken]
  ELSE [ver |-> ver, token |-> token, age |-> Fresh, scopes |->
          token # NoToken /\ IF old.token = token /\ old.scopes THEN TRUE ELSE probed]

(* Every write of the cache advances the generation.                        *)
Overtake == [refresh EXCEPT !.overtaken = refresh.pc # "none"]
Trouble(bad) == IF bad THEN trouble < MaxTrouble /\ trouble' = trouble + 1 ELSE UNCHANGED trouble

(* A blocking read of the CLI (refreshGhAuthToken), and what it leaves.     *)
Probed == BOOLEAN                                 \* whether ghTokenScopes answers
Refreshed(old, failed, probed) == Adopt(old, failed, cred.ver, Token, probed)

(* primeGhAuthToken, before the worker polls.                               *)
Unread == [ver |-> 0, token |-> NoToken, scopes |-> FALSE, age |-> Fresh]
KInit == /\ cred \in [ver : {1}, out : BOOLEAN]
         /\ \E failed \in BOOLEAN, probed \in Probed : cache = Refreshed(Unread, failed, probed)
         /\ refresh = Quiet /\ waiting = {} /\ reload = [since |-> 0, pc |-> "none"]
         /\ holds = Jobless /\ trouble = 0

Rotate == /\ cred.ver <= MaxRotations
          /\ \E out \in BOOLEAN : cred' = [ver |-> cred.ver + 1, out |-> out]
          /\ UNCHANGED <<cache, refresh, waiting, reload, holds, trouble>>
Age == /\ cache.age < Overdue /\ cache' = [cache EXCEPT !.age = @ + 1]
       /\ UNCHANGED <<cred, refresh, waiting, reload, holds, trouble>>

-----------------------------------------------------------------------------
(* refreshGhAuthTokenAsync.  A caller finds a refresh in flight and waits,  *)
(* or starts one; the timer only when the cache is past its TTL, and while  *)
(* a job runs only when it is overdue.                                      *)

Begin(who) == [Quiet EXCEPT !.pc = "read", !.by = who]
Call(who) == IF refresh.pc = "none" THEN refresh' = Begin(who) /\ UNCHANGED waiting
             ELSE waiting' = waiting \union {who} /\ UNCHANGED refresh

\* Mutated form: a busy worker never asks.
MayDeferForever == holds # Jobless

MayDefer == holds # Jobless /\ cache.age < Overdue
TimerTick ==
  /\ refresh.by # "timer" \/ refresh.pc = "none"
  /\ "timer" \notin waiting /\ ~MayDefer /\ cache.age >= Stale /\ Call("timer")
  /\ UNCHANGED <<cred, cache, reload, holds, trouble>>

Signal == /\ reload.pc = "none" /\ Call("signal")
          /\ reload' = [since |-> cred.ver, pc |-> "asked"]
          /\ UNCHANGED <<cred, cache, holds, trouble>>

ReadAsync ==
  /\ refresh.pc = "read"
  /\ \E failed \in BOOLEAN :
       /\ Trouble(failed)
       /\ refresh' = [refresh EXCEPT !.pc = "adopt", !.failed = failed,
                        !.ver = cred.ver, !.token = Token]
  /\ UNCHANGED <<cred, cache, waiting, reload, holds>>

\* Mutated form: the generation is not compared.
SupersededNever == FALSE

(* The scopes are probed between the two halves of adoptGhAuthTokenAsync.   *)
Superseded == refresh.overtaken
Ends(ok) == reload' = IF refresh.by = "signal" THEN [reload EXCEPT !.pc = IF ok THEN "done" ELSE "failed"]
                      ELSE reload
CommitAsync ==
  /\ refresh.pc = "adopt"
  /\ \E probed \in Probed :
       cache' = IF Superseded THEN cache
                ELSE Adopt(cache, refresh.failed, refresh.ver, refresh.token, probed)
  /\ holds' = IF refresh.by = "job" /\ cache'.token # NoToken THEN cache'.token ELSE holds
  /\ refresh' = Quiet /\ Ends(~refresh.failed)
  /\ UNCHANGED <<cred, waiting, trouble>>

(* The refresh a caller waited for is over: the timer takes what it left,   *)
(* a forced caller reads again, behind any other that was quicker.          *)
Resume(who) ==
  /\ refresh.pc = "none" /\ who \in waiting /\ waiting' = waiting \ {who}
  /\ refresh' = IF who \in Forced THEN Begin(who) ELSE refresh
  /\ UNCHANGED <<cred, cache, reload, holds, trouble>>

-----------------------------------------------------------------------------
(* A job.  It gets the cached token, or forces a refresh if there is none;  *)
(* a git call that is refused forces a blocking read, and is repeated when  *)
(* that brings another token.                                               *)

GhAuthTokenFromCli == cache.token
JobStarts ==
  /\ holds = Jobless /\ "job" \notin waiting /\ (refresh.pc # "none" => refresh.by # "job")
  /\ holds' = GhAuthTokenFromCli
  /\ IF GhAuthTokenFromCli = NoToken THEN Call("job") ELSE UNCHANGED <<refresh, waiting>>
  /\ UNCHANGED <<cred, cache, reload, trouble>>

Recover ==
  /\ holds # Jobless
  /\ trouble < MaxTrouble /\ trouble' = trouble + 1
  /\ \E failed \in BOOLEAN, probed \in Probed : cache' = Refreshed(cache, failed, probed)
  /\ holds' = IF cache'.token # NoToken THEN cache'.token ELSE holds
  /\ refresh' = Overtake /\ UNCHANGED <<cred, waiting, reload>>

JobEnds == /\ holds # Jobless /\ holds' = Jobless
           /\ UNCHANGED <<cred, cache, refresh, waiting, reload, trouble>>

KNext == \/ Rotate \/ Age \/ TimerTick \/ Signal \/ ReadAsync \/ CommitAsync
         \/ \E who \in Caller : Resume(who)
         \/ JobStarts \/ Recover \/ JobEnds
KFairness == /\ WF_kvars(Age) /\ WF_kvars(TimerTick) /\ WF_kvars(ReadAsync) /\ WF_kvars(CommitAsync)
             /\ \A who \in Caller : WF_kvars(Resume(who))
KSpec == KInit /\ [][KNext]_kvars /\ KFairness

-----------------------------------------------------------------------------
KTypeOK ==
  /\ cred.ver \in 1..(MaxRotations + 1) /\ cache.age \in Fresh..Overdue
  /\ cache.token \in {NoToken, cache.ver} /\ cache.ver <= cred.ver
  /\ refresh.pc \in {"none", "read", "adopt"} /\ refresh.by \in Caller
  /\ waiting \subseteq Caller /\ holds \in 0..Jobless /\ trouble \in 0..MaxTrouble

(* A slow asynchronous read never brings back a credential older than one   *)
(* that a recovery has put into the cache meanwhile.                        *)
NoResurrection == [][cache'.ver >= cache.ver]_kvars

(* Whoever logs in, the worker learns of it without a restart, even if it   *)
(* is never idle: the deferral of the timer is bounded.  That holds of a    *)
(* worker that starts logged out as well: primeGhAuthToken leaves a null    *)
(* token with a time of check in the cache, not UNSET, so the bound applies *)
(* to it, where comments say that it stays anonymous until it goes idle.    *)
RotationIsSeen == <>[](cache.ver = cred.ver)

(* A reload that read the CLI leaves the cache at least as new as the       *)
(* signal: it does not "leave the stale credential cached".                 *)
ReloadTakes == [][reload'.pc = "done" /\ reload.pc # "done" => cache'.ver >= reload.since]_kvars
=============================================================================
