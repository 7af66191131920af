------------------------- MODULE HostServicesProofs -------------------------
(***************************************************************************)
(* Theorems about the services of a worker host, for any constants.        *)
(*                                                                         *)
(* Presence: the hub never shows a job that no agent runs.  The invariant  *)
(* follows a claim from the agent through the ownership registry and the   *)
(* shadow to the hub: each view is contained in the one before it, so a    *)
(* replay can only bring back what is still true.  A release is not sent   *)
(* without a handle or a socket: nothing was claimed there either.         *)
(*                                                                         *)
(* Token: the cache is never ahead of gh, and a read that waits to be      *)
(* adopted is behind the cache only if the cache was written after it      *)
(* began; so what is adopted is not older.                                 *)
(*                                                                         *)
(* Hub: the memo, the discovery cache and the client hold places.          *)
(*                                                                         *)
(* Transcript: an update is in a buffer or in one place of the script; the *)
(* ids of a buffer, and of the turns in the queue, are distinct, and there *)
(* is no buffer once there is a key.  The replay is a function over the    *)
(* buffer's indices: that it exists, and what it leaves, is shown of the   *)
(* least index for which it would not be so.                               *)
(***************************************************************************)
EXTENDS MCHostServices, Sequences, FiniteSetTheorems, NaturalsInduction, TLAPS

\* The registry claims what runs.
RegistryClaims == \A c \in claims : running[c[1]] = c[2]

\* The shadow and the hub hold claims of the registry.
ViewsAgree == shadow.claimed \subseteq claims /\ hub.claimed \subseteq claims

\* Claims are sent through the handle, and shown while the socket is up.
ViewsBegin ==
    /\ ~handle => shadow.claimed = {}
    /\ ~handle \/ conn # "up" => hub.claimed = {}

IInv == TypeOK /\ RegistryClaims /\ ViewsAgree /\ ViewsBegin

\* Typed claims are pairs.
LEMMA ClaimPair == \A c \in Claim : c[1] \in Instance /\ c[2] \in Job
  BY DEF Claim

\* A pass only removes claims.
LEMMA ProjectedClaims ==
    ASSUME NEW v \in View, NEW before \in SUBSET Instance, TypeOK
    PROVE  Projected(v, before) \in View /\ Projected(v, before).claimed \subseteq v.claimed
  BY DEF Projected, Drop, View, TypeOK

\* Initially nothing is claimed anywhere.
LEMMA InitIInv == Init => IInv
<1> SUFFICES ASSUME Init PROVE IInv
  OBVIOUS
<1>1. Nothing \in View /\ Nothing.claimed = {}
  BY DEF Nothing, View, Claim
<1>2. TypeOK
  BY <1>1, PresenceAssumption DEF Init, TypeOK, PresenceAssumption
<1>3. RegistryClaims /\ ViewsAgree /\ ViewsBegin
  BY <1>1 DEF Init, RegistryClaims, ViewsAgree, ViewsBegin
<1>4. QED
  BY <1>2, <1>3 DEF IInv

\* Every step keeps the invariant.
LEMMA NextIInv == IInv /\ [Next]_vars => IInv'
<1> SUFFICES ASSUME IInv, [Next]_vars PROVE IInv'
  OBVIOUS
<1> USE ClaimPair
<1>0. shadow \in View /\ hub \in View /\ owned \in SUBSET Instance /\ known \in SUBSET Instance
  BY DEF IInv, TypeOK
<1>1. ASSUME NEW w \in Instance, Register(w) PROVE IInv'
  BY <1>1 DEF IInv, TypeOK, RegistryClaims, ViewsAgree, ViewsBegin, Register
<1>2. ASSUME NEW w \in Instance, Deregister(w) PROVE IInv'
  <2>1. TypeOK'
    BY <1>2 DEF IInv, TypeOK, Deregister
  <2>2. \A c \in claims : c[1] # w
    BY <1>2, PresenceAssumption DEF IInv, TypeOK, RegistryClaims, Deregister, PresenceAssumption
  <2>3. claims' = claims
    BY <1>2, <2>2 DEF Deregister
  <2>4. QED
    BY <1>2, <2>1, <2>3 DEF IInv, RegistryClaims, ViewsAgree, ViewsBegin, Deregister
<1>3. ASSUME NEW w \in Instance, NEW j \in Job, RunBegins(w, j) PROVE IInv'
  <2>1. \A c \in claims : c[1] # w
    BY <1>3, PresenceAssumption DEF IInv, TypeOK, RegistryClaims, RunBegins, PresenceAssumption
  <2>2. <<w, j>> \in Claim
    BY <1>3 DEF Claim
  <2>3. /\ Claimed(shadow, w, j) \in View /\ Claimed(hub, w, j) \in View
        /\ Claimed(shadow, w, j).claimed = shadow.claimed \cup {<<w, j>>}
        /\ Claimed(hub, w, j).claimed = hub.claimed \cup {<<w, j>>}
    BY <1>0, <2>2 DEF Claimed, View
  <2>4. TypeOK'
    BY <1>3, <2>2, <2>3 DEF IInv, TypeOK, RunBegins, Emit
  <2>5. RegistryClaims'
    BY <1>3, <2>1 DEF IInv, TypeOK, RegistryClaims, RunBegins
  <2>6. ViewsAgree' /\ ViewsBegin'
    BY <1>3, <2>3 DEF IInv, ViewsAgree, ViewsBegin, RunBegins, Emit
  <2>7. QED
    BY <2>4, <2>5, <2>6 DEF IInv
<1>4. ASSUME NEW w \in Instance, RunEnds(w) PROVE IInv'
  <2> DEFINE c0 == <<w, running[w]>>
  <2>1. \A c \in claims : c # c0 => c[1] # w
    BY DEF IInv, TypeOK, RegistryClaims, Claim
  <2>2. /\ Released(shadow, w, running[w]) \in View /\ Released(hub, w, running[w]) \in View
        /\ Released(shadow, w, running[w]).claimed = shadow.claimed \ {c0}
        /\ Released(hub, w, running[w]).claimed = hub.claimed \ {c0}
    BY <1>0 DEF Released, View
  <2>4. TypeOK'
    BY <1>4, <2>2 DEF IInv, TypeOK, RunEnds, Emit
  <2>5. RegistryClaims'
    BY <1>4, <2>1 DEF IInv, TypeOK, RegistryClaims, RunEnds
  <2>6. shadow'.claimed \subseteq shadow.claimed \ {c0}
    BY <1>4, <2>2 DEF IInv, ViewsBegin, RunEnds, Emit
  <2>7. hub'.claimed \subseteq hub.claimed \ {c0}
    BY <1>4, <2>2 DEF IInv, ViewsBegin, RunEnds, Emit
  <2>8. claims' = claims \ {c0} /\ handle' = handle /\ conn' = conn
    BY <1>4 DEF RunEnds
  <2>9. ViewsAgree' /\ ViewsBegin'
    BY <2>6, <2>7, <2>8 DEF IInv, ViewsAgree, ViewsBegin
  <2>10. QED
    BY <2>4, <2>5, <2>9 DEF IInv
<1>5. CASE Project
  <2>1. /\ Projected(shadow, known) \in View /\ Projected(hub, known) \in View
        /\ Projected(shadow, known).claimed \subseteq shadow.claimed
        /\ Projected(hub, known).claimed \subseteq hub.claimed
    BY <1>0, ProjectedClaims DEF IInv
  <2>2. QED
    BY <1>5, <2>1 DEF IInv, TypeOK, RegistryClaims, ViewsAgree, ViewsBegin, Project, Emit, registryVars
<1>6. CASE Connect \/ SocketOpens \/ SocketDrops
  BY <1>6 DEF IInv, TypeOK, RegistryClaims, ViewsAgree, ViewsBegin, Connect, SocketOpens, SocketDrops,
              registryVars, Nothing, View
<1>7. CASE Established
  <2>1. /\ Projected(shadow, {}) \in View /\ Projected(hub, {}) \in View
        /\ Projected(shadow, {}).claimed \subseteq shadow.claimed
        /\ Projected(hub, {}).claimed \subseteq hub.claimed
    BY <1>0, ProjectedClaims DEF IInv
  <2>2. QED
    BY <1>7, <2>1 DEF IInv, TypeOK, RegistryClaims, ViewsAgree, ViewsBegin, Established, registryVars
<1>8. CASE Stop
  BY <1>8 DEF IInv, TypeOK, RegistryClaims, ViewsAgree, ViewsBegin, Stop, Nothing, View, Claim
<1>9. CASE UNCHANGED vars
  BY <1>9 DEF IInv, TypeOK, RegistryClaims, ViewsAgree, ViewsBegin, vars, registryVars
<1>10. QED
  BY <1>1, <1>2, <1>3, <1>4, <1>5, <1>6, <1>7, <1>8, <1>9 DEF Next

\* The hub never shows a job that no agent runs, for every set of instances
\* and jobs: claims and releases reach the shadow that reconnects replay.
THEOREM ClaimsAreTrue == Spec => []ClaimsAreRuns
<1>1. IInv => ClaimsAreRuns
  BY DEF IInv, ViewsAgree, RegistryClaims, ClaimsAreRuns
<1>2. QED
  BY <1>1, InitIInv, NextIInv, PTL DEF Spec

-----------------------------------------------------------------------------
(* The gh token.                                                            *)

(* The records the fence compares.                                          *)
Creds == [ver : 1..(MaxRotations + 1), out : BOOLEAN]
Cached == [ver : Nat, token : Nat, scopes : BOOLEAN, age : 0..2]
Reading == [pc : {"none", "read", "adopt"}, by : K!Caller, ver : Nat, token : Nat,
            failed : BOOLEAN, overtaken : BOOLEAN]
Tokens == /\ cred \in Creds /\ cache \in Cached /\ refresh \in Reading
          /\ waiting \subseteq K!Caller /\ holds \in 0..K!Jobless /\ trouble \in 0..MaxTrouble

(* A token is that of its version, or none.                                 *)
Paired == cache.token \in {K!NoToken, cache.ver} /\ refresh.token \in {K!NoToken, refresh.ver}

(* The cache is never ahead of gh, and a read that waits to be adopted is   *)
(* behind the cache only if the cache was written after it began.           *)
Fenced ==
  /\ cache.ver <= cred.ver /\ refresh.ver <= cred.ver
  /\ refresh.pc = "adopt" /\ ~refresh.overtaken => cache.ver <= refresh.ver

KInv == Tokens /\ Paired /\ Fenced

LEMMA TokenBounds == MaxRotations \in Nat /\ MaxTrouble \in Nat
BY HostAssumption DEF K!RotationAssumption

(* What adopting a read that is not older than the cache leaves behind.     *)
LEMMA AdoptAdvances ==
  ASSUME NEW old \in Cached, old.token \in {K!NoToken, old.ver},
         NEW failed \in BOOLEAN, NEW ver \in Nat, NEW token \in Nat, NEW probed \in BOOLEAN,
         ~failed => old.ver <= ver /\ token \in {K!NoToken, ver}
  PROVE  LET new == K!Adopt(old, failed, ver, token, probed)
         IN /\ new \in Cached /\ new.token \in {K!NoToken, new.ver}
            /\ old.ver <= new.ver /\ (new.ver = old.ver \/ new.ver = ver)
<1>1. CASE failed
  <2> DEFINE good == old.scopes /\ old.token # K!NoToken
  <2>1. good \in BOOLEAN
    BY DEF Cached
  <2> HIDE DEF good
  <2>2. K!Adopt(old, failed, ver, token, probed) = [old EXCEPT !.age = K!Fresh, !.scopes = good]
    BY <1>1 DEF K!Adopt, good
  <2> DEFINE new == [old EXCEPT !.age = K!Fresh, !.scopes = good]
  <2>3. new \in Cached
    <3>1. K!Fresh \in 0..2
      BY DEF K!Fresh
    <3> QED BY <2>1, <3>1 DEF Cached
  <2>4. new.ver = old.ver /\ old.ver \in Nat /\ new.token = old.token
    BY DEF Cached
  <2> QED BY <2>2, <2>3, <2>4
<1>2. CASE ~failed
  BY <1>2 DEF K!Adopt, K!Fresh, K!NoToken, Cached
<1> QED BY <1>1, <1>2

LEMMA BeginReads ==
  ASSUME NEW who \in K!Caller
  PROVE  /\ K!Begin(who) \in Reading /\ K!Begin(who).pc = "read"
         /\ K!Begin(who).ver = 0 /\ K!Begin(who).token = K!NoToken
BY DEF K!Begin, K!Quiet, Reading, K!NoToken

LEMMA QuietReads == /\ K!Quiet \in Reading /\ K!Quiet.pc = "none"
                    /\ K!Quiet.ver = 0 /\ K!Quiet.token = K!NoToken
BY DEF K!Quiet, Reading, K!Caller, K!NoToken

LEMMA TokenOfGh == ASSUME cred \in Creds PROVE K!Token \in Nat /\ K!Token \in {K!NoToken, cred.ver}
BY TokenBounds DEF Creds, K!Token, K!NoToken

LEMMA KInitInv == ASSUME K!KInit PROVE KInv
<1>1. cred \in Creds /\ cred.ver \in Nat /\ 0 \in 0..MaxTrouble /\ K!Jobless \in 0..K!Jobless
  BY TokenBounds DEF K!KInit, Creds, K!Jobless
<1>2. K!Unread \in Cached /\ K!Unread.ver = 0 /\ K!Unread.token = K!NoToken
  BY DEF K!Unread, K!NoToken, K!Fresh, Cached
<1>3. PICK failed \in BOOLEAN, probed \in BOOLEAN : cache = K!Refreshed(K!Unread, failed, probed)
  BY DEF K!KInit, K!Probed
<1>4. /\ cache \in Cached /\ cache.token \in {K!NoToken, cache.ver}
      /\ cache.ver = 0 \/ cache.ver = cred.ver
  BY <1>1, <1>2, <1>3, AdoptAdvances, TokenOfGh DEF K!Refreshed
<1>5. refresh = K!Quiet /\ waiting = {} /\ holds = K!Jobless /\ trouble = 0
  BY DEF K!KInit
<1> QED BY <1>1, <1>4, <1>5, QuietReads DEF KInv, Tokens, Paired, Fenced

(* A caller asks, or waits.                                                 *)
LEMMA CallsInv ==
  ASSUME KInv, UNCHANGED <<cred, cache, trouble>>, holds' \in 0..K!Jobless, waiting' \subseteq K!Caller,
         refresh' = refresh \/ \E who \in K!Caller : refresh' = K!Begin(who)
  PROVE  KInv' /\ cache'.ver >= cache.ver
<1>0. cache.ver >= cache.ver /\ cred.ver >= 0
  BY TokenBounds DEF KInv, Tokens, Cached, Creds
<1>1. CASE refresh' = refresh
  BY <1>0, <1>1 DEF KInv, Tokens, Paired, Fenced, K!Jobless
<1>2. CASE \E who \in K!Caller : refresh' = K!Begin(who)
  BY <1>0, <1>2, BeginReads DEF KInv, Tokens, Paired, Fenced, K!Jobless
<1> QED BY <1>1, <1>2

(* Every step keeps the fence and never takes the cache back.               *)
LEMMA KStep == ASSUME KInv, [K!KNext]_kvars PROVE KInv' /\ cache'.ver >= cache.ver
<1>0. /\ cred \in Creds /\ cred.ver \in Nat /\ cache \in Cached /\ cache.ver \in Nat
      /\ refresh \in Reading /\ refresh.ver \in Nat /\ cache.token \in Nat
  BY TokenBounds DEF KInv, Tokens, Creds, Cached, Reading
<1>a. /\ holds \in 0..K!Jobless /\ waiting \subseteq K!Caller /\ trouble \in 0..MaxTrouble
      /\ K!Jobless \in Nat /\ K!Jobless = MaxRotations + 2
  BY TokenBounds DEF KInv, Tokens, K!Jobless
<1>b. ASSUME NEW bad \in BOOLEAN, K!Trouble(bad) PROVE trouble' \in 0..MaxTrouble
  BY <1>a, <1>b, TokenBounds DEF K!Trouble
<1>v. cred.ver <= MaxRotations + 1
  BY <1>0, TokenBounds DEF Creds
<1>c. cache.token \in 0..K!Jobless
  <2>1. cache.token \in {0, cache.ver} /\ cache.ver <= cred.ver
    BY DEF KInv, Paired, Fenced, K!NoToken
  <2> QED BY <1>0, <1>a, <1>v, <2>1, TokenBounds
<1>2. CASE K!Rotate
  <2>1. PICK out \in BOOLEAN : cred' = [ver |-> cred.ver + 1, out |-> out]
    BY <1>2 DEF K!Rotate
  <2>2. cred' \in Creds /\ cred'.ver = cred.ver + 1
    BY <1>0, <1>2, <2>1, TokenBounds DEF K!Rotate, Creds
  <2> QED BY <1>0, <1>2, <2>2 DEF K!Rotate, KInv, Tokens, Paired, Fenced, K!Jobless
<1>3. CASE K!Age
  <2> DEFINE new == [cache EXCEPT !.age = @ + 1]
  <2>1. cache.age + 1 \in 0..2
    BY <1>0, <1>3 DEF K!Age, K!Overdue, Cached
  <2>2. new \in Cached /\ new.ver = cache.ver /\ new.token = cache.token
    BY <1>0, <2>1 DEF Cached
  <2>3. cache' = new
    BY <1>3 DEF K!Age
  <2> HIDE DEF new
  <2> QED BY <1>0, <1>3, <2>2, <2>3 DEF K!Age, KInv, Tokens, Paired, Fenced, K!Jobless
<1>4. CASE K!TimerTick \/ K!Signal \/ K!JobStarts
  <2>1. holds' \in 0..K!Jobless
    BY <1>4, <1>a, <1>c DEF K!TimerTick, K!Signal, K!JobStarts, K!GhAuthTokenFromCli
  <2>2. /\ UNCHANGED <<cred, cache, trouble>> /\ waiting' \subseteq K!Caller
        /\ refresh' = refresh \/ \E who \in K!Caller : refresh' = K!Begin(who)
    BY <1>4, <1>a DEF K!TimerTick, K!Signal, K!JobStarts, K!Call, K!Caller
  <2> QED BY <2>1, <2>2, CallsInv
<1>5. CASE (\E who \in K!Caller : K!Resume(who)) \/ K!JobEnds \/ UNCHANGED kvars
  <2>1. holds' \in 0..K!Jobless
    BY <1>5, <1>a DEF K!Resume, K!JobEnds, kvars
  <2>2. /\ UNCHANGED <<cred, cache, trouble>> /\ waiting' \subseteq K!Caller
        /\ refresh' = refresh \/ \E who \in K!Caller : refresh' = K!Begin(who)
    BY <1>5, <1>a DEF K!Resume, K!JobEnds, kvars
  <2> QED BY <2>1, <2>2, CallsInv
<1>6. CASE K!ReadAsync
  <2>1. PICK failed \in BOOLEAN :
          /\ K!Trouble(failed)
          /\ refresh' = [refresh EXCEPT !.pc = "adopt", !.failed = failed, !.ver = cred.ver, !.token = K!Token]
    BY <1>6 DEF K!ReadAsync
  <2>2. refresh' \in Reading /\ refresh'.ver = cred.ver /\ refresh'.token = K!Token
    BY <1>0, <2>1, TokenOfGh DEF Reading
  <2>3. trouble' \in 0..MaxTrouble
    BY <1>b, <2>1
  <2> QED BY <1>0, <1>6, <2>2, <2>3, TokenOfGh DEF K!ReadAsync, KInv, Tokens, Paired, Fenced, K!Jobless
<1>d. ASSUME cache' \in Cached, cache'.token \in {K!NoToken, cache'.ver}, cache'.ver <= cred.ver,
             holds' = cache'.token \/ holds' = holds
      PROVE  holds' \in 0..K!Jobless
  <2>1. cache'.token \in {0, cache'.ver} /\ cache'.ver \in Nat
    BY <1>d DEF Cached, K!NoToken
  <2> QED BY <1>0, <1>a, <1>d, <1>v, <2>1, TokenBounds
<1>7. CASE K!CommitAsync
  <2>1. /\ refresh' = K!Quiet /\ UNCHANGED <<cred, waiting, trouble>>
        /\ holds' = cache'.token \/ holds' = holds
    BY <1>7 DEF K!CommitAsync
  <2>2. PICK probed \in BOOLEAN :
          cache' = IF K!Superseded THEN cache
                   ELSE K!Adopt(cache, refresh.failed, refresh.ver, refresh.token, probed)
    BY <1>7 DEF K!CommitAsync, K!Probed
  <2>3. /\ cache' \in Cached /\ cache'.token \in {K!NoToken, cache'.ver}
        /\ cache.ver <= cache'.ver /\ cache'.ver <= cred.ver
    <3>1. CASE K!Superseded
      BY <1>0, <2>2, <3>1 DEF KInv, Paired, Fenced
    <3>2. CASE ~K!Superseded
      <4>1. cache.ver <= refresh.ver /\ refresh.ver <= cred.ver
        BY <1>7, <3>2 DEF K!CommitAsync, KInv, Fenced, K!Superseded
      <4>2. /\ cache' \in Cached /\ cache'.token \in {K!NoToken, cache'.ver}
            /\ cache.ver <= cache'.ver /\ (cache'.ver = cache.ver \/ cache'.ver = refresh.ver)
        <5>1. refresh.failed \in BOOLEAN /\ refresh.ver \in Nat /\ refresh.token \in Nat
          BY <1>0 DEF Reading
        <5>2. cache.token \in {K!NoToken, cache.ver} /\ refresh.token \in {K!NoToken, refresh.ver}
          BY DEF KInv, Paired
        <5> QED BY <1>0, <2>2, <3>2, <4>1, <5>1, <5>2, AdoptAdvances
      <4> QED BY <1>0, <4>1, <4>2
    <3> QED BY <3>1, <3>2
  <2>4. holds' \in 0..K!Jobless
    BY <1>d, <2>1, <2>3
  <2> QED BY <1>0, <2>1, <2>3, <2>4, QuietReads DEF KInv, Tokens, Paired, Fenced, K!Jobless
<1>8. CASE K!Recover
  <2>1. /\ refresh' = K!Overtake /\ UNCHANGED <<cred, waiting>> /\ trouble < MaxTrouble
        /\ trouble' = trouble + 1 /\ (holds' = cache'.token \/ holds' = holds)
    BY <1>8 DEF K!Recover
  <2>2. PICK failed \in BOOLEAN, probed \in BOOLEAN : cache' = K!Refreshed(cache, failed, probed)
    BY <1>8 DEF K!Recover, K!Probed
  <2>3. /\ cache' \in Cached /\ cache'.token \in {K!NoToken, cache'.ver}
        /\ cache.ver <= cache'.ver /\ (cache'.ver = cache.ver \/ cache'.ver = cred.ver)
    BY <1>0, <2>2, AdoptAdvances, TokenOfGh DEF K!Refreshed, KInv, Paired, Fenced
  <2> DEFINE over == refresh.pc # "none"
  <2>4. over \in BOOLEAN /\ refresh' = [refresh EXCEPT !.overtaken = over]
    BY <2>1 DEF K!Overtake
  <2>5. /\ refresh' \in Reading /\ refresh'.pc = refresh.pc /\ (refresh.pc = "adopt" => refresh'.overtaken)
        /\ refresh'.ver = refresh.ver /\ refresh'.token = refresh.token
    BY <1>0, <2>4 DEF Reading
  <2>6. holds' \in 0..K!Jobless
    BY <1>0, <1>d, <2>1, <2>3 DEF KInv, Fenced
  <2>7. trouble' \in 0..MaxTrouble
    BY <1>a, <2>1, TokenBounds
  <2>8. cache'.ver <= cred.ver
    BY <1>0, <2>3 DEF KInv, Fenced
  <2> QED BY <1>0, <2>1, <2>3, <2>5, <2>6, <2>7, <2>8 DEF KInv, Tokens, Paired, Fenced, K!Jobless
<1> QED BY <1>2, <1>3, <1>4, <1>5, <1>6, <1>7, <1>8 DEF K!KNext

LEMMA TokenTypes == KInv => K!KTypeOK
BY DEF KInv, Tokens, Paired, Fenced, Creds, Cached, Reading, K!KTypeOK, K!Fresh, K!Overdue

-----------------------------------------------------------------------------
(* The search for the hub.                                                  *)

(* Each of its four records.                                                *)
HubTypes ==
  /\ world \in [hubs : SUBSET Place, listed : BOOLEAN, changes : 0..MaxChanges]
  /\ worker \in [pc : {"start", "static", "heal", "exited"}, explicit : Place \union {NoPlace}]
  /\ found \in [memo : Place \union {NoPlace}, cache : Place \union {NoPlace}, refresh : {"idle", "asked"}]
  /\ client \in [pc : {"none", "retry", "open"}, at : Place \union {NoPlace}]

LEMMA HubTypesHold == HubTypes => H!HTypeOK
BY DEF HubTypes, H!HTypeOK

LEMMA ChangesAreNat == MaxChanges \in Nat
BY HostAssumption DEF H!PlaceAssumption

LEMMA HubTypesInit == H!HInit => HubTypes
<1> SUFFICES ASSUME H!HInit PROVE HubTypes
  OBVIOUS
<1>1. /\ world \in [hubs : SUBSET Place, listed : BOOLEAN, changes : {0}]
      /\ worker \in [pc : {"start"}, explicit : Place \union {NoPlace}]
      /\ found = [memo |-> NoPlace, cache |-> NoPlace, refresh |-> "idle"]
      /\ client = [pc |-> "none", at |-> NoPlace]
  BY DEF H!HInit, H!NoClient
<1>2. 0 \in 0..MaxChanges
  BY ChangesAreNat
<1> QED BY <1>1, <1>2 DEF HubTypes

(* Discovery counts a probe that missed, and its target is a place.         *)
LEMMA Discovers ==
  ASSUME HubTypes, NEW hubs \in SUBSET Place, H!DiscoverHubs(hubs)
  PROVE  world' \in [hubs : SUBSET Place, listed : BOOLEAN, changes : 0..MaxChanges]
<1>1. CASE hubs = H!Listed
  BY <1>1 DEF H!DiscoverHubs, HubTypes
<1>2. CASE hubs # H!Listed
  <2>1. world.changes < MaxChanges /\ world' = [world EXCEPT !.changes = @ + 1]
    BY <1>2 DEF H!DiscoverHubs, H!Answer
  <2>2. world.changes + 1 \in 0..MaxChanges
    BY <2>1, ChangesAreNat DEF HubTypes
  <2> QED BY <2>1, <2>2 DEF HubTypes
<1> QED BY <1>1, <1>2

LEMMA TargetIsPlace ==
  ASSUME HubTypes, NEW hubs \in SUBSET Place
  PROVE  /\ H!Target(hubs).at \in Place \union {NoPlace}
         /\ H!Target(hubs).cache \in Place \union {NoPlace}
<1>0. \A S : H!Cardinality(S) = Cardinality(S)
  BY DEF H!Cardinality, Cardinality
<1>1. CASE H!Cardinality(hubs) = 1
  <2>1. hubs # {}
    BY <1>0, <1>1, FS_EmptySet
  <2>2. H!Sole(hubs) \in Place
    BY <2>1 DEF H!Sole
  <2>3. H!Target(hubs) = [status |-> "connect", at |-> H!Sole(hubs), cache |-> H!Sole(hubs)]
    BY <1>1 DEF H!Target
  <2> HIDE DEF H!Sole
  <2> QED BY <2>2, <2>3
<1>2. CASE H!Cardinality(hubs) # 1
  <2> DEFINE how == IF hubs # {} THEN "ambiguous" ELSE IF found.cache # NoPlace THEN "connect" ELSE "advisory"
             at == IF hubs = {} THEN found.cache ELSE NoPlace
  <2>1. H!Target(hubs) = [status |-> how, at |-> at, cache |-> found.cache]
    BY <1>2 DEF H!Target
  <2>2. at \in Place \union {NoPlace} /\ found.cache \in Place \union {NoPlace}
    BY DEF HubTypes
  <2> HIDE DEF how, at
  <2> QED BY <2>1, <2>2
<1> QED BY <1>1, <1>2

LEMMA HStepTypes == ASSUME HubTypes, [H!HNext]_hvars PROVE HubTypes'
<1>1. CASE H!Change
  <2>1. PICK hubs \in SUBSET Place, listed \in BOOLEAN :
          /\ world' = [hubs |-> hubs, listed |-> listed, changes |-> world.changes + 1]
          /\ client' = IF client.pc = "open" /\ client.at \notin hubs
                       THEN [client EXCEPT !.pc = "retry"] ELSE client
    BY <1>1 DEF H!Change
  <2>2. world.changes + 1 \in 0..MaxChanges
    BY <1>1, ChangesAreNat DEF H!Change, HubTypes
  <2>3. client' \in [pc : {"none", "retry", "open"}, at : Place \union {NoPlace}]
    BY <2>1 DEF HubTypes
  <2> QED BY <1>1, <2>1, <2>2, <2>3 DEF H!Change, HubTypes
<1>2. CASE H!Start
  <2> DEFINE aim(hubs) == IF worker.explicit = NoPlace THEN H!Target(hubs)
                          ELSE [status |-> "connect", at |-> worker.explicit, cache |-> NoPlace]
  <2>1. PICK hubs \in SUBSET Place :
          /\ IF worker.explicit = NoPlace THEN H!DiscoverHubs(hubs) ELSE hubs = {} /\ UNCHANGED world
          /\ worker' = [worker EXCEPT !.pc = CASE aim(hubs).status = "connect" -> "static"
                                               [] aim(hubs).status = "advisory" -> "heal"
                                               [] OTHER -> "exited"]
          /\ found' = [found EXCEPT !.memo = aim(hubs).at, !.cache = aim(hubs).cache]
    BY <1>2 DEF H!Start
  <2>2. /\ aim(hubs).at \in Place \union {NoPlace}
        /\ aim(hubs).cache \in Place \union {NoPlace}
    <3>1. CASE worker.explicit = NoPlace
      BY <3>1, TargetIsPlace
    <3>2. CASE worker.explicit # NoPlace
      <4>1. aim(hubs) = [status |-> "connect", at |-> worker.explicit, cache |-> NoPlace]
        BY <3>2
      <4>2. worker.explicit \in Place \union {NoPlace}
        BY DEF HubTypes
      <4> HIDE DEF aim
      <4> QED BY <4>1, <4>2
    <3> QED BY <3>1, <3>2
  <2>3. world' \in [hubs : SUBSET Place, listed : BOOLEAN, changes : 0..MaxChanges]
    BY <2>1, Discovers DEF HubTypes
  <2> HIDE DEF aim
  <2>4. worker' \in [pc : {"start", "static", "heal", "exited"}, explicit : Place \union {NoPlace}]
    BY <2>1 DEF HubTypes
  <2>5. found' \in [memo : Place \union {NoPlace}, cache : Place \union {NoPlace},
                    refresh : {"idle", "asked"}]
    BY <2>1, <2>2 DEF HubTypes
  <2> QED BY <1>2, <2>3, <2>4, <2>5 DEF H!Start, HubTypes
<1>3. CASE H!Connect
  BY <1>3 DEF H!Connect, HubTypes, H!NoClient
<1>4. CASE H!Refresh
  <2>1. PICK hubs \in SUBSET Place :
          /\ H!DiscoverHubs(hubs)
          /\ found' = [memo |-> IF H!Target(hubs).status = "connect" THEN H!Target(hubs).at ELSE found.memo,
                       cache |-> H!Target(hubs).cache, refresh |-> "idle"]
    BY <1>4 DEF H!Refresh
  <2>2. H!Target(hubs).at \in Place \union {NoPlace} /\ H!Target(hubs).cache \in Place \union {NoPlace}
    BY TargetIsPlace
  <2>3. world' \in [hubs : SUBSET Place, listed : BOOLEAN, changes : 0..MaxChanges]
    BY <2>1, Discovers
  <2>4. found' \in [memo : Place \union {NoPlace}, cache : Place \union {NoPlace},
                    refresh : {"idle", "asked"}]
    BY <2>1, <2>2 DEF HubTypes
  <2> QED BY <1>4, <2>3, <2>4 DEF H!Refresh, HubTypes
<1>5. CASE H!SocketOpens
  BY <1>5 DEF H!SocketOpens, HubTypes
<1>6. CASE H!SocketDrops \/ H!Stop
  <2>1. CASE H!SocketDrops
    <3>1. world.changes + 1 \in 0..MaxChanges
      BY <2>1, ChangesAreNat DEF H!SocketDrops, HubTypes
    <3> QED BY <2>1, <3>1 DEF H!SocketDrops, HubTypes
  <2>2. CASE H!Stop
    BY <2>2 DEF H!Stop, HubTypes, H!NoClient
  <2> QED BY <1>6, <2>1, <2>2
<1>7. CASE UNCHANGED hvars
  BY <1>7 DEF hvars, HubTypes
<1> QED BY <1>1, <1>2, <1>3, <1>4, <1>5, <1>6, <1>7 DEF H!HNext

-----------------------------------------------------------------------------
(* The durable transcript: where an update can be.                          *)

Id == 1..MaxUpdates
Updates == UNION {A!Update(id) : id \in Id}
Turned == [kind : {"message", "tool", "completed"}, ids : SUBSET Id] \union
          [kind : {"plan"}, ids : SUBSET Id, plan : Plan]
Scripts == [msg : SUBSET Id, queue : Seq(Turned), lost : SUBSET Id, repeated : SUBSET Id,
            recorded : SUBSET Plan, inFlight : SUBSET Plan, appended : SUBSET Id]

(* The updates in a queue of turns, and that none is in it twice.           *)
Queued(q) == UNION {q[i].ids : i \in DOMAIN q}
Distinct(q) == \A i, j \in DOMAIN q : i # j => q[i].ids \intersect q[j].ids = {}

Apart(a, b, c, d, e) ==
  /\ a \intersect b = {} /\ a \intersect c = {} /\ a \intersect d = {} /\ a \intersect e = {}
  /\ b \intersect c = {} /\ b \intersect d = {} /\ b \intersect e = {}
  /\ c \intersect d = {} /\ c \intersect e = {} /\ d \intersect e = {}

(* The updates of set are in the script, each in one place; its queue is no *)
(* longer than n.                                                           *)
Once(s, set, n) ==
  /\ s \in Scripts /\ Distinct(s.queue) /\ Len(s.queue) <= n
  /\ Apart(s.msg, Queued(s.queue), s.appended, s.lost, s.repeated)
  /\ set = s.msg \union Queued(s.queue) \union s.appended \union s.lost \union s.repeated

LEMMA Limits == /\ MaxUpdates \in Nat /\ BufferMax \in Nat /\ MaxPending \in Nat
                /\ TerminalMax \in Nat /\ TerminalMax # 0
BY HostAssumption DEF A!LimitAssumption

LEMMA UpdateFields ==
  /\ \A u \in Updates : u.id \in Id /\ u.kind \in {"chunk", "message", "tool", "plan"}
                        /\ (u.kind = "plan" => u.plan \in Plan)
  /\ \A id \in Id : \A u \in A!Update(id) : u \in Updates /\ u.id = id
BY DEF Updates, A!Update

LEMMA TurnFields ==
  \A t \in Turned : /\ t.kind \in {"message", "tool", "completed", "plan"} /\ t.ids \in SUBSET Id
                    /\ t.kind = "plan" => t.plan \in Plan
BY DEF Turned

LEMMA QueueAppend ==
  ASSUME NEW q \in Seq(Turned), NEW t \in Turned, Distinct(q), t.ids \intersect Queued(q) = {}
  PROVE  /\ Append(q, t) \in Seq(Turned) /\ Len(Append(q, t)) = Len(q) + 1
         /\ Queued(Append(q, t)) = Queued(q) \union t.ids /\ Distinct(Append(q, t))
<1> DEFINE r == Append(q, t)
<1>1. /\ r \in Seq(Turned) /\ Len(r) = Len(q) + 1 /\ Len(q) \in Nat
      /\ DOMAIN q = 1..Len(q) /\ DOMAIN r = 1..(Len(q) + 1)
      /\ \A i \in 1..Len(q) : r[i] = q[i]
      /\ r[Len(q) + 1] = t
  OBVIOUS
<1> HIDE DEF r
<1>2. \A i \in DOMAIN r : (i \in DOMAIN q /\ r[i] = q[i]) \/ (i = Len(q) + 1 /\ r[i] = t)
  BY <1>1
<1>3. \A i \in DOMAIN q : i \in DOMAIN r /\ r[i] = q[i]
  BY <1>1
<1>4. Len(q) + 1 \in DOMAIN r
  BY <1>1
<1>5. Queued(r) = Queued(q) \union t.ids
  BY <1>1, <1>2, <1>3, <1>4 DEF Queued
<1>6. Distinct(r)
  <2> SUFFICES ASSUME NEW i \in DOMAIN r, NEW j \in DOMAIN r, i # j
               PROVE  r[i].ids \intersect r[j].ids = {}
    BY DEF Distinct
  <2>1. \A k \in DOMAIN q : q[k].ids \subseteq Queued(q)
    BY DEF Queued
  <2>2. CASE i \in DOMAIN q /\ j \in DOMAIN q
    BY <1>3, <2>2 DEF Distinct
  <2>3. CASE i \in DOMAIN q /\ r[j] = t
    BY <1>3, <2>1, <2>3
  <2>4. CASE j \in DOMAIN q /\ r[i] = t
    BY <1>3, <2>1, <2>4
  <2> QED BY <1>2, <2>2, <2>3, <2>4
<1> QED BY <1>1, <1>5, <1>6 DEF r

LEMMA QueueTail ==
  ASSUME NEW q \in Seq(Turned), q # <<>>, Distinct(q)
  PROVE  /\ Tail(q) \in Seq(Turned) /\ Len(Tail(q)) = Len(q) - 1 /\ Head(q) \in Turned
         /\ Queued(q) = Queued(Tail(q)) \union Head(q).ids
         /\ Queued(Tail(q)) \intersect Head(q).ids = {} /\ Distinct(Tail(q))
<1> DEFINE r == Tail(q)
<1>1. /\ r \in Seq(Turned) /\ Len(r) = Len(q) - 1 /\ Len(q) \in Nat /\ Len(q) >= 1
      /\ DOMAIN q = 1..Len(q) /\ DOMAIN r = 1..(Len(q) - 1)
      /\ \A i \in 1..(Len(q) - 1) : r[i] = q[i + 1]
      /\ Head(q) = q[1] /\ Head(q) \in Turned
  OBVIOUS
<1> HIDE DEF r
<1>2. \A i \in DOMAIN r : i + 1 \in DOMAIN q /\ i + 1 # 1 /\ r[i] = q[i + 1]
  BY <1>1
<1>3. \A i \in DOMAIN q : i = 1 \/ (i - 1 \in DOMAIN r /\ r[i - 1] = q[i])
  <2> SUFFICES ASSUME NEW i \in DOMAIN q, i # 1 PROVE i - 1 \in DOMAIN r /\ r[i - 1] = q[i]
    OBVIOUS
  <2>1. i - 1 \in 1..(Len(q) - 1) /\ (i - 1) + 1 = i
    BY <1>1
  <2> QED BY <1>1, <2>1
<1>4. 1 \in DOMAIN q
  BY <1>1
<1>5. Queued(q) = Queued(r) \union q[1].ids
  BY <1>2, <1>3, <1>4 DEF Queued
<1>6. Queued(r) \intersect q[1].ids = {}
  BY <1>2, <1>4 DEF Queued, Distinct
<1>7. Distinct(r)
  <2> SUFFICES ASSUME NEW i \in DOMAIN r, NEW j \in DOMAIN r, i # j
               PROVE  r[i].ids \intersect r[j].ids = {}
    BY DEF Distinct
  <2>1. i + 1 # j + 1
    BY <1>1
  <2> QED BY <1>2, <2>1 DEF Distinct
<1> QED BY <1>1, <1>5, <1>6, <1>7 DEF r

LEMMA ScriptFields ==
  ASSUME NEW s \in Scripts
  PROVE  /\ s.msg \in SUBSET Id /\ s.queue \in Seq(Turned) /\ s.lost \in SUBSET Id
         /\ s.repeated \in SUBSET Id /\ s.recorded \in SUBSET Plan /\ s.inFlight \in SUBSET Plan
         /\ s.appended \in SUBSET Id
BY DEF Scripts

(* The ids of new updates go to one place of the script.                    *)
LEMMA LoseOnce ==
  ASSUME NEW s, NEW set, NEW n, Once(s, set, n), NEW ids \in SUBSET Id, ids \intersect set = {}
  PROVE  Once([s EXCEPT !.lost = @ \union ids], set \union ids, n)
<1> DEFINE new == s.lost \union ids
           t == [s EXCEPT !.lost = new]
<1>1. s \in Scripts /\ new \in SUBSET Id
  BY DEF Once, Scripts
<1>2. /\ t \in Scripts /\ t.msg = s.msg /\ t.queue = s.queue /\ t.appended = s.appended
      /\ t.lost = new /\ t.repeated = s.repeated
  BY <1>1 DEF Scripts
<1>3. t = [s EXCEPT !.lost = @ \union ids]
  OBVIOUS
<1> HIDE DEF t
<1>4. Once(t, set \union ids, n)
  BY <1>2 DEF Once, Apart
<1> QED BY <1>3, <1>4

LEMMA RepeatOnce ==
  ASSUME NEW s, NEW set, NEW n, Once(s, set, n), NEW ids \in SUBSET Id, ids \intersect set = {}
  PROVE  Once([s EXCEPT !.repeated = @ \union ids], set \union ids, n)
<1> DEFINE new == s.repeated \union ids
           t == [s EXCEPT !.repeated = new]
<1>1. s \in Scripts /\ new \in SUBSET Id
  BY DEF Once, Scripts
<1>2. /\ t \in Scripts /\ t.msg = s.msg /\ t.queue = s.queue /\ t.appended = s.appended
      /\ t.lost = s.lost /\ t.repeated = new
  BY <1>1 DEF Scripts
<1>3. t = [s EXCEPT !.repeated = @ \union ids]
  OBVIOUS
<1> HIDE DEF t
<1>4. Once(t, set \union ids, n)
  BY <1>2 DEF Once, Apart
<1> QED BY <1>3, <1>4

LEMMA ChunkOnce ==
  ASSUME NEW s, NEW set, NEW n, Once(s, set, n), NEW ids \in SUBSET Id, ids \intersect set = {}
  PROVE  Once([s EXCEPT !.msg = @ \union ids], set \union ids, n)
<1> DEFINE new == s.msg \union ids
           t == [s EXCEPT !.msg = new]
<1>1. s \in Scripts /\ new \in SUBSET Id
  BY DEF Once, Scripts
<1>2. /\ t \in Scripts /\ t.msg = new /\ t.queue = s.queue /\ t.appended = s.appended
      /\ t.lost = s.lost /\ t.repeated = s.repeated
  BY <1>1 DEF Scripts
<1>3. t = [s EXCEPT !.msg = @ \union ids]
  OBVIOUS
<1> HIDE DEF t
<1>4. Once(t, set \union ids, n)
  BY <1>2 DEF Once, Apart
<1> QED BY <1>3, <1>4

(* The pending message is taken out.                                        *)
LEMMA UnpendOnce ==
  ASSUME NEW s, NEW set, NEW n, Once(s, set, n)
  PROVE  /\ Once([s EXCEPT !.msg = {}], set \ s.msg, n)
         /\ s.msg \in SUBSET Id /\ s.msg \subseteq set
<1> DEFINE t == [s EXCEPT !.msg = {}]
<1>1. s \in Scripts
  BY DEF Once
<1>2. /\ t \in Scripts /\ t.msg = {} /\ t.queue = s.queue /\ t.appended = s.appended
      /\ t.lost = s.lost /\ t.repeated = s.repeated
  BY <1>1 DEF Scripts
<1> HIDE DEF t
<1>3. Once(t, set \ s.msg, n)
  BY <1>2 DEF Once, Apart
<1> QED BY <1>1, <1>3, ScriptFields DEF t, Once

(* Marking plans moves no update.                                           *)
LEMMA PlansOnce ==
  ASSUME NEW s, NEW set, NEW n, Once(s, set, n), NEW plans \in SUBSET Plan
  PROVE  Once([s EXCEPT !.inFlight = @ \union plans], set, n)
<1> DEFINE new == s.inFlight \union plans
           t == [s EXCEPT !.inFlight = new]
<1>1. s \in Scripts /\ new \in SUBSET Plan
  BY DEF Once, Scripts
<1>2. /\ t \in Scripts /\ t.msg = s.msg /\ t.queue = s.queue /\ t.appended = s.appended
      /\ t.lost = s.lost /\ t.repeated = s.repeated
  BY <1>1 DEF Scripts
<1>3. t = [s EXCEPT !.inFlight = @ \union plans]
  OBVIOUS
<1> HIDE DEF t
<1>4. Once(t, set, n)
  BY <1>2 DEF Once, Apart
<1> QED BY <1>3, <1>4

(* A turn is queued.                                                        *)
LEMMA EnqueueOnce ==
  ASSUME NEW s, NEW set, NEW n \in Nat, Once(s, set, n), NEW turn \in Turned,
         turn.ids \intersect set = {}, NEW m \in Nat, Len(s.queue) + 1 <= m
  PROVE  Once([s EXCEPT !.queue = Append(@, turn)], set \union turn.ids, m)
<1> DEFINE new == Append(s.queue, turn)
           t == [s EXCEPT !.queue = new]
<1>1. s \in Scripts /\ s.queue \in Seq(Turned)
  BY DEF Once, Scripts
<1>2. turn.ids \intersect Queued(s.queue) = {} /\ Distinct(s.queue)
  BY DEF Once
<1>3. /\ new \in Seq(Turned) /\ Len(new) = Len(s.queue) + 1
      /\ Queued(new) = Queued(s.queue) \union turn.ids /\ Distinct(new)
  BY <1>1, <1>2, QueueAppend
<1> HIDE DEF new
<1>4. /\ t \in Scripts /\ t.msg = s.msg /\ t.queue = new /\ t.appended = s.appended
      /\ t.lost = s.lost /\ t.repeated = s.repeated
  BY <1>1, <1>3 DEF Scripts
<1>5. t = [s EXCEPT !.queue = Append(@, turn)]
  BY DEF new
<1> HIDE DEF t
<1>6. Apart(t.msg, Queued(t.queue), t.appended, t.lost, t.repeated)
  BY <1>3, <1>4 DEF Once, Apart
<1>7. set \union turn.ids = t.msg \union Queued(t.queue) \union t.appended \union t.lost \union t.repeated
  BY <1>3, <1>4 DEF Once
<1>8. Len(t.queue) <= m
  BY <1>3, <1>4
<1>9. Once(t, set \union turn.ids, m)
  BY <1>3, <1>4, <1>6, <1>7, <1>8 DEF Once
<1> QED BY <1>5, <1>9

LEMMA AppendOnce ==
  ASSUME NEW s, NEW set, NEW n \in Nat, MaxPending + 1 <= n, Once(s, set, n), NEW turn \in Turned,
         turn.ids \intersect set = {}, NEW reserved \in BOOLEAN
  PROVE  Once(A!AppendTurn(s, turn, reserved), set \union turn.ids, n)
<1> DEFINE room == MaxPending + (IF reserved THEN 1 ELSE 0)
<1>1. turn.ids \in SUBSET Id
  BY TurnFields
<1>2. CASE Len(s.queue) >= room
  <2>1. A!AppendTurn(s, turn, reserved) = [s EXCEPT !.lost = @ \union turn.ids]
    BY <1>2 DEF A!AppendTurn
  <2>2. Once([s EXCEPT !.lost = @ \union turn.ids], set \union turn.ids, n)
    BY <1>1, LoseOnce
  <2> QED BY <2>1, <2>2
<1>3. CASE ~(Len(s.queue) >= room)
  <2>1. A!AppendTurn(s, turn, reserved) = [s EXCEPT !.queue = Append(@, turn)]
    BY <1>3 DEF A!AppendTurn
  <2>2. Len(s.queue) \in Nat
    BY DEF Once, Scripts
  <2>3. Len(s.queue) + 1 <= n
    BY <1>3, <2>2, Limits
  <2> QED BY <2>1, <2>3, EnqueueOnce
<1> QED BY <1>2, <1>3

LEMMA FlushOnce ==
  ASSUME NEW s, NEW set, NEW n \in Nat, MaxPending + 1 <= n, Once(s, set, n)
  PROVE  Once(A!FlushMessage(s), set, n)
<1>1. CASE s.msg = {}
  BY <1>1 DEF A!FlushMessage
<1>2. CASE s.msg # {}
  <2> DEFINE turn == [kind |-> "message", ids |-> s.msg]
             t == [s EXCEPT !.msg = {}]
  <2>1. A!FlushMessage(s) = A!AppendTurn(t, turn, FALSE)
    BY <1>2 DEF A!FlushMessage
  <2>2. Once(t, set \ s.msg, n) /\ s.msg \in SUBSET Id /\ s.msg \subseteq set
    BY UnpendOnce
  <2>3. turn \in Turned /\ turn.ids = s.msg
    BY <2>2 DEF Turned
  <2> HIDE DEF turn, t
  <2>4. Once(A!AppendTurn(t, turn, FALSE), (set \ s.msg) \union s.msg, n)
    BY <2>2, <2>3, AppendOnce
  <2>5. (set \ s.msg) \union s.msg = set
    BY <2>2
  <2> QED BY <2>1, <2>4, <2>5
<1> QED BY <1>1, <1>2

LEMMA AddChunkOnce ==
  ASSUME NEW s, NEW set, NEW n, Once(s, set, n), NEW u \in Updates, u.id \notin set
  PROVE  Once(A!AddChunk(s, u), set \union {u.id}, n)
<1>1. {u.id} \in SUBSET Id /\ {u.id} \intersect set = {}
  BY UpdateFields
<1>2. \/ A!AddChunk(s, u) = [s EXCEPT !.lost = @ \union {u.id}]
      \/ A!AddChunk(s, u) = [s EXCEPT !.msg = @ \union {u.id}]
  BY DEF A!AddChunk
<1>3. Once([s EXCEPT !.lost = @ \union {u.id}], set \union {u.id}, n)
  BY <1>1, LoseOnce
<1>4. Once([s EXCEPT !.msg = @ \union {u.id}], set \union {u.id}, n)
  BY <1>1, ChunkOnce
<1> QED BY <1>2, <1>3, <1>4

LEMMA PlanOnce ==
  ASSUME NEW s, NEW set, NEW n \in Nat, MaxPending + 1 <= n, Once(s, set, n),
         NEW u \in Updates, u.kind = "plan", u.id \notin set, NEW reserved \in BOOLEAN
  PROVE  Once(A!OnPlan(s, u, reserved), set \union {u.id}, n)
<1>1. u.id \in Id /\ u.plan \in Plan /\ {u.id} \in SUBSET Id /\ {u.id} \intersect set = {}
  BY UpdateFields
<1>2. CASE u.plan \in s.recorded \union s.inFlight
  <2>1. A!OnPlan(s, u, reserved) = [s EXCEPT !.repeated = @ \union {u.id}]
    BY <1>2 DEF A!OnPlan
  <2>2. Once([s EXCEPT !.repeated = @ \union {u.id}], set \union {u.id}, n)
    BY <1>1, RepeatOnce
  <2> QED BY <2>1, <2>2
<1>3. CASE u.plan \notin s.recorded \union s.inFlight
  <2> DEFINE turn == [kind |-> "plan", ids |-> {u.id}, plan |-> u.plan]
             flushed == A!FlushMessage(s)
             sent == A!AppendTurn(flushed, turn, reserved)
  <2>1. turn \in Turned /\ turn.ids = {u.id}
    BY <1>1 DEF Turned
  <2>2. \/ A!OnPlan(s, u, reserved) = sent
        \/ A!OnPlan(s, u, reserved) = [sent EXCEPT !.inFlight = @ \union {u.plan}]
    BY <1>3 DEF A!OnPlan
  <2>3. Once(flushed, set, n)
    BY FlushOnce
  <2> HIDE DEF turn, flushed
  <2>4. Once(sent, set \union {u.id}, n)
    BY <1>1, <2>1, <2>3, AppendOnce
  <2> HIDE DEF sent
  <2>5. {u.plan} \in SUBSET Plan
    BY <1>1
  <2>6. Once([sent EXCEPT !.inFlight = @ \union {u.plan}], set \union {u.id}, n)
    BY <2>4, <2>5, PlansOnce
  <2> QED BY <2>2, <2>4, <2>6
<1> QED BY <1>2, <1>3

(* ingestClassified puts an update in one place.                            *)
LEMMA IngestOnce ==
  ASSUME NEW s, NEW set, NEW n \in Nat, MaxPending + 1 <= n, Once(s, set, n),
         NEW u \in Updates, u.id \notin set, NEW reserved \in BOOLEAN
  PROVE  Once(A!IngestClassified(s, u, reserved), set \union {u.id}, n)
<1>1. u.kind \in {"chunk", "message", "tool", "plan"} /\ u.id \in Id
  BY UpdateFields
<1>2. CASE u.kind = "chunk"
  <2>1. A!IngestClassified(s, u, reserved) = A!AddChunk(s, u)
    BY <1>2 DEF A!IngestClassified
  <2> QED BY <2>1, AddChunkOnce
<1>3. CASE u.kind = "message"
  <2>1. A!IngestClassified(s, u, reserved) = A!AddChunk(A!FlushMessage(s), u)
    BY <1>3 DEF A!IngestClassified
  <2> QED BY <2>1, AddChunkOnce, FlushOnce
<1>4. CASE u.kind = "tool"
  <2> DEFINE turn == [kind |-> "tool", ids |-> {u.id}]
  <2>1. A!IngestClassified(s, u, reserved) = A!AppendTurn(A!FlushMessage(s), turn, FALSE)
    BY <1>4 DEF A!IngestClassified
  <2>2. turn \in Turned /\ turn.ids = {u.id} /\ turn.ids \intersect set = {}
    BY <1>1 DEF Turned
  <2> HIDE DEF turn
  <2>3. Once(A!AppendTurn(A!FlushMessage(s), turn, FALSE), set \union turn.ids, n)
    BY <2>2, FlushOnce, AppendOnce
  <2> QED BY <2>1, <2>2, <2>3
<1>5. CASE u.kind = "plan"
  <2>1. A!IngestClassified(s, u, reserved) = A!OnPlan(s, u, reserved)
    BY <1>5 DEF A!IngestClassified
  <2> QED BY <1>5, <2>1, PlanOnce
<1> QED BY <1>1, <1>2, <1>3, <1>4, <1>5

-----------------------------------------------------------------------------
(* The replay of what was buffered before the instance had a key.           *)

LEMMA LeastOf ==
  ASSUME NEW set \in SUBSET Nat, set # {}
  PROVE  \E m \in set : \A k \in set : m <= k
<1>1. PICK m \in set : \A k \in set : <<k, m>> \notin OpToRel(<, Nat)
  BY NatLessThanWellFounded, WFMin
<1>2. \A k \in set : ~(k < m)
  BY <1>1 DEF OpToRel
<1> QED BY <1>2

(* The function that replays a buffer exists.                               *)
After(s, buffer, k) == \E after : after =
  [i \in 0..k |-> IF i = 0 THEN s ELSE A!IngestClassified(after[i - 1], buffer[i], FALSE)]

LEMMA AfterExists == ASSUME NEW s, NEW buffer, NEW k \in Nat PROVE After(s, buffer, k)
<1> DEFINE missing == {i \in Nat : ~After(s, buffer, i)}
<1>1. SUFFICES ASSUME missing # {} PROVE FALSE
  OBVIOUS
<1>2. PICK m \in missing : \A i \in missing : m <= i
  BY <1>1, LeastOf
<1>3. CASE m = 0
  <2> DEFINE after == [i \in 0..0 |-> s]
  <2>1. after = [i \in 0..0 |-> IF i = 0 THEN s ELSE A!IngestClassified(after[i - 1], buffer[i], FALSE)]
    OBVIOUS
  <2> HIDE DEF after
  <2> QED BY <1>2, <1>3, <2>1 DEF After
<1>4. CASE m # 0
  <2>1. m - 1 \in Nat /\ m - 1 \notin missing
    BY <1>2, <1>4
  <2>2. PICK before : before =
          [i \in 0..(m - 1) |-> IF i = 0 THEN s ELSE A!IngestClassified(before[i - 1], buffer[i], FALSE)]
    BY <2>1 DEF After
  <2> DEFINE after == [i \in 0..m |-> IF i = 0 THEN s
                                      ELSE A!IngestClassified(before[i - 1], buffer[i], FALSE)]
  <2>3. \A i \in 0..(m - 1) : after[i] = before[i]
    <3> SUFFICES ASSUME NEW i \in 0..(m - 1) PROVE after[i] = before[i]
      OBVIOUS
    <3>1. i \in 0..m
      BY <1>2
    <3> QED BY <2>2, <3>1
  <2>4. \A i \in 0..m : after[i] = IF i = 0 THEN s ELSE A!IngestClassified(before[i - 1], buffer[i], FALSE)
    OBVIOUS
  <2>5. \A i \in 0..m : i # 0 => i - 1 \in 0..(m - 1)
    BY <1>2
  <2>6. after = [i \in 0..m |-> after[i]]
    OBVIOUS
  <2> HIDE DEF after
  <2>7. \A i \in 0..m : after[i] = IF i = 0 THEN s ELSE A!IngestClassified(after[i - 1], buffer[i], FALSE)
    BY <2>3, <2>4, <2>5
  <2>8. after = [i \in 0..m |-> IF i = 0 THEN s ELSE A!IngestClassified(after[i - 1], buffer[i], FALSE)]
    BY <2>6, <2>7
  <2> QED BY <1>2, <2>8 DEF After
<1> QED BY <1>3, <1>4

Follows(trail, s, buffer) ==
  /\ trail[0] = s
  /\ \A i \in 1..Len(buffer) : trail[i] = A!IngestClassified(trail[i - 1], buffer[i], FALSE)

LEMMA TrailSteps ==
  ASSUME NEW s, NEW buffer \in Seq(Updates) PROVE Follows(A!Trail(s, buffer), s, buffer)
<1> DEFINE k == Len(buffer)
           trail == A!Trail(s, buffer)
<1>1. trail = CHOOSE after : after =
        [i \in 0..k |-> IF i = 0 THEN s ELSE A!IngestClassified(after[i - 1], buffer[i], FALSE)]
  BY DEF A!Trail
<1>2. \E after : after =
        [i \in 0..k |-> IF i = 0 THEN s ELSE A!IngestClassified(after[i - 1], buffer[i], FALSE)]
  <2>1. After(s, buffer, Len(buffer))
    <3>1. Len(buffer) \in Nat
      OBVIOUS
    <3> QED BY <3>1, AfterExists
  <2> QED BY <2>1, Zenon DEF After
<1> HIDE DEF trail
<1>3. trail = [i \in 0..k |-> IF i = 0 THEN s ELSE A!IngestClassified(trail[i - 1], buffer[i], FALSE)]
  BY <1>1, <1>2, Zenon
<1>4. \A i \in 0..k : trail[i] = IF i = 0 THEN s ELSE A!IngestClassified(trail[i - 1], buffer[i], FALSE)
  BY <1>3, Zenon
<1>5. 0 \in 0..k /\ \A i \in 1..k : i \in 0..k /\ i # 0
  OBVIOUS
<1> QED BY <1>4, <1>5 DEF trail, Follows

LEMMA IdsOf ==
  ASSUME NEW q \in Seq(Updates), NEW u \in Updates
  PROVE  /\ A!Ids(Append(q, u)) = A!Ids(q) \union {u.id}
         /\ A!Ids(<<u>>) = {u.id} /\ A!Ids(<<>>) = {}
         /\ A!Ids(q) \in SUBSET Id
<1>1. /\ Len(q) \in Nat /\ DOMAIN q = 1..Len(q) /\ DOMAIN Append(q, u) = 1..(Len(q) + 1)
      /\ \A i \in 1..Len(q) : Append(q, u)[i] = q[i] /\ q[i] \in Updates
      /\ Append(q, u)[Len(q) + 1] = u
  OBVIOUS
<1>2. A!Ids(Append(q, u)) \subseteq A!Ids(q) \union {u.id}
  BY <1>1 DEF A!Ids
<1>3. A!Ids(q) \subseteq A!Ids(Append(q, u))
  BY <1>1 DEF A!Ids
<1>4. u.id \in A!Ids(Append(q, u))
  <2>1. Len(q) + 1 \in DOMAIN Append(q, u)
    BY <1>1
  <2> QED BY <1>1, <2>1 DEF A!Ids
<1>5. A!Ids(<<u>>) = {u.id} /\ A!Ids(<<>>) = {}
  BY DEF A!Ids
<1>6. A!Ids(q) \in SUBSET Id
  BY <1>1, UpdateFields DEF A!Ids
<1> QED BY <1>2, <1>3, <1>4, <1>5, <1>6

(* The ids of both buffers.                                                 *)
LEMMA IdsOfBoth ==
  ASSUME NEW q \in Seq(Updates), NEW r \in Seq(Updates)
  PROVE  A!Ids(q \o r) = A!Ids(q) \union A!Ids(r)
<1> DEFINE both == q \o r
<1>1. /\ Len(q) \in Nat /\ Len(r) \in Nat /\ DOMAIN q = 1..Len(q) /\ DOMAIN r = 1..Len(r)
      /\ DOMAIN both = 1..(Len(q) + Len(r))
      /\ \A i \in 1..(Len(q) + Len(r)) : both[i] = IF i <= Len(q) THEN q[i] ELSE r[i - Len(q)]
  OBVIOUS
<1> HIDE DEF both
<1>2. A!Ids(both) \subseteq A!Ids(q) \union A!Ids(r)
  <2>1. \A i \in DOMAIN both : (i \in DOMAIN q /\ both[i] = q[i])
                               \/ (i - Len(q) \in DOMAIN r /\ both[i] = r[i - Len(q)])
    BY <1>1
  <2> QED BY <2>1 DEF A!Ids
<1>3. A!Ids(q) \subseteq A!Ids(both)
  <2>1. \A i \in DOMAIN q : i \in DOMAIN both /\ both[i] = q[i]
    BY <1>1
  <2> QED BY <2>1 DEF A!Ids
<1>4. A!Ids(r) \subseteq A!Ids(both)
  <2>1. \A i \in DOMAIN r : i + Len(q) \in DOMAIN both /\ both[i + Len(q)] = r[i]
    <3> SUFFICES ASSUME NEW i \in DOMAIN r PROVE i + Len(q) \in DOMAIN both /\ both[i + Len(q)] = r[i]
      OBVIOUS
    <3>1. i \in 1..Len(r) /\ i + Len(q) \in 1..(Len(q) + Len(r)) /\ ~(i + Len(q) <= Len(q))
          /\ (i + Len(q)) - Len(q) = i
      BY <1>1
    <3> QED BY <1>1, <3>1
  <2> QED BY <2>1 DEF A!Ids
<1> QED BY <1>2, <1>3, <1>4 DEF both

(* No update is in a buffer twice.                                          *)
Single(q) == \A i, j \in DOMAIN q : i # j => q[i].id # q[j].id

LEMMA TrailOnce ==
  ASSUME NEW s, NEW set, NEW n \in Nat, MaxPending + 1 <= n, Once(s, set, n),
         NEW q \in Seq(Updates), Single(q), A!Ids(q) \intersect set = {}
  PROVE  Once(A!Trail(s, q)[Len(q)], set \union A!Ids(q), n)
<1>0. /\ A!Trail(s, q)[0] = s
      /\ \A i \in 1..Len(q) :
           A!Trail(s, q)[i] = A!IngestClassified(A!Trail(s, q)[i - 1], q[i], FALSE)
  BY TrailSteps DEF Follows
<1> DEFINE first(k) == {q[i].id : i \in 1..k}
           good(k) == Once(A!Trail(s, q)[k], set \union first(k), n)
           bad == {k \in Nat : k <= Len(q) /\ ~good(k)}
<1>1. /\ Len(q) \in Nat /\ DOMAIN q = 1..Len(q) /\ \A i \in 1..Len(q) : q[i] \in Updates
  OBVIOUS
<1>2. bad = {}
  <2> SUFFICES ASSUME bad # {} PROVE FALSE
    OBVIOUS
  <2>1. PICK m \in bad : \A k \in bad : m <= k
    <3>1. bad \in SUBSET Nat
      OBVIOUS
    <3> HIDE DEF bad
    <3> QED BY <3>1, LeastOf
  <2>2. m \in Nat /\ m <= Len(q) /\ ~good(m)
    OBVIOUS
  <2>3. CASE m = 0
    <3>1. first(0) = {}
      OBVIOUS
    <3>2. A!Trail(s, q)[0] = s
      BY <1>0
    <3>3. set \union first(0) = set
      BY <3>1
    <3> HIDE DEF first
    <3>4. good(0)
      BY <3>2, <3>3
    <3> QED BY <2>2, <2>3, <3>4
  <2>4. CASE m # 0
    <3> DEFINE l == m - 1
    <3>1. l \in Nat /\ l <= Len(q) /\ l < m /\ m \in 1..Len(q) /\ m = l + 1
      BY <1>1, <2>2, <2>4
    <3>2. l \notin bad
      <4>1. l \in bad => m <= l
        BY <2>1
      <4>2. ~(m <= l)
        BY <2>2, <3>1
      <4> QED BY <4>1, <4>2
    <3>3. good(l)
      BY <3>1, <3>2
    <3>4. A!Trail(s, q)[m] = A!IngestClassified(A!Trail(s, q)[l], q[m], FALSE)
      BY <1>0, <3>1
    <3>5. q[m] \in Updates
      BY <1>1, <3>1
    <3>6. q[m].id \notin set
      BY <1>1, <3>1 DEF A!Ids
    <3>7. q[m].id \notin first(l)
      <4>1. \A i \in 1..l : i \in DOMAIN q /\ i # m
        BY <1>1, <3>1
      <4> QED BY <1>1, <3>1, <4>1 DEF Single
    <3>8. first(m) = first(l) \union {q[m].id}
      <4>1. \A i : i \in 1..m <=> i \in 1..l \/ i = m
        BY <3>1
      <4> HIDE DEF l
      <4> QED BY <4>1
    <3>9. (set \union first(l)) \union {q[m].id} = set \union first(m)
      BY <3>8
    <3> HIDE DEF first, l
    <3>10. Once(A!IngestClassified(A!Trail(s, q)[l], q[m], FALSE), (set \union first(l)) \union {q[m].id}, n)
      BY <3>3, <3>5, <3>6, <3>7, IngestOnce
    <3>11. good(m)
      BY <3>4, <3>9, <3>10
    <3> QED BY <2>2, <3>11
  <2> QED BY <2>3, <2>4
<1>3. good(Len(q))
  <2>1. Len(q) \in Nat /\ Len(q) <= Len(q) /\ Len(q) \notin bad
    <3>1. Len(q) \in Nat /\ Len(q) <= Len(q)
      OBVIOUS
    <3> HIDE DEF bad
    <3> QED BY <1>2, <3>1
  <2> QED BY <2>1
<1>4. first(Len(q)) = A!Ids(q)
  BY <1>1 DEF A!Ids
<1> HIDE DEF first
<1> QED BY <1>3, <1>4

(* The replay puts every buffered update in one place.                      *)
LEMMA ReplayOnce ==
  ASSUME NEW s, NEW set, NEW n \in Nat, MaxPending + 1 <= n, Once(s, set, n),
         NEW q \in Seq(Updates), Single(q), A!Ids(q) \intersect set = {},
         NEW plan \in Seq(Updates), Len(plan) <= 1, A!Ids(plan) \intersect set = {},
         A!Ids(q) \intersect A!Ids(plan) = {}
  PROVE  Once(A!Replay(s, q, plan), set \union A!Ids(q) \union A!Ids(plan), n)
<1> DEFINE t == A!Trail(s, q)[Len(q)]
           all == set \union A!Ids(q)
<1>1. Once(t, all, n)
  BY TrailOnce
<1>2. CASE plan = <<>>
  <2>1. A!Replay(s, q, plan) = t
    BY <1>2 DEF A!Replay
  <2>2. A!Ids(plan) = {}
    BY <1>2 DEF A!Ids
  <2> HIDE DEF t
  <2> QED BY <1>1, <2>1, <2>2
<1>3. CASE plan # <<>>
  <2> DEFINE u == Head(plan)
  <2>1. A!Replay(s, q, plan) = A!IngestClassified(t, u, TRUE)
    BY <1>3 DEF A!Replay
  <2>2. u \in Updates /\ u = plan[1] /\ DOMAIN plan = 1..1
    <3>1. Len(plan) \in Nat /\ Len(plan) # 0 /\ DOMAIN plan = 1..Len(plan)
      BY <1>3
    <3>2. Len(plan) = 1
      BY <3>1
    <3> QED BY <1>3, <3>1, <3>2
  <2>3. A!Ids(plan) = {u.id}
    BY <2>2 DEF A!Ids
  <2> HIDE DEF u, t
  <2>4. u.id \notin all
    BY <2>3
  <2> HIDE DEF all
  <2>5. Once(A!IngestClassified(t, u, TRUE), all \union {u.id}, n)
    BY <1>1, <2>2, <2>4, IngestOnce
  <2> QED BY <2>1, <2>3, <2>5 DEF all
<1> QED BY <1>2, <1>3

-----------------------------------------------------------------------------
(* The inductive invariant of the transcript: an update is in a buffer or   *)
(* in the script, and there is no buffer once the instance has a key.       *)

Producers == [phase : {"new", "run", "await", "final", "seal", "drain", "terminal", "over"},
              attempts : Nat, gen : Nat, creating : Nat, key : BOOLEAN, disabled : BOOLEAN,
              finalizing : BOOLEAN, finalized : BOOLEAN, ok : BOOLEAN, tries : Nat,
              buffer : Seq(Updates), plan : Seq(Updates)]
Past == Turned \union {[t EXCEPT !.kind = "late"] : t \in Turned}
Engines == [made : BOOLEAN, status : {"open", "completed"}, history : Seq(Past)]

ProducerTypes(p) ==
  /\ p \in Producers /\ Len(p.buffer) <= BufferMax /\ Len(p.plan) <= 1
  /\ p.creating \in {0, p.gen} /\ p.tries <= TerminalMax
  /\ p.phase # "over" => p.tries < TerminalMax

Handed == 1..(next - 1)
Buffered == A!Ids(prod.buffer) \union A!Ids(prod.plan)
Buffers == /\ Single(prod.buffer) /\ A!Ids(prod.buffer) \intersect A!Ids(prod.plan) = {}
           /\ Buffered \subseteq Handed
           /\ prod.key => prod.buffer = <<>> /\ prod.plan = <<>>

(* The terminal update may go out behind a full queue.                      *)
Room(p) == IF p.phase = "over" THEN MaxPending + 2 ELSE MaxPending + 1

TranscriptTypes == /\ ProducerTypes(prod) /\ eng \in Engines /\ late \subseteq Turned
                   /\ next \in 1..(MaxUpdates + 1)
AInv == TranscriptTypes /\ Buffers /\ Once(script, Handed \ Buffered, Room(prod))

LEMMA RoomIsNat == \A p : Room(p) \in Nat /\ MaxPending + 1 <= Room(p) /\ Room(p) <= MaxPending + 2
BY Limits DEF Room

LEMMA OnceGrows ==
  ASSUME NEW s, NEW set, NEW n \in Nat, NEW m \in Nat, n <= m, Once(s, set, n)
  PROVE  Once(s, set, m)
<1>1. Len(s.queue) \in Nat
  BY DEF Once, Scripts
<1> QED BY <1>1 DEF Once

LEMMA NextIsNat == ASSUME TranscriptTypes PROVE next \in Nat /\ Handed \in SUBSET Id
BY Limits DEF TranscriptTypes, Handed, Id

(* The producer goes on without its buffers; so does what the engine has.   *)
Keeps(p, q) == q.buffer = p.buffer /\ q.plan = p.plan /\ q.key = p.key
               /\ (p.phase = "over" => q.phase = "over")

LEMMA KeepsInv ==
  ASSUME AInv, ProducerTypes(prod'), Keeps(prod, prod'), eng' \in Engines, late' \subseteq Turned,
         UNCHANGED <<script, next>>
  PROVE  AInv'
<1>1. TranscriptTypes'
  BY DEF AInv, TranscriptTypes
<1>2. Buffered' = Buffered /\ Handed' = Handed
  BY DEF Keeps, Buffered, Handed
<1>3. Buffers'
  BY <1>2 DEF AInv, Buffers, Keeps
<1>4. Room(prod) <= Room(prod')
  BY Limits DEF Room, Keeps
<1>5. Once(script', (Handed \ Buffered)', Room(prod'))
  BY <1>2, <1>4, OnceGrows, RoomIsNat DEF AInv
<1> QED BY <1>1, <1>3, <1>5 DEF AInv

(* The buffers go, and what was in them is in the script.                   *)
LEMMA ClearsInv ==
  ASSUME AInv, ProducerTypes(prod'), prod'.buffer = <<>>, prod'.plan = <<>>,
         UNCHANGED <<eng, late, next>>, Once(script', Handed, Room(prod'))
  PROVE  AInv'
<1>1. TranscriptTypes'
  BY DEF AInv, TranscriptTypes
<1>2. Buffered' = {} /\ Handed' = Handed
  BY DEF Buffered, Handed, A!Ids
<1>3. Buffers'
  BY <1>2 DEF Buffers, Single, A!Ids
<1>4. (Handed \ Buffered)' = Handed
  BY <1>2
<1> QED BY <1>1, <1>3, <1>4 DEF AInv

LEMMA AInitInv == ASSUME A!AInit PROVE AInv
<1>1. prod = [phase |-> "new", attempts |-> 0, gen |-> 0, creating |-> 0, key |-> FALSE,
              disabled |-> FALSE, finalizing |-> FALSE, finalized |-> FALSE, ok |-> FALSE,
              tries |-> 0, buffer |-> <<>>, plan |-> <<>>]
  BY DEF A!AInit
<1>2. <<>> \in Seq(Updates) /\ <<>> \in Seq(Turned) /\ <<>> \in Seq(Past) /\ Len(<<>>) = 0
  OBVIOUS
<1>3. ProducerTypes(prod) /\ prod.buffer = <<>> /\ prod.plan = <<>> /\ prod.phase = "new"
  BY <1>1, <1>2, Limits DEF ProducerTypes, Producers
<1>4. eng \in Engines
  BY <1>2 DEF A!AInit, Engines
<1>5. next = 1 /\ late = {} /\ 1 \in 1..(MaxUpdates + 1) /\ Handed = {}
  BY Limits DEF A!AInit, Handed
<1>6. Buffered = {} /\ Buffers
  BY <1>3 DEF Buffered, Buffers, Single, A!Ids
<1>7. script = [msg |-> {}, queue |-> <<>>, lost |-> {}, repeated |-> {},
                recorded |-> {}, inFlight |-> {}, appended |-> {}]
  BY DEF A!AInit
<1>8. script \in Scripts /\ script.queue = <<>> /\ Queued(<<>>) = {} /\ Distinct(<<>>)
  BY <1>2, <1>7 DEF Scripts, Queued, Distinct
<1>9. Once(script, {}, Room(prod))
  BY <1>2, <1>7, <1>8, RoomIsNat DEF Once, Apart
<1>10. Handed \ Buffered = {}
  BY <1>5
<1> QED BY <1>3, <1>4, <1>5, <1>6, <1>9, <1>10 DEF AInv, TranscriptTypes

(* An attempt to create begins.                                             *)
LEMMA BeginType ==
  ASSUME NEW p, ProducerTypes(p)
  PROVE  LET q == A!Begin(p)
         IN q \in Producers /\ ProducerTypes(q) /\ Keeps(p, q) /\ q.phase = p.phase
<1> DEFINE gen == p.gen + 1
           more == p.attempts + 1
           q == [p EXCEPT !.gen = gen, !.creating = gen, !.attempts = more]
<1>1. p \in Producers /\ gen \in Nat /\ more \in Nat
  BY DEF ProducerTypes, Producers
<1>2. A!Begin(p) = q
  BY DEF A!Begin
<1> HIDE DEF gen, more
<1>3. /\ q \in Producers /\ q.gen = gen /\ q.creating = gen /\ q.tries = p.tries
      /\ q.buffer = p.buffer /\ q.plan = p.plan /\ q.key = p.key /\ q.phase = p.phase
  BY <1>1 DEF Producers
<1> HIDE DEF q
<1> QED BY <1>2, <1>3 DEF ProducerTypes, Keeps

(* The phase of the producer goes on.                                       *)
LEMMA PhaseType ==
  ASSUME NEW p, ProducerTypes(p), p.phase # "over",
         NEW to \in {"new", "run", "await", "final", "seal", "drain", "terminal", "over"}
  PROVE  LET q == [p EXCEPT !.phase = to] IN ProducerTypes(q) /\ Keeps(p, q)
<1> DEFINE q == [p EXCEPT !.phase = to]
<1>1. /\ q \in Producers /\ q.gen = p.gen /\ q.creating = p.creating /\ q.tries = p.tries
      /\ q.buffer = p.buffer /\ q.plan = p.plan /\ q.key = p.key /\ q.phase = to
  BY DEF ProducerTypes, Producers
<1> HIDE DEF q
<1>2. ProducerTypes(q) /\ Keeps(p, q)
  BY <1>1 DEF ProducerTypes, Keeps
<1> QED BY <1>2 DEF q

LEMMA AsWas ==
  ASSUME AInv
  PROVE  /\ ProducerTypes(prod) /\ prod \in Producers /\ eng \in Engines /\ late \subseteq Turned
         /\ script \in Scripts
BY DEF AInv, TranscriptTypes, ProducerTypes, Once

(* Steps that move no update.                                               *)
LEMMA CreatesInv ==
  ASSUME AInv, A!Activate \/ A!RetryCreate \/ A!FinalCreate PROVE AInv'
<1>1. UNCHANGED <<script, late, eng, next>> /\ prod.phase # "over"
  BY DEF A!Activate, A!RetryCreate, A!FinalCreate, A!Running
<1>2. /\ ProducerTypes(A!Begin(prod)) /\ Keeps(prod, A!Begin(prod)) /\ A!Begin(prod).phase = prod.phase
  BY AsWas, BeginType
<1>3. ASSUME NEW to \in {"run", "final"}
      PROVE  ProducerTypes([A!Begin(prod) EXCEPT !.phase = to]) /\ Keeps(prod, [A!Begin(prod) EXCEPT !.phase = to])
  <2> DEFINE q == A!Begin(prod)
  <2>1. ProducerTypes(q) /\ q.phase # "over" /\ Keeps(prod, q)
    BY <1>1, <1>2
  <2> HIDE DEF q
  <2>2. ProducerTypes([q EXCEPT !.phase = to]) /\ Keeps(q, [q EXCEPT !.phase = to])
    BY <2>1, PhaseType
  <2>3. Keeps(prod, [q EXCEPT !.phase = to])
    BY <1>1, <2>1, <2>2 DEF Keeps
  <2> QED BY <2>2, <2>3 DEF q
<1>4. CASE A!Activate
  BY <1>1, <1>3, <1>4, AsWas, KeepsInv DEF A!Activate
<1>5. CASE A!RetryCreate
  BY <1>1, <1>2, <1>5, AsWas, KeepsInv DEF A!RetryCreate
<1>6. CASE A!FinalCreate
  <2>1. CASE prod.key
    <3>1. prod' = [prod EXCEPT !.phase = "seal"]
      BY <1>6, <2>1 DEF A!FinalCreate
    <3>2. ProducerTypes(prod') /\ Keeps(prod, prod')
      BY <1>1, <3>1, AsWas, PhaseType
    <3> QED BY <1>1, <3>2, AsWas, KeepsInv
  <2>2. CASE ~prod.key
    <3>1. prod' = [A!Begin(prod) EXCEPT !.phase = "final"]
      BY <1>6, <2>2 DEF A!FinalCreate
    <3> QED BY <1>1, <1>3, <3>1, AsWas, KeepsInv
  <2> QED BY <2>1, <2>2
<1> QED BY <1>4, <1>5, <1>6

LEMMA RetireCreateInv == ASSUME AInv, A!RetireCreate PROVE AInv'
<1> DEFINE gen == prod.gen + 1
           q == [prod EXCEPT !.gen = gen, !.creating = 0]
<1>1. prod \in Producers /\ gen \in Nat
  BY AsWas DEF Producers
<1>2. prod' = q /\ UNCHANGED <<script, late, eng, next>>
  BY DEF A!RetireCreate
<1> HIDE DEF gen
<1>3. /\ q \in Producers /\ q.creating = 0 /\ q.tries = prod.tries
      /\ q.buffer = prod.buffer /\ q.plan = prod.plan /\ q.key = prod.key /\ q.phase = prod.phase
  BY <1>1 DEF Producers
<1> HIDE DEF q
<1>4. ProducerTypes(q) /\ Keeps(prod, q)
  BY <1>3, AsWas DEF ProducerTypes, Keeps
<1> QED BY <1>2, <1>4, AsWas, KeepsInv

LEMMA EngineInv ==
  ASSUME AInv, UNCHANGED <<prod, script, next>>, eng' \in Engines, late' \subseteq Turned PROVE AInv'
<1>1. ProducerTypes(prod') /\ Keeps(prod, prod')
  BY AsWas DEF Keeps
<1> QED BY <1>1, KeepsInv

LEMMA EngineCreateInv == ASSUME AInv, NEW c \in calls, A!EngineCreate(c) PROVE AInv'
<1>1. eng' \in Engines
  <2>1. PICK reply \in {"made", "permanent", "transient"} : eng' = [eng EXCEPT !.made = @ \/ reply = "made"]
    BY DEF A!EngineCreate
  <2> DEFINE made == eng.made \/ reply = "made"
  <2>2. made \in BOOLEAN /\ eng' = [eng EXCEPT !.made = made]
    BY <2>1
  <2> HIDE DEF made
  <2> QED BY <2>2, AsWas DEF Engines
<1> QED BY <1>1, AsWas, EngineInv DEF A!EngineCreate

(* What the engine writes.                                                  *)
LEMMA WriteType ==
  ASSUME eng \in Engines, NEW turn \in Past, A!Write(turn) PROVE eng' \in Engines
<1>1. CASE turn.kind = "completed"
  BY <1>1 DEF A!Write, Engines
<1>2. CASE turn.kind # "completed"
  <2> DEFINE more == Append(eng.history, turn)
  <2>1. eng' = [eng EXCEPT !.history = more]
    BY <1>2 DEF A!Write
  <2>2. eng.history \in Seq(Past)
    BY DEF Engines
  <2>3. more \in Seq(Past)
    BY <2>2
  <2> HIDE DEF more
  <2> QED BY <2>1, <2>3 DEF Engines
<1> QED BY <1>1, <1>2

LEMMA LandLateInv == ASSUME AInv, NEW turn \in late, A!LandLate(turn) PROVE AInv'
<1> DEFINE wrote == IF turn.kind = "completed" THEN turn ELSE [turn EXCEPT !.kind = "late"]
<1>1. wrote \in Past
  BY AsWas DEF Past
<1>2. A!Write(wrote) /\ late' \subseteq late /\ UNCHANGED <<prod, script, next>>
  BY DEF A!LandLate
<1> HIDE DEF wrote
<1>3. eng' \in Engines
  BY <1>1, <1>2, AsWas, WriteType
<1> QED BY <1>2, <1>3, AsWas, EngineInv

LEMMA CompleteInv == ASSUME AInv, A!Complete \/ A!FinalSettled PROVE AInv'
<1>0. prod.phase # "over" /\ UNCHANGED <<script, late, eng, next>>
  BY DEF A!Complete, A!FinalSettled, A!Running
<1>1. CASE A!Complete
  <2> DEFINE unminted == ~prod.disabled /\ ~prod.key
             to == IF unminted THEN "await" ELSE "seal"
  <2>1. PICK ok \in BOOLEAN : prod' = [prod EXCEPT !.ok = ok, !.finalizing = unminted, !.phase = to]
    BY <1>1 DEF A!Complete
  <2>2. unminted \in BOOLEAN /\ to \in {"await", "seal"}
    OBVIOUS
  <2> HIDE DEF unminted, to
  <2>3. /\ prod' \in Producers /\ prod'.gen = prod.gen /\ prod'.creating = prod.creating
        /\ prod'.tries = prod.tries /\ prod'.buffer = prod.buffer /\ prod'.plan = prod.plan
        /\ prod'.key = prod.key /\ prod'.phase = to
    BY <2>1, <2>2, AsWas DEF Producers
  <2>4. ProducerTypes(prod') /\ Keeps(prod, prod')
    BY <1>0, <2>2, <2>3, AsWas DEF ProducerTypes, Keeps
  <2> QED BY <1>0, <2>4, AsWas, KeepsInv
<1>2. CASE A!FinalSettled
  <2>1. ProducerTypes(prod') /\ Keeps(prod, prod')
    BY <1>0, <1>2, AsWas, PhaseType DEF A!FinalSettled
  <2> QED BY <1>0, <2>1, AsWas, KeepsInv
<1> QED BY <1>1, <1>2

LEMMA TerminateInv == ASSUME AInv, A!Terminate PROVE AInv'
<1> DEFINE done == [kind |-> "completed", ids |-> {}]
<1>0. prod.phase = "terminal" /\ UNCHANGED <<script, next>>
  BY DEF A!Terminate
<1>1. done \in Turned /\ done \in Past
  BY DEF Turned, Past
<1>2. ASSUME prod' = [prod EXCEPT !.phase = "over"] PROVE ProducerTypes(prod') /\ Keeps(prod, prod')
  BY <1>0, <1>2, AsWas, PhaseType
<1>3. CASE A!Write(done) /\ prod' = [prod EXCEPT !.phase = "over"] /\ UNCHANGED late
  <2>1. eng' \in Engines
    <3> HIDE DEF done
    <3> QED BY <1>1, <1>3, AsWas, WriteType
  <2> QED BY <1>0, <1>2, <1>3, <2>1, AsWas, KeepsInv
<1>4. CASE late' = late \union {done} /\ UNCHANGED eng /\ prod' = [prod EXCEPT !.phase = "over"]
  BY <1>0, <1>1, <1>2, <1>4, AsWas, KeepsInv
<1>5. CASE /\ UNCHANGED <<eng, late>>
           /\ \E permanent \in BOOLEAN :
                prod' = [prod EXCEPT !.tries = @ + 1, !.phase =
                           IF permanent \/ prod.tries + 1 >= TerminalMax THEN "over" ELSE @]
  <2> DEFINE more == prod.tries + 1
  <2>1. PICK permanent \in BOOLEAN :
          prod' = [prod EXCEPT !.tries = @ + 1, !.phase =
                     IF permanent \/ prod.tries + 1 >= TerminalMax THEN "over" ELSE @]
    BY <1>5
  <2> DEFINE to == IF permanent \/ more >= TerminalMax THEN "over" ELSE "terminal"
  <2>2. prod' = [prod EXCEPT !.tries = more, !.phase = to]
    BY <1>0, <2>1
  <2>3. prod.tries \in Nat /\ prod.tries < TerminalMax
    BY <1>0, AsWas DEF ProducerTypes, Producers
  <2>4. more \in Nat /\ more <= TerminalMax /\ (to # "over" => more < TerminalMax)
    BY <2>3, Limits
  <2>5. to \in {"over", "terminal"}
    OBVIOUS
  <2> HIDE DEF more, to
  <2>6. /\ prod' \in Producers /\ prod'.gen = prod.gen /\ prod'.creating = prod.creating
        /\ prod'.tries = more /\ prod'.buffer = prod.buffer /\ prod'.plan = prod.plan
        /\ prod'.key = prod.key /\ prod'.phase = to
    BY <2>2, <2>4, <2>5, AsWas DEF Producers
  <2>7. ProducerTypes(prod') /\ Keeps(prod, prod')
    BY <1>0, <2>4, <2>6, AsWas DEF ProducerTypes, Keeps
  <2> QED BY <1>0, <1>5, <2>7, AsWas, KeepsInv
<1> QED BY <1>3, <1>4, <1>5 DEF A!Terminate

(* Steps that move updates.                                                 *)
LEMMA InPlace ==
  ASSUME AInv
  PROVE  /\ prod.buffer \in Seq(Updates) /\ prod.plan \in Seq(Updates) /\ Len(prod.plan) <= 1
         /\ Single(prod.buffer) /\ A!Ids(prod.buffer) \in SUBSET Id /\ A!Ids(prod.plan) \in SUBSET Id
         /\ A!Ids(prod.buffer) \intersect A!Ids(prod.plan) = {}
         /\ A!Ids(prod.buffer \o prod.plan) = Buffered
         /\ Buffered \in SUBSET Id /\ Buffered \subseteq Handed /\ Handed \in SUBSET Id
         /\ (Handed \ Buffered) \union Buffered = Handed
         /\ Buffered \intersect (Handed \ Buffered) = {}
         /\ Once(script, Handed \ Buffered, Room(prod))
<1>1. prod.buffer \in Seq(Updates) /\ prod.plan \in Seq(Updates) /\ Len(prod.plan) <= 1
  BY AsWas DEF ProducerTypes, Producers
<1>2. \A q \in Seq(Updates) : A!Ids(q) \in SUBSET Id
  BY UpdateFields DEF A!Ids
<1>3. A!Ids(prod.buffer \o prod.plan) = Buffered
  BY <1>1, IdsOfBoth DEF Buffered
<1>4. Handed \in SUBSET Id
  BY NextIsNat DEF AInv
<1>5. /\ Single(prod.buffer) /\ A!Ids(prod.buffer) \intersect A!Ids(prod.plan) = {}
      /\ Buffered \subseteq Handed /\ Once(script, Handed \ Buffered, Room(prod))
  BY DEF AInv, Buffers
<1>6. Buffered \in SUBSET Id
  BY <1>4, <1>5
<1> QED BY <1>1, <1>2, <1>3, <1>4, <1>5, <1>6

LEMMA BuffersLost == ASSUME AInv PROVE Once(A!LoseBuffers(script), Handed, Room(prod))
<1> DEFINE ids == A!Ids(prod.buffer \o prod.plan)
<1>1. ids = Buffered
  BY InPlace
<1>2. A!LoseBuffers(script) = [script EXCEPT !.lost = @ \union ids]
  BY DEF A!LoseBuffers
<1> HIDE DEF ids
<1>3. Once([script EXCEPT !.lost = @ \union ids], (Handed \ Buffered) \union ids, Room(prod))
  BY <1>1, InPlace, LoseOnce
<1>4. (Handed \ Buffered) \union ids = Handed
  BY <1>1, InPlace
<1> QED BY <1>2, <1>3, <1>4

(* A create that returns in time with a key replays the buffers.            *)
LEMMA CreateReturnsInv == ASSUME AInv, NEW c \in calls, A!CreateReturns(c) PROVE AInv'
<1>0. UNCHANGED <<late, eng, next>>
  BY DEF A!CreateReturns
<1>1. CASE A!Retired(c)
  <2>1. UNCHANGED <<prod, script>>
    BY <1>1 DEF A!CreateReturns
  <2> QED BY <1>0, <2>1, AsWas, EngineInv
<1>2. CASE ~A!Retired(c)
  <2> DEFINE made == c.reply = "made"
             refused == prod.disabled \/ c.reply = "permanent"
             key == prod.key \/ made
             buffer == IF made THEN <<>> ELSE prod.buffer
             plan == IF made THEN <<>> ELSE prod.plan
  <2>1. /\ prod' = [prod EXCEPT !.creating = 0, !.disabled = refused, !.key = key,
                                !.buffer = buffer, !.plan = plan]
        /\ script' = CASE ~made -> script
                       [] made /\ prod.disabled -> A!LoseBuffers(script)
                       [] OTHER -> A!Replay(script, prod.buffer, prod.plan)
    BY <1>2, AsWas DEF A!CreateReturns, Producers
  <2>2. /\ refused \in BOOLEAN /\ key \in BOOLEAN /\ (made => key = TRUE) /\ (~made => key = prod.key)
        /\ buffer \in Seq(Updates) /\ plan \in Seq(Updates)
        /\ Len(buffer) <= BufferMax /\ Len(plan) <= 1
    <3>1. /\ prod.buffer \in Seq(Updates) /\ prod.plan \in Seq(Updates) /\ prod.key \in BOOLEAN
          /\ prod.disabled \in BOOLEAN /\ Len(prod.buffer) <= BufferMax /\ Len(prod.plan) <= 1
      BY AsWas DEF ProducerTypes, Producers
    <3>2. <<>> \in Seq(Updates) /\ Len(<<>>) = 0
      OBVIOUS
    <3> QED BY <3>1, <3>2, Limits
  <2>3. (made => buffer = <<>> /\ plan = <<>>) /\ (~made => buffer = prod.buffer /\ plan = prod.plan)
    OBVIOUS
  <2> HIDE DEF refused, key, buffer, plan
  <2>4. /\ prod' \in Producers /\ prod'.creating = 0 /\ prod'.tries = prod.tries
        /\ prod'.phase = prod.phase /\ prod'.buffer = buffer /\ prod'.plan = plan /\ prod'.key = key
    BY <2>1, <2>2, AsWas DEF Producers
  <2>5. ProducerTypes(prod')
    BY <2>2, <2>4, AsWas DEF ProducerTypes
  <2>6. CASE made
    <3>1. Room(prod') = Room(prod)
      BY <2>4 DEF Room
    <3>2. CASE prod.disabled
      <4>1. script' = A!LoseBuffers(script)
        BY <2>1, <2>6, <3>2
      <4> QED BY <1>0, <2>3, <2>4, <2>5, <2>6, <3>1, <4>1, BuffersLost, ClearsInv
    <3>3. CASE ~prod.disabled
      <4>1. script' = A!Replay(script, prod.buffer, prod.plan)
        BY <2>1, <2>6, <3>3
      <4>2. Once(A!Replay(script, prod.buffer, prod.plan),
                 (Handed \ Buffered) \union A!Ids(prod.buffer) \union A!Ids(prod.plan), Room(prod))
        <5>1. /\ A!Ids(prod.buffer) \intersect (Handed \ Buffered) = {}
              /\ A!Ids(prod.plan) \intersect (Handed \ Buffered) = {}
          BY DEF Buffered
        <5> QED BY <5>1, InPlace, RoomIsNat, ReplayOnce
      <4>3. (Handed \ Buffered) \union A!Ids(prod.buffer) \union A!Ids(prod.plan) = Handed
        <5>1. (Handed \ Buffered) \union Buffered = Handed
          BY InPlace
        <5> QED BY <5>1 DEF Buffered
      <4> QED BY <1>0, <2>3, <2>4, <2>5, <2>6, <3>1, <4>1, <4>2, <4>3, ClearsInv
    <3> QED BY <3>2, <3>3
  <2>7. CASE ~made
    <3>1. UNCHANGED script
      BY <2>1, <2>7
    <3>2. Keeps(prod, prod')
      BY <2>2, <2>3, <2>4, <2>7 DEF Keeps
    <3> QED BY <1>0, <2>5, <3>1, <3>2, AsWas, KeepsInv
  <2> QED BY <2>6, <2>7
<1> QED BY <1>1, <1>2

(* The append chain.                                                        *)
LEMMA DequeueOnce ==
  ASSUME NEW s, NEW set, NEW n \in Nat, Once(s, set, n), s.queue # <<>>,
         NEW t \in {A!Landed(s, Head(s.queue)), A!Failed(s, Head(s.queue))}
  PROVE  Once(t, set, n) /\ Head(s.queue) \in Turned
<1> DEFINE turn == Head(s.queue)
           rest == Tail(s.queue)
           recorded == IF turn.kind = "plan" THEN s.recorded \union {turn.plan} ELSE s.recorded
           inFlight == IF turn.kind = "plan" THEN s.inFlight \ {turn.plan} ELSE s.inFlight
           appended == s.appended \union turn.ids
           lost == s.lost \union turn.ids
<1>1. s \in Scripts /\ s.queue \in Seq(Turned) /\ Distinct(s.queue)
  BY DEF Once, Scripts
<1>2. /\ rest \in Seq(Turned) /\ Len(rest) = Len(s.queue) - 1 /\ turn \in Turned
      /\ Queued(s.queue) = Queued(rest) \union turn.ids
      /\ Queued(rest) \intersect turn.ids = {} /\ Distinct(rest)
  BY <1>1, QueueTail
<1>3. Len(rest) <= n
  <2>1. Len(s.queue) \in Nat /\ Len(s.queue) <= n
    BY <1>1 DEF Once
  <2> QED BY <1>2, <2>1
<1>4. /\ turn.ids \in SUBSET Id /\ recorded \in SUBSET Plan /\ inFlight \in SUBSET Plan
      /\ appended \in SUBSET Id /\ lost \in SUBSET Id
  BY <1>1, <1>2, TurnFields, ScriptFields
<1>5. /\ A!Landed(s, turn) = [s EXCEPT !.queue = rest, !.appended = appended,
                                       !.recorded = recorded, !.inFlight = inFlight]
      /\ A!Failed(s, turn) = [s EXCEPT !.queue = rest, !.lost = lost, !.inFlight = inFlight]
  BY DEF A!Landed, A!Failed
<1>6. Apart(s.msg, Queued(s.queue), s.appended, s.lost, s.repeated)
      /\ set = s.msg \union Queued(s.queue) \union s.appended \union s.lost \union s.repeated
  BY DEF Once
<1>7. /\ Apart(s.msg, Queued(rest), appended, s.lost, s.repeated)
      /\ Apart(s.msg, Queued(rest), s.appended, lost, s.repeated)
  BY <1>2, <1>6 DEF Apart
<1>8. /\ set = s.msg \union Queued(rest) \union appended \union s.lost \union s.repeated
      /\ set = s.msg \union Queued(rest) \union s.appended \union lost \union s.repeated
  BY <1>2, <1>6
<1> HIDE DEF rest, recorded, inFlight, appended, lost, turn
<1>9. CASE t = A!Landed(s, turn)
  <2>1. /\ t \in Scripts /\ t.msg = s.msg /\ t.queue = rest /\ t.appended = appended
        /\ t.lost = s.lost /\ t.repeated = s.repeated
    BY <1>1, <1>2, <1>4, <1>5, <1>9 DEF Scripts
  <2> QED BY <1>2, <1>3, <1>7, <1>8, <2>1 DEF Once, turn
<1>10. CASE t = A!Failed(s, turn)
  <2>1. /\ t \in Scripts /\ t.msg = s.msg /\ t.queue = rest /\ t.appended = s.appended
        /\ t.lost = lost /\ t.repeated = s.repeated
    BY <1>1, <1>2, <1>4, <1>5, <1>10 DEF Scripts
  <2> QED BY <1>2, <1>3, <1>7, <1>8, <2>1 DEF Once, turn
<1> QED BY <1>9, <1>10 DEF turn

LEMMA AppendNextInv == ASSUME AInv, A!AppendNext PROVE AInv'
<1> DEFINE turn == Head(script.queue)
<1>1. /\ script.queue # <<>> /\ UNCHANGED <<prod, calls, next>>
      /\ script' \in {A!Landed(script, turn), A!Failed(script, turn)}
      /\ (A!Write(turn) /\ UNCHANGED late) \/ (UNCHANGED eng /\ late' \subseteq late \union {turn})
  BY DEF A!AppendNext
<1>2. Once(script', Handed \ Buffered, Room(prod)) /\ turn \in Turned
  BY <1>1, InPlace, RoomIsNat, DequeueOnce
<1>3. turn \in Past
  BY <1>2 DEF Past
<1> HIDE DEF turn
<1>4. eng' \in Engines /\ late' \subseteq Turned
  BY <1>1, <1>2, <1>3, AsWas, WriteType
<1>5. TranscriptTypes' /\ Buffers' /\ Handed' = Handed /\ Buffered' = Buffered
  BY <1>1, <1>4 DEF AInv, TranscriptTypes, Buffers, Buffered, Handed
<1> QED BY <1>1, <1>2, <1>5 DEF AInv, Room

(* The next update: dropped, buffered or classified.                        *)
LEMMA IngestInv == ASSUME AInv, A!Ingest PROVE AInv'
<1>1. PICK u \in A!Update(next) :
        \/ /\ prod.disabled
           /\ script' = [script EXCEPT !.lost = @ \union {u.id}] /\ UNCHANGED <<prod, calls>>
        \/ /\ ~prod.disabled /\ prod.key
           /\ script' = A!IngestClassified(script, u, FALSE) /\ UNCHANGED <<prod, calls>>
        \/ ~prod.disabled /\ ~prod.key /\ A!BufferPreMint(u) /\ UNCHANGED calls
  BY DEF A!Ingest
<1>2. /\ next' = next + 1 /\ UNCHANGED <<late, eng>> /\ next \in Id /\ next' \in 1..(MaxUpdates + 1)
      /\ prod.phase = "run"
  BY Limits DEF A!Ingest, A!Running, AInv, TranscriptTypes, Id
<1>3. u \in Updates /\ u.id = next
  BY <1>2, UpdateFields
<1>4. Handed' = Handed \union {next} /\ next \notin Handed
  BY <1>2, Limits DEF Handed, Id
<1>5. Room(prod) \in Nat /\ MaxPending + 1 <= Room(prod)
  BY RoomIsNat
<1>a. /\ {u.id} \in SUBSET Id /\ u.id \notin Handed \ Buffered
      /\ u.id \notin Buffered /\ {u.id} \intersect (Handed \ Buffered) = {}
  BY <1>2, <1>3, <1>4, InPlace
<1>6. ASSUME UNCHANGED prod, Once(script', (Handed \ Buffered) \union {u.id}, Room(prod)) PROVE AInv'
  <2>1. Buffered' = Buffered /\ Room(prod') = Room(prod)
    BY <1>6 DEF Buffered
  <2>2. (Handed \ Buffered)' = (Handed \ Buffered) \union {u.id}
    BY <1>3, <1>4, <1>a, <2>1
  <2>3. Buffers'
    BY <1>4, <1>6, <2>1 DEF AInv, Buffers
  <2> QED BY <1>2, <1>6, <2>1, <2>2, <2>3 DEF AInv, TranscriptTypes
<1>7. CASE prod.disabled
  <2>1. script' = [script EXCEPT !.lost = @ \union {u.id}] /\ UNCHANGED prod
    BY <1>1, <1>7
  <2>2. Once([script EXCEPT !.lost = @ \union {u.id}], (Handed \ Buffered) \union {u.id}, Room(prod))
    BY <1>a, InPlace, LoseOnce
  <2> QED BY <1>6, <2>1, <2>2
<1>8. CASE ~prod.disabled /\ prod.key
  <2>1. script' = A!IngestClassified(script, u, FALSE) /\ UNCHANGED prod
    BY <1>1, <1>8
  <2>2. Once(A!IngestClassified(script, u, FALSE), (Handed \ Buffered) \union {u.id}, Room(prod))
    BY <1>3, <1>5, <1>a, InPlace, IngestOnce
  <2> QED BY <1>6, <2>1, <2>2
<1>9. CASE ~prod.disabled /\ ~prod.key
  <2>0. A!BufferPreMint(u)
    BY <1>1, <1>9
  <2> DEFINE B == A!Ids(prod.buffer)
             P == A!Ids(prod.plan)
  <2>b. Buffered = B \union P /\ B \intersect P = {} /\ Handed' = Handed \union {u.id}
    BY <1>3, <1>4, InPlace DEF Buffered
  <2>1. CASE u.kind = "plan"
    <3> DEFINE old == {p.id : p \in A!ToSet(prod.plan)}
    <3>1. old = P
      BY InPlace DEF A!ToSet, A!Ids
    <3>2. /\ prod' = [prod EXCEPT !.plan = <<u>>]
          /\ script' = [script EXCEPT !.repeated = @ \union old]
      BY <2>0, <2>1 DEF A!BufferPreMint
    <3> HIDE DEF old
    <3> DEFINE plan == <<u>>
    <3>3. plan \in Seq(Updates) /\ Len(plan) = 1 /\ A!Ids(plan) = {u.id}
      BY <1>3 DEF A!Ids
    <3> HIDE DEF plan
    <3>4. /\ prod' \in Producers /\ prod'.gen = prod.gen /\ prod'.creating = prod.creating
          /\ prod'.tries = prod.tries /\ prod'.buffer = prod.buffer /\ prod'.plan = plan
          /\ prod'.key = prod.key /\ prod'.phase = prod.phase
      BY <3>2, <3>3, AsWas DEF Producers, plan
    <3>5. ProducerTypes(prod') /\ Room(prod') = Room(prod)
      <4>1. Len(prod'.plan) <= 1
        <5>1. Len(prod'.plan) = 1
          BY <3>3, <3>4, Zenon
        <5> QED BY <5>1
      <4> QED BY <3>4, <4>1, AsWas DEF ProducerTypes, Room
    <3>6. Buffered' = B \union {u.id}
      BY <3>3, <3>4 DEF Buffered
    <3>7. Once([script EXCEPT !.repeated = @ \union old], (Handed \ Buffered) \union old, Room(prod))
      BY <2>b, <3>1, InPlace, RepeatOnce
    <3>8. (Handed \ Buffered)' = (Handed \ Buffered) \union old
      BY <1>a, <2>b, <3>1, <3>6, InPlace
    <3>9. Buffers'
      <4>1. Single(prod'.buffer) /\ ~prod'.key
        BY <1>9, <3>4, InPlace
      <4>2. A!Ids(prod'.buffer) \intersect A!Ids(prod'.plan) = {}
        BY <1>a, <2>b, <3>3, <3>4
      <4>3. Buffered' \subseteq Handed'
        BY <2>b, <3>6, InPlace
      <4> QED BY <4>1, <4>2, <4>3 DEF Buffers
    <3>10. Once(script', (Handed \ Buffered)', Room(prod'))
      BY <3>2, <3>5, <3>7, <3>8
    <3> QED BY <1>2, <3>5, <3>9, <3>10, AsWas DEF AInv, TranscriptTypes
  <2>2. CASE u.kind # "plan" /\ Len(prod.buffer) >= BufferMax
    <3>1. script' = [script EXCEPT !.lost = @ \union {u.id}] /\ UNCHANGED prod
      BY <2>0, <2>2 DEF A!BufferPreMint
    <3>2. Once([script EXCEPT !.lost = @ \union {u.id}], (Handed \ Buffered) \union {u.id}, Room(prod))
      BY <1>a, InPlace, LoseOnce
    <3> QED BY <1>6, <3>1, <3>2
  <2>3. CASE u.kind # "plan" /\ ~(Len(prod.buffer) >= BufferMax)
    <3> DEFINE buffer == Append(prod.buffer, u)
    <3>1. prod' = [prod EXCEPT !.buffer = buffer] /\ UNCHANGED script
      BY <2>0, <2>3 DEF A!BufferPreMint
    <3>2. /\ buffer \in Seq(Updates) /\ Len(buffer) = Len(prod.buffer) + 1
          /\ A!Ids(buffer) = B \union {u.id}
      <4>1. prod.buffer \in Seq(Updates)
        BY InPlace
      <4>2. buffer \in Seq(Updates) /\ Len(buffer) = Len(prod.buffer) + 1
        BY <1>3, <4>1
      <4>3. A!Ids(Append(prod.buffer, u)) = A!Ids(prod.buffer) \union {u.id}
        BY <1>3, <4>1, IdsOf
      <4> QED BY <4>2, <4>3
    <3>3. Single(buffer)
      <4>1. /\ Len(prod.buffer) \in Nat /\ DOMAIN prod.buffer = 1..Len(prod.buffer)
            /\ DOMAIN buffer = 1..(Len(prod.buffer) + 1)
            /\ \A k \in 1..Len(prod.buffer) : buffer[k] = prod.buffer[k]
            /\ buffer[Len(prod.buffer) + 1] = u
        BY <1>3, InPlace
      <4>2. \A k \in DOMAIN prod.buffer : prod.buffer[k].id # u.id
        BY <1>a, <2>b DEF A!Ids
      <4>3. Single(prod.buffer)
        BY InPlace
      <4> HIDE DEF buffer
      <4>4. \A k \in DOMAIN buffer : (k \in DOMAIN prod.buffer /\ buffer[k] = prod.buffer[k])
                                     \/ (k = Len(prod.buffer) + 1 /\ buffer[k] = u)
        BY <4>1
      <4> QED BY <4>2, <4>3, <4>4 DEF Single
    <3>4. Len(buffer) <= BufferMax
      <4>1. Len(prod.buffer) \in Nat
        BY InPlace
      <4> HIDE DEF buffer
      <4> QED BY <2>3, <3>2, <4>1, Limits
    <3> HIDE DEF buffer
    <3>5. /\ prod' \in Producers /\ prod'.gen = prod.gen /\ prod'.creating = prod.creating
          /\ prod'.tries = prod.tries /\ prod'.buffer = buffer /\ prod'.plan = prod.plan
          /\ prod'.key = prod.key /\ prod'.phase = prod.phase
      BY <3>1, <3>2, AsWas DEF Producers
    <3>6. ProducerTypes(prod') /\ Room(prod') = Room(prod)
      BY <3>4, <3>5, AsWas DEF ProducerTypes, Room
    <3>7. Buffered' = Buffered \union {u.id}
      BY <2>b, <3>2, <3>5 DEF Buffered
    <3>8. (Handed \ Buffered)' = Handed \ Buffered
      BY <1>3, <1>4, <2>b, <3>7
    <3>9. Buffers'
      <4>1. Single(prod'.buffer) /\ ~prod'.key
        BY <1>9, <3>3, <3>5
      <4>2. A!Ids(prod'.buffer) \intersect A!Ids(prod'.plan) = {}
        BY <1>a, <2>b, <3>2, <3>5
      <4>3. Buffered' \subseteq Handed'
        BY <2>b, <3>7, InPlace
      <4> QED BY <4>1, <4>2, <4>3 DEF Buffers
    <3>10. Once(script', (Handed \ Buffered)', Room(prod'))
      BY <3>1, <3>6, <3>8, InPlace
    <3> QED BY <1>2, <3>6, <3>9, <3>10, AsWas DEF AInv, TranscriptTypes
  <2> QED BY <2>1, <2>2, <2>3
<1> QED BY <1>7, <1>8, <1>9, AsWas DEF Producers

(* The producer is sealed, drained or discarded.                            *)
LEMMA ClosedType ==
  ASSUME NEW p, ProducerTypes(p), NEW q,
         q \in Producers, q.tries = p.tries, q.creating \in {0, q.gen}, q.buffer = <<>>, q.plan = <<>>,
         q.phase # "over" => p.phase # "over"
  PROVE  ProducerTypes(q)
<1>1. Len(<<>>) = 0
  OBVIOUS
<1>2. Len(q.buffer) <= BufferMax /\ Len(q.plan) <= 1
  BY <1>1, Limits
<1> QED BY <1>2 DEF ProducerTypes

LEMMA NoBuffers ==
  ASSUME AInv, prod.key
  PROVE  prod.buffer = <<>> /\ prod.plan = <<>> /\ Handed \ Buffered = Handed
BY DEF AInv, Buffers, Buffered, A!Ids

LEMMA SealInv == ASSUME AInv, A!Seal PROVE AInv'
<1> DEFINE silent == prod.disabled \/ ~prod.key
           to == IF silent THEN "over" ELSE "drain"
<1>0. UNCHANGED <<eng, late, next>> /\ prod.phase = "seal" /\ <<>> \in Seq(Updates)
  BY DEF A!Seal
<1>1. prod' = [prod EXCEPT !.finalized = TRUE, !.buffer = <<>>, !.plan = <<>>, !.phase = to]
  BY DEF A!Seal
<1>2. to \in {"over", "drain"} /\ (to = "over" <=> silent)
  OBVIOUS
<1>3. script' = IF silent
        THEN [A!LoseBuffers(script) EXCEPT !.lost = @ \union script.msg, !.msg = {}]
        ELSE A!FlushMessage(script)
  BY DEF A!Seal
<1> HIDE DEF to
<1>4. /\ prod' \in Producers /\ prod'.gen = prod.gen /\ prod'.creating = prod.creating
      /\ prod'.tries = prod.tries /\ prod'.buffer = <<>> /\ prod'.plan = <<>>
      /\ prod'.phase = to
  BY <1>0, <1>1, <1>2, AsWas DEF Producers
<1>5. ProducerTypes(prod')
  <2>1. prod'.creating \in {0, prod'.gen}
    BY <1>4, AsWas DEF ProducerTypes
  <2>2. prod.phase # "over"
    BY <1>0
  <2> QED BY <1>4, <2>1, <2>2, AsWas, ClosedType
<1>6. Room(prod) <= Room(prod') /\ Room(prod) \in Nat /\ Room(prod') \in Nat
      /\ MaxPending + 1 <= Room(prod)
  BY <1>0, RoomIsNat, Limits DEF Room
<1>7. CASE silent
  <2> DEFINE s == A!LoseBuffers(script)
             t == [s EXCEPT !.msg = {}]
             final == [t EXCEPT !.lost = @ \union script.msg]
  <2>1. Once(s, Handed, Room(prod)) /\ s \in Scripts
    BY BuffersLost DEF Once
  <2>2. s.msg = script.msg
    BY AsWas DEF A!LoseBuffers, Scripts
  <2>3. script' = [s EXCEPT !.lost = @ \union script.msg, !.msg = {}]
    BY <1>3, <1>7
  <2> HIDE DEF s
  <2>4. script' = final
    BY <2>1, <2>3 DEF Scripts
  <2>5. Once(t, Handed \ s.msg, Room(prod)) /\ s.msg \in SUBSET Id /\ s.msg \subseteq Handed
    BY <2>1, UnpendOnce
  <2> HIDE DEF t
  <2>6. script.msg \in SUBSET Id /\ script.msg \intersect (Handed \ s.msg) = {}
    BY <2>2, <2>5
  <2>7. Once([t EXCEPT !.lost = @ \union script.msg], (Handed \ s.msg) \union script.msg, Room(prod))
    BY <2>5, <2>6, LoseOnce
  <2>8. (Handed \ s.msg) \union script.msg = Handed
    BY <2>2, <2>5
  <2>9. Once(script', Handed, Room(prod))
    BY <2>4, <2>7, <2>8
  <2>10. Once(script', Handed, Room(prod'))
    BY <1>6, <2>9, OnceGrows
  <2> QED BY <1>0, <1>4, <1>5, <2>10, ClearsInv
<1>8. CASE ~silent
  <2>1. Once(script, Handed, Room(prod))
    BY <1>8, NoBuffers, InPlace
  <2>2. script' = A!FlushMessage(script)
    BY <1>3, <1>8
  <2>3. Once(script', Handed, Room(prod))
    BY <1>6, <2>1, <2>2, FlushOnce
  <2>4. Once(script', Handed, Room(prod'))
    BY <1>6, <2>3, OnceGrows
  <2> QED BY <1>0, <1>4, <1>5, <2>4, ClearsInv
<1> QED BY <1>7, <1>8

LEMMA DrainInv == ASSUME AInv, A!Drain PROVE AInv'
<1>0. UNCHANGED <<eng, late, next>> /\ prod.phase = "drain"
  BY DEF A!Drain
<1>1. ASSUME NEW to \in {"terminal", "over"}, prod' = [prod EXCEPT !.phase = to]
      PROVE  ProducerTypes(prod') /\ Keeps(prod, prod')
  BY <1>0, <1>1, AsWas, PhaseType
<1>2. CASE UNCHANGED script
  <2>1. \E to \in {"terminal", "over"} : prod' = [prod EXCEPT !.phase = to]
    BY DEF A!Drain
  <2> QED BY <1>0, <1>1, <1>2, <2>1, AsWas, KeepsInv
<1>3. CASE ~UNCHANGED script
  <2> DEFINE done == [kind |-> "completed", ids |-> {}]
  <2>1. /\ prod' = [prod EXCEPT !.phase = "over"]
        /\ script' = [script EXCEPT !.queue = Append(@, done)]
    BY <1>3 DEF A!Drain
  <2>2. ProducerTypes(prod') /\ Keeps(prod, prod')
    BY <1>1, <2>1
  <2>3. done \in Turned /\ done.ids = {}
    BY DEF Turned
  <2>4. Room(prod) = MaxPending + 1 /\ Room(prod') = MaxPending + 2
    <3>1. prod'.phase = "over"
      BY <2>1, AsWas DEF Producers
    <3> QED BY <1>0, <3>1 DEF Room
  <2>5. Once(script, Handed \ Buffered, Room(prod))
    BY InPlace
  <2>6. Len(script.queue) + 1 <= Room(prod') /\ Room(prod) \in Nat /\ Room(prod') \in Nat
    <3>1. Len(script.queue) \in Nat /\ Len(script.queue) <= Room(prod)
      BY <2>5 DEF Once, Scripts
    <3> QED BY <2>4, <3>1, Limits
  <2> HIDE DEF done
  <2>7. done.ids \intersect (Handed \ Buffered) = {}
    BY <2>3
  <2>8. Once([script EXCEPT !.queue = Append(@, done)], (Handed \ Buffered) \union done.ids, Room(prod'))
    BY <2>3, <2>5, <2>6, <2>7, EnqueueOnce
  <2>9. (Handed \ Buffered) \union done.ids = Handed \ Buffered
    BY <2>3
  <2>10. Buffered' = Buffered /\ Handed' = Handed /\ Buffers' /\ TranscriptTypes'
    BY <1>0, <2>2 DEF Keeps, AInv, Buffered, Handed, Buffers, TranscriptTypes
  <2> QED BY <2>1, <2>8, <2>9, <2>10 DEF AInv
<1> QED BY <1>2, <1>3

LEMMA DiscardInv == ASSUME AInv, A!Discard PROVE AInv'
<1> DEFINE gen == prod.gen + 1
<1>0. UNCHANGED <<eng, late, next>> /\ prod.phase = "run" /\ <<>> \in Seq(Updates) /\ gen \in Nat
  BY AsWas DEF A!Discard, A!Running, Producers
<1>1. /\ prod' = [prod EXCEPT !.finalized = TRUE, !.phase = "over", !.gen = gen,
                              !.creating = 0, !.buffer = <<>>, !.plan = <<>>]
      /\ script' = A!FlushMessage(A!LoseBuffers(script))
  BY DEF A!Discard
<1> HIDE DEF gen
<1>2. /\ prod' \in Producers /\ prod'.creating = 0 /\ prod'.tries = prod.tries
      /\ prod'.buffer = <<>> /\ prod'.plan = <<>> /\ prod'.phase = "over"
  BY <1>0, <1>1, AsWas DEF Producers
<1>3. ProducerTypes(prod')
  BY <1>2, AsWas, ClosedType
<1>4. Room(prod) <= Room(prod') /\ Room(prod) \in Nat /\ Room(prod') \in Nat
      /\ MaxPending + 1 <= Room(prod)
  BY <1>0, <1>2, RoomIsNat, Limits DEF Room
<1>5. Once(A!FlushMessage(A!LoseBuffers(script)), Handed, Room(prod))
  BY <1>4, BuffersLost, FlushOnce
<1>6. Once(script', Handed, Room(prod'))
  BY <1>1, <1>4, <1>5, OnceGrows
<1> QED BY <1>0, <1>2, <1>3, <1>6, ClearsInv

LEMMA AStepInv == ASSUME AInv, A!ANext \/ UNCHANGED avars PROVE AInv'
<1>1. CASE UNCHANGED avars
  BY <1>1, AsWas, EngineInv DEF avars
<1>2. CASE \E c \in calls : A!EngineCreate(c) \/ A!CreateReturns(c)
  BY <1>2, EngineCreateInv, CreateReturnsInv
<1> QED BY <1>1, <1>2, CreatesInv, RetireCreateInv, IngestInv, AppendNextInv, LandLateInv,
       CompleteInv, SealInv, DrainInv, TerminateInv, DiscardInv DEF A!ANext

(* The seven places of Accounts.                                            *)
LEMMA SevenPlaces ==
  ASSUME NEW a, NEW b, NEW c, NEW d, NEW e, NEW f, NEW g
  PROVE  LET all == <<a, b, c, d, e, f, g>>
         IN /\ UNION A!ToSet(all) = a \union b \union c \union d \union e \union f \union g
            /\ DOMAIN all = 1..7
            /\ all[1] = a /\ all[2] = b /\ all[3] = c /\ all[4] = d
            /\ all[5] = e /\ all[6] = f /\ all[7] = g
<1> DEFINE all == <<a, b, c, d, e, f, g>>
<1>1. /\ DOMAIN all = {1, 2, 3, 4, 5, 6, 7} /\ DOMAIN all = 1..7
      /\ all[1] = a /\ all[2] = b /\ all[3] = c /\ all[4] = d
      /\ all[5] = e /\ all[6] = f /\ all[7] = g
  OBVIOUS
<1> HIDE DEF all
<1>2. A!ToSet(all) = {a, b, c, d, e, f, g}
  BY <1>1 DEF A!ToSet
<1>3. UNION A!ToSet(all) = a \union b \union c \union d \union e \union f \union g
  BY <1>2
<1> QED BY <1>1, <1>3 DEF all

LEMMA ConservationHolds == AInv => Conservation
<1> SUFFICES ASSUME AInv PROVE A!Conservation
  BY DEF Conservation
<1> DEFINE q == UNION {t.ids : t \in A!ToSet(script.queue)}
           B == A!Ids(prod.buffer)
           P == A!Ids(prod.plan)
<1>1. q = Queued(script.queue)
  BY DEF A!ToSet, Queued
<1>2. A!Accounts = <<script.msg, q, B, P, script.appended, script.lost, script.repeated>>
  BY DEF A!Accounts
<1>3. /\ B \intersect P = {} /\ Buffered = B \union P /\ Buffered \subseteq Handed
      /\ Once(script, Handed \ Buffered, Room(prod))
  BY InPlace DEF Buffered
<1>4. /\ Apart(script.msg, q, script.appended, script.lost, script.repeated)
      /\ Handed \ Buffered = script.msg \union q \union script.appended \union script.lost \union script.repeated
  BY <1>1, <1>3 DEF Once
<1> HIDE DEF q, B, P
<1>5. UNION A!ToSet(A!Accounts) = Handed
  BY <1>2, <1>3, <1>4, SevenPlaces
<1>6. ASSUME NEW i \in DOMAIN A!Accounts, NEW j \in DOMAIN A!Accounts, i # j
      PROVE  A!Accounts[i] \intersect A!Accounts[j] = {}
  BY <1>2, <1>3, <1>4, <1>6, SevenPlaces DEF Apart
<1> QED BY <1>5, <1>6 DEF A!Conservation, Handed

LEMMA TranscriptTypesHold == AInv => A!ATypeOK
<1> SUFFICES ASSUME AInv PROVE A!ATypeOK
  OBVIOUS
<1>1. ProducerTypes(prod) /\ eng \in Engines /\ late \subseteq Turned /\ next \in 1..(MaxUpdates + 1)
  BY DEF AInv, TranscriptTypes
<1>2. /\ prod.phase \in {"new", "run", "await", "final", "seal", "drain", "terminal", "over"}
      /\ prod.creating \in {0, prod.gen} /\ prod.gen \in Nat /\ prod.tries \in 0..TerminalMax
      /\ Len(prod.buffer) <= BufferMax /\ Len(prod.plan) <= 1
  BY <1>1, Limits DEF ProducerTypes, Producers
<1>3. /\ script.recorded \in SUBSET Plan /\ script.inFlight \in SUBSET Plan
      /\ script.queue \in Seq(Turned)
  BY AsWas, ScriptFields
<1>4. \A t \in Past : A!IsTurn(t)
  BY DEF Past, Turned, Id, A!IsTurn, A!Turns
<1>5. \A t \in A!ToSet(script.queue) \union A!ToSet(eng.history) \union late : t \in Past
  <2>1. eng.history \in Seq(Past)
    BY <1>1 DEF Engines
  <2>2. \A t \in A!ToSet(script.queue) : t \in Turned
    BY <1>3 DEF A!ToSet
  <2>3. \A t \in A!ToSet(eng.history) : t \in Past
    BY <2>1 DEF A!ToSet
  <2> QED BY <1>1, <2>2, <2>3 DEF Past
<1>6. Len(script.queue) <= MaxPending + 2
  <2>1. Len(script.queue) \in Nat /\ Len(script.queue) <= Room(prod)
    BY <1>3 DEF AInv, Once
  <2> QED BY <2>1, RoomIsNat, Limits
<1> QED BY <1>1, <1>2, <1>3, <1>4, <1>5, <1>6 DEF A!ATypeOK

-----------------------------------------------------------------------------
(* The composition takes no step that the parts do not.                     *)

LEMMA HostSteps ==
  ASSUME [HostNext]_hostVars
  PROVE  /\ [Next]_vars /\ [K!KNext]_kvars /\ [H!HNext]_hvars
         /\ A!ANext \/ UNCHANGED avars
<1>1. CASE PresenceStep
  <2>1. Next
    BY <1>1 DEF PresenceStep, Next
  <2> QED BY <1>1, <2>1 DEF PresenceStep, InPresence
<1>2. CASE TokenStep
  <2>1. K!KNext
    BY <1>2 DEF TokenStep, K!KNext
  <2> QED BY <1>2, <2>1 DEF TokenStep, InToken
<1>3. CASE TranscriptStep
  <2>1. A!ANext
    BY <1>3 DEF TranscriptStep, A!ANext
  <2> QED BY <1>3, <2>1 DEF TranscriptStep, InTranscript
<1>4. CASE HubStep
  <2>1. H!HNext
    BY <1>4 DEF HubStep, H!HNext
  <2> QED BY <1>4, <2>1 DEF HubStep, InHub
<1>5. CASE UNCHANGED hostVars
  BY <1>5 DEF hostVars
<1> QED BY <1>1, <1>2, <1>3, <1>4, <1>5 DEF HostNext

LEMMA PresenceInv == HostSpec => []IInv
<1>1. HostInit => IInv
  BY InitIInv DEF HostInit
<1>2. IInv /\ [HostNext]_hostVars => IInv'
  BY HostSteps, NextIInv
<1> QED BY <1>1, <1>2, PTL DEF HostSpec

LEMMA TokenInv == HostSpec => []KInv
<1>1. HostInit => KInv
  BY KInitInv DEF HostInit
<1>2. KInv /\ [HostNext]_hostVars => KInv'
  BY HostSteps, KStep
<1> QED BY <1>1, <1>2, PTL DEF HostSpec

LEMMA HubInv == HostSpec => []HubTypes
<1>1. HostInit => HubTypes
  BY HubTypesInit DEF HostInit
<1>2. HubTypes /\ [HostNext]_hostVars => HubTypes'
  BY HostSteps, HStepTypes
<1> QED BY <1>1, <1>2, PTL DEF HostSpec

LEMMA TranscriptInv == HostSpec => []AInv
<1>1. HostInit => AInv
  BY AInitInv DEF HostInit
<1>2. AInv /\ [HostNext]_hostVars => AInv'
  BY HostSteps, AStepInv
<1> QED BY <1>1, <1>2, PTL DEF HostSpec

(* The same of the host: no claim outlives its run (withOwnedJob).          *)
THEOREM HostClaimsAreTrue == HostSpec => []ClaimsAreRuns
<1>1. IInv => ClaimsAreRuns
  BY DEF IInv, ViewsAgree, RegistryClaims, ClaimsAreRuns
<1> QED BY <1>1, PresenceInv, PTL

(* Whichever part goes on, the state of each stays within its types: in     *)
(* particular the transcript's queue and buffers within their limits.       *)
THEOREM HostTypesHold == HostSpec => []HostTypes
<1>1. IInv /\ AInv /\ KInv /\ HubTypes => HostTypes
  BY TranscriptTypesHold, TokenTypes, HubTypesHold DEF IInv, HostTypes
<1> QED BY <1>1, PresenceInv, TranscriptInv, TokenInv, HubInv, PTL

(* The producer of an AgentInstance neither forgets an update nor sends it  *)
(* twice: through the buffers before the key and their replay, the caps,    *)
(* the append chain with its timeouts, the seal and the discard.            *)
THEOREM UpdatesAreConserved == HostSpec => []Conservation
<1>1. AInv => Conservation
  BY ConservationHolds
<1> QED BY <1>1, TranscriptInv, PTL

(* refreshGhAuthTokenAsync never puts back a credential older than one that *)
(* a recovery read meanwhile, whatever timer, reloads and jobs do.          *)
THEOREM TokensOnlyAdvance == HostSpec => NoResurrection
<1>1. KInv /\ [HostNext]_hostVars => [cache'.ver >= cache.ver]_kvars
  BY HostSteps, KStep
<1>3. KInv /\ [HostNext]_hostVars => [cache'.ver >= cache.ver]_K!kvars
  BY <1>1 DEF K!kvars, kvars
<1> QED BY <1>3, TokenInv, PTL DEF HostSpec, NoResurrection, K!NoResurrection
=============================================================================
