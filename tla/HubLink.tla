------------------------------ MODULE HubLink ------------------------------
(***************************************************************************)
(* How a worker finds the agentic hub and stays connected to it: discovery *)
(* (discoverAgenticHubs and resolveAgenticTarget in c8ctl-plugin.js), the  *)
(* connect factory with its memo (createRawEmitConnect in                  *)
(* agentic-endpoint.mjs) and the supervised connection that calls it       *)
(* (superviseAgentic).  A hub is one of the apps that the engine lists; it *)
(* may come up late, go, or come back at another place.                    *)
(***************************************************************************)
EXTENDS Naturals, FiniteSets

CONSTANTS Place, NoPlace, MaxChanges   \* MaxChanges bounds what happens to hubs, engine and probes

PlaceAssumption == NoPlace \notin Place /\ MaxChanges \in Nat

VARIABLES world,    \* where hubs listen, whether the engine answers, what changed so far
          worker,   \* what the start resolved: off, static, heal, or exited
          found,    \* the memo of the factory, the discovery cache, a refresh in flight
          client    \* the emit client, if one was built, and where it connects
hvars == <<world, worker, found, client>>

NoClient == [pc |-> "none", at |-> NoPlace]

HInit == /\ world \in [hubs : SUBSET Place, listed : BOOLEAN, changes : {0}]
         /\ worker \in [pc : {"start"}, explicit : Place \union {NoPlace}]
         /\ found = [memo |-> NoPlace, cache |-> NoPlace, refresh |-> "idle"]
         /\ client = NoClient

(* The environment.  The socket of a hub that goes is closed with it.       *)
Change == /\ world.changes < MaxChanges
          /\ \E hubs \in SUBSET Place, listed \in BOOLEAN :
               /\ <<hubs, listed>> # <<world.hubs, world.listed>>
               /\ world' = [hubs |-> hubs, listed |-> listed, changes |-> world.changes + 1]
               /\ client' = IF client.pc = "open" /\ client.at \notin hubs
                            THEN [client EXCEPT !.pc = "retry"] ELSE client
          /\ UNCHANGED <<worker, found>>

-----------------------------------------------------------------------------
(* The engine lists the apps and each is probed; a probe may time out,      *)
(* which counts as a change.                                                *)
Listed == IF world.listed THEN world.hubs ELSE {}
Answer(hubs) == hubs \subseteq Listed /\ (hubs # Listed => world.changes < MaxChanges)
DiscoverHubs(hubs) ==
  /\ Answer(hubs)
  /\ world' = IF hubs = Listed THEN world ELSE [world EXCEPT !.changes = @ + 1]

(* One hub is the target and is remembered; none falls back on what is      *)
(* remembered; between several the worker does not guess.                   *)
Sole(hubs) == CHOOSE p \in hubs : TRUE
Target(hubs) ==
  IF Cardinality(hubs) = 1 THEN [status |-> "connect", at |-> Sole(hubs), cache |-> Sole(hubs)]
  ELSE [status |-> IF hubs # {} THEN "ambiguous" ELSE IF found.cache # NoPlace THEN "connect" ELSE "advisory",
        at |-> IF hubs = {} THEN found.cache ELSE NoPlace, cache |-> found.cache]

(* The start of the worker.  What it discovers then is a fixed address; a   *)
(* worker that discovers nothing gets a factory that keeps looking.         *)
Start ==
  /\ worker.pc = "start"
  /\ \E hubs \in SUBSET Place :
       /\ IF worker.explicit = NoPlace THEN DiscoverHubs(hubs) ELSE hubs = {} /\ UNCHANGED world
       /\ LET target == IF worker.explicit = NoPlace THEN Target(hubs)
                        ELSE [status |-> "connect", at |-> worker.explicit, cache |-> NoPlace]
          IN /\ worker' = [worker EXCEPT !.pc = CASE target.status = "connect" -> "static"
                                                  [] target.status = "advisory" -> "heal"
                                                  [] OTHER -> "exited"]
             /\ found' = [found EXCEPT !.memo = target.at, !.cache = target.cache]
  /\ UNCHANGED client

(* One attempt of superviseAgentic: the factory kicks a refresh of its memo *)
(* and builds a client for the memo it has, or throws without one.          *)
Connect ==
  /\ worker.pc \in {"static", "heal"} /\ client = NoClient
  /\ client' = IF found.memo = NoPlace THEN NoClient ELSE [pc |-> "retry", at |-> found.memo]
  /\ found' = IF worker.pc = "heal" THEN [found EXCEPT !.refresh = "asked"] ELSE found
  /\ UNCHANGED <<world, worker>>

\* Mutated form: what was found is not remembered.
RefreshKeepingMemo ==
  /\ found.refresh = "asked"
  /\ \E hubs \in SUBSET Place :
       DiscoverHubs(hubs) /\ found' = [found EXCEPT !.cache = Target(hubs).cache, !.refresh = "idle"]
  /\ UNCHANGED <<worker, client>>

Refresh ==
  /\ found.refresh = "asked"
  /\ \E hubs \in SUBSET Place :
       /\ DiscoverHubs(hubs)
       /\ LET target == Target(hubs)
          IN found' = [memo |-> IF target.status = "connect" THEN target.at ELSE found.memo,
                       cache |-> target.cache, refresh |-> "idle"]
  /\ UNCHANGED <<worker, client>>

(* The emit client owns the reconnect to its one address; only a close of   *)
(* its own ends it, and with it the wait of superviseAgentic.               *)
SocketOpens == /\ client.pc = "retry" /\ client.at \in world.hubs
               /\ client' = [client EXCEPT !.pc = "open"] /\ UNCHANGED <<world, worker, found>>
SocketDrops == /\ client.pc = "open" /\ world.changes < MaxChanges
               /\ world' = [world EXCEPT !.changes = @ + 1]
               /\ client' = [client EXCEPT !.pc = "retry"] /\ UNCHANGED <<worker, found>>

(* The status in the marker follows the connection observer.                *)
Stop == /\ worker.pc \in {"static", "heal"} /\ world.changes < MaxChanges
        /\ worker' = [worker EXCEPT !.pc = "exited"]
        /\ client' = NoClient /\ UNCHANGED <<world, found>>

HNext == Change \/ Start \/ Connect \/ Refresh \/ SocketOpens \/ SocketDrops \/ Stop
HFairness == WF_hvars(Start) /\ WF_hvars(Connect) /\ WF_hvars(Refresh) /\ WF_hvars(SocketOpens)
HSpec == HInit /\ [][HNext]_hvars /\ HFairness

-----------------------------------------------------------------------------
HTypeOK ==
  /\ world.hubs \subseteq Place /\ world.changes \in 0..MaxChanges
  /\ worker.pc \in {"start", "static", "heal", "exited"}
  /\ {found.memo, found.cache, client.at} \subseteq Place \union {NoPlace}
  /\ client.pc \in {"none", "retry", "open"} /\ found.refresh \in {"idle", "asked"}

Settled(p) == world.hubs = {p} /\ world.listed /\ worker.pc = "heal"

(* A worker that started before its hub finds it without a restart, however *)
(* often discovery missed, and however often this hub and others come and   *)
(* go: "an advisory-at-startup worker upgrades to connected without a       *)
(* restart when the hub reappears".  The one way it does not: a client was  *)
(* built for another place, and as the client owns its reconnect and never  *)
(* asks for what Refresh found since, it tries the old address for ever,    *)
(* although the factory says that a moved hub heals in the same way.        *)
ColdStartHeals ==
  \A p \in Place : <>[]Settled(p) =>
    <>[](client.pc = "open") \/ <>[](client.pc = "retry" /\ client.at # p)

=============================================================================
