--------------------------- MODULE AgenticPresence ---------------------------
(***************************************************************************)
(* How a worker process shows itself and its running jobs on the agentic   *)
(* hub: the ownership registry (supervisor/src/ownership.ts), the presence *)
(* projection that registers and heartbeats what the registry holds        *)
(* (presence.ts), the supervised connection (agentic.ts, emit.ts) and the  *)
(* emit client behind agentic-endpoint.mjs, which keeps a shadow of what   *)
(* was sent and replays it on every socket it opens.                       *)
(*                                                                         *)
(* The hub shows what was sent over the current socket and forgets it when *)
(* the socket drops.  A projection pass has no asynchronous step, so its   *)
(* fiber is not preempted between its read and its frames.                 *)
(***************************************************************************)
EXTENDS Naturals, FiniteSets

CONSTANTS
    Instance,      \* worker instances multiplexed over the one connection
    Job,
    NoJob

ASSUME PresenceAssumption == NoJob \notin Job

VARIABLES
    owned,      \* ownership registry: the instances
    claims,     \* ownership registry: the jobs of each
    running,    \* the job whose agent an instance runs
    known,      \* presenceKnownRef: instances already announced
    conn,       \* the emit client and its socket
    handle,     \* handleRef holds a handle
    shadow,     \* what the emit client replays: instances and claims
    hub         \* what the hub shows: instances and claims

registryVars == <<owned, claims, running>>
vars == <<registryVars, known, conn, handle, shadow, hub>>

Claim   == Instance \X Job
View    == [shown : SUBSET Instance, claimed : SUBSET Claim]
Nothing == [shown |-> {}, claimed |-> {}]

\* The type invariant.
TypeOK ==
    /\ owned \subseteq Instance
    /\ claims \subseteq Claim
    /\ running \in [Instance -> Job \cup {NoJob}]
    /\ known \subseteq Instance
    /\ conn \in {"none", "opening", "up", "down", "closed"}
    /\ handle \in BOOLEAN
    /\ shadow \in View /\ hub \in View

-----------------------------------------------------------------------------
(* Frames. *)

\* Frames emitted through the handle turn the shadow into s and what the hub
\* shows into h: dropped without a handle, sent only while the socket is up.
Emit(s, h) ==
    /\ shadow' = IF handle THEN s ELSE shadow
    /\ hub' = IF handle /\ conn = "up" THEN h ELSE hub

Claimed(v, w, j)  == [v EXCEPT !.claimed = @ \cup {<<w, j>>}]
Released(v, w, j) == [v EXCEPT !.claimed = @ \ {<<w, j>>}]
Drop(v, W) == [shown |-> v.shown \ W, claimed |-> { c \in v.claimed : c[1] \notin W }]

\* The frames of one pass that knew the instances before: register what
\* appeared, heartbeat what stays (nothing at the hub), deregister what left.
Projected(v, before) ==
    [Drop(v, before \ owned) EXCEPT !.shown = @ \cup (owned \ before)]

-----------------------------------------------------------------------------
Init ==
    /\ owned = {} /\ claims = {}
    /\ running = [w \in Instance |-> NoJob]
    /\ known = {}
    /\ conn = "none" /\ handle = FALSE
    /\ shadow = Nothing /\ hub = Nothing

Serving == conn # "closed"

(* The worker. *)

\* seedPresence; another instance may join later.
Register(w) ==
    /\ Serving /\ w \notin owned
    /\ owned' = owned \cup {w}
    /\ UNCHANGED <<claims, running, known, conn, handle, shadow, hub>>

\* An idle instance leaves the registry (its deregister); the projection notices.
Deregister(w) ==
    /\ Serving /\ w \in owned /\ running[w] = NoJob
    /\ owned' = owned \ {w}
    /\ claims' = { c \in claims : c[1] # w }
    /\ UNCHANGED <<running, known, conn, handle, shadow, hub>>

\* withOwnedJob: the claim comes before the run (and registers the instance).
RunBegins(w, j) ==
    /\ Serving /\ running[w] = NoJob
    /\ running' = [running EXCEPT ![w] = j]
    /\ owned' = owned \cup {w}
    /\ claims' = claims \cup {<<w, j>>}
    /\ Emit(Claimed(shadow, w, j), Claimed(hub, w, j))
    /\ UNCHANGED <<known, conn, handle>>

\* Mutated form: the release is sent only while the socket is up.
RunEndsUnshadowed(w) ==
    /\ Serving /\ running[w] # NoJob
    /\ running' = [running EXCEPT ![w] = NoJob]
    /\ claims' = claims \ {<<w, running[w]>>}
    /\ Emit(shadow, Released(hub, w, running[w]))
    /\ UNCHANGED <<owned, known, conn, handle>>

\* The release on every exit of the run: success, failure, interruption.
RunEnds(w) ==
    /\ Serving /\ running[w] # NoJob
    /\ running' = [running EXCEPT ![w] = NoJob]
    /\ claims' = claims \ {<<w, running[w]>>}
    /\ Emit(Released(shadow, w, running[w]), Released(hub, w, running[w]))
    /\ UNCHANGED <<owned, known, conn, handle>>

\* A tick of the projection's cadence: the announced set becomes what the
\* registry holds, whether or not the frames went anywhere.
Project ==
    /\ Serving
    /\ Emit(Projected(shadow, known), Projected(hub, known))
    /\ known' = owned
    /\ UNCHANGED <<registryVars, conn, handle>>

(* The connection. *)

\* The hub is discovered and the emit client opens its first socket.
Connect ==
    /\ conn = "none"
    /\ conn' = "opening"
    /\ UNCHANGED <<registryVars, known, handle, shadow, hub>>

\* A socket opens: the client replays its shadow.
SocketOpens ==
    /\ conn \in {"opening", "down"}
    /\ conn' = "up"
    /\ hub' = shadow
    /\ UNCHANGED <<registryVars, known, handle, shadow>>

SocketDrops ==
    /\ conn = "up"
    /\ conn' = "down"
    /\ hub' = Nothing
    /\ UNCHANGED <<registryVars, known, handle, shadow>>

\* Mutated form: the announced set is kept, as before issue #192.
EstablishedKeepingKnown ==
    /\ conn \in {"up", "down"} /\ ~handle
    /\ handle' = TRUE
    /\ known' = owned
    /\ shadow' = Projected(shadow, known)
    /\ hub' = IF conn = "up" THEN Projected(hub, known) ELSE hub
    /\ UNCHANGED <<registryVars, conn>>

\* The first open completed connect: the handle is published, the announced
\* set is forgotten and one pass runs over the live handle.
Established ==
    /\ conn \in {"up", "down"} /\ ~handle
    /\ handle' = TRUE
    /\ known' = owned
    /\ shadow' = Projected(shadow, {})
    /\ hub' = IF conn = "up" THEN Projected(hub, {}) ELSE hub
    /\ UNCHANGED <<registryVars, conn>>

\* The worker stops: its runs end, its instances deregister, the client closes.
Stop ==
    /\ Serving
    /\ conn' = "closed" /\ handle' = FALSE
    /\ owned' = {} /\ claims' = {}
    /\ running' = [w \in Instance |-> NoJob]
    /\ shadow' = Nothing /\ hub' = Nothing
    /\ UNCHANGED known

Next ==
    \/ \E w \in Instance :
          \/ Register(w) \/ Deregister(w) \/ RunEnds(w)
          \/ \E j \in Job : RunBegins(w, j)
    \/ Project
    \/ Connect \/ SocketOpens \/ SocketDrops \/ Established
    \/ Stop

Spec == Init /\ [][Next]_vars

(***************************************************************************)
(* Fairness: the fibers of the runtime are scheduled and the cadence goes  *)
(* on.  Nothing is assumed of sockets, of the hub, or of jobs ending.      *)
(***************************************************************************)
LiveSpec ==
    Spec /\ WF_vars(Project) /\ WF_vars(Established)

-----------------------------------------------------------------------------
(* Properties. *)

\* The hub never shows a job that no agent runs: not after an interrupted run,
\* and not after a reconnect that replays what was claimed before the drop.
ClaimsAreRuns == \A c \in hub.claimed : running[c[1]] = c[2]

\* However the first open and the first tick race (issue #192), an instance
\* that stays registered while a socket stays up is shown.
InstanceIsShown ==
    \A w \in Instance :
        w \in owned /\ conn = "up" ~> w \in hub.shown \/ w \notin owned \/ conn # "up"

=============================================================================
