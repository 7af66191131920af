--------------------------- MODULE MCHostServices ---------------------------
(***************************************************************************)
(* What goes on in a worker host beside its jobs: the presence of the      *)
(* worker on the hub (AgenticPresence, whose variables these are), the     *)
(* search for that hub, the gh token, and the durable transcript of a job. *)
(* They share no state, so one run checks them side by side: in a          *)
(* behaviour one of them goes on and the others stay in an initial state.  *)
(***************************************************************************)
EXTENDS AgenticPresence

CONSTANTS MaxUpdates, Plan, MaxCreates, MaxInFlight, BufferMax, MaxPending, MaxChunks, TerminalMax,
          MaxRotations, MaxTrouble, Place, NoPlace, MaxChanges
VARIABLES part, prod, script, calls, late, eng, next,
          cred, cache, refresh, waiting, reload, holds, trouble,
          world, worker, found, client

A == INSTANCE AgentInstance
K == INSTANCE GhToken
H == INSTANCE HubLink

ASSUME HostAssumption ==
  A!LimitAssumption /\ K!RotationAssumption /\ H!PlaceAssumption

avars == <<prod, script, calls, late, eng, next>>
kvars == <<cred, cache, refresh, waiting, reload, holds, trouble>>
hvars == <<world, worker, found, client>>
hostVars == <<part, vars, avars, kvars, hvars>>

Part == {"presence", "transcript", "token", "hub"}
HostInit ==
  /\ part \in Part
  /\ Init /\ A!AInit /\ K!KInit /\ H!HInit
  /\ part # "transcript" => ~eng.made
  /\ part # "token" => ~cred.out /\ cache.ver = cred.ver /\ cache.scopes
  /\ part # "hub" => world.hubs = {} /\ world.listed /\ worker.explicit = NoPlace

InPresence == part = "presence" /\ UNCHANGED <<part, avars, kvars, hvars>>
InTranscript == part = "transcript" /\ UNCHANGED <<part, vars, kvars, hvars>>
InToken == part = "token" /\ UNCHANGED <<part, vars, avars, hvars>>
InHub == part = "hub" /\ UNCHANGED <<part, vars, avars, kvars>>

PresenceStep ==
  \/ InPresence /\ \E w \in Instance : Register(w)
  \/ InPresence /\ \E w \in Instance : Deregister(w)
  \/ InPresence /\ \E w \in Instance, j \in Job : RunBegins(w, j)
  \/ InPresence /\ \E w \in Instance : RunEnds(w)
  \/ InPresence /\ Project
  \/ InPresence /\ Connect
  \/ InPresence /\ SocketOpens
  \/ InPresence /\ SocketDrops
  \/ InPresence /\ Established
  \/ InPresence /\ Stop
TranscriptStep ==
  \/ InTranscript /\ A!Activate
  \/ InTranscript /\ A!RetireCreate
  \/ InTranscript /\ A!Ingest
  \/ InTranscript /\ A!RetryCreate
  \/ InTranscript /\ A!AppendNext
  \/ InTranscript /\ \E c \in calls : A!EngineCreate(c)
  \/ InTranscript /\ \E c \in calls : A!CreateReturns(c)
  \/ InTranscript /\ \E turn \in late : A!LandLate(turn)
  \/ InTranscript /\ A!Complete
  \/ InTranscript /\ A!FinalCreate
  \/ InTranscript /\ A!FinalSettled
  \/ InTranscript /\ A!Seal
  \/ InTranscript /\ A!Drain
  \/ InTranscript /\ A!Terminate
  \/ InTranscript /\ A!Discard
TokenStep ==
  \/ InToken /\ K!Rotate
  \/ InToken /\ K!Age
  \/ InToken /\ K!TimerTick
  \/ InToken /\ K!Signal
  \/ InToken /\ K!ReadAsync
  \/ InToken /\ K!CommitAsync
  \/ InToken /\ \E who \in K!Caller : K!Resume(who)
  \/ InToken /\ K!JobStarts
  \/ InToken /\ K!Recover
  \/ InToken /\ K!JobEnds
HubStep ==
  \/ InHub /\ H!Change
  \/ InHub /\ H!Start
  \/ InHub /\ H!Connect
  \/ InHub /\ H!Refresh
  \/ InHub /\ H!SocketOpens
  \/ InHub /\ H!SocketDrops
  \/ InHub /\ H!Stop

HostNext == PresenceStep \/ TranscriptStep \/ TokenStep \/ HubStep

(* The fairness of LiveSpec, AFairness, KFairness and HFairness.            *)
HostFairness ==
  /\ WF_hostVars(InPresence /\ Project) /\ WF_hostVars(InPresence /\ Established)
  /\ WF_hostVars(InTranscript /\ (A!RetireCreate \/ A!FinalCreate \/ A!FinalSettled
                                  \/ A!Seal \/ A!Drain \/ A!Terminate))
  /\ WF_hostVars(InToken /\ K!Age) /\ WF_hostVars(InToken /\ K!TimerTick)
  /\ WF_hostVars(InToken /\ K!ReadAsync) /\ WF_hostVars(InToken /\ K!CommitAsync)
  /\ \A who \in K!Caller : WF_hostVars(InToken /\ K!Resume(who))
  /\ WF_hostVars(InHub /\ H!Start) /\ WF_hostVars(InHub /\ H!Connect)
  /\ WF_hostVars(InHub /\ H!Refresh) /\ WF_hostVars(InHub /\ H!SocketOpens)
HostSpec == HostInit /\ [][HostNext]_hostVars /\ HostFairness

-----------------------------------------------------------------------------
(* The properties of the parts, stated and explained in their modules.      *)

(* Whichever part goes on, the state of each keeps its types.               *)
HostTypes == TypeOK /\ A!ATypeOK /\ K!KTypeOK /\ H!HTypeOK

(* AgentInstance: no update of an agent is forgotten or sent twice, and the *)
(* job is handed back.                                                      *)
Conservation == A!Conservation
HandsBack == A!HandsBack
(* GhToken: no older credential comes back; a rotation is seen.             *)
NoResurrection == K!NoResurrection
RotationIsSeen == K!RotationIsSeen
(* HubLink: a worker that started before its hub finds it.                  *)
ColdStartHeals == H!ColdStartHeals
=============================================================================
