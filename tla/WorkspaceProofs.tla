-------------------------- MODULE WorkspaceProofs --------------------------
(***************************************************************************)
(* What becomes of the work of an agent on disk: proofs about GitWork (no  *)
(* commit disappears unsaid, none lands on the base) and RunNamespace (no  *)
(* reaper takes a directory in use), as parts of MCJobSteps.               *)
(***************************************************************************)
EXTENDS MCJobSteps, Sequences, TLAPS

-----------------------------------------------------------------------------
(* GitWork.  The types of its records.                                      *)
Refs == UNION {[B -> SUBSET G!Commit] : B \in SUBSET G!Branch}
Plans == [push : BOOLEAN, working : G!MaybeBranch, base : G!MaybeBranch, unsure : BOOLEAN,
          unborn : BOOLEAN, baseline : BOOLEAN]
Clones == [head : G!MaybeBranch, tip : SUBSET G!Commit, refs : Refs, log : SUBSET G!Commit,
           track : Refs]
Reports == [pushed : BOOLEAN, pushFailed : BOOLEAN, scanFailed : BOOLEAN, scanError : BOOLEAN,
            commits : SUBSET G!Commit, strays : SUBSET G!Commit, onBranch : SUBSET G!Commit,
            stranded : SUBSET G!Commit, retried : BOOLEAN, advanced : {"unknown", "yes", "no"},
            pr : BOOLEAN]
Setup == {"clone", "reclone", "checkout", "baseline", "branch"}
Phases == Setup \union {"work", "scan", "decide", "moved", "stale", "push", "verify", "pr",
                        "done", "refused"}
GitTypes == /\ pc \in Phases /\ req \in G!Request /\ plan \in Plans /\ ws \in Clones
            /\ remote \in Refs /\ pub \subseteq G!Commit /\ out \in Reports
            /\ made \in G!Commit /\ faults \in 0..MaxFaults

(* The job is to push, and there is a branch to push.                       *)
Pushes == plan.push /\ plan.working # G!None

(* While the clone is set up the remote has its two branches, or none, and  *)
(* HEAD is where the ref or the base of the request put it.                 *)
SettingUp ==
  pc \in Setup =>
    /\ req.empty => req.ref = G!None /\ req.base = G!None
    /\ made = 0 /\ ~plan.push /\ plan.working = G!None
    /\ remote = [b \in IF req.empty THEN {} ELSE {"main", "dev"} |-> {}]
    /\ pc \notin {"clone", "reclone"} =>
         /\ ws.head = G!Landing
         /\ DOMAIN ws.refs = IF req.empty \/ G!Landing = G!None THEN {} ELSE {G!Landing}

(* The reflog has every commit of the agent, and what the clone knows of    *)
(* the remote, and the remote itself, hold only what was published.         *)
Remembered == 1..made \subseteq ws.log
Published == G!Reach(ws.track) \subseteq pub /\ G!Reach(remote) \subseteq pub

(* HEAD is detached, on a branch, or on the work branch that has no commit. *)
HeadKnown == plan.working # G!None => ws.head \in DOMAIN ws.refs \union {G!None, plan.working}

(* What finalizeGit has in hand between its scans and its last word covers  *)
(* every commit the remote does not have.                                   *)
Covered ==
  /\ pc = "decide" /\ Pushes /\ ~out.scanFailed => out.onBranch = G!OnBranch
       /\ ws.log \subseteq G!Unpushed \union out.strays \union out.onBranch
  /\ pc = "moved" => ~out.scanFailed /\ out.onBranch = G!OnBranch
       /\ ws.log \subseteq G!Unpushed \union out.strays \union out.onBranch
  /\ pc \in {"stale", "push", "verify"} => out.onBranch = G!OnBranch
       /\ ws.log \subseteq G!Unpushed \union out.onBranch
  /\ pc \in {"moved", "stale", "push", "verify"} => Pushes

(* Its last word.                                                           *)
Reported ==
  pc \in {"pr", "done"} /\ Pushes =>
    LET missing == (1..made) \ pub
    IN missing # {} => out.pushFailed /\ (missing \subseteq out.stranded \/ out.scanError)

(* The branch provisioning chose is not the base.                           *)
OwnBranch == /\ Pushes => plan.working # plan.base
                          /\ (plan.working = G!Default => plan.unsure)
             /\ out.pushed => Pushes

GitInv == /\ GitTypes /\ SettingUp /\ Remembered /\ Published /\ HeadKnown /\ Covered
          /\ Reported /\ OwnBranch

LEMMA BoundsAreNat == MaxCommits \in Nat /\ MaxFaults \in Nat
BY JobAssumption DEF G!BoundAssumption

LEMMA RefsType ==
  ASSUME NEW f \in Refs
  PROVE  /\ DOMAIN f \subseteq G!Branch
         /\ \A b \in DOMAIN f : f[b] \subseteq G!Commit
         /\ \A b : G!At(f, b) \subseteq G!Commit /\ G!At(f, b) \subseteq G!Reach(f)
         /\ G!Reach(f) \subseteq G!Commit
BY DEF Refs, G!At, G!Reach

LEMMA PutRefs ==
  ASSUME NEW f \in Refs, NEW b \in G!Branch, NEW tip \in SUBSET G!Commit
  PROVE  /\ G!Put(f, b, tip) \in Refs
         /\ DOMAIN G!Put(f, b, tip) = DOMAIN f \union {b}
         /\ G!Reach(G!Put(f, b, tip)) \subseteq G!Reach(f) \union tip
         /\ G!Put(f, b, tip)[b] = tip
<1> DEFINE g == [x \in DOMAIN f \union {b} |-> IF x = b THEN tip ELSE f[x]]
<1>1. G!Put(f, b, tip) = g
  BY DEF G!Put
<1>2. /\ DOMAIN g = DOMAIN f \union {b} /\ g[b] = tip
      /\ \A x \in DOMAIN g : g[x] = tip \/ (x \in DOMAIN f /\ g[x] = f[x])
  OBVIOUS
<1>3. DOMAIN g \subseteq G!Branch /\ \A x \in DOMAIN g : g[x] \subseteq G!Commit
  BY <1>2, RefsType
<1>4. g \in [DOMAIN g -> SUBSET G!Commit]
  BY <1>3
<1>5. g \in Refs
  BY <1>3, <1>4 DEF Refs
<1>6. G!Reach(g) \subseteq G!Reach(f) \union tip
  BY <1>2 DEF G!Reach
<1> QED BY <1>1, <1>2, <1>5, <1>6

LEMMA NoRefs == DOMAIN <<>> = {} /\ <<>> \in Refs
<1>1. <<>> \in Seq({}) /\ Len(<<>>) = 0
  OBVIOUS
<1>2. DOMAIN <<>> = {}
  BY <1>1
<1>3. <<>> \in [{} -> SUBSET G!Commit]
  BY <1>2
<1> QED BY <1>2, <1>3 DEF Refs

LEMMA GitInitInv == ASSUME G!GInit PROVE GitInv
<1>1. ws.refs = <<>> /\ ws.track = <<>> /\ DOMAIN ws.refs = {} /\ DOMAIN ws.track = {}
  BY NoRefs DEF G!GInit
<1>3. <<>> \in Refs
  BY NoRefs
<1>4. remote \in Refs /\ G!Reach(remote) = {}
  BY DEF G!GInit, Refs, G!Reach, G!Branch
<1>5. GitTypes
  BY <1>3, <1>4, BoundsAreNat
  DEF G!GInit, GitTypes, Phases, Setup, Plans, Clones, Reports, G!NoPlan, G!NoOut, G!Commit,
      G!MaybeBranch
<1>6. Remembered /\ Published
  BY <1>1, <1>4 DEF G!GInit, Remembered, Published, G!Reach
<1> QED BY <1>5, <1>6 DEF GitInv, G!GInit, SettingUp, Setup, HeadKnown, Covered, Reported, OwnBranch,
       Pushes, G!NoPlan, G!NoOut

LEMMA PhasesDiffer == Setup \cap {"work", "scan", "decide", "moved", "stale", "push", "verify", "pr",
                                  "done", "refused"} = {}
BY DEF Setup

(* A git call that fails is counted.                                        *)
LEMMA FaultType == ASSUME faults \in 0..MaxFaults, NEW bad, G!Fault(bad) PROVE faults' \in 0..MaxFaults
BY BoundsAreNat DEF G!Fault

(* A step of provisioning that leaves the clone as it is.                   *)
LEMMA CloneInv == ASSUME GitInv, G!Clone PROVE GitInv'
<1> USE DEF GitInv
<1>1. pc \in {"clone", "reclone"} /\ pc \in Setup /\ UNCHANGED <<req, plan, out, remote, pub, made>>
  BY DEF G!Clone, G!Rest, Setup
<1>2. faults' \in 0..MaxFaults
  BY FaultType DEF G!Clone, GitTypes
<1>3. pc' \in {"reclone", "checkout", "refused"}
  BY DEF G!Clone
<1>4. /\ DOMAIN remote = IF req.empty THEN {} ELSE {"main", "dev"}
      /\ \A b : G!At(remote, b) = {}
      /\ G!Landing \in {"main", "dev", G!None} /\ (req.empty => G!Landing = "main")
  BY <1>1 DEF SettingUp, GitTypes, G!Request, G!Landing, G!Default, G!At, G!None
<1>5. CASE pc' = "checkout"
  <2> DEFINE refs == IF req.empty \/ G!Landing = G!None THEN <<>>
                     ELSE [b \in {G!Landing} |-> G!At(remote, G!Landing)]
  <2>1. ws' = [ws EXCEPT !.track = remote, !.head = G!Landing, !.refs = refs,
                         !.tip = G!At(remote, G!Landing), !.log = G!At(remote, G!Landing)]
    BY <1>5 DEF G!Clone
  <2>2. refs \in Refs /\ DOMAIN refs = IF req.empty \/ G!Landing = G!None THEN {} ELSE {G!Landing}
    <3>1. CASE req.empty \/ G!Landing = G!None
      BY <3>1, NoRefs
    <3>2. CASE ~(req.empty \/ G!Landing = G!None)
      <4>1. refs \in [{G!Landing} -> SUBSET G!Commit] /\ {G!Landing} \subseteq G!Branch
        BY <1>4, <3>2 DEF G!Branch
      <4> QED BY <4>1, <3>2 DEF Refs
    <3> QED BY <3>1, <3>2
  <2>3. /\ ws' \in Clones /\ ws'.head = G!Landing /\ ws'.refs = refs /\ ws'.track = remote
    BY <2>1, <2>2, <1>4 DEF GitTypes, Clones, G!MaybeBranch, G!Branch
  <2>4. GitTypes'
    BY <1>1, <1>2, <1>5, <2>3 DEF GitTypes, Phases, Setup
  <2>5. SettingUp'
    BY <1>1, <1>5, <2>2, <2>3 DEF SettingUp, G!Landing
  <2>6. Remembered' /\ Published'
    BY <1>1, <2>3 DEF SettingUp, Remembered, Published
  <2> QED BY <1>1, <1>5, <2>4, <2>5, <2>6 DEF SettingUp, HeadKnown, Covered, Reported, OwnBranch, Pushes
<1>6. CASE pc' # "checkout"
  <2>1. UNCHANGED ws /\ pc' \in {"reclone", "refused"}
    BY <1>3, <1>6 DEF G!Clone
  <2>2. GitTypes'
    BY <1>1, <1>2, <2>1 DEF GitTypes, Phases, Setup
  <2> QED BY <1>1, <2>1, <2>2
          DEF SettingUp, Setup, Remembered, Published, HeadKnown, Covered, Reported, OwnBranch, Pushes
<1> QED BY <1>5, <1>6

LEMMA ProvisioningInv == ASSUME GitInv, G!Checkout \/ G!Baseline \/ G!ProvisionFails PROVE GitInv'
<1> USE DEF GitInv
<1>1. /\ pc \in {"checkout", "baseline", "branch"} /\ pc \in Setup
      /\ UNCHANGED <<req, ws, out, remote, pub, made>>
  BY DEF G!Checkout, G!Baseline, G!ProvisionFails, G!Rest, Setup
<1>2. faults' \in 0..MaxFaults
  BY FaultType DEF G!Checkout, G!Baseline, G!ProvisionFails, GitTypes
<1>3. pc' \in {"baseline", "branch", "refused"}
  BY DEF G!Checkout, G!ShaCheckout, G!Baseline, G!ProvisionFails
<1>4. plan' \in Plans /\ plan'.push = plan.push /\ plan'.working = plan.working
  BY DEF G!Checkout, G!Baseline, G!ProvisionFails, GitTypes, Plans
<1>5. GitTypes'
  BY <1>1, <1>2, <1>3, <1>4 DEF GitTypes, Phases, Setup
<1>6. SettingUp'
  BY <1>1, <1>3, <1>4 DEF SettingUp, G!Landing
<1> QED BY <1>1, <1>3, <1>4, <1>5, <1>6
        DEF SettingUp, Remembered, Published, HeadKnown, Covered, Reported, OwnBranch, Pushes

(* Where a clone stands when its branch is chosen.                          *)
LEMMA BranchPoint ==
  ASSUME GitInv, pc = "branch"
  PROVE  /\ req.create \in {G!None, "main", "feat"} /\ req.push \in BOOLEAN /\ req.empty \in BOOLEAN
         /\ G!Configured \in {G!None, "main", "dev"}
         /\ ws.head \in {G!None, "main", "dev"}
         /\ G!CheckedOut = IF req.empty THEN G!None ELSE ws.head
         /\ G!Unborn = IF req.empty THEN "main" ELSE G!None
         /\ G!EffectiveBase \in {G!None, "main", "dev"}
         /\ G!CheckedOut # G!None /\ G!Configured = G!None => G!EffectiveBase = G!CheckedOut
         /\ req.empty /\ G!Configured = G!None => G!EffectiveBase = "main"
         /\ DOMAIN remote = IF req.empty THEN {} ELSE {"main", "dev"}
<1>1. /\ req \in G!Request /\ (req.empty => req.ref = G!None /\ req.base = G!None)
      /\ ws.head = G!Landing
      /\ DOMAIN ws.refs = IF req.empty \/ G!Landing = G!None THEN {} ELSE {G!Landing}
      /\ remote = [b \in IF req.empty THEN {} ELSE {"main", "dev"} |-> {}]
  BY DEF GitInv, GitTypes, SettingUp, Setup
<1>2. /\ req.create \in {G!None, "main", "feat"} /\ req.push \in BOOLEAN /\ req.empty \in BOOLEAN
      /\ req.base \in {G!None, "main"} /\ req.baseRef \in {G!None, "dev"}
      /\ req.ref \in {G!None, "dev", "tag", "sha"}
  BY <1>1 DEF G!Request
<1>3. G!Configured \in {G!None, "main", "dev"}
  BY <1>2 DEF G!Configured
<1>4. G!Landing \in {G!None, "main", "dev"} /\ (req.empty => G!Landing = "main")
  BY <1>1, <1>2 DEF G!Landing, G!Default, G!None
<1>5. G!CheckedOut = IF req.empty THEN G!None ELSE ws.head
  BY <1>1, <1>4 DEF G!CheckedOut
<1>6. G!Unborn = IF req.empty THEN "main" ELSE G!None
  BY <1>1, <1>4 DEF G!Unborn
<1>7. /\ G!EffectiveBase \in {G!None, "main", "dev"}
      /\ G!CheckedOut # G!None /\ G!Configured = G!None => G!EffectiveBase = G!CheckedOut
      /\ req.empty /\ G!Configured = G!None => G!EffectiveBase = "main"
  BY <1>1, <1>3, <1>4, <1>5, <1>6 DEF G!EffectiveBase, G!Default, G!None
<1> QED BY <1>1, <1>2, <1>3, <1>4, <1>5, <1>6, <1>7

(* WorkBranch: on a job that pushes, a branch of its own or none at all.    *)
LEMMA BranchIsOwn ==
  ASSUME GitInv, pc = "branch",
         NEW default \in (IF G!ResolveDefault THEN {G!Default, G!None} ELSE {G!None}),
         NEW probed \in BOOLEAN, (G!ResolveDefault /\ default = G!None) \/ probed
  PROVE  LET w == G!WorkBranch(default, G!Unverified(default, probed))
         IN /\ w \in G!MaybeBranch
            /\ req.push /\ w # G!None =>
                 /\ w # G!EffectiveBase
                 /\ w = G!Default => /\ G!ResolveDefault /\ default = G!None
                                     /\ G!Configured # G!None
<1> DEFINE unverified == G!Unverified(default, probed)
           w == G!WorkBranch(default, unverified)
           names == G!NamesBase(req.create, default, unverified)
           known == G!EffectiveBase # G!None \/ default # G!None
           baseLike == \/ G!NamesBase(G!CheckedOut, default, unverified)
                       \/ G!CheckedOut \in G!Conventional
           unresolved == default = G!None /\ G!CheckedOut # G!EffectiveBase
           takes == known /\ ~baseLike /\ req.create = G!None /\ ~unresolved
<1> USE BranchPoint
<1>1. w = IF req.create # G!None /\ ~(req.push /\ names) THEN req.create
          ELSE IF req.push /\ G!CheckedOut # G!None
          THEN IF takes THEN G!CheckedOut ELSE "fallback"
          ELSE IF req.push /\ (G!Unborn # G!None \/ req.create # G!None) THEN "fallback"
          ELSE IF G!CheckedOut # G!None THEN G!CheckedOut ELSE G!Unborn
  BY DEF G!WorkBranch
<1>2. w \in G!MaybeBranch
  BY <1>1 DEF G!MaybeBranch, G!Branch
<1>3. ASSUME req.push, w # G!None PROVE w # G!EffectiveBase
  <2>1. CASE req.create # G!None /\ ~names
    BY <1>1, <2>1 DEF G!NamesBase
  <2>2. CASE ~(req.create # G!None /\ ~names) /\ G!CheckedOut # G!None /\ takes
    <3>1. w = G!CheckedOut
      BY <1>1, <1>3, <2>2
    <3> QED BY <2>2, <3>1 DEF G!NamesBase
  <2>3. CASE ~(req.create # G!None /\ ~names) /\ ~(G!CheckedOut # G!None /\ takes)
    <3>1. w = "fallback"
      BY <1>1, <1>3, <2>3
    <3> QED BY <3>1 DEF G!None
  <2> QED BY <2>1, <2>2, <2>3
<1>4. ASSUME req.push, w # G!None, w = G!Default
      PROVE  G!ResolveDefault /\ default = G!None /\ G!Configured # G!None
  <2>1. w # "fallback" /\ w = "main" /\ "main" \in G!Conventional
    BY <1>4 DEF G!Default, G!Conventional
  <2>2. req.create # G!None /\ ~names /\ req.create = "main"
    <3>1. CASE ~(req.create # G!None /\ ~names)
      BY <1>1, <1>4, <2>1, <3>1 DEF G!NamesBase
    <3>2. CASE req.create # G!None /\ ~names
      BY <1>1, <2>1, <3>2
    <3> QED BY <3>1, <3>2
  <2>3. req.create # G!EffectiveBase /\ ~(default # G!None /\ req.create = default) /\ ~unverified
    BY <2>2 DEF G!NamesBase
  <2>4. G!ResolveDefault /\ default = G!None
    BY <1>4, <2>2, <2>3 DEF G!ResolveDefault, G!Default
  <2>5. G!Configured # G!None
    <3>1. CASE G!Configured = G!None
      <4>1. "main" \notin DOMAIN remote
        BY <2>2, <2>3, <2>4, <3>1 DEF G!Unverified
      <4> QED BY <2>2, <2>3, <3>1, <4>1
    <3> QED BY <3>1
  <2> QED BY <2>4, <2>5
<1> QED BY <1>2, <1>3, <1>4

LEMMA ChooseBranchInv == ASSUME GitInv, G!ChooseBranch PROVE GitInv'
<1> USE DEF GitInv
<1>1. /\ pc = "branch" /\ pc \in Setup /\ pc' = "work" /\ pc' \notin Setup
      /\ UNCHANGED <<out, remote, pub, made>>
  BY DEF G!ChooseBranch, G!Rest, Setup
<1>2. PICK default \in (IF G!ResolveDefault THEN {G!Default, G!None} ELSE {G!None}),
           probed \in BOOLEAN :
        LET lost == G!ResolveDefault /\ default = G!None
            w == G!WorkBranch(default, G!Unverified(default, probed))
        IN /\ G!Fault(lost) /\ (lost \/ probed)
           /\ plan' = [plan EXCEPT !.working = w, !.push = req.push, !.base = G!EffectiveBase,
                !.unsure = lost /\ G!Configured # G!None /\ w = G!Default, !.unborn = req.empty,
                !.baseline = @ \/ (G!Configured = G!None /\ G!EffectiveBase \in DOMAIN ws.track)]
           /\ ws' = IF w = G!None THEN ws
                    ELSE [ws EXCEPT !.head = w,
                                    !.refs = IF req.empty THEN @ ELSE G!Put(@, w, ws.tip)]
           /\ req' = [req EXCEPT !.push = FALSE, !.create = G!None, !.base = G!None,
                                 !.baseRef = G!None, !.ref = G!None, !.empty = FALSE]
  BY DEF G!ChooseBranch
<1> DEFINE lost == G!ResolveDefault /\ default = G!None
           w == G!WorkBranch(default, G!Unverified(default, probed))
<1>3. /\ w \in G!MaybeBranch
      /\ req.push /\ w # G!None => /\ w # G!EffectiveBase
                                   /\ w = G!Default => lost /\ G!Configured # G!None
  BY <1>1, <1>2, BranchIsOwn
<1>4. faults' \in 0..MaxFaults
  BY <1>2, FaultType DEF GitTypes
<1>5. /\ plan' \in Plans /\ plan'.push = req.push /\ plan'.working = w
      /\ plan'.base = G!EffectiveBase
      /\ plan'.unsure = (lost /\ G!Configured # G!None /\ w = G!Default)
  <2>1. G!EffectiveBase \in G!MaybeBranch /\ req.push \in BOOLEAN /\ req.empty \in BOOLEAN
    BY <1>1, BranchPoint DEF G!MaybeBranch, G!Branch
  <2> QED BY <1>2, <1>3, <2>1 DEF GitTypes, Plans
<1>6. req' \in G!Request
  BY <1>2 DEF GitTypes, G!Request
<1>7. /\ ws' \in Clones /\ ws'.log = ws.log /\ ws'.track = ws.track
      /\ w # G!None => ws'.head = w
  <2>1. CASE w = G!None
    BY <1>2, <2>1 DEF GitTypes
  <2>2. CASE w # G!None
    <3>1. w \in G!Branch /\ ws.refs \in Refs /\ ws.tip \in SUBSET G!Commit
      BY <1>3, <2>2 DEF GitTypes, Clones, G!MaybeBranch
    <3>2. G!Put(ws.refs, w, ws.tip) \in Refs
      BY <3>1, PutRefs
    <3> QED BY <1>2, <2>2, <3>1, <3>2 DEF GitTypes, Clones, G!MaybeBranch
  <2> QED BY <2>1, <2>2
<1>8. GitTypes'
  BY <1>1, <1>4, <1>5, <1>6, <1>7 DEF GitTypes, Phases
<1>9. Remembered' /\ Published'
  BY <1>1, <1>7 DEF Remembered, Published
<1>10. HeadKnown'
  BY <1>5, <1>7 DEF HeadKnown
<1>11. OwnBranch'
  <2>1. ~out'.pushed
    BY <1>1 DEF OwnBranch, SettingUp, Pushes
  <2> QED BY <1>3, <1>5, <2>1 DEF OwnBranch, Pushes
<1> QED BY <1>1, <1>8, <1>9, <1>10, <1>11 DEF SettingUp, Covered, Reported

(* What the agent does to its clone.  HEAD stays on a branch, or nowhere.   *)
LEMMA WorkingInv ==
  ASSUME GitInv, pc = "work", UNCHANGED <<req, plan, out, faults>>, pc' \in {"work", "scan"},
         made' \in G!Commit, remote' \in Refs, pub' \subseteq G!Commit,
         ws' \in Clones, 1..made' \subseteq ws'.log,
         G!Reach(ws'.track) \subseteq pub', G!Reach(remote') \subseteq pub',
         ws'.head \in DOMAIN ws'.refs \union {G!None, ws.head},
         ws.head \in DOMAIN ws.refs /\ ws'.head = ws.head => ws.head \in DOMAIN ws'.refs
  PROVE  GitInv'
<1> USE DEF GitInv
<1>1. GitTypes'
  BY DEF GitTypes, Phases
<1>2. HeadKnown'
  BY DEF HeadKnown
<1>3. OwnBranch'
  BY DEF OwnBranch, Pushes
<1> QED BY <1>1, <1>2, <1>3
        DEF SettingUp, Setup, Remembered, Published, Covered, Reported

LEMMA AgentCommitInv == ASSUME GitInv, G!AgentCommit PROVE GitInv'
<1> DEFINE tip == ws.tip \union {made + 1}
<1>1. /\ pc = "work" /\ made < MaxCommits /\ made' = made + 1
      /\ ws' = [ws EXCEPT !.tip = tip, !.log = @ \union tip,
                          !.refs = IF ws.head = G!None THEN @ ELSE G!Put(@, ws.head, tip)]
      /\ UNCHANGED <<req, pc, plan, remote, pub, out, faults>>
  BY DEF G!AgentCommit
<1>2. made \in 0..MaxCommits /\ ws \in Clones /\ ws.refs \in Refs /\ ws.head \in G!MaybeBranch
  BY DEF GitInv, GitTypes, Clones, G!Commit
<1>3. made' \in G!Commit /\ tip \subseteq G!Commit
  BY <1>1, <1>2, BoundsAreNat DEF Clones, G!Commit
<1>4. ws.head # G!None => /\ G!Put(ws.refs, ws.head, tip) \in Refs
                          /\ DOMAIN G!Put(ws.refs, ws.head, tip) = DOMAIN ws.refs \union {ws.head}
  <2>1. tip \in SUBSET G!Commit /\ (ws.head # G!None => ws.head \in G!Branch)
    BY <1>2, <1>3 DEF G!MaybeBranch
  <2> HIDE DEF tip
  <2> QED BY <1>2, <2>1, PutRefs
<1>5. /\ ws' \in Clones /\ ws'.head = ws.head /\ ws'.track = ws.track
      /\ ws'.log = ws.log \union tip
      /\ DOMAIN ws'.refs = IF ws.head = G!None THEN DOMAIN ws.refs ELSE DOMAIN ws.refs \union {ws.head}
  BY <1>1, <1>2, <1>3, <1>4 DEF Clones
<1>6. 1..made' \subseteq ws'.log
  BY <1>1, <1>2, <1>5 DEF GitInv, Remembered
<1> QED BY <1>1, <1>3, <1>5, <1>6, WorkingInv DEF GitInv, GitTypes, Published

LEMMA AgentSwitchInv == ASSUME GitInv, G!AgentSwitch PROVE GitInv'
<1>1. pc = "work" /\ UNCHANGED <<req, pc, plan, remote, pub, out, made, faults>>
  BY DEF G!AgentSwitch
<1>2. /\ ws \in Clones /\ ws.refs \in Refs /\ ws.head \in G!MaybeBranch
      /\ \A b \in DOMAIN ws.refs : b \in G!Branch /\ ws.refs[b] \in SUBSET G!Commit
      /\ ws.tip \in SUBSET G!Commit
  <2>1. ws \in Clones
    BY DEF GitInv, GitTypes
  <2> QED BY <2>1, RefsType DEF Clones
<1> DEFINE Stays == /\ ws' \in Clones /\ ws.log \subseteq ws'.log /\ ws'.track = ws.track
                    /\ ws'.head \in DOMAIN ws'.refs \union {G!None, ws.head}
                    /\ ws.head \in DOMAIN ws.refs /\ ws'.head = ws.head => ws.head \in DOMAIN ws'.refs
<1>3. ASSUME NEW b \in DOMAIN ws.refs,
             ws' = [ws EXCEPT !.head = b, !.tip = ws.refs[b], !.log = @ \union ws.refs[b]]
      PROVE  Stays
  BY <1>2, <1>3 DEF Clones, G!MaybeBranch
<1>4. ASSUME ws' = [ws EXCEPT !.head = G!None] PROVE Stays
  BY <1>2, <1>4 DEF Clones, G!MaybeBranch
<1>5. ASSUME ws' = [ws EXCEPT !.head = "side", !.refs = G!Put(@, "side", ws.tip)] PROVE Stays
  <2>1. "side" \in G!Branch
    BY DEF G!Branch
  <2>2. /\ G!Put(ws.refs, "side", ws.tip) \in Refs
        /\ DOMAIN G!Put(ws.refs, "side", ws.tip) = DOMAIN ws.refs \union {"side"}
    BY <1>2, <2>1, PutRefs
  <2> QED BY <1>2, <1>5, <2>1, <2>2 DEF Clones, G!MaybeBranch
<1>6. ASSUME ws' = [ws EXCEPT !.tip = {},
                              !.refs = IF ws.head = G!None THEN @ ELSE G!Put(@, ws.head, {})]
      PROVE  Stays
  <2>1. ws.head # G!None => /\ G!Put(ws.refs, ws.head, {}) \in Refs
                            /\ DOMAIN G!Put(ws.refs, ws.head, {}) = DOMAIN ws.refs \union {ws.head}
    <3>1. {} \in SUBSET G!Commit /\ (ws.head # G!None => ws.head \in G!Branch)
      BY <1>2 DEF G!MaybeBranch
    <3> QED BY <1>2, <3>1, PutRefs
  <2> QED BY <1>2, <1>6, <2>1 DEF Clones
<1>7. ASSUME NEW b \in DOMAIN ws.refs \ {ws.head},
             ws' = [ws EXCEPT !.refs = [x \in DOMAIN ws.refs \ {b} |-> ws.refs[x]]]
      PROVE  Stays
  <2> DEFINE left == [x \in DOMAIN ws.refs \ {b} |-> ws.refs[x]]
  <2>1. left \in [DOMAIN ws.refs \ {b} -> SUBSET G!Commit] /\ DOMAIN ws.refs \ {b} \subseteq G!Branch
    BY <1>2
  <2>2. left \in Refs /\ DOMAIN left = DOMAIN ws.refs \ {b}
    BY <2>1 DEF Refs
  <2>3. ws' = [ws EXCEPT !.refs = left]
    BY <1>7
  <2> HIDE DEF left
  <2> QED BY <1>2, <2>2, <2>3 DEF Clones
<1>8. Stays
  BY <1>3, <1>4, <1>5, <1>6, <1>7 DEF G!AgentSwitch
<1> QED BY <1>1, <1>8, WorkingInv DEF GitInv, GitTypes, Remembered, Published

(* A push publishes the whole tip of its branch.                            *)
LEMMA PublishKeeps ==
  ASSUME ws \in Clones, remote \in Refs, pub \subseteq G!Commit,
         G!Reach(ws.track) \subseteq pub, G!Reach(remote) \subseteq pub,
         NEW b \in DOMAIN ws.refs, G!Publish(b)
  PROVE  /\ remote' \in Refs /\ pub' \subseteq G!Commit /\ G!Reach(remote') \subseteq pub'
         /\ pub' = pub \union ws.refs[b]
         /\ G!Put(ws.track, b, ws.refs[b]) \in Refs
         /\ G!Reach(G!Put(ws.track, b, ws.refs[b])) \subseteq pub'
<1>1. b \in G!Branch /\ ws.refs[b] \in SUBSET G!Commit /\ ws.track \in Refs
  <2>1. ws.refs \in Refs /\ ws.track \in Refs
    BY DEF Clones
  <2> QED BY <2>1, RefsType
<1>2. remote' = G!Put(remote, b, ws.refs[b]) /\ pub' = pub \union ws.refs[b]
  BY DEF G!Publish
<1>3. /\ G!Put(remote, b, ws.refs[b]) \in Refs
      /\ G!Reach(G!Put(remote, b, ws.refs[b])) \subseteq G!Reach(remote) \union ws.refs[b]
  BY <1>1, PutRefs
<1>4. /\ G!Put(ws.track, b, ws.refs[b]) \in Refs
      /\ G!Reach(G!Put(ws.track, b, ws.refs[b])) \subseteq G!Reach(ws.track) \union ws.refs[b]
  BY <1>1, PutRefs
<1> QED BY <1>1, <1>2, <1>3, <1>4

LEMMA AgentPushInv == ASSUME GitInv, G!AgentPush PROVE GitInv'
<1>1. pc = "work" /\ UNCHANGED <<req, pc, plan, out, made, faults>>
  BY DEF G!AgentPush
<1>2. PICK b \in DOMAIN ws.refs :
        G!Publish(b) /\ ws' = [ws EXCEPT !.track = G!Put(@, b, ws.refs[b])]
  BY DEF G!AgentPush
<1>3. /\ ws \in Clones /\ remote \in Refs /\ pub \subseteq G!Commit
      /\ G!Reach(ws.track) \subseteq pub /\ G!Reach(remote) \subseteq pub
  BY DEF GitInv, GitTypes, Published
<1>4. /\ remote' \in Refs /\ pub' \subseteq G!Commit /\ G!Reach(remote') \subseteq pub'
      /\ G!Put(ws.track, b, ws.refs[b]) \in Refs
      /\ G!Reach(G!Put(ws.track, b, ws.refs[b])) \subseteq pub'
  BY <1>2, <1>3, PublishKeeps
<1>5. /\ ws' \in Clones /\ ws'.log = ws.log /\ ws'.head = ws.head /\ ws'.refs = ws.refs
      /\ ws'.track = G!Put(ws.track, b, ws.refs[b])
  BY <1>2, <1>3, <1>4 DEF Clones
<1>6. ws'.head \in DOMAIN ws'.refs \union {G!None, ws.head}
  BY <1>5
<1> QED BY <1>1, <1>4, <1>5, <1>6, WorkingInv DEF GitInv, GitTypes, Remembered

LEMMA AgentEndsInv == ASSUME GitInv, G!AgentEnds PROVE GitInv'
<1>1. /\ pc = "work" /\ pc' = "scan"
      /\ UNCHANGED <<req, plan, ws, remote, pub, out, made, faults>>
  BY DEF G!AgentEnds
<1>2. ws'.head \in DOMAIN ws'.refs \union {G!None, ws.head}
  BY <1>1
<1> QED BY <1>1, <1>2, WorkingInv DEF GitInv, GitTypes, Remembered, Published

LEMMA OtherMovesInv == ASSUME GitInv, G!OtherMoves PROVE GitInv'
<1> USE DEF GitInv
<1>1. /\ pc \in {"work", "push", "verify"} /\ UNCHANGED <<req, pc, plan, ws, out, made, faults>>
      /\ pub' = pub \union {0}
  BY DEF G!OtherMoves
<1>2. PICK b \in {plan.working, plan.base} \ {G!None} :
        remote' = G!Put(remote, b, G!At(remote, b) \union {0})
  BY DEF G!OtherMoves
<1>3. b \in G!Branch /\ remote \in Refs /\ 0 \in G!Commit
  BY BoundsAreNat DEF GitTypes, Plans, G!MaybeBranch, G!Commit
<1>4. /\ G!At(remote, b) \union {0} \in SUBSET G!Commit
      /\ G!At(remote, b) \subseteq G!Reach(remote)
  BY <1>3, RefsType
<1>5. /\ remote' \in Refs
      /\ G!Reach(remote') \subseteq G!Reach(remote) \union (G!At(remote, b) \union {0})
  BY <1>2, <1>3, <1>4, PutRefs
<1>6. GitTypes'
  BY <1>1, <1>3, <1>5 DEF GitTypes
<1>7. Published'
  BY <1>1, <1>4, <1>5 DEF Published
<1> QED BY <1>1, <1>6, <1>7
        DEF SettingUp, Setup, Remembered, HeadKnown, Covered, Reported, OwnBranch, Pushes,
            G!OnBranch, G!Unpushed

(* A step of finalizeGit that reads and reports only.                       *)
LEMMA ReadingInv ==
  ASSUME GitInv, pc \notin Setup, pc' \in Phases \ Setup,
         UNCHANGED <<req, plan, ws, remote, pub, made>>, faults' \in 0..MaxFaults,
         out' \in Reports, out'.pushed => out.pushed \/ Pushes, Covered', Reported'
  PROVE  GitInv'
<1> USE DEF GitInv
<1>1. GitTypes'
  BY DEF GitTypes
<1> QED BY <1>1 DEF SettingUp, Remembered, Published, HeadKnown, OwnBranch, Pushes

LEMMA ScanInv == ASSUME GitInv, G!Scan PROVE GitInv'
<1>1. pc = "scan" /\ pc' = "decide" /\ UNCHANGED <<req, plan, ws, remote, pub, made>>
  BY DEF G!Scan, G!Rest
<1>2. PICK bad \in {{}} \union {{s} : s \in {"head", "branches", "reflog", "work"}} :
        /\ G!Fault(bad # {})
        /\ LET Found(s, set) == IF s \in bad \/ (G!Missing /\ s # "head") THEN {} ELSE set
               looks == plan.working # G!None /\ plan.push
           IN out' = [out EXCEPT
                !.scanFailed = bad # {} \/ G!Missing,
                !.commits = Found("head", ws.tip),
                !.strays = IF ~looks THEN {}
                           ELSE Found("branches", (G!Reach(ws.refs) \ G!Unpushed) \ G!OnBranch)
                                \union Found("reflog", (ws.log \ G!Unpushed) \ G!OnBranch),
                !.onBranch = IF G!NoCommitYet THEN {} ELSE Found("work", G!OnBranch)]
  BY DEF G!Scan
<1> DEFINE Found(s, set) == IF s \in bad \/ (G!Missing /\ s # "head") THEN {} ELSE set
           strays == IF ~Pushes THEN {}
                     ELSE Found("branches", (G!Reach(ws.refs) \ G!Unpushed) \ G!OnBranch)
                          \union Found("reflog", (ws.log \ G!Unpushed) \ G!OnBranch)
           onBranch == IF G!NoCommitYet THEN {} ELSE Found("work", G!OnBranch)
<1>3. faults' \in 0..MaxFaults
  BY <1>2, FaultType DEF GitInv, GitTypes
<1>4. /\ ws \in Clones /\ ws.refs \in Refs /\ out \in Reports
      /\ ws.tip \subseteq G!Commit /\ ws.log \subseteq G!Commit
      /\ G!Reach(ws.refs) \subseteq G!Commit /\ G!OnBranch \subseteq G!Commit
  <2>1. ws \in Clones /\ ws.refs \in Refs /\ out \in Reports
    BY DEF GitInv, GitTypes, Clones
  <2> QED BY <2>1, RefsType DEF Clones, G!OnBranch
<1>5. out' = [out EXCEPT !.scanFailed = bad # {} \/ G!Missing, !.commits = Found("head", ws.tip),
                         !.strays = strays, !.onBranch = onBranch]
  BY <1>2 DEF Pushes
<1>6. strays \subseteq G!Commit /\ onBranch \subseteq G!Commit /\ Found("head", ws.tip) \subseteq G!Commit
  BY <1>4
<1>7. /\ out' \in Reports /\ out'.scanFailed = (bad # {} \/ G!Missing)
      /\ out'.strays = strays /\ out'.onBranch = onBranch /\ out'.pushed = out.pushed
  <2>1. (bad # {} \/ G!Missing) \in BOOLEAN
    OBVIOUS
  <2> HIDE DEF Found, strays, onBranch
  <2> QED BY <1>4, <1>5, <1>6, <2>1 DEF Reports
<1>8. ASSUME Pushes, bad = {}, ~G!Missing
      PROVE  onBranch = G!OnBranch /\ ws.log \subseteq G!Unpushed \union strays \union onBranch
  <2>1. G!NoCommitYet => G!OnBranch = {}
    BY <1>8 DEF GitInv, HeadKnown, Pushes, G!NoCommitYet, G!OnBranch, G!At
  <2>2. onBranch = G!OnBranch
    BY <1>8, <2>1
  <2> QED BY <1>8, <2>2
<1>9. Covered'
  BY <1>1, <1>7, <1>8 DEF Covered, Pushes, G!OnBranch, G!Unpushed
<1> QED BY <1>1, <1>3, <1>7, <1>9, ReadingInv DEF Reported, Setup, Phases

LEMMA DecideInv == ASSUME GitInv, G!Decide PROVE GitInv'
<1> DEFINE found == out.commits \union out.strays \union out.onBranch
<1>1. pc = "decide" /\ UNCHANGED <<req, plan, ws, remote, pub, made, faults>>
  BY DEF G!Decide, G!Rest
<1>2. out \in Reports /\ found \subseteq G!Commit /\ faults' \in 0..MaxFaults
  BY <1>1 DEF GitInv, GitTypes, Reports
<1>3. CASE (~Pushes \/ (~out.scanFailed /\ found = {})) /\ pc' = "pr" /\ UNCHANGED out
  <2>1. Reported'
    <3>1. ASSUME Pushes PROVE 1..made \subseteq pub
      BY <1>1, <1>3, <3>1 DEF GitInv, Covered, Remembered, Published, G!Unpushed
    <3> QED BY <1>1, <1>3, <3>1 DEF Reported, Pushes
  <2> QED BY <1>1, <1>2, <1>3, <2>1, ReadingInv DEF Covered, Setup, Phases
<1>4. CASE /\ Pushes /\ out.scanFailed /\ pc' = "pr"
           /\ out' = [out EXCEPT !.pushFailed = TRUE, !.scanError = TRUE, !.stranded = found]
  <2>1. out' \in Reports /\ out'.pushFailed /\ out'.scanError /\ out'.pushed = out.pushed
    <3> HIDE DEF found
    <3> QED BY <1>2, <1>4 DEF Reports
  <2> QED BY <1>1, <1>2, <1>4, <2>1, ReadingInv DEF Covered, Reported, Setup, Phases
<1>5. CASE Pushes /\ ~out.scanFailed /\ pc' = "moved" /\ UNCHANGED out
  <2>1. Covered'
    BY <1>1, <1>5 DEF GitInv, Covered, Pushes, G!OnBranch, G!Unpushed
  <2> QED BY <1>1, <1>2, <1>5, <2>1, ReadingInv DEF Reported, Setup, Phases
<1> QED BY <1>3, <1>4, <1>5 DEF G!Decide, Pushes

LEMMA RefuseStraysInv == ASSUME GitInv, G!RefuseStrays PROVE GitInv'
<1>1. pc = "moved" /\ UNCHANGED <<req, plan, ws, remote, pub, made>>
  BY DEF G!RefuseStrays, G!Rest
<1>2. PICK lostHead \in BOOLEAN, lostScan \in BOOLEAN :
        LET movedOff == lostHead \/ ws.head # plan.working
            moved == CASE ~movedOff -> {}
                       [] movedOff /\ lostScan -> out.commits \ out.onBranch
                       [] OTHER -> (ws.tip \ G!Unpushed) \ G!OnBranch
            strays == moved \union out.strays
        IN /\ G!Fault(lostHead \/ lostScan)
           /\ IF strays = {}
              THEN /\ pc' = "stale"
                   /\ out' = [out EXCEPT !.scanFailed = lostScan /\ movedOff, !.commits = out.onBranch]
              ELSE /\ pc' = "pr"
                   /\ out' = [out EXCEPT !.pushFailed = TRUE, !.scanError = lostScan,
                        !.stranded = strays \union
                           (IF lostScan THEN out.onBranch ELSE out.onBranch \ G!Unpushed)]
  BY DEF G!RefuseStrays
<1> DEFINE movedOff == lostHead \/ ws.head # plan.working
           moved == CASE ~movedOff -> {}
                      [] movedOff /\ lostScan -> out.commits \ out.onBranch
                      [] OTHER -> (ws.tip \ G!Unpushed) \ G!OnBranch
           strays == moved \union out.strays
           left == strays \union (IF lostScan THEN out.onBranch ELSE out.onBranch \ G!Unpushed)
<1>3. faults' \in 0..MaxFaults
  BY <1>2, FaultType DEF GitInv, GitTypes
<1>4. out \in Reports /\ ws.tip \subseteq G!Commit
  BY DEF GitInv, GitTypes, Clones
<1>5. moved \subseteq G!Commit
  BY <1>4 DEF Reports
<1>6. /\ Pushes /\ out.onBranch = G!OnBranch
      /\ ws.log \subseteq G!Unpushed \union out.strays \union out.onBranch
  BY <1>1 DEF GitInv, Covered
<1>7. CASE strays = {}
  <2>1. pc' = "stale" /\ out' = [out EXCEPT !.scanFailed = lostScan /\ movedOff, !.commits = out.onBranch]
    BY <1>2, <1>7
  <2>2. (lostScan /\ movedOff) \in BOOLEAN
    OBVIOUS
  <2>3. /\ out' \in Reports /\ out'.onBranch = out.onBranch /\ out'.pushed = out.pushed
    <3> HIDE DEF movedOff, moved
    <3> QED BY <1>4, <2>1, <2>2 DEF Reports
  <2>4. Covered'
    BY <1>1, <1>6, <1>7, <2>1, <2>3 DEF Covered, Pushes, G!OnBranch, G!Unpushed
  <2> QED BY <1>1, <1>3, <2>1, <2>3, <2>4, ReadingInv DEF Reported, Setup, Phases
<1>8. CASE strays # {}
  <2>1. /\ pc' = "pr"
        /\ out' = [out EXCEPT !.pushFailed = TRUE, !.scanError = lostScan, !.stranded = left]
    BY <1>2, <1>8
  <2>2. left \subseteq G!Commit
    BY <1>4, <1>5 DEF Reports
  <2>3. out' \in Reports /\ out'.pushFailed /\ out'.stranded = left /\ out'.pushed = out.pushed
    <3> HIDE DEF left
    <3> QED BY <1>4, <2>1, <2>2 DEF Reports
  <2>4. (1..made) \ pub \subseteq left
    BY <1>6 DEF GitInv, Remembered, Published, G!Unpushed
  <2>5. Reported'
    BY <1>1, <2>3, <2>4 DEF Reported
  <2> QED BY <1>1, <1>3, <2>1, <2>3, <2>5, ReadingInv DEF Covered, Setup, Phases
<1> QED BY <1>7, <1>8

LEMMA CheckStaleInv == ASSUME GitInv, G!CheckStale PROVE GitInv'
<1>1. pc = "stale" /\ pc' = "push" /\ UNCHANGED <<req, plan, ws, remote, pub, made>>
  BY DEF G!CheckStale, G!Rest
<1>2. faults' \in 0..MaxFaults
  BY FaultType DEF G!CheckStale, GitInv, GitTypes
<1>3. \E a \in {"unknown", "yes", "no"} : out' = [out EXCEPT !.advanced = a]
  BY DEF G!CheckStale
<1>4. out' \in Reports /\ out'.onBranch = out.onBranch /\ out'.pushed = out.pushed
  BY <1>3 DEF GitInv, GitTypes, Reports
<1>5. Covered'
  BY <1>1, <1>4 DEF GitInv, Covered, Pushes, G!OnBranch, G!Unpushed
<1> QED BY <1>1, <1>2, <1>4, <1>5, ReadingInv DEF Reported, Setup, Phases

LEMMA PushInv == ASSUME GitInv, G!Push PROVE GitInv'
<1>1. pc = "push" /\ UNCHANGED <<req, plan, made>>
  BY DEF G!Push
<1>2. /\ ws \in Clones /\ remote \in Refs /\ pub \subseteq G!Commit /\ out \in Reports
      /\ G!Reach(ws.track) \subseteq pub /\ G!Reach(remote) \subseteq pub /\ Pushes
      /\ out.onBranch = G!OnBranch /\ ws.log \subseteq G!Unpushed \union out.onBranch
      /\ 1..made \subseteq ws.log
  BY <1>1 DEF GitInv, GitTypes, Published, Covered, Remembered
<1>3. ASSUME plan.working \in DOMAIN ws.refs, G!Publish(plan.working), NEW lost \in BOOLEAN,
             G!Fault(lost), pc' = (IF lost THEN "verify" ELSE "pr"),
             out' = [out EXCEPT !.pushed = ~lost],
             ws' = IF lost THEN ws
                   ELSE [ws EXCEPT !.track = G!Put(@, plan.working, ws.refs[plan.working])]
      PROVE  GitInv'
  <2>1. /\ remote' \in Refs /\ pub' \subseteq G!Commit /\ G!Reach(remote') \subseteq pub'
        /\ pub' = pub \union ws.refs[plan.working]
        /\ G!Put(ws.track, plan.working, ws.refs[plan.working]) \in Refs
        /\ G!Reach(G!Put(ws.track, plan.working, ws.refs[plan.working])) \subseteq pub'
    BY <1>2, <1>3, PublishKeeps
  <2>2. /\ ws' \in Clones /\ ws'.log = ws.log /\ ws'.head = ws.head /\ ws'.refs = ws.refs
        /\ lost => ws' = ws
        /\ ~lost => ws'.track = G!Put(ws.track, plan.working, ws.refs[plan.working])
    BY <1>2, <1>3, <2>1 DEF Clones
  <2>3. out' \in Reports /\ out'.onBranch = out.onBranch /\ (out'.pushed => Pushes)
    BY <1>2, <1>3 DEF Reports
  <2>4. faults' \in 0..MaxFaults
    BY <1>3, FaultType DEF GitInv, GitTypes
  <2>5. GitTypes'
    BY <1>1, <1>3, <2>1, <2>2, <2>3, <2>4 DEF GitInv, GitTypes, Phases
  <2>6. Published'
    BY <1>2, <2>1, <2>2 DEF Published
  <2>7. Covered'
    BY <1>1, <1>2, <1>3, <2>2, <2>3 DEF Covered, Pushes, G!OnBranch, G!Unpushed
  <2>8. Reported'
    <3>1. 1..made' \subseteq pub'
      BY <1>1, <1>2, <1>3, <2>1 DEF G!OnBranch, G!At, G!Unpushed
    <3> QED BY <3>1 DEF Reported
  <2> QED BY <1>1, <1>2, <1>3, <2>2, <2>3, <2>5, <2>6, <2>7, <2>8
          DEF GitInv, SettingUp, Setup, Remembered, HeadKnown, OwnBranch, Pushes
<1>4. ASSUME UNCHANGED <<ws, remote, pub>>, pc' \in {"push", "verify"}, faults' \in 0..MaxFaults,
             UNCHANGED out \/ out' = [out EXCEPT !.retried = TRUE]
      PROVE  GitInv'
  <2>1. out' \in Reports /\ out'.onBranch = out.onBranch /\ out'.pushed = out.pushed
    BY <1>2, <1>4 DEF Reports
  <2>2. Covered'
    BY <1>1, <1>2, <1>4, <2>1 DEF Covered, Pushes, G!OnBranch, G!Unpushed
  <2> QED BY <1>1, <1>4, <2>1, <2>2, ReadingInv DEF Reported, Setup, Phases
<1>5. CASE \E lost \in BOOLEAN :
             /\ plan.working \in DOMAIN ws.refs /\ G!Publish(plan.working)
             /\ G!Fault(lost) /\ pc' = (IF lost THEN "verify" ELSE "pr")
             /\ out' = [out EXCEPT !.pushed = ~lost]
             /\ ws' = IF lost THEN ws
                      ELSE [ws EXCEPT !.track = G!Put(@, plan.working, ws.refs[plan.working])]
  BY <1>3, <1>5
<1>6. CASE pc' = "verify" /\ UNCHANGED <<ws, remote, pub, out, faults>>
  BY <1>4, <1>6 DEF GitInv, GitTypes
<1>7. CASE /\ G!Fault(TRUE) /\ UNCHANGED <<ws, remote, pub>>
           /\ \/ pc' = "verify" /\ UNCHANGED out
              \/ pc' = "push" /\ out' = [out EXCEPT !.retried = TRUE]
  <2>1. faults' \in 0..MaxFaults
    BY <1>7, FaultType DEF GitInv, GitTypes
  <2> QED BY <1>4, <1>7, <2>1
<1> QED BY <1>5, <1>6, <1>7 DEF G!Push

LEMMA VerifyPushInv == ASSUME GitInv, G!VerifyPush PROVE GitInv'
<1>1. pc = "verify" /\ pc' = "pr" /\ UNCHANGED <<req, plan, ws, remote, pub, made>>
  BY DEF G!VerifyPush, G!Rest
<1>2. PICK unread \in BOOLEAN, lostScan \in BOOLEAN :
        LET tip == G!At(remote, plan.working)
            asked == ~unread /\ plan.working \in DOMAIN remote
            landed == asked /\ G!OnBranch \subseteq tip /\ (G!OnBranch # {} => tip # {})
            left == out.commits \union out.onBranch
            seen == IF asked THEN G!Unpushed \union tip ELSE G!Unpushed
        IN /\ G!Fault(unread \/ lostScan)
           /\ out' = IF landed THEN [out EXCEPT !.pushed = TRUE]
                     ELSE [out EXCEPT !.pushFailed = TRUE,
                             !.stranded = IF lostScan THEN left ELSE left \ seen,
                             !.scanError = out.scanFailed \/ lostScan \/ ~asked]
  BY DEF G!VerifyPush
<1> DEFINE tip == G!At(remote, plan.working)
           asked == ~unread /\ plan.working \in DOMAIN remote
           landed == asked /\ G!OnBranch \subseteq tip /\ (G!OnBranch # {} => tip # {})
           left == out.commits \union out.onBranch
           seen == IF asked THEN G!Unpushed \union tip ELSE G!Unpushed
           stranded == IF lostScan THEN left ELSE left \ seen
           unsure == out.scanFailed \/ lostScan \/ ~asked
<1>3. /\ ws \in Clones /\ remote \in Refs /\ pub \subseteq G!Commit /\ out \in Reports
      /\ G!Unpushed \subseteq pub /\ G!Reach(remote) \subseteq pub /\ Pushes
      /\ out.onBranch = G!OnBranch /\ ws.log \subseteq G!Unpushed \union out.onBranch
      /\ 1..made \subseteq ws.log
  BY <1>1 DEF GitInv, GitTypes, Published, Covered, Remembered, G!Unpushed
<1>4. tip \subseteq pub
  BY <1>3, RefsType
<1>5. faults' \in 0..MaxFaults
  BY <1>2, FaultType DEF GitInv, GitTypes
<1>6. CASE landed
  <2>1. out' = [out EXCEPT !.pushed = TRUE]
    BY <1>2, <1>6
  <2>2. out' \in Reports
    BY <1>3, <2>1 DEF Reports
  <2>3. 1..made \subseteq pub
    BY <1>3, <1>4, <1>6
  <2>4. Reported'
    BY <1>1, <2>3 DEF Reported
  <2> QED BY <1>1, <1>3, <1>5, <2>2, <2>4, ReadingInv DEF Covered, Setup, Phases
<1>7. CASE ~landed
  <2>1. out' = [out EXCEPT !.pushFailed = TRUE, !.stranded = stranded, !.scanError = unsure]
    BY <1>2, <1>7
  <2>2. stranded \subseteq G!Commit /\ unsure \in BOOLEAN
    BY <1>3 DEF Reports
  <2>3. /\ out' \in Reports /\ out'.pushFailed /\ out'.stranded = stranded
        /\ out'.pushed = out.pushed
    <3> HIDE DEF stranded, unsure
    <3> QED BY <1>3, <2>1, <2>2 DEF Reports
  <2>4. (1..made) \ pub \subseteq stranded
    BY <1>3, <1>4
  <2>5. Reported'
    BY <1>1, <2>3, <2>4 DEF Reported
  <2> QED BY <1>1, <1>5, <2>3, <2>5, ReadingInv DEF Covered, Setup, Phases
<1> QED BY <1>6, <1>7

LEMMA ReconcilePrInv == ASSUME GitInv, G!ReconcilePr PROVE GitInv'
<1>1. pc = "pr" /\ pc' = "done" /\ UNCHANGED <<req, plan, ws, remote, pub, made, faults>>
  BY DEF G!ReconcilePr, G!Rest
<1>2. \E pr \in BOOLEAN : out' = [out EXCEPT !.pr = pr]
  <2>1. PICK found \in BOOLEAN :
          out' = [out EXCEPT !.pr = found /\ plan.working # G!None /\ ~out.pushFailed]
    BY DEF G!ReconcilePr
  <2>2. (found /\ plan.working # G!None /\ ~out.pushFailed) \in BOOLEAN
    OBVIOUS
  <2> QED BY <2>1, <2>2
<1>3. /\ out' \in Reports /\ out'.pushFailed = out.pushFailed /\ out'.stranded = out.stranded
      /\ out'.scanError = out.scanError /\ out'.pushed = out.pushed
  BY <1>2 DEF GitInv, GitTypes, Reports
<1>4. Reported'
  BY <1>1, <1>3 DEF GitInv, Reported, Pushes
<1> QED BY <1>1, <1>3, <1>4, ReadingInv DEF GitInv, GitTypes, Covered, Setup, Phases

LEMMA GitStepInv == ASSUME GitInv, [G!GNext]_gvars PROVE GitInv'
<1>1. CASE UNCHANGED gvars
  BY <1>1 DEF gvars, GitInv, GitTypes, SettingUp, Remembered, Published, HeadKnown, Covered, Reported,
      OwnBranch, Pushes, G!Landing, G!OnBranch, G!Unpushed
<1> QED BY <1>1, CloneInv, ProvisioningInv, ChooseBranchInv, AgentCommitInv, AgentSwitchInv,
          AgentPushInv, OtherMovesInv, AgentEndsInv, ScanInv, DecideInv, RefuseStraysInv,
          CheckStaleInv, PushInv, VerifyPushInv, ReconcilePrInv DEF G!GNext

LEMMA GitInvHolds == GitInv => G!GTypeOK /\ G!NothingLost /\ G!OffTheBase
<1>1. GitInv => G!GTypeOK
  BY DEF GitInv, GitTypes, G!GTypeOK, Phases, Setup, Plans, Clones, Reports
<1>2. GitInv => G!NothingLost
  BY DEF GitInv, Reported, Pushes, G!NothingLost
<1>3. GitInv => G!OffTheBase
  BY DEF GitInv, OwnBranch, G!OffTheBase
<1> QED BY <1>1, <1>2, <1>3

(* The same, for the git part of a job.                                     *)
PartGit == part = "git" => GitInv

LEMMA PartGitInv == JobSpec => []PartGit
<1>1. JobInit => PartGit
  BY GitInitInv DEF JobInit, GitInit, PartGit
<1>2. PartGit /\ [JobNext]_jobVars => PartGit'
  <2> SUFFICES ASSUME PartGit, [JobNext]_jobVars, part' = "git" PROVE GitInv'
    BY DEF PartGit
  <2>1. CASE GitStep
    BY <2>1, GitStepInv DEF GitStep, InGit, PartGit, G!GNext
  <2>2. CASE ~GitStep
    <3>1. part' = part /\ UNCHANGED gvars
      BY <2>2 DEF JobNext, LockStep, JobStep, CaptureStep, TerminalStep, NamespaceStep, LogStep,
         InLock, InJob, InCapture, InTerminal, InNamespace, InLog, jobVars
    <3> QED BY <3>1, GitStepInv DEF PartGit
  <2> QED BY <2>1, <2>2
<1> QED BY <1>1, <1>2, PTL DEF JobSpec

(* finalizeGit: with any number of commits and of failing git calls, and    *)
(* whatever the agent and others do to the branches meanwhile, a commit of  *)
(* the agent that the remote never held is named as stranded, or the scan   *)
(* that missed it is reported, and the workspace is kept.                   *)
THEOREM CommitsAreAccountedFor == JobSpec => []NothingLost
<1>1. PartGit => NothingLost
  BY GitInvHolds DEF PartGit, NothingLost
<1> QED BY <1>1, PartGitInv, PTL

(* provisionRepo: for every envelope, whatever of the remote cannot be      *)
(* resolved, the branch finalizeGit pushes is not the base, and it is the   *)
(* default branch only if a configured base hid that it is.                 *)
THEOREM WorkLandsOffTheBase == JobSpec => []OffTheBase
<1>1. PartGit => OffTheBase
  BY GitInvHolds DEF PartGit, OffTheBase
<1> QED BY <1>1, PartGitInv, PTL

-----------------------------------------------------------------------------
(* RunNamespace.                                                            *)
Harnesses == Worker \X Activation \X {1, 2}
Processes == [pc : {"down", "boot", "up", "dead"}, sweep : {"none", "judged", "locked"},
              target : Worker]
Stages == [Activation -> {"none", "setup", "ready", "spawned", "runs", "respawned", "nudged", "over"}]
Ages == [Activation -> 0..N!NoDir]
Markers == [there : BOOLEAN, pids : SUBSET (Activation \X {1, 2}), by : SUBSET Activation]
Namespaces == [exists : BOOLEAN, owner : BOOLEAN, lock : BOOLEAN, age : 0..ReapAge, dir : Ages,
               marker : Markers]

(* The invariant of one worker, of its process p, the stages s of its       *)
(* activations, its namespace n, the ages k of what it preserved and the    *)
(* harnesses h.  Nothing begins before it is up.  Until it dies, a harness  *)
(* runs in an activation that is at its turn.                               *)
Placed(w, p, s, h) ==
  /\ p.pc \in {"down", "boot"} => \A r \in Activation : s[r] = "none"
  /\ p.pc # "dead" => \A r \in Activation : /\ <<w, r, 1>> \in h => s[r] \in {"spawned", "runs"}
                                            /\ <<w, r, 2>> \in h => s[r] \in {"respawned", "nudged"}

(* What is in a marker is from who wrote to it; and with the pid of the     *)
(* second turn in it, the first is over.                                    *)
Written(w, s, m, h) ==
  /\ m.by # {} => m.there
  /\ \A r \in Activation, turn \in {1, 2} : <<r, turn>> \in m.pids => r \in m.by
  /\ \A r \in Activation : <<r, 2>> \in m.pids =>
       <<w, r, 1>> \notin h /\ s[r] \notin {"none", "setup", "ready"}

(* What was preserved less than a window ago is in a directory and in a     *)
(* namespace that are no older, and its activation is over.                 *)
Recent(p, s, n, k) == \A r \in Activation : k[r] < ReapAge =>
                        /\ n.age <= k[r] /\ n.dir[r] <= k[r]
                        /\ p.pc \in {"up", "dead"} /\ s[r] = "over"

Sound(w, p, s, n, k, h) ==
  /\ p \in Processes /\ s \in Stages /\ n \in Namespaces /\ k \in Ages
  /\ Placed(w, p, s, h) /\ Written(w, s, n.marker, h) /\ Recent(p, s, n, k)

(* A sweep is after the namespace of a dead worker that preserved nothing   *)
(* within a window, and the dead preserve no more.                          *)
Kept(k) == \A r \in Activation : k[r] >= ReapAge
Judged(w) == proc[w].sweep # "none" => proc[proc[w].target].pc = "dead" /\ Kept(kept[proc[w].target])

NamespaceTypes ==
  /\ proc \in [Worker -> Processes] /\ stage \in [Worker -> Stages] /\ ns \in [Worker -> Namespaces]
  /\ kept \in [Worker -> Ages] /\ harness \subseteq Harnesses
NamespaceInv ==
  /\ NamespaceTypes
  /\ \A w \in Worker : Sound(w, proc[w], stage[w], ns[w], kept[w], harness) /\ Judged(w)

LEMMA ReapAgeIsNat == ReapAge \in Nat
BY JobAssumption DEF N!WindowAssumption

LEMMA NoAge == /\ 0 \in 0..ReapAge /\ 0 \in 0..N!NoDir /\ N!NoDir \in 0..N!NoDir /\ ReapAge \in Nat
               /\ N!NoDir = ReapAge + 1 /\ N!NoDirs \in Ages /\ Kept(N!NoDirs)
BY ReapAgeIsNat DEF N!NoDir, N!NoDirs, Ages, Kept

LEMMA AbsentIsSound ==
  /\ N!Absent \in Namespaces /\ N!Absent.marker = N!NoMarker /\ N!Absent.age = 0
  /\ N!NoMarker \in Markers /\ N!NoMarker.pids = {} /\ N!NoMarker.by = {} /\ ~N!NoMarker.there
  /\ [N!Absent EXCEPT !.exists = TRUE] \in Namespaces
  /\ [N!Absent EXCEPT !.exists = TRUE].marker = N!NoMarker
BY NoAge DEF Namespaces, Markers, N!Absent, N!NoMarker

LEMMA NamespaceInitInv == ASSUME N!NInit PROVE NamespaceInv
<1>1. ASSUME NEW w \in Worker
      PROVE  /\ proc[w] = N!Down(w) /\ ns[w] = N!Absent /\ kept[w] = N!NoDirs
             /\ stage[w] = [r \in Activation |-> "none"] /\ harness = {}
  BY DEF N!NInit
<1>2. ASSUME NEW w \in Worker
      PROVE  /\ proc[w] \in Processes /\ proc[w].sweep = "none" /\ stage[w] \in Stages
             /\ \A r \in Activation : stage[w][r] = "none"
  <2>1. N!Down(w) \in Processes /\ N!Down(w).sweep = "none"
    BY DEF N!Down, Processes
  <2>2. [r \in Activation |-> "none"] \in Stages
    BY DEF Stages
  <2> QED BY <1>1, <2>1, <2>2
<1>3. NamespaceTypes
  BY <1>1, <1>2, NoAge, AbsentIsSound DEF N!NInit, NamespaceTypes
<1>4. ASSUME NEW w \in Worker PROVE Sound(w, proc[w], stage[w], ns[w], kept[w], harness) /\ Judged(w)
  <2>1. Placed(w, proc[w], stage[w], harness) /\ Written(w, stage[w], ns[w].marker, harness)
    BY <1>1, <1>2, AbsentIsSound DEF Placed, Written
  <2>2. Recent(proc[w], stage[w], ns[w], kept[w])
    BY <1>1, NoAge DEF Recent, N!NoDirs
  <2> QED BY <1>1, <1>2, <2>1, <2>2, NoAge, AbsentIsSound DEF Sound, Judged
<1> QED BY <1>3, <1>4 DEF NamespaceInv

(* A step of a living worker on its own namespace: what it leaves there     *)
(* satisfies the invariant.                                                 *)
LEMMA OwnStep ==
  ASSUME NamespaceInv, NEW w \in Worker, NEW p, NEW s, NEW n, NEW k,
         proc' = [proc EXCEPT ![w] = p], stage' = [stage EXCEPT ![w] = s],
         ns' = [ns EXCEPT ![w] = n], kept' = [kept EXCEPT ![w] = k],
         harness' \subseteq Harnesses,
         \A v \in Worker \ {w}, r \in Activation, turn \in {1, 2} :
           <<v, r, turn>> \in harness' <=> <<v, r, turn>> \in harness,
         Sound(w, p, s, n, k, harness'),
         p.sweep # "none" => p.sweep = proc[w].sweep /\ p.target = proc[w].target,
         proc[w].pc # "dead"
  PROVE  NamespaceInv'
<1> USE DEF NamespaceInv
<1>1. NamespaceTypes'
  BY DEF NamespaceTypes, Sound
<1>2. /\ proc'[w] = p /\ stage'[w] = s /\ ns'[w] = n /\ kept'[w] = k
      /\ \A v \in Worker \ {w} : /\ proc'[v] = proc[v] /\ stage'[v] = stage[v]
                                 /\ ns'[v] = ns[v] /\ kept'[v] = kept[v]
  BY DEF NamespaceTypes
<1>3. ASSUME NEW v \in Worker PROVE Sound(v, proc'[v], stage'[v], ns'[v], kept'[v], harness')
  <2>1. CASE v = w
    BY <1>2, <2>1
  <2>2. CASE v # w
    <3>1. Sound(v, proc[v], stage[v], ns[v], kept[v], harness)
      OBVIOUS
    <3>2. Placed(v, proc[v], stage[v], harness') /\ Written(v, stage[v], ns[v].marker, harness')
      BY <2>2, <3>1 DEF Sound, Placed, Written
    <3> QED BY <1>2, <2>2, <3>1, <3>2 DEF Sound
  <2> QED BY <2>1, <2>2
<1>4. ASSUME NEW v \in Worker PROVE Judged(v)'
  <2>1. \A t \in Worker : proc[t].pc = "dead" => proc'[t] = proc[t] /\ kept'[t] = kept[t]
    BY <1>2
  <2>2. proc'[v].sweep # "none" =>
          proc'[v].target = proc[v].target /\ proc[v].sweep # "none"
    BY <1>2
  <2>3. proc[v].target \in Worker
    BY DEF NamespaceTypes, Processes
  <2> QED BY <2>1, <2>2, <2>3 DEF Judged
<1> QED BY <1>1, <1>3, <1>4

(* A step of a sweep: its worker does nothing else meanwhile, and what      *)
(* becomes of the namespace of the dead satisfies the invariant.            *)
LEMMA SweepStep ==
  ASSUME NamespaceInv, NEW w \in Worker, NEW t \in Worker, NEW to \in {"none", "judged", "locked"},
         NEW u \in Worker, NEW n, NEW k,
         proc' = [proc EXCEPT ![w].sweep = to, ![w].target = u], stage' = stage,
         ns' = [ns EXCEPT ![t] = n], kept' = [kept EXCEPT ![t] = k], harness' = harness,
         proc[t].pc = "dead", Kept(k),
         to # "none" => u = t,
         Sound(t, proc[t], stage[t], n, k, harness)
  PROVE  NamespaceInv'
<1> USE DEF NamespaceInv
<1>1. /\ proc' \in [Worker -> Processes]
      /\ \A v \in Worker : proc'[v].pc = proc[v].pc
      /\ proc'[w].sweep = to /\ proc'[w].target = u
      /\ \A v \in Worker \ {w} : proc'[v] = proc[v]
  <2> DEFINE p == [proc[w] EXCEPT !.sweep = to, !.target = u]
  <2>1. proc[w] \in Processes /\ proc \in [Worker -> Processes]
    BY DEF NamespaceTypes
  <2>2. p \in Processes /\ p.sweep = to /\ p.target = u /\ p.pc = proc[w].pc
    BY <2>1 DEF Processes
  <2>3. proc' = [proc EXCEPT ![w] = p]
    BY <2>1
  <2> HIDE DEF p
  <2> QED BY <2>1, <2>2, <2>3
<1>2. /\ ns'[t] = n /\ kept'[t] = k
      /\ \A v \in Worker \ {t} : ns'[v] = ns[v] /\ kept'[v] = kept[v]
      /\ ns' \in [Worker -> Namespaces] /\ kept' \in [Worker -> Ages]
  BY DEF NamespaceTypes, Sound
<1>3. ASSUME NEW v \in Worker PROVE Sound(v, proc'[v], stage'[v], ns'[v], kept'[v], harness')
  <2>1. Sound(v, proc[v], stage[v], ns'[v], kept'[v], harness)
    BY <1>2
  <2> QED BY <1>1, <2>1 DEF Sound, Placed, Recent
<1>4. ASSUME NEW v \in Worker PROVE Judged(v)'
  <2>1. \A x \in Worker : proc[x].pc = "dead" /\ Kept(kept[x]) => proc'[x].pc = "dead" /\ Kept(kept'[x])
    BY <1>1, <1>2
  <2>2. proc[v].target \in Worker
    BY DEF NamespaceTypes, Processes
  <2>3. CASE v = w
    <3>1. Kept(kept'[t]) /\ proc'[t].pc = "dead"
      BY <1>1, <1>2
    <3> QED BY <1>1, <2>3, <3>1 DEF Judged
  <2>4. CASE v # w
    BY <1>1, <2>1, <2>2, <2>4 DEF Judged
  <2> QED BY <2>3, <2>4
<1> QED BY <1>1, <1>2, <1>3, <1>4 DEF NamespaceTypes

(* What the steps below start from.                                         *)
LEMMA Own ==
  ASSUME NamespaceInv, NEW w \in Worker
  PROVE  /\ Sound(w, proc[w], stage[w], ns[w], kept[w], harness) /\ harness \subseteq Harnesses
         /\ proc[w] \in Processes /\ stage[w] \in Stages /\ ns[w] \in Namespaces /\ kept[w] \in Ages
         /\ proc = [proc EXCEPT ![w] = proc[w]] /\ stage = [stage EXCEPT ![w] = stage[w]]
         /\ ns = [ns EXCEPT ![w] = ns[w]] /\ kept = [kept EXCEPT ![w] = kept[w]]
BY DEF NamespaceInv, NamespaceTypes

(* Time: everything ages alike.                                             *)
LEMMA Ageing ==
  ASSUME NEW k \in Ages
  PROVE  /\ N!Aged(k) \in Ages /\ (Kept(k) => Kept(N!Aged(k)))
         /\ \A r \in Activation : /\ N!Aged(k)[r] = N!Older(k[r]) /\ N!Aged(k)[r] \in Nat /\ k[r] \in Nat
                                  /\ N!Aged(k)[r] < ReapAge => N!Aged(k)[r] = k[r] + 1
                                  /\ k[r] < ReapAge => N!Aged(k)[r] = k[r] + 1
                                  /\ N!Aged(k)[r] = N!NoDir => k[r] = N!NoDir
<1>1. ASSUME NEW a \in 0..N!NoDir
      PROVE  /\ N!Older(a) \in 0..N!NoDir /\ N!Older(a) \in Nat /\ a \in Nat
             /\ a >= ReapAge => N!Older(a) >= ReapAge
             /\ N!Older(a) < ReapAge => N!Older(a) = a + 1
             /\ a < ReapAge => N!Older(a) = a + 1
             /\ N!Older(a) = N!NoDir => a = N!NoDir
  BY ReapAgeIsNat DEF N!Older, N!NoDir
<1>2. \A r \in Activation : k[r] \in 0..N!NoDir /\ N!Aged(k)[r] = N!Older(k[r])
  BY DEF Ages, N!Aged
<1>3. N!Aged(k) \in Ages
  BY <1>1, <1>2 DEF Ages, N!Aged
<1> QED BY <1>1, <1>2, <1>3 DEF Kept

LEMMA NTickInv == ASSUME NamespaceInv, N!Tick PROVE NamespaceInv'
<1> USE DEF NamespaceInv
<1>1. /\ ns' = [w \in Worker |-> [ns[w] EXCEPT !.age = N!Older(@), !.dir = N!Aged(@)]]
      /\ kept' = [w \in Worker |-> N!Aged(kept[w])] /\ UNCHANGED <<proc, stage, harness>>
  BY DEF N!Tick
<1>2. ASSUME NEW w \in Worker
      PROVE  /\ ns'[w] \in Namespaces /\ ns'[w].age = N!Older(ns[w].age) /\ ns[w].age \in 0..ReapAge
             /\ ns'[w].dir = N!Aged(ns[w].dir) /\ ns'[w].marker = ns[w].marker
             /\ kept'[w] = N!Aged(kept[w]) /\ kept'[w] \in Ages
             /\ ns[w].dir \in Ages /\ kept[w] \in Ages
  <2>1. ns[w] \in Namespaces /\ ns[w].age \in 0..ReapAge /\ ns[w].dir \in Ages /\ kept[w] \in Ages
    BY Own DEF Namespaces
  <2>2. N!Older(ns[w].age) \in 0..ReapAge
    BY <2>1, ReapAgeIsNat DEF N!Older
  <2>3. N!Aged(ns[w].dir) \in Ages /\ N!Aged(kept[w]) \in Ages
    BY <2>1, Ageing
  <2>4. ns'[w] = [ns[w] EXCEPT !.age = N!Older(ns[w].age), !.dir = N!Aged(ns[w].dir)]
    BY <1>1
  <2> QED BY <1>1, <2>1, <2>2, <2>3, <2>4 DEF Namespaces
<1>3. NamespaceTypes'
  BY <1>1, <1>2 DEF NamespaceTypes
<1>4. ASSUME NEW w \in Worker PROVE Sound(w, proc'[w], stage'[w], ns'[w], kept'[w], harness')
  <2>1. Recent(proc[w], stage[w], ns'[w], kept'[w])
    <3> SUFFICES ASSUME NEW r \in Activation, kept'[w][r] < ReapAge
        PROVE /\ ns'[w].age <= kept'[w][r] /\ ns'[w].dir[r] <= kept'[w][r]
              /\ proc[w].pc \in {"up", "dead"} /\ stage[w][r] = "over"
      BY DEF Recent
    <3>1. kept'[w][r] = kept[w][r] + 1 /\ kept[w][r] < ReapAge /\ kept[w][r] \in Nat
      BY <1>2, Ageing, ReapAgeIsNat
    <3>2. /\ ns[w].age <= kept[w][r] /\ ns[w].dir[r] <= kept[w][r]
          /\ proc[w].pc \in {"up", "dead"} /\ stage[w][r] = "over"
      BY <3>1, Own DEF Sound, Recent
    <3>3. ns[w].age \in Nat /\ ns[w].dir[r] \in Nat
      BY <1>2, Ageing, ReapAgeIsNat
    <3>4. ns'[w].age = ns[w].age + 1
      BY <1>2, <3>1, <3>2, <3>3, ReapAgeIsNat DEF N!Older
    <3>5. ns'[w].dir[r] = ns[w].dir[r] + 1
      <4>1. ns[w].dir[r] < ReapAge
        BY <3>1, <3>2, <3>3, ReapAgeIsNat
      <4> QED BY <1>2, <4>1, Ageing
    <3> QED BY <3>1, <3>2, <3>3, <3>4, <3>5
  <2> QED BY <1>1, <1>2, <2>1, Own DEF Sound
<1>5. ASSUME NEW w \in Worker PROVE Judged(w)'
  <2>1. proc[w].target \in Worker
    BY Own DEF Processes
  <2> QED BY <1>1, <1>2, <2>1, Ageing DEF Judged
<1> QED BY <1>3, <1>4, <1>5

LEMMA AllocateInv == ASSUME NamespaceInv, NEW w \in Worker, N!Allocate(w) PROVE NamespaceInv'
<1> DEFINE p == [proc[w] EXCEPT !.pc = "boot"]
           n == [N!Absent EXCEPT !.exists = TRUE]
<1>1. /\ proc[w].pc = "down" /\ proc' = [proc EXCEPT ![w] = p] /\ ns' = [ns EXCEPT ![w] = n]
      /\ UNCHANGED <<stage, harness, kept>>
  BY DEF N!Allocate
<1>2. /\ p \in Processes /\ p.pc = "boot" /\ p.sweep = proc[w].sweep /\ p.target = proc[w].target
  BY Own DEF Processes
<1>3. n \in Namespaces /\ n.marker = N!NoMarker
  BY AbsentIsSound
<1> HIDE DEF p, n
<1>4. Placed(w, p, stage[w], harness) /\ Recent(p, stage[w], n, kept[w])
  BY <1>1, <1>2, Own DEF Sound, Placed, Recent
<1>5. Written(w, stage[w], n.marker, harness)
  BY <1>3, AbsentIsSound DEF Written
<1>6. Sound(w, p, stage[w], n, kept[w], harness')
  BY <1>1, <1>2, <1>3, <1>4, <1>5, Own DEF Sound
<1> QED BY <1>1, <1>2, <1>6, Own, OwnStep

LEMMA RecordOwnerInv == ASSUME NamespaceInv, NEW w \in Worker, N!RecordOwner(w) PROVE NamespaceInv'
<1> DEFINE p == [proc[w] EXCEPT !.pc = "up"]
           n == [ns[w] EXCEPT !.owner = TRUE, !.age = 0]
<1>1. /\ proc[w].pc = "boot" /\ proc' = [proc EXCEPT ![w] = p] /\ ns' = [ns EXCEPT ![w] = n]
      /\ UNCHANGED <<stage, harness, kept>>
  BY Own DEF N!RecordOwner
<1>2. /\ p \in Processes /\ p.pc = "up" /\ p.sweep = proc[w].sweep /\ p.target = proc[w].target
  BY Own DEF Processes
<1>3. n \in Namespaces /\ n.marker = ns[w].marker
  BY Own, NoAge DEF Namespaces
<1> HIDE DEF p, n
<1>4. Placed(w, p, stage[w], harness) /\ Recent(p, stage[w], n, kept[w])
  BY <1>1, <1>2, Own DEF Sound, Placed, Recent
<1>5. Sound(w, p, stage[w], n, kept[w], harness')
  BY <1>1, <1>2, <1>3, <1>4, Own DEF Sound
<1> QED BY <1>1, <1>2, <1>5, Own, OwnStep

(* An activation of a living worker: it goes on to another stage, and what  *)
(* it leaves of the namespace and the preserved is to satisfy the invariant. *)
LEMMA ActivationStep ==
  ASSUME NamespaceInv, NEW w \in Worker, NEW r \in Activation, NEW to,
         NEW n \in Namespaces, NEW k \in Ages,
         to \in {"setup", "ready", "spawned", "runs", "respawned", "nudged", "over"},
         proc[w].pc = "up", proc' = proc, N!To(w, r, to),
         ns' = [ns EXCEPT ![w] = n], kept' = [kept EXCEPT ![w] = k],
         harness' \subseteq Harnesses,
         \A v \in Worker, q \in Activation, turn \in {1, 2} :
           v # w \/ q # r => (<<v, q, turn>> \in harness' <=> <<v, q, turn>> \in harness),
         <<w, r, 1>> \in harness' => to \in {"spawned", "runs"},
         <<w, r, 2>> \in harness' => to \in {"respawned", "nudged"},
         Written(w, [stage[w] EXCEPT ![r] = to], n.marker, harness'),
         Recent(proc[w], [stage[w] EXCEPT ![r] = to], n, k)
  PROVE  NamespaceInv'
<1> DEFINE s == [stage[w] EXCEPT ![r] = to]
<1>1. stage' = [stage EXCEPT ![w] = s] /\ proc' = [proc EXCEPT ![w] = proc[w]]
  BY Own DEF N!To
<1>2. s \in Stages /\ s[r] = to /\ \A q \in Activation \ {r} : s[q] = stage[w][q]
  BY Own DEF Stages
<1>3. Written(w, s, n.marker, harness') /\ Recent(proc[w], s, n, k)
  OBVIOUS
<1> HIDE DEF s
<1>4. Placed(w, proc[w], s, harness')
  <2>1. Placed(w, proc[w], stage[w], harness)
    BY Own DEF Sound
  <2> QED BY <1>2, <2>1 DEF Placed
<1>5. Sound(w, proc[w], s, n, k, harness')
  BY <1>2, <1>3, <1>4, Own DEF Sound
<1> QED BY <1>1, <1>5, OwnStep

(* What holds of an activation in a stage of a living worker.               *)
LEMMA AtStage ==
  ASSUME NamespaceInv, NEW w \in Worker, NEW r \in Activation, proc[w].pc = "up"
  PROVE  /\ stage[w][r] # "over" => ~(kept[w][r] < ReapAge)
         /\ stage[w][r] \notin {"spawned", "runs"} => <<w, r, 1>> \notin harness
         /\ stage[w][r] \notin {"respawned", "nudged"} => <<w, r, 2>> \notin harness
         /\ stage[w][r] \in {"none", "setup", "ready"} => <<r, 2>> \notin ns[w].marker.pids
BY Own DEF Sound, Recent, Placed, Written

LEMMA AnotherStage ==
  ASSUME NamespaceInv, NEW w \in Worker, NEW r \in Activation, NEW to
  PROVE  \A q \in Activation : [stage[w] EXCEPT ![r] = to][q] = IF q = r THEN to ELSE stage[w][q]
BY Own DEF Stages

LEMMA RecentStays ==
  ASSUME NamespaceInv, NEW w \in Worker, NEW r \in Activation, NEW to, NEW n,
         proc[w].pc = "up", stage[w][r] # "over", n.age \in {0, ns[w].age},
         \A q \in Activation \ {r} : n.dir[q] = ns[w].dir[q]
  PROVE  Recent(proc[w], [stage[w] EXCEPT ![r] = to], n, kept[w])
<1> SUFFICES ASSUME NEW q \in Activation, kept[w][q] < ReapAge
    PROVE /\ n.age <= kept[w][q] /\ n.dir[q] <= kept[w][q]
          /\ [stage[w] EXCEPT ![r] = to][q] = "over"
  BY DEF Recent
<1>1. q # r
  BY AtStage
<1>2. /\ ns[w].age <= kept[w][q] /\ ns[w].dir[q] <= kept[w][q] /\ stage[w][q] = "over"
      /\ kept[w][q] \in 0..N!NoDir
  BY Own DEF Sound, Recent, Ages
<1>3. [stage[w] EXCEPT ![r] = to][q] = "over"
  BY <1>1, <1>2, Own DEF Stages
<1> QED BY <1>1, <1>2, <1>3, NoAge

LEMMA WrittenStays ==
  ASSUME NamespaceInv, NEW w \in Worker, NEW r \in Activation, NEW to, NEW h,
         \A q \in Activation \ {r} : <<w, q, 1>> \in h => <<w, q, 1>> \in harness,
         <<r, 2>> \in ns[w].marker.pids =>
           <<w, r, 1>> \notin h /\ to \notin {"none", "setup", "ready"}
  PROVE  Written(w, [stage[w] EXCEPT ![r] = to], ns[w].marker, h)
<1>1. Written(w, stage[w], ns[w].marker, harness)
  BY Own DEF Sound
<1> QED BY <1>1, AnotherStage DEF Written

LEMMA StartJobInv ==
  ASSUME NamespaceInv, NEW w \in Worker, NEW r \in Activation, N!StartJob(w, r) \/ N!AbandonSetup(w, r)
  PROVE  NamespaceInv'
<1>1. PICK to \in {"setup", "over"}, d \in {0, N!NoDir} :
        /\ proc[w].pc = "up" /\ stage[w][r] \in {"none", "setup"} /\ N!To(w, r, to)
        /\ ns' = [ns EXCEPT ![w].dir[r] = d, ![w].age = 0] /\ UNCHANGED <<proc, harness, kept>>
  BY DEF N!StartJob, N!AbandonSetup, N!InStage
<1> DEFINE n == [ns[w] EXCEPT !.dir[r] = d, !.age = 0]
<1>2. ns' = [ns EXCEPT ![w] = n]
  BY <1>1, Own
<1>3. /\ n \in Namespaces /\ n.marker = ns[w].marker /\ n.age = 0
      /\ \A q \in Activation \ {r} : n.dir[q] = ns[w].dir[q]
  <2>1. [ns[w].dir EXCEPT ![r] = d] \in Ages /\ ns[w].dir \in Ages
    BY <1>1, Own, NoAge DEF Ages, Namespaces
  <2> QED BY <2>1, Own, NoAge DEF Namespaces, Ages
<1> HIDE DEF n
<1>4. <<w, r, 1>> \notin harness /\ <<w, r, 2>> \notin harness /\ <<r, 2>> \notin ns[w].marker.pids
  BY <1>1, AtStage
<1>5. Recent(proc[w], [stage[w] EXCEPT ![r] = to], n, kept[w])
  BY <1>1, <1>3, RecentStays
<1>6. Written(w, [stage[w] EXCEPT ![r] = to], n.marker, harness')
  BY <1>1, <1>3, <1>4, WrittenStays
<1> QED BY <1>1, <1>2, <1>3, <1>4, <1>5, <1>6, Own, ActivationStep

LEMMA WriteMarkerInv ==
  ASSUME NamespaceInv, NEW w \in Worker, NEW r \in Activation, N!WriteMarker(w, r)
  PROVE  NamespaceInv'
<1> DEFINE m == [there |-> TRUE, pids |-> {}, by |-> {r}]
           n == [ns[w] EXCEPT !.marker = m]
<1>1. /\ proc[w].pc = "up" /\ stage[w][r] = "setup" /\ N!To(w, r, "ready")
      /\ UNCHANGED <<proc, harness, kept>>
  BY DEF N!WriteMarker, N!InStage
<1>2. <<w, r, 1>> \notin harness /\ <<w, r, 2>> \notin harness /\ <<r, 2>> \notin ns[w].marker.pids
  BY <1>1, AtStage
<1>3. CASE ns' = [ns EXCEPT ![w].marker = m]
  <2>1. m \in Markers /\ m.there /\ m.pids = {}
    BY DEF Markers
  <2>2. n \in Namespaces /\ n.marker = m /\ n.age = ns[w].age /\ n.dir = ns[w].dir
    BY <2>1, Own DEF Namespaces
  <2>3. ns' = [ns EXCEPT ![w] = n]
    BY <1>3, Own
  <2>4. Written(w, [stage[w] EXCEPT ![r] = "ready"], m, harness')
    BY <2>1 DEF Written
  <2> HIDE DEF m, n
  <2>5. Recent(proc[w], [stage[w] EXCEPT ![r] = "ready"], n, kept[w])
    BY <1>1, <2>2, RecentStays
  <2> QED BY <1>1, <1>2, <2>2, <2>3, <2>4, <2>5, Own, ActivationStep
<1>4. CASE ns' = ns
  <2>1. Recent(proc[w], [stage[w] EXCEPT ![r] = "ready"], ns[w], kept[w])
    BY <1>1, RecentStays
  <2>2. Written(w, [stage[w] EXCEPT ![r] = "ready"], ns[w].marker, harness')
    BY <1>1, <1>2, WrittenStays
  <2> QED BY <1>1, <1>2, <1>4, <2>1, <2>2, Own, ActivationStep
<1> QED BY <1>3, <1>4 DEF N!WriteMarker

LEMMA SpawnInv ==
  ASSUME NamespaceInv, NEW w \in Worker, NEW r \in Activation, N!Spawn(w, r) \/ N!Nudge(w, r)
  PROVE  NamespaceInv'
<1>1. PICK to \in {"spawned", "respawned"}, turn \in {1, 2} :
        /\ proc[w].pc = "up" /\ stage[w][r] = (IF turn = 1 THEN "ready" ELSE "runs")
        /\ N!To(w, r, to) /\ to = (IF turn = 1 THEN "spawned" ELSE "respawned")
        /\ turn = 2 => <<w, r, 1>> \notin harness
        /\ harness' = harness \union {<<w, r, turn>>} /\ UNCHANGED <<proc, ns, kept>>
  <2>1. CASE N!Spawn(w, r)
    BY <2>1 DEF N!Spawn, N!InStage
  <2>2. CASE N!Nudge(w, r)
    BY <2>2 DEF N!Nudge, N!InStage
  <2> QED BY <2>1, <2>2
<1>2. /\ turn = 1 => <<w, r, 2>> \notin harness /\ <<r, 2>> \notin ns[w].marker.pids
      /\ <<w, r, 1>> \notin harness' \/ turn = 1
  BY <1>1, AtStage
<1>3. harness' \subseteq Harnesses
  BY <1>1, Own DEF Harnesses
<1>4. Recent(proc[w], [stage[w] EXCEPT ![r] = to], ns[w], kept[w])
  BY <1>1, RecentStays
<1>5. Written(w, [stage[w] EXCEPT ![r] = to], ns[w].marker, harness')
  BY <1>1, <1>2, WrittenStays
<1>6. /\ <<w, r, 1>> \in harness' => to \in {"spawned", "runs"}
      /\ <<w, r, 2>> \in harness' => to \in {"respawned", "nudged"}
  BY <1>1, <1>2
<1>7. \A v \in Worker, q \in Activation, t \in {1, 2} :
        v # w \/ q # r => (<<v, q, t>> \in harness' <=> <<v, q, t>> \in harness)
  BY <1>1
<1>8. ns' = [ns EXCEPT ![w] = ns[w]] /\ kept' = [kept EXCEPT ![w] = kept[w]]
  BY <1>1, Own
<1>9. ns[w] \in Namespaces /\ kept[w] \in Ages
  BY Own
<1>10. /\ proc[w].pc = "up" /\ proc' = proc /\ N!To(w, r, to)
       /\ to \in {"setup", "ready", "spawned", "runs", "respawned", "nudged", "over"}
  BY <1>1
<1> QED BY <1>3, <1>4, <1>6, <1>7, <1>8, <1>9, <1>10, <1>5, ActivationStep

LEMMA RecordPidInv ==
  ASSUME NamespaceInv, NEW w \in Worker, NEW r \in Activation, NEW turn \in {1, 2},
         N!RecordPid(w, r, turn)
  PROVE  NamespaceInv'
<1>1. PICK to \in {"runs", "nudged"} :
        /\ proc[w].pc = "up" /\ stage[w][r] = (IF turn = 1 THEN "spawned" ELSE "respawned")
        /\ N!To(w, r, to) /\ to = (IF turn = 1 THEN "runs" ELSE "nudged")
        /\ UNCHANGED <<proc, harness, kept>>
  BY DEF N!RecordPid, N!InStage
<1>2. /\ turn = 1 => <<w, r, 2>> \notin harness
      /\ turn = 2 => <<w, r, 1>> \notin harness
  BY <1>1, AtStage
<1>3. <<r, 2>> \in ns[w].marker.pids => <<w, r, 1>> \notin harness
  BY Own DEF Sound, Written
<1>4. CASE ns[w].marker.there /\ ns' = [ns EXCEPT ![w].marker = N!WithPid(@, r, turn)]
  <2> DEFINE m == N!WithPid(ns[w].marker, r, turn)
             n == [ns[w] EXCEPT !.marker = m]
  <2>1. ns[w].marker \in Markers
    BY Own DEF Namespaces
  <2>2. /\ m \in Markers /\ m.there /\ m.pids = ns[w].marker.pids \union {<<r, turn>>}
        /\ m.by = ns[w].marker.by \union {r}
    <3>1. <<r, turn>> \in Activation \X {1, 2}
      OBVIOUS
    <3> DEFINE p == <<r, turn>>
    <3>2. m = [ns[w].marker EXCEPT !.pids = @ \union {p}, !.by = @ \union {r}]
      BY DEF N!WithPid
    <3> HIDE DEF p, m
    <3>3. p \in Activation \X {1, 2}
      BY <3>1 DEF p
    <3>4. /\ m \in Markers /\ m.there /\ m.pids = ns[w].marker.pids \union {p}
          /\ m.by = ns[w].marker.by \union {r}
      BY <1>4, <2>1, <3>2, <3>3 DEF Markers
    <3> QED BY <3>4 DEF p
  <2>3. ns' = [ns EXCEPT ![w] = n]
    BY <1>4, Own
  <2> HIDE DEF m
  <2>4. n \in Namespaces /\ n.marker = m /\ n.age = ns[w].age /\ n.dir = ns[w].dir
    BY <2>2, Own DEF Namespaces
  <2>5. Written(w, stage[w], ns[w].marker, harness)
    BY Own DEF Sound
  <2>6. Written(w, [stage[w] EXCEPT ![r] = to], m, harness')
    BY <1>1, <1>2, <2>2, <2>5, AnotherStage DEF Written
  <2> HIDE DEF n
  <2>7. Recent(proc[w], [stage[w] EXCEPT ![r] = to], n, kept[w])
    BY <1>1, <2>4, RecentStays
  <2> QED BY <1>1, <1>2, <2>3, <2>4, <2>6, <2>7, Own, ActivationStep
<1>5. CASE ns' = ns
  <2>1. Recent(proc[w], [stage[w] EXCEPT ![r] = to], ns[w], kept[w])
    BY <1>1, RecentStays
  <2>2. Written(w, [stage[w] EXCEPT ![r] = to], ns[w].marker, harness')
    BY <1>1, <1>3, WrittenStays
  <2> QED BY <1>1, <1>2, <1>5, <2>1, <2>2, Own, ActivationStep
<1> QED BY <1>4, <1>5 DEF N!RecordPid

LEMMA HarnessEndsInv == ASSUME NamespaceInv, NEW h \in harness, N!HarnessEnds(h) PROVE NamespaceInv'
<1>1. harness' = harness \ {h} /\ UNCHANGED <<proc, stage, ns, kept>>
  BY DEF N!HarnessEnds
<1>2. ASSUME NEW v \in Worker PROVE Sound(v, proc'[v], stage'[v], ns'[v], kept'[v], harness')
  BY <1>1, Own DEF Sound, Placed, Written
<1>3. NamespaceTypes' /\ \A v \in Worker : Judged(v)'
  BY <1>1 DEF NamespaceInv, NamespaceTypes, Judged
<1> QED BY <1>2, <1>3 DEF NamespaceInv

LEMMA EndJobInv ==
  ASSUME NamespaceInv, NEW w \in Worker, NEW r \in Activation, N!EndJob(w, r)
  PROVE  NamespaceInv'
<1>1. /\ proc[w].pc = "up" /\ stage[w][r] \notin {"none", "over"} /\ N!To(w, r, "over")
      /\ <<w, r, 1>> \notin harness /\ <<w, r, 2>> \notin harness /\ UNCHANGED <<proc, harness>>
  BY DEF N!EndJob, N!InStage
<1>2. PICK d \in {0, N!NoDir} :
        /\ ns' = [ns EXCEPT ![w] = [ns[w] EXCEPT !.marker = N!NoMarker, !.dir[r] = d, !.age = 0]]
        /\ \/ d = N!NoDir /\ kept' = kept
           \/ d = 0 /\ kept' = [kept EXCEPT ![w][r] = 0]
  BY DEF N!EndJob, N!RemoveJobMarker, N!Preserve
<1> DEFINE n == [ns[w] EXCEPT !.marker = N!NoMarker, !.dir[r] = d, !.age = 0]
           k == [kept[w] EXCEPT ![r] = 0]
<1>3. /\ n \in Namespaces /\ n.marker = N!NoMarker /\ n.age = 0 /\ n.dir[r] = d
      /\ \A q \in Activation \ {r} : n.dir[q] = ns[w].dir[q]
  <2>1. [ns[w].dir EXCEPT ![r] = d] \in Ages /\ ns[w].dir \in Ages
    BY <1>1, Own, NoAge DEF Ages, Namespaces
  <2> QED BY <2>1, Own, NoAge, AbsentIsSound DEF Namespaces, Ages
<1>4. ns' = [ns EXCEPT ![w] = n]
  BY <1>2
<1>5. k \in Ages /\ k[r] = 0 /\ \A q \in Activation \ {r} : k[q] = kept[w][q]
  BY Own, NoAge DEF Ages
<1> HIDE DEF n
<1>6. Written(w, [stage[w] EXCEPT ![r] = "over"], n.marker, harness')
  BY <1>3, AbsentIsSound DEF Written
<1>7. Recent(proc[w], [stage[w] EXCEPT ![r] = "over"], n, kept[w])
  BY <1>1, <1>3, RecentStays
<1>8. CASE d = N!NoDir /\ kept' = kept
  BY <1>1, <1>3, <1>4, <1>6, <1>7, <1>8, Own, ActivationStep
<1>9. CASE d = 0 /\ kept' = [kept EXCEPT ![w][r] = 0]
  <2>1. kept' = [kept EXCEPT ![w] = k]
    BY <1>9, Own
  <2> HIDE DEF k
  <2>2. Recent(proc[w], [stage[w] EXCEPT ![r] = "over"], n, k)
    <3> SUFFICES ASSUME NEW q \in Activation, k[q] < ReapAge
        PROVE /\ n.age <= k[q] /\ n.dir[q] <= k[q] /\ proc[w].pc \in {"up", "dead"}
              /\ [stage[w] EXCEPT ![r] = "over"][q] = "over"
      BY DEF Recent
    <3>1. CASE q = r
      BY <1>1, <1>3, <1>5, <1>9, <3>1, AnotherStage
    <3>2. CASE q # r
      BY <1>5, <1>7, <3>2 DEF Recent
    <3> QED BY <3>1, <3>2
  <2> QED BY <1>1, <1>3, <1>4, <1>5, <1>6, <2>1, <2>2, Own, ActivationStep
<1> QED BY <1>2, <1>8, <1>9

LEMMA CrashInv == ASSUME NamespaceInv, NEW w \in Worker, N!Crash(w) PROVE NamespaceInv'
<1> DEFINE p == [N!Down(w) EXCEPT !.pc = "dead"]
           s == [r \in Activation |-> IF stage[w][r] = "none" THEN "none" ELSE "over"]
<1>1. /\ proc' = [proc EXCEPT ![w] = p] /\ stage' = [stage EXCEPT ![w] = s]
      /\ UNCHANGED <<ns, harness, kept>> /\ proc[w].pc # "dead"
  BY DEF N!Crash
<1>2. p \in Processes /\ p.pc = "dead" /\ p.sweep = "none"
  BY DEF Processes, N!Down
<1>3. /\ s \in Stages /\ \A r \in Activation : s[r] \in {"none", "over"}
      /\ \A r \in Activation : stage[w][r] \notin {"none", "setup", "ready"} => s[r] = "over"
      /\ \A r \in Activation : stage[w][r] = "over" => s[r] = "over"
  BY Own DEF Stages
<1> HIDE DEF p, s
<1>4. Placed(w, p, s, harness)
  BY <1>2 DEF Placed
<1>5. Written(w, s, ns[w].marker, harness) /\ Recent(p, s, ns[w], kept[w])
  BY <1>2, <1>3, Own DEF Sound, Written, Recent
<1>6. Sound(w, p, s, ns[w], kept[w], harness')
  BY <1>1, <1>2, <1>3, <1>4, <1>5, Own DEF Sound
<1>7. /\ ns' = [ns EXCEPT ![w] = ns[w]] /\ kept' = [kept EXCEPT ![w] = kept[w]]
      /\ harness' = harness /\ harness \subseteq Harnesses
  BY <1>1, Own
<1>8. p.sweep # "none" => p.sweep = proc[w].sweep /\ p.target = proc[w].target
  BY <1>2
<1>9. \A v \in Worker \ {w}, r \in Activation, turn \in {1, 2} :
        <<v, r, turn>> \in harness' <=> <<v, r, turn>> \in harness
  BY <1>7
<1>10. harness' \subseteq Harnesses
  BY <1>7
<1> QED BY <1>1, <1>6, <1>7, <1>8, <1>9, <1>10, OwnStep

LEMMA ReapOwnInv == ASSUME NamespaceInv, NEW w \in Worker, N!ReapOwn(w) PROVE NamespaceInv'
<1> DEFINE aged == {r \in Activation : ~N!InFlight(w, r) /\ ns[w].dir[r] = ReapAge}
           without(dirs) == [r \in Activation |-> IF r \in aged THEN N!NoDir ELSE dirs[r]]
           n == [ns[w] EXCEPT !.dir = without(ns[w].dir), !.age = 0]
           k == without(kept[w])
<1>1. /\ proc[w].pc = "up" /\ UNCHANGED <<proc, stage, harness>>
      /\ ns' = [ns EXCEPT ![w] = n] /\ kept' = [kept EXCEPT ![w] = k]
  BY Own DEF N!ReapOwn
<1> HIDE DEF aged
<1>2. ASSUME NEW dirs \in Ages PROVE without(dirs) \in Ages
  BY NoAge DEF Ages
<1>3. n \in Namespaces /\ n.marker = ns[w].marker /\ n.age = 0 /\ n.dir = without(ns[w].dir)
  <2>1. without(ns[w].dir) \in Ages
    BY <1>2, Own DEF Namespaces
  <2> HIDE DEF without
  <2> QED BY <2>1, Own, NoAge DEF Namespaces
<1>4. k \in Ages /\ \A r \in Activation : k[r] = (IF r \in aged THEN N!NoDir ELSE kept[w][r])
  BY <1>2, Own
<1>5. Recent(proc[w], stage[w], n, k)
  <2> SUFFICES ASSUME NEW r \in Activation, k[r] < ReapAge
      PROVE /\ n.age <= k[r] /\ n.dir[r] <= k[r]
            /\ proc[w].pc \in {"up", "dead"} /\ stage[w][r] = "over"
    BY DEF Recent
  <2>1. r \notin aged /\ k[r] = kept[w][r] /\ k[r] \in 0..N!NoDir
    BY <1>4, NoAge DEF Ages
  <2>2. n.dir[r] = ns[w].dir[r] /\ 0 <= k[r]
    BY <1>3, <2>1, NoAge
  <2> QED BY <1>1, <1>3, <2>1, <2>2, Own DEF Sound, Recent
<1> HIDE DEF n, k
<1>6. Sound(w, proc[w], stage[w], n, k, harness')
  BY <1>1, <1>3, <1>4, <1>5, Own DEF Sound
<1> QED BY <1>1, <1>6, Own, OwnStep

LEMMA JudgeInv ==
  ASSUME NamespaceInv, NEW w \in Worker, NEW t \in Worker, N!Judge(w, t) PROVE NamespaceInv'
<1>1. /\ proc[t].pc = "dead" /\ ns[t].age >= ReapAge /\ UNCHANGED <<stage, ns, harness, kept>>
      /\ proc' = [proc EXCEPT ![w].sweep = "judged", ![w].target = t]
  BY DEF N!Judge, N!OwnerDead, N!Sweeping
<1>2. Kept(kept[t])
  <2> SUFFICES ASSUME NEW r \in Activation PROVE kept[t][r] >= ReapAge
    BY DEF Kept
  <2>1. /\ kept[t][r] \in Nat /\ ns[t].age \in Nat
        /\ kept[t][r] < ReapAge => ns[t].age <= kept[t][r]
    BY Own, ReapAgeIsNat DEF Sound, Recent, Namespaces, Ages, N!NoDir
  <2> QED BY <1>1, <2>1, ReapAgeIsNat
<1>3. ns' = [ns EXCEPT ![t] = ns[t]] /\ kept' = [kept EXCEPT ![t] = kept[t]]
  BY <1>1, Own
<1>4. Sound(t, proc[t], stage[t], ns[t], kept[t], harness)
  BY Own
<1>5. stage' = stage /\ harness' = harness /\ "judged" \in {"none", "judged", "locked"}
  BY <1>1
<1>6. proc[t].pc = "dead" /\ proc' = [proc EXCEPT ![w].sweep = "judged", ![w].target = t]
  BY <1>1
<1> QED BY <1>2, <1>3, <1>4, <1>5, <1>6, SweepStep

(* The namespace a sweep is after.                                          *)
LEMMA Target ==
  ASSUME NamespaceInv, NEW w \in Worker, NEW t \in Worker, proc[w].sweep # "none", proc[w].target = t
  PROVE  proc[t].pc = "dead" /\ Kept(kept[t])
BY DEF NamespaceInv, Judged

LEMMA TouchedIsSound ==
  ASSUME NamespaceInv, NEW t \in Worker, NEW b \in BOOLEAN
  PROVE  Sound(t, proc[t], stage[t], [ns[t] EXCEPT !.lock = b, !.age = 0], kept[t], harness)
<1> DEFINE n == [ns[t] EXCEPT !.lock = b, !.age = 0]
<1>1. n \in Namespaces /\ n.marker = ns[t].marker /\ n.dir = ns[t].dir /\ n.age = 0
  BY Own, NoAge DEF Namespaces
<1> HIDE DEF n
<1>2. Recent(proc[t], stage[t], n, kept[t])
  <2>1. \A r \in Activation : 0 <= kept[t][r]
    BY Own, NoAge DEF Ages
  <2> QED BY <1>1, <2>1, Own DEF Sound, Recent
<1>3. Sound(t, proc[t], stage[t], n, kept[t], harness)
  BY <1>1, <1>2, Own DEF Sound
<1> QED BY <1>3 DEF n

LEMMA TakeLockInv ==
  ASSUME NamespaceInv, NEW w \in Worker, NEW t \in Worker, N!TakeLock(w, t) PROVE NamespaceInv'
<1>1. /\ proc[w].sweep = "judged" /\ proc[w].target = t /\ UNCHANGED <<stage, harness, kept>>
      /\ kept' = [kept EXCEPT ![t] = kept[t]] /\ proc[t].pc = "dead" /\ Kept(kept[t])
  BY Own, Target DEF N!TakeLock
<1>2. CASE ns[t].exists /\ ~ns[t].lock
  <2> DEFINE n == [ns[t] EXCEPT !.lock = TRUE, !.age = 0]
  <2>1. ns' = [ns EXCEPT ![t] = n]
    BY <1>2, Own DEF N!TakeLock
  <2>2. proc' = [proc EXCEPT ![w].sweep = "locked", ![w].target = t]
    BY <1>2 DEF N!TakeLock, N!Sweeping
  <2>3. Sound(t, proc[t], stage[t], n, kept[t], harness)
    BY TouchedIsSound
  <2> HIDE DEF n
  <2> QED BY <1>1, <2>1, <2>2, <2>3, SweepStep
<1>3. CASE ~(ns[t].exists /\ ~ns[t].lock)
  <2>1. ns' = [ns EXCEPT ![t] = ns[t]]
    BY <1>3, Own DEF N!TakeLock
  <2>2. proc' = [proc EXCEPT ![w].sweep = "none", ![w].target = w]
    BY <1>3 DEF N!TakeLock, N!Sweeping, N!Done
  <2> QED BY <1>1, <2>1, <2>2, Own, SweepStep
<1> QED BY <1>2, <1>3

LEMMA ReclaimInv ==
  ASSUME NamespaceInv, NEW w \in Worker, NEW t \in Worker, N!Reclaim(w, t) PROVE NamespaceInv'
<1> DEFINE n == [ns[t] EXCEPT !.lock = FALSE, !.age = 0]
<1>1. /\ proc[w].sweep = "locked" /\ proc[w].target = t /\ UNCHANGED <<stage, harness>>
      /\ proc' = [proc EXCEPT ![w].sweep = "none", ![w].target = w]
  BY DEF N!Reclaim, N!Sweeping, N!Done
<1>2. proc[t].pc = "dead" /\ Kept(kept[t])
  BY <1>1, Target
<1>3. CASE ns' = [ns EXCEPT ![t] = N!Absent] /\ kept' = [kept EXCEPT ![t] = N!NoDirs]
  <2>1. Written(t, stage[t], N!Absent.marker, harness)
    BY AbsentIsSound DEF Written
  <2>2. Recent(proc[t], stage[t], N!Absent, N!NoDirs)
    BY NoAge DEF Recent, N!NoDirs
  <2>3. Sound(t, proc[t], stage[t], N!Absent, N!NoDirs, harness)
    BY <2>1, <2>2, NoAge, AbsentIsSound, Own DEF Sound
  <2> QED BY <1>1, <1>2, <1>3, <2>3, NoAge, SweepStep
<1>4. CASE ns' = [ns EXCEPT ![t] = n] /\ kept' = kept
  <2>1. Sound(t, proc[t], stage[t], n, kept[t], harness)
    BY TouchedIsSound
  <2> HIDE DEF n
  <2> QED BY <1>1, <1>2, <1>4, <2>1, Own, SweepStep
<1>5. \/ ns' = [ns EXCEPT ![t] = N!Absent] /\ kept' = [kept EXCEPT ![t] = N!NoDirs]
      \/ ns' = [ns EXCEPT ![t] = n] /\ kept' = kept
  BY Own DEF N!Reclaim
<1> QED BY <1>3, <1>4, <1>5

LEMMA NamespaceStepInv ==
  ASSUME NamespaceInv, N!NNext \/ UNCHANGED nvars PROVE NamespaceInv'
<1>1. CASE UNCHANGED nvars
  BY <1>1 DEF nvars, NamespaceInv, NamespaceTypes, Judged
<1>2. CASE N!Tick \/ \E h \in harness : N!HarnessEnds(h)
  BY <1>2, NTickInv, HarnessEndsInv
<1>3. ASSUME NEW w \in Worker, N!Allocate(w) \/ N!RecordOwner(w) \/ N!Crash(w) \/ N!ReapOwn(w)
      PROVE  NamespaceInv'
  BY <1>3, AllocateInv, RecordOwnerInv, CrashInv, ReapOwnInv
<1>4. ASSUME NEW w \in Worker, NEW t \in Worker, N!Judge(w, t) \/ N!TakeLock(w, t) \/ N!Reclaim(w, t)
      PROVE  NamespaceInv'
  BY <1>4, JudgeInv, TakeLockInv, ReclaimInv
<1>5. ASSUME NEW w \in Worker, NEW r \in Activation,
             \/ N!StartJob(w, r) \/ N!AbandonSetup(w, r) \/ N!WriteMarker(w, r) \/ N!Spawn(w, r)
             \/ N!Nudge(w, r) \/ (\E turn \in {1, 2} : N!RecordPid(w, r, turn)) \/ N!EndJob(w, r)
      PROVE  NamespaceInv'
  BY <1>5, StartJobInv, WriteMarkerInv, SpawnInv, RecordPidInv, EndJobInv
<1> QED BY <1>1, <1>2, <1>3, <1>4, <1>5 DEF N!NNext

(* A directory that goes was its worker's to take, or a dead worker's with  *)
(* no harness in it that its marker vouches for, and nothing in it was      *)
(* preserved within a window.                                               *)
Taken(w, r) ==
  /\ N!InFlight(w, r) => ~N!InFlight(w, r)'
  /\ ns[w].marker.by = {r} => \A turn \in {1, 2} :
       <<w, r, turn>> \in harness => turn = 2 /\ <<r, 2>> \notin ns[w].marker.pids
  /\ kept[w][r] >= ReapAge

LEMMA NoHarness ==
  ASSUME NamespaceInv, NEW w \in Worker, NEW r \in Activation, ~(kept[w][r] < ReapAge),
         <<w, r, 1>> \notin harness, <<w, r, 2>> \notin harness,
         N!InFlight(w, r) => ~N!InFlight(w, r)'
  PROVE  Taken(w, r)
<1>1. kept[w][r] \in 0..N!NoDir
  BY Own DEF Ages
<1> QED BY <1>1, NoAge DEF Taken

(* The namespace of a dead worker in which no harness counts as alive.      *)
LEMMA NoneAlive ==
  ASSUME NamespaceInv, NEW w \in Worker, NEW r \in Activation, proc[w].pc = "dead", Kept(kept[w]),
         ~N!HasLiveHarness(w)
  PROVE  Taken(w, r)
<1>1. /\ ns[w].marker \in Markers /\ Written(w, stage[w], ns[w].marker, harness)
  BY Own DEF Namespaces, Sound
<1>2. ASSUME ns[w].marker.by = {r}
      PROVE  ns[w].marker.pids # {} /\ \A p \in ns[w].marker.pids : <<w, p[1], p[2]>> \notin harness
  BY <1>1, <1>2 DEF N!HasLiveHarness, Written
<1>3. ASSUME ns[w].marker.by = {r}, <<w, r, 1>> \in harness
      PROVE  FALSE
  <2>1. PICK p \in ns[w].marker.pids : <<w, p[1], p[2]>> \notin harness
    BY <1>2, <1>3
  <2>2. p = <<p[1], p[2]>> /\ p[1] \in Activation /\ p[2] \in {1, 2}
    BY <1>1 DEF Markers
  <2>3. p[1] = r
    BY <1>1, <1>3, <2>1, <2>2 DEF Written
  <2>4. p[2] = 2
    BY <1>3, <2>1, <2>2, <2>3
  <2> QED BY <1>1, <1>3, <2>1, <2>2, <2>3, <2>4 DEF Written
<1>4. ASSUME ns[w].marker.by = {r}, <<w, r, 2>> \in harness
      PROVE  <<r, 2>> \notin ns[w].marker.pids
  BY <1>2, <1>4
<1> QED BY <1>3, <1>4 DEF Taken, Kept, N!InFlight

LEMMA StepTakesUnused ==
  ASSUME NamespaceInv, N!NNext \/ UNCHANGED nvars PROVE N!TakesUnused
<1> SUFFICES ASSUME NEW v \in Worker, NEW q \in Activation,
                    ns[v].dir[q] # N!NoDir, ns'[v].dir[q] = N!NoDir
    PROVE  Taken(v, q)
  BY DEF N!TakesUnused, Taken
<1>1. /\ ns \in [Worker -> Namespaces] /\ ns[v].dir \in Ages /\ proc[v] \in Processes
      /\ stage \in [Worker -> Stages] /\ Sound(v, proc[v], stage[v], ns[v], kept[v], harness)
  BY DEF NamespaceInv, NamespaceTypes, Namespaces
<1>2. CASE N!Tick
  <2>1. ns'[v].dir = N!Aged(ns[v].dir)
    BY <1>1, <1>2 DEF N!Tick, Namespaces
  <2> QED BY <1>1, <2>1, Ageing
<1>3. ASSUME NEW w \in Worker, N!Allocate(w) PROVE Taken(v, q)
  <2>1. v # w => ns'[v] = ns[v]
    BY <1>1, <1>3 DEF N!Allocate
  <2>2. v = w => /\ ~(kept[v][q] < ReapAge) /\ <<v, q, 1>> \notin harness
                 /\ <<v, q, 2>> \notin harness /\ ~N!InFlight(v, q)
    BY <1>1, <1>3 DEF N!Allocate, Sound, Placed, Recent, N!InFlight
  <2> QED BY <2>1, <2>2, NoHarness
<1>4. ASSUME NEW w \in Worker, N!RecordOwner(w) PROVE Taken(v, q)
  <2>1. ns'[v].dir = ns[v].dir
    BY <1>1, <1>4 DEF N!RecordOwner, Namespaces
  <2> QED BY <2>1
<1>5. ASSUME NEW w \in Worker, NEW r \in Activation,
             \/ N!Spawn(w, r) \/ N!Nudge(w, r) \/ N!WriteMarker(w, r)
             \/ \E turn \in {1, 2} : N!RecordPid(w, r, turn)
      PROVE  Taken(v, q)
  <2>1. \/ ns' = ns
        \/ \E m : ns' = [ns EXCEPT ![w].marker = m]
    BY <1>5 DEF N!Spawn, N!Nudge, N!WriteMarker, N!RecordPid
  <2>2. ns'[v].dir = ns[v].dir
    BY <1>1, <2>1 DEF Namespaces
  <2> QED BY <2>2
<1>6. ASSUME NEW w \in Worker, NEW r \in Activation,
             N!StartJob(w, r) \/ N!AbandonSetup(w, r) \/ N!EndJob(w, r)
      PROVE  Taken(v, q)
  <2>1. v # w => ns'[v] = ns[v]
    BY <1>1, <1>6 DEF N!StartJob, N!AbandonSetup, N!EndJob
  <2>2. v = w /\ q # r => ns'[v].dir[q] = ns[v].dir[q]
    <3> SUFFICES ASSUME v = w, q # r PROVE ns'[v].dir[q] = ns[v].dir[q]
      OBVIOUS
    <3>1. \E d, m : ns'[w] = [ns[w] EXCEPT !.marker = m, !.dir[r] = d, !.age = 0]
      <4>1. CASE N!StartJob(w, r) \/ N!AbandonSetup(w, r)
        <5>1. PICK d : ns' = [ns EXCEPT ![w].dir[r] = d, ![w].age = 0]
          BY <4>1 DEF N!StartJob, N!AbandonSetup
        <5>2. ns'[w] = [ns[w] EXCEPT !.marker = ns[w].marker, !.dir[r] = d, !.age = 0]
          BY <1>1, <5>1 DEF Namespaces
        <5> QED BY <5>2
      <4>2. CASE N!EndJob(w, r)
        <5>1. PICK d : ns' = [ns EXCEPT ![w] =
                                [ns[w] EXCEPT !.marker = N!NoMarker, !.dir[r] = d, !.age = 0]]
          BY <4>2 DEF N!EndJob, N!RemoveJobMarker, N!Preserve
        <5> QED BY <1>1, <5>1
      <4> QED BY <1>6, <4>1, <4>2
    <3> QED BY <1>1, <3>1 DEF Namespaces, Ages
  <2>3. CASE v = w /\ q = r
    <3>1. CASE N!StartJob(w, r)
      <4>1. ns'[v].dir[q] = 0
        BY <1>1, <2>3, <3>1 DEF N!StartJob, Namespaces, Ages
      <4>2. N!NoDir # 0
        BY NoAge
      <4> QED BY <2>3, <4>1, <4>2
    <3>2. CASE N!AbandonSetup(w, r) \/ N!EndJob(w, r)
      <4>1. /\ proc[v].pc = "up" /\ stage[v][q] \in {"setup", "ready", "runs", "nudged"}
            /\ stage'[v][q] = "over"
        BY <1>1, <2>3, <3>2 DEF N!AbandonSetup, N!EndJob, N!InStage, N!To, Stages
      <4>2. stage[v][q] \in {"runs", "nudged"} => <<v, q, 1>> \notin harness /\ <<v, q, 2>> \notin harness
        BY <2>3, <3>2 DEF N!AbandonSetup, N!EndJob, N!InStage
      <4>3. <<v, q, 1>> \notin harness /\ <<v, q, 2>> \notin harness /\ ~(kept[v][q] < ReapAge)
        BY <4>1, <4>2, AtStage
      <4>4. ~N!InFlight(v, q)'
        BY <4>1 DEF N!InFlight
      <4> QED BY <4>3, <4>4, NoHarness
    <3> QED BY <1>6, <3>1, <3>2
  <2> QED BY <2>1, <2>2, <2>3
<1>7. ASSUME NEW w \in Worker, N!ReapOwn(w) PROVE Taken(v, q)
  <2>1. v # w => ns'[v] = ns[v]
    BY <1>1, <1>7 DEF N!ReapOwn
  <2>2. CASE v = w
    <3>1. proc[v].pc = "up" /\ ~N!InFlight(v, q) /\ ns[v].dir[q] = ReapAge
      BY <1>1, <1>7, <2>2 DEF N!ReapOwn, Namespaces, Ages
    <3>2. stage[v][q] \in {"none", "over"}
      BY <3>1 DEF N!InFlight
    <3>3. <<v, q, 1>> \notin harness /\ <<v, q, 2>> \notin harness
      BY <3>1, <3>2, AtStage
    <3>4. ~(kept[v][q] < ReapAge)
      <4>1. kept[v][q] \in 0..N!NoDir /\ (kept[v][q] < ReapAge => ns[v].dir[q] <= kept[v][q])
        BY <1>1 DEF Sound, Recent, Ages
      <4> QED BY <3>1, <4>1, NoAge
    <3> QED BY <3>1, <3>3, <3>4, NoHarness
  <2> QED BY <2>1, <2>2
<1>8. ASSUME NEW w \in Worker, NEW t \in Worker, N!Judge(w, t) \/ N!TakeLock(w, t) PROVE Taken(v, q)
  <2>1. ns'[v].dir = ns[v].dir
    BY <1>1, <1>8 DEF N!Judge, N!TakeLock, Namespaces
  <2> QED BY <2>1
<1>9. ASSUME NEW w \in Worker, NEW t \in Worker, N!Reclaim(w, t) PROVE Taken(v, q)
  <2>1. proc[t].pc = "dead" /\ Kept(kept[t])
    BY <1>9, Target DEF N!Reclaim
  <2>2. v # t => ns'[v] = ns[v]
    BY <1>1, <1>9 DEF N!Reclaim
  <2>3. v = t /\ N!HasLiveHarness(t) => ns'[v].dir = ns[v].dir
    BY <1>1, <1>9 DEF N!Reclaim, Namespaces
  <2>4. v = t /\ ~N!HasLiveHarness(t) => Taken(v, q)
    BY <2>1, NoneAlive
  <2> QED BY <2>2, <2>3, <2>4
<1>10. CASE UNCHANGED nvars \/ (\E h \in harness : N!HarnessEnds(h)) \/ \E w \in Worker : N!Crash(w)
  BY <1>10 DEF nvars, N!HarnessEnds, N!Crash
<1> QED BY <1>2, <1>3, <1>4, <1>5, <1>6, <1>7, <1>8, <1>9, <1>10 DEF N!NNext

LEMMA NamespaceInvTypes == NamespaceInv => N!NTypeOK
BY DEF NamespaceInv, NamespaceTypes, N!NTypeOK, Processes, Namespaces, Stages, Ages, Markers, Harnesses

PartNamespace == part = "namespace" => NamespaceInv

(* A step of a job is a step of its namespace, or leaves it alone.          *)
LEMMA StepsOfNamespace ==
  ASSUME [JobNext]_jobVars, part = "namespace" \/ part' = "namespace"
  PROVE  part' = part /\ (N!NNext \/ UNCHANGED nvars)
<1>1. CASE NamespaceStep
  BY <1>1 DEF NamespaceStep, InNamespace, N!NNext
<1>2. CASE ~NamespaceStep
  BY <1>2 DEF JobNext, LockStep, GitStep, JobStep, CaptureStep, TerminalStep, LogStep,
     InLock, InGit, InJob, InCapture, InTerminal, InLog, jobVars
<1> QED BY <1>1, <1>2

LEMMA PartNamespaceInv == JobSpec => []PartNamespace
<1>1. JobInit => PartNamespace
  BY NamespaceInitInv DEF JobInit, PartNamespace
<1>2. PartNamespace /\ [JobNext]_jobVars => PartNamespace'
  BY StepsOfNamespace, NamespaceStepInv DEF PartNamespace
<1> QED BY <1>1, <1>2, PTL DEF JobSpec

(* reapOwnedNamespace, reclaimOrphanNamespaces, writeJobMarker and the      *)
(* touch of preserveOrDiscard: for any number of workers that start, die    *)
(* and sweep in any order, and of activations that share a marker, no       *)
(* reaper takes the directory of an activation that a live worker runs, nor *)
(* one a harness of the dead works in where its marker stands and no other  *)
(* activation wrote to it, nor one preserved within a window.               *)
THEOREM ReapersTakeTheUnused == JobSpec => NeverUnderUse
<1>1. PartNamespace /\ [JobNext]_jobVars => [part = "namespace" => N!TakesUnused]_jobVars
  BY StepsOfNamespace, StepTakesUnused DEF PartNamespace
<1> QED BY <1>1, PartNamespaceInv, PTL DEF JobSpec, NeverUnderUse
=============================================================================
