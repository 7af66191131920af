------------------------------ MODULE GitWork ------------------------------
(***************************************************************************)
(* The workspace of a repository job: provisionRepo clones it and chooses  *)
(* the branch the agent works on, the agent does with it what it likes,    *)
(* and finalizeGit enumerates what it committed and pushes it, or refuses  *)
(* and says which commits are stranded.  shouldPreserveRunDir keeps the    *)
(* workspace exactly when the push failed.                                 *)
(*                                                                         *)
(* A tip is the set of commits it reaches beyond the clone: the agent's    *)
(* are 1..MaxCommits, 0 is a commit of somebody else.                      *)
(***************************************************************************)
EXTENDS Naturals, FiniteSets

CONSTANTS MaxCommits,   \* bound: commits of the agent
          MaxFaults     \* bound: git and gh calls that fail

BoundAssumption == {MaxCommits, MaxFaults} \subseteq Nat

VARIABLES req,     \* what the job envelope asks for
          pc,
          plan,    \* what provisioning decided
          ws,      \* the local clone
          remote,  \* branches of the remote
          pub,     \* commits the remote ever held
          out,     \* what finalizeGit reports
          made,    \* commits of the agent so far
          faults
gvars == <<req, pc, plan, ws, remote, pub, out, made, faults>>

None == "none"                          \* no branch, no ref: empty in the envelope
Default == "main"                       \* the remote's default branch
Conventional == {"main"}                \* CONVENTIONAL_BASE_BRANCHES
Branch == {"main", "dev", "feat", "fallback", "side"}
MaybeBranch == Branch \union {None}
Commit == 0..MaxCommits
At(refs, b) == IF b \in DOMAIN refs THEN refs[b] ELSE {}
Reach(refs) == UNION {refs[b] : b \in DOMAIN refs}
Put(refs, b, tip) == [x \in DOMAIN refs \union {b} |-> IF x = b THEN tip ELSE refs[x]]

(* One git call that fails or times out; the answer of any other is exact.  *)
Fault(bad) == IF bad THEN faults < MaxFaults /\ faults' = faults + 1 ELSE UNCHANGED faults
Rest == UNCHANGED <<remote, pub, made>>

NoPlan == [push |-> FALSE, working |-> None, base |-> None, unsure |-> FALSE, unborn |-> FALSE,
           baseline |-> FALSE]
NoOut == [pushed |-> FALSE, pushFailed |-> FALSE, scanFailed |-> FALSE, scanError |-> FALSE,
          commits |-> {}, strays |-> {}, onBranch |-> {}, stranded |-> {}, retried |-> FALSE,
          advanced |-> "unknown", pr |-> FALSE]
Request == [push : BOOLEAN, create : {None, "main", "feat"}, base : {None, "main"},
            baseRef : {None, "dev"}, ref : {None, "dev", "tag", "sha"}, empty : BOOLEAN]

GInit == /\ req \in Request /\ (req.empty => req.ref = None /\ req.base = None)
         /\ pc = "clone" /\ plan = NoPlan /\ out = NoOut /\ made = 0 /\ faults = 0
         /\ remote = [b \in IF req.empty THEN {} ELSE {"main", "dev"} |-> {}]
         /\ pub = {} /\ ws = [head |-> None, tip |-> {}, refs |-> <<>>, log |-> {}, track |-> <<>>]

-----------------------------------------------------------------------------
(* provisionRepo.                                                           *)

Configured == IF req.base # None THEN req.base ELSE req.baseRef
Landing == IF req.ref \in {"tag", "sha"} THEN None
           ELSE IF req.ref # None THEN req.ref ELSE IF req.base # None THEN req.base ELSE Default

(* A failed clone is retried once when the cached gh token was refused.     *)
Clone ==
  /\ pc \in {"clone", "reclone"}
  /\ \/ /\ pc' = "checkout" /\ UNCHANGED faults
        /\ ws' = [ws EXCEPT !.track = remote, !.head = Landing,
                            !.refs = IF req.empty \/ Landing = None THEN <<>>
                                     ELSE [b \in {Landing} |-> At(remote, Landing)],
                            !.tip = At(remote, Landing), !.log = At(remote, Landing)]
     \/ /\ Fault(TRUE) /\ UNCHANGED ws
        /\ \/ pc = "clone" /\ pc' = "reclone"
           \/ pc' = "refused"
  /\ Rest /\ UNCHANGED <<req, plan, out>>

ShaCheckout == IF req.ref = "sha" THEN {"baseline", "refused"} ELSE {"baseline"}
Checkout == /\ pc = "checkout" /\ \E p \in ShaCheckout : pc' = p /\ Fault(p = "refused")
            /\ Rest /\ UNCHANGED <<req, plan, ws, out>>

(* The clone-time tip of a configured base, for the later staleness check;  *)
(* a base fetch that fails is only reported.                                *)
Baseline ==
  /\ pc = "baseline" /\ pc' = "branch"
  /\ \E known \in BOOLEAN :
       /\ Fault(Configured # None /\ ~known) /\ (Configured = None => ~known)
       /\ plan' = [plan EXCEPT !.baseline = known]
  /\ Rest /\ UNCHANGED <<req, ws, out>>

CheckedOut == IF ws.head \in DOMAIN ws.refs THEN ws.head ELSE None
Unborn == IF req.empty THEN ws.head ELSE None
EffectiveBase ==
  CASE Configured # None -> Configured
    [] CheckedOut # None \/ Unborn # None -> IF CheckedOut # None THEN CheckedOut ELSE Unborn
    [] OTHER -> IF req.ref = "sha" THEN Default ELSE None

(* The remote's default branch is needed when the branch to work on is not  *)
(* the base; origin/HEAD and then the remote may fail to name it.  A create *)
(* that the remote already has, or may have, then counts as the default.    *)
ResolveDefault == /\ req.push
                  /\ \/ req.create # None /\ req.create # EffectiveBase
                     \/ req.create = None /\ CheckedOut # None /\ CheckedOut # EffectiveBase

\* Mutated form: a create is taken at its word.
UnverifiedNever(default, probed) == FALSE

Unverified(default, probed) ==
  /\ ResolveDefault /\ req.create # None /\ default = None /\ Configured = None
  /\ req.create \in DOMAIN remote \/ ~probed
NamesBase(name, default, unverified) ==
  name = EffectiveBase \/ (default # None /\ name = default) \/ unverified

WorkBranch(default, unverified) ==
  LET names == NamesBase(req.create, default, unverified)
      known == EffectiveBase # None \/ default # None
      baseLike == NamesBase(CheckedOut, default, unverified) \/ CheckedOut \in Conventional
      unresolved == default = None /\ CheckedOut # EffectiveBase
  IN IF req.create # None /\ ~(req.push /\ names) THEN req.create
     ELSE IF req.push /\ CheckedOut # None
     THEN IF known /\ ~baseLike /\ req.create = None /\ ~unresolved THEN CheckedOut ELSE "fallback"
     ELSE IF req.push /\ (Unborn # None \/ req.create # None) THEN "fallback"
     ELSE IF CheckedOut # None THEN CheckedOut ELSE Unborn

(* checkout -B: the branch starts at HEAD.                                  *)
ChooseBranch ==
  /\ pc = "branch"
  /\ \E default \in IF ResolveDefault THEN {Default, None} ELSE {None}, probed \in BOOLEAN :
       LET lost == ResolveDefault /\ default = None
           w == WorkBranch(default, Unverified(default, probed))
       IN /\ Fault(lost) /\ (lost \/ probed)
          /\ plan' = [plan EXCEPT !.working = w, !.push = req.push, !.base = EffectiveBase,
                        !.unsure = lost /\ Configured # None /\ w = Default, !.unborn = req.empty,
                        !.baseline = @ \/ (Configured = None /\ EffectiveBase \in DOMAIN ws.track)]
          /\ ws' = IF w = None THEN ws
                   ELSE [ws EXCEPT !.head = w, !.refs = IF req.empty THEN @ ELSE Put(@, w, ws.tip)]
          /\ req' = [req EXCEPT !.push = FALSE, !.create = None, !.base = None, !.baseRef = None,
                                !.ref = None, !.empty = FALSE]
  /\ pc' = "work" /\ Rest /\ UNCHANGED out

(* throwIfAborted between the steps; a git command that cannot run throws.  *)
ProvisionFails ==
  /\ pc \in {"checkout", "baseline", "branch"} /\ Fault(TRUE) /\ pc' = "refused"
  /\ Rest /\ UNCHANGED <<req, plan, ws, out>>

-----------------------------------------------------------------------------
(* The agent, and whoever else works on the remote.                         *)

AgentCommit ==
  /\ pc = "work" /\ made < MaxCommits /\ made' = made + 1
  /\ LET tip == ws.tip \union {made + 1}
     IN ws' = [ws EXCEPT !.tip = tip, !.log = @ \union tip,
                         !.refs = IF ws.head = None THEN @ ELSE Put(@, ws.head, tip)]
  /\ UNCHANGED <<req, pc, plan, remote, pub, out, faults>>

AgentSwitch ==
  /\ pc = "work"
  /\ \/ \E b \in DOMAIN ws.refs :
          ws' = [ws EXCEPT !.head = b, !.tip = ws.refs[b], !.log = @ \union ws.refs[b]]
     \/ ws' = [ws EXCEPT !.head = None]                                     \* --detach
     \/ /\ "side" \notin DOMAIN ws.refs
        /\ ws' = [ws EXCEPT !.head = "side", !.refs = Put(@, "side", ws.tip)]
     \/ ws' = [ws EXCEPT !.tip = {}, !.refs =                             \* reset --hard
                           IF ws.head = None THEN @ ELSE Put(@, ws.head, {})]
     \/ \E b \in DOMAIN ws.refs \ {ws.head} :                             \* branch -D
          ws' = [ws EXCEPT !.refs = [x \in DOMAIN ws.refs \ {b} |-> ws.refs[x]]]
  /\ UNCHANGED <<req, pc, plan, remote, pub, out, made, faults>>

Publish(b) == /\ At(remote, b) \subseteq ws.refs[b]
              /\ remote' = Put(remote, b, ws.refs[b]) /\ pub' = pub \union ws.refs[b]
AgentPush ==
  /\ pc = "work"
  /\ \E b \in DOMAIN ws.refs : Publish(b) /\ ws' = [ws EXCEPT !.track = Put(@, b, ws.refs[b])]
  /\ UNCHANGED <<req, pc, plan, out, made, faults>>

OtherMoves ==
  /\ pc \in {"work", "push", "verify"} /\ 0 \notin pub
  /\ \E b \in {plan.working, plan.base} \ {None} : remote' = Put(remote, b, At(remote, b) \union {0})
  /\ pub' = pub \union {0} /\ UNCHANGED <<req, pc, plan, ws, out, made, faults>>

AgentEnds == /\ pc = "work" /\ pc' = "scan"
             /\ UNCHANGED <<req, plan, ws, remote, pub, out, made, faults>>

-----------------------------------------------------------------------------
(* finalizeGit.                                                             *)

Unpushed == Reach(ws.track)
OnBranch == At(ws.refs, plan.working)
NoCommitYet == plan.unborn /\ ws.head # None /\ ws.head \notin DOMAIN ws.refs
Missing == plan.working # None /\ plan.working \notin DOMAIN ws.refs /\ ~NoCommitYet

\* Mutated form: the reflog is not looked at, and no scan fails.
ScanWithoutReflog ==
  /\ pc = "scan" /\ pc' = "decide"
  /\ out' = [out EXCEPT !.scanFailed = Missing, !.commits = ws.tip,
       !.strays = IF plan.push THEN (Reach(ws.refs) \ Unpushed) \ OnBranch ELSE {},
       !.onBranch = OnBranch]
  /\ Rest /\ UNCHANGED <<req, plan, ws, faults>>

(* The four scans: HEAD, every local branch, the reflog, the work branch.   *)
Scan ==
  /\ pc = "scan" /\ pc' = "decide"
  /\ \E bad \in {{}} \union {{s} : s \in {"head", "branches", "reflog", "work"}} :
       /\ Fault(bad # {})
       /\ LET Found(s, set) == IF s \in bad \/ (Missing /\ s # "head") THEN {} ELSE set
              looks == plan.working # None /\ plan.push
          IN out' = [out EXCEPT
               !.scanFailed = bad # {} \/ Missing,
               !.commits = Found("head", ws.tip),
               !.strays = IF ~looks THEN {}
                          ELSE Found("branches", (Reach(ws.refs) \ Unpushed) \ OnBranch)
                               \union Found("reflog", (ws.log \ Unpushed) \ OnBranch),
               !.onBranch = IF NoCommitYet THEN {} ELSE Found("work", OnBranch)]
  /\ Rest /\ UNCHANGED <<req, plan, ws>>

Decide ==
  /\ pc = "decide" /\ Rest /\ UNCHANGED <<req, plan, ws, faults>>
  /\ LET found == out.commits \union out.strays \union out.onBranch
     IN \/ /\ plan.working = None \/ ~plan.push \/ (~out.scanFailed /\ found = {})
           /\ pc' = "pr" /\ UNCHANGED out
        \/ /\ plan.working # None /\ plan.push /\ out.scanFailed
           /\ pc' = "pr"
           /\ out' = [out EXCEPT !.pushFailed = TRUE, !.scanError = TRUE, !.stranded = found]
        \/ /\ plan.working # None /\ plan.push /\ ~out.scanFailed /\ found # {}
           /\ pc' = "moved" /\ UNCHANGED out

(* The agent moved HEAD off the work branch, or left commits elsewhere: the *)
(* branch is not pushed.  A scan that fails keeps the larger set.           *)
RefuseStrays ==
  /\ pc = "moved"
  /\ \E lostHead \in BOOLEAN, lostScan \in BOOLEAN :
       LET movedOff == lostHead \/ ws.head # plan.working
           moved == CASE ~movedOff -> {}
                      [] movedOff /\ lostScan -> out.commits \ out.onBranch
                      [] OTHER -> (ws.tip \ Unpushed) \ OnBranch
           strays == moved \union out.strays
       IN /\ Fault(lostHead \/ lostScan)
          /\ IF strays = {}
             THEN /\ pc' = "stale"
                  /\ out' = [out EXCEPT !.scanFailed = lostScan /\ movedOff, !.commits = out.onBranch]
             ELSE /\ pc' = "pr"
                  /\ out' = [out EXCEPT !.pushFailed = TRUE, !.scanError = lostScan,
                       !.stranded = strays \union
                          (IF lostScan THEN out.onBranch ELSE out.onBranch \ Unpushed)]
  /\ Rest /\ UNCHANGED <<req, plan, ws>>

(* Has the base moved since the clone?  It is only reported.                *)
CheckStale ==
  /\ pc = "stale" /\ pc' = "push"
  /\ \E bad \in BOOLEAN :
       /\ Fault(bad)
       /\ out' = [out EXCEPT !.advanced =
            IF bad \/ plan.base \notin DOMAIN remote \/ ~plan.baseline THEN "unknown"
            ELSE IF remote[plan.base] # {} THEN "yes" ELSE "no"]
  /\ Rest /\ UNCHANGED <<req, plan, ws>>

(* An auth failure of the cached gh token is retried once with a fresh one. *)
Push ==
  /\ pc = "push" /\ UNCHANGED <<req, plan, made>>
  /\ \/ /\ plan.working \in DOMAIN ws.refs /\ Publish(plan.working)
        /\ \E lost \in BOOLEAN :                 \* it landed, but git said otherwise
             /\ Fault(lost) /\ pc' = IF lost THEN "verify" ELSE "pr"
             /\ out' = [out EXCEPT !.pushed = ~lost]
             /\ ws' = IF lost THEN ws
                      ELSE [ws EXCEPT !.track = Put(@, plan.working, ws.refs[plan.working])]
     \/ /\ ~(At(remote, plan.working) \subseteq At(ws.refs, plan.working))
        /\ pc' = "verify" /\ UNCHANGED <<ws, remote, pub, out, faults>>
     \/ /\ Fault(TRUE) /\ UNCHANGED <<ws, remote, pub>>
        /\ \/ pc' = "verify" /\ UNCHANGED out
           \/ /\ ~out.retried                    \* the token came from the gh cache
              /\ pc' = "push" /\ out' = [out EXCEPT !.retried = TRUE]

(* git push failed: did it land all the same?  Otherwise say what is not    *)
(* on the remote; when the remote could not be asked, say that too.         *)
VerifyPush ==
  /\ pc = "verify" /\ pc' = "pr"
  /\ \E unread \in BOOLEAN, lostScan \in BOOLEAN :
       LET tip == At(remote, plan.working)
           asked == ~unread /\ plan.working \in DOMAIN remote
           landed == asked /\ OnBranch \subseteq tip /\ (OnBranch # {} => tip # {})
           left == out.commits \union out.onBranch
           seen == IF asked THEN Unpushed \union tip ELSE Unpushed
       IN /\ Fault(unread \/ lostScan)
          /\ out' = IF landed THEN [out EXCEPT !.pushed = TRUE]
                    ELSE [out EXCEPT !.pushFailed = TRUE,
                            !.stranded = IF lostScan THEN left ELSE left \ seen,
                            !.scanError = out.scanFailed \/ lostScan \/ ~asked]
  /\ Rest /\ UNCHANGED <<req, plan, ws>>

(* Find the pull request of the branch; gh may fail.                        *)
ReconcilePr ==
  /\ pc = "pr" /\ pc' = "done"
  /\ \E found \in BOOLEAN :
       out' = [out EXCEPT !.pr = found /\ plan.working # None /\ ~out.pushFailed]
  /\ Rest /\ UNCHANGED <<req, plan, ws, faults>>

GNext == \/ Clone \/ Checkout \/ Baseline \/ ChooseBranch \/ ProvisionFails
         \/ AgentCommit \/ AgentSwitch \/ AgentPush \/ OtherMoves \/ AgentEnds
         \/ Scan \/ Decide \/ RefuseStrays \/ CheckStale \/ Push \/ VerifyPush \/ ReconcilePr

GSpec == GInit /\ [][GNext]_gvars

-----------------------------------------------------------------------------
GTypeOK ==
  /\ pc \in {"clone", "reclone", "checkout", "baseline", "branch", "work", "scan", "decide",
             "moved", "stale", "push", "verify", "pr", "done", "refused"}
  /\ made \in Commit /\ pub \subseteq Commit /\ faults \in 0..MaxFaults
  /\ plan.working \in MaybeBranch /\ out.stranded \subseteq Commit /\ ws.log \subseteq Commit

(* What the agent committed on a job that pushes was on the remote once, or *)
(* the push is reported as failed, which keeps the workspace, and the       *)
(* report names every commit that is missing or owns up to a failed scan.   *)
NothingLost ==
  pc = "done" /\ plan.push /\ plan.working # None =>
    LET missing == (1..made) \ pub
    IN missing # {} => out.pushFailed /\ (missing \subseteq out.stranded \/ out.scanError)

(* The work of a job never goes to its base, nor to the default branch of   *)
(* the remote unless a base was configured and the default had no name.     *)
OffTheBase ==
  out.pushed => plan.working # plan.base /\ (plan.working = Default => plan.unsure)
=============================================================================
