---------------------------- MODULE PullRequests ----------------------------
(***************************************************************************)
(* One run of the engine (orchestrator/engine.py) from the first agent     *)
(* turn to its verdict: the builders work in parallel, the checker         *)
(* publishes one pull request per builder and authors one check for each,  *)
(* and finalization takes every pull request through its own gate, review, *)
(* at most one repair, and merge, while the repository belongs to others   *)
(* as well.                                                                *)
(*                                                                         *)
(* A builder is numbered by its place in the run's merge order (every item *)
(* depends on the one before it, integration_plan.create), which is the    *)
(* order of every loop over work items.  Each step of the worker thread    *)
(* that another party can get in between is an action; what that party may *)
(* do to GitHub or to the merge policy is bounded by MaxOutside.           *)
(***************************************************************************)
EXTENDS Integers, TreePatch

CONSTANTS
    N,              \* number of builders routed
    MaxIterations,  \* turns one builder may take (MAX_ITERATIONS)
    BaseTree,       \* the default branch when the run's base was read
    Turns,          \* the trees a builder's turn may leave behind
    Faults,         \* TRUE: gateway calls and the local git may fail
    MaxOutside      \* bound on the steps others take during the run

ASSUME PullRequestsAssumption ==
    /\ N \in Nat \ {0}
    /\ MaxIterations \in Nat \ {0}
    /\ BaseTree \in Trees
    /\ Turns \subseteq Trees \ {BaseTree}
    /\ Faults \in BOOLEAN
    /\ MaxOutside \in Nat

Builders == 1..N
Checker == 0
Roles == 0..N

VARIABLES
    \* the worker thread
    at,         \* where it stands
    cur,        \* the pull request being finalized, 0 before finalization
    todo,       \* items the loop over work items has still to visit
    iterations, \* run.iterations
    status,     \* run.status
    reason,     \* run.fail_reason
    \* the roles
    active,     \* run._active_builders
    progress,   \* run.progress[r].state
    attempt,    \* item.attempt
    work,       \* the role's work tree, of which item._patch is the diff
    \* the evidence
    checks,     \* items with an authored check (run._item_checks)
    green,      \* items whose latest gate run was green
    gateTree,   \* the tree that run was made on
    review,     \* state of the item's latest review round
    reviewed,   \* the work tree that round judged (run._reviewed_digests)
    merge,      \* item.merge_state
    error,      \* the item's row["error"]
    base,       \* run.integration_base_dir
    \* GitHub and the settings file
    branch,     \* the default branch
    renamed,    \* it is no longer the branch the run pinned
    pr,         \* state of the item's pull request
    published,  \* its commit: the parent's tree and its own
    moved,      \* items whose branch head is no longer item.head_sha
    policy,     \* github.merge_policy()
    outside     \* steps others have taken

worker == <<at, cur, todo, iterations, status, reason>>
roleVars == <<active, progress, attempt, work>>
evidence == <<checks, green, gateTree, review, reviewed>>
github == <<branch, renamed, pr, published, moved, policy, outside>>
vars == <<worker, roleVars, evidence, merge, error, base, github>>

Locations ==
    {"building", "publishing", "authoring", "roundOver", "gating", "reviewing",
     "routing", "regating", "rereviewing", "merging", "snapshotting",
     "settling", "done"}
Verdicts == {"approved", "changes_requested", "unavailable"}
MergeStates == {"none", "merged", "human_review", "blocked", "review_unavailable"}
Errors == {"none", "ROLE_EXECUTION_ERROR", "ITERATION_CAP", "GATE_RED",
           "REVIEW_UNAVAILABLE", "MERGE_REFUSED", "SNAPSHOT_FAILED"}
Reasons == {"none", "ROLE_EXECUTION_ERROR", "ROLE_TOTAL_FAILURE",
            "REVIEW_UNAVAILABLE", "ROLE_PR_BLOCKED", "ENGINE_ERROR"}

TypeOK ==
    /\ at \in Locations /\ cur \in 0..N /\ todo \subseteq Builders
    /\ iterations \in Nat
    /\ status \in {"running", "failed", "passed", "needs_human"}
    /\ reason \in Reasons
    /\ active \subseteq Builders
    /\ progress \in [Roles -> {"pending", "working", "done", "error"}]
    /\ attempt \in [Builders -> Nat]
    /\ work \in [Builders -> Trees]
    /\ checks \subseteq Builders /\ green \subseteq Builders
    /\ gateTree \in [Builders -> Trees]
    /\ review \in [Builders -> Verdicts \cup {"none"}]
    /\ reviewed \in [Builders -> Trees]
    /\ merge \in [Builders -> MergeStates]
    /\ error \in [Builders -> Errors]
    /\ base \in Trees /\ branch \in Trees /\ renamed \in BOOLEAN
    /\ pr \in [Builders -> {"none", "open", "closed", "merged"}]
    /\ published \in [Builders -> [parent : Trees, tree : Trees]]
    /\ moved \subseteq Builders
    /\ policy \in {"auto", "human_review"}
    /\ outside \in Nat
-----------------------------------------------------------------------------
(* The states a round starts from: a selected builder is working at once, the
   checker waits unless no builder was selected, and every other role keeps the
   state its last turn left. *)
RoundStates(before, selected) ==
    [r \in Roles |->
        CASE r \in selected -> "working"
          [] r = Checker /\ selected # {} -> "pending"
          [] r = Checker /\ selected = {} -> "working"
          [] OTHER -> before[r]]

Init ==
    /\ at = "building" /\ cur = 0 /\ todo = {} /\ iterations = 1
    /\ status = "running" /\ reason = "none"
    /\ active = Builders
    /\ progress = RoundStates([r \in Roles |-> "pending"], Builders)
    /\ attempt = [b \in Builders |-> 0]
    /\ work = [b \in Builders |-> BaseTree]
    /\ checks = {} /\ green = {}
    /\ gateTree = [b \in Builders |-> BaseTree]
    /\ review = [b \in Builders |-> "none"]
    /\ reviewed = [b \in Builders |-> BaseTree]
    /\ merge = [b \in Builders |-> "none"]
    /\ error = [b \in Builders |-> "none"]
    /\ base = BaseTree /\ branch = BaseTree /\ renamed = FALSE
    /\ pr = [b \in Builders |-> "none"]
    /\ published = [b \in Builders |-> [parent |-> BaseTree, tree |-> BaseTree]]
    /\ moved = {}
    /\ policy \in {"auto", "human_review"}
    /\ outside = 0

First(S, b) == b \in S /\ \A c \in S : b <= c
-----------------------------------------------------------------------------
(* Agent execution: the role graph runs the selected builders in parallel. *)

Turning(b) == at = "building" /\ b \in active /\ progress[b] = "working"

(* A builder's turn leaves a tree that differs from the base it received. *)
BuilderDone(b) ==
    /\ Turning(b)
    /\ \E t \in Turns : work' = [work EXCEPT ![b] = t]
    /\ attempt' = [attempt EXCEPT ![b] = @ + 1]
    /\ progress' = [progress EXCEPT ![b] = "done"]
    /\ UNCHANGED <<worker, active, evidence, merge, error, base, github>>

(* It fails before its tree is read back, or the tree read back is the base. *)
BuilderFails(b) ==
    /\ Turning(b)
    /\ \E t \in {work[b], BaseTree} : work' = [work EXCEPT ![b] = t]
    /\ attempt' = [attempt EXCEPT ![b] = @ + 1]
    /\ progress' = [progress EXCEPT ![b] = "error"]
    /\ UNCHANGED <<worker, active, evidence, merge, error, base, github>>

(* The graph ends early (its budget is spent, or it could not be driven): the
   watchdog turns every role still working or pending into an error. *)
GraphStops ==
    /\ at = "building" /\ progress[Checker] = "pending"
    /\ progress' = [r \in Roles |->
          IF progress[r] \in {"working", "pending"} THEN "error" ELSE progress[r]]
    /\ at' = "roundOver"
    /\ UNCHANGED <<cur, todo, iterations, status, reason, active, attempt, work,
                   evidence, merge, error, base, github>>

(* The AND join: a failed builder counts as finished. *)
CheckerStarts ==
    /\ at = "building"
    /\ \A b \in active : progress[b] \in {"done", "error"}
    /\ progress' = [progress EXCEPT ![Checker] = "working"]
    /\ at' = "publishing" /\ todo' = active
    /\ UNCHANGED <<cur, iterations, status, reason, active, attempt, work,
                   evidence, merge, error, base, github>>
-----------------------------------------------------------------------------
(* The checker's turn, first half: github.publish_work_item for every active
   builder.  The gateway commits the patch's files on the CURRENT head of the
   default branch (commit_changes, from_branch), whatever base they were written
   against, and refuses a branch whose head is not the one last published. *)

Commit(b) ==
    published' = [published EXCEPT ![b] =
        [parent |-> branch, tree |-> Overlay(branch, BaseTree, work[b])]]

Publish(b) ==
    /\ at = "publishing" /\ First(todo, b)
    /\ work[b] # BaseTree /\ b \notin moved
    /\ Commit(b)
    /\ pr' = [pr EXCEPT ![b] = "open"]
    /\ todo' = todo \ {b}
    /\ UNCHANGED <<at, cur, iterations, status, reason, roleVars, evidence, merge,
                   error, base, branch, renamed, moved, policy, outside>>

CheckerErrs ==
    /\ progress' = [progress EXCEPT ![Checker] = "error"]
    /\ at' = "roundOver" /\ todo' = {}

(* It raises when there is nothing to publish, when somebody pushed to the
   branch, or when a call fails: before the commit, between the commit and the
   pull request, or after the pull request is open (labels). *)
PublishFails(b) ==
    /\ at = "publishing" /\ First(todo, b)
    /\ CheckerErrs
    /\ \/ /\ Faults \/ work[b] = BaseTree \/ b \in moved
          /\ UNCHANGED <<published, pr>>
       \/ /\ Faults /\ work[b] # BaseTree /\ b \notin moved
          /\ Commit(b)
          /\ pr' \in {pr, [pr EXCEPT ![b] = "open"]}
    /\ UNCHANGED <<cur, iterations, status, reason, active, attempt, work, evidence,
                   merge, error, base, branch, renamed, moved, policy, outside>>

(* Second half: one check per pull request that has not merged, each authored
   beside the tree merging it would produce. *)
StartAuthoring ==
    /\ at = "publishing" /\ todo = {}
    /\ at' = "authoring"
    /\ todo' = {b \in Builders : merge[b] # "merged"}
    /\ checks' = {}
    /\ UNCHANGED <<cur, iterations, status, reason, roleVars, green, gateTree,
                   review, reviewed, merge, error, base, github>>

Author(b) ==
    /\ at = "authoring" /\ First(todo, b)
    /\ ~Stale(base, BaseTree, work[b])
    /\ checks' = checks \cup {b}
    /\ todo' = todo \ {b}
    /\ UNCHANGED <<at, cur, iterations, status, reason, roleVars, green, gateTree,
                   review, reviewed, merge, error, base, github>>

(* A stale patch raises out of the loop; so does a checker that fails. *)
AuthorFails(b) ==
    /\ at = "authoring" /\ First(todo, b)
    /\ CheckerErrs
    /\ UNCHANGED <<cur, iterations, status, reason, active, attempt, work, evidence,
                   merge, error, base, github>>

CheckerDone ==
    /\ at = "authoring" /\ todo = {}
    /\ progress' = [progress EXCEPT ![Checker] = "done"]
    /\ at' = "roundOver"
    /\ UNCHANGED <<cur, todo, iterations, status, reason, active, attempt, work,
                   evidence, merge, error, base, github>>
-----------------------------------------------------------------------------
(* The end of _execute.  It reads EVERY routed role's state, the roles that did
   not run this round included. *)

Errored == {r \in Roles : progress[r] = "error"}

\* Mutant: the two fields of the row are swapped.
BlockedSwapped(b, why) ==
    /\ merge' = [merge EXCEPT ![b] = why]
    /\ error' = [error EXCEPT ![b] = "blocked"]

Blocked(b, why) ==
    /\ merge' = [merge EXCEPT ![b] = "blocked"]
    /\ error' = [error EXCEPT ![b] = why]

\* Mutant: after the last pull request the loop starts over.
NextItemForever ==
    /\ at' = "gating"
    /\ cur' = IF cur < N THEN cur + 1 ELSE 1

NextItem ==
    /\ at' = IF cur < N THEN "gating" ELSE "settling"
    /\ cur' = IF cur < N THEN cur + 1 ELSE cur

RoundReason == IF Errored = Roles THEN "ROLE_TOTAL_FAILURE" ELSE "ROLE_EXECUTION_ERROR"

(* The first round decides the run; _drive re-grades its failure to needs_human. *)
FirstRoundFails ==
    /\ at = "roundOver" /\ cur = 0 /\ Errored # {}
    /\ status' = "needs_human" /\ reason' = RoundReason
    /\ at' = "done"
    /\ UNCHANGED <<cur, todo, iterations, roleVars, evidence, merge, error, base,
                   github>>

(* A repair round blocks its pull request and leaves status "failed" behind. *)
RepairFails ==
    /\ at = "roundOver" /\ cur > 0 /\ Errored # {}
    /\ status' = "failed" /\ reason' = RoundReason
    /\ Blocked(cur, "ROLE_EXECUTION_ERROR")
    /\ NextItem
    /\ UNCHANGED <<todo, iterations, roleVars, evidence, base, github>>

\* Mutant: a repaired pull request is not gated again.
RoundSucceedsUngated ==
    /\ at = "roundOver" /\ Errored = {}
    /\ at' = IF cur = 0 THEN "gating" ELSE "rereviewing"
    /\ cur' = IF cur = 0 THEN 1 ELSE cur
    /\ UNCHANGED <<todo, iterations, status, reason, roleVars, evidence, merge,
                   error, base, github>>

RoundSucceeds ==
    /\ at = "roundOver" /\ Errored = {}
    /\ at' = IF cur = 0 THEN "gating" ELSE "regating"
    /\ cur' = IF cur = 0 THEN 1 ELSE cur
    /\ UNCHANGED <<todo, iterations, status, reason, roleVars, evidence, merge,
                   error, base, github>>
-----------------------------------------------------------------------------
(* Finalization of pull request `cur`: the gate. *)

(* No authored check, a stale patch, or a check that exits nonzero.  The first
   time the reviewer abstains on the red gate; after the repair it is final. *)
GateRed ==
    /\ at \in {"gating", "regating"}
    /\ green' = green \ {cur}
    /\ IF at = "gating"
       THEN /\ review' = [review EXCEPT ![cur] = "changes_requested"]
            /\ reviewed' = [reviewed EXCEPT ![cur] = work[cur]]
            /\ at' = "routing"
            /\ UNCHANGED <<cur, merge, error>>
       ELSE /\ Blocked(cur, "GATE_RED")
            /\ NextItem
            /\ UNCHANGED <<review, reviewed>>
    /\ UNCHANGED <<todo, iterations, status, reason, roleVars, checks, gateTree,
                   base, github>>

GateGreen ==
    /\ at \in {"gating", "regating"}
    /\ cur \in checks /\ ~Stale(base, BaseTree, work[cur])
    /\ green' = green \cup {cur}
    /\ gateTree' = [gateTree EXCEPT ![cur] = Overlay(base, BaseTree, work[cur])]
    /\ at' = IF at = "gating" THEN "reviewing" ELSE "rereviewing"
    /\ UNCHANGED <<cur, todo, iterations, status, reason, roleVars, checks, review,
                   reviewed, merge, error, base, github>>

(* The review of a green pull request (_assess_pull_request, reviewer.assess). *)
Judged(verdict) ==
    /\ at \in {"reviewing", "rereviewing"}
    /\ review' = [review EXCEPT ![cur] = verdict]
    /\ reviewed' = [reviewed EXCEPT ![cur] = work[cur]]
    /\ UNCHANGED <<todo, iterations, status, reason, roleVars, checks, green,
                   gateTree, base, github>>

Approve ==
    /\ Judged("approved")
    /\ at' = "merging"
    /\ UNCHANGED <<cur, merge, error>>

\* Mutant: findings are routed again after the repair.
RequestChangesAgain ==
    /\ Judged("changes_requested")
    /\ at' = "routing"
    /\ UNCHANGED <<cur, merge, error>>

RequestChanges ==
    /\ Judged("changes_requested")
    /\ IF at = "reviewing"
       THEN at' = "routing" /\ UNCHANGED <<cur, merge, error>>
       ELSE Blocked(cur, "ITERATION_CAP") /\ NextItem

\* Mutant: an outage is routed to a repair as a finding would be.
ReviewUnavailableRepaired ==
    /\ Judged("unavailable")
    /\ IF at = "reviewing"
       THEN /\ merge' = [merge EXCEPT ![cur] = "review_unavailable"]
            /\ at' = "routing"
            /\ UNCHANGED <<cur, error>>
       ELSE Blocked(cur, "ITERATION_CAP") /\ NextItem

(* An outage of the review service.  After a repair the code's last test asks
   only whether the pull request was approved, so the outage becomes a block,
   and ITERATION_CAP is given for its reason. *)
ReviewUnavailable ==
    /\ Judged("unavailable")
    /\ IF at = "reviewing"
       THEN /\ merge' = [merge EXCEPT ![cur] = "review_unavailable"]
            /\ error' = [error EXCEPT ![cur] = "REVIEW_UNAVAILABLE"]
       ELSE Blocked(cur, "ITERATION_CAP")
    /\ NextItem

\* Mutant: the repair round turns every builder.
RouteRepairToAll ==
    /\ at = "routing"
    /\ IF attempt[cur] >= MaxIterations
       THEN /\ Blocked(cur, "ITERATION_CAP")
            /\ NextItem
            /\ UNCHANGED <<active, progress, iterations, status>>
       ELSE /\ active' = Builders
            /\ progress' = RoundStates(progress, active')
            /\ iterations' = iterations + 1
            /\ status' = "running"
            /\ at' = "building"
            /\ UNCHANGED <<cur, merge, error>>
    /\ UNCHANGED <<todo, reason, attempt, work, evidence, base, github>>

(* _repair_pull_request: the model routes the evidence to the owner or to nobody
   ("validator only"), and the round runs again. *)
RouteRepair ==
    /\ at = "routing"
    /\ IF attempt[cur] >= MaxIterations
       THEN /\ Blocked(cur, "ITERATION_CAP")
            /\ NextItem
            /\ UNCHANGED <<active, progress, iterations, status>>
       ELSE /\ active' \in {{cur}, {}}
            /\ progress' = RoundStates(progress, active')
            /\ iterations' = iterations + 1
            /\ status' = "running"
            /\ at' = "building"
            /\ UNCHANGED <<cur, merge, error>>
    /\ UNCHANGED <<todo, reason, attempt, work, evidence, base, github>>
-----------------------------------------------------------------------------
(* Merging (_merge_if_policy_allows, github.merge_work_item). *)

Unmoved == <<todo, iterations, status, reason, roleVars, evidence>>

LeaveOpen ==
    /\ at = "merging" /\ policy = "human_review"
    /\ merge' = [merge EXCEPT ![cur] = "human_review"]
    /\ NextItem
    /\ UNCHANGED <<Unmoved, error, base, github>>

(* GitHub squashes the pull request onto the default branch as it is now: what
   the request's own commit changed, unless the branch changed it differently. *)
Mergeable(b) ==
    /\ pr[b] = "open"
    /\ ~Stale(branch, published[b].parent, published[b].tree)

Squash(b) ==
    /\ Mergeable(b)
    /\ branch' = Overlay(branch, published[b].parent, published[b].tree)
    /\ pr' = [pr EXCEPT ![b] = "merged"]
    /\ UNCHANGED <<renamed, published, moved, policy>>

(* The engine pins the branch name it read and the head it published. *)
EngineMayMerge == policy = "auto" /\ ~renamed /\ cur \notin moved

\* Mutant: the merge is tried again after it landed.
MergeLandsRetried ==
    /\ at = "merging" /\ EngineMayMerge
    /\ Squash(cur)
    /\ UNCHANGED <<Unmoved, at, cur, merge, error, base, outside>>

MergeLands ==
    /\ at = "merging" /\ EngineMayMerge
    /\ Squash(cur)
    /\ merge' = [merge EXCEPT ![cur] = "merged"]
    /\ at' = "snapshotting"
    /\ UNCHANGED <<Unmoved, cur, error, base, outside>>

(* The call is refused, or fails on its way to GitHub. *)
MergeRefused ==
    /\ at = "merging" /\ policy = "auto"
    /\ Faults \/ ~EngineMayMerge \/ ~Mergeable(cur)
    /\ Blocked(cur, "MERGE_REFUSED")
    /\ NextItem
    /\ UNCHANGED <<Unmoved, base, github>>

(* It fails on its way back: GitHub merged, and the transport retry of
   _gateway_rpc finds nothing left to merge. *)
MergeUnheard ==
    /\ at = "merging" /\ EngineMayMerge /\ Faults
    /\ Squash(cur)
    /\ Blocked(cur, "MERGE_REFUSED")
    /\ NextItem
    /\ UNCHANGED <<Unmoved, base, outside>>

\* Mutant: the base is kept.
SnapshotSkipped ==
    /\ at = "snapshotting"
    /\ NextItem
    /\ UNCHANGED <<Unmoved, base, merge, error, github>>

(* The base of the pull requests still to come is read again. *)
Snapshot ==
    /\ at = "snapshotting"
    /\ base' = branch
    /\ NextItem
    /\ UNCHANGED <<Unmoved, merge, error, github>>

SnapshotFails ==
    /\ at = "snapshotting" /\ Faults
    /\ Blocked(cur, "SNAPSHOT_FAILED")
    /\ NextItem
    /\ UNCHANGED <<Unmoved, base, github>>
-----------------------------------------------------------------------------
(* _settle_run: the verdict, after the local evidence commit. *)

InState(S) == {b \in Builders : merge[b] \in S}
Settled == InState({"merged", "human_review"})

\* Mutant: only blocked pull requests keep a run from passing.
SettleLenient ==
    /\ at = "settling"
    /\ \/ /\ InState({"blocked"}) # {}
          /\ status' = "needs_human" /\ reason' = "ROLE_PR_BLOCKED"
       \/ /\ InState({"blocked"}) = {}
          /\ status' = "passed" /\ UNCHANGED reason
    /\ at' = "done"
    /\ UNCHANGED <<cur, todo, iterations, roleVars, evidence, merge, error, base,
                   github>>

Settle ==
    /\ at = "settling"
    /\ \/ /\ InState({"review_unavailable"}) # {}
          /\ status' = "needs_human" /\ reason' = "REVIEW_UNAVAILABLE"
       \/ /\ InState({"review_unavailable"}) = {} /\ InState({"blocked"}) # {}
          /\ status' = "needs_human" /\ reason' = "ROLE_PR_BLOCKED"
       \/ /\ Settled = Builders
          /\ status' = "passed" /\ UNCHANGED reason
    /\ at' = "done"
    /\ UNCHANGED <<cur, todo, iterations, roleVars, evidence, merge, error, base,
                   github>>

(* What is not caught in finalization raises before any verdict is written: the
   tree of a pull request cannot be laid out, the snapshot cannot be moved into
   place, the evidence commit fails.  The engine's handler writes ENGINE_ERROR,
   re-graded to needs_human, and the pull requests still to come have no outcome. *)
EngineRaises ==
    /\ Faults
    /\ \/ at \in {"gating", "regating", "snapshotting"}
       \/ at = "settling" /\ Settled # {}
    /\ status' = "needs_human" /\ reason' = "ENGINE_ERROR"
    /\ at' = "done"
    /\ UNCHANGED <<cur, todo, iterations, roleVars, evidence, merge, error, base,
                   github>>
-----------------------------------------------------------------------------
(* What others do while the run works: commit to the default branch (another
   run, a person), push to a pull request's branch, close it, merge it, rename
   the default branch, change the merge policy in Settings. *)

Outsider ==
    /\ at # "done" /\ outside < MaxOutside
    /\ outside' = outside + 1
    /\ UNCHANGED <<worker, roleVars, evidence, merge, error, base>>

OutsideCommit ==
    /\ Outsider
    /\ \E p \in Paths, c \in Contents : branch' = [branch EXCEPT ![p] = c]
    /\ branch' # branch
    /\ UNCHANGED <<renamed, pr, published, moved, policy>>

OutsidePush(b) ==
    /\ Outsider
    /\ pr[b] = "open" /\ moved' = moved \cup {b}
    /\ UNCHANGED <<branch, renamed, pr, published, policy>>

OutsideClose(b) ==
    /\ Outsider
    /\ pr[b] = "open" /\ pr' = [pr EXCEPT ![b] = "closed"]
    /\ UNCHANGED <<branch, renamed, published, moved, policy>>

OutsideMerge(b) == Outsider /\ b \notin moved /\ Squash(b)

OutsideRename ==
    /\ Outsider
    /\ renamed' = TRUE
    /\ UNCHANGED <<branch, pr, published, moved, policy>>

OutsidePolicy ==
    /\ Outsider
    /\ policy' = IF policy = "auto" THEN "human_review" ELSE "auto"
    /\ UNCHANGED <<branch, renamed, pr, published, moved>>
-----------------------------------------------------------------------------
RoleSteps ==
    \/ \E b \in Builders :
          \/ BuilderDone(b) \/ BuilderFails(b)
          \/ Publish(b) \/ PublishFails(b)
          \/ Author(b) \/ AuthorFails(b)
    \/ GraphStops \/ CheckerStarts \/ StartAuthoring \/ CheckerDone

EngineSteps ==
    \/ FirstRoundFails \/ RepairFails \/ RoundSucceeds
    \/ GateRed \/ GateGreen
    \/ Approve \/ RequestChanges \/ ReviewUnavailable \/ RouteRepair
    \/ LeaveOpen \/ MergeLands \/ MergeRefused \/ MergeUnheard
    \/ Snapshot \/ SnapshotFails
    \/ Settle \/ EngineRaises

OutsideSteps ==
    \/ OutsideCommit \/ OutsideRename \/ OutsidePolicy
    \/ \E b \in Builders : OutsidePush(b) \/ OutsideClose(b) \/ OutsideMerge(b)

Next == RoleSteps \/ EngineSteps \/ OutsideSteps

Spec == Init /\ [][Next]_vars

(* Every step of a role or of the worker is bounded by a timeout of the code
   (the phase budget, GATE_TIMEOUT_S, the gateway's), so each ends. *)
FairSpec == Spec /\ WF_vars(RoleSteps) /\ WF_vars(EngineSteps)
-----------------------------------------------------------------------------
(* Safety. *)

(* A pull request the engine merged, or left for a person to merge, passed its
   own gate and its own review, and neither its work nor its published commit
   changed since: what is offered is what was proven (_finalize,
   _merge_if_policy_allows). *)
SettledIsProven ==
    \A b \in Settled :
        /\ b \in green /\ review[b] = "approved"
        /\ reviewed[b] = work[b]
        /\ Changed(published[b].parent, published[b].tree) \subseteq
              Changed(BaseTree, work[b])
        /\ \A p \in Changed(BaseTree, work[b]) :
              gateTree[b][p] = work[b][p] /\ published[b].tree[p] = work[b][p]

(* The repair bound of _finalize: one turn more than the first for each pull
   request, and one round more than the first for each of them in the run. *)
RepairIsBounded ==
    /\ \A b \in Builders : attempt[b] <= MaxIterations
    /\ iterations <= 1 + N

(* Whatever happens to its siblings, every pull request of a run that reached
   finalization has a merge state of its own at the end, unless the engine itself
   failed, and the verdict is "passed" exactly when all of them are settled and
   it did not (_finalize, _settle_run). *)
VerdictMatchesPullRequests ==
    at = "done" =>
        /\ status \in {"passed", "needs_human"}
        /\ cur > 0 => InState({"none"}) = {} \/ reason = "ENGINE_ERROR"
        /\ status = "passed" => Settled = Builders
        /\ Settled = Builders => status = "passed" \/ reason = "ENGINE_ERROR"

(* At the end of the run its report agrees with GitHub: the pull requests it
   calls merged are those that merged, and those it leaves to a person are
   open. *)
ReportMatchesGitHub ==
    at = "done" =>
        \A b \in Builders :
            /\ merge[b] = "merged" <=> pr[b] = "merged"
            /\ merge[b] = "human_review" => pr[b] = "open"

(* "One transient network failure must not cost an attendee a role or integration
   PR" (github.py 208-210, over the transport retry of _gateway_rpc): a pull
   request that GitHub merged is not blocked because the answer was lost. *)
BlipCostsNoPullRequest ==
    \A b \in Builders : pr[b] = "merged" => error[b] # "MERGE_REFUSED"

(* ITERATION_CAP "can mean a red executable OR a required review finding", for "a
   real gate or review decided against real work" (next_action and the reasons a
   person is told): a pull request is not blocked with it by an outage of the
   review. *)
CapIsDecided ==
    \A b \in Builders : error[b] = "ITERATION_CAP" => review[b] # "unavailable"

(* "This is a local scratch commit for the console's Changes tab only ... nothing
   here is on the verdict path" (_compose_commit): a run whose pull requests are all
   settled has passed when it ends. *)
EvidenceIsOffTheVerdict ==
    at = "done" /\ Settled = Builders => status = "passed"

(* A pull request is blocked for a failed role only when a role of its own repair
   round failed: a selected builder, or the checker ("Independent by construction:
   one pull request's outcome never decides another's", _finalize; "Builders not
   selected for repair keep their completed result", _execute). *)
OutcomesAreIndependent ==
    [][\A b \in Builders :
          error'[b] = "ROLE_EXECUTION_ERROR" /\ error[b] # error'[b]
             => \E r \in active \cup {Checker} : progress[r] = "error"]_vars

(* The engine's own merge of b, as a step. *)
EngineMerges(b) == at = "merging" /\ cur = b /\ pr'[b] = "merged" /\ pr[b] # "merged"

(* What a merge leaves on the default branch is the very tree the gate ran on:
   "the check must pass for each pull request, run against the default branch
   as it stands plus that diff". *)
LandsWhatWasGated ==
    [][\A b \in Builders : EngineMerges(b) => branch' = gateTree[b]]_vars

(* A merge replaces only contents the role had been given: the merged change of
   anybody else to the same path is never overwritten (apply_patch). *)
ForeignWorkSurvives ==
    [][\A b \in Builders : EngineMerges(b) =>
          \A p \in Paths : branch'[p] # branch[p] => branch[p] = BaseTree[p]]_vars

(* No builder is asked to repair an outage of the review service: once its
   review is unavailable a pull request is neither turned, nor published, nor
   merged again. *)
OutageIsNotRepaired ==
    [][\A b \in Builders : merge[b] = "review_unavailable" =>
          /\ attempt'[b] = attempt[b] /\ merge'[b] = merge[b]
          /\ published'[b] = published[b]
          /\ ~EngineMerges(b)]_vars

(* A pull request whose gate and review judged the work it has, and whose commit
   carries that work. *)
Proven ==
    {b \in Builders :
        /\ b \in green /\ review[b] = "approved" /\ reviewed[b] = work[b]
        /\ \A p \in Changed(BaseTree, work[b]) : gateTree[b][p] = work[b][p]
        /\ published[b].tree = Overlay(published[b].parent, BaseTree, work[b])}

Turn == IF at \in {"settling", "done"} THEN N + 1 ELSE cur

Verdict ==
    IF at # "done" THEN "open"
    ELSE IF reason = "ENGINE_ERROR" THEN "engine_error" ELSE status

(* Seen from its pull requests, the run keeps the promise of Delivery: they are
   decided in order, each by its own proof, and the default branch takes nothing
   of the run but proven work (_finalize). *)
Promise == INSTANCE Delivery WITH
    turn <- Turn, proven <- Proven, verdict <- Verdict,
    Shared <- MaxOutside > 0, Undisturbed <- ~Faults /\ MaxOutside = 0

ImplementsDelivery == Promise!Spec

(* Liveness: the run reaches its verdict, whatever fails on the way and
   whatever others do to the repository. *)
EventuallySettles == <>(at = "done")
=============================================================================
