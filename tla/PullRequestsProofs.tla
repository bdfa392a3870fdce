------------------------- MODULE PullRequestsProofs -------------------------
(***************************************************************************)
(* Theorems about PullRequests and its patches, for any number of builders,*)
(* any paths and contents, any failures and any interference.  They follow *)
(* from one inductive invariant: pull requests are finalized in order      *)
(* (Ordered), each commit carries its builder's work unless a turn is      *)
(* still to be published (CommitsCarryWork), the gate and the review on    *)
(* record are those of the present work (EvidenceIsCurrent), rounds are    *)
(* counted (RoundsCounted) and the verdict comes last (VerdictIsLast).     *)
(* The last theorem is that the run keeps the promise of Delivery.         *)
(***************************************************************************)
EXTENDS PullRequests, TLAPS

-----------------------------------------------------------------------------
(* Patches, for any paths and contents *)

(* A patch that is not stale replaces only what its role had been given: wherever
   it alters the base it is laid over, that base still held the content the role
   received (apply_patch, the three-way guard). *)
THEOREM FreshPatchOverwritesNothing ==
    ASSUME NEW now \in Trees, NEW from \in Trees, NEW to \in Trees,
           ~Stale(now, from, to)
    PROVE  \A p \in Changed(now, Overlay(now, from, to)) : now[p] = from[p]
BY DEF Stale, Conflicts, Changed, Overlay, Trees

(* GitHub merges the published commit, which the gateway made on `parent`, the head
   of the default branch at publication.  What lands on the branch as it is `now` is
   the tree the gate builds on it, provided the branch still holds the contents of
   the work that the commit found there and so did not change (_build_item_tree,
   publish_work_item). *)
THEOREM GatedTreeLandsOnItsBase ==
    ASSUME NEW now \in Trees, NEW from \in Trees, NEW to \in Trees,
           NEW parent \in Trees,
           \A p \in Changed(from, to) : parent[p] = to[p] => now[p] = to[p]
    PROVE  Overlay(now, parent, Overlay(parent, from, to))
              = Overlay(now, from, to)
<1>1. \A p \in Paths :
        Overlay(now, parent, Overlay(parent, from, to))[p]
           = Overlay(now, from, to)[p]
  BY DEF Overlay, Changed, Trees
<1> QED
  BY <1>1 DEF Overlay

(* The refreshed checkout is a tree, and laying it over the base it was made for is
   never refused (prepare_refresh_checkout). *)
THEOREM RefreshIsCurrent ==
    ASSUME NEW latest \in Trees, NEW from \in Trees, NEW to \in Trees
    PROVE  /\ RefreshTree(latest, from, to) \in Trees
           /\ ~Stale(latest, latest, RefreshTree(latest, from, to))
BY DEF RefreshTree, Stale, Conflicts, Changed, Trees

(* A refresh loses none of the role's work: each path the role changed has its
   content in the refreshed checkout or beside it, unless the role deleted the path
   and the base changed it (prepare_refresh_checkout). *)
THEOREM RefreshKeepsTheWork ==
    ASSUME NEW latest \in Trees, NEW from \in Trees, NEW to \in Trees
    PROVE  \A p \in Changed(from, to) :
              \/ RefreshTree(latest, from, to)[p] = to[p]
              \/ p \in PriorWork(latest, from, to)
              \/ to[p] = Absent /\ latest[p] # from[p]
BY DEF RefreshTree, PriorWork, Conflicts, Changed, Trees

(* A refresh overwrites no merged work: where the base has moved on from what the
   role received, the refreshed checkout follows the base
   (prepare_refresh_checkout). *)
THEOREM RefreshFollowsTheBase ==
    ASSUME NEW latest \in Trees, NEW from \in Trees, NEW to \in Trees
    PROVE  \A p \in Paths : latest[p] # from[p] =>
              RefreshTree(latest, from, to)[p] = latest[p]
BY DEF RefreshTree, Conflicts, Changed, Trees

-----------------------------------------------------------------------------
(* The pull requests of a run *)

USE DEF worker, roleVars, evidence, github, Unmoved, Builders, Roles, Checker

(* A patch laid over a tree yields a tree (apply_patch). *)
LEMMA OverlayType ==
    ASSUME NEW now \in Trees, NEW from \in Trees, NEW to \in Trees
    PROVE  Overlay(now, from, to) \in Trees
BY DEF Overlay, Trees

(* A patch laid over any tree leaves its own contents (apply_patch). *)
LEMMA OverlayChanges ==
    ASSUME NEW now, NEW from, NEW to, NEW x \in Changed(from, to)
    PROVE  Overlay(now, from, to)[x] = to[x]
BY DEF Overlay, Changed

(* A patch laid over a tree touches no other path (apply_patch). *)
LEMMA OverlayOnlyChanges ==
    ASSUME NEW now, NEW from, NEW to
    PROVE  Changed(now, Overlay(now, from, to)) \subseteq Changed(from, to)
BY DEF Overlay, Changed

(* A builder's turn leaves a tree. *)
LEMMA TurnType == \A t \in Turns : t \in Trees
BY PullRequestsAssumption

(* A round starts with every role in a state of its own (_execute). *)
LEMMA RoundStatesType ==
    ASSUME NEW before \in [Roles -> {"pending", "working", "done", "error"}],
           NEW S
    PROVE  RoundStates(before, S) \in [Roles -> {"pending", "working", "done", "error"}]
BY DEF RoundStates

Rounds == {"building", "publishing", "authoring", "roundOver"}

Placed == at \notin Rounds \cup {"done"} => cur \in Builders

(* What a repair is routed to: a round of its own, or a block. *)
Rerun ==
    /\ attempt[cur] < MaxIterations
    /\ active' \in {{cur}, {}}
    /\ progress' = RoundStates(progress, active')
    /\ iterations' = iterations + 1
    /\ status' = "running"
    /\ at' = "building"
    /\ UNCHANGED <<cur, merge, error>>

GiveUp ==
    /\ UNCHANGED <<active, progress, iterations, status>>
    /\ Blocked(cur, "ITERATION_CAP")
    /\ NextItem

(* A red pull request gets a round of its own or is given up (_route_repair). *)
LEMMA RouteRepairCases ==
    ASSUME TypeOK, cur \in Builders, RouteRepair
    PROVE  Rerun \/ GiveUp
<1>1. attempt[cur] \in Nat
  BY DEF TypeOK
<1>2. CASE attempt[cur] >= MaxIterations
  BY <1>2, Zenon DEF RouteRepair, GiveUp
<1>3. CASE ~(attempt[cur] >= MaxIterations)
  <2>1. attempt[cur] < MaxIterations
    BY <1>1, <1>3, PullRequestsAssumption
  <2> QED
    BY <1>3, <2>1, Zenon DEF RouteRepair, Rerun
<1> QED
  BY <1>2, <1>3

(* The types, and the place of `cur`, when the run starts. *)
LEMMA TypedInit ==
    ASSUME Init
    PROVE  TypeOK /\ Placed
<1>1. progress \in [Roles -> {"pending", "working", "done", "error"}]
  BY RoundStatesType DEF Init
<1>2. /\ at \in Locations /\ cur \in 0..N /\ iterations \in Nat
      /\ attempt \in [Builders -> Nat] /\ outside \in Nat
      /\ todo \subseteq Builders /\ active \subseteq Builders
      /\ moved \subseteq Builders
      /\ checks \subseteq Builders /\ green \subseteq Builders
      /\ Placed
  BY PullRequestsAssumption DEF Init, Locations, Placed, Rounds
<1>3. /\ work \in [Builders -> Trees] /\ gateTree \in [Builders -> Trees]
      /\ reviewed \in [Builders -> Trees] /\ base \in Trees /\ branch \in Trees
      /\ published \in [Builders -> [parent : Trees, tree : Trees]]
  BY PullRequestsAssumption DEF Init
<1>4. /\ merge \in [Builders -> MergeStates] /\ error \in [Builders -> Errors]
      /\ review \in [Builders -> Verdicts \cup {"none"}] /\ reason \in Reasons
      /\ pr \in [Builders -> {"none", "open", "closed", "merged"}]
      /\ status \in {"running", "failed", "passed", "needs_human"}
      /\ renamed \in BOOLEAN /\ policy \in {"auto", "human_review"}
  BY DEF Init, MergeStates, Errors, Reasons
<1> QED
  BY <1>1, <1>2, <1>3, <1>4 DEF TypeOK

(* A blocked row keeps its types (_finalize). *)
LEMMA BlockedType ==
    ASSUME TypeOK, NEW b \in Builders, NEW why \in Errors, Blocked(b, why)
    PROVE  merge' \in [Builders -> MergeStates] /\ error' \in [Builders -> Errors]
BY DEF TypeOK, Blocked, MergeStates

(* After a pull request comes the next one, or the end (_finalize). *)
LEMMA NextItemType ==
    ASSUME cur \in Builders, NextItem
    PROVE  at' \in {"gating", "settling"} /\ cur' \in Builders
BY PullRequestsAssumption DEF NextItem

(* A review keeps the types of what it writes, and little else changes
   (_assess_pull_request). *)
LEMMA JudgedType ==
    ASSUME TypeOK, Placed, NEW verdict \in Verdicts, Judged(verdict)
    PROVE  /\ cur \in Builders
           /\ review' \in [Builders -> Verdicts \cup {"none"}]
           /\ reviewed' \in [Builders -> Trees]
           /\ UNCHANGED <<todo, iterations, status, reason, roleVars, checks, green,
                          gateTree, base, github>>
BY DEF TypeOK, Placed, Rounds, Judged

(* What finalization may write, while the roles, the base and GitHub stay as they
   are (_finalize). *)
LEMMA FinalizationTypes ==
    ASSUME TypeOK,
           at' \in Locations, cur' \in Builders,
           green' \subseteq Builders, gateTree' \in [Builders -> Trees],
           review' \in [Builders -> Verdicts \cup {"none"}],
           reviewed' \in [Builders -> Trees],
           merge' \in [Builders -> MergeStates], error' \in [Builders -> Errors],
           UNCHANGED <<todo, iterations, status, reason, roleVars, checks, base,
                       github>>
    PROVE  TypeOK' /\ Placed'
BY DEF TypeOK, Placed, roleVars, github

(* Every step keeps the types; finalization always has a pull request. *)
LEMMA TypedStep ==
    ASSUME TypeOK, Placed, [Next]_vars
    PROVE  TypeOK' /\ Placed'
<1> USE PullRequestsAssumption
    DEF TypeOK, Placed, Rounds, Locations, MergeStates, Errors, Reasons, Verdicts
<1>1. CASE \E b \in Builders : BuilderDone(b)
  <2>1. PICK b \in Builders : BuilderDone(b)
    BY <1>1
  <2>2. PICK t \in Turns : work' = [work EXCEPT ![b] = t]
    BY <2>1 DEF BuilderDone
  <2>3. work' \in [Builders -> Trees] /\ attempt' \in [Builders -> Nat]
    BY <2>1, <2>2, TurnType DEF BuilderDone
  <2> QED
    BY <2>1, <2>3 DEF BuilderDone, Turning
<1>2. CASE \E b \in Builders : BuilderFails(b)
  <2>1. PICK b \in Builders : BuilderFails(b)
    BY <1>2
  <2>2. work' \in [Builders -> Trees] /\ attempt' \in [Builders -> Nat]
    BY <2>1 DEF BuilderFails
  <2> QED
    BY <2>1, <2>2 DEF BuilderFails, Turning
<1>3. CASE GraphStops
  BY <1>3 DEF GraphStops
<1>4. CASE CheckerStarts
  BY <1>4 DEF CheckerStarts
<1>5. CASE \E b \in Builders : Publish(b)
  BY <1>5, OverlayType DEF Publish, Commit
<1>6. CASE \E b \in Builders : PublishFails(b)
  <2>1. PICK b \in Builders : PublishFails(b)
    BY <1>6
  <2>2. published' \in [Builders -> [parent : Trees, tree : Trees]]
    <3>1. /\ branch \in Trees /\ work[b] \in Trees /\ BaseTree \in Trees
          /\ published \in [Builders -> [parent : Trees, tree : Trees]]
      OBVIOUS
    <3> HIDE DEF TypeOK, Placed, Locations, MergeStates, Errors, Reasons
    <3>2. Overlay(branch, BaseTree, work[b]) \in Trees
      BY <3>1, OverlayType
    <3>3. published' = published \/ Commit(b)
      BY <2>1 DEF PublishFails
    <3> QED
      BY <3>1, <3>2, <3>3 DEF Commit
  <2>3. pr' \in [Builders -> {"none", "open", "closed", "merged"}]
    BY <2>1 DEF PublishFails
  <2>4. /\ UNCHANGED <<cur, iterations, status, reason, active, attempt, work,
                       evidence, merge, error, base, branch, renamed, moved,
                       policy, outside>>
        /\ CheckerErrs
    BY <2>1 DEF PublishFails
  <2> QED
    BY <2>2, <2>3, <2>4 DEF CheckerErrs, evidence
<1>7. CASE StartAuthoring
  BY <1>7 DEF StartAuthoring
<1>8. CASE \E b \in Builders : Author(b)
  BY <1>8 DEF Author
<1>9. CASE \E b \in Builders : AuthorFails(b)
  BY <1>9 DEF AuthorFails, CheckerErrs
<1>10. CASE CheckerDone
  BY <1>10 DEF CheckerDone
<1>11. CASE FirstRoundFails
  BY <1>11 DEF FirstRoundFails, RoundReason
<1>12. CASE RepairFails
  BY <1>12 DEF RepairFails, Blocked, NextItem, RoundReason
<1>13. CASE RoundSucceeds
  BY <1>13 DEF RoundSucceeds
<1>14. CASE GateRed
  <2>1. cur \in Builders /\ work[cur] \in Trees
    BY <1>14 DEF GateRed
  <2>2. green' \subseteq Builders /\ reviewed' \in [Builders -> Trees]
        /\ review' \in [Builders -> Verdicts \cup {"none"}]
    BY <1>14, <2>1 DEF GateRed
  <2>3. merge' \in [Builders -> MergeStates] /\ error' \in [Builders -> Errors]
    BY <1>14, <2>1 DEF GateRed, Blocked
  <2>4. at' \in Locations /\ cur' \in Builders
    BY <1>14, <2>1 DEF GateRed, NextItem
  <2>5. UNCHANGED <<todo, iterations, status, reason, roleVars, checks, gateTree,
                     base, github>>
    BY <1>14 DEF GateRed
  <2> HIDE DEF TypeOK, Placed, Verdicts, Locations, MergeStates, Errors, Reasons
  <2>6. gateTree' \in [Builders -> Trees]
    BY <2>5 DEF TypeOK
  <2> QED
    BY <2>2, <2>3, <2>4, <2>5, <2>6, FinalizationTypes
<1>15. CASE GateGreen
  BY <1>15, OverlayType DEF GateGreen
<1>16. CASE Approve
  <2>1. Judged("approved") /\ UNCHANGED <<cur, merge, error>> /\ at' = "merging"
    BY <1>16 DEF Approve
  <2> HIDE DEF TypeOK, Placed, Verdicts, Locations, MergeStates, Errors, Reasons
  <2>2. /\ review' \in [Builders -> Verdicts \cup {"none"}]
        /\ reviewed' \in [Builders -> Trees]
        /\ UNCHANGED <<todo, iterations, status, reason, roleVars, checks, green,
                       gateTree, base, github>>
    BY <2>1, JudgedType DEF Verdicts
  <2>3. /\ cur' \in Builders /\ at' \in Locations
        /\ merge' \in [Builders -> MergeStates] /\ error' \in [Builders -> Errors]
    BY <2>1, JudgedType DEF TypeOK, Locations, Verdicts
  <2>4. green' \subseteq Builders /\ gateTree' \in [Builders -> Trees]
    BY <2>2 DEF TypeOK
  <2> QED
    BY <2>2, <2>3, <2>4, FinalizationTypes
<1>17. CASE RequestChanges
  <2>1. Judged("changes_requested") /\ cur \in Builders
    BY <1>17 DEF RequestChanges, Judged
  <2>2. CASE at = "reviewing"
    <3>1. at' = "routing" /\ UNCHANGED <<cur, merge, error>>
      BY <1>17, <2>2 DEF RequestChanges
    <3> HIDE DEF TypeOK, Placed, Verdicts, Locations, MergeStates, Errors, Reasons
    <3>2. /\ review' \in [Builders -> Verdicts \cup {"none"}]
          /\ reviewed' \in [Builders -> Trees]
          /\ UNCHANGED <<todo, iterations, status, reason, roleVars, checks, green,
                         gateTree, base, github>>
      BY <2>1, JudgedType DEF Verdicts
    <3> QED
      BY <2>1, <3>1, <3>2, FinalizationTypes DEF TypeOK, Locations
  <2>3. CASE at # "reviewing"
    <3>1. Blocked(cur, "ITERATION_CAP") /\ NextItem
      BY <1>17, <2>3 DEF RequestChanges
    <3>2. merge' \in [Builders -> MergeStates] /\ error' \in [Builders -> Errors]
      BY <2>1, <3>1, BlockedType
    <3>3. at' \in {"gating", "settling"} /\ cur' \in Builders
      BY <2>1, <3>1, NextItemType
    <3> HIDE DEF TypeOK, Placed, Verdicts, Locations, MergeStates, Errors, Reasons
    <3>4. /\ review' \in [Builders -> Verdicts \cup {"none"}]
          /\ reviewed' \in [Builders -> Trees]
          /\ UNCHANGED <<todo, iterations, status, reason, roleVars, checks, green,
                         gateTree, base, github>>
      BY <2>1, JudgedType DEF Verdicts
    <3> QED
      BY <2>1, <3>2, <3>3, <3>4, FinalizationTypes DEF TypeOK, Locations
  <2> QED
    BY <2>2, <2>3
<1>18. CASE ReviewUnavailable
  <2>1. Judged("unavailable") /\ cur \in Builders /\ NextItem
    BY <1>18 DEF ReviewUnavailable, Judged
  <2>2. at' \in {"gating", "settling"} /\ cur' \in Builders
    BY <2>1, NextItemType
  <2>3. merge' \in [Builders -> MergeStates] /\ error' \in [Builders -> Errors]
    <3>1. CASE at = "reviewing"
      BY <1>18, <3>1 DEF ReviewUnavailable
    <3>2. CASE at # "reviewing"
      <4>1. Blocked(cur, "ITERATION_CAP")
        BY <1>18, <3>2 DEF ReviewUnavailable
      <4> QED
        BY <2>1, <4>1, BlockedType
    <3> QED
      BY <3>1, <3>2
  <2> HIDE DEF TypeOK, Placed, Verdicts, Locations, MergeStates, Errors, Reasons
  <2>4. /\ review' \in [Builders -> Verdicts \cup {"none"}]
        /\ reviewed' \in [Builders -> Trees]
        /\ UNCHANGED <<todo, iterations, status, reason, roleVars, checks, green,
                       gateTree, base, github>>
    BY <2>1, JudgedType DEF Verdicts
  <2> QED
    BY <2>1, <2>2, <2>3, <2>4, FinalizationTypes DEF TypeOK, Locations
<1>19. CASE RouteRepair
  <2>1. cur \in Builders
    BY <1>19 DEF RouteRepair
  <2>2. UNCHANGED <<todo, reason, attempt, work, evidence, base, github>>
    BY <1>19 DEF RouteRepair
  <2>3. CASE Rerun
    <3>1. RoundStates(progress, active') \in
             [Roles -> {"pending", "working", "done", "error"}]
      BY RoundStatesType
    <3>2. {cur} \subseteq Builders /\ {} \subseteq Builders /\ iterations + 1 \in Nat
      BY <2>1
    <3> QED
      BY <2>1, <2>2, <2>3, <3>1, <3>2 DEF Rerun
  <2>4. CASE GiveUp
    BY <2>1, <2>2, <2>4 DEF GiveUp, Blocked, NextItem
  <2> QED
    BY <1>19, <2>1, <2>3, <2>4, RouteRepairCases
<1>20. CASE LeaveOpen
  BY <1>20 DEF LeaveOpen, NextItem
<1>21. CASE MergeLands
  BY <1>21, OverlayType DEF MergeLands, Squash, Mergeable
<1>22. CASE MergeRefused
  BY <1>22 DEF MergeRefused, Blocked, NextItem
<1>23. CASE MergeUnheard
  BY <1>23, OverlayType DEF MergeUnheard, Squash, Blocked, NextItem, Mergeable
<1>24. CASE Snapshot
  BY <1>24 DEF Snapshot, NextItem
<1>25. CASE SnapshotFails
  <2>1. cur \in Builders /\ Blocked(cur, "SNAPSHOT_FAILED") /\ NextItem
    BY <1>25 DEF SnapshotFails
  <2>2. merge' \in [Builders -> MergeStates] /\ error' \in [Builders -> Errors]
    BY <2>1, BlockedType
  <2>3. at' \in {"gating", "settling"} /\ cur' \in Builders
    BY <2>1, NextItemType
  <2>4. UNCHANGED <<Unmoved, base, github>>
    BY <1>25 DEF SnapshotFails
  <2> QED
    BY <2>2, <2>3, <2>4 DEF Unmoved, roleVars, evidence, github
<1>26. CASE Settle
  BY <1>26 DEF Settle
<1>27. CASE EngineRaises
  BY <1>27 DEF EngineRaises
<1>28. CASE OutsideCommit
  BY <1>28 DEF OutsideCommit, Outsider, Trees
<1>29. CASE \E b \in Builders : OutsidePush(b)
  BY <1>29 DEF OutsidePush, Outsider
<1>30. CASE \E b \in Builders : OutsideClose(b)
  BY <1>30 DEF OutsideClose, Outsider
<1>31. CASE \E b \in Builders : OutsideMerge(b)
  BY <1>31, OverlayType DEF OutsideMerge, Outsider, Squash, Mergeable
<1>32. CASE OutsideRename
  BY <1>32 DEF OutsideRename, Outsider
<1>33. CASE OutsidePolicy
  BY <1>33 DEF OutsidePolicy, Outsider
<1>34. CASE UNCHANGED vars
  BY <1>34 DEF vars
<1> QED
  BY <1>1, <1>2, <1>3, <1>4, <1>5, <1>6, <1>7, <1>8, <1>9, <1>10, <1>11, <1>12,
     <1>13, <1>14, <1>15, <1>16, <1>17, <1>18, <1>19, <1>20, <1>21, <1>22,
     <1>23, <1>24, <1>25, <1>26, <1>27, <1>28, <1>29, <1>30, <1>31, <1>32,
     <1>33, <1>34
  DEF Next, RoleSteps, EngineSteps, OutsideSteps
-----------------------------------------------------------------------------
(* The inductive invariant. *)

(* Pull requests are finalized one by one in the order of the builders: those
   behind `cur` have their outcome, those ahead have none, and a repair round
   turns nobody but the owner of `cur`.  A run the engine itself fails stops
   anywhere. *)
OutcomeOfCur ==
    CASE at = "snapshotting"       -> merge[cur] = "merged"
      [] at = "settling"           -> merge[cur] # "none"
      [] at = "done"               -> merge[cur] # "none" \/ reason = "ENGINE_ERROR"
      [] OTHER                     -> merge[cur] = "none"

Ordered ==
    /\ at = "settling" => cur = N
    /\ at = "done" => cur \in {0, N} \/ reason = "ENGINE_ERROR"
    /\ at \in Rounds /\ cur > 0 => active \subseteq {cur}
    /\ at = "publishing" => todo \subseteq active
    /\ \A b \in Builders : b > cur => merge[b] = "none"
    /\ \A b \in Builders : b < cur => merge[b] # "none"
    /\ cur > 0 => OutcomeOfCur

(* The commit of b carries exactly the changes of its work tree. *)
Carries(b) == published[b].tree = Overlay(published[b].parent, BaseTree, work[b])

(* b has taken a turn, or is about to, whose result is not published. *)
Unpublished(b) ==
    /\ b \in active
    /\ \/ at = "building"
       \/ at = "publishing" /\ b \in todo
       \/ at = "roundOver" /\ Errored # {}

(* Every commit is up to date, but for a turn not yet published, a pull request
   whose repair failed, and a run that failed before finalization. *)
CommitsCarryWork ==
    \A b \in Builders :
        \/ Carries(b)
        \/ Unpublished(b)
        \/ merge[b] = "blocked"
        \/ at = "done" /\ cur = 0

(* The gate of b ran on its present work. *)
Gated(b) ==
    /\ b \in green
    /\ \A x \in Changed(BaseTree, work[b]) : gateTree[b][x] = work[b][x]

Approved(b) == review[b] = "approved" /\ reviewed[b] = work[b]

EvidenceIsCurrent ==
    /\ at \in {"reviewing", "rereviewing", "merging"} => Gated(cur)
    /\ at = "merging" => Approved(cur)
    /\ \A b \in Settled : Gated(b) /\ Approved(b)

(* A repair is routed at most once for each pull request, and a builder turns
   only while it has a turn left. *)
RoundsCounted ==
    /\ iterations <= 1 + cur
    /\ at \in {"gating", "reviewing", "routing"} => iterations <= cur
    /\ at = "routing" => cur > 0
    /\ \A b \in Builders :
          /\ attempt[b] <= MaxIterations
          /\ Turning(b) => attempt[b] < MaxIterations

(* No verdict is written before the end. *)
VerdictIsLast ==
    /\ at # "done" => status \in {"running", "failed"}
    /\ VerdictMatchesPullRequests

(* Going on to the next pull request with an outcome for this one. *)
LEMMA NextItemOrdered ==
    ASSUME TypeOK, cur \in Builders, Ordered, NextItem,
           NEW m \in MergeStates \ {"none"}, merge' = [merge EXCEPT ![cur] = m]
    PROVE  Ordered'
BY PullRequestsAssumption DEF TypeOK, Ordered, OutcomeOfCur, Rounds, NextItem

(* Every step keeps the order of finalization (_finalize). *)
LEMMA OrderedHolds ==
    ASSUME TypeOK, Placed, Ordered, [Next]_vars
    PROVE  Ordered'
  <2> USE PullRequestsAssumption
      DEF TypeOK, Placed, Ordered, OutcomeOfCur, Rounds, MergeStates, Locations
  <2>1. CASE \E b \in Builders : BuilderDone(b)
    BY <2>1 DEF BuilderDone, Turning
  <2>2. CASE \E b \in Builders : BuilderFails(b)
    BY <2>2 DEF BuilderFails, Turning
  <2>3. CASE GraphStops
    BY <2>3 DEF GraphStops
  <2>4. CASE CheckerStarts
    BY <2>4 DEF CheckerStarts
  <2>5. CASE \E b \in Builders : Publish(b)
    BY <2>5 DEF Publish
  <2>6. CASE \E b \in Builders : PublishFails(b)
    BY <2>6 DEF PublishFails, CheckerErrs
  <2>7. CASE StartAuthoring
    BY <2>7 DEF StartAuthoring
  <2>8. CASE \E b \in Builders : Author(b)
    BY <2>8 DEF Author
  <2>9. CASE \E b \in Builders : AuthorFails(b)
    BY <2>9 DEF AuthorFails, CheckerErrs
  <2>10. CASE CheckerDone
    BY <2>10 DEF CheckerDone
  <2>11. CASE FirstRoundFails
    BY <2>11 DEF FirstRoundFails
  <2>12. CASE RepairFails
    BY <2>12 DEF RepairFails, Blocked, NextItem
  <2>13. CASE RoundSucceeds
    <3>1. CASE cur = 0
      <4>1. at' = "gating" /\ cur' = 1 /\ merge' = merge
        BY <2>13, <3>1 DEF RoundSucceeds
      <4>2. /\ 1 \in Builders
            /\ \A b \in Builders : merge[b] = "none" /\ ~(b < 1)
        BY <3>1
      <4>3. OutcomeOfCur'
        BY <4>1, <4>2
      <4> QED
        BY <4>1, <4>2, <4>3
    <3>2. CASE cur # 0
      BY <2>13, <3>2 DEF RoundSucceeds
    <3> QED
      BY <3>1, <3>2
  <2>14. CASE GateRed
    <3>1. CASE at = "gating"
      BY <2>14, <3>1 DEF GateRed
    <3>2. CASE at = "regating"
      BY <2>14, <3>2, NextItemOrdered DEF GateRed, Blocked
    <3> QED
      BY <2>14, <3>1, <3>2 DEF GateRed
  <2>15. CASE GateGreen
    BY <2>15 DEF GateGreen
  <2>16. CASE Approve
    BY <2>16 DEF Approve, Judged
  <2>17. CASE RequestChanges
    <3>1. CASE at = "reviewing"
      BY <2>17, <3>1 DEF RequestChanges, Judged
    <3>2. CASE at = "rereviewing"
      BY <2>17, <3>2, NextItemOrdered DEF RequestChanges, Judged, Blocked
    <3> QED
      BY <2>17, <3>1, <3>2 DEF RequestChanges, Judged
  <2>18. CASE ReviewUnavailable
    <3>1. CASE at = "reviewing"
      BY <2>18, <3>1, NextItemOrdered DEF ReviewUnavailable, Judged
    <3>2. CASE at = "rereviewing"
      BY <2>18, <3>2, NextItemOrdered DEF ReviewUnavailable, Judged, Blocked
    <3> QED
      BY <2>18, <3>1, <3>2 DEF ReviewUnavailable, Judged
  <2>19. CASE RouteRepair
    <3>1. at = "routing" /\ cur \in Builders
      BY <2>19 DEF RouteRepair
    <3>2. CASE Rerun
      BY <3>1, <3>2 DEF Rerun
    <3>3. CASE GiveUp
      BY <3>1, <3>3, NextItemOrdered DEF GiveUp, Blocked
    <3> QED
      BY <2>19, <3>1, <3>2, <3>3, RouteRepairCases
  <2>20. CASE LeaveOpen
    BY <2>20 DEF LeaveOpen, NextItem
  <2>21. CASE MergeLands
    BY <2>21 DEF MergeLands, Squash
  <2>22. CASE MergeRefused
    BY <2>22 DEF MergeRefused, Blocked, NextItem
  <2>23. CASE MergeUnheard
    BY <2>23 DEF MergeUnheard, Squash, Blocked, NextItem
  <2>24. CASE Snapshot
    BY <2>24 DEF Snapshot, NextItem
  <2>25. CASE SnapshotFails
    BY <2>25 DEF SnapshotFails, Blocked, NextItem
  <2>26. CASE Settle
    BY <2>26 DEF Settle, InState
  <2>27. CASE EngineRaises
    BY <2>27 DEF EngineRaises
  <2>28. CASE OutsideCommit
    BY <2>28 DEF OutsideCommit, Outsider
  <2>29. CASE \E b \in Builders : OutsidePush(b)
    BY <2>29 DEF OutsidePush, Outsider
  <2>30. CASE \E b \in Builders : OutsideClose(b)
    BY <2>30 DEF OutsideClose, Outsider
  <2>31. CASE \E b \in Builders : OutsideMerge(b)
    BY <2>31 DEF OutsideMerge, Outsider, Squash
  <2>32. CASE OutsideRename
    BY <2>32 DEF OutsideRename, Outsider
  <2>33. CASE OutsidePolicy
    BY <2>33 DEF OutsidePolicy, Outsider
  <2>34. CASE UNCHANGED vars
    BY <2>34 DEF vars
  <2> QED
    BY <2>1, <2>2, <2>3, <2>4, <2>5, <2>6, <2>7, <2>8, <2>9, <2>10, <2>11,
       <2>12, <2>13, <2>14, <2>15, <2>16, <2>17, <2>18, <2>19, <2>20, <2>21,
       <2>22, <2>23, <2>24, <2>25, <2>26, <2>27, <2>28, <2>29, <2>30, <2>31,
       <2>32, <2>33, <2>34
    DEF Next, RoleSteps, EngineSteps, OutsideSteps

(* No step leaves a commit behind the work it stands for. *)
LEMMA CommitsCarryWorkHolds ==
    ASSUME TypeOK, Placed, Ordered, CommitsCarryWork, [Next]_vars
    PROVE  CommitsCarryWork'
  <2> USE PullRequestsAssumption
      DEF TypeOK, Placed, Ordered, OutcomeOfCur, Rounds, CommitsCarryWork,
          Carries, Unpublished, Errored
  <2>1. CASE \E b \in Builders : BuilderDone(b)
    BY <2>1 DEF BuilderDone, Turning
  <2>2. CASE \E b \in Builders : BuilderFails(b)
    BY <2>2 DEF BuilderFails, Turning
  <2>3. CASE GraphStops
    <3>1. /\ Errored' = {r \in Roles : progress'[r] = "error"}
          /\ at' = "roundOver" /\ UNCHANGED <<active, published, work, merge>>
      BY <2>3 DEF GraphStops
    <3>2. progress[Checker] = "pending" /\ Checker \in Roles
      BY <2>3 DEF GraphStops, Roles, Checker
    <3>3. progress'[Checker] = "error"
      BY <2>3, <3>2 DEF GraphStops
    <3>4. Errored' # {}
      BY <3>1, <3>2, <3>3
    <3>5. ASSUME NEW b \in Builders, Unpublished(b)
          PROVE  Unpublished(b)'
      BY <3>1, <3>4, <3>5 DEF Unpublished
    <3> QED
      BY <2>3, <3>1, <3>5 DEF GraphStops
  <2>4. CASE CheckerStarts
    BY <2>4 DEF CheckerStarts
  <2>5. CASE \E b \in Builders : Publish(b)
    BY <2>5 DEF Publish, Commit
  <2>6. CASE \E b \in Builders : PublishFails(b)
    <3>1. PICK b \in Builders : PublishFails(b)
      BY <2>6
    <3>2. at' = "roundOver" /\ Checker \in Errored' /\ at = "publishing" /\ b \in active
      BY <3>1 DEF PublishFails, CheckerErrs, First
    <3>3. \A c \in Builders \ {b} : published'[c] = published[c]
      BY <3>1 DEF PublishFails, Commit
    <3>4. UNCHANGED <<active, work, merge, cur>>
      BY <3>1 DEF PublishFails, CheckerErrs
    <3>5. Unpublished(b)'
      BY <3>2, <3>4
    <3>6. ASSUME NEW c \in Builders \ {b}
          PROVE  Carries(c)' \/ Unpublished(c)' \/ merge'[c] = "blocked"
      BY <3>2, <3>3, <3>4
    <3> QED
      BY <3>5, <3>6
  <2>7. CASE StartAuthoring
    BY <2>7 DEF StartAuthoring
  <2>8. CASE \E b \in Builders : Author(b)
    BY <2>8 DEF Author
  <2>9. CASE \E b \in Builders : AuthorFails(b)
    BY <2>9 DEF AuthorFails, CheckerErrs
  <2>10. CASE CheckerDone
    BY <2>10 DEF CheckerDone
  <2>11. CASE FirstRoundFails
    BY <2>11 DEF FirstRoundFails
  <2>12. CASE RepairFails
    BY <2>12 DEF RepairFails, Blocked, NextItem
  <2>13. CASE RoundSucceeds
    BY <2>13 DEF RoundSucceeds
  <2>14. CASE GateRed
    BY <2>14 DEF GateRed, Blocked, NextItem
  <2>15. CASE GateGreen
    BY <2>15 DEF GateGreen
  <2>16. CASE Approve
    BY <2>16 DEF Approve, Judged
  <2>17. CASE RequestChanges
    BY <2>17 DEF RequestChanges, Judged, Blocked, NextItem
  <2>18. CASE ReviewUnavailable
    BY <2>18 DEF ReviewUnavailable, Judged, Blocked, NextItem
  <2>19. CASE RouteRepair
    BY <2>19 DEF RouteRepair, Blocked, NextItem
  <2>20. CASE LeaveOpen
    BY <2>20 DEF LeaveOpen, NextItem
  <2>21. CASE MergeLands
    BY <2>21 DEF MergeLands, Squash
  <2>22. CASE MergeRefused
    BY <2>22 DEF MergeRefused, Blocked, NextItem
  <2>23. CASE MergeUnheard
    BY <2>23 DEF MergeUnheard, Squash, Blocked, NextItem
  <2>24. CASE Snapshot
    BY <2>24 DEF Snapshot, NextItem
  <2>25. CASE SnapshotFails
    BY <2>25 DEF SnapshotFails, Blocked, NextItem
  <2>26. CASE Settle
    BY <2>26 DEF Settle
  <2>27. CASE EngineRaises
    BY <2>27 DEF EngineRaises
  <2>28. CASE OutsideCommit
    BY <2>28 DEF OutsideCommit, Outsider
  <2>29. CASE \E b \in Builders : OutsidePush(b)
    BY <2>29 DEF OutsidePush, Outsider
  <2>30. CASE \E b \in Builders : OutsideClose(b)
    BY <2>30 DEF OutsideClose, Outsider
  <2>31. CASE \E b \in Builders : OutsideMerge(b)
    BY <2>31 DEF OutsideMerge, Outsider, Squash
  <2>32. CASE OutsideRename
    BY <2>32 DEF OutsideRename, Outsider
  <2>33. CASE OutsidePolicy
    BY <2>33 DEF OutsidePolicy, Outsider
  <2>34. CASE UNCHANGED vars
    BY <2>34 DEF vars
  <2> QED
    BY <2>1, <2>2, <2>3, <2>4, <2>5, <2>6, <2>7, <2>8, <2>9, <2>10, <2>11,
       <2>12, <2>13, <2>14, <2>15, <2>16, <2>17, <2>18, <2>19, <2>20, <2>21,
       <2>22, <2>23, <2>24, <2>25, <2>26, <2>27, <2>28, <2>29, <2>30, <2>31,
       <2>32, <2>33, <2>34
    DEF Next, RoleSteps, EngineSteps, OutsideSteps

(* No step leaves gate or review evidence of earlier work. *)
LEMMA EvidenceIsCurrentHolds ==
    ASSUME TypeOK, Placed, Ordered, EvidenceIsCurrent, [Next]_vars
    PROVE  EvidenceIsCurrent'
  <2> USE PullRequestsAssumption
      DEF TypeOK, Placed, Ordered, OutcomeOfCur, Rounds, EvidenceIsCurrent,
          Gated, Approved, Settled, InState
  <2>1. CASE \E b \in Builders : BuilderDone(b)
    <3>1. PICK b \in Builders : BuilderDone(b)
      BY <2>1
    <3>2. b \in active /\ at = "building" /\ at' = at
      BY <3>1 DEF BuilderDone, Turning
    <3>3. UNCHANGED <<cur, merge, evidence>> /\ \A c \in Builders \ {b} : work'[c] = work[c]
      BY <3>1 DEF BuilderDone
    <3>4. b \notin Settled
      <4>1. merge[b] = "none"
        BY <3>2
      <4> QED
        BY <4>1
    <3> QED
      BY <3>2, <3>3, <3>4
  <2>2. CASE \E b \in Builders : BuilderFails(b)
    <3>1. PICK b \in Builders : BuilderFails(b)
      BY <2>2
    <3>2. b \in active /\ at = "building" /\ at' = at
      BY <3>1 DEF BuilderFails, Turning
    <3>3. UNCHANGED <<cur, merge, evidence>> /\ \A c \in Builders \ {b} : work'[c] = work[c]
      BY <3>1 DEF BuilderFails
    <3>4. b \notin Settled
      <4>1. merge[b] = "none"
        BY <3>2
      <4> QED
        BY <4>1
    <3> QED
      BY <3>2, <3>3, <3>4
  <2>3. CASE GraphStops
    BY <2>3 DEF GraphStops
  <2>4. CASE CheckerStarts
    BY <2>4 DEF CheckerStarts
  <2>5. CASE \E b \in Builders : Publish(b)
    BY <2>5 DEF Publish, Commit
  <2>6. CASE \E b \in Builders : PublishFails(b)
    BY <2>6 DEF PublishFails, Commit, CheckerErrs
  <2>7. CASE StartAuthoring
    BY <2>7 DEF StartAuthoring
  <2>8. CASE \E b \in Builders : Author(b)
    BY <2>8 DEF Author
  <2>9. CASE \E b \in Builders : AuthorFails(b)
    BY <2>9 DEF AuthorFails, CheckerErrs
  <2>10. CASE CheckerDone
    BY <2>10 DEF CheckerDone
  <2>11. CASE FirstRoundFails
    BY <2>11 DEF FirstRoundFails
  <2>12. CASE RepairFails
    BY <2>12 DEF RepairFails, Blocked, NextItem
  <2>13. CASE RoundSucceeds
    BY <2>13 DEF RoundSucceeds
  <2>14. CASE GateRed
    BY <2>14 DEF GateRed, Blocked, NextItem
  <2>15. CASE GateGreen
    <3>1. cur \in Builders /\ merge[cur] = "none"
      BY <2>15 DEF GateGreen
    <3>2. gateTree'[cur] = Overlay(base, BaseTree, work[cur]) /\ cur \in green'
      BY <2>15, <3>1 DEF GateGreen
    <3>3. Gated(cur)'
      BY <2>15, <3>1, <3>2, OverlayChanges DEF GateGreen
    <3>4. \A b \in Settled' : b # cur /\ Gated(b) /\ Approved(b)
      BY <2>15, <3>1 DEF GateGreen
    <3>5. \A b \in Settled' : Gated(b)' /\ Approved(b)'
      BY <2>15, <3>1, <3>4 DEF GateGreen
    <3> QED
      BY <2>15, <3>3, <3>5 DEF GateGreen
  <2>16. CASE Approve
    BY <2>16 DEF Approve, Judged
  <2>17. CASE RequestChanges
    BY <2>17 DEF RequestChanges, Judged, Blocked, NextItem
  <2>18. CASE ReviewUnavailable
    BY <2>18 DEF ReviewUnavailable, Judged, Blocked, NextItem
  <2>19. CASE RouteRepair
    BY <2>19 DEF RouteRepair, Blocked, NextItem
  <2>20. CASE LeaveOpen
    BY <2>20 DEF LeaveOpen, NextItem
  <2>21. CASE MergeLands
    BY <2>21 DEF MergeLands, Squash
  <2>22. CASE MergeRefused
    BY <2>22 DEF MergeRefused, Blocked, NextItem
  <2>23. CASE MergeUnheard
    BY <2>23 DEF MergeUnheard, Squash, Blocked, NextItem
  <2>24. CASE Snapshot
    BY <2>24 DEF Snapshot, NextItem
  <2>25. CASE SnapshotFails
    BY <2>25 DEF SnapshotFails, Blocked, NextItem
  <2>26. CASE Settle
    BY <2>26 DEF Settle
  <2>27. CASE EngineRaises
    BY <2>27 DEF EngineRaises
  <2>28. CASE OutsideCommit
    BY <2>28 DEF OutsideCommit, Outsider
  <2>29. CASE \E b \in Builders : OutsidePush(b)
    BY <2>29 DEF OutsidePush, Outsider
  <2>30. CASE \E b \in Builders : OutsideClose(b)
    BY <2>30 DEF OutsideClose, Outsider
  <2>31. CASE \E b \in Builders : OutsideMerge(b)
    BY <2>31 DEF OutsideMerge, Outsider, Squash
  <2>32. CASE OutsideRename
    BY <2>32 DEF OutsideRename, Outsider
  <2>33. CASE OutsidePolicy
    BY <2>33 DEF OutsidePolicy, Outsider
  <2>34. CASE UNCHANGED vars
    BY <2>34 DEF vars
  <2> QED
    BY <2>1, <2>2, <2>3, <2>4, <2>5, <2>6, <2>7, <2>8, <2>9, <2>10, <2>11,
       <2>12, <2>13, <2>14, <2>15, <2>16, <2>17, <2>18, <2>19, <2>20, <2>21,
       <2>22, <2>23, <2>24, <2>25, <2>26, <2>27, <2>28, <2>29, <2>30, <2>31,
       <2>32, <2>33, <2>34
    DEF Next, RoleSteps, EngineSteps, OutsideSteps

(* No step runs a round or a turn beyond the bound. *)
LEMMA RoundsCountedHolds ==
    ASSUME TypeOK, Placed, Ordered, RoundsCounted, [Next]_vars
    PROVE  RoundsCounted'
  <2> USE PullRequestsAssumption
      DEF TypeOK, Placed, Ordered, Rounds, RoundsCounted, Turning, RoundStates
  <2>1. CASE \E b \in Builders : BuilderDone(b)
    BY <2>1 DEF BuilderDone, Turning
  <2>2. CASE \E b \in Builders : BuilderFails(b)
    BY <2>2 DEF BuilderFails, Turning
  <2>3. CASE GraphStops
    BY <2>3 DEF GraphStops
  <2>4. CASE CheckerStarts
    BY <2>4 DEF CheckerStarts
  <2>5. CASE \E b \in Builders : Publish(b)
    BY <2>5 DEF Publish, Commit
  <2>6. CASE \E b \in Builders : PublishFails(b)
    BY <2>6 DEF PublishFails, Commit, CheckerErrs
  <2>7. CASE StartAuthoring
    BY <2>7 DEF StartAuthoring
  <2>8. CASE \E b \in Builders : Author(b)
    BY <2>8 DEF Author
  <2>9. CASE \E b \in Builders : AuthorFails(b)
    BY <2>9 DEF AuthorFails, CheckerErrs
  <2>10. CASE CheckerDone
    BY <2>10 DEF CheckerDone
  <2>11. CASE FirstRoundFails
    BY <2>11 DEF FirstRoundFails
  <2>12. CASE RepairFails
    BY <2>12 DEF RepairFails, Blocked, NextItem
  <2>13. CASE RoundSucceeds
    BY <2>13 DEF RoundSucceeds
  <2>14. CASE GateRed
    BY <2>14 DEF GateRed, Blocked, NextItem
  <2>15. CASE GateGreen
    BY <2>15 DEF GateGreen
  <2>16. CASE Approve
    BY <2>16 DEF Approve, Judged
  <2>17. CASE RequestChanges
    BY <2>17 DEF RequestChanges, Judged, Blocked, NextItem
  <2>18. CASE ReviewUnavailable
    BY <2>18 DEF ReviewUnavailable, Judged, Blocked, NextItem
  <2>19. CASE RouteRepair
    BY <2>19 DEF RouteRepair, Blocked, NextItem
  <2>20. CASE LeaveOpen
    BY <2>20 DEF LeaveOpen, NextItem
  <2>21. CASE MergeLands
    BY <2>21 DEF MergeLands, Squash
  <2>22. CASE MergeRefused
    BY <2>22 DEF MergeRefused, Blocked, NextItem
  <2>23. CASE MergeUnheard
    BY <2>23 DEF MergeUnheard, Squash, Blocked, NextItem
  <2>24. CASE Snapshot
    BY <2>24 DEF Snapshot, NextItem
  <2>25. CASE SnapshotFails
    BY <2>25 DEF SnapshotFails, Blocked, NextItem
  <2>26. CASE Settle
    BY <2>26 DEF Settle
  <2>27. CASE EngineRaises
    BY <2>27 DEF EngineRaises
  <2>28. CASE OutsideCommit
    BY <2>28 DEF OutsideCommit, Outsider
  <2>29. CASE \E b \in Builders : OutsidePush(b)
    BY <2>29 DEF OutsidePush, Outsider
  <2>30. CASE \E b \in Builders : OutsideClose(b)
    BY <2>30 DEF OutsideClose, Outsider
  <2>31. CASE \E b \in Builders : OutsideMerge(b)
    BY <2>31 DEF OutsideMerge, Outsider, Squash
  <2>32. CASE OutsideRename
    BY <2>32 DEF OutsideRename, Outsider
  <2>33. CASE OutsidePolicy
    BY <2>33 DEF OutsidePolicy, Outsider
  <2>34. CASE UNCHANGED vars
    BY <2>34 DEF vars
  <2> QED
    BY <2>1, <2>2, <2>3, <2>4, <2>5, <2>6, <2>7, <2>8, <2>9, <2>10, <2>11,
       <2>12, <2>13, <2>14, <2>15, <2>16, <2>17, <2>18, <2>19, <2>20, <2>21,
       <2>22, <2>23, <2>24, <2>25, <2>26, <2>27, <2>28, <2>29, <2>30, <2>31,
       <2>32, <2>33, <2>34
    DEF Next, RoleSteps, EngineSteps, OutsideSteps

(* No step writes a verdict the pull requests contradict. *)
LEMMA VerdictIsLastHolds ==
    ASSUME TypeOK, Placed, Ordered, VerdictIsLast, [Next]_vars
    PROVE  VerdictIsLast'
  <2> USE PullRequestsAssumption
      DEF TypeOK, Placed, Ordered, OutcomeOfCur, Rounds, VerdictIsLast,
          VerdictMatchesPullRequests, Settled, InState
  <2>1. CASE \E b \in Builders : BuilderDone(b)
    BY <2>1 DEF BuilderDone, Turning
  <2>2. CASE \E b \in Builders : BuilderFails(b)
    BY <2>2 DEF BuilderFails, Turning
  <2>3. CASE GraphStops
    BY <2>3 DEF GraphStops
  <2>4. CASE CheckerStarts
    BY <2>4 DEF CheckerStarts
  <2>5. CASE \E b \in Builders : Publish(b)
    BY <2>5 DEF Publish, Commit
  <2>6. CASE \E b \in Builders : PublishFails(b)
    BY <2>6 DEF PublishFails, Commit, CheckerErrs
  <2>7. CASE StartAuthoring
    BY <2>7 DEF StartAuthoring
  <2>8. CASE \E b \in Builders : Author(b)
    BY <2>8 DEF Author
  <2>9. CASE \E b \in Builders : AuthorFails(b)
    BY <2>9 DEF AuthorFails, CheckerErrs
  <2>10. CASE CheckerDone
    BY <2>10 DEF CheckerDone
  <2>11. CASE FirstRoundFails
    <3>1. 1 \in Builders
      BY PullRequestsAssumption
    <3>2. cur = 0
      BY <2>11 DEF FirstRoundFails
    <3>3. merge[1] = "none"
      <4>1. \A b \in Builders : b > 0 => merge[b] = "none"
        BY <3>2
      <4>2. 1 > 0
        OBVIOUS
      <4> QED
        BY <3>1, <4>1, <4>2, Zenon
    <3>4. Settled' # Builders
      BY <2>11, <3>1, <3>3 DEF FirstRoundFails
    <3> QED
      BY <2>11, <3>2, <3>4 DEF FirstRoundFails
  <2>12. CASE RepairFails
    BY <2>12 DEF RepairFails, Blocked, NextItem
  <2>13. CASE RoundSucceeds
    BY <2>13 DEF RoundSucceeds
  <2>14. CASE GateRed
    BY <2>14 DEF GateRed, Blocked, NextItem
  <2>15. CASE GateGreen
    BY <2>15 DEF GateGreen
  <2>16. CASE Approve
    BY <2>16 DEF Approve, Judged
  <2>17. CASE RequestChanges
    BY <2>17 DEF RequestChanges, Judged, Blocked, NextItem
  <2>18. CASE ReviewUnavailable
    BY <2>18 DEF ReviewUnavailable, Judged, Blocked, NextItem
  <2>19. CASE RouteRepair
    BY <2>19 DEF RouteRepair, Blocked, NextItem
  <2>20. CASE LeaveOpen
    BY <2>20 DEF LeaveOpen, NextItem
  <2>21. CASE MergeLands
    BY <2>21 DEF MergeLands, Squash
  <2>22. CASE MergeRefused
    BY <2>22 DEF MergeRefused, Blocked, NextItem
  <2>23. CASE MergeUnheard
    BY <2>23 DEF MergeUnheard, Squash, Blocked, NextItem
  <2>24. CASE Snapshot
    BY <2>24 DEF Snapshot, NextItem
  <2>25. CASE SnapshotFails
    BY <2>25 DEF SnapshotFails, Blocked, NextItem
  <2>26. CASE Settle
    <3>1. cur = N /\ InState({"none"}) = {}
      BY <2>26 DEF Settle
    <3>2. UNCHANGED <<cur, merge>>
      BY <2>26 DEF Settle
    <3>3. CASE InState({"review_unavailable"}) # {} \/ InState({"blocked"}) # {}
      <4>1. Settled # Builders
        <5>1. PICK q \in Builders : merge[q] \in {"review_unavailable", "blocked"}
          BY <3>3
        <5>2. merge[q] \notin {"merged", "human_review"}
          BY <5>1
        <5>3. q \notin Settled
          BY <5>2
        <5> QED
          BY <5>1, <5>3
      <4>2. status' = "needs_human" /\ at' = "done"
        BY <2>26, <3>3, <4>1 DEF Settle
      <4> QED
        BY <3>1, <3>2, <4>1, <4>2
    <3>4. CASE Settled = Builders
      <4>1. status' = "passed" /\ at' = "done"
        BY <2>26, <3>4 DEF Settle
      <4> QED
        BY <3>1, <3>2, <3>4, <4>1
    <3> QED
      BY <2>26, <3>3, <3>4 DEF Settle
  <2>27. CASE EngineRaises
    BY <2>27 DEF EngineRaises
  <2>28. CASE OutsideCommit
    BY <2>28 DEF OutsideCommit, Outsider
  <2>29. CASE \E b \in Builders : OutsidePush(b)
    BY <2>29 DEF OutsidePush, Outsider
  <2>30. CASE \E b \in Builders : OutsideClose(b)
    BY <2>30 DEF OutsideClose, Outsider
  <2>31. CASE \E b \in Builders : OutsideMerge(b)
    BY <2>31 DEF OutsideMerge, Outsider, Squash
  <2>32. CASE OutsideRename
    BY <2>32 DEF OutsideRename, Outsider
  <2>33. CASE OutsidePolicy
    BY <2>33 DEF OutsidePolicy, Outsider
  <2>34. CASE UNCHANGED vars
    BY <2>34 DEF vars
  <2> QED
    BY <2>1, <2>2, <2>3, <2>4, <2>5, <2>6, <2>7, <2>8, <2>9, <2>10, <2>11,
       <2>12, <2>13, <2>14, <2>15, <2>16, <2>17, <2>18, <2>19, <2>20, <2>21,
       <2>22, <2>23, <2>24, <2>25, <2>26, <2>27, <2>28, <2>29, <2>30, <2>31,
       <2>32, <2>33, <2>34
    DEF Next, RoleSteps, EngineSteps, OutsideSteps
-----------------------------------------------------------------------------
Inductive ==
    /\ TypeOK /\ Placed /\ Ordered
    /\ CommitsCarryWork /\ EvidenceIsCurrent /\ RoundsCounted /\ VerdictIsLast

(* The strengthening holds throughout every run. *)
LEMMA InductiveHolds == Spec => []Inductive
<1>1. Init => TypeOK /\ Placed
  BY TypedInit
<1>2. Init => Inductive
  <2> SUFFICES ASSUME Init PROVE Inductive
    OBVIOUS
  <2>1. \A b \in Builders : b > 0 /\ merge[b] = "none" /\ attempt[b] = 0
    BY DEF Init
  <2>2. Ordered
    BY <2>1 DEF Init, Ordered, OutcomeOfCur, Rounds
  <2>3. CommitsCarryWork
    BY DEF Init, CommitsCarryWork, Unpublished
  <2>4. EvidenceIsCurrent
    BY <2>1 DEF Init, EvidenceIsCurrent, Settled, InState
  <2>5. RoundsCounted
    BY <2>1, PullRequestsAssumption DEF Init, RoundsCounted, Turning
  <2>6. VerdictIsLast
    BY DEF Init, VerdictIsLast, VerdictMatchesPullRequests
  <2> QED
    BY <1>1, <2>2, <2>3, <2>4, <2>5, <2>6 DEF Inductive
<1>3. Inductive /\ [Next]_vars => Inductive'
  BY TypedStep, OrderedHolds, CommitsCarryWorkHolds, EvidenceIsCurrentHolds,
     RoundsCountedHolds, VerdictIsLastHolds
  DEF Inductive
<1> QED
  BY <1>2, <1>3, PTL DEF Spec

(* Every variable keeps its type, whatever the number of builders, the trees
   they leave behind and the interference of others. *)
THEOREM TypeCorrect == Spec => []TypeOK
BY InductiveHolds, PTL DEF Inductive

(* What the engine merges or offers for merging is what its own gate and its
   own review judged, with any number of builders, any repository contents, any
   failures and any interference (_finalize, _merge_if_policy_allows). *)
THEOREM SettledProven == Spec => []SettledIsProven
<1>1. Inductive => SettledIsProven
  <2> SUFFICES ASSUME Inductive, NEW b \in Settled
               PROVE  /\ Gated(b) /\ Approved(b)
                      /\ Changed(published[b].parent, published[b].tree) \subseteq
                            Changed(BaseTree, work[b])
                      /\ \A x \in Changed(BaseTree, work[b]) :
                            published[b].tree[x] = work[b][x]
    BY DEF SettledIsProven, Gated, Approved
  <2>1. b \in Builders /\ merge[b] \in {"merged", "human_review"}
    BY DEF Settled, InState
  <2>2. Gated(b) /\ Approved(b)
    BY DEF Inductive, EvidenceIsCurrent
  <2>3. cur > 0 /\ b <= cur
    BY <2>1 DEF Inductive, Ordered, TypeOK
  <2>4. ~Unpublished(b)
    BY <2>1, <2>3
    DEF Inductive, Ordered, OutcomeOfCur, Unpublished, Rounds, TypeOK
  <2>5. Carries(b)
    BY <2>1, <2>3, <2>4 DEF Inductive, CommitsCarryWork
  <2> QED
    BY <2>2, <2>5, OverlayOnlyChanges, OverlayChanges DEF Carries
<1> QED
  BY <1>1, InductiveHolds, PTL

(* No builder takes more turns than MAX_ITERATIONS and the run no more rounds
   than one for each pull request after the first, however the reviews and the
   checks fall out (_finalize, _route_repair). *)
THEOREM RepairBounded == Spec => []RepairIsBounded
<1>1. Inductive => RepairIsBounded
  BY PullRequestsAssumption
  DEF Inductive, RoundsCounted, RepairIsBounded, TypeOK
<1> QED
  BY <1>1, InductiveHolds, PTL

(* The verdict and the outcomes of the pull requests agree when the run ends
   (_finalize, _settle_run). *)
THEOREM VerdictMatches == Spec => []VerdictMatchesPullRequests
<1>1. Inductive => VerdictMatchesPullRequests
  BY DEF Inductive, VerdictIsLast
<1> QED
  BY <1>1, InductiveHolds, PTL

(* An outage of the review service is final for its pull request: nothing turns
   its owner, publishes or merges it again (_finalize). *)
THEOREM OutageNotRepaired == Spec => OutageIsNotRepaired
<1>1. ASSUME Inductive, [Next]_vars, NEW q \in Builders, merge[q] = "review_unavailable"
      PROVE  /\ attempt'[q] = attempt[q] /\ merge'[q] = merge[q]
             /\ published'[q] = published[q] /\ ~EngineMerges(q)
  <2> USE <1>1, PullRequestsAssumption
      DEF Inductive, TypeOK, Placed, Ordered, OutcomeOfCur, Rounds
  <2>1. q # cur \/ at \in {"settling", "done"}
    OBVIOUS
  <2>2. ~EngineMerges(q)
    BY <2>1 DEF EngineMerges
  <2>3. cur > 0
    <3>1. q > 0 /\ ~(q > cur)
      OBVIOUS
    <3> QED
      BY <3>1
  <2>4. at \in Rounds => q \notin active
    BY <2>1, <2>3
  <2>5. CASE \E b \in Builders : BuilderDone(b)
    BY <2>5, <2>1, <2>2, <2>3, <2>4 DEF BuilderDone, Turning
  <2>6. CASE \E b \in Builders : BuilderFails(b)
    BY <2>6, <2>1, <2>2, <2>3, <2>4 DEF BuilderFails, Turning
  <2>7. CASE GraphStops
    BY <2>7, <2>1, <2>2, <2>3, <2>4 DEF GraphStops
  <2>8. CASE CheckerStarts
    BY <2>8, <2>1, <2>2, <2>3, <2>4 DEF CheckerStarts
  <2>9. CASE \E c \in Builders : Publish(c)
    <3>1. PICK c \in Builders : Publish(c)
      BY <2>9
    <3>2. c # q /\ UNCHANGED <<attempt, merge>>
      BY <3>1, <2>4 DEF Publish, First
    <3> QED
      BY <3>1, <3>2, <2>2 DEF Publish, Commit
  <2>10. CASE \E c \in Builders : PublishFails(c)
    <3>1. PICK c \in Builders : PublishFails(c)
      BY <2>10
    <3>2. c # q /\ UNCHANGED <<attempt, merge>>
      BY <3>1, <2>4 DEF PublishFails, First
    <3> QED
      BY <3>1, <3>2, <2>2 DEF PublishFails, Commit
  <2>11. CASE StartAuthoring
    BY <2>11, <2>1, <2>2, <2>3, <2>4 DEF StartAuthoring
  <2>12. CASE \E b \in Builders : Author(b)
    BY <2>12, <2>1, <2>2, <2>3, <2>4 DEF Author
  <2>13. CASE \E b \in Builders : AuthorFails(b)
    BY <2>13, <2>1, <2>2, <2>3, <2>4 DEF AuthorFails, CheckerErrs
  <2>14. CASE CheckerDone
    BY <2>14, <2>1, <2>2, <2>3, <2>4 DEF CheckerDone
  <2>15. CASE FirstRoundFails
    BY <2>15, <2>1, <2>2, <2>3, <2>4 DEF FirstRoundFails
  <2>16. CASE RepairFails
    BY <2>16, <2>1, <2>2, <2>3, <2>4 DEF RepairFails, Blocked, NextItem
  <2>17. CASE RoundSucceeds
    BY <2>17, <2>1, <2>2, <2>3, <2>4 DEF RoundSucceeds
  <2>18. CASE GateRed
    BY <2>18, <2>1, <2>2, <2>3, <2>4 DEF GateRed, Blocked, NextItem
  <2>19. CASE GateGreen
    BY <2>19, <2>1, <2>2, <2>3, <2>4 DEF GateGreen
  <2>20. CASE Approve
    BY <2>20, <2>1, <2>2, <2>3, <2>4 DEF Approve, Judged
  <2>21. CASE RequestChanges
    BY <2>21, <2>1, <2>2, <2>3, <2>4
    DEF RequestChanges, Judged, Blocked, NextItem
  <2>22. CASE ReviewUnavailable
    BY <2>22, <2>1, <2>2, <2>3, <2>4
    DEF ReviewUnavailable, Judged, Blocked, NextItem
  <2>23. CASE RouteRepair
    BY <2>23, <2>1, <2>2, <2>3, <2>4 DEF RouteRepair, Blocked, NextItem
  <2>24. CASE LeaveOpen
    BY <2>24, <2>1, <2>2, <2>3, <2>4 DEF LeaveOpen, NextItem
  <2>25. CASE MergeLands
    BY <2>25, <2>1, <2>2, <2>3, <2>4 DEF MergeLands, Squash
  <2>26. CASE MergeRefused
    BY <2>26, <2>1, <2>2, <2>3, <2>4 DEF MergeRefused, Blocked, NextItem
  <2>27. CASE MergeUnheard
    BY <2>27, <2>1, <2>2, <2>3, <2>4 DEF MergeUnheard, Squash, Blocked, NextItem
  <2>28. CASE Snapshot
    BY <2>28, <2>1, <2>2, <2>3, <2>4 DEF Snapshot, NextItem
  <2>29. CASE SnapshotFails
    BY <2>29, <2>1, <2>2, <2>3, <2>4 DEF SnapshotFails, Blocked, NextItem
  <2>30. CASE Settle
    BY <2>30, <2>1, <2>2, <2>3, <2>4 DEF Settle
  <2>31. CASE EngineRaises
    BY <2>31, <2>1, <2>2, <2>3, <2>4 DEF EngineRaises
  <2>32. CASE OutsideCommit
    BY <2>32, <2>1, <2>2, <2>3, <2>4 DEF OutsideCommit, Outsider
  <2>33. CASE \E b \in Builders : OutsidePush(b)
    BY <2>33, <2>1, <2>2, <2>3, <2>4 DEF OutsidePush, Outsider
  <2>34. CASE \E b \in Builders : OutsideClose(b)
    BY <2>34, <2>1, <2>2, <2>3, <2>4 DEF OutsideClose, Outsider
  <2>35. CASE \E b \in Builders : OutsideMerge(b)
    BY <2>35, <2>1, <2>2, <2>3, <2>4 DEF OutsideMerge, Outsider, Squash
  <2>36. CASE OutsideRename
    BY <2>36, <2>1, <2>2, <2>3, <2>4 DEF OutsideRename, Outsider
  <2>37. CASE OutsidePolicy
    BY <2>37, <2>1, <2>2, <2>3, <2>4 DEF OutsidePolicy, Outsider
  <2>38. CASE UNCHANGED vars
    BY <2>38, <2>1, <2>2, <2>3, <2>4 DEF vars
  <2> QED
    BY <2>5, <2>6, <2>7, <2>8, <2>9, <2>10, <2>11, <2>12, <2>13, <2>14, <2>15,
       <2>16, <2>17, <2>18, <2>19, <2>20, <2>21, <2>22, <2>23, <2>24, <2>25,
       <2>26, <2>27, <2>28, <2>29, <2>30, <2>31, <2>32, <2>33, <2>34, <2>35,
       <2>36, <2>37, <2>38
    DEF Next, RoleSteps, EngineSteps, OutsideSteps
<1>2. Inductive /\ [Next]_vars =>
         [\A b \in Builders : merge[b] = "review_unavailable" =>
             /\ attempt'[b] = attempt[b] /\ merge'[b] = merge[b]
             /\ published'[b] = published[b]
             /\ ~EngineMerges(b)]_vars
  BY <1>1
<1> QED
  BY <1>2, InductiveHolds, PTL DEF Spec, OutageIsNotRepaired
-----------------------------------------------------------------------------
(* A run that is alone in its repository, and whose calls are answered. *)

(* What others did: nothing. *)
NothingOutside == outside = 0 /\ moved = {} /\ ~renamed

(* The steps such a run takes. *)
AloneNext ==
    \/ \E b \in Builders : BuilderDone(b)
    \/ \E b \in Builders : BuilderFails(b)
    \/ GraphStops
    \/ CheckerStarts
    \/ \E b \in Builders : Publish(b)
    \/ \E b \in Builders : PublishFails(b)
    \/ StartAuthoring
    \/ \E b \in Builders : Author(b)
    \/ \E b \in Builders : AuthorFails(b)
    \/ CheckerDone
    \/ FirstRoundFails
    \/ RepairFails
    \/ RoundSucceeds
    \/ GateRed
    \/ GateGreen
    \/ Approve
    \/ RequestChanges
    \/ ReviewUnavailable
    \/ RouteRepair
    \/ LeaveOpen
    \/ MergeLands
    \/ MergeRefused
    \/ Snapshot
    \/ Settle
    \/ UNCHANGED vars

LEMMA AloneSteps ==
    ASSUME ~Faults, MaxOutside = 0, NothingOutside, [Next]_vars
    PROVE  AloneNext /\ NothingOutside'
<1>1. ~MergeUnheard /\ ~SnapshotFails /\ ~EngineRaises
  BY DEF MergeUnheard, SnapshotFails, EngineRaises
<1>2. ~Outsider
  BY DEF Outsider, NothingOutside
<1>3. ~OutsideSteps
  BY <1>2 DEF OutsideSteps, OutsideCommit, OutsideRename, OutsidePolicy, OutsidePush, OutsideClose, OutsideMerge
<1>4. AloneNext
  BY <1>1, <1>3 DEF AloneNext, Next, RoleSteps, EngineSteps
<1>5. UNCHANGED <<outside, moved, renamed>>
  BY <1>4 DEF AloneNext, BuilderDone, BuilderFails, GraphStops, CheckerStarts, Publish, PublishFails,
     StartAuthoring, Author, AuthorFails, CheckerDone, FirstRoundFails, RepairFails, RoundSucceeds, GateRed,
     GateGreen, Approve, RequestChanges, ReviewUnavailable, Judged, RouteRepair, LeaveOpen, MergeLands, Squash,
     MergeRefused, Snapshot, Settle, vars
<1> QED
  BY <1>4, <1>5 DEF NothingOutside

(* Each pull request is open when finalization begins: the first round publishes
   them all or is the last. *)
Opened ==
    /\ cur > 0 => \A b \in Builders : pr[b] # "none"
    /\ cur = 0 /\ at # "done" =>
          /\ active = Builders
          /\ at = "publishing" => \A b \in Builders : b \in todo \/ pr[b] # "none"
          /\ at = "authoring" \/ (at = "roundOver" /\ Errored = {}) =>
                \A b \in Builders : pr[b] # "none"

(* What the run says of a pull request is what became of it. *)
Reported ==
    \A b \in Builders :
       /\ pr[b] # "closed"
       /\ merge[b] = "merged" <=> pr[b] = "merged"
       /\ merge[b] = "human_review" => pr[b] = "open"

LEMMA ReportedStep ==
    ASSUME ~Faults, MaxOutside = 0, NothingOutside, TypeOK, Placed, Ordered, Opened, Reported, [Next]_vars
    PROVE  Opened' /\ Reported'
  <2> USE PullRequestsAssumption
      DEF TypeOK, Placed, Ordered, OutcomeOfCur, Rounds, Opened, Reported, Errored
  <2>1. CASE \E b \in Builders : BuilderDone(b)
    BY <2>1 DEF BuilderDone, Turning
  <2>2. CASE \E b \in Builders : BuilderFails(b)
    BY <2>2 DEF BuilderFails, Turning
  <2>3. CASE GraphStops
    <3>1. Checker \in Errored' /\ at' = "roundOver"
      BY <2>3 DEF GraphStops
    <3> QED
      BY <2>3, <3>1 DEF GraphStops
  <2>4. CASE CheckerStarts
    BY <2>4 DEF CheckerStarts
  <2>5. CASE \E b \in Builders : Publish(b)
    BY <2>5 DEF Publish, Commit, First
  <2>6. CASE \E b \in Builders : PublishFails(b)
    BY <2>6 DEF PublishFails, CheckerErrs
  <2>7. CASE StartAuthoring
    BY <2>7 DEF StartAuthoring
  <2>8. CASE \E b \in Builders : Author(b)
    BY <2>8 DEF Author
  <2>9. CASE \E b \in Builders : AuthorFails(b)
    BY <2>9 DEF AuthorFails, CheckerErrs
  <2>10. CASE CheckerDone
    BY <2>10 DEF CheckerDone
  <2>11. CASE FirstRoundFails
    BY <2>11 DEF FirstRoundFails
  <2>12. CASE RepairFails
    BY <2>12 DEF RepairFails, Blocked, NextItem
  <2>13. CASE RoundSucceeds
    BY <2>13 DEF RoundSucceeds
  <2>14. CASE GateRed
    BY <2>14 DEF GateRed, Blocked, NextItem
  <2>15. CASE GateGreen
    BY <2>15 DEF GateGreen
  <2>16. CASE Approve
    BY <2>16 DEF Approve, Judged
  <2>17. CASE RequestChanges
    BY <2>17 DEF RequestChanges, Judged, Blocked, NextItem
  <2>18. CASE ReviewUnavailable
    BY <2>18 DEF ReviewUnavailable, Judged, Blocked, NextItem
  <2>19. CASE RouteRepair
    BY <2>19 DEF RouteRepair, Blocked, NextItem
  <2>20. CASE LeaveOpen
    BY <2>20 DEF LeaveOpen, NextItem
  <2>21. CASE MergeLands
    BY <2>21 DEF MergeLands, Squash
  <2>22. CASE MergeRefused
    BY <2>22 DEF MergeRefused, Blocked, NextItem
  <2>23. CASE Snapshot
    BY <2>23 DEF Snapshot, NextItem
  <2>24. CASE Settle
    BY <2>24 DEF Settle
  <2>25. CASE UNCHANGED vars
    BY <2>25 DEF vars
  <2> QED
    BY AloneSteps, <2>1, <2>2, <2>3, <2>4, <2>5, <2>6, <2>7, <2>8, <2>9, <2>10,
       <2>11, <2>12, <2>13, <2>14, <2>15, <2>16, <2>17, <2>18, <2>19, <2>20, <2>21,
       <2>22, <2>23, <2>24, <2>25
    DEF AloneNext

(* The base is the branch, which keeps whatever a commit found on it. *)
Grown ==
    /\ at # "snapshotting" => base = branch
    /\ \A b \in Builders : \A x \in Paths :
          published[b].parent[x] # BaseTree[x] => branch[x] = published[b].parent[x]

(* The tree that was gated is the work on that base, which it fits. *)
GatedOnBase ==
    at \in {"reviewing", "rereviewing", "merging"} =>
        /\ gateTree[cur] = Overlay(base, BaseTree, work[cur])
        /\ ~Stale(base, BaseTree, work[cur])

(* A merge leaves the tree that was gated, and takes nothing back. *)
LEMMA LandsOnGrown ==
    ASSUME TypeOK, Placed, Ordered, CommitsCarryWork, Grown, GatedOnBase, at = "merging", Squash(cur)
    PROVE  /\ cur \in Builders
           /\ branch' = gateTree[cur]
           /\ \A x \in Paths : branch[x] # BaseTree[x] => branch'[x] = branch[x]
<1>1. cur \in Builders /\ merge[cur] = "none"
  BY DEF Placed, Rounds, Ordered, OutcomeOfCur
<1>2. Carries(cur)
  BY <1>1 DEF CommitsCarryWork, Unpublished
<1>3. base = branch /\ gateTree[cur] = Overlay(branch, BaseTree, work[cur]) /\ ~Stale(branch, BaseTree, work[cur])
  BY DEF Grown, GatedOnBase
<1>4. branch \in Trees /\ BaseTree \in Trees /\ work[cur] \in Trees /\ published[cur].parent \in Trees
  BY <1>1, PullRequestsAssumption DEF TypeOK
<1>5. \A x \in Changed(BaseTree, work[cur]) :
         published[cur].parent[x] = work[cur][x] => branch[x] = work[cur][x]
  BY <1>1 DEF Grown, Changed
<1>6. branch' = Overlay(branch, published[cur].parent, Overlay(published[cur].parent, BaseTree, work[cur]))
  BY <1>2 DEF Squash, Carries
<1>7. branch' = Overlay(branch, BaseTree, work[cur])
  BY <1>4, <1>5, <1>6, GatedTreeLandsOnItsBase
<1>8. \A x \in Paths : branch[x] # BaseTree[x] => branch'[x] = branch[x]
  BY <1>3, <1>7 DEF Overlay, Stale, Conflicts
<1> QED
  BY <1>1, <1>3, <1>7, <1>8

LEMMA GrownStep ==
    ASSUME ~Faults, MaxOutside = 0, NothingOutside, TypeOK, Placed, Ordered, CommitsCarryWork,
           Grown, GatedOnBase, [Next]_vars
    PROVE  Grown'
  <2> USE PullRequestsAssumption DEF TypeOK, Placed, Rounds, Grown
  <2>1. CASE \E b \in Builders : BuilderDone(b)
    BY <2>1 DEF BuilderDone, Turning
  <2>2. CASE \E b \in Builders : BuilderFails(b)
    BY <2>2 DEF BuilderFails, Turning
  <2>3. CASE GraphStops
    BY <2>3 DEF GraphStops
  <2>4. CASE CheckerStarts
    BY <2>4 DEF CheckerStarts
  <2>5. CASE \E b \in Builders : Publish(b)
    <3>1. PICK c \in Builders : Publish(c)
      BY <2>5
    <3>2. published'[c].parent = branch /\ \A b \in Builders : b # c => published'[b] = published[b]
      BY <3>1 DEF Publish, Commit
    <3>3. UNCHANGED <<at, base, branch>>
      BY <3>1 DEF Publish
    <3>4. ASSUME NEW b \in Builders, NEW x \in Paths, published'[b].parent[x] # BaseTree[x]
          PROVE  branch'[x] = published'[b].parent[x]
      <4>1. CASE b = c
        BY <3>2, <3>3, <4>1
      <4>2. CASE b # c
        <5>1. published'[b] = published[b] /\ published[b].parent[x] # BaseTree[x]
          BY <3>2, <3>4, <4>2
        <5>2. branch[x] = published[b].parent[x]
          BY <5>1
        <5> QED
          BY <3>3, <5>1, <5>2
      <4> QED
        BY <4>1, <4>2
    <3> QED
      BY <3>3, <3>4
  <2>6. CASE \E b \in Builders : PublishFails(b)
    BY <2>6 DEF PublishFails, CheckerErrs
  <2>7. CASE StartAuthoring
    BY <2>7 DEF StartAuthoring
  <2>8. CASE \E b \in Builders : Author(b)
    BY <2>8 DEF Author
  <2>9. CASE \E b \in Builders : AuthorFails(b)
    BY <2>9 DEF AuthorFails, CheckerErrs
  <2>10. CASE CheckerDone
    BY <2>10 DEF CheckerDone
  <2>11. CASE FirstRoundFails
    BY <2>11 DEF FirstRoundFails
  <2>12. CASE RepairFails
    BY <2>12 DEF RepairFails, Blocked, NextItem
  <2>13. CASE RoundSucceeds
    BY <2>13 DEF RoundSucceeds
  <2>14. CASE GateRed
    BY <2>14 DEF GateRed, Blocked, NextItem
  <2>15. CASE GateGreen
    BY <2>15 DEF GateGreen
  <2>16. CASE Approve
    BY <2>16 DEF Approve, Judged
  <2>17. CASE RequestChanges
    BY <2>17 DEF RequestChanges, Judged, Blocked, NextItem
  <2>18. CASE ReviewUnavailable
    BY <2>18 DEF ReviewUnavailable, Judged, Blocked, NextItem
  <2>19. CASE RouteRepair
    BY <2>19 DEF RouteRepair, Blocked, NextItem
  <2>20. CASE LeaveOpen
    BY <2>20 DEF LeaveOpen, NextItem
  <2>21. CASE MergeLands
    <3>1. /\ at = "merging" /\ Squash(cur) /\ at' = "snapshotting" /\ UNCHANGED published
      BY <2>21 DEF MergeLands, Squash
    <3>2. \A x \in Paths : branch[x] # BaseTree[x] => branch'[x] = branch[x]
      BY <3>1, LandsOnGrown
    <3> QED
      BY <3>1, <3>2
  <2>22. CASE MergeRefused
    BY <2>22 DEF MergeRefused, Blocked, NextItem
  <2>23. CASE Snapshot
    BY <2>23 DEF Snapshot, NextItem
  <2>24. CASE Settle
    BY <2>24 DEF Settle
  <2>25. CASE UNCHANGED vars
    BY <2>25 DEF vars
  <2> QED
    BY AloneSteps, <2>1, <2>2, <2>3, <2>4, <2>5, <2>6, <2>7, <2>8, <2>9, <2>10,
       <2>11, <2>12, <2>13, <2>14, <2>15, <2>16, <2>17, <2>18, <2>19, <2>20, <2>21,
       <2>22, <2>23, <2>24, <2>25
    DEF AloneNext

LEMMA GatedOnBaseStep ==
    ASSUME ~Faults, MaxOutside = 0, NothingOutside, TypeOK, Placed, GatedOnBase, [Next]_vars
    PROVE  GatedOnBase'
  <2> USE PullRequestsAssumption DEF TypeOK, Placed, Rounds, GatedOnBase
  <2>1. CASE \E b \in Builders : BuilderDone(b)
    BY <2>1 DEF BuilderDone, Turning
  <2>2. CASE \E b \in Builders : BuilderFails(b)
    BY <2>2 DEF BuilderFails, Turning
  <2>3. CASE GraphStops
    BY <2>3 DEF GraphStops
  <2>4. CASE CheckerStarts
    BY <2>4 DEF CheckerStarts
  <2>5. CASE \E b \in Builders : Publish(b)
    BY <2>5 DEF Publish, Commit, First
  <2>6. CASE \E b \in Builders : PublishFails(b)
    BY <2>6 DEF PublishFails, CheckerErrs
  <2>7. CASE StartAuthoring
    BY <2>7 DEF StartAuthoring
  <2>8. CASE \E b \in Builders : Author(b)
    BY <2>8 DEF Author
  <2>9. CASE \E b \in Builders : AuthorFails(b)
    BY <2>9 DEF AuthorFails, CheckerErrs
  <2>10. CASE CheckerDone
    BY <2>10 DEF CheckerDone
  <2>11. CASE FirstRoundFails
    BY <2>11 DEF FirstRoundFails
  <2>12. CASE RepairFails
    BY <2>12 DEF RepairFails, Blocked, NextItem
  <2>13. CASE RoundSucceeds
    BY <2>13 DEF RoundSucceeds
  <2>14. CASE GateRed
    BY <2>14 DEF GateRed, Blocked, NextItem
  <2>15. CASE GateGreen
    BY <2>15 DEF GateGreen
  <2>16. CASE Approve
    BY <2>16 DEF Approve, Judged
  <2>17. CASE RequestChanges
    BY <2>17 DEF RequestChanges, Judged, Blocked, NextItem
  <2>18. CASE ReviewUnavailable
    BY <2>18 DEF ReviewUnavailable, Judged, Blocked, NextItem
  <2>19. CASE RouteRepair
    BY <2>19 DEF RouteRepair, Blocked, NextItem
  <2>20. CASE LeaveOpen
    BY <2>20 DEF LeaveOpen, NextItem
  <2>21. CASE MergeLands
    BY <2>21 DEF MergeLands, Squash
  <2>22. CASE MergeRefused
    BY <2>22 DEF MergeRefused, Blocked, NextItem
  <2>23. CASE Snapshot
    BY <2>23 DEF Snapshot, NextItem
  <2>24. CASE Settle
    BY <2>24 DEF Settle
  <2>25. CASE UNCHANGED vars
    BY <2>25 DEF vars
  <2> QED
    BY AloneSteps, <2>1, <2>2, <2>3, <2>4, <2>5, <2>6, <2>7, <2>8, <2>9, <2>10,
       <2>11, <2>12, <2>13, <2>14, <2>15, <2>16, <2>17, <2>18, <2>19, <2>20, <2>21,
       <2>22, <2>23, <2>24, <2>25
    DEF AloneNext

AloneInv == Inductive /\ NothingOutside /\ Opened /\ Reported /\ Grown /\ GatedOnBase

LEMMA AloneHolds ==
    ASSUME ~Faults, MaxOutside = 0
    PROVE  Spec => []AloneInv
<1>1. Init => NothingOutside /\ Opened /\ Reported /\ Grown /\ GatedOnBase
  BY PullRequestsAssumption DEF Init, NothingOutside, Opened, Reported, Grown, GatedOnBase
<1>2. Inductive /\ NothingOutside /\ Opened /\ Reported /\ Grown /\ GatedOnBase /\ [Next]_vars
        => (NothingOutside /\ Opened /\ Reported /\ Grown /\ GatedOnBase)'
  BY AloneSteps, ReportedStep, GrownStep, GatedOnBaseStep DEF Inductive
<1> QED
  BY <1>1, <1>2, InductiveHolds, PTL DEF Spec, AloneInv

(* The only step in which the engine merges. *)
LEMMA EngineSquashes ==
    ASSUME ~Faults, MaxOutside = 0, AloneInv, [Next]_vars, NEW b \in Builders, EngineMerges(b)
    PROVE  b = cur /\ Squash(cur) /\ at = "merging"
<1>1. b = cur /\ at = "merging" /\ pr' # pr
  BY DEF EngineMerges
<1>2. AloneNext
  BY AloneSteps DEF AloneInv
<1>3. MergeLands
  BY <1>1, <1>2 DEF AloneNext, BuilderDone, BuilderFails, Turning, GraphStops, CheckerStarts, Publish, PublishFails,
     StartAuthoring, Author, AuthorFails, CheckerDone, FirstRoundFails, RepairFails, RoundSucceeds, GateRed,
     GateGreen, Approve, RequestChanges, ReviewUnavailable, Judged, RouteRepair, LeaveOpen,
     MergeRefused, Snapshot, Settle, vars
<1> QED
  BY <1>1, <1>3 DEF MergeLands

(* The report of a run that is alone and whose calls are answered agrees with
   GitHub, for any number of builders and any trees (_merge_work_item,
   merge_work_item). *)
THEOREM ReportAgrees ==
    ASSUME ~Faults, MaxOutside = 0
    PROVE  Spec => []ReportMatchesGitHub
<1>1. AloneInv => ReportMatchesGitHub
  BY DEF AloneInv, Reported, ReportMatchesGitHub
<1> QED
  BY <1>1, AloneHolds, PTL

(* What such a run's merge leaves on the default branch is the very tree its gate
   ran on (_gate_work_item, merge_work_item). *)
THEOREM GatedIsLanded ==
    ASSUME ~Faults, MaxOutside = 0
    PROVE  Spec => LandsWhatWasGated
<1>1. ASSUME AloneInv, [Next]_vars, NEW b \in Builders, EngineMerges(b)
      PROVE  branch' = gateTree[b]
  <2>1. b = cur /\ Squash(cur) /\ at = "merging"
    BY <1>1, EngineSquashes
  <2> QED
    BY <1>1, <2>1, LandsOnGrown DEF AloneInv, Inductive
<1>2. AloneInv /\ [Next]_vars => [\A b \in Builders : EngineMerges(b) => branch' = gateTree[b]]_vars
  BY <1>1
<1> QED
  BY <1>2, AloneHolds, PTL DEF Spec, LandsWhatWasGated

(* And it replaces only contents that the role had been given (apply_patch). *)
THEOREM ForeignSurvives ==
    ASSUME ~Faults, MaxOutside = 0
    PROVE  Spec => ForeignWorkSurvives
<1>1. ASSUME AloneInv, [Next]_vars, NEW b \in Builders, EngineMerges(b), NEW p \in Paths,
             branch'[p] # branch[p]
      PROVE  branch[p] = BaseTree[p]
  <2>1. b = cur /\ Squash(cur) /\ at = "merging"
    BY <1>1, EngineSquashes
  <2> QED
    BY <1>1, <2>1, LandsOnGrown DEF AloneInv, Inductive
<1>2. AloneInv /\ [Next]_vars =>
         [\A b \in Builders : EngineMerges(b) =>
             \A p \in Paths : branch'[p] # branch[p] => branch[p] = BaseTree[p]]_vars
  BY <1>1
<1> QED
  BY <1>2, AloneHolds, PTL DEF Spec, ForeignWorkSurvives
-----------------------------------------------------------------------------
(* What the run promises of its pull requests (Delivery). *)

(* A pull request is approved when its merge is up, and not before. *)
ApprovedLast ==
    \A b \in Builders : review[b] = "approved" =>
        \/ b < cur
        \/ b = cur /\ at \in {"merging", "snapshotting", "settling", "done"}

(* The engine's own failure is the last thing a run knows. *)
ErrorIsLast == at # "done" => reason # "ENGINE_ERROR"

LEMMA OpenedHolds ==
    ASSUME TypeOK, Placed, Opened, [Next]_vars
    PROVE  Opened'
  <2> USE PullRequestsAssumption DEF TypeOK, Placed, Rounds, Opened, Errored
  <2>1. CASE \E b \in Builders : BuilderDone(b)
    BY <2>1 DEF BuilderDone, Turning
  <2>2. CASE \E b \in Builders : BuilderFails(b)
    BY <2>2 DEF BuilderFails, Turning
  <2>3. CASE GraphStops
    <3>1. Checker \in Errored' /\ at' = "roundOver"
      BY <2>3 DEF GraphStops
    <3> QED
      BY <2>3, <3>1 DEF GraphStops
  <2>4. CASE CheckerStarts
    BY <2>4 DEF CheckerStarts
  <2>5. CASE \E b \in Builders : Publish(b)
    BY <2>5 DEF Publish, Commit, First
  <2>6. CASE \E b \in Builders : PublishFails(b)
    <3>1. Checker \in Errored' /\ at' = "roundOver" /\ UNCHANGED <<cur, active>> /\ at = "publishing"
      BY <2>6 DEF PublishFails, CheckerErrs
    <3>2. \A b \in Builders : pr[b] # "none" => pr'[b] # "none"
      BY <2>6 DEF PublishFails
    <3>3. ~(Errored' = {})
      BY <3>1
    <3> QED
      BY <3>1, <3>2, <3>3
  <2>7. CASE StartAuthoring
    BY <2>7 DEF StartAuthoring
  <2>8. CASE \E b \in Builders : Author(b)
    BY <2>8 DEF Author
  <2>9. CASE \E b \in Builders : AuthorFails(b)
    BY <2>9 DEF AuthorFails, CheckerErrs
  <2>10. CASE CheckerDone
    BY <2>10 DEF CheckerDone
  <2>11. CASE FirstRoundFails
    BY <2>11 DEF FirstRoundFails
  <2>12. CASE RepairFails
    BY <2>12 DEF RepairFails, Blocked, NextItem
  <2>13. CASE RoundSucceeds
    BY <2>13 DEF RoundSucceeds
  <2>14. CASE GateRed
    BY <2>14 DEF GateRed, Blocked, NextItem
  <2>15. CASE GateGreen
    BY <2>15 DEF GateGreen
  <2>16. CASE Approve
    BY <2>16 DEF Approve, Judged
  <2>17. CASE RequestChanges
    BY <2>17 DEF RequestChanges, Judged, Blocked, NextItem
  <2>18. CASE ReviewUnavailable
    BY <2>18 DEF ReviewUnavailable, Judged, Blocked, NextItem
  <2>19. CASE RouteRepair
    BY <2>19 DEF RouteRepair, Blocked, NextItem
  <2>20. CASE LeaveOpen
    BY <2>20 DEF LeaveOpen, NextItem
  <2>21. CASE MergeLands
    BY <2>21 DEF MergeLands, Squash
  <2>22. CASE MergeRefused
    BY <2>22 DEF MergeRefused, Blocked, NextItem
  <2>23. CASE MergeUnheard
    BY <2>23 DEF MergeUnheard, Squash, Blocked, NextItem
  <2>24. CASE Snapshot
    BY <2>24 DEF Snapshot, NextItem
  <2>25. CASE SnapshotFails
    BY <2>25 DEF SnapshotFails, Blocked, NextItem
  <2>26. CASE Settle
    BY <2>26 DEF Settle
  <2>27. CASE EngineRaises
    BY <2>27 DEF EngineRaises
  <2>28. CASE OutsideCommit
    BY <2>28 DEF OutsideCommit, Outsider
  <2>29. CASE \E b \in Builders : OutsidePush(b)
    BY <2>29 DEF OutsidePush, Outsider
  <2>30. CASE \E b \in Builders : OutsideClose(b)
    BY <2>30 DEF OutsideClose, Outsider
  <2>31. CASE \E b \in Builders : OutsideMerge(b)
    BY <2>31 DEF OutsideMerge, Outsider, Squash
  <2>32. CASE OutsideRename
    BY <2>32 DEF OutsideRename, Outsider
  <2>33. CASE OutsidePolicy
    BY <2>33 DEF OutsidePolicy, Outsider
  <2>34. CASE UNCHANGED vars
    BY <2>34 DEF vars
  <2> QED
    BY <2>1, <2>2, <2>3, <2>4, <2>5, <2>6, <2>7, <2>8, <2>9, <2>10, <2>11, <2>12,
       <2>13, <2>14, <2>15, <2>16, <2>17, <2>18, <2>19, <2>20, <2>21, <2>22, <2>23, <2>24,
       <2>25, <2>26, <2>27, <2>28, <2>29, <2>30, <2>31, <2>32, <2>33, <2>34
    DEF Next, RoleSteps, EngineSteps, OutsideSteps

LEMMA ApprovedLastHolds ==
    ASSUME TypeOK, Placed, Ordered, ApprovedLast, ErrorIsLast, [Next]_vars
    PROVE  ApprovedLast' /\ ErrorIsLast'
  <2> USE PullRequestsAssumption DEF TypeOK, Placed, Ordered, Rounds, ApprovedLast, ErrorIsLast, RoundReason
  <2>1. CASE \E b \in Builders : BuilderDone(b)
    BY <2>1 DEF BuilderDone, Turning
  <2>2. CASE \E b \in Builders : BuilderFails(b)
    BY <2>2 DEF BuilderFails, Turning
  <2>3. CASE GraphStops
    BY <2>3 DEF GraphStops
  <2>4. CASE CheckerStarts
    BY <2>4 DEF CheckerStarts
  <2>5. CASE \E b \in Builders : Publish(b)
    BY <2>5 DEF Publish, Commit, First
  <2>6. CASE \E b \in Builders : PublishFails(b)
    BY <2>6 DEF PublishFails, CheckerErrs, Commit, First
  <2>7. CASE StartAuthoring
    BY <2>7 DEF StartAuthoring
  <2>8. CASE \E b \in Builders : Author(b)
    BY <2>8 DEF Author
  <2>9. CASE \E b \in Builders : AuthorFails(b)
    BY <2>9 DEF AuthorFails, CheckerErrs
  <2>10. CASE CheckerDone
    BY <2>10 DEF CheckerDone
  <2>11. CASE FirstRoundFails
    BY <2>11 DEF FirstRoundFails
  <2>12. CASE RepairFails
    BY <2>12 DEF RepairFails, Blocked, NextItem
  <2>13. CASE RoundSucceeds
    BY <2>13 DEF RoundSucceeds
  <2>14. CASE GateRed
    BY <2>14 DEF GateRed, Blocked, NextItem
  <2>15. CASE GateGreen
    BY <2>15 DEF GateGreen
  <2>16. CASE Approve
    BY <2>16 DEF Approve, Judged
  <2>17. CASE RequestChanges
    BY <2>17 DEF RequestChanges, Judged, Blocked, NextItem
  <2>18. CASE ReviewUnavailable
    BY <2>18 DEF ReviewUnavailable, Judged, Blocked, NextItem
  <2>19. CASE RouteRepair
    BY <2>19 DEF RouteRepair, Blocked, NextItem
  <2>20. CASE LeaveOpen
    BY <2>20 DEF LeaveOpen, NextItem
  <2>21. CASE MergeLands
    BY <2>21 DEF MergeLands, Squash
  <2>22. CASE MergeRefused
    BY <2>22 DEF MergeRefused, Blocked, NextItem
  <2>23. CASE MergeUnheard
    BY <2>23 DEF MergeUnheard, Squash, Blocked, NextItem
  <2>24. CASE Snapshot
    BY <2>24 DEF Snapshot, NextItem
  <2>25. CASE SnapshotFails
    BY <2>25 DEF SnapshotFails, Blocked, NextItem
  <2>26. CASE Settle
    BY <2>26 DEF Settle
  <2>27. CASE EngineRaises
    BY <2>27 DEF EngineRaises
  <2>28. CASE OutsideCommit
    BY <2>28 DEF OutsideCommit, Outsider
  <2>29. CASE \E b \in Builders : OutsidePush(b)
    BY <2>29 DEF OutsidePush, Outsider
  <2>30. CASE \E b \in Builders : OutsideClose(b)
    BY <2>30 DEF OutsideClose, Outsider
  <2>31. CASE \E b \in Builders : OutsideMerge(b)
    BY <2>31 DEF OutsideMerge, Outsider, Squash
  <2>32. CASE OutsideRename
    BY <2>32 DEF OutsideRename, Outsider
  <2>33. CASE OutsidePolicy
    BY <2>33 DEF OutsidePolicy, Outsider
  <2>34. CASE UNCHANGED vars
    BY <2>34 DEF vars
  <2> QED
    BY <2>1, <2>2, <2>3, <2>4, <2>5, <2>6, <2>7, <2>8, <2>9, <2>10, <2>11, <2>12,
       <2>13, <2>14, <2>15, <2>16, <2>17, <2>18, <2>19, <2>20, <2>21, <2>22, <2>23, <2>24,
       <2>25, <2>26, <2>27, <2>28, <2>29, <2>30, <2>31, <2>32, <2>33, <2>34
    DEF Next, RoleSteps, EngineSteps, OutsideSteps

(* The promise is followed from this invariant; that a run alone keeps more of it
   is AloneInv. *)
Deliverable ==
    /\ Inductive /\ Opened /\ ApprovedLast /\ ErrorIsLast
    /\ ~Faults /\ MaxOutside = 0 => AloneInv

(* What is proven changes only where a review is involved. *)
LEMMA ProvenKept ==
    ASSUME \A b \in Builders :
              \/ review[b] # "approved" /\ review'[b] # "approved"
              \/ /\ b \in green <=> b \in green'
                 /\ review'[b] = review[b] /\ reviewed'[b] = reviewed[b]
                 /\ work'[b] = work[b] /\ gateTree'[b] = gateTree[b]
                 /\ published'[b] = published[b]
    PROVE  Proven' = Proven
BY Zenon DEF Proven

(* While it is in a round, and until its merge is up, a pull request is decided by
   nobody and proven by nothing. *)
LEMMA InRound ==
    ASSUME Inductive, ApprovedLast, at \in Rounds, NEW b \in Builders, b \in active \/ b = cur
    PROVE  /\ Turn \in {0, b} /\ merge[b] = "none"
           /\ review[b] # "approved" /\ b \notin Proven
<1>1. at # "done" /\ at # "settling" /\ at # "merging" /\ at # "snapshotting"
  BY DEF Rounds
<1>2. cur = 0 \/ cur = b
  BY DEF Inductive, Ordered, TypeOK
<1>3. Turn \in {0, b}
  BY <1>1, <1>2 DEF Turn
<1>4. merge[b] = "none"
  <2>1. CASE cur = 0
    <3>1. b > cur
      BY <2>1
    <3> QED
      BY <3>1 DEF Inductive, Ordered
  <2>2. CASE cur = b
    <3>1. cur > 0
      BY <2>2
    <3> QED
      BY <1>1, <2>2, <3>1 DEF Inductive, Ordered, OutcomeOfCur
  <2> QED
    BY <1>2, <2>1, <2>2
<1>5. review[b] # "approved"
  BY <1>1, <1>2 DEF ApprovedLast
<1> QED
  BY <1>3, <1>4, <1>5 DEF Proven

(* While it is finalized, it is decided by nobody either. *)
LEMMA UnderFinalization ==
    ASSUME Inductive, ApprovedLast,
           at \in {"gating", "reviewing", "routing", "regating", "rereviewing", "merging"}
    PROVE  /\ cur \in Builders /\ Turn = cur /\ Verdict = "open" /\ merge[cur] = "none"
           /\ at # "merging" => review[cur] # "approved" /\ cur \notin Proven
<1>1. cur \in Builders
  BY DEF Inductive, Placed, Rounds
<1>2. merge[cur] = "none"
  BY <1>1 DEF Inductive, Ordered, OutcomeOfCur
<1>3. at # "merging" => review[cur] # "approved"
  BY <1>1 DEF ApprovedLast
<1> QED
  BY <1>1, <1>2, <1>3 DEF Turn, Verdict, Proven

(* Deciding a pull request hands the turn to the next one. *)
LEMMA TurnPasses ==
    ASSUME cur \in Builders, Turn = cur, NextItem, Verdict = "open"
    PROVE  Turn' = Turn + 1 /\ Verdict' = "open"
BY PullRequestsAssumption DEF NextItem, Turn, Verdict

(* The pull request whose merge is up is proven. *)
LEMMA MergingIsProven ==
    ASSUME Inductive, at = "merging"
    PROVE  cur \in Proven
<1>1. cur \in Builders /\ merge[cur] = "none"
  BY DEF Inductive, Placed, Ordered, OutcomeOfCur, Rounds
<1>2. Carries(cur)
  BY <1>1 DEF Inductive, CommitsCarryWork, Unpublished
<1> QED
  BY <1>1, <1>2 DEF Inductive, EvidenceIsCurrent, Gated, Approved, Carries, Proven

(* A merge writes the proven work and nothing else (merge_work_item). *)
LEMMA MergeLandsWork ==
    ASSUME Deliverable, at = "merging", Squash(cur), branch' \in Trees,
           UNCHANGED <<work, green, review, reviewed, gateTree, published>>, Verdict' = Verdict
    PROVE  Promise!Lands
<1>1. /\ Inductive /\ ApprovedLast /\ cur \in Builders /\ Turn = cur /\ merge[cur] = "none"
  BY UnderFinalization DEF Deliverable
<1>2. cur \in Proven
  BY <1>1, MergingIsProven
<1>3. Proven' = Proven
  BY ProvenKept
<1>4. pr[cur] = "open" /\ pr' = [pr EXCEPT ![cur] = "merged"]
  BY DEF Squash, Mergeable
<1>5. Carries(cur)
  BY <1>2 DEF Proven, Carries
<1>6. branch' = Overlay(branch, published[cur].parent, published[cur].tree)
  BY DEF Squash
<1>7. \A x \in Paths : branch'[x] \in {branch[x], Promise!Patched(work[cur])[x]}
  BY <1>5, <1>6 DEF Carries, Overlay, Changed, Promise!Patched, Promise!Writes
<1>8. ASSUME ~Faults /\ MaxOutside = 0
      PROVE  /\ branch' = Promise!Patched(work[cur])
             /\ \A x \in Promise!Writes(work[cur]) : branch[x] \in {BaseTree[x], work[cur][x]}
  <2>1. /\ branch' = gateTree[cur]
        /\ gateTree[cur] = Overlay(branch, BaseTree, work[cur])
        /\ ~Stale(branch, BaseTree, work[cur])
    BY <1>8, LandsOnGrown DEF Deliverable, AloneInv, Inductive, Grown, GatedOnBase
  <2> QED
    BY <2>1 DEF Overlay, Changed, Stale, Conflicts, Promise!Patched, Promise!Writes
<1> QED
  BY <1>1, <1>2, <1>3, <1>4, <1>7, <1>8 DEF Promise!Lands

LEMMA BranchIsTree ==
    ASSUME TypeOK, Placed, [Next]_vars
    PROVE  branch' \in Trees
BY TypedStep DEF TypeOK

(* What others do leaves the run where it stands. *)
LEMMA OutsidersLeave ==
    ASSUME Outsider, TypeOK, published' = published
    PROVE  /\ UNCHANGED <<Turn, Verdict, Proven, work, merge>>
           /\ Verdict = "open" /\ MaxOutside > 0
<1>1. at # "done" /\ outside < MaxOutside /\ outside \in Nat
      /\ UNCHANGED <<worker, roleVars, evidence, merge, published>>
  BY DEF Outsider, TypeOK
<1>2. Proven' = Proven
  BY <1>1, ProvenKept
<1> QED
  BY <1>1, <1>2, PullRequestsAssumption DEF Turn, Verdict

(* Every step of the run is a step of the promise or leaves it alone. *)
LEMMA StepKeepsPromise ==
    ASSUME Deliverable, [Next]_vars
    PROVE  [Promise!Next]_(Promise!vars)
  <2> USE DEF Deliverable, Inductive, TypeOK, Rounds
  <2>1. CASE \E b \in Builders : BuilderDone(b)
    <3>1. PICK b \in Builders : BuilderDone(b)
      BY <2>1
    <3>2. at \in Rounds /\ b \in active
      BY <3>1 DEF BuilderDone, Turning
    <3>3. Turn \in {0, b} /\ merge[b] = "none" /\ review[b] # "approved" /\ b \notin Proven
      BY <3>2, InRound DEF Deliverable
    <3>4. UNCHANGED <<Turn, Verdict>>
      BY <3>1 DEF BuilderDone, Turn, Verdict
    <3>5. UNCHANGED <<pr, branch, merge, review>> /\ \E t \in Trees : work' = [work EXCEPT ![b] = t]
      BY <3>1, <3>2, TurnType DEF BuilderDone
    <3>6. Proven' = Proven
      BY <3>1, <3>3, ProvenKept DEF BuilderDone
    <3>7. Promise!Rework(b)
      BY <3>3, <3>4, <3>5, <3>6 DEF Promise!Rework, Promise!InHand
    <3> QED
      BY <3>7 DEF Promise!Next, Promise!Requests
  <2>2. CASE \E b \in Builders : BuilderFails(b)
    <3>1. PICK b \in Builders : BuilderFails(b)
      BY <2>2
    <3>2. at \in Rounds /\ b \in active
      BY <3>1 DEF BuilderFails, Turning
    <3>3. Turn \in {0, b} /\ merge[b] = "none" /\ review[b] # "approved" /\ b \notin Proven
      BY <3>2, InRound DEF Deliverable
    <3>4. UNCHANGED <<Turn, Verdict>>
      BY <3>1 DEF BuilderFails, Turn, Verdict
    <3>5. UNCHANGED <<pr, branch, merge, review>> /\ \E t \in Trees : work' = [work EXCEPT ![b] = t]
      BY <3>1, <3>2, PullRequestsAssumption DEF BuilderFails
    <3>6. Proven' = Proven
      BY <3>1, <3>3, ProvenKept DEF BuilderFails
    <3>7. Promise!Rework(b)
      BY <3>3, <3>4, <3>5, <3>6 DEF Promise!Rework, Promise!InHand
    <3> QED
      BY <3>7 DEF Promise!Next, Promise!Requests
  <2>3. CASE GraphStops
    <3>1. UNCHANGED <<Turn, Verdict>>
      BY <2>3 DEF GraphStops, Turn, Verdict
    <3>2. UNCHANGED <<work, pr, branch, merge>>
      BY <2>3 DEF GraphStops
    <3>3. Proven' = Proven
      BY <2>3, ProvenKept DEF GraphStops
    <3> QED
      BY <3>1, <3>2, <3>3 DEF Promise!vars
  <2>4. CASE CheckerStarts
    <3>1. UNCHANGED <<Turn, Verdict>>
      BY <2>4 DEF CheckerStarts, Turn, Verdict
    <3>2. UNCHANGED <<work, pr, branch, merge>>
      BY <2>4 DEF CheckerStarts
    <3>3. Proven' = Proven
      BY <2>4, ProvenKept DEF CheckerStarts
    <3> QED
      BY <3>1, <3>2, <3>3 DEF Promise!vars
  <2>5. CASE \E b \in Builders : Publish(b)
    <3>1. PICK b \in Builders : Publish(b)
      BY <2>5
    <3>2. at \in Rounds /\ b \in active
      BY <3>1 DEF Publish, First, Ordered
    <3>3. Turn \in {0, b} /\ merge[b] = "none" /\ review[b] # "approved" /\ b \notin Proven
      BY <3>2, InRound DEF Deliverable
    <3>4. UNCHANGED <<Turn, Verdict>>
      BY <3>1 DEF Publish, Turn, Verdict
    <3>5. UNCHANGED <<work, branch, merge>> /\ pr' = [pr EXCEPT ![b] = "open"]
      BY <3>1 DEF Publish
    <3>6. Proven' = Proven
      BY <3>1, <3>3, ProvenKept DEF Publish, Commit
    <3>7. Promise!Offer(b)
      BY <3>3, <3>4, <3>5, <3>6 DEF Promise!Offer, Promise!InHand
    <3> QED
      BY <3>7 DEF Promise!Next, Promise!Requests
  <2>6. CASE \E b \in Builders : PublishFails(b)
    <3>1. PICK b \in Builders : PublishFails(b)
      BY <2>6
    <3>2. at \in Rounds /\ b \in active
      BY <3>1 DEF PublishFails, First, Ordered
    <3>3. Turn \in {0, b} /\ merge[b] = "none" /\ review[b] # "approved" /\ b \notin Proven
      BY <3>2, InRound DEF Deliverable
    <3>4. UNCHANGED <<Turn, Verdict>>
      BY <3>1 DEF PublishFails, CheckerErrs, Turn, Verdict
    <3>5. UNCHANGED <<work, branch, merge>> /\ pr' \in {pr, [pr EXCEPT ![b] = "open"]}
      BY <3>1 DEF PublishFails
    <3>6. Proven' = Proven
      BY <3>1, <3>3, ProvenKept DEF PublishFails, Commit
    <3>7. Promise!Offer(b) \/ UNCHANGED Promise!vars
      BY <3>3, <3>4, <3>5, <3>6 DEF Promise!Offer, Promise!InHand, Promise!vars
    <3> QED
      BY <3>7 DEF Promise!Next, Promise!Requests
  <2>7. CASE StartAuthoring
    <3>1. UNCHANGED <<Turn, Verdict>>
      BY <2>7 DEF StartAuthoring, Turn, Verdict
    <3>2. UNCHANGED <<work, pr, branch, merge>>
      BY <2>7 DEF StartAuthoring
    <3>3. Proven' = Proven
      BY <2>7, ProvenKept DEF StartAuthoring
    <3> QED
      BY <3>1, <3>2, <3>3 DEF Promise!vars
  <2>8. CASE \E b \in Builders : Author(b)
    <3>1. UNCHANGED <<Turn, Verdict>>
      BY <2>8 DEF Author, Turn, Verdict
    <3>2. UNCHANGED <<work, pr, branch, merge>>
      BY <2>8 DEF Author
    <3>3. Proven' = Proven
      BY <2>8, ProvenKept DEF Author
    <3> QED
      BY <3>1, <3>2, <3>3 DEF Promise!vars
  <2>9. CASE \E b \in Builders : AuthorFails(b)
    <3>1. UNCHANGED <<Turn, Verdict>>
      BY <2>9 DEF AuthorFails, CheckerErrs, Turn, Verdict
    <3>2. UNCHANGED <<work, pr, branch, merge>>
      BY <2>9 DEF AuthorFails, CheckerErrs
    <3>3. Proven' = Proven
      BY <2>9, ProvenKept DEF AuthorFails, CheckerErrs
    <3> QED
      BY <3>1, <3>2, <3>3 DEF Promise!vars
  <2>10. CASE CheckerDone
    <3>1. UNCHANGED <<Turn, Verdict>>
      BY <2>10 DEF CheckerDone, Turn, Verdict
    <3>2. UNCHANGED <<work, pr, branch, merge>>
      BY <2>10 DEF CheckerDone
    <3>3. Proven' = Proven
      BY <2>10, ProvenKept DEF CheckerDone
    <3> QED
      BY <3>1, <3>2, <3>3 DEF Promise!vars
  <2>11. CASE FirstRoundFails
    <3>1. Turn = 0 /\ Turn' = N + 1 /\ Verdict = "open" /\ Verdict' = "needs_human"
      BY <2>11 DEF FirstRoundFails, Turn, Verdict, RoundReason
    <3>2. Proven' = Proven
      BY <2>11, ProvenKept DEF FirstRoundFails
    <3>3. Promise!Conclude
      BY <2>11, <3>1, <3>2 DEF FirstRoundFails, Promise!Conclude
    <3> QED
      BY <3>3 DEF Promise!Next
  <2>12. CASE RepairFails
    <3>1. cur \in Builders /\ at \in Rounds /\ at # "done" /\ at # "settling"
      BY <2>12 DEF RepairFails
    <3>2. Turn = cur /\ Verdict = "open" /\ merge[cur] = "none"
      BY <3>1, InRound DEF Deliverable, Turn, Verdict
    <3>3. Proven' = Proven
      BY <2>12, ProvenKept DEF RepairFails
    <3>4. Turn' = Turn + 1 /\ Verdict' = Verdict
      BY <2>12, <3>1, <3>2, TurnPasses DEF RepairFails
    <3>5. Promise!GiveUp
      BY <2>12, <3>1, <3>2, <3>3, <3>4 DEF RepairFails, Blocked, Promise!GiveUp, Promise!Decide, Promise!Requests
    <3> QED
      BY <3>5 DEF Promise!Next
  <2>13. CASE RoundSucceeds
    <3>1. Proven' = Proven /\ UNCHANGED <<work, pr, branch, merge>>
      BY <2>13, ProvenKept DEF RoundSucceeds
    <3>2. CASE cur = 0
      <4>1. Turn = 0 /\ Turn' = 1 /\ Verdict' = Verdict
        BY <2>13, <3>2 DEF RoundSucceeds, Turn, Verdict
      <4>2. \A b \in Builders : pr[b] # "none"
        BY <2>13, <3>2 DEF RoundSucceeds, Deliverable, Opened
      <4>3. Promise!Begin
        BY <3>1, <4>1, <4>2 DEF Promise!Begin, Promise!Requests
      <4> QED
        BY <4>3 DEF Promise!Next
    <3>3. CASE cur # 0
      BY <2>13, <3>1, <3>3 DEF RoundSucceeds, Turn, Verdict, Promise!vars
    <3> QED
      BY <3>2, <3>3
  <2>14. CASE GateRed
    <3>1. /\ cur \in Builders /\ Turn = cur /\ Verdict = "open" /\ merge[cur] = "none"
          /\ review[cur] # "approved"
      BY <2>14, UnderFinalization DEF GateRed, Deliverable
    <3>2. Proven' = Proven
      BY <2>14, <3>1, ProvenKept DEF GateRed
    <3>3. CASE at = "gating"
      BY <2>14, <3>2, <3>3 DEF GateRed, Turn, Verdict, Promise!vars
    <3>4. CASE at = "regating"
      <4>1. Turn' = Turn + 1 /\ Verdict' = Verdict
        BY <2>14, <3>1, <3>4, TurnPasses DEF GateRed
      <4>2. Promise!GiveUp
        BY <2>14, <3>1, <3>2, <3>4, <4>1 DEF GateRed, Blocked, Promise!GiveUp, Promise!Decide, Promise!Requests
      <4> QED
        BY <4>2 DEF Promise!Next
    <3> QED
      BY <2>14, <3>3, <3>4 DEF GateRed
  <2>15. CASE GateGreen
    <3>1. review[cur] # "approved"
      BY <2>15, UnderFinalization DEF GateGreen, Deliverable
    <3>2. Proven' = Proven
      BY <2>15, <3>1, ProvenKept DEF GateGreen
    <3> QED
      BY <2>15, <3>2 DEF GateGreen, Turn, Verdict, Promise!vars
  <2>16. CASE Approve
    <3>1. cur \in Builders /\ Turn = cur /\ Verdict = "open" /\ merge[cur] = "none"
      BY <2>16, UnderFinalization DEF Approve, Judged, Deliverable
    <3>2. UNCHANGED <<Turn, Verdict, work, pr, branch, merge>>
      BY <2>16, <3>1 DEF Approve, Judged, Turn, Verdict
    <3>3. cur \in Proven'
      <4>1. Inductive'
        BY TypedStep, OrderedHolds, CommitsCarryWorkHolds, EvidenceIsCurrentHolds, RoundsCountedHolds,
           VerdictIsLastHolds DEF Inductive
      <4>2. cur' = cur /\ at' = "merging"
        BY <2>16 DEF Approve
      <4>3. Carries(cur) /\ Gated(cur)
        BY <2>16, <3>1 DEF Approve, Judged, CommitsCarryWork, EvidenceIsCurrent, Unpublished
      <4>4. /\ review'[cur] = "approved" /\ reviewed'[cur] = work[cur]
            /\ UNCHANGED <<green, gateTree, work, published>>
        BY <2>16, <3>1 DEF Approve, Judged
      <4> QED
        BY <3>1, <4>3, <4>4 DEF Carries, Gated, Proven
    <3>4. \A b \in Builders \ {cur} : b \in Proven <=> b \in Proven'
      BY <2>16, Zenon DEF Approve, Judged, Proven
    <3>5. Proven' = Proven \cup {cur}
      BY <3>1, <3>3, <3>4 DEF Proven
    <3>6. Promise!Prove
      BY <3>1, <3>2, <3>5 DEF Promise!Prove, Promise!Requests
    <3> QED
      BY <3>6 DEF Promise!Next
  <2>17. CASE RequestChanges
    <3>1. /\ cur \in Builders /\ Turn = cur /\ Verdict = "open" /\ merge[cur] = "none"
          /\ review[cur] # "approved"
      BY <2>17, UnderFinalization DEF RequestChanges, Judged, Deliverable
    <3>2. Proven' = Proven
      BY <2>17, <3>1, ProvenKept DEF RequestChanges, Judged
    <3>3. CASE at = "reviewing"
      BY <2>17, <3>2, <3>3 DEF RequestChanges, Judged, Turn, Verdict, Promise!vars
    <3>4. CASE at = "rereviewing"
      <4>1. Turn' = Turn + 1 /\ Verdict' = Verdict
        BY <2>17, <3>1, <3>4, TurnPasses DEF RequestChanges
      <4>2. Promise!GiveUp
        BY <2>17, <3>1, <3>2, <3>4, <4>1
        DEF RequestChanges, Judged, Blocked, Promise!GiveUp, Promise!Decide, Promise!Requests
      <4> QED
        BY <4>2 DEF Promise!Next
    <3> QED
      BY <2>17, <3>3, <3>4 DEF RequestChanges, Judged
  <2>18. CASE ReviewUnavailable
    <3>1. /\ cur \in Builders /\ Turn = cur /\ Verdict = "open" /\ merge[cur] = "none"
          /\ review[cur] # "approved" /\ cur \notin Proven
      BY <2>18, UnderFinalization DEF ReviewUnavailable, Judged, Deliverable
    <3>2. Proven' = Proven
      BY <2>18, <3>1, ProvenKept DEF ReviewUnavailable, Judged
    <3>3. Turn' = Turn + 1 /\ Verdict' = Verdict
      BY <2>18, <3>1, TurnPasses DEF ReviewUnavailable
    <3>4. merge' \in {[merge EXCEPT ![cur] = "blocked"], [merge EXCEPT ![cur] = "review_unavailable"]}
      BY <2>18 DEF ReviewUnavailable, Blocked
    <3>5. Promise!GiveUp
      BY <2>18, <3>1, <3>2, <3>3, <3>4
      DEF ReviewUnavailable, Judged, Promise!GiveUp, Promise!Decide, Promise!Requests
    <3> QED
      BY <3>5 DEF Promise!Next
  <2>19. CASE RouteRepair
    <3>1. cur \in Builders /\ Turn = cur /\ Verdict = "open" /\ merge[cur] = "none"
      BY <2>19, UnderFinalization DEF RouteRepair, Deliverable
    <3>2. Proven' = Proven /\ UNCHANGED <<work, pr, branch>> /\ at = "routing"
      BY <2>19, ProvenKept DEF RouteRepair
    <3>3. CASE Rerun
      BY <2>19, <3>2, <3>3 DEF Rerun, Turn, Verdict, Promise!vars
    <3>4. CASE GiveUp
      <4>1. Turn' = Turn + 1 /\ Verdict' = Verdict
        BY <3>1, <3>4, TurnPasses DEF GiveUp
      <4>2. Promise!GiveUp
        BY <3>1, <3>2, <3>4, <4>1 DEF GiveUp, Blocked, Promise!GiveUp, Promise!Decide, Promise!Requests
      <4> QED
        BY <4>2 DEF Promise!Next
    <3> QED
      BY <2>19, <3>1, <3>3, <3>4, RouteRepairCases
  <2>20. CASE LeaveOpen
    <3>1. cur \in Builders /\ Turn = cur /\ Verdict = "open" /\ merge[cur] = "none" /\ cur \in Proven
      BY <2>20, UnderFinalization, MergingIsProven DEF LeaveOpen, Deliverable
    <3>2. Proven' = Proven
      BY <2>20, ProvenKept DEF LeaveOpen
    <3>3. Turn' = Turn + 1 /\ Verdict' = Verdict
      BY <2>20, <3>1, TurnPasses DEF LeaveOpen
    <3>4. Promise!LeaveOpen
      BY <2>20, <3>1, <3>2, <3>3 DEF LeaveOpen, Promise!LeaveOpen, Promise!Decide
    <3> QED
      BY <3>4 DEF Promise!Next
  <2>21. CASE MergeLands
    <3>1. cur \in Builders /\ Turn = cur /\ Verdict = "open"
      BY <2>21, UnderFinalization DEF MergeLands, Deliverable
    <3>2. UNCHANGED <<Turn, Verdict>>
      BY <2>21, <3>1 DEF MergeLands, Turn, Verdict
    <3>3. Promise!Lands
      BY <2>21, <3>2, BranchIsTree, MergeLandsWork DEF MergeLands, Squash
    <3>4. Promise!Merge
      BY <2>21, <3>1, <3>2, <3>3 DEF MergeLands, Promise!Merge, Promise!Requests
    <3> QED
      BY <3>4 DEF Promise!Next
  <2>22. CASE MergeRefused
    <3>1. cur \in Builders /\ Turn = cur /\ Verdict = "open" /\ merge[cur] = "none"
      BY <2>22, UnderFinalization DEF MergeRefused, Deliverable
    <3>2. Proven' = Proven
      BY <2>22, ProvenKept DEF MergeRefused
    <3>3. Turn' = Turn + 1 /\ Verdict' = Verdict
      BY <2>22, <3>1, TurnPasses DEF MergeRefused
    <3>4. Promise!GiveUp
      BY <2>22, <3>1, <3>2, <3>3 DEF MergeRefused, Blocked, Promise!GiveUp, Promise!Decide, Promise!Requests
    <3> QED
      BY <3>4 DEF Promise!Next
  <2>23. CASE MergeUnheard
    <3>1. cur \in Builders /\ Turn = cur /\ Verdict = "open"
      BY <2>23, UnderFinalization DEF MergeUnheard, Deliverable
    <3>2. Turn' = Turn + 1 /\ Verdict' = Verdict
      BY <2>23, <3>1, TurnPasses DEF MergeUnheard
    <3>3. Promise!Lands
      BY <2>23, <3>2, BranchIsTree, MergeLandsWork DEF MergeUnheard, Squash
    <3>4. Promise!MergeUnheard
      BY <2>23, <3>1, <3>2, <3>3 DEF MergeUnheard, Blocked, Promise!MergeUnheard, Promise!Decide, Promise!Requests
    <3> QED
      BY <3>4 DEF Promise!Next
  <2>24. CASE Snapshot
    <3>1. cur \in Builders /\ Turn = cur /\ Verdict = "open" /\ merge[cur] = "merged"
      BY <2>24 DEF Snapshot, Turn, Verdict, Placed, Ordered, OutcomeOfCur
    <3>2. Proven' = Proven
      BY <2>24, ProvenKept DEF Snapshot
    <3>3. Turn' = Turn + 1 /\ Verdict' = Verdict
      BY <2>24, <3>1, TurnPasses DEF Snapshot
    <3>4. merge' = [merge EXCEPT ![cur] = "merged"]
      BY <2>24, <3>1 DEF Snapshot
    <3>5. Promise!Stand
      BY <2>24, <3>1, <3>2, <3>3, <3>4 DEF Snapshot, Promise!Stand, Promise!Decide, Promise!Requests
    <3> QED
      BY <3>5 DEF Promise!Next
  <2>25. CASE SnapshotFails
    <3>1. cur \in Builders /\ Turn = cur /\ Verdict = "open" /\ merge[cur] = "merged"
      BY <2>25 DEF SnapshotFails, Turn, Verdict, Placed, Ordered, OutcomeOfCur
    <3>2. Proven' = Proven
      BY <2>25, ProvenKept DEF SnapshotFails
    <3>3. Turn' = Turn + 1 /\ Verdict' = Verdict
      BY <2>25, <3>1, TurnPasses DEF SnapshotFails
    <3>4. Promise!Withdraw
      BY <2>25, <3>1, <3>2, <3>3 DEF SnapshotFails, Blocked, Promise!Withdraw, Promise!Decide, Promise!Requests
    <3> QED
      BY <3>4 DEF Promise!Next
  <2>26. CASE Settle
    <3>1. Turn = N + 1 /\ Turn' = N + 1 /\ Verdict = "open"
      BY <2>26 DEF Settle, Turn, Verdict
    <3>2. reason' # "ENGINE_ERROR" /\ at' = "done"
      BY <2>26 DEF Settle, Deliverable, ErrorIsLast
    <3>3. Verdict' = IF Promise!AllSettled THEN "passed" ELSE "needs_human"
      BY <2>26, <3>2 DEF Settle, Verdict, Promise!AllSettled, Promise!Requests, Settled, InState
    <3>4. Proven' = Proven
      BY <2>26, ProvenKept DEF Settle
    <3>5. Promise!Conclude
      BY <2>26, <3>1, <3>3, <3>4 DEF Settle, Promise!Conclude
    <3> QED
      BY <3>5 DEF Promise!Next
  <2>27. CASE EngineRaises
    <3>1. Faults /\ Turn' = N + 1 /\ Verdict = "open" /\ Verdict' = "engine_error"
      BY <2>27 DEF EngineRaises, Turn, Verdict
    <3>2. Proven' = Proven
      BY <2>27, ProvenKept DEF EngineRaises
    <3>3. Promise!Conclude
      BY <2>27, <3>1, <3>2 DEF EngineRaises, Promise!Conclude
    <3> QED
      BY <3>3 DEF Promise!Next
  <2>28. CASE OutsideCommit
    <3>1. Outsider
      BY <2>28 DEF OutsideCommit
    <3>2. UNCHANGED <<Turn, Verdict, Proven, work, merge>> /\ Verdict = "open" /\ MaxOutside > 0
      BY <3>1, <2>28, OutsidersLeave DEF OutsideCommit
    <3>3. Promise!Others
      BY <2>28, <3>2, BranchIsTree DEF OutsideCommit, Promise!Others, Promise!Requests
    <3> QED
      BY <3>3 DEF Promise!Next
  <2>29. CASE \E b \in Builders : OutsidePush(b)
    <3>1. Outsider
      BY <2>29 DEF OutsidePush
    <3>2. UNCHANGED <<Turn, Verdict, Proven, work, merge>> /\ Verdict = "open" /\ MaxOutside > 0
      BY <3>1, <2>29, OutsidersLeave DEF OutsidePush
    <3>3. Promise!Others
      BY <2>29, <3>2, BranchIsTree DEF OutsidePush, Promise!Others, Promise!Requests
    <3> QED
      BY <3>3 DEF Promise!Next
  <2>30. CASE \E b \in Builders : OutsideClose(b)
    <3>1. PICK b \in Builders : OutsideClose(b)
      BY <2>30
    <3>2. UNCHANGED <<Turn, Verdict, Proven, work, merge>> /\ Verdict = "open" /\ MaxOutside > 0
      BY <3>1, OutsidersLeave DEF OutsideClose
    <3>3. pr[b] = "open" /\ pr' = [pr EXCEPT ![b] = "closed"]
      BY <3>1 DEF OutsideClose
    <3>4. branch' \in Trees
      BY BranchIsTree
    <3>5. Promise!Others
      BY <3>2, <3>3, <3>4 DEF Promise!Others, Promise!Requests
    <3> QED
      BY <3>5 DEF Promise!Next
  <2>31. CASE \E b \in Builders : OutsideMerge(b)
    <3>1. PICK b \in Builders : OutsideMerge(b)
      BY <2>31
    <3>2. UNCHANGED <<Turn, Verdict, Proven, work, merge>> /\ Verdict = "open" /\ MaxOutside > 0
      BY <3>1, OutsidersLeave DEF OutsideMerge, Squash, Mergeable
    <3>3. pr[b] = "open" /\ pr' = [pr EXCEPT ![b] = "merged"]
      BY <3>1 DEF OutsideMerge, Squash, Mergeable
    <3>4. branch' \in Trees
      BY BranchIsTree
    <3>5. Promise!Others
      BY <3>2, <3>3, <3>4 DEF Promise!Others, Promise!Requests
    <3> QED
      BY <3>5 DEF Promise!Next
  <2>32. CASE OutsideRename
    <3>1. Outsider
      BY <2>32 DEF OutsideRename
    <3>2. UNCHANGED <<Turn, Verdict, Proven, work, merge>> /\ Verdict = "open" /\ MaxOutside > 0
      BY <3>1, <2>32, OutsidersLeave DEF OutsideRename
    <3>3. Promise!Others
      BY <2>32, <3>2, BranchIsTree DEF OutsideRename, Promise!Others, Promise!Requests
    <3> QED
      BY <3>3 DEF Promise!Next
  <2>33. CASE OutsidePolicy
    <3>1. Outsider
      BY <2>33 DEF OutsidePolicy
    <3>2. UNCHANGED <<Turn, Verdict, Proven, work, merge>> /\ Verdict = "open" /\ MaxOutside > 0
      BY <3>1, <2>33, OutsidersLeave DEF OutsidePolicy
    <3>3. Promise!Others
      BY <2>33, <3>2, BranchIsTree DEF OutsidePolicy, Promise!Others, Promise!Requests
    <3> QED
      BY <3>3 DEF Promise!Next
  <2>34. CASE UNCHANGED vars
    <3>1. UNCHANGED <<Turn, Verdict>>
      BY <2>34 DEF vars, Turn, Verdict
    <3>2. UNCHANGED <<work, pr, branch, merge>>
      BY <2>34 DEF vars
    <3>3. Proven' = Proven
      BY <2>34, ProvenKept DEF vars
    <3> QED
      BY <3>1, <3>2, <3>3 DEF Promise!vars
  <2> QED
    BY <2>1, <2>2, <2>3, <2>4, <2>5, <2>6, <2>7, <2>8, <2>9, <2>10, <2>11, <2>12,
       <2>13, <2>14, <2>15, <2>16, <2>17, <2>18, <2>19, <2>20, <2>21, <2>22, <2>23, <2>24,
       <2>25, <2>26, <2>27, <2>28, <2>29, <2>30, <2>31, <2>32, <2>33, <2>34
    DEF Next, RoleSteps, EngineSteps, OutsideSteps

LEMMA DeliverableHolds == Spec => []Deliverable
<1>1. Init => Opened /\ ApprovedLast /\ ErrorIsLast
  BY DEF Init, Opened, ApprovedLast, ErrorIsLast
<1>2. Inductive /\ Opened /\ ApprovedLast /\ ErrorIsLast /\ [Next]_vars
        => (Opened /\ ApprovedLast /\ ErrorIsLast)'
  BY OpenedHolds, ApprovedLastHolds DEF Inductive
<1>3. Spec => [](Opened /\ ApprovedLast /\ ErrorIsLast)
  BY <1>1, <1>2, InductiveHolds, PTL DEF Spec
<1>4. Spec => [](~Faults /\ MaxOutside = 0 => AloneInv)
  <2>1. CASE ~Faults /\ MaxOutside = 0
    BY <2>1, AloneHolds, PTL
  <2>2. CASE ~(~Faults /\ MaxOutside = 0)
    BY <2>2, PTL
  <2> QED
    BY <2>1, <2>2
<1> QED
  BY <1>3, <1>4, InductiveHolds, PTL DEF Deliverable

(* For any number of builders, any trees, any failures and any interference, a
   run keeps its promise: its pull requests are decided in order and one at a
   time, what reaches the default branch is proven work, and the verdict is that
   of the outcomes (_finalize, _settle_run). *)
THEOREM KeepsItsPromise == Spec => ImplementsDelivery
<1>1. Init => Promise!Init
  BY PullRequestsAssumption
  DEF Init, Turn, Verdict, Proven, Promise!Init, Promise!Requests
<1>2. Deliverable /\ [Next]_vars => [Promise!Next]_(Promise!vars)
  BY StepKeepsPromise
<1> QED
  BY <1>1, <1>2, DeliverableHolds, PTL DEF Spec, ImplementsDelivery, Promise!Spec
=============================================================================
