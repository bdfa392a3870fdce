------------------------------ MODULE Delivery ------------------------------
(***************************************************************************)
(* What a run promises about its pull requests: they are decided one after *)
(* the other; while one is decided the work, the proof and the outcome of  *)
(* the others stand still; it reaches the default branch only with work    *)
(* that its own gate and its own review have seen; nothing else of the run *)
(* touches that branch; and the verdict is the one the outcomes call for.  *)
(***************************************************************************)
EXTENDS Integers

CONSTANTS
    N,              \* number of pull requests
    Paths, Trees,   \* the repository's paths, and what it may hold
    BaseTree,       \* what every pull request started from
    Shared,         \* TRUE: others use the repository during the run
    Undisturbed     \* TRUE: nobody does, and no call fails

VARIABLES
    turn,       \* the pull request being decided: 0 before the first of them,
                \* N + 1 after the last
    work,       \* the tree each one proposes
    proven,     \* those whose gate, review and commit are of that very tree
    pr,         \* what GitHub knows of each
    branch,     \* the default branch
    merge,      \* the outcome the run reports for each
    verdict     \* "open" until the run is over

vars == <<turn, work, proven, pr, branch, merge, verdict>>

Requests == 1..N

Init ==
    /\ turn = 0
    /\ work = [b \in Requests |-> BaseTree]
    /\ proven = {}
    /\ pr = [b \in Requests |-> "none"]
    /\ branch = BaseTree
    /\ merge = [b \in Requests |-> "none"]
    /\ verdict = "open"
-----------------------------------------------------------------------------
(* Only an unproven pull request is worked on: any of them before the first is
   decided, and then the one whose turn it is. *)
InHand(b) == turn \in {0, b} /\ merge[b] = "none" /\ b \notin proven

Rework(b) ==
    /\ InHand(b)
    /\ \E t \in Trees : work' = [work EXCEPT ![b] = t]
    /\ UNCHANGED <<turn, proven, pr, branch, merge, verdict>>

Offer(b) ==
    /\ InHand(b)
    /\ pr' = [pr EXCEPT ![b] = "open"]
    /\ UNCHANGED <<turn, work, proven, branch, merge, verdict>>

(* All of them are offered before the first is judged. *)
Begin ==
    /\ turn = 0 /\ turn' = 1
    /\ \A b \in Requests : pr[b] # "none"
    /\ UNCHANGED <<work, proven, pr, branch, merge, verdict>>
-----------------------------------------------------------------------------
Prove ==
    /\ turn \in Requests /\ merge[turn] = "none"
    /\ proven' = proven \cup {turn}
    /\ UNCHANGED <<turn, work, pr, branch, merge, verdict>>

(* A merge writes the proven work and nothing else; without a disturbance it
   leaves that work on the branch as it was, which the work fits. *)
Writes(t) == {x \in Paths : t[x] # BaseTree[x]}

Patched(t) == [x \in Paths |-> IF x \in Writes(t) THEN t[x] ELSE branch[x]]

Lands ==
    /\ turn \in proven /\ merge[turn] = "none"
    /\ pr[turn] = "open" /\ pr' = [pr EXCEPT ![turn] = "merged"]
    /\ branch' \in Trees
    /\ \A x \in Paths : branch'[x] \in {branch[x], Patched(work[turn])[x]}
    /\ Undisturbed =>
          /\ branch' = Patched(work[turn])
          /\ \A x \in Writes(work[turn]) : branch[x] \in {BaseTree[x], work[turn][x]}
    /\ UNCHANGED <<work, proven, verdict>>

Decide(outcome) ==
    /\ merge' = [merge EXCEPT ![turn] = outcome]
    /\ turn' = turn + 1

Merge ==
    /\ turn \in Requests /\ Lands
    /\ merge' = [merge EXCEPT ![turn] = "merged"]
    /\ UNCHANGED turn

(* It landed, and the run was not told. *)
MergeUnheard ==
    /\ ~Undisturbed
    /\ turn \in Requests /\ Lands
    /\ Decide("blocked")

(* What a merge entails is over: it stands, or the run takes it for blocked. *)
Stand ==
    /\ turn \in Requests /\ merge[turn] = "merged"
    /\ Decide("merged")
    /\ UNCHANGED <<work, proven, pr, branch, verdict>>

Withdraw ==
    /\ ~Undisturbed
    /\ turn \in Requests /\ merge[turn] = "merged"
    /\ Decide("blocked")
    /\ UNCHANGED <<work, proven, pr, branch, verdict>>

LeaveOpen ==
    /\ turn \in proven /\ merge[turn] = "none"
    /\ Decide("human_review")
    /\ UNCHANGED <<work, proven, pr, branch, verdict>>

(* An outage is reported for a pull request the review never judged. *)
GiveUp ==
    /\ turn \in Requests /\ merge[turn] = "none"
    /\ \/ Decide("blocked")
       \/ turn \notin proven /\ Decide("review_unavailable")
    /\ UNCHANGED <<work, proven, pr, branch, verdict>>
-----------------------------------------------------------------------------
(* The verdict, once: of the outcomes when every pull request has one, of the
   first round when it failed, or of the run's own failure. *)
AllSettled == \A b \in Requests : merge[b] \in {"merged", "human_review"}

Conclude ==
    /\ verdict = "open"
    /\ \/ /\ turn = N + 1
          /\ verdict' = IF AllSettled THEN "passed" ELSE "needs_human"
       \/ /\ turn = 0
          /\ verdict' = "needs_human"
       \/ /\ ~Undisturbed
          /\ verdict' = "engine_error"
    /\ turn' = N + 1
    /\ UNCHANGED <<work, proven, pr, branch, merge>>

(* Others write the branch, and close or merge what is open. *)
Others ==
    /\ Shared /\ verdict = "open"
    /\ branch' \in Trees
    /\ \/ UNCHANGED pr
       \/ \E b \in Requests : /\ pr[b] = "open"
                             /\ pr' \in {[pr EXCEPT ![b] = s] : s \in {"closed", "merged"}}
    /\ UNCHANGED <<turn, work, proven, merge, verdict>>

Next ==
    \/ \E b \in Requests : Rework(b) \/ Offer(b)
    \/ Begin \/ Prove
    \/ Merge \/ MergeUnheard \/ Stand \/ Withdraw \/ LeaveOpen \/ GiveUp
    \/ Conclude \/ Others

Spec == Init /\ [][Next]_vars
=============================================================================
