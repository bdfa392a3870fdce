---------------------------- MODULE ComposeLease ----------------------------
(***************************************************************************)
(* The one local git repository in which every run of the session records  *)
(* its evidence commit (orchestrator/engine.py: _compose_commit), and the  *)
(* lease that is to keep the runs from writing it together (_Lease).       *)
(*                                                                         *)
(* A run's deliverable is one file of its own, named by the run, so a tree *)
(* is the set of runs whose files are in it.  A git command is one step.   *)
(***************************************************************************)
EXTENDS Integers, FiniteSets

CONSTANTS
    Runs,
    NoRun,
    Slow    \* a live holder may take longer than COMPOSE_LEASE_STUCK_S

ASSUME ComposeLeaseAssumption == NoRun \notin Runs /\ Slow \in BOOLEAN

VARIABLES
    pc,         \* where the run's worker stands in _compose_commit
    owner,      \* _Lease._owner, NoRun for None
    old,        \* it has held the lease for COMPOSE_LEASE_STUCK_S
    outlasted,  \* history: runs whose hold got that old
    head,       \* the branch that is checked out, NoRun for main
    tree,       \* the work tree
    tip,        \* the files at the tip of each run's branch
    composed    \* the files of run.composed_commit, {NoRun} when it is None

lease == <<owner, old, outlasted>>
repo == <<head, tree, tip>>
vars == <<pc, lease, repo, composed>>

Composing == {"resetting", "checkingOut", "copying", "committing", "reading"}
Places == Composing \cup {"before", "trying", "waiting", "done", "raised", "hung"}

TypeOK ==
    /\ pc \in [Runs -> Places]
    /\ owner \in Runs \cup {NoRun} /\ old \in BOOLEAN /\ outlasted \subseteq Runs
    /\ head \in Runs \cup {NoRun} /\ tree \subseteq Runs
    /\ tip \in [Runs -> SUBSET Runs]
    /\ composed \in [Runs -> SUBSET (Runs \cup {NoRun})]

Init ==
    /\ pc = [r \in Runs |-> "before"]
    /\ owner = NoRun /\ old = FALSE /\ outlasted = {}
    /\ head = NoRun /\ tree = {} /\ tip = [r \in Runs |-> {}]
    /\ composed = [r \in Runs |-> {NoRun}]
-----------------------------------------------------------------------------
(* The lease. *)

Starts(r) ==
    /\ pc[r] = "before"
    /\ pc' = [pc EXCEPT ![r] = "trying"]
    /\ UNCHANGED <<lease, repo, composed>>

\* Mutant: a holder is evicted however long it has held the lease.
AcquireAnyway(r) ==
    /\ pc[r] = "trying"
    /\ pc' = [pc EXCEPT ![r] = "resetting"]
    /\ owner' = r /\ old' = FALSE
    /\ UNCHANGED <<outlasted, repo, composed>>

\* Mutant: a holder is never evicted.
AcquireFree(r) ==
    /\ pc[r] = "trying"
    /\ owner = NoRun
    /\ pc' = [pc EXCEPT ![r] = "resetting"]
    /\ owner' = r /\ old' = FALSE
    /\ UNCHANGED <<outlasted, repo, composed>>

(* acquire: the lease is free, or its holder is taken for wedged and evicted. *)
Acquire(r) ==
    /\ pc[r] = "trying"
    /\ owner = NoRun \/ old
    /\ pc' = [pc EXCEPT ![r] = "resetting"]
    /\ owner' = r /\ old' = FALSE
    /\ UNCHANGED <<outlasted, repo, composed>>

Waits(r) ==
    /\ pc[r] = "trying"
    /\ owner # NoRun /\ ~old
    /\ pc' = [pc EXCEPT ![r] = "waiting"]
    /\ UNCHANGED <<lease, repo, composed>>

(* The wait times out after COMPOSE_LEASE_STUCK_S. *)
Wakes(r) ==
    /\ pc[r] = "waiting"
    /\ pc' = [pc EXCEPT ![r] = "trying"]
    /\ UNCHANGED <<lease, repo, composed>>

GrowsOld ==
    /\ owner # NoRun /\ ~old
    /\ Slow \/ pc[owner] \notin Composing
    /\ old' = TRUE
    /\ outlasted' = outlasted \cup {owner}
    /\ UNCHANGED <<pc, owner, repo, composed>>

\* Mutant: an evicted holder releases the lease of its successor.
LeavesAnyway(r, to) ==
    /\ owner' = NoRun /\ old' = FALSE
    /\ pc' = [s \in Runs |-> CASE s = r -> to
                               [] s # r /\ pc[s] = "waiting" -> "trying"
                               [] OTHER -> pc[s]]
    /\ UNCHANGED outlasted

(* release: a lease that was stolen is not the caller's any more. *)
Leaves(r, to) ==
    IF owner = r
    THEN /\ owner' = NoRun /\ old' = FALSE
         /\ pc' = [s \in Runs |-> CASE s = r -> to
                                    [] s # r /\ pc[s] = "waiting" -> "trying"
                                    [] OTHER -> pc[s]]
         /\ UNCHANGED outlasted
    ELSE pc' = [pc EXCEPT ![r] = to] /\ UNCHANGED lease
-----------------------------------------------------------------------------
(* _compose_commit_locked.  Each command works on whatever is checked out. *)

Goes(r, from, to) ==
    /\ pc[r] = from
    /\ pc' = [pc EXCEPT ![r] = to]
    /\ UNCHANGED <<lease, composed>>

\* Mutant: the first commit is not empty.
TipOfFull(branch) == IF branch = NoRun THEN {NoRun} ELSE tip[branch]

(* The first commit, which main stands at, is empty. *)
TipOf(branch) == IF branch = NoRun THEN {} ELSE tip[branch]

(* git reset --hard; git clean -fd: what the previous compose left goes. *)
Reset(r) ==
    /\ Goes(r, "resetting", "checkingOut")
    /\ tree' = TipOf(head)
    /\ UNCHANGED <<head, tip>>

\* Mutant: the run's branch is cut from the last run's commit.
CheckoutFromHead(r) ==
    /\ Goes(r, "checkingOut", "copying")
    /\ head' = r
    /\ tip' = [tip EXCEPT ![r] = TipOf(head)]
    /\ tree' = TipOf(head)

(* git checkout -B run/<id> <the empty first commit>; git clean -fd. *)
Checkout(r) ==
    /\ Goes(r, "checkingOut", "copying")
    /\ head' = r
    /\ tip' = [tip EXCEPT ![r] = {}]
    /\ tree' = {}

Copy(r) ==
    /\ Goes(r, "copying", "committing")
    /\ tree' = tree \cup {r}
    /\ UNCHANGED <<head, tip>>

(* git add -A; git commit: onto the branch that is checked out. *)
Commit(r) ==
    /\ Goes(r, "committing", "reading")
    /\ tip' = IF head = NoRun THEN tip ELSE [tip EXCEPT ![head] = tree]
    /\ UNCHANGED <<head, tree>>

(* git rev-parse HEAD, and the lease is released. *)
Read(r) ==
    /\ pc[r] = "reading"
    /\ composed' = [composed EXCEPT ![r] = TipOf(head)]
    /\ Leaves(r, "done")
    /\ UNCHANGED repo

(* A command fails or times out between any two of them, part of the files
   copied; the exception releases the lease. *)
Raises(r) ==
    /\ pc[r] \in Composing
    /\ Leaves(r, "raised")
    /\ tree' \in IF pc[r] = "copying" THEN {tree, tree \cup {r}} ELSE {tree}
    /\ UNCHANGED <<head, tip, composed>>

(* A copy never returns. *)
Hangs(r) ==
    /\ pc[r] = "copying"
    /\ pc' = [pc EXCEPT ![r] = "hung"]
    /\ tree' \in {tree, tree \cup {r}}
    /\ UNCHANGED <<lease, head, tip, composed>>
-----------------------------------------------------------------------------
Step(r) ==
    \/ Acquire(r) \/ Waits(r) \/ Wakes(r)
    \/ Reset(r) \/ Checkout(r) \/ Copy(r) \/ Commit(r) \/ Read(r) \/ Raises(r)
    \/ Hangs(r)

Next == GrowsOld \/ \E r \in Runs : Starts(r) \/ Step(r)

Spec == Init /\ [][Next]_vars

(* Threads are scheduled and time passes. *)
FairSpec == Spec /\ WF_vars(GrowsOld) /\ \A r \in Runs : WF_vars(Step(r))
-----------------------------------------------------------------------------
(* "one writer at a time", but for holders that outlasted the lease: a run that
   writes the repository without holding the lease was evicted, and it was only
   after the whole of its time (_Lease). *)
EvictedOutlasted ==
    \A r \in Runs : pc[r] \in Composing /\ owner # r => r \in outlasted

(* The commit recorded for a run is exactly its own deliverable, whatever earlier
   runs left in the shared tree (_compose_commit_locked). *)
EvidenceIsOwn == \A r \in Runs : composed[r] \in {{NoRun}, {r}}

(* A holder that hangs never wedges the others: every run that asks for the lease
   is let in (_Lease). *)
EveryoneIsLetIn ==
    \A r \in Runs : pc[r] = "trying" ~> pc[r] \notin {"trying", "waiting"}

(* While no live holder outlasts the lease, the repository is a log of evidence. *)
Writer == IF owner # NoRun /\ pc[owner] \in Composing THEN owner ELSE NoRun

Log == INSTANCE EvidenceLog WITH writer <- Writer, log <- composed

ImplementsEvidenceLog == Log!Spec
=============================================================================
