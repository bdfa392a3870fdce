---------------------------- MODULE RunLifecycle ----------------------------
(***************************************************************************)
(* The runs of one coordinator session (orchestrator/engine.py): each has  *)
(* a worker thread that drives it through its phases (_drive) and a        *)
(* heartbeat thread that saves its state (_heartbeat); one sweeper         *)
(* (reconcile) ends the runs it takes for lost.  All of them read and      *)
(* write run.status; nothing but the sweeper's compare-and-swap is under a *)
(* lock.  The session itself may be recycled at any time, after which the  *)
(* saved state is all there is (chat.run_status).                          *)
(*                                                                         *)
(* What happens inside a round and a finalization is PullRequests; here a  *)
(* round is good or bad, and long or short.                                *)
(***************************************************************************)
EXTENDS Integers, FiniteSets

CONSTANTS
    Runs,           \* the runs submitted to this session
    MaxConcurrent,  \* Engine.max_concurrent
    Repairs,        \* repair rounds one run may have: one for each pull request
    MaxIterations,  \* the rounds STRANDED_AFTER_S allows for
    Faults          \* TRUE: workers hang, saves fail, the session is recycled

ASSUME RunLifecycleAssumption ==
    /\ IsFiniteSet(Runs)
    /\ MaxConcurrent \in Nat \ {0}
    /\ Repairs \in Nat
    /\ MaxIterations \in Nat \ {0}
    /\ Faults \in BOOLEAN

VARIABLES
    up,       \* the session is alive
    at,       \* where the worker of a run stands
    status,   \* run.status
    reason,   \* run.fail_reason, "none" for None
    repaired, \* repair rounds the run has started
    spent,    \* rounds that took the whole of their budget
    beat,     \* the heartbeat thread
    snap,     \* the snapshot it has built
    disk,     \* the status of the saved state, "none" when there is none
    stale,    \* that state is older than ACTIVE_STALE_AFTER_S
    found,    \* the runs the sweeper has found overdue and not yet written
    lapsed    \* history: status has called the run over while it was worked at

vars == <<up, at, status, reason, repaired, spent, beat, snap, disk, stale, found,
          lapsed>>

Active == {"queued", "running"}
Terminal == {"passed", "failed", "needs_human"}
Places == {"unsubmitted", "admission", "hydration", "preflight", "round", "working",
           "finalization", "grading", "persisting", "gone", "hung"}
\* Past admission, and not yet handed to _drive's finally.
AtWork == {"hydration", "preflight", "round", "working", "finalization"}

\* PERMANENT_FAIL_REASONS is one reason here, the transient ones are told apart.
Permanent == {"EMPTY_TASK"}
Transient == {"CONCURRENCY_LIMIT", "PR_PREFLIGHT_ERROR", "ROLE_EXECUTION_ERROR",
              "ENGINE_ERROR", "ROLE_PR_BLOCKED", "STRANDED_NO_PROGRESS"}

TypeOK ==
    /\ up \in BOOLEAN
    /\ at \in [Runs -> Places]
    /\ status \in [Runs -> Active \cup Terminal]
    /\ reason \in [Runs -> Permanent \cup Transient \cup {"none"}]
    /\ repaired \in [Runs -> 0..Repairs]
    /\ spent \in [Runs -> 0..(1 + Repairs)]
    /\ beat \in [Runs -> {"gone", "asleep", "saving"}]
    /\ snap \in [Runs -> Active \cup Terminal]
    /\ disk \in [Runs -> Active \cup Terminal \cup {"none"}]
    /\ stale \subseteq Runs
    /\ found \subseteq Runs
    /\ lapsed \subseteq Runs

Init ==
    /\ up = TRUE
    /\ at = [r \in Runs |-> "unsubmitted"]
    /\ status = [r \in Runs |-> "queued"]
    /\ reason = [r \in Runs |-> "none"]
    /\ repaired = [r \in Runs |-> 0]
    /\ spent = [r \in Runs |-> 0]
    /\ beat = [r \in Runs |-> "gone"]
    /\ snap = [r \in Runs |-> "queued"]
    /\ disk = [r \in Runs |-> "none"]
    /\ stale = {} /\ found = {} /\ lapsed = {}
-----------------------------------------------------------------------------
(* run_store.save: it never raises, and what it writes is fresh. *)
Save(r, saved) ==
    \/ disk' = [disk EXCEPT ![r] = saved] /\ stale' = stale \ {r}
    \/ Faults /\ UNCHANGED <<disk, stale>>

(* submit: the run is registered and saved, and its two threads start. *)
Submit(r) ==
    /\ up /\ at[r] = "unsubmitted"
    /\ at' = [at EXCEPT ![r] = "admission"]
    /\ Save(r, "queued")
    /\ beat' = [beat EXCEPT ![r] = "asleep"]
    /\ UNCHANGED <<up, status, reason, repaired, spent, snap, found, lapsed>>
-----------------------------------------------------------------------------
(* The worker thread. *)

Goes(r, from, to) == up /\ at[r] = from /\ at' = [at EXCEPT ![r] = to]

Writes(r, s, why) ==
    /\ status' = [status EXCEPT ![r] = s]
    /\ reason' = [reason EXCEPT ![r] = why]

Threads == <<beat, snap, disk, stale, found>>

Quiet == UNCHANGED <<up, repaired, spent, Threads, lapsed>>

(* active_count: the other runs whose status is not terminal. *)
ActiveCount(r) ==
    Cardinality({s \in Runs \ {r} : at[s] # "unsubmitted" /\ status[s] \in Active})

Rejected(r) ==
    /\ Goes(r, "admission", "grading")
    /\ Writes(r, "failed", "EMPTY_TASK")
    /\ Quiet

LimitHit(r) ==
    /\ Goes(r, "admission", "grading")
    /\ ActiveCount(r) >= MaxConcurrent
    /\ Writes(r, "failed", "CONCURRENCY_LIMIT")
    /\ Quiet

\* Mutant: the limit is off by one.
AdmittedOneMore(r) ==
    /\ Goes(r, "admission", "hydration")
    /\ ActiveCount(r) <= MaxConcurrent
    /\ status' = [status EXCEPT ![r] = "queued"]
    /\ UNCHANGED reason /\ Quiet

Admitted(r) ==
    /\ Goes(r, "admission", "hydration")
    /\ ActiveCount(r) < MaxConcurrent
    /\ status' = [status EXCEPT ![r] = "queued"]
    /\ UNCHANGED reason /\ Quiet

(* Hydration and pre-flight fail closed, for good or for now. *)
Hydrated(r) ==
    /\ Goes(r, "hydration", "preflight")
    /\ status' = [status EXCEPT ![r] = "running"]
    /\ UNCHANGED reason /\ Quiet

NotReady(r) ==
    /\ \/ Goes(r, "hydration", "grading") \/ Goes(r, "preflight", "grading")
    /\ \E why \in {"EMPTY_TASK", "PR_PREFLIGHT_ERROR"} : Writes(r, "failed", why)
    /\ Quiet

Ready(r) == Goes(r, "preflight", "round") /\ UNCHANGED <<status, reason>> /\ Quiet

(* _execute begins by writing "running", whatever the status was. *)
RoundStarts(r) ==
    /\ Goes(r, "round", "working")
    /\ status' = [status EXCEPT ![r] = "running"]
    /\ UNCHANGED reason /\ Quiet

(* A round uses up its budget, or little of it. *)
TimePasses(r) ==
    /\ spent' \in {spent, [spent EXCEPT ![r] = @ + 1]}
    /\ UNCHANGED <<up, repaired, Threads>>

RoundSucceeds(r) ==
    /\ Goes(r, "working", "finalization")
    /\ TimePasses(r)
    /\ UNCHANGED <<status, reason, lapsed>>

FirstRoundFails(r) ==
    /\ repaired[r] = 0 /\ Goes(r, "working", "grading")
    /\ Writes(r, "failed", "ROLE_EXECUTION_ERROR")
    /\ TimePasses(r)
    /\ UNCHANGED lapsed

(* A failed repair leaves its verdict on the run while finalization goes on. *)
RepairFails(r) ==
    /\ repaired[r] > 0 /\ Goes(r, "working", "finalization")
    /\ Writes(r, "failed", "ROLE_EXECUTION_ERROR")
    /\ TimePasses(r)
    /\ lapsed' = lapsed \cup {r}

\* Mutant: repairs are not counted against the pull requests.
RepairAgain(r) ==
    /\ Goes(r, "finalization", "round")
    /\ repaired' = [repaired EXCEPT ![r] = @ + 1]
    /\ UNCHANGED <<up, status, reason, spent, Threads, lapsed>>

Repair(r) ==
    /\ Goes(r, "finalization", "round")
    /\ repaired[r] < Repairs
    /\ repaired' = [repaired EXCEPT ![r] = @ + 1]
    /\ UNCHANGED <<up, status, reason, spent, Threads, lapsed>>

(* _settle_run overwrites the status; a passed run keeps the reason it has.  Which
   of the two it is, and when, is the concern of PullRequests. *)
Settle(r) ==
    /\ Goes(r, "finalization", "grading")
    /\ \/ Writes(r, "needs_human", "ROLE_PR_BLOCKED")
       \/ status' = [status EXCEPT ![r] = "passed"] /\ UNCHANGED reason
    /\ Quiet

Raises(r) ==
    /\ at[r] \in AtWork /\ Goes(r, at[r], "grading")
    /\ Writes(r, "failed", "ENGINE_ERROR")
    /\ Quiet

\* Mutant: the failure is left as it is.
GradeNothing(r) ==
    /\ Goes(r, "grading", "persisting")
    /\ UNCHANGED <<status, reason>> /\ Quiet

(* The finally of _drive: a transient failure becomes a person's.  Its net for a
   run left active catches nothing, every way out has written a verdict. *)
Grade(r) ==
    /\ Goes(r, "grading", "persisting")
    /\ IF status[r] = "failed" /\ reason[r] \notin Permanent
       THEN status' = [status EXCEPT ![r] = "needs_human"]
       ELSE UNCHANGED status
    /\ UNCHANGED reason /\ Quiet

Persist(r) ==
    /\ Goes(r, "persisting", "gone")
    /\ Save(r, status[r])
    /\ UNCHANGED <<up, status, reason, repaired, spent, beat, snap, found, lapsed>>

(* A call that never returns. *)
Hangs(r) ==
    /\ Faults /\ at[r] \in AtWork /\ Goes(r, at[r], "hung")
    /\ UNCHANGED <<status, reason>> /\ Quiet
-----------------------------------------------------------------------------
(* The heartbeat thread: it tests the status, builds its snapshot, and only then
   takes the lock that serializes the saves. *)

\* Mutant: the heartbeat of a run that is still queued stops.
BeatReadsRunning(r) ==
    /\ up /\ beat[r] = "asleep"
    /\ IF status[r] = "running"
       THEN /\ snap' = [snap EXCEPT ![r] = status[r]]
            /\ beat' = [beat EXCEPT ![r] = "saving"]
       ELSE beat' = [beat EXCEPT ![r] = "gone"] /\ UNCHANGED snap
    /\ UNCHANGED <<up, at, status, reason, repaired, spent, disk, stale, found, lapsed>>

BeatReads(r) ==
    /\ up /\ beat[r] = "asleep"
    /\ IF status[r] \in Active
       THEN /\ snap' = [snap EXCEPT ![r] = status[r]]
            /\ beat' = [beat EXCEPT ![r] = "saving"]
       ELSE beat' = [beat EXCEPT ![r] = "gone"] /\ UNCHANGED snap
    /\ UNCHANGED <<up, at, status, reason, repaired, spent, disk, stale, found, lapsed>>

BeatSaves(r) ==
    /\ up /\ beat[r] = "saving"
    /\ Save(r, snap[r])
    /\ beat' = [beat EXCEPT ![r] = "asleep"]
    /\ UNCHANGED <<up, at, status, reason, repaired, spent, snap, found, lapsed>>
-----------------------------------------------------------------------------
(* The sweeper.  STRANDED_AFTER_S covers MaxIterations rounds: a run that works
   longer is overdue, and so, in time, is one whose worker hangs. *)

\* Mutant: a run is overdue as soon as that many rounds have taken their budget.
OverdueEarly(r) == at[r] = "hung" \/ spent[r] >= MaxIterations

Overdue(r) ==
    \/ at[r] = "hung"
    \/ spent[r] > MaxIterations
    \/ spent[r] = MaxIterations /\ at[r] = "working"

SweepFinds(r) ==
    /\ up /\ r \notin found
    /\ status[r] \in Active /\ Overdue(r)
    /\ found' = found \cup {r}
    /\ UNCHANGED <<up, at, status, reason, repaired, spent, beat, snap, disk, stale,
                   lapsed>>

\* Mutant: the status is written without comparing.
SweepWritesBlindly(r) ==
    /\ up /\ r \in found
    /\ found' = found \ {r}
    /\ Writes(r, "needs_human", "STRANDED_NO_PROGRESS")
    /\ lapsed' = IF at[r] \in AtWork THEN lapsed \cup {r} ELSE lapsed
    /\ UNCHANGED <<up, at, repaired, spent, beat, snap, disk, stale>>

(* Run.transition: a compare-and-swap.  The state is not saved. *)
SweepWrites(r) ==
    /\ up /\ r \in found
    /\ found' = found \ {r}
    /\ IF status[r] \in Active
       THEN /\ Writes(r, "needs_human", "STRANDED_NO_PROGRESS")
            /\ lapsed' = IF at[r] \in AtWork THEN lapsed \cup {r} ELSE lapsed
       ELSE UNCHANGED <<status, reason, lapsed>>
    /\ UNCHANGED <<up, at, repaired, spent, beat, snap, disk, stale>>
-----------------------------------------------------------------------------
(* The session is recycled: every thread is gone, and its memory with it. *)
Recycle ==
    /\ Faults /\ up
    /\ up' = FALSE
    /\ beat' = [r \in Runs |-> "gone"]
    /\ found' = {}
    /\ UNCHANGED <<at, status, reason, repaired, spent, snap, disk, stale, lapsed>>

(* A saved state nobody refreshes grows old.  While the heartbeat lives, saves are
   assumed not to fail for as long as ACTIVE_STALE_AFTER_S. *)
Age(r) ==
    /\ beat[r] = "gone" /\ disk[r] \in Active
    /\ stale' = stale \cup {r}
    /\ UNCHANGED <<up, at, status, reason, repaired, spent, beat, snap, disk, found,
                   lapsed>>
-----------------------------------------------------------------------------
Worker(r) ==
    \/ Rejected(r) \/ LimitHit(r) \/ Admitted(r) \/ Hydrated(r) \/ NotReady(r)
    \/ Ready(r) \/ RoundStarts(r) \/ RoundSucceeds(r) \/ FirstRoundFails(r)
    \/ RepairFails(r) \/ Repair(r) \/ Settle(r) \/ Raises(r) \/ Grade(r) \/ Persist(r)

Heartbeat(r) == BeatReads(r) \/ BeatSaves(r)

Sweeper(r) == SweepFinds(r) \/ SweepWrites(r)

Next ==
    \/ \E r \in Runs :
          Submit(r) \/ Worker(r) \/ Hangs(r) \/ Heartbeat(r) \/ Sweeper(r) \/ Age(r)
    \/ Recycle

Spec == Init /\ [][Next]_vars

(* Threads are scheduled, the sweep comes round every minute, time passes. *)
FairSpec ==
    /\ Spec
    /\ \A r \in Runs :
          /\ WF_vars(Worker(r)) /\ WF_vars(Heartbeat(r))
          /\ WF_vars(Sweeper(r)) /\ WF_vars(Age(r))
-----------------------------------------------------------------------------
\* Mutant: the saved status is reported as it is.
SavedAsIs(r) == disk[r]

(* What somebody who asks for the run is told: the live status, or the saved one,
   unless that has gone stale (chat.run_status, active_snapshot_is_stale). *)
Saved(r) == IF disk[r] \in Active /\ r \in stale THEN "needs_human" ELSE disk[r]
Answer(r) == IF up THEN status[r] ELSE Saved(r)

Working(r) == up /\ at[r] \in AtWork

(* No more runs are worked at than the limit, but for those whose status called
   them over before they were (_admission, active_count). *)
LimitKept == Cardinality({r \in Runs : Working(r) /\ r \notin lapsed}) <= MaxConcurrent

(* Another session that reads the saved state reports a run interrupted only when
   nothing works at it, but for such runs. *)
InterruptedIsDead == \A r \in Runs : r \in stale /\ Working(r) => r \in lapsed

(* The same of every run: a saved run that no longer receives heartbeats is one
   that "no process can advance" (active_snapshot_is_stale). *)
InterruptedIsOver == \A r \in Runs : r \in stale => ~Working(r)

(* A run that ends "failed" failed for good: asking again would not help
   (_drive, _is_permanent). *)
FailedIsPermanent ==
    \A r \in Runs : at[r] = "gone" /\ status[r] = "failed" => reason[r] \in Permanent

(* The sweeper never ends "a run that is still legitimately working"
   (STRANDED_AFTER_S). *)
SweptIsLost ==
    [][\A r \in Runs : Working(r) /\ reason'[r] = "STRANDED_NO_PROGRESS" =>
          reason[r] = "STRANDED_NO_PROGRESS"]_vars

(* Whoever the sweeper ends hangs, or has begun more rounds than the threshold is
   derived from: as often as it has been repaired, and once before.  That it was
   found a step earlier, and went on since, makes no difference (reconcile,
   transition). *)
SweptIsOverdue ==
    [][\A r \in Runs :
          reason'[r] = "STRANDED_NO_PROGRESS" /\ reason[r] # "STRANDED_NO_PROGRESS" =>
             at[r] = "hung" \/ 1 + repaired[r] > MaxIterations]_vars

(* A verdict, once the worker has settled it, is final, even for a sweeper that
   found the run overdue before (transition). *)
VerdictIsFinal ==
    [][\A r \in Runs : at[r] \in {"persisting", "gone"} =>
          status'[r] = status[r] /\ reason'[r] = reason[r]]_vars

(* A run is not transitioned twice: the sweeper's verdict stands ("a reconciler
   sweep and the worker thread can never double-transition the same run",
   transition). *)
StrandedIsFinal ==
    [][\A r \in Runs : reason[r] = "STRANDED_NO_PROGRESS" => status'[r] = status[r]]_vars

(* Whoever asks for a run that was saved is in the end told an outcome, and an
   outcome ever after, though workers hang, saves fail and the session goes away
   (_drive, reconcile, run_status). *)
EveryRunIsAnswered ==
    \A r \in Runs : disk[r] # "none" ~> [](Answer(r) \in Terminal)
=============================================================================
