------------------------------- MODULE RoleGraph -------------------------------
(***************************************************************************)
(* The rounds of a run and the threads its roles work on (engine.py,       *)
(* role_graph.py).  A round's graph starts a thread for each selected      *)
(* builder and one for the checker, and gives up when its budget is spent; *)
(* the thread of a role that was given up on is not stopped.  It goes on   *)
(* beside the worker and the later rounds, and writes the run's role       *)
(* states, its checks and the gate directories like any other.  The pull   *)
(* requests 1..NOwners are taken in this order; what is built, published   *)
(* and found stale is the subject of PullRequests.                         *)
(***************************************************************************)
EXTENDS Naturals, FiniteSets, FiniteSetsExt

CONSTANT NOwners  \* builders, each the owner of one pull request

ASSUME RoleGraphAssumption == NOwners \in Nat \ {0}

Owners == 1..NOwners
TheChecker == 0
Everyone == Owners \cup {TheChecker}

VARIABLES
    worker,    \* the run's own thread: its place, its pull request, the one it repairs
    rounds,    \* rounds begun
    chosen,    \* _active_builders
    progress,  \* the state of each role
    threads,   \* the roles' threads
    turnsOver, \* turns that are over
    checks,    \* _item_checks: the round each was authored in, 0 for none
    gateDir,   \* the check in each pull request's gate directory, 0 for none
    evidence,  \* the pull request that _refresh_context is about
    merged,    \* pull requests that were merged
    late       \* history: the last round that a thread of an earlier round wrote into

graphVars == <<worker, rounds, chosen, progress, threads, turnsOver, checks, gateDir, evidence, merged, late>>

\* What a round's selection makes of the roles: the checker waits for the builders.
RoundBegins(selected, before) ==
    [r \in Everyone |->
        IF r \in selected \/ (r = TheChecker /\ selected = {}) THEN "working"
        ELSE IF r = TheChecker THEN "pending" ELSE before[r]]

GraphInit ==
    /\ worker = [at |-> "graph", cur |-> 1, fixing |-> 0, check |-> 0]
    /\ rounds = 1 /\ chosen = Owners
    /\ progress = RoundBegins(Owners, [r \in Everyone |-> "pending"])
    /\ threads = {} /\ turnsOver = {}
    /\ checks = [b \in Owners |-> 0] /\ gateDir = [b \in Owners |-> 0]
    /\ evidence = 0 /\ merged = {} /\ late = 0

GraphTypeOK ==
    /\ worker.at \in {"graph", "drained", "marked", "succeeded", "gate", "stages", "gated", "raised", "over"}
    /\ worker.cur \in Owners /\ worker.fixing \in 0..NOwners
    /\ rounds \in 1..(1 + NOwners) /\ chosen \subseteq Owners /\ merged \subseteq Owners
    /\ progress \in [Everyone -> {"pending", "working", "done", "error"}]
    /\ checks \in [Owners -> 0..rounds] /\ gateDir \in [Owners -> 0..rounds]
    /\ evidence \in 0..NOwners /\ late \in 0..rounds

-----------------------------------------------------------------------------
\* The graph

Turn(r, n) == {e \in turnsOver : e.role = r /\ e.round = n}
HasStarted(r) == Turn(r, rounds) # {} \/ \E t \in threads : t.role = r /\ t.round = rounds

Thread(r) == [role |-> r, round |-> rounds, at |-> "begins", told |-> 0, todo |-> {}]
NodeStarts(r) ==
    /\ worker.at = "graph" /\ ~HasStarted(r)
    /\ threads' = threads \cup {Thread(r)}
    /\ progress' = [progress EXCEPT ![r] = "working"]
    /\ UNCHANGED <<worker, rounds, chosen, turnsOver, checks, gateDir, evidence, merged, late>>

\* Mutant: a node starts when one of its edges is satisfied.
AnyBuilderDone == \E b \in chosen : Turn(b, rounds) # {}
\* Every selected builder's turn is over, however it ended.
AllBuildersDone == \A b \in chosen : Turn(b, rounds) # {}

BuilderStarts(b) == b \in chosen /\ NodeStarts(b)
CheckerNodeStarts == AllBuildersDone /\ NodeStarts(TheChecker)

GraphEnds ==
    /\ worker.at = "graph" /\ \A r \in chosen \cup {TheChecker} : Turn(r, rounds) # {}
    /\ worker' = [worker EXCEPT !.at = "drained"]
    /\ UNCHANGED <<rounds, chosen, progress, threads, turnsOver, checks, gateDir, evidence, merged, late>>
\* The budget is spent, or the graph cannot be driven: nobody stops the threads.
GraphGivesUp ==
    /\ worker.at = "graph"
    /\ worker' = [worker EXCEPT !.at = "drained"]
    /\ UNCHANGED <<rounds, chosen, progress, threads, turnsOver, checks, gateDir, evidence, merged, late>>

-----------------------------------------------------------------------------
\* The threads of the roles

Becomes(t, u) == threads' = (threads \ {t}) \cup {u}
\* A write of a thread whose round is over.
WritesLate(t) == late' = IF t.round # rounds THEN rounds ELSE late

\* What a builder's prompt says of a repair: the evidence the run holds.
Told == evidence
BuilderPrompted(t) ==
    /\ t.role # TheChecker /\ t.at = "begins"
    /\ Becomes(t, [t EXCEPT !.at = "works", !.told = Told])
    /\ UNCHANGED <<worker, rounds, chosen, progress, turnsOver, checks, gateDir, evidence, merged, late>>

\* The checker has published; it forgets the checks and lists what is not merged.
CheckerLists(t) ==
    /\ t.role = TheChecker /\ t.at = "begins"
    /\ checks' = [b \in Owners |-> 0]
    /\ Becomes(t, [t EXCEPT !.at = "works", !.todo = Owners \ merged])
    /\ WritesLate(t)
    /\ UNCHANGED <<worker, rounds, chosen, progress, turnsOver, gateDir, evidence, merged>>

\* The authored check is read, the gate directory removed, then made anew with it.
CheckerRemoves(t) ==
    /\ t.role = TheChecker /\ t.at = "works" /\ t.todo # {}
    /\ gateDir' = [gateDir EXCEPT ![Min(t.todo)] = 0]
    /\ Becomes(t, [t EXCEPT !.at = "stages"])
    /\ WritesLate(t)
    /\ UNCHANGED <<worker, rounds, chosen, progress, turnsOver, checks, evidence, merged>>
CheckerStages(t) ==
    /\ t.at = "stages"
    /\ gateDir' = [gateDir EXCEPT ![Min(t.todo)] = t.round]
    /\ checks' = [checks EXCEPT ![Min(t.todo)] = t.round]
    /\ Becomes(t, [t EXCEPT !.at = "works", !.todo = @ \ {Min(@)}])
    /\ WritesLate(t)
    /\ UNCHANGED <<worker, rounds, chosen, progress, turnsOver, evidence, merged>>

\* A turn is over when its work is done, or at any point with an error.
RoleTurnEnds(t, ok) ==
    /\ ok => t.at = "works" /\ t.todo = {}
    /\ threads' = threads \ {t}
    /\ turnsOver' = turnsOver \cup {[role |-> t.role, round |-> t.round, ok |-> ok, told |-> t.told]}
    /\ progress' = [progress EXCEPT ![t.role] = IF ok THEN "done" ELSE "error"]
    /\ WritesLate(t)
    /\ UNCHANGED <<worker, rounds, chosen, checks, gateDir, evidence, merged>>

-----------------------------------------------------------------------------
\* The worker

\* Mutant: only who is still working is wedged.
WedgedWorking(r) == progress[r] = "working"
\* Still working, or never started.
Wedged(r) == progress[r] \in {"working", "pending"}

WatchdogMarks ==
    /\ worker.at = "drained"
    /\ progress' = [r \in Everyone |->
         IF r \in chosen \cup {TheChecker} /\ Wedged(r) THEN "error" ELSE progress[r]]
    /\ worker' = [worker EXCEPT !.at = "marked"]
    /\ UNCHANGED <<rounds, chosen, threads, turnsOver, checks, gateDir, evidence, merged, late>>

\* The next pull request, if there is one.
NextPullRequest(w) ==
    IF w.cur = NOwners THEN [w EXCEPT !.at = "over"]
    ELSE [w EXCEPT !.at = "gate", !.cur = @ + 1]

\* Any role in error fails the round: the run, or this repair.
RoundJudged ==
    /\ worker.at = "marked"
    /\ worker' = IF \A r \in Everyone : progress[r] # "error"
                 THEN [worker EXCEPT !.at = "succeeded"]
                 ELSE IF worker.fixing = 0 THEN [worker EXCEPT !.at = "over"]
                 ELSE NextPullRequest(worker)
    /\ UNCHANGED <<rounds, chosen, progress, threads, turnsOver, checks, gateDir, evidence, merged, late>>

\* The check is read from the gate directory, which is then removed and made anew.
\* A pull request without a check has a red gate; a check that is gone raises.
GateReads ==
    /\ worker.at \in {"succeeded", "gate"}
    /\ worker' = IF checks[worker.cur] = 0 THEN [worker EXCEPT !.at = "gated", !.check = 0]
                 ELSE IF gateDir[worker.cur] = 0 THEN [worker EXCEPT !.at = "raised"]
                 ELSE [worker EXCEPT !.at = "stages", !.check = gateDir[worker.cur]]
    /\ gateDir' = IF worker'.at = "stages" THEN [gateDir EXCEPT ![worker.cur] = 0] ELSE gateDir
    /\ UNCHANGED <<rounds, chosen, progress, threads, turnsOver, checks, evidence, merged, late>>
GateStages ==
    /\ worker.at = "stages"
    /\ gateDir' = [gateDir EXCEPT ![worker.cur] = worker.check]
    /\ checks' = [checks EXCEPT ![worker.cur] = worker.check]
    /\ worker' = [worker EXCEPT !.at = "gated"]
    /\ UNCHANGED <<rounds, chosen, progress, threads, turnsOver, evidence, merged, late>>

\* It is merged, when there is a check to pass, or left open or blocked.
PullRequestSettles(merges) ==
    /\ worker.at = "gated" /\ (merges => worker.check # 0)
    /\ merged' = IF merges THEN merged \cup {worker.cur} ELSE merged
    /\ worker' = NextPullRequest(worker)
    /\ UNCHANGED <<rounds, chosen, progress, threads, turnsOver, checks, gateDir, evidence, late>>

\* The model names owners among the eligible ones; any other answer is all of them.
RepairAgents(answer, eligible) == IF answer \subseteq eligible THEN answer ELSE eligible

\* One repair for a pull request, by its owner or by the checker alone, on the
\* reasons of its own gate and review.
RepairRouted(answer) ==
    /\ worker.at = "gated" /\ worker.fixing # worker.cur
    /\ chosen' = RepairAgents(answer, {worker.cur})
    /\ evidence' = worker.cur
    /\ rounds' = rounds + 1
    /\ progress' = RoundBegins(chosen', progress)
    /\ worker' = [worker EXCEPT !.at = "graph", !.fixing = worker.cur]
    /\ UNCHANGED <<threads, turnsOver, checks, gateDir, merged, late>>

GraphNext ==
    \/ \E b \in Owners : BuilderStarts(b)
    \/ CheckerNodeStarts \/ GraphEnds \/ GraphGivesUp
    \/ \E t \in threads :
         \/ BuilderPrompted(t) \/ CheckerLists(t) \/ CheckerRemoves(t) \/ CheckerStages(t)
         \/ \E ok \in BOOLEAN : RoleTurnEnds(t, ok)
    \/ WatchdogMarks \/ RoundJudged \/ GateReads \/ GateStages
    \/ \E merges \in BOOLEAN : PullRequestSettles(merges)
    \/ \E answer \in SUBSET Owners : RepairRouted(answer)

GraphSpec == GraphInit /\ [][GraphNext]_graphVars

-----------------------------------------------------------------------------
(***************************************************************************)
(* The checker works only when every builder of its round is through.  A   *)
(* round succeeds only if the turn of each of its roles, and not merely    *)
(* its recorded state, ended well, a repair turn having been told of its   *)
(* own pull request; every pull request that is not merged then has a      *)
(* check of this round, as long as no thread of an earlier round has       *)
(* written since the round began.  The worker misses a check when it gates *)
(* only if such a thread has written in this round or in one before it.    *)
(***************************************************************************)
RoundsAreWhole ==
    /\ \A t \in threads :
         t.role = TheChecker /\ t.round = rounds => \A b \in chosen : Turn(b, rounds) # {}
    /\ worker.at = "succeeded" /\ late # rounds =>
         /\ \A r \in chosen \cup {TheChecker} :
              \E e \in Turn(r, rounds) : e.ok /\ (r # TheChecker => e.told = worker.fixing)
         /\ \A b \in Owners \ merged : checks[b] = rounds
    /\ worker.at = "raised" => late # 0
=============================================================================
