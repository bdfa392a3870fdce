-------------------------------- MODULE Review --------------------------------
(***************************************************************************)
(* How one piece of work is judged (orchestrator/reviewer.py): the check   *)
(* runs in a process group of its own, its exit code is the gate, and a    *)
(* model reviews what passed.  The work is a pull request, or what an      *)
(* earlier run left on disk, which a read-only run judges again            *)
(* (engine.py); its directory may be pruned meanwhile.  A model's answer   *)
(* is any answer, the wording of a review is left out.  Bound: MaxEnded    *)
(* runs that end.                                                          *)
(***************************************************************************)
EXTENDS Naturals, Sequences, SequencesExt, FiniteSets, FiniteSetsExt

CONSTANTS
    PullRequest,  \* the pull request under review
    KeptDirs,     \* work directories that pruning keeps (_MAX_WORK_DIRS)
    MaxEnded      \* earlier runs

NoWork == "none"
ASSUME ReviewAssumption == KeptDirs \in Nat /\ PullRequest # NoWork

VARIABLES
    before,   \* the earlier runs, oldest first
    judged,   \* what is judged and how far that is
    group,    \* the check's process group
    answers   \* what the reviewer answered, in order

reviewVars == <<before, judged, group, answers>>

NotJudged == [at |-> "none", subject |-> NoWork, target |-> 0, checked |-> FALSE,
              code |-> 0, outcome |-> "open"]
NoGroup == [lives |-> {}, refused |-> FALSE]

ReviewInit ==
    /\ before = <<>> /\ judged = NotJudged /\ group = NoGroup /\ answers = <<>>

ReviewTypeOK ==
    /\ \A n \in DOMAIN before : before[n] \in [passed : BOOLEAN, authored : BOOLEAN, kept : BOOLEAN]
    /\ judged.at \in {"none", "preFlight", "executes", "gate", "runs", "term", "kill", "review", "settled", "over"}
    /\ judged.target \in 0..Len(before) /\ judged.subject \in {NoWork, PullRequest}
    /\ group.lives \subseteq {"check", "service", "stubborn"}
    /\ Len(answers) <= 2

-----------------------------------------------------------------------------
\* The work of an earlier run

\* The newest directories are kept.
PrunedDirs(runs) ==
    [n \in DOMAIN runs |-> [runs[n] EXCEPT !.kept =
       @ /\ Cardinality({m \in n..Len(runs) : runs[m].kept}) <= KeptDirs]]

\* A run is submitted, its directory made, the oldest ones removed, and it ends.
RunEnds(passed, authored) ==
    /\ Len(before) < MaxEnded
    /\ before' = Append(PrunedDirs(before), [passed |-> passed, authored |-> authored, kept |-> TRUE])
    /\ UNCHANGED <<judged, group, answers>>

Reviewable(n) == before[n].kept /\ before[n].authored
\* The run that was asked for, or the newest one that passed.
ReviewTarget(asked) ==
    IF asked # 0 THEN IF Reviewable(asked) THEN asked ELSE 0
    ELSE Max({0} \cup {n \in DOMAIN before : before[n].passed /\ Reviewable(n)})

ReadOnlyBegins(asked) ==
    /\ judged.at = "none"
    /\ judged' = [judged EXCEPT !.at = "preFlight", !.target = asked]
    /\ before' = PrunedDirs(before)
    /\ UNCHANGED <<group, answers>>

\* There is something to judge, when it is asked first and when it is captured.
NoRunToReview ==
    /\ judged.at \in {"preFlight", "executes"} /\ ReviewTarget(judged.target) = 0
    /\ judged' = [judged EXCEPT !.at = "settled", !.outcome = "failed"]
    /\ UNCHANGED <<before, group, answers>>
PreFlightPasses ==
    /\ judged.at = "preFlight" /\ ReviewTarget(judged.target) # 0
    /\ judged' = [judged EXCEPT !.at = "executes"]
    /\ UNCHANGED <<before, group, answers>>
ExecuteReview ==
    /\ judged.at = "executes" /\ ReviewTarget(judged.target) # 0
    /\ judged' = [judged EXCEPT !.at = "gate", !.target = ReviewTarget(judged.target)]
    /\ UNCHANGED <<before, group, answers>>

\* A pull request comes with its tree and, if one was authored, its check.
PullRequestBegins ==
    /\ judged.at = "none"
    /\ judged' = [judged EXCEPT !.at = "gate", !.subject = PullRequest]
    /\ UNCHANGED <<before, group, answers>>

-----------------------------------------------------------------------------
\* The gate

\* No check, or one that cannot be executed, is a red gate.
GateCannotRun ==
    /\ judged.at = "gate"
    /\ judged' = [judged EXCEPT !.at = "settled", !.outcome = "changes_requested"]
    /\ UNCHANGED <<before, group, answers>>
GateStarts ==
    /\ judged.at = "gate"
    /\ judged.subject = NoWork => Reviewable(judged.target)
    /\ judged' = [judged EXCEPT !.at = "runs"]
    /\ group' = [group EXCEPT !.lives = {"check"}]
    /\ UNCHANGED <<before, answers>>

\* The check starts what it is to probe, which may ignore SIGTERM.
Spawns(p) ==
    /\ "check" \in group.lives /\ p \in {"service", "stubborn"}
    /\ group' = [group EXCEPT !.lives = @ \cup {p}]
    /\ UNCHANGED <<before, judged, answers>>

\* The wait is for the check and not for what it has started.
GateEnds(code) ==
    /\ judged.at = "runs"
    /\ judged' = [judged EXCEPT !.at = "term", !.code = code, !.checked = TRUE]
    /\ group' = IF code = 124 THEN group ELSE [group EXCEPT !.lives = @ \ {"check"}]
    /\ UNCHANGED <<before, answers>>

\* A green gate is reviewed; a red one is the outcome.
AfterGate ==
    IF judged.code = 0 THEN [judged EXCEPT !.at = "review"]
    ELSE [judged EXCEPT !.at = "settled", !.outcome = "changes_requested"]

\* Mutant: the group is asked to end, and no more.
KillTermOnly ==
    /\ judged.at = "term"
    /\ group' = [group EXCEPT !.lives = @ \cap {"stubborn"}]
    /\ judged' = AfterGate
    /\ UNCHANGED <<before, answers>>
\* SIGTERM to the whole group, and SIGKILL to what is left of it.
KillTerm ==
    /\ judged.at = "term"
    /\ group' = [group EXCEPT !.lives = @ \cap {"stubborn"}]
    /\ judged' = IF group'.lives = {} THEN AfterGate ELSE [judged EXCEPT !.at = "kill"]
    /\ UNCHANGED <<before, answers>>
KillAll ==
    /\ judged.at = "kill"
    /\ group' = [group EXCEPT !.lives = {}]
    /\ judged' = AfterGate
    /\ UNCHANGED <<before, answers>>
\* A group that may not be signalled is left alone.
KillRefused ==
    /\ judged.at \in {"term", "kill"} /\ group.lives # {}
    /\ group' = [group EXCEPT !.refused = TRUE]
    /\ judged' = AfterGate
    /\ UNCHANGED <<before, answers>>

-----------------------------------------------------------------------------
\* The review

\* The work whose use has to be shown; a read-only run has no work of its own.
Required == {judged.subject} \ {NoWork}

JudgeAnswers == [json : BOOLEAN, approve : BOOLEAN, evidence : SUBSET {PullRequest}, lenses : BOOLEAN]
Silence == [json |-> FALSE, approve |-> FALSE, evidence |-> {}, lenses |-> FALSE, spoken |-> FALSE]
Spoken(a) == [json |-> a.json, approve |-> a.approve, evidence |-> a.evidence, lenses |-> a.lenses, spoken |-> TRUE]

\* Mutant: evidence is asked for and not required.
ParsedTrusting(a) == IF ~a.json \/ ~a.lenses THEN "invalid" ELSE "valid"
Parsed(a) ==
    IF ~a.json THEN "invalid"
    ELSE IF a.approve /\ ~(Required \subseteq a.evidence) THEN "unproven"
    ELSE IF ~a.lenses THEN "invalid" ELSE "valid"

\* An approval that proves nothing, twice, is a finding; no valid answer is none.
Combined(a) ==
    IF Parsed(a) = "invalid" THEN "unavailable"
    ELSE IF Parsed(a) = "valid" /\ a.approve THEN "approved" ELSE "changes_requested"

\* An answer that is not valid is asked for again, once.
ReviewTurn(a) ==
    /\ judged.at = "review" /\ Len(answers) < 2
    /\ answers' = Append(answers, a)
    /\ judged' = IF Parsed(a) # "valid" /\ answers = <<>> THEN judged
                 ELSE [judged EXCEPT !.at = "settled", !.outcome = Combined(a)]
    /\ UNCHANGED <<before, group>>

\* No module, no credentials, or an exception out of the judge.
NoJudge ==
    /\ judged.at = "review" /\ answers = <<>>
    /\ judged' = [judged EXCEPT !.at = "settled", !.outcome = "unavailable"]
    /\ UNCHANGED <<before, group, answers>>

\* A read-only run's outcome becomes its verdict.
FinalizeReadOnly ==
    /\ judged.at = "settled" /\ judged.subject = NoWork
    /\ judged' = [judged EXCEPT !.at = "over", !.outcome =
         CASE @ = "approved" -> "passed"
           [] @ = "changes_requested" -> "ITERATION_CAP"
           [] @ = "unavailable" -> "REVIEW_UNAVAILABLE"
           [] OTHER -> @]
    /\ UNCHANGED <<before, group, answers>>

ReviewNext ==
    \/ \E passed, authored \in BOOLEAN : RunEnds(passed, authored)
    \/ \E asked \in 0..Len(before) : ReadOnlyBegins(asked)
    \/ NoRunToReview \/ PreFlightPasses \/ ExecuteReview \/ PullRequestBegins
    \/ GateCannotRun \/ GateStarts
    \/ \E p \in {"service", "stubborn"} : Spawns(p)
    \/ \E code \in {0, 1, 124} : GateEnds(code)
    \/ KillTerm \/ KillAll \/ KillRefused
    \/ \E a \in JudgeAnswers : ReviewTurn(Spoken(a))
    \/ ReviewTurn(Silence)
    \/ NoJudge \/ FinalizeReadOnly

ReviewSpec == ReviewInit /\ [][ReviewNext]_reviewVars

-----------------------------------------------------------------------------
(***************************************************************************)
(* Nothing is approved but what its own check passed, run to its end, and  *)
(* what the reviewer's last answer approves under both lenses, with        *)
(* evidence of every piece of work it was asked about.  Where the reviewer *)
(* gave no answer that counts, the outcome says so and finds nothing.      *)
(***************************************************************************)
OutcomeIsProven ==
    /\ judged.outcome \in {"approved", "passed"} =>
         /\ judged.checked /\ judged.code = 0
         /\ LET a == Last(answers)
            IN  a.json /\ a.approve /\ a.lenses /\ Required \subseteq a.evidence
    /\ judged.outcome \in {"unavailable", "REVIEW_UNAVAILABLE"} => judged.checked /\ judged.code = 0
    /\ judged.outcome \in {"changes_requested", "ITERATION_CAP"} /\ judged.checked /\ judged.code = 0 =>
         Last(answers).spoken /\ Last(answers).json

(***************************************************************************)
(* Whatever a check started, and however it ended, no process of its group *)
(* runs on after its gate, unless the group may not be signalled.          *)
(***************************************************************************)
NoServiceOutlives ==
    judged.at \in {"review", "settled", "over"} /\ ~group.refused => group.lives = {}
===============================================================================
