---------------------------- MODULE RoundsProofs ----------------------------
(***************************************************************************)
(* Theorems about the parts of a run that RoleGraph, WorkTree and Review   *)
(* model: its rounds, the trees its roles hand on, and its judgement.      *)
(***************************************************************************)
EXTENDS Review, RoleGraph, WorkTree, ListsProofs, WellFoundedInduction, TLAPS

-----------------------------------------------------------------------------
(* The judgement of one piece of work *)

Verdicts == [json : BOOLEAN, approve : BOOLEAN, evidence : SUBSET {PullRequest},
             lenses : BOOLEAN, spoken : BOOLEAN]

Outcomes == {"open", "failed", "changes_requested", "approved", "unavailable", "passed",
             "ITERATION_CAP", "REVIEW_UNAVAILABLE"}

JudgedTyped ==
    /\ judged \in [at : {"none", "preFlight", "executes", "gate", "runs", "term", "kill",
                         "review", "settled", "over"},
                   subject : {NoWork, PullRequest}, target : {judged.target},
                   checked : BOOLEAN, code : {0, 1, 124}, outcome : Outcomes]
    /\ group \in [lives : SUBSET {"check", "service", "stubborn"}, refused : BOOLEAN]
    /\ answers \in Seq(Verdicts) /\ Len(answers) <= 2

(* What each place of the judgement has behind it: nothing before the gate, a
   check that ran to its end after it, a green one before the review. *)
Placed ==
    /\ judged.at \notin {"settled", "over"} => judged.outcome = "open"
    /\ judged.at \in {"none", "preFlight", "executes", "gate", "runs"} => ~judged.checked
    /\ judged.at \in {"term", "kill", "review"} => judged.checked
    /\ judged.at = "review" => judged.code = 0 /\ Len(answers) <= 1
    /\ judged.at \in {"none", "preFlight", "executes", "gate", "runs", "term", "kill"} =>
          answers = <<>>
    /\ judged.at \in {"none", "preFlight", "executes", "gate"} => group.lives = {}

JudgementInv == JudgedTyped /\ Placed /\ OutcomeIsProven /\ NoServiceOutlives

LEMMA JudgementInit == ReviewInit => JudgementInv
<1> USE ReviewAssumption DEF ReviewInit, NotJudged, NoGroup
<1>1. ReviewInit => JudgedTyped
  BY DEF JudgedTyped, Outcomes
<1>2. ReviewInit => Placed /\ OutcomeIsProven /\ NoServiceOutlives
  BY DEF Placed, OutcomeIsProven, NoServiceOutlives
<1> QED
  BY <1>1, <1>2 DEF JudgementInv

(* The verdict of a read-only run, case by case. *)
TurnsInto(outcome) == judged' = [judged EXCEPT !.at = "over", !.outcome = outcome]
Finalized ==
    /\ judged.at = "settled" /\ UNCHANGED <<group, answers>>
    /\ \/ TurnsInto("passed") /\ judged.outcome = "approved"
       \/ TurnsInto("ITERATION_CAP") /\ judged.outcome = "changes_requested"
       \/ TurnsInto("REVIEW_UNAVAILABLE") /\ judged.outcome = "unavailable"
       \/ TurnsInto(judged.outcome)
LEMMA FinalizeCases == FinalizeReadOnly => Finalized
<1> SUFFICES ASSUME FinalizeReadOnly PROVE Finalized
  OBVIOUS
<1> USE DEF Finalized
<1> DEFINE verdict == CASE judged.outcome = "approved" -> "passed"
                        [] judged.outcome = "changes_requested" -> "ITERATION_CAP"
                        [] judged.outcome = "unavailable" -> "REVIEW_UNAVAILABLE"
                        [] OTHER -> judged.outcome
<1>1. /\ judged.at = "settled" /\ UNCHANGED <<group, answers>>
      /\ TurnsInto(verdict)
  BY DEF FinalizeReadOnly, TurnsInto
<1>2. CASE judged.outcome = "approved"
  <2> verdict = "passed"
    BY <1>2
  <2> QED
    BY <1>1, <1>2
<1>3. CASE judged.outcome = "changes_requested"
  <2> verdict = "ITERATION_CAP"
    BY <1>3
  <2> QED
    BY <1>1, <1>3
<1>4. CASE judged.outcome = "unavailable"
  <2> verdict = "REVIEW_UNAVAILABLE"
    BY <1>4
  <2> QED
    BY <1>1, <1>4
<1>5. CASE judged.outcome \notin {"approved", "changes_requested", "unavailable"}
  <2> verdict = judged.outcome
    BY <1>5
  <2> QED
    BY <1>1
<1> QED
  BY <1>2, <1>3, <1>4, <1>5

(* Every step keeps the types. *)
LEMMA JudgedTypedStep ==
    ASSUME JudgedTyped, [ReviewNext]_reviewVars
    PROVE  JudgedTyped'
<1> USE ReviewAssumption
<1> USE DEF JudgedTyped, Outcomes
<1>1. ASSUME NEW passed \in BOOLEAN, NEW authored \in BOOLEAN, RunEnds(passed, authored)
      PROVE  JudgedTyped'
  BY <1>1 DEF RunEnds
<1>2. ASSUME NEW asked \in 0..Len(before), ReadOnlyBegins(asked)
      PROVE  JudgedTyped'
  BY <1>2 DEF ReadOnlyBegins
<1>3. CASE NoRunToReview
  BY <1>3 DEF NoRunToReview
<1>4. CASE PreFlightPasses
  BY <1>4 DEF PreFlightPasses
<1>5. CASE ExecuteReview
  BY <1>5 DEF ExecuteReview
<1>6. CASE PullRequestBegins
  BY <1>6 DEF PullRequestBegins
<1>7. CASE GateCannotRun
  BY <1>7 DEF GateCannotRun
<1>8. CASE GateStarts
  BY <1>8 DEF GateStarts
<1>9. ASSUME NEW p \in {"service", "stubborn"}, Spawns(p)
      PROVE  JudgedTyped'
  BY <1>9 DEF Spawns
<1>10. ASSUME NEW code \in {0, 1, 124}, GateEnds(code)
       PROVE  JudgedTyped'
  BY <1>10 DEF GateEnds
<1>11. CASE KillTerm
  BY <1>11 DEF KillTerm, AfterGate
<1>12. CASE KillAll
  BY <1>12 DEF KillAll, AfterGate
<1>13. CASE KillRefused
  BY <1>13 DEF KillRefused, AfterGate
<1>14. ASSUME NEW a \in Verdicts, a.spoken \/ ~a.json, ReviewTurn(a)
       PROVE  JudgedTyped'
  <2>1. answers' \in Seq(Verdicts) /\ Len(answers') <= 2 /\ group' = group
    BY <1>14 DEF ReviewTurn
  <2>2. \/ judged' = judged
        \/ judged' = [judged EXCEPT !.at = "settled", !.outcome = Combined(a)]
    BY <1>14 DEF ReviewTurn
  <2>3. CASE judged' = judged
    BY <2>1, <2>3
  <2>4. CASE judged' = [judged EXCEPT !.at = "settled", !.outcome = Combined(a)]
    <3> DEFINE outcome == Combined(a)
    <3>1. outcome \in {"approved", "changes_requested", "unavailable"}
      BY DEF Combined
    <3> HIDE DEF outcome
    <3>2. judged' = [judged EXCEPT !.at = "settled", !.outcome = outcome]
      BY <2>4 DEF outcome
    <3> QED
      BY <2>1, <3>1, <3>2
  <2> QED
    BY <2>2, <2>3, <2>4
<1>15. CASE NoJudge
  BY <1>15 DEF NoJudge
<1>16. CASE FinalizeReadOnly
  <2>1. Finalized
    BY <1>16, FinalizeCases
  <2>2. CASE TurnsInto("passed") /\ judged.outcome = "approved"
    BY <2>1, <2>2 DEF Finalized, TurnsInto
  <2>3. CASE TurnsInto("ITERATION_CAP") /\ judged.outcome = "changes_requested"
    BY <2>1, <2>3 DEF Finalized, TurnsInto
  <2>4. CASE TurnsInto("REVIEW_UNAVAILABLE") /\ judged.outcome = "unavailable"
    BY <2>1, <2>4 DEF Finalized, TurnsInto
  <2>5. CASE TurnsInto(judged.outcome)
    BY <2>1, <2>5 DEF Finalized, TurnsInto
  <2> QED
    BY <2>1, <2>2, <2>3, <2>4, <2>5 DEF Finalized
<1>17. CASE UNCHANGED reviewVars
  BY <1>17 DEF reviewVars
<1>18. /\ Silence \in Verdicts /\ ~Silence.json
       /\ \A a \in JudgeAnswers : Spoken(a) \in Verdicts /\ Spoken(a).spoken
  BY DEF Silence, JudgeAnswers, Spoken, Verdicts
<1> QED
  BY <1>1, <1>2, <1>3, <1>4, <1>5, <1>6, <1>7, <1>8, <1>9,
     <1>10, <1>11, <1>12, <1>13, <1>14, <1>15, <1>16, <1>17, <1>18
  DEF ReviewNext

(* Every step keeps what a place has behind it. *)
LEMMA PlacedStep ==
    ASSUME JudgedTyped, Placed, [ReviewNext]_reviewVars
    PROVE  Placed'
<1> USE ReviewAssumption
<1> USE DEF JudgedTyped, Placed
<1>1. ASSUME NEW passed \in BOOLEAN, NEW authored \in BOOLEAN, RunEnds(passed, authored)
      PROVE  Placed'
  BY <1>1 DEF RunEnds
<1>2. ASSUME NEW asked \in 0..Len(before), ReadOnlyBegins(asked)
      PROVE  Placed'
  BY <1>2 DEF ReadOnlyBegins
<1>3. CASE NoRunToReview
  BY <1>3 DEF NoRunToReview
<1>4. CASE PreFlightPasses
  BY <1>4 DEF PreFlightPasses
<1>5. CASE ExecuteReview
  BY <1>5 DEF ExecuteReview
<1>6. CASE PullRequestBegins
  BY <1>6 DEF PullRequestBegins
<1>7. CASE GateCannotRun
  BY <1>7 DEF GateCannotRun
<1>8. CASE GateStarts
  BY <1>8 DEF GateStarts
<1>9. ASSUME NEW p \in {"service", "stubborn"}, Spawns(p)
      PROVE  Placed'
  BY <1>9 DEF Spawns
<1>10. ASSUME NEW code \in {0, 1, 124}, GateEnds(code)
       PROVE  Placed'
  BY <1>10 DEF GateEnds
<1>11. CASE KillTerm
  BY <1>11 DEF KillTerm, AfterGate
<1>12. CASE KillAll
  BY <1>12 DEF KillAll, AfterGate
<1>13. CASE KillRefused
  BY <1>13 DEF KillRefused, AfterGate
<1>14. ASSUME NEW a \in Verdicts, a.spoken \/ ~a.json, ReviewTurn(a)
       PROVE  Placed'
  BY <1>14 DEF ReviewTurn
<1>15. CASE NoJudge
  BY <1>15 DEF NoJudge
<1>16. CASE FinalizeReadOnly
  <2>1. Finalized
    BY <1>16, FinalizeCases
  <2>2. CASE TurnsInto("passed") /\ judged.outcome = "approved"
    BY <2>1, <2>2 DEF Finalized, TurnsInto
  <2>3. CASE TurnsInto("ITERATION_CAP") /\ judged.outcome = "changes_requested"
    BY <2>1, <2>3 DEF Finalized, TurnsInto
  <2>4. CASE TurnsInto("REVIEW_UNAVAILABLE") /\ judged.outcome = "unavailable"
    BY <2>1, <2>4 DEF Finalized, TurnsInto
  <2>5. CASE TurnsInto(judged.outcome)
    BY <2>1, <2>5 DEF Finalized, TurnsInto
  <2> QED
    BY <2>1, <2>2, <2>3, <2>4, <2>5 DEF Finalized
<1>17. CASE UNCHANGED reviewVars
  BY <1>17 DEF reviewVars
<1>18. /\ Silence \in Verdicts /\ ~Silence.json
       /\ \A a \in JudgeAnswers : Spoken(a) \in Verdicts /\ Spoken(a).spoken
  BY DEF Silence, JudgeAnswers, Spoken, Verdicts
<1> QED
  BY <1>1, <1>2, <1>3, <1>4, <1>5, <1>6, <1>7, <1>8, <1>9,
     <1>10, <1>11, <1>12, <1>13, <1>14, <1>15, <1>16, <1>17, <1>18
  DEF ReviewNext

(* Every outcome a step gives is proven, and no step takes its proof back. *)
LEMMA OutcomeStep ==
    ASSUME JudgedTyped, Placed, OutcomeIsProven, [ReviewNext]_reviewVars
    PROVE  OutcomeIsProven'
<1> USE ReviewAssumption
<1> USE DEF JudgedTyped, Placed, OutcomeIsProven, Required
<1>1. ASSUME NEW passed \in BOOLEAN, NEW authored \in BOOLEAN, RunEnds(passed, authored)
      PROVE  OutcomeIsProven'
  BY <1>1 DEF RunEnds
<1>2. ASSUME NEW asked \in 0..Len(before), ReadOnlyBegins(asked)
      PROVE  OutcomeIsProven'
  BY <1>2 DEF ReadOnlyBegins
<1>3. CASE NoRunToReview
  BY <1>3 DEF NoRunToReview
<1>4. CASE PreFlightPasses
  BY <1>4 DEF PreFlightPasses
<1>5. CASE ExecuteReview
  BY <1>5 DEF ExecuteReview
<1>6. CASE PullRequestBegins
  BY <1>6 DEF PullRequestBegins
<1>7. CASE GateCannotRun
  BY <1>7 DEF GateCannotRun
<1>8. CASE GateStarts
  BY <1>8 DEF GateStarts
<1>9. ASSUME NEW p \in {"service", "stubborn"}, Spawns(p)
      PROVE  OutcomeIsProven'
  BY <1>9 DEF Spawns
<1>10. ASSUME NEW code \in {0, 1, 124}, GateEnds(code)
       PROVE  OutcomeIsProven'
  BY <1>10 DEF GateEnds
<1>11. CASE KillTerm
  BY <1>11 DEF KillTerm, AfterGate
<1>12. CASE KillAll
  BY <1>12 DEF KillAll, AfterGate
<1>13. CASE KillRefused
  BY <1>13 DEF KillRefused, AfterGate
<1>14. ASSUME NEW a \in Verdicts, a.spoken \/ ~a.json, ReviewTurn(a)
       PROVE  OutcomeIsProven'
  <2>1. Last(answers') = a
    BY <1>14 DEF ReviewTurn, Last
  <2>2. judged.code = 0 /\ judged.checked /\ judged.outcome = "open"
    BY <1>14 DEF ReviewTurn
  <2>3. CASE judged' = judged
    BY <2>2, <2>3
  <2>4. CASE judged' = [judged EXCEPT !.at = "settled", !.outcome = Combined(a)]
    <3>1. /\ Combined(a) = "approved" => a.json /\ a.approve /\ a.lenses /\ Required \subseteq a.evidence
          /\ Combined(a) = "changes_requested" => a.json
          /\ Combined(a) \in {"approved", "changes_requested", "unavailable"}
      BY DEF Combined, Parsed
    <3>2. a.spoken \/ ~a.json
      BY <1>14
    <3> QED
      BY <2>1, <2>2, <2>4, <3>1, <3>2
  <2> QED
    BY <1>14, <2>3, <2>4 DEF ReviewTurn
<1>15. CASE NoJudge
  BY <1>15 DEF NoJudge
<1>16. CASE FinalizeReadOnly
  <2>1. Finalized
    BY <1>16, FinalizeCases
  <2>2. CASE TurnsInto("passed") /\ judged.outcome = "approved"
    BY <2>1, <2>2 DEF Finalized, TurnsInto
  <2>3. CASE TurnsInto("ITERATION_CAP") /\ judged.outcome = "changes_requested"
    BY <2>1, <2>3 DEF Finalized, TurnsInto
  <2>4. CASE TurnsInto("REVIEW_UNAVAILABLE") /\ judged.outcome = "unavailable"
    BY <2>1, <2>4 DEF Finalized, TurnsInto
  <2>5. CASE TurnsInto(judged.outcome)
    BY <2>1, <2>5 DEF Finalized, TurnsInto
  <2> QED
    BY <2>1, <2>2, <2>3, <2>4, <2>5 DEF Finalized
<1>17. CASE UNCHANGED reviewVars
  BY <1>17 DEF reviewVars
<1>18. /\ Silence \in Verdicts /\ ~Silence.json
       /\ \A a \in JudgeAnswers : Spoken(a) \in Verdicts /\ Spoken(a).spoken
  BY DEF Silence, JudgeAnswers, Spoken, Verdicts
<1> QED
  BY <1>1, <1>2, <1>3, <1>4, <1>5, <1>6, <1>7, <1>8, <1>9,
     <1>10, <1>11, <1>12, <1>13, <1>14, <1>15, <1>16, <1>17, <1>18
  DEF ReviewNext

(* No step leaves a process behind its gate. *)
LEMMA ServiceStep ==
    ASSUME JudgedTyped, Placed, NoServiceOutlives, [ReviewNext]_reviewVars
    PROVE  NoServiceOutlives'
<1> USE ReviewAssumption
<1> USE DEF JudgedTyped, Placed, NoServiceOutlives
<1>1. ASSUME NEW passed \in BOOLEAN, NEW authored \in BOOLEAN, RunEnds(passed, authored)
      PROVE  NoServiceOutlives'
  BY <1>1 DEF RunEnds
<1>2. ASSUME NEW asked \in 0..Len(before), ReadOnlyBegins(asked)
      PROVE  NoServiceOutlives'
  BY <1>2 DEF ReadOnlyBegins
<1>3. CASE NoRunToReview
  BY <1>3 DEF NoRunToReview
<1>4. CASE PreFlightPasses
  BY <1>4 DEF PreFlightPasses
<1>5. CASE ExecuteReview
  BY <1>5 DEF ExecuteReview
<1>6. CASE PullRequestBegins
  BY <1>6 DEF PullRequestBegins
<1>7. CASE GateCannotRun
  BY <1>7 DEF GateCannotRun
<1>8. CASE GateStarts
  BY <1>8 DEF GateStarts
<1>9. ASSUME NEW p \in {"service", "stubborn"}, Spawns(p)
      PROVE  NoServiceOutlives'
  BY <1>9 DEF Spawns
<1>10. ASSUME NEW code \in {0, 1, 124}, GateEnds(code)
       PROVE  NoServiceOutlives'
  BY <1>10 DEF GateEnds
<1>11. CASE KillTerm
  BY <1>11 DEF KillTerm, AfterGate
<1>12. CASE KillAll
  BY <1>12 DEF KillAll, AfterGate
<1>13. CASE KillRefused
  BY <1>13 DEF KillRefused, AfterGate
<1>14. ASSUME NEW a \in Verdicts, a.spoken \/ ~a.json, ReviewTurn(a)
       PROVE  NoServiceOutlives'
  BY <1>14 DEF ReviewTurn
<1>15. CASE NoJudge
  BY <1>15 DEF NoJudge
<1>16. CASE FinalizeReadOnly
  BY <1>16, FinalizeCases DEF Finalized, TurnsInto
<1>17. CASE UNCHANGED reviewVars
  BY <1>17 DEF reviewVars
<1>18. /\ Silence \in Verdicts /\ ~Silence.json
       /\ \A a \in JudgeAnswers : Spoken(a) \in Verdicts /\ Spoken(a).spoken
  BY DEF Silence, JudgeAnswers, Spoken, Verdicts
<1> QED
  BY <1>1, <1>2, <1>3, <1>4, <1>5, <1>6, <1>7, <1>8, <1>9,
     <1>10, <1>11, <1>12, <1>13, <1>14, <1>15, <1>16, <1>17, <1>18
  DEF ReviewNext

LEMMA JudgementStep == JudgementInv /\ [ReviewNext]_reviewVars => JudgementInv'
BY JudgedTypedStep, PlacedStep, OutcomeStep, ServiceStep DEF JudgementInv

(* Whatever the reviewer answers, nothing is approved or passed but what its own
   check passed to its end and what the last answer approves with evidence
   (reviewer.py, engine.py). *)
THEOREM OutcomesAreProven == ReviewSpec => []OutcomeIsProven
<1>1. JudgementInv => OutcomeIsProven
  BY DEF JudgementInv
<1> QED
  BY <1>1, JudgementInit, JudgementStep, PTL DEF ReviewSpec

(* No process that a check started runs on after its gate (reviewer.py). *)
THEOREM ChecksLeaveNothing == ReviewSpec => []NoServiceOutlives
<1>1. JudgementInv => NoServiceOutlives
  BY DEF JudgementInv
<1> QED
  BY <1>1, JudgementInit, JudgementStep, PTL DEF ReviewSpec

-----------------------------------------------------------------------------
(* The rounds *)

RoleThreads == [role : Everyone, round : Nat, at : {"begins", "works", "stages"},
                told : 0..NOwners, todo : SUBSET Owners]
RoleEnds == [role : Everyone, round : Nat, ok : BOOLEAN, told : 0..NOwners]

\* From the start of a round until its worker gates what the round made.
InRound == {"graph", "drained", "marked", "succeeded"}

GraphTyped ==
    /\ worker \in [at : InRound \cup {"gate", "stages", "gated", "raised", "over"},
                   cur : Owners, fixing : 0..NOwners, check : Nat]
    /\ rounds \in Nat \ {0} /\ chosen \subseteq Owners /\ merged \subseteq Owners
    /\ progress \in [Everyone -> {"pending", "working", "done", "error"}]
    /\ checks \in [Owners -> Nat] /\ gateDir \in [Owners -> Nat]
    /\ evidence \in 0..NOwners /\ late \in 0..rounds

ThreadsTyped ==
    /\ threads \subseteq RoleThreads /\ turnsOver \subseteq RoleEnds
    /\ \A t \in threads : t.round \in 1..rounds
    /\ \A t \in threads : t.at = "stages" => t.role = TheChecker /\ t.todo # {}
    /\ \A e \in turnsOver : e.round \in 1..rounds

\* A role has one thread in a round, and none once its turn is over.
OneThread ==
    /\ \A t, u \in threads : t.role = u.role /\ t.round = u.round => t = u
    /\ \A t \in threads : Turn(t.role, t.round) = {}

Joined ==
    \A t \in threads :
        t.role = TheChecker /\ t.round = rounds => \A b \in chosen : Turn(b, rounds) # {}

\* A builder's turn of this round is told of the pull request the round repairs.
ToldOfIts ==
    /\ evidence = worker.fixing
    /\ \A t \in threads :
         t.role # TheChecker /\ t.round = rounds /\ t.at = "works" => t.told = evidence
    /\ \A e \in turnsOver : e.role # TheChecker /\ e.round = rounds /\ e.ok => e.told = evidence

\* A role that is recorded as done has done its turn of this round.
EndedWell(r) == \E e \in Turn(r, rounds) : e.ok
RecordIsTrue ==
    /\ late # rounds /\ worker.at \in InRound =>
          \A r \in chosen \cup {TheChecker} : progress[r] = "done" => EndedWell(r)
    /\ worker.at = "marked" =>
          \A r \in chosen \cup {TheChecker} : progress[r] \in {"done", "error"}
    /\ worker.at = "succeeded" /\ late # rounds =>
          \A r \in chosen \cup {TheChecker} : EndedWell(r)

\* What the checker of this round has done, it has done in this round.
Checked(b) == checks[b] = rounds /\ gateDir[b] = rounds
ChecksMade ==
    late # rounds /\ worker.at \in InRound =>
        /\ EndedWell(TheChecker) => \A b \in Owners \ merged : Checked(b)
        /\ \A t \in threads : t.role = TheChecker /\ t.round = rounds /\ t.at # "begins" =>
              \A b \in (Owners \ merged) \ t.todo : Checked(b)

\* A check that is recorded for a pull request still to be gated is in its directory.
Ahead(b) == b > worker.cur \/ (b = worker.cur /\ worker.at = "gate")
ChecksKept ==
    late = 0 => \A b \in Owners : Ahead(b) =>
        /\ checks[b] # 0 => gateDir[b] # 0
        /\ \A t \in threads :
             t.role = TheChecker /\ t.round = rounds /\ t.at # "begins" /\ b \in t.todo =>
                checks[b] = 0

NoneMissed ==
    /\ worker.at = "raised" => late # 0
    /\ worker.at # "over" => \A b \in merged : b < worker.cur
    /\ worker.at = "stages" => worker.check # 0

RoundsInv ==
    /\ GraphTyped /\ ThreadsTyped /\ OneThread /\ Joined /\ ToldOfIts
    /\ RecordIsTrue /\ ChecksMade /\ ChecksKept /\ NoneMissed

(* Where a thread goes: it stays the thread of its role and its round. *)
MovesTo(t, u) ==
    /\ threads' = (threads \ {t}) \cup {u}
    /\ u \in RoleThreads /\ u.role = t.role /\ u.round = t.round

(* A builder goes to work, told of the pull request under repair. *)
LEMMA ThreadPrompted ==
    ASSUME GraphTyped, ThreadsTyped, NEW t \in threads, BuilderPrompted(t)
    PROVE  /\ t.role # TheChecker
           /\ \E u : MovesTo(t, u) /\ u.at = "works" /\ u.told = evidence
           /\ UNCHANGED <<worker, rounds, chosen, progress, turnsOver, checks, gateDir, evidence, merged, late>>
<1> DEFINE u == [t EXCEPT !.at = "works", !.told = evidence]
<1>1. t \in RoleThreads /\ evidence \in 0..NOwners
  BY DEF GraphTyped, ThreadsTyped
<1>2. u \in RoleThreads /\ u.role = t.role /\ u.round = t.round /\ u.at = "works" /\ u.told = evidence
  BY <1>1 DEF RoleThreads
<1>3. threads' = (threads \ {t}) \cup {u}
  BY DEF BuilderPrompted, Becomes, Told
<1> HIDE DEF u
<1> QED
  BY <1>2, <1>3 DEF MovesTo, BuilderPrompted

(* The checker forgets the checks and has every open pull request before it. *)
LEMMA ThreadListed ==
    ASSUME GraphTyped, ThreadsTyped, NEW t \in threads, CheckerLists(t)
    PROVE  /\ t.role = TheChecker
           /\ \E u : MovesTo(t, u) /\ u.at = "works" /\ u.todo = Owners \ merged
           /\ checks' = [b \in Owners |-> 0]
           /\ late' = IF t.round # rounds THEN rounds ELSE late
           /\ UNCHANGED <<worker, rounds, chosen, progress, turnsOver, gateDir, evidence, merged>>
<1> DEFINE u == [t EXCEPT !.at = "works", !.todo = Owners \ merged]
<1>1. t \in RoleThreads
  BY DEF ThreadsTyped
<1>2. u \in RoleThreads /\ u.role = t.role /\ u.round = t.round /\ u.at = "works" /\ u.todo = Owners \ merged
  BY <1>1 DEF RoleThreads
<1>3. threads' = (threads \ {t}) \cup {u}
  BY DEF CheckerLists, Becomes
<1> HIDE DEF u
<1> QED
  BY <1>2, <1>3 DEF MovesTo, CheckerLists, WritesLate

(* One of them loses its gate directory. *)
LEMMA ThreadRemoved ==
    ASSUME GraphTyped, ThreadsTyped, NEW t \in threads, CheckerRemoves(t)
    PROVE  /\ t.role = TheChecker /\ t.at = "works"
           /\ \E u : MovesTo(t, u) /\ u.at = "stages" /\ u.todo = t.todo /\ u.todo # {}
           /\ \E b \in t.todo : b \in Owners /\ gateDir' = [gateDir EXCEPT ![b] = 0]
           /\ late' = IF t.round # rounds THEN rounds ELSE late
           /\ UNCHANGED <<worker, rounds, chosen, progress, turnsOver, checks, evidence, merged>>
<1> DEFINE u == [t EXCEPT !.at = "stages"]
<1>1. t \in RoleThreads
  BY DEF ThreadsTyped
<1>2. u \in RoleThreads /\ u.role = t.role /\ u.round = t.round /\ u.at = "stages" /\ u.todo = t.todo
  BY <1>1 DEF RoleThreads
<1>3. threads' = (threads \ {t}) \cup {u} /\ t.todo # {}
  BY DEF CheckerRemoves, Becomes
<1>4. \E b \in t.todo : b \in Owners /\ gateDir' = [gateDir EXCEPT ![b] = 0]
  <2>1. t.todo \in SUBSET Owners
    BY <1>1 DEF RoleThreads
  <2>2. t.todo \in SUBSET Nat
    BY <2>1, RoleGraphAssumption DEF Owners
  <2>3. Min(t.todo) \in t.todo
    BY <1>3, <2>2, LeastNumber
  <2> QED
    BY <2>1, <2>3 DEF CheckerRemoves
<1> HIDE DEF u
<1> QED
  BY <1>2, <1>3, <1>4 DEF MovesTo, CheckerRemoves, WritesLate

(* And has it again, with the check of the thread's round. *)
LEMMA ThreadStaged ==
    ASSUME GraphTyped, ThreadsTyped, NEW t \in threads, CheckerStages(t)
    PROVE  /\ t.role = TheChecker /\ t.at = "stages"
           /\ \E b \in t.todo :
                /\ b \in Owners
                /\ \E u : MovesTo(t, u) /\ u.at = "works" /\ u.todo = t.todo \ {b}
                /\ gateDir' = [gateDir EXCEPT ![b] = t.round]
                /\ checks' = [checks EXCEPT ![b] = t.round]
           /\ late' = IF t.round # rounds THEN rounds ELSE late
           /\ UNCHANGED <<worker, rounds, chosen, progress, turnsOver, evidence, merged>>
<1> DEFINE b == Min(t.todo)
           u == [t EXCEPT !.at = "works", !.todo = @ \ {b}]
<1>1. t \in RoleThreads /\ t.role = TheChecker /\ t.at = "stages" /\ t.todo # {}
  BY DEF ThreadsTyped, CheckerStages
<1>2. b \in t.todo /\ b \in Owners
  <2>1. t.todo \in SUBSET Owners /\ t.todo \in SUBSET Nat
    BY <1>1, RoleGraphAssumption DEF RoleThreads, Owners
  <2>2. Min(t.todo) \in t.todo
    BY <1>1, <2>1, LeastNumber
  <2> QED
    BY <2>1, <2>2
<1>3. /\ threads' = (threads \ {t}) \cup {u}
      /\ gateDir' = [gateDir EXCEPT ![b] = t.round]
      /\ checks' = [checks EXCEPT ![b] = t.round]
  BY DEF CheckerStages, Becomes
<1> HIDE DEF b
<1>4. u \in RoleThreads /\ u.role = t.role /\ u.round = t.round /\ u.at = "works" /\ u.todo = t.todo \ {b}
  BY <1>1 DEF RoleThreads
<1> HIDE DEF u
<1> QED
  BY <1>1, <1>2, <1>3, <1>4 DEF MovesTo, CheckerStages, WritesLate

(* Every step keeps the types. *)
LEMMA GraphTypedStep ==
    ASSUME GraphTyped, ThreadsTyped, [GraphNext]_graphVars
    PROVE  GraphTyped'
<1> USE RoleGraphAssumption
<1> USE DEF GraphTyped, InRound
<1>1. ASSUME NEW b \in Owners, BuilderStarts(b)
      PROVE  GraphTyped'
  BY <1>1 DEF BuilderStarts, NodeStarts, Thread
<1>2. CASE CheckerNodeStarts
  BY <1>2 DEF CheckerNodeStarts, NodeStarts, Thread
<1>3. CASE GraphEnds
  BY <1>3 DEF GraphEnds
<1>4. CASE GraphGivesUp
  BY <1>4 DEF GraphGivesUp
<1>5. ASSUME NEW t \in threads, BuilderPrompted(t)
      PROVE  GraphTyped'
  BY <1>5, ThreadPrompted
<1>6. ASSUME NEW t \in threads, CheckerLists(t)
      PROVE  GraphTyped'
  BY <1>6, ThreadListed
<1>7. ASSUME NEW t \in threads, CheckerRemoves(t)
      PROVE  GraphTyped'
  BY <1>7, ThreadRemoved
<1>8. ASSUME NEW t \in threads, CheckerStages(t)
      PROVE  GraphTyped'
  <2>1. t.round \in Nat
    BY DEF ThreadsTyped, RoleThreads
  <2> QED
    BY <1>8, <2>1, ThreadStaged
<1>9. ASSUME NEW t \in threads, NEW ok \in BOOLEAN, RoleTurnEnds(t, ok)
      PROVE  GraphTyped'
  <2>1. t.role \in Everyone
    BY DEF ThreadsTyped, RoleThreads
  <2>2. progress' = [progress EXCEPT ![t.role] = IF ok THEN "done" ELSE "error"]
    BY <1>9 DEF RoleTurnEnds
  <2>3. progress' \in [Everyone -> {"pending", "working", "done", "error"}]
    BY <2>1, <2>2
  <2> QED
    BY <1>9, <2>3 DEF RoleTurnEnds, WritesLate
<1>10. CASE WatchdogMarks
  BY <1>10 DEF WatchdogMarks, Wedged
<1>11. CASE RoundJudged
  <2>1. \/ worker' = [worker EXCEPT !.at = "succeeded"] \/ worker' = [worker EXCEPT !.at = "over"]
        \/ worker.cur # NOwners /\ worker' = [worker EXCEPT !.at = "gate", !.cur = @ + 1]
    BY <1>11 DEF RoundJudged, NextPullRequest
  <2>2. worker' \in [at : InRound \cup {"gate", "stages", "gated", "raised", "over"},
                   cur : Owners, fixing : 0..NOwners, check : Nat]
    <3>1. worker.cur # NOwners => worker.cur + 1 \in Owners
      BY DEF Owners
    <3> QED
      BY <2>1, <3>1
  <2> QED
    BY <1>11, <2>2 DEF RoundJudged
<1>12. CASE GateReads
  BY <1>12 DEF GateReads
<1>13. CASE GateStages
  BY <1>13 DEF GateStages
<1>14. ASSUME NEW merges \in BOOLEAN, PullRequestSettles(merges)
      PROVE  GraphTyped'
  <2>1. \/ worker' = [worker EXCEPT !.at = "over"]
        \/ worker.cur # NOwners /\ worker' = [worker EXCEPT !.at = "gate", !.cur = @ + 1]
    BY <1>14 DEF PullRequestSettles, NextPullRequest
  <2>2. worker' \in [at : InRound \cup {"gate", "stages", "gated", "raised", "over"},
                   cur : Owners, fixing : 0..NOwners, check : Nat]
    <3>1. worker.cur # NOwners => worker.cur + 1 \in Owners
      BY DEF Owners
    <3> QED
      BY <2>1, <3>1
  <2> QED
    BY <1>14, <2>2 DEF PullRequestSettles
<1>15. ASSUME NEW answer \in SUBSET Owners, RepairRouted(answer)
      PROVE  GraphTyped'
  <2>1. worker' = [worker EXCEPT !.at = "graph", !.fixing = worker.cur] /\ evidence' = worker.cur
    BY <1>15 DEF RepairRouted
  <2>2. worker' \in [at : InRound \cup {"gate", "stages", "gated", "raised", "over"},
                   cur : Owners, fixing : 0..NOwners, check : Nat]
    <3>1. worker.cur \in 0..NOwners
      BY DEF Owners
    <3> QED
      BY <2>1, <3>1
  <2>3. chosen' \subseteq Owners
    BY <1>15 DEF RepairRouted, RepairAgents
  <2>4. progress' \in [Everyone -> {"pending", "working", "done", "error"}]
    BY <1>15 DEF RepairRouted, RoundBegins
  <2>5. evidence' \in 0..NOwners
    BY <2>1 DEF Owners
  <2> QED
    BY <1>15, <2>2, <2>3, <2>4, <2>5 DEF RepairRouted
<1>16. CASE UNCHANGED graphVars
  BY <1>16 DEF graphVars
<1> QED
  BY <1>1, <1>2, <1>3, <1>4, <1>5, <1>6, <1>7, <1>8, <1>9, <1>10, <1>11, <1>12, <1>13, <1>14, <1>15, <1>16
  DEF GraphNext

(* A node's thread is one of its role and of this round. *)
LEMMA ThreadStarts ==
    ASSUME GraphTyped, ThreadsTyped, NEW r \in Everyone, NodeStarts(r)
    PROVE  ThreadsTyped'
<1>1. Thread(r) \in RoleThreads /\ Thread(r).round = rounds /\ Thread(r).at = "begins"
  BY RoleGraphAssumption DEF Thread, RoleThreads, GraphTyped
<1>2. threads' = threads \cup {Thread(r)} /\ UNCHANGED <<rounds, turnsOver>>
  BY DEF NodeStarts
<1> QED
  BY <1>1, <1>2 DEF ThreadsTyped, GraphTyped

(* Every step keeps the threads and the turns typed. *)
LEMMA ThreadsTypedStep ==
    ASSUME GraphTyped, ThreadsTyped, [GraphNext]_graphVars
    PROVE  ThreadsTyped'
<1> USE RoleGraphAssumption
<1> USE DEF GraphTyped, ThreadsTyped
<1>1. ASSUME NEW b \in Owners, BuilderStarts(b)
      PROVE  ThreadsTyped'
  <2>1. NodeStarts(b) /\ b \in Everyone
    BY <1>1 DEF BuilderStarts, Everyone
  <2> QED
    BY <2>1, ThreadStarts
<1>2. CASE CheckerNodeStarts
  <2>1. NodeStarts(TheChecker) /\ TheChecker \in Everyone
    BY <1>2 DEF CheckerNodeStarts, Everyone
  <2> QED
    BY <2>1, ThreadStarts
<1>3. CASE GraphEnds
  BY <1>3 DEF GraphEnds
<1>4. CASE GraphGivesUp
  BY <1>4 DEF GraphGivesUp
<1>5. ASSUME NEW t \in threads, BuilderPrompted(t)
      PROVE  ThreadsTyped'
  <2>1. PICK u : MovesTo(t, u) /\ u.at = "works" /\ u.told = evidence
    BY <1>5, ThreadPrompted
  <2>2. /\ t.role # TheChecker
        /\ UNCHANGED <<worker, rounds, chosen, progress, turnsOver, checks, gateDir, evidence, merged, late>>
    BY <1>5, ThreadPrompted
  <2> QED
    BY <2>1, <2>2 DEF MovesTo
<1>6. ASSUME NEW t \in threads, CheckerLists(t)
      PROVE  ThreadsTyped'
  <2>1. PICK u : MovesTo(t, u) /\ u.at = "works" /\ u.todo = Owners \ merged
    BY <1>6, ThreadListed
  <2>2. /\ t.role = TheChecker /\ checks' = [b \in Owners |-> 0]
        /\ late' = IF t.round # rounds THEN rounds ELSE late
        /\ UNCHANGED <<worker, rounds, chosen, progress, turnsOver, gateDir, evidence, merged>>
    BY <1>6, ThreadListed
  <2> QED
    BY <2>1, <2>2 DEF MovesTo
<1>7. ASSUME NEW t \in threads, CheckerRemoves(t)
      PROVE  ThreadsTyped'
  <2>1. PICK u : MovesTo(t, u) /\ u.at = "stages" /\ u.todo = t.todo /\ u.todo # {}
    BY <1>7, ThreadRemoved
  <2>2. /\ t.role = TheChecker /\ t.at = "works"
        /\ late' = IF t.round # rounds THEN rounds ELSE late
        /\ UNCHANGED <<worker, rounds, chosen, progress, turnsOver, checks, evidence, merged>>
    BY <1>7, ThreadRemoved
  <2>3. PICK b \in t.todo : b \in Owners /\ gateDir' = [gateDir EXCEPT ![b] = 0]
    BY <1>7, ThreadRemoved
  <2> QED
    BY <2>1, <2>2, <2>3 DEF MovesTo
<1>8. ASSUME NEW t \in threads, CheckerStages(t)
      PROVE  ThreadsTyped'
  <2>1. PICK b \in t.todo :
           /\ b \in Owners
           /\ \E u : MovesTo(t, u) /\ u.at = "works" /\ u.todo = t.todo \ {b}
           /\ gateDir' = [gateDir EXCEPT ![b] = t.round]
           /\ checks' = [checks EXCEPT ![b] = t.round]
    BY <1>8, ThreadStaged
  <2>2. PICK u : MovesTo(t, u) /\ u.at = "works" /\ u.todo = t.todo \ {b}
    BY <2>1
  <2>3. /\ t.role = TheChecker /\ t.at = "stages"
        /\ late' = IF t.round # rounds THEN rounds ELSE late
        /\ UNCHANGED <<worker, rounds, chosen, progress, turnsOver, evidence, merged>>
    BY <1>8, ThreadStaged
  <2> QED
    BY <2>1, <2>2, <2>3 DEF MovesTo
<1>9. ASSUME NEW t \in threads, NEW ok \in BOOLEAN, RoleTurnEnds(t, ok)
      PROVE  ThreadsTyped'
  <2> DEFINE e == [role |-> t.role, round |-> t.round, ok |-> ok, told |-> t.told]
  <2>1. threads' = threads \ {t} /\ turnsOver' = turnsOver \cup {e} /\ rounds' = rounds
    BY <1>9 DEF RoleTurnEnds
  <2>2. e \in RoleEnds /\ e.round \in 1..rounds
    BY DEF RoleEnds, RoleThreads
  <2> HIDE DEF e
  <2> QED
    BY <2>1, <2>2
<1>10. CASE WatchdogMarks
  BY <1>10 DEF WatchdogMarks, Wedged
<1>11. CASE RoundJudged
  BY <1>11 DEF RoundJudged, NextPullRequest
<1>12. CASE GateReads
  BY <1>12 DEF GateReads
<1>13. CASE GateStages
  BY <1>13 DEF GateStages
<1>14. ASSUME NEW merges \in BOOLEAN, PullRequestSettles(merges)
      PROVE  ThreadsTyped'
  BY <1>14 DEF PullRequestSettles, NextPullRequest
<1>15. ASSUME NEW answer \in SUBSET Owners, RepairRouted(answer)
      PROVE  ThreadsTyped'
  BY <1>15 DEF RepairRouted, RepairAgents, RoundBegins
<1>16. CASE UNCHANGED graphVars
  BY <1>16 DEF graphVars
<1> QED
  BY <1>1, <1>2, <1>3, <1>4, <1>5, <1>6, <1>7, <1>8, <1>9, <1>10, <1>11, <1>12, <1>13, <1>14, <1>15, <1>16
  DEF GraphNext

(* A node is started once in a round. *)
LEMMA StartsAlone ==
    ASSUME OneThread, NEW r, NodeStarts(r)
    PROVE  OneThread'
<1>1. Thread(r).role = r /\ Thread(r).round = rounds
  BY DEF Thread
<1>2. threads' = threads \cup {Thread(r)} /\ UNCHANGED <<rounds, turnsOver>> /\ ~HasStarted(r)
  BY DEF NodeStarts
<1> QED
  BY <1>1, <1>2 DEF OneThread, HasStarted, Turn

(* Every step keeps a role to one thread in a round. *)
LEMMA OneThreadStep ==
    ASSUME GraphTyped, ThreadsTyped, OneThread, [GraphNext]_graphVars
    PROVE  OneThread'
<1> USE RoleGraphAssumption
<1> USE DEF ThreadsTyped, RoleThreads, RoleEnds, OneThread, Turn, HasStarted
<1>1. ASSUME NEW b \in Owners, BuilderStarts(b)
      PROVE  OneThread'
  BY <1>1, StartsAlone DEF BuilderStarts
<1>2. CASE CheckerNodeStarts
  BY <1>2, StartsAlone DEF CheckerNodeStarts
<1>3. CASE GraphEnds
  BY <1>3 DEF GraphEnds
<1>4. CASE GraphGivesUp
  BY <1>4 DEF GraphGivesUp
<1>5. ASSUME NEW t \in threads, BuilderPrompted(t)
      PROVE  OneThread'
  <2>1. PICK u : MovesTo(t, u) /\ u.at = "works" /\ u.told = evidence
    BY <1>5, ThreadPrompted
  <2>2. /\ t.role # TheChecker
        /\ UNCHANGED <<worker, rounds, chosen, progress, turnsOver, checks, gateDir, evidence, merged, late>>
    BY <1>5, ThreadPrompted
  <2> QED
    BY <2>1, <2>2 DEF MovesTo
<1>6. ASSUME NEW t \in threads, CheckerLists(t)
      PROVE  OneThread'
  <2>1. PICK u : MovesTo(t, u) /\ u.at = "works" /\ u.todo = Owners \ merged
    BY <1>6, ThreadListed
  <2>2. /\ t.role = TheChecker /\ checks' = [b \in Owners |-> 0]
        /\ late' = IF t.round # rounds THEN rounds ELSE late
        /\ UNCHANGED <<worker, rounds, chosen, progress, turnsOver, gateDir, evidence, merged>>
    BY <1>6, ThreadListed
  <2> QED
    BY <2>1, <2>2 DEF MovesTo
<1>7. ASSUME NEW t \in threads, CheckerRemoves(t)
      PROVE  OneThread'
  <2>1. PICK u : MovesTo(t, u) /\ u.at = "stages" /\ u.todo = t.todo /\ u.todo # {}
    BY <1>7, ThreadRemoved
  <2>2. /\ t.role = TheChecker /\ t.at = "works"
        /\ late' = IF t.round # rounds THEN rounds ELSE late
        /\ UNCHANGED <<worker, rounds, chosen, progress, turnsOver, checks, evidence, merged>>
    BY <1>7, ThreadRemoved
  <2>3. PICK b \in t.todo : b \in Owners /\ gateDir' = [gateDir EXCEPT ![b] = 0]
    BY <1>7, ThreadRemoved
  <2> QED
    BY <2>1, <2>2, <2>3 DEF MovesTo
<1>8. ASSUME NEW t \in threads, CheckerStages(t)
      PROVE  OneThread'
  <2>1. PICK b \in t.todo :
           /\ b \in Owners
           /\ \E u : MovesTo(t, u) /\ u.at = "works" /\ u.todo = t.todo \ {b}
           /\ gateDir' = [gateDir EXCEPT ![b] = t.round]
           /\ checks' = [checks EXCEPT ![b] = t.round]
    BY <1>8, ThreadStaged
  <2>2. PICK u : MovesTo(t, u) /\ u.at = "works" /\ u.todo = t.todo \ {b}
    BY <2>1
  <2>3. /\ t.role = TheChecker /\ t.at = "stages"
        /\ late' = IF t.round # rounds THEN rounds ELSE late
        /\ UNCHANGED <<worker, rounds, chosen, progress, turnsOver, evidence, merged>>
    BY <1>8, ThreadStaged
  <2> QED
    BY <2>1, <2>2, <2>3 DEF MovesTo
<1>9. ASSUME NEW t \in threads, NEW ok \in BOOLEAN, RoleTurnEnds(t, ok)
      PROVE  OneThread'
  BY <1>9 DEF RoleTurnEnds, WritesLate
<1>10. CASE WatchdogMarks
  BY <1>10 DEF WatchdogMarks, Wedged
<1>11. CASE RoundJudged
  BY <1>11 DEF RoundJudged, NextPullRequest
<1>12. CASE GateReads
  BY <1>12 DEF GateReads
<1>13. CASE GateStages
  BY <1>13 DEF GateStages
<1>14. ASSUME NEW merges \in BOOLEAN, PullRequestSettles(merges)
      PROVE  OneThread'
  BY <1>14 DEF PullRequestSettles, NextPullRequest
<1>15. ASSUME NEW answer \in SUBSET Owners, RepairRouted(answer)
      PROVE  OneThread'
  BY <1>15 DEF RepairRouted, RepairAgents, RoundBegins
<1>16. CASE UNCHANGED graphVars
  BY <1>16 DEF graphVars
<1> QED
  BY <1>1, <1>2, <1>3, <1>4, <1>5, <1>6, <1>7, <1>8, <1>9, <1>10, <1>11, <1>12, <1>13, <1>14, <1>15, <1>16
  DEF GraphNext

(* Every step keeps the join before the checker. *)
LEMMA JoinedStep ==
    ASSUME GraphTyped, ThreadsTyped, Joined, [GraphNext]_graphVars
    PROVE  Joined'
<1> USE RoleGraphAssumption
<1> USE DEF GraphTyped, ThreadsTyped, RoleThreads, RoleEnds, Joined, Turn, AllBuildersDone, TheChecker, Owners
<1>1. ASSUME NEW b \in Owners, BuilderStarts(b)
      PROVE  Joined'
  BY <1>1 DEF BuilderStarts, NodeStarts, Thread
<1>2. CASE CheckerNodeStarts
  BY <1>2 DEF CheckerNodeStarts, NodeStarts, Thread
<1>3. CASE GraphEnds
  BY <1>3 DEF GraphEnds
<1>4. CASE GraphGivesUp
  BY <1>4 DEF GraphGivesUp
<1>5. ASSUME NEW t \in threads, BuilderPrompted(t)
      PROVE  Joined'
  <2>1. PICK u : MovesTo(t, u) /\ u.at = "works" /\ u.told = evidence
    BY <1>5, ThreadPrompted
  <2>2. /\ t.role # TheChecker
        /\ UNCHANGED <<worker, rounds, chosen, progress, turnsOver, checks, gateDir, evidence, merged, late>>
    BY <1>5, ThreadPrompted
  <2> QED
    BY <2>1, <2>2 DEF MovesTo
<1>6. ASSUME NEW t \in threads, CheckerLists(t)
      PROVE  Joined'
  <2>1. PICK u : MovesTo(t, u) /\ u.at = "works" /\ u.todo = Owners \ merged
    BY <1>6, ThreadListed
  <2>2. /\ t.role = TheChecker /\ checks' = [b \in Owners |-> 0]
        /\ late' = IF t.round # rounds THEN rounds ELSE late
        /\ UNCHANGED <<worker, rounds, chosen, progress, turnsOver, gateDir, evidence, merged>>
    BY <1>6, ThreadListed
  <2> QED
    BY <2>1, <2>2 DEF MovesTo
<1>7. ASSUME NEW t \in threads, CheckerRemoves(t)
      PROVE  Joined'
  <2>1. PICK u : MovesTo(t, u) /\ u.at = "stages" /\ u.todo = t.todo /\ u.todo # {}
    BY <1>7, ThreadRemoved
  <2>2. /\ t.role = TheChecker /\ t.at = "works"
        /\ late' = IF t.round # rounds THEN rounds ELSE late
        /\ UNCHANGED <<worker, rounds, chosen, progress, turnsOver, checks, evidence, merged>>
    BY <1>7, ThreadRemoved
  <2>3. \A v \in threads' : \E w \in threads : w.role = v.role /\ w.round = v.round
    BY <2>1 DEF MovesTo
  <2>5. ASSUME NEW v \in threads', v.role = TheChecker, v.round = rounds
        PROVE  \A c \in chosen : Turn(c, rounds) # {}
    <3>1. PICK w \in threads : w.role = TheChecker /\ w.round = rounds
      BY <2>3, <2>5
    <3> QED
      BY <3>1
  <2> HIDE DEF ThreadsTyped
  <2> QED
    BY <2>2, <2>5
<1>8. ASSUME NEW t \in threads, CheckerStages(t)
      PROVE  Joined'
  <2>1. PICK b \in t.todo :
           /\ b \in Owners
           /\ \E u : MovesTo(t, u) /\ u.at = "works" /\ u.todo = t.todo \ {b}
           /\ gateDir' = [gateDir EXCEPT ![b] = t.round]
           /\ checks' = [checks EXCEPT ![b] = t.round]
    BY <1>8, ThreadStaged
  <2>2. PICK u : MovesTo(t, u) /\ u.at = "works" /\ u.todo = t.todo \ {b}
    BY <2>1
  <2>3. /\ t.role = TheChecker /\ t.at = "stages"
        /\ late' = IF t.round # rounds THEN rounds ELSE late
        /\ UNCHANGED <<worker, rounds, chosen, progress, turnsOver, evidence, merged>>
    BY <1>8, ThreadStaged
  <2>4. \A v \in threads' : \E w \in threads : w.role = v.role /\ w.round = v.round
    BY <2>2 DEF MovesTo
  <2>5. ASSUME NEW v \in threads', v.role = TheChecker, v.round = rounds
        PROVE  \A c \in chosen : Turn(c, rounds) # {}
    <3>1. PICK w \in threads : w.role = TheChecker /\ w.round = rounds
      BY <2>4, <2>5
    <3> QED
      BY <3>1
  <2> HIDE DEF ThreadsTyped
  <2> QED
    BY <2>3, <2>5
<1>9. ASSUME NEW t \in threads, NEW ok \in BOOLEAN, RoleTurnEnds(t, ok)
      PROVE  Joined'
  BY <1>9 DEF RoleTurnEnds, WritesLate
<1>10. CASE WatchdogMarks
  BY <1>10 DEF WatchdogMarks, Wedged
<1>11. CASE RoundJudged
  BY <1>11 DEF RoundJudged, NextPullRequest
<1>12. CASE GateReads
  BY <1>12 DEF GateReads
<1>13. CASE GateStages
  BY <1>13 DEF GateStages
<1>14. ASSUME NEW merges \in BOOLEAN, PullRequestSettles(merges)
      PROVE  Joined'
  BY <1>14 DEF PullRequestSettles, NextPullRequest
<1>15. ASSUME NEW answer \in SUBSET Owners, RepairRouted(answer)
      PROVE  Joined'
  BY <1>15 DEF RepairRouted, RepairAgents, RoundBegins
<1>16. CASE UNCHANGED graphVars
  BY <1>16 DEF graphVars
<1> QED
  BY <1>1, <1>2, <1>3, <1>4, <1>5, <1>6, <1>7, <1>8, <1>9, <1>10, <1>11, <1>12, <1>13, <1>14, <1>15, <1>16
  DEF GraphNext

(* Every step keeps what the builders are told. *)
LEMMA ToldStep ==
    ASSUME GraphTyped, ThreadsTyped, ToldOfIts, [GraphNext]_graphVars
    PROVE  ToldOfIts'
<1> USE RoleGraphAssumption
<1> USE DEF GraphTyped, ThreadsTyped, RoleThreads, RoleEnds, ToldOfIts
<1>1. ASSUME NEW b \in Owners, BuilderStarts(b)
      PROVE  ToldOfIts'
  BY <1>1 DEF BuilderStarts, NodeStarts, Thread
<1>2. CASE CheckerNodeStarts
  BY <1>2 DEF CheckerNodeStarts, NodeStarts, Thread
<1>3. CASE GraphEnds
  BY <1>3 DEF GraphEnds
<1>4. CASE GraphGivesUp
  BY <1>4 DEF GraphGivesUp
<1>5. ASSUME NEW t \in threads, BuilderPrompted(t)
      PROVE  ToldOfIts'
  BY <1>5 DEF BuilderPrompted, Becomes, Told
<1>6. ASSUME NEW t \in threads, CheckerLists(t)
      PROVE  ToldOfIts'
  BY <1>6 DEF CheckerLists, Becomes, WritesLate
<1>7. ASSUME NEW t \in threads, CheckerRemoves(t)
      PROVE  ToldOfIts'
  BY <1>7 DEF CheckerRemoves, Becomes, WritesLate
<1>8. ASSUME NEW t \in threads, CheckerStages(t)
      PROVE  ToldOfIts'
  BY <1>8 DEF CheckerStages, Becomes, WritesLate
<1>9. ASSUME NEW t \in threads, NEW ok \in BOOLEAN, RoleTurnEnds(t, ok)
      PROVE  ToldOfIts'
  BY <1>9 DEF RoleTurnEnds, WritesLate
<1>10. CASE WatchdogMarks
  BY <1>10 DEF WatchdogMarks, Wedged
<1>11. CASE RoundJudged
  BY <1>11 DEF RoundJudged, NextPullRequest
<1>12. CASE GateReads
  BY <1>12 DEF GateReads
<1>13. CASE GateStages
  BY <1>13 DEF GateStages
<1>14. ASSUME NEW merges \in BOOLEAN, PullRequestSettles(merges)
      PROVE  ToldOfIts'
  BY <1>14 DEF PullRequestSettles, NextPullRequest
<1>15. ASSUME NEW answer \in SUBSET Owners, RepairRouted(answer)
      PROVE  ToldOfIts'
  BY <1>15 DEF RepairRouted, RepairAgents, RoundBegins
<1>16. CASE UNCHANGED graphVars
  BY <1>16 DEF graphVars
<1> QED
  BY <1>1, <1>2, <1>3, <1>4, <1>5, <1>6, <1>7, <1>8, <1>9, <1>10, <1>11, <1>12, <1>13, <1>14, <1>15, <1>16
  DEF GraphNext

(* Every step keeps the record of a round true. *)
LEMMA RecordStep ==
    ASSUME GraphTyped, ThreadsTyped, RecordIsTrue, [GraphNext]_graphVars
    PROVE  RecordIsTrue'
<1> USE RoleGraphAssumption
<1> USE DEF GraphTyped, ThreadsTyped, RoleThreads, RoleEnds, RecordIsTrue, EndedWell, Turn, InRound, TheChecker, Owners, Everyone
<1>1. ASSUME NEW b \in Owners, BuilderStarts(b)
      PROVE  RecordIsTrue'
  BY <1>1 DEF BuilderStarts, NodeStarts, Thread
<1>2. CASE CheckerNodeStarts
  BY <1>2 DEF CheckerNodeStarts, NodeStarts, Thread
<1>3. CASE GraphEnds
  BY <1>3 DEF GraphEnds
<1>4. CASE GraphGivesUp
  BY <1>4 DEF GraphGivesUp
<1>5. ASSUME NEW t \in threads, BuilderPrompted(t)
      PROVE  RecordIsTrue'
  <2>1. PICK u : MovesTo(t, u) /\ u.at = "works" /\ u.told = evidence
    BY <1>5, ThreadPrompted
  <2>2. /\ t.role # TheChecker
        /\ UNCHANGED <<worker, rounds, chosen, progress, turnsOver, checks, gateDir, evidence, merged, late>>
    BY <1>5, ThreadPrompted
  <2> QED
    BY <2>1, <2>2 DEF MovesTo
<1>6. ASSUME NEW t \in threads, CheckerLists(t)
      PROVE  RecordIsTrue'
  <2>1. PICK u : MovesTo(t, u) /\ u.at = "works" /\ u.todo = Owners \ merged
    BY <1>6, ThreadListed
  <2>2. /\ t.role = TheChecker /\ checks' = [b \in Owners |-> 0]
        /\ late' = IF t.round # rounds THEN rounds ELSE late
        /\ UNCHANGED <<worker, rounds, chosen, progress, turnsOver, gateDir, evidence, merged>>
    BY <1>6, ThreadListed
  <2> QED
    BY <2>1, <2>2 DEF MovesTo
<1>7. ASSUME NEW t \in threads, CheckerRemoves(t)
      PROVE  RecordIsTrue'
  <2>1. PICK u : MovesTo(t, u) /\ u.at = "stages" /\ u.todo = t.todo /\ u.todo # {}
    BY <1>7, ThreadRemoved
  <2>2. /\ t.role = TheChecker /\ t.at = "works"
        /\ late' = IF t.round # rounds THEN rounds ELSE late
        /\ UNCHANGED <<worker, rounds, chosen, progress, turnsOver, checks, evidence, merged>>
    BY <1>7, ThreadRemoved
  <2>3. PICK b \in t.todo : b \in Owners /\ gateDir' = [gateDir EXCEPT ![b] = 0]
    BY <1>7, ThreadRemoved
  <2> QED
    BY <2>1, <2>2, <2>3 DEF MovesTo
<1>8. ASSUME NEW t \in threads, CheckerStages(t)
      PROVE  RecordIsTrue'
  <2>1. PICK b \in t.todo :
           /\ b \in Owners
           /\ \E u : MovesTo(t, u) /\ u.at = "works" /\ u.todo = t.todo \ {b}
           /\ gateDir' = [gateDir EXCEPT ![b] = t.round]
           /\ checks' = [checks EXCEPT ![b] = t.round]
    BY <1>8, ThreadStaged
  <2>2. PICK u : MovesTo(t, u) /\ u.at = "works" /\ u.todo = t.todo \ {b}
    BY <2>1
  <2>3. /\ t.role = TheChecker /\ t.at = "stages"
        /\ late' = IF t.round # rounds THEN rounds ELSE late
        /\ UNCHANGED <<worker, rounds, chosen, progress, turnsOver, evidence, merged>>
    BY <1>8, ThreadStaged
  <2> QED
    BY <2>1, <2>2, <2>3 DEF MovesTo
<1>9. ASSUME NEW t \in threads, NEW ok \in BOOLEAN, RoleTurnEnds(t, ok)
      PROVE  RecordIsTrue'
  <2> DEFINE e == [role |-> t.role, round |-> t.round, ok |-> ok, told |-> t.told]
  <2>1. /\ turnsOver' = turnsOver \cup {e} /\ UNCHANGED <<worker, rounds, chosen>>
        /\ progress' = [progress EXCEPT ![t.role] = IF ok THEN "done" ELSE "error"]
        /\ late' = IF t.round # rounds THEN rounds ELSE late
    BY <1>9 DEF RoleTurnEnds, WritesLate
  <2>2. e.role = t.role /\ e.round = t.round /\ e.ok = ok
    OBVIOUS
  <2> HIDE DEF e
  <2>3. \A r : EndedWell(r) => EndedWell(r)'
    BY <2>1
  <2>4. late' # rounds => t.round = rounds /\ late' = late
    BY <2>1
  <2>5. ok /\ t.round = rounds => EndedWell(t.role)'
    BY <2>1, <2>2
  <2>6. \A r \in Everyone \ {t.role} : progress'[r] = progress[r]
    BY <2>1
  <2>7. t.role \in Everyone => progress'[t.role] = IF ok THEN "done" ELSE "error"
    BY <2>1
  <2> HIDE DEF EndedWell, Turn
  <2> QED
    BY <2>1, <2>3, <2>4, <2>5, <2>6, <2>7
<1>10. CASE WatchdogMarks
  BY <1>10 DEF WatchdogMarks, Wedged
<1>11. CASE RoundJudged
  BY <1>11 DEF RoundJudged, NextPullRequest
<1>12. CASE GateReads
  BY <1>12 DEF GateReads
<1>13. CASE GateStages
  BY <1>13 DEF GateStages
<1>14. ASSUME NEW merges \in BOOLEAN, PullRequestSettles(merges)
      PROVE  RecordIsTrue'
  BY <1>14 DEF PullRequestSettles, NextPullRequest
<1>15. ASSUME NEW answer \in SUBSET Owners, RepairRouted(answer)
      PROVE  RecordIsTrue'
  BY <1>15 DEF RepairRouted, RepairAgents, RoundBegins
<1>16. CASE UNCHANGED graphVars
  BY <1>16 DEF graphVars
<1> QED
  BY <1>1, <1>2, <1>3, <1>4, <1>5, <1>6, <1>7, <1>8, <1>9, <1>10, <1>11, <1>12, <1>13, <1>14, <1>15, <1>16
  DEF GraphNext

(* Every step keeps what the checker of the round has done. *)
LEMMA ChecksMadeStep ==
    ASSUME GraphTyped, ThreadsTyped, OneThread, ChecksMade, [GraphNext]_graphVars
    PROVE  ChecksMade'
<1> USE RoleGraphAssumption
<1> USE DEF GraphTyped, ThreadsTyped, RoleThreads, RoleEnds, OneThread, ChecksMade, Checked, EndedWell, Turn, InRound, TheChecker
<1>1. ASSUME NEW b \in Owners, BuilderStarts(b)
      PROVE  ChecksMade'
  BY <1>1 DEF BuilderStarts, NodeStarts, Thread
<1>2. CASE CheckerNodeStarts
  BY <1>2 DEF CheckerNodeStarts, NodeStarts, Thread
<1>3. CASE GraphEnds
  BY <1>3 DEF GraphEnds
<1>4. CASE GraphGivesUp
  BY <1>4 DEF GraphGivesUp
<1>5. ASSUME NEW t \in threads, BuilderPrompted(t)
      PROVE  ChecksMade'
  <2>1. PICK u : MovesTo(t, u) /\ u.at = "works" /\ u.told = evidence
    BY <1>5, ThreadPrompted
  <2>2. /\ t.role # TheChecker
        /\ UNCHANGED <<worker, rounds, chosen, progress, turnsOver, checks, gateDir, evidence, merged, late>>
    BY <1>5, ThreadPrompted
  <2> QED
    BY <2>1, <2>2 DEF MovesTo
<1>6. ASSUME NEW t \in threads, CheckerLists(t)
      PROVE  ChecksMade'
  <2>1. PICK u : MovesTo(t, u) /\ u.at = "works" /\ u.todo = Owners \ merged
    BY <1>6, ThreadListed
  <2>2. /\ t.role = TheChecker /\ checks' = [b \in Owners |-> 0]
        /\ late' = IF t.round # rounds THEN rounds ELSE late
        /\ UNCHANGED <<worker, rounds, chosen, progress, turnsOver, gateDir, evidence, merged>>
    BY <1>6, ThreadListed
  <2> QED
    BY <2>1, <2>2 DEF MovesTo
<1>7. ASSUME NEW t \in threads, CheckerRemoves(t)
      PROVE  ChecksMade'
  <2>1. PICK u : MovesTo(t, u) /\ u.at = "stages" /\ u.todo = t.todo /\ u.todo # {}
    BY <1>7, ThreadRemoved
  <2>2. /\ t.role = TheChecker /\ t.at = "works"
        /\ late' = IF t.round # rounds THEN rounds ELSE late
        /\ UNCHANGED <<worker, rounds, chosen, progress, turnsOver, checks, evidence, merged>>
    BY <1>7, ThreadRemoved
  <2>3. PICK b \in t.todo : b \in Owners /\ gateDir' = [gateDir EXCEPT ![b] = 0]
    BY <1>7, ThreadRemoved
  <2> QED
    BY <2>1, <2>2, <2>3 DEF MovesTo
<1>8. ASSUME NEW t \in threads, CheckerStages(t)
      PROVE  ChecksMade'
  <2>1. PICK b \in t.todo :
           /\ b \in Owners
           /\ \E u : MovesTo(t, u) /\ u.at = "works" /\ u.todo = t.todo \ {b}
           /\ gateDir' = [gateDir EXCEPT ![b] = t.round]
           /\ checks' = [checks EXCEPT ![b] = t.round]
    BY <1>8, ThreadStaged
  <2>2. PICK u : MovesTo(t, u) /\ u.at = "works" /\ u.todo = t.todo \ {b}
    BY <2>1
  <2>3. /\ t.role = TheChecker /\ t.at = "stages"
        /\ late' = IF t.round # rounds THEN rounds ELSE late
        /\ UNCHANGED <<worker, rounds, chosen, progress, turnsOver, evidence, merged>>
    BY <1>8, ThreadStaged
  <2> QED
    BY <2>1, <2>2, <2>3 DEF MovesTo
<1>9. ASSUME NEW t \in threads, NEW ok \in BOOLEAN, RoleTurnEnds(t, ok)
      PROVE  ChecksMade'
  BY <1>9 DEF RoleTurnEnds, WritesLate
<1>10. CASE WatchdogMarks
  BY <1>10 DEF WatchdogMarks, Wedged
<1>11. CASE RoundJudged
  BY <1>11 DEF RoundJudged, NextPullRequest
<1>12. CASE GateReads
  BY <1>12 DEF GateReads
<1>13. CASE GateStages
  BY <1>13 DEF GateStages
<1>14. ASSUME NEW merges \in BOOLEAN, PullRequestSettles(merges)
      PROVE  ChecksMade'
  BY <1>14 DEF PullRequestSettles, NextPullRequest
<1>15. ASSUME NEW answer \in SUBSET Owners, RepairRouted(answer)
      PROVE  ChecksMade'
  BY <1>15 DEF RepairRouted, RepairAgents, RoundBegins
<1>16. CASE UNCHANGED graphVars
  BY <1>16 DEF graphVars
<1> QED
  BY <1>1, <1>2, <1>3, <1>4, <1>5, <1>6, <1>7, <1>8, <1>9, <1>10, <1>11, <1>12, <1>13, <1>14, <1>15, <1>16
  DEF GraphNext

(* No step takes a check away from a pull request still to be gated. *)
LEMMA ChecksKeptStep ==
    ASSUME GraphTyped, ThreadsTyped, OneThread, ChecksKept, [GraphNext]_graphVars
    PROVE  ChecksKept'
<1> USE RoleGraphAssumption
<1> USE DEF GraphTyped, ThreadsTyped, RoleThreads, RoleEnds, OneThread, ChecksKept, Ahead, TheChecker, Owners
<1>1. ASSUME NEW b \in Owners, BuilderStarts(b)
      PROVE  ChecksKept'
  <2>1. Thread(b).role # TheChecker
    BY RoleGraphAssumption DEF Thread
  <2>2. threads' = threads \cup {Thread(b)}
    BY <1>1 DEF BuilderStarts, NodeStarts
  <2>3. UNCHANGED <<worker, rounds, checks, gateDir, late>>
    BY <1>1 DEF BuilderStarts, NodeStarts
  <2> QED
    BY <2>1, <2>2, <2>3
<1>2. CASE CheckerNodeStarts
  BY <1>2 DEF CheckerNodeStarts, NodeStarts, Thread
<1>3. CASE GraphEnds
  BY <1>3 DEF GraphEnds
<1>4. CASE GraphGivesUp
  BY <1>4 DEF GraphGivesUp
<1>5. ASSUME NEW t \in threads, BuilderPrompted(t)
      PROVE  ChecksKept'
  <2>1. PICK u : MovesTo(t, u) /\ u.at = "works" /\ u.told = evidence
    BY <1>5, ThreadPrompted
  <2>2. /\ t.role # TheChecker
        /\ UNCHANGED <<worker, rounds, chosen, progress, turnsOver, checks, gateDir, evidence, merged, late>>
    BY <1>5, ThreadPrompted
  <2> QED
    BY <2>1, <2>2 DEF MovesTo
<1>6. ASSUME NEW t \in threads, CheckerLists(t)
      PROVE  ChecksKept'
  <2>1. PICK u : MovesTo(t, u) /\ u.at = "works" /\ u.todo = Owners \ merged
    BY <1>6, ThreadListed
  <2>2. /\ t.role = TheChecker /\ checks' = [b \in Owners |-> 0]
        /\ late' = IF t.round # rounds THEN rounds ELSE late
        /\ UNCHANGED <<worker, rounds, chosen, progress, turnsOver, gateDir, evidence, merged>>
    BY <1>6, ThreadListed
  <2> QED
    BY <2>1, <2>2 DEF MovesTo
<1>7. ASSUME NEW t \in threads, CheckerRemoves(t)
      PROVE  ChecksKept'
  <2>1. PICK u : MovesTo(t, u) /\ u.at = "stages" /\ u.todo = t.todo /\ u.todo # {}
    BY <1>7, ThreadRemoved
  <2>2. /\ t.role = TheChecker /\ t.at = "works"
        /\ late' = IF t.round # rounds THEN rounds ELSE late
        /\ UNCHANGED <<worker, rounds, chosen, progress, turnsOver, checks, evidence, merged>>
    BY <1>7, ThreadRemoved
  <2>3. PICK b \in t.todo : b \in Owners /\ gateDir' = [gateDir EXCEPT ![b] = 0]
    BY <1>7, ThreadRemoved
  <2>4. SUFFICES ASSUME late' = 0, NEW c \in Owners, Ahead(c)
                 PROVE  /\ checks[c] # 0 => gateDir'[c] # 0
                        /\ \A v \in threads' : v.role = TheChecker /\ v.round = rounds /\ v.at # "begins" /\ c \in v.todo => checks[c] = 0
    BY <2>2
  <2>5. late = 0 /\ t.round = rounds
    BY <2>2, <2>4
  <2>6. c = b => checks[c] = 0
    BY <2>2, <2>3, <2>4, <2>5
  <2>7. checks[c] # 0 => gateDir'[c] # 0
    BY <2>3, <2>4, <2>5, <2>6
  <2>8. ASSUME NEW v \in threads', v.role = TheChecker, v.round = rounds, v.at # "begins", c \in v.todo
        PROVE  checks[c] = 0
    <3>1. \E w \in threads : w.role = TheChecker /\ w.round = rounds /\ w.at # "begins" /\ c \in w.todo
      BY <2>1, <2>2, <2>5, <2>8 DEF MovesTo
    <3> QED
      BY <2>4, <2>5, <3>1
  <2> QED
    BY <2>7, <2>8
<1>8. ASSUME NEW t \in threads, CheckerStages(t)
      PROVE  ChecksKept'
  <2>1. PICK b \in t.todo :
           /\ b \in Owners
           /\ \E u : MovesTo(t, u) /\ u.at = "works" /\ u.todo = t.todo \ {b}
           /\ gateDir' = [gateDir EXCEPT ![b] = t.round]
           /\ checks' = [checks EXCEPT ![b] = t.round]
    BY <1>8, ThreadStaged
  <2>2. PICK u : MovesTo(t, u) /\ u.at = "works" /\ u.todo = t.todo \ {b}
    BY <2>1
  <2>3. /\ t.role = TheChecker /\ t.at = "stages"
        /\ late' = IF t.round # rounds THEN rounds ELSE late
        /\ UNCHANGED <<worker, rounds, chosen, progress, turnsOver, evidence, merged>>
    BY <1>8, ThreadStaged
  <2>4. SUFFICES ASSUME late' = 0, NEW c \in Owners, Ahead(c)
                 PROVE  /\ checks'[c] # 0 => gateDir'[c] # 0
                        /\ \A v \in threads' : v.role = TheChecker /\ v.round = rounds /\ v.at # "begins" /\ c \in v.todo => checks'[c] = 0
    BY <2>3
  <2>5. late = 0 /\ t.round = rounds /\ rounds # 0
    BY <2>3, <2>4
  <2>6. checks'[c] # 0 => gateDir'[c] # 0
    BY <2>1, <2>4, <2>5
  <2>7. ASSUME NEW v \in threads', v.role = TheChecker, v.round = rounds, v.at # "begins", c \in v.todo
        PROVE  checks'[c] = 0
    <3>1. v = u
      <4>1. v \in threads => v = t
        BY <2>3, <2>5, <2>7
      <4>2. v \in (threads \ {t}) \cup {u}
        BY <2>2, <2>7 DEF MovesTo
      <4> QED
        BY <4>1, <4>2
    <3>2. c # b /\ c \in t.todo
      BY <2>2, <2>7, <3>1
    <3> QED
      BY <2>1, <2>3, <2>4, <2>5, <3>2
  <2> QED
    BY <2>6, <2>7
<1>9. ASSUME NEW t \in threads, NEW ok \in BOOLEAN, RoleTurnEnds(t, ok)
      PROVE  ChecksKept'
  BY <1>9 DEF RoleTurnEnds, WritesLate
<1>10. CASE WatchdogMarks
  BY <1>10 DEF WatchdogMarks, Wedged
<1>11. CASE RoundJudged
  BY <1>11 DEF RoundJudged, NextPullRequest
<1>12. CASE GateReads
  BY <1>12 DEF GateReads
<1>13. CASE GateStages
  BY <1>13 DEF GateStages
<1>14. ASSUME NEW merges \in BOOLEAN, PullRequestSettles(merges)
      PROVE  ChecksKept'
  BY <1>14 DEF PullRequestSettles, NextPullRequest
<1>15. ASSUME NEW answer \in SUBSET Owners, RepairRouted(answer)
      PROVE  ChecksKept'
  BY <1>15 DEF RepairRouted, RepairAgents, RoundBegins
<1>16. CASE UNCHANGED graphVars
  BY <1>16 DEF graphVars
<1> QED
  BY <1>1, <1>2, <1>3, <1>4, <1>5, <1>6, <1>7, <1>8, <1>9, <1>10, <1>11, <1>12, <1>13, <1>14, <1>15, <1>16
  DEF GraphNext

(* No step of the worker misses a check. *)
LEMMA NoneMissedStep ==
    ASSUME GraphTyped, ThreadsTyped, RecordIsTrue, ChecksMade, ChecksKept, NoneMissed, [GraphNext]_graphVars
    PROVE  NoneMissed'
<1> USE RoleGraphAssumption
<1> USE DEF GraphTyped, NoneMissed, Owners
<1>1. ASSUME NEW b \in Owners, BuilderStarts(b)
      PROVE  NoneMissed'
  BY <1>1 DEF BuilderStarts, NodeStarts, Thread
<1>2. CASE CheckerNodeStarts
  BY <1>2 DEF CheckerNodeStarts, NodeStarts, Thread
<1>3. CASE GraphEnds
  BY <1>3 DEF GraphEnds
<1>4. CASE GraphGivesUp
  BY <1>4 DEF GraphGivesUp
<1>5. ASSUME NEW t \in threads, BuilderPrompted(t)
      PROVE  NoneMissed'
  BY <1>5 DEF BuilderPrompted, Becomes, Told
<1>6. ASSUME NEW t \in threads, CheckerLists(t)
      PROVE  NoneMissed'
  BY <1>6 DEF CheckerLists, Becomes, WritesLate
<1>7. ASSUME NEW t \in threads, CheckerRemoves(t)
      PROVE  NoneMissed'
  BY <1>7 DEF CheckerRemoves, Becomes, WritesLate
<1>8. ASSUME NEW t \in threads, CheckerStages(t)
      PROVE  NoneMissed'
  BY <1>8 DEF CheckerStages, Becomes, WritesLate
<1>9. ASSUME NEW t \in threads, NEW ok \in BOOLEAN, RoleTurnEnds(t, ok)
      PROVE  NoneMissed'
  BY <1>9 DEF RoleTurnEnds, WritesLate
<1>10. CASE WatchdogMarks
  BY <1>10 DEF WatchdogMarks, Wedged
<1>11. CASE RoundJudged
  BY <1>11 DEF RoundJudged, NextPullRequest
<1>12. CASE GateReads
  <2>1. /\ worker.at \in {"succeeded", "gate"} /\ UNCHANGED <<late, merged>>
        /\ worker' = IF checks[worker.cur] = 0 THEN [worker EXCEPT !.at = "gated", !.check = 0]
                     ELSE IF gateDir[worker.cur] = 0 THEN [worker EXCEPT !.at = "raised"]
                     ELSE [worker EXCEPT !.at = "stages", !.check = gateDir[worker.cur]]
    BY <1>12 DEF GateReads
  <2>2. ASSUME late = 0, checks[worker.cur] # 0
        PROVE  gateDir[worker.cur] # 0
    <3>1. CASE worker.at = "gate"
      BY <2>2, <3>1 DEF ChecksKept, Ahead
    <3>2. CASE worker.at = "succeeded"
      <4>1. EndedWell(TheChecker)
        BY <2>2, <3>2 DEF RecordIsTrue
      <4>2. worker.cur \notin merged
        BY <3>2
      <4> QED
        BY <2>2, <3>2, <4>1, <4>2 DEF ChecksMade, InRound, Checked
    <3> QED
      BY <2>1, <3>1, <3>2
  <2>3. CASE worker' = [worker EXCEPT !.at = "gated", !.check = 0]
    BY <2>1, <2>3
  <2>4. CASE worker' = [worker EXCEPT !.at = "raised"] /\ late # 0
    BY <2>1, <2>4
  <2>5. CASE worker' = [worker EXCEPT !.at = "stages", !.check = gateDir[worker.cur]] /\ gateDir[worker.cur] # 0
    BY <2>1, <2>5
  <2> QED
    BY <2>1, <2>2, <2>3, <2>4, <2>5
<1>13. CASE GateStages
  BY <1>13 DEF GateStages
<1>14. ASSUME NEW merges \in BOOLEAN, PullRequestSettles(merges)
      PROVE  NoneMissed'
  BY <1>14 DEF PullRequestSettles, NextPullRequest
<1>15. ASSUME NEW answer \in SUBSET Owners, RepairRouted(answer)
      PROVE  NoneMissed'
  BY <1>15 DEF RepairRouted, RepairAgents, RoundBegins
<1>16. CASE UNCHANGED graphVars
  BY <1>16 DEF graphVars
<1> QED
  BY <1>1, <1>2, <1>3, <1>4, <1>5, <1>6, <1>7, <1>8, <1>9, <1>10, <1>11, <1>12, <1>13, <1>14, <1>15, <1>16
  DEF GraphNext

(* A run begins so. *)
LEMMA RoundsInit == GraphInit => RoundsInv
<1> USE RoleGraphAssumption DEF GraphInit, RoundBegins, Owners, Everyone, TheChecker
<1>1. GraphInit => GraphTyped /\ ThreadsTyped /\ OneThread /\ Joined
  BY DEF GraphTyped, ThreadsTyped, OneThread, Joined, InRound
<1>2. GraphInit => ToldOfIts /\ ChecksKept /\ NoneMissed
  BY DEF ToldOfIts, ChecksKept, NoneMissed
<1>3. GraphInit => RecordIsTrue /\ ChecksMade
  BY DEF RecordIsTrue, ChecksMade, EndedWell, Turn
<1> QED
  BY <1>1, <1>2, <1>3 DEF RoundsInv

(* Every step keeps the invariant. *)
LEMMA RoundsStep == RoundsInv /\ [GraphNext]_graphVars => RoundsInv'
BY GraphTypedStep, ThreadsTypedStep, OneThreadStep, JoinedStep, ToldStep, RecordStep,
   ChecksMadeStep, ChecksKeptStep, NoneMissedStep
DEF RoundsInv

(* The invariant says that rounds are whole. *)
LEMMA RoundsSuffice == RoundsInv => RoundsAreWhole
<1> SUFFICES ASSUME RoundsInv PROVE RoundsAreWhole
  OBVIOUS
<1> USE DEF RoundsInv
<1>1. ASSUME worker.at = "succeeded", late # rounds
      PROVE  /\ \A r \in chosen \cup {TheChecker} :
                  \E e \in Turn(r, rounds) : e.ok /\ (r # TheChecker => e.told = worker.fixing)
             /\ \A b \in Owners \ merged : checks[b] = rounds
  <2>1. \A r \in chosen \cup {TheChecker} : EndedWell(r)
    BY <1>1 DEF RecordIsTrue
  <2>2. \A r : \A e \in Turn(r, rounds) : e.ok /\ r # TheChecker => e.told = worker.fixing
    BY DEF Turn, ToldOfIts
  <2>3. \A b \in Owners \ merged : checks[b] = rounds
    BY <1>1, <2>1 DEF ChecksMade, Checked, InRound
  <2> QED
    BY <2>1, <2>2, <2>3 DEF EndedWell
<1> QED
  BY <1>1 DEF RoundsAreWhole, Joined, NoneMissed

(* For any number of builders, and whatever the threads of rounds that were given
   up on still do, a round that succeeds is whole (engine.py, role_graph.py). *)
THEOREM RoundsHold == GraphSpec => []RoundsAreWhole
BY RoundsInit, RoundsStep, RoundsSuffice, PTL DEF GraphSpec

-----------------------------------------------------------------------------
(* The trees of a role *)

\* The paths that every station hands on.
HandedOn == WorkPaths \ (PatchExcludes \cup Dropped)
(* They are the sources and the list of tool servers. *)
LEMMA HandedOnIs ==
    HandedOn = {"code", "mcp"} /\ HandedOn \subseteq WorkPaths /\ Dropped = {"built", "venv"}
BY DEF HandedOn, WorkPaths, HarnessFiles, PatchExcludes, Dropped, GitIgnored, ArchiveExcludes

\* A tree that is the repository but for what was written and deleted.
Holds(files, acts) ==
    \A p \in HandedOn :
        /\ acts[p] = "nothing" => files[p] = trackedTree[p]
        /\ acts[p] = "wrote" => files[p] = "role"
        /\ acts[p] = "deleted" => files[p] = "none"

TreesTyped ==
    /\ trackedTree \in FileTrees /\ exchanged \in FileTrees
    /\ runtimeTree \in FileTrees /\ roleDir \in FileTrees
    /\ did \in [WorkPaths -> {"nothing", "wrote", "deleted"}]
    /\ doing \in [WorkPaths -> {"nothing", "wrote", "deleted"}]
    /\ fetched \in BOOLEAN /\ skillsStaged \in BOOLEAN

Carried ==
    /\ step = "preparing" => did = Untouched /\ exchanged = NoFiles /\ trackedTree = NoFiles /\ roleDir = NoFiles
    /\ Holds(exchanged, did)
    /\ step = "working" => /\ Holds(runtimeTree, doing)
                           /\ \A p \in HandedOn : doing[p] = "nothing" => did[p] = "nothing"
    /\ did["code"] = "nothing" => roleDir["code"] = trackedTree["code"]

Compared ==
    step \in {"changed", "inspected"} =>
          /\ changes = Differing(trackedTree, roleDir)
          /\ fetched => \A p \in HandedOn : roleDir[p] = exchanged[p]

(* An archive and a checkout are trees, and hand on what every station hands on. *)
LEMMA Stations ==
    ASSUME NEW files \in FileTrees
    PROVE  /\ \A S : Without(files, S) \in FileTrees
           /\ Archived(files) \in FileTrees /\ CheckedOut(files) \in FileTrees
           /\ \A p \in HandedOn : Archived(files)[p] = files[p] /\ CheckedOut(files)[p] = files[p]
<1>1. ASSUME NEW S
      PROVE  Without(files, S) \in FileTrees /\ \A p \in WorkPaths \ S : Without(files, S)[p] = files[p]
  BY DEF Without, FileTrees
<1>2. HandedOn \subseteq (WorkPaths \ ArchiveExcludes) \cap (WorkPaths \ GitIgnored)
  BY DEF HandedOn, Dropped
<1> QED
  BY <1>1, <1>2 DEF Archived, CheckedOut

(* What a read-back leaves: the object, and of the files before it the harness at most. *)
LEMMA ReadsBack ==
    ASSUME TreesTyped
    PROVE  ReadBack \in FileTrees /\ \A p \in HandedOn : ReadBack[p] = exchanged[p]
<1>1. ClearTransferred(roleDir) \in FileTrees
  BY Stations DEF TreesTyped, ClearTransferred
<1>2. \A p \in HandedOn : ClearTransferred(roleDir)[p] = "none"
  BY HandedOnIs DEF ClearTransferred, Without, Kept
<1>3. ReadBack \in FileTrees
  BY <1>1 DEF TreesTyped, ReadBack, FileTrees
<1>4. \A p \in HandedOn : ReadBack[p] = exchanged[p]
  BY <1>2, HandedOnIs DEF ReadBack
<1> QED
  BY <1>3, <1>4

(* The tree that a command begins with: the object, with the harness laid in it. *)
LEMMA Hydrates ==
    ASSUME TreesTyped, Hydrate
    PROVE  runtimeTree' \in FileTrees /\ \A p \in HandedOn : runtimeTree'[p] = exchanged[p]
<1> DEFINE files == CheckedOut(exchanged)
<1>1. files \in FileTrees /\ \A p \in HandedOn : files[p] = exchanged[p]
  BY Stations DEF TreesTyped
<1>2. runtimeTree' = [files EXCEPT !["steering"] = "harness",
                                  !["skill"] = IF skillsStaged THEN "harness" ELSE @]
  BY DEF Hydrate
<1> HIDE DEF files
<1>3. runtimeTree' \in FileTrees
  BY <1>1, <1>2 DEF FileTrees
<1>4. \A p \in HandedOn : runtimeTree'[p] = files[p]
  BY <1>1, <1>2, HandedOnIs DEF FileTrees
<1> QED
  BY <1>1, <1>3, <1>4

(* The base that is staged. *)
LEMMA Seeds ==
    ASSUME SeedCheckouts
    PROVE  /\ trackedTree' \in FileTrees
           /\ exchanged' = Archived(trackedTree') /\ roleDir' = CheckedOut(trackedTree')
           /\ step = "preparing" /\ step' = "installing"
           /\ UNCHANGED <<runtimeTree, changes, round, skillsStaged, did, doing, fetched>>
<1>1. PICK tracked \in Repositories :
         /\ trackedTree' = [p \in WorkPaths |-> IF p \in tracked THEN "repository" ELSE "none"]
         /\ exchanged' = Archived(trackedTree') /\ roleDir' = CheckedOut(trackedTree')
  BY DEF SeedCheckouts, Extracted
<1>2. trackedTree' \in FileTrees
  BY <1>1 DEF FileTrees
<1> QED
  BY <1>1, <1>2 DEF SeedCheckouts, Extracted

(* Every step keeps the types. *)
LEMMA TreesTypedStep ==
    ASSUME TreesTyped, [WorkTreeNext]_workTreeVars
    PROVE  TreesTyped'
<1> USE DEF TreesTyped
<1>1. CASE SeedCheckouts
  BY <1>1, Seeds, Stations
<1>2. CASE SeedFails
  BY <1>2 DEF SeedFails
<1>3. CASE InstallHarness
  <2>1. PICK got \in Installed : roleDir' = [p \in WorkPaths |-> IF p \in got THEN "harness" ELSE roleDir[p]]
    BY <1>3 DEF InstallHarness
  <2>2. roleDir' \in FileTrees
    BY <2>1 DEF FileTrees
  <2> QED
    BY <1>3, <2>2 DEF InstallHarness, SkillsUploaded
<1>4. CASE Hydrate
  BY <1>4, Hydrates DEF Hydrate
<1>5. ASSUME NEW p \in WorkPaths, NEW how \in {"wrote", "deleted"}, Touches(p, how)
      PROVE  TreesTyped'
  <2>1. runtimeTree' \in FileTrees /\ doing' \in [WorkPaths -> {"nothing", "wrote", "deleted"}]
    BY <1>5 DEF Touches, FileTrees
  <2> QED
    BY <1>5, <2>1 DEF Touches
<1>6. CASE PackAndUpload
  <2>1. NoFiles \in FileTrees
    BY DEF NoFiles, FileTrees
  <2>2. exchanged' \in FileTrees
    BY <1>6, Stations DEF PackAndUpload
  <2> QED
    BY <1>6, <2>1, <2>2 DEF PackAndUpload
<1>7. CASE CommandLost
  <2>1. NoFiles \in FileTrees
    BY DEF NoFiles, FileTrees
  <2> QED
    BY <1>7, <2>1 DEF CommandLost
<1>8. CASE RequireItemChange
  <2>1. ReadBack \in FileTrees
    BY ReadsBack
  <2> QED
    BY <1>8, <2>1 DEF RequireItemChange
<1>9. CASE StageForChecker
  BY <1>9 DEF StageForChecker
<1>10. CASE RepairStarts
  BY <1>10 DEF RepairStarts
<1>11. CASE UNCHANGED workTreeVars
  BY <1>11 DEF workTreeVars
<1> QED
  BY <1>1, <1>2, <1>3, <1>4, <1>5, <1>6, <1>7, <1>8, <1>9, <1>10, <1>11
  DEF WorkTreeNext

(* What the object holds is what the role did, at every station. *)
LEMMA CarriedStep ==
    ASSUME TreesTyped, Carried, [WorkTreeNext]_workTreeVars
    PROVE  Carried'
<1> USE DEF Carried
<1>1. CASE SeedCheckouts
  <2>1. trackedTree' \in FileTrees /\ exchanged' = Archived(trackedTree') /\ roleDir' = CheckedOut(trackedTree')
    BY <1>1, Seeds
  <2>2. \A p \in HandedOn : exchanged'[p] = trackedTree'[p] /\ roleDir'[p] = trackedTree'[p]
    BY <2>1, Stations
  <2>3. \A p \in HandedOn : did[p] = "nothing"
    BY <1>1, HandedOnIs DEF SeedCheckouts, Extracted, Untouched
  <2>4. did' = did /\ step' = "installing"
    BY <1>1 DEF SeedCheckouts, Extracted
  <2> QED
    BY <2>2, <2>3, <2>4, HandedOnIs DEF Holds
<1>2. CASE SeedFails
  BY <1>2 DEF SeedFails, Holds
<1>3. CASE InstallHarness
  <2>1. PICK got \in Installed : roleDir' = [p \in WorkPaths |-> IF p \in got THEN "harness" ELSE roleDir[p]]
    BY <1>3 DEF InstallHarness
  <2>2. roleDir'["code"] = roleDir["code"]
    BY <2>1, HandedOnIs DEF Installed, HarnessFiles
  <2> QED
    BY <1>3, <2>2 DEF InstallHarness, Holds
<1>4. CASE Hydrate
  <2>1. \A p \in HandedOn : runtimeTree'[p] = exchanged[p]
    BY <1>4, Hydrates
  <2>2. doing' = did /\ UNCHANGED <<trackedTree, exchanged, roleDir, did>> /\ step' = "working"
    BY <1>4 DEF Hydrate
  <2> QED
    BY <2>1, <2>2 DEF Holds
<1>5. ASSUME NEW p \in WorkPaths, NEW how \in {"wrote", "deleted"}, Touches(p, how)
      PROVE  Carried'
  <2>1. /\ runtimeTree' = [runtimeTree EXCEPT ![p] = IF how = "wrote" THEN "role" ELSE "none"]
        /\ doing' = [doing EXCEPT ![p] = how]
        /\ step = "working" /\ UNCHANGED <<trackedTree, exchanged, roleDir, step, did>>
    BY <1>5 DEF Touches
  <2>2. /\ runtimeTree'[p] = IF how = "wrote" THEN "role" ELSE "none"
        /\ doing'[p] = how
        /\ \A q \in HandedOn \ {p} : runtimeTree'[q] = runtimeTree[q] /\ doing'[q] = doing[q]
    BY <2>1, HandedOnIs DEF TreesTyped, FileTrees
  <2>3. Holds(runtimeTree', doing')
    BY <2>1, <2>2 DEF Holds
  <2>4. \A q \in HandedOn : doing'[q] = "nothing" => did[q] = "nothing"
    BY <2>1, <2>2
  <2> QED
    BY <2>1, <2>3, <2>4 DEF Holds
<1>6. CASE PackAndUpload
  <2>1. /\ exchanged' = Archived(runtimeTree) /\ did' = doing /\ step = "working"
        /\ UNCHANGED <<trackedTree, roleDir>> /\ step' \in {"reading", "ready", "over"}
    BY <1>6 DEF PackAndUpload
  <2>2. \A p \in HandedOn : exchanged'[p] = runtimeTree[p]
    BY <2>1, Stations DEF TreesTyped
  <2>3. Holds(exchanged, did)'
    BY <2>1, <2>2 DEF Holds
  <2>4. doing["code"] = "nothing" => did["code"] = "nothing"
    BY <2>1, HandedOnIs
  <2> QED
    BY <2>1, <2>3, <2>4
<1>7. CASE CommandLost
  BY <1>7 DEF CommandLost, Holds
<1>8. CASE RequireItemChange
  <2>1. /\ roleDir' = (IF fetched' THEN ReadBack ELSE roleDir)
        /\ UNCHANGED <<trackedTree, exchanged, did>> /\ step' \in {"over", "changed"}
    BY <1>8 DEF RequireItemChange
  <2>2. did["code"] = "nothing" => ReadBack["code"] = trackedTree["code"]
    BY ReadsBack, HandedOnIs DEF Holds
  <2> QED
    BY <2>1, <2>2 DEF Holds
<1>9. CASE StageForChecker
  BY <1>9 DEF StageForChecker, Holds
<1>10. CASE RepairStarts
  BY <1>10 DEF RepairStarts, Holds
<1>11. CASE UNCHANGED workTreeVars
  BY <1>11 DEF workTreeVars, Holds
<1> QED
  BY <1>1, <1>2, <1>3, <1>4, <1>5, <1>6, <1>7, <1>8, <1>9, <1>10, <1>11
  DEF WorkTreeNext

(* The patch is the difference at which it was judged. *)
LEMMA ComparedStep ==
    ASSUME TreesTyped, Compared, [WorkTreeNext]_workTreeVars
    PROVE  Compared'
<1> USE DEF Compared
<1>1. CASE SeedCheckouts
  BY <1>1 DEF SeedCheckouts, Extracted
<1>2. CASE SeedFails
  BY <1>2 DEF SeedFails
<1>3. CASE InstallHarness
  BY <1>3 DEF InstallHarness, Installed, SkillsUploaded
<1>4. CASE Hydrate
  BY <1>4 DEF Hydrate
<1>5. ASSUME NEW p \in WorkPaths, NEW how \in {"wrote", "deleted"}, Touches(p, how)
      PROVE  Compared'
  BY <1>5 DEF Touches
<1>6. CASE PackAndUpload
  BY <1>6 DEF PackAndUpload
<1>7. CASE CommandLost
  BY <1>7 DEF CommandLost
<1>8. CASE RequireItemChange
  <2>1. /\ roleDir' = IF fetched' THEN ReadBack ELSE roleDir
        /\ changes' = Differing(trackedTree, roleDir') /\ UNCHANGED <<trackedTree, exchanged>>
    BY <1>8 DEF RequireItemChange
  <2>2. fetched' => \A p \in HandedOn : roleDir'[p] = exchanged'[p]
    BY <2>1, ReadsBack
  <2> QED
    BY <2>1, <2>2 DEF Differing
<1>9. CASE StageForChecker
  BY <1>9 DEF StageForChecker, Differing
<1>10. CASE RepairStarts
  BY <1>10 DEF RepairStarts
<1>11. CASE UNCHANGED workTreeVars
  BY <1>11 DEF workTreeVars, Differing
<1> QED
  BY <1>1, <1>2, <1>3, <1>4, <1>5, <1>6, <1>7, <1>8, <1>9, <1>10, <1>11
  DEF WorkTreeNext

TreesInv == TreesTyped /\ Carried /\ Compared

(* A tree begins so. *)
LEMMA TreesInit == WorkTreeInit => TreesInv
<1> SUFFICES ASSUME WorkTreeInit PROVE TreesInv
  OBVIOUS
<1>1. NoFiles \in FileTrees /\ Untouched \in [WorkPaths -> {"nothing", "wrote", "deleted"}]
  BY DEF NoFiles, FileTrees, Untouched
<1>2. TreesTyped /\ Compared
  BY <1>1 DEF WorkTreeInit, TreesTyped, Compared
<1>3. Holds(NoFiles, Untouched)
  BY HandedOnIs DEF Holds, NoFiles, Untouched, WorkTreeInit
<1>4. Carried
  BY <1>3, HandedOnIs DEF WorkTreeInit, Carried, Untouched
<1> QED
  BY <1>2, <1>4 DEF TreesInv

(* Every step keeps the invariant. *)
LEMMA TreesStep == TreesInv /\ [WorkTreeNext]_workTreeVars => TreesInv'
BY TreesTypedStep, CarriedStep, ComparedStep DEF TreesInv

(* The invariant says that trees are carried. *)
LEMMA TreesSuffice == TreesInv => TreesAreCarried
<1> SUFFICES ASSUME TreesInv PROVE TreesAreCarried
  OBVIOUS
<1> USE DEF TreesInv
<1>1. PatchIsOwn
  <2> SUFFICES ASSUME Judged, NEW p \in changes \ Dropped
               PROVE  did[p] # "nothing" \/ (p = "mcp" /\ ~fetched)
    BY DEF PatchIsOwn
  <2>1. p \in HandedOn /\ trackedTree[p] # roleDir[p]
    BY DEF Judged, Compared, Differing, HandedOn
  <2>2. CASE fetched
    BY <2>1, <2>2 DEF Judged, Compared, Carried, Holds
  <2>3. CASE ~fetched
    BY <2>1, <2>3, HandedOnIs DEF Carried
  <2> QED
    BY <2>2, <2>3
<1>2. WorkArrives
  <2> SUFFICES ASSUME Judged, fetched, NEW p \in HandedOn
               PROVE  /\ did[p] = "wrote" => Merged[p] = "role"
                      /\ did[p] = "deleted" => Merged[p] = "none"
    BY DEF WorkArrives, HandedOn
  <2>1. roleDir[p] = exchanged[p] /\ p \in WorkPaths /\ p \notin PatchExcludes
    BY DEF Judged, Compared, HandedOn
  <2>2. Merged[p] = roleDir[p]
    BY <2>1 DEF Merged, Without, Judged, Compared, Differing
  <2> QED
    BY <2>1, <2>2 DEF Carried, Holds
<1>3. CheckerSeesGated
  <2> SUFFICES ASSUME step = "inspected", NEW p \in WorkPaths \ Dropped
               PROVE  Inspected[p] = Merged[p]
    BY DEF CheckerSeesGated
  <2>1. p \notin GitIgnored /\ (p \in ArchiveExcludes => p \in PatchExcludes)
    BY HandedOnIs DEF Dropped, GitIgnored, PatchExcludes
  <2>2. p \in PatchExcludes => Merged[p] = "none"
    BY DEF Merged, Without, Compared, Differing
  <2>3. Inspected[p] = IF p \in ArchiveExcludes THEN "none" ELSE Merged[p]
    BY <2>1 DEF Inspected, CheckedOut, Archived, Without
  <2> QED
    BY <2>1, <2>2, <2>3
<1> QED
  BY <1>1, <1>2, <1>3 DEF TreesAreCarried

(* The pull request of a role is what the role did, and the checker sees what is
   gated, whatever the default branch tracks, the role touches and the network
   loses, over any number of repairs (engine.py, runtime_stage.py). *)
THEOREM TreesHold == WorkTreeSpec => []TreesAreCarried
BY TreesInit, TreesStep, TreesSuffice, PTL DEF WorkTreeSpec
=============================================================================
