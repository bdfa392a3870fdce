------------------------- MODULE RunLifecycleProofs -------------------------
(***************************************************************************)
(* Theorems about RunLifecycle, for any number of runs, repairs and        *)
(* iterations, and any faults.                                             *)
(***************************************************************************)
EXTENDS RunLifecycle, FiniteSetTheorems, TLAPS

USE DEF Active, Terminal, Places, AtWork, Permanent, Transient, Goes, Writes,
        Threads, Quiet

(* Every step keeps the types; rounds are spent one at a time. *)
Typed ==
    /\ TypeOK
    /\ \A r \in Runs :
          /\ spent[r] <= repaired[r] + 1
          /\ at[r] \in {"round", "working"} => spent[r] <= repaired[r]
          /\ at[r] \in {"unsubmitted", "admission", "hydration", "preflight"} =>
                spent[r] = 0 /\ repaired[r] = 0

LEMMA TypedStep ==
    ASSUME Typed, [Next]_vars
    PROVE  Typed'
<1>1. ASSUME NEW r \in Runs,
             Submit(r) \/ Worker(r) \/ Hangs(r) \/ Heartbeat(r) \/ Sweeper(r) \/ Age(r)
      PROVE  Typed'
  <2> USE RunLifecycleAssumption DEF Typed, TypeOK
  <2>1. CASE Submit(r)
    BY <2>1 DEF Submit, Save
  <2>2. CASE Rejected(r)
    BY <2>2 DEF Rejected
  <2>3. CASE LimitHit(r)
    BY <2>3 DEF LimitHit
  <2>4. CASE Admitted(r)
    BY <2>4 DEF Admitted
  <2>5. CASE Hydrated(r)
    BY <2>5 DEF Hydrated
  <2>6. CASE NotReady(r)
    BY <2>6 DEF NotReady
  <2>7. CASE Ready(r)
    BY <2>7 DEF Ready
  <2>8. CASE RoundStarts(r)
    BY <2>8 DEF RoundStarts
  <2>9. CASE RoundSucceeds(r)
    BY <2>9 DEF RoundSucceeds, TimePasses
  <2>10. CASE FirstRoundFails(r)
    BY <2>10 DEF FirstRoundFails, TimePasses
  <2>11. CASE RepairFails(r)
    BY <2>11 DEF RepairFails, TimePasses
  <2>12. CASE Repair(r)
    BY <2>12 DEF Repair
  <2>13. CASE Settle(r)
    BY <2>13 DEF Settle
  <2>14. CASE Raises(r)
    BY <2>14 DEF Raises
  <2>15. CASE Grade(r)
    BY <2>15 DEF Grade
  <2>16. CASE Persist(r)
    BY <2>16 DEF Persist, Save
  <2>17. CASE Hangs(r)
    BY <2>17 DEF Hangs
  <2>18. CASE BeatReads(r)
    BY <2>18 DEF BeatReads
  <2>19. CASE BeatSaves(r)
    BY <2>19 DEF BeatSaves, Save
  <2>20. CASE SweepFinds(r)
    BY <2>20 DEF SweepFinds
  <2>21. CASE SweepWrites(r)
    BY <2>21 DEF SweepWrites
  <2>22. CASE Age(r)
    BY <2>22 DEF Age
  <2> QED
    BY <1>1, <2>1, <2>2, <2>3, <2>4, <2>5, <2>6, <2>7, <2>8, <2>9, <2>10,
       <2>11, <2>12, <2>13, <2>14, <2>15, <2>16, <2>17, <2>18, <2>19, <2>20,
       <2>21, <2>22
    DEF Worker, Heartbeat, Sweeper
<1>2. CASE Recycle
  BY <1>2 DEF Recycle, Typed, TypeOK
<1>3. CASE UNCHANGED vars
  BY <1>3 DEF vars, Typed, TypeOK
<1> QED
  BY <1>1, <1>2, <1>3 DEF Next

(* What the verdict rests on: a run's worker writes none while it is settled. *)
Verdicts ==
    /\ Typed
    /\ \A r \in Runs :
          /\ at[r] \in {"grading", "persisting", "gone"} => status[r] \in Terminal
          /\ at[r] \in {"persisting", "gone"} /\ status[r] = "failed" =>
                reason[r] \in Permanent

(* Every step keeps them. *)
LEMMA VerdictsStep ==
    ASSUME Verdicts, [Next]_vars
    PROVE  Verdicts'
<1> Typed'
  BY TypedStep DEF Verdicts
<1>1. ASSUME NEW r \in Runs,
             Submit(r) \/ Worker(r) \/ Hangs(r) \/ Heartbeat(r) \/ Sweeper(r) \/ Age(r)
      PROVE  Verdicts'
  <2> USE RunLifecycleAssumption DEF Verdicts, Typed, TypeOK
  <2>1. CASE Submit(r)
    BY <2>1 DEF Submit, Save
  <2>2. CASE Rejected(r)
    BY <2>2 DEF Rejected
  <2>3. CASE LimitHit(r)
    BY <2>3 DEF LimitHit
  <2>4. CASE Admitted(r)
    BY <2>4 DEF Admitted
  <2>5. CASE Hydrated(r)
    BY <2>5 DEF Hydrated
  <2>6. CASE NotReady(r)
    BY <2>6 DEF NotReady
  <2>7. CASE Ready(r)
    BY <2>7 DEF Ready
  <2>8. CASE RoundStarts(r)
    BY <2>8 DEF RoundStarts
  <2>9. CASE RoundSucceeds(r)
    BY <2>9 DEF RoundSucceeds, TimePasses
  <2>10. CASE FirstRoundFails(r)
    BY <2>10 DEF FirstRoundFails, TimePasses
  <2>11. CASE RepairFails(r)
    BY <2>11 DEF RepairFails, TimePasses
  <2>12. CASE Repair(r)
    BY <2>12 DEF Repair
  <2>13. CASE Settle(r)
    BY <2>13 DEF Settle
  <2>14. CASE Raises(r)
    BY <2>14 DEF Raises
  <2>15. CASE Grade(r)
    BY <2>15 DEF Grade
  <2>16. CASE Persist(r)
    BY <2>16 DEF Persist, Save
  <2>17. CASE Hangs(r)
    BY <2>17 DEF Hangs
  <2>18. CASE BeatReads(r)
    BY <2>18 DEF BeatReads
  <2>19. CASE BeatSaves(r)
    BY <2>19 DEF BeatSaves, Save
  <2>20. CASE SweepFinds(r)
    BY <2>20 DEF SweepFinds
  <2>21. CASE SweepWrites(r)
    BY <2>21 DEF SweepWrites
  <2>22. CASE Age(r)
    BY <2>22 DEF Age
  <2> QED
    BY <1>1, <2>1, <2>2, <2>3, <2>4, <2>5, <2>6, <2>7, <2>8, <2>9, <2>10,
       <2>11, <2>12, <2>13, <2>14, <2>15, <2>16, <2>17, <2>18, <2>19, <2>20,
       <2>21, <2>22
    DEF Worker, Heartbeat, Sweeper
<1>2. CASE Recycle
  BY <1>2 DEF Recycle, Verdicts, Typed, TypeOK
<1>3. CASE UNCHANGED vars
  BY <1>3 DEF vars, Verdicts, Typed, TypeOK
<1> QED
  BY <1>1, <1>2, <1>3 DEF Next

(* What the saved state rests on: a run that is worked at and has not lapsed has
   an active status and a heartbeat, so its saved state is fresh. *)
Alive ==
    /\ Typed
    /\ \A r \in Runs :
          /\ up /\ at[r] \in AtWork \cup {"admission"} /\ r \notin lapsed =>
                status[r] \in Active /\ beat[r] # "gone" /\ r \notin stale
          /\ at[r] = "unsubmitted" =>
                status[r] = "queued" /\ beat[r] = "gone" /\ disk[r] = "none"
                  /\ r \notin stale
          /\ r \in found => at[r] \notin {"unsubmitted", "admission"}

(* Every step keeps it. *)
LEMMA AliveStep ==
    ASSUME Alive, [Next]_vars
    PROVE  Alive'
<1> Typed'
  BY TypedStep DEF Alive
<1>1. ASSUME NEW r \in Runs,
             Submit(r) \/ Worker(r) \/ Hangs(r) \/ Heartbeat(r) \/ Sweeper(r) \/ Age(r)
      PROVE  Alive'
  <2> USE RunLifecycleAssumption DEF Alive, Typed, TypeOK
  <2>1. CASE Submit(r)
    BY <2>1 DEF Submit, Save
  <2>2. CASE Rejected(r)
    BY <2>2 DEF Rejected
  <2>3. CASE LimitHit(r)
    BY <2>3 DEF LimitHit
  <2>4. CASE Admitted(r)
    BY <2>4 DEF Admitted
  <2>5. CASE Hydrated(r)
    BY <2>5 DEF Hydrated
  <2>6. CASE NotReady(r)
    BY <2>6 DEF NotReady
  <2>7. CASE Ready(r)
    BY <2>7 DEF Ready
  <2>8. CASE RoundStarts(r)
    BY <2>8 DEF RoundStarts
  <2>9. CASE RoundSucceeds(r)
    BY <2>9 DEF RoundSucceeds, TimePasses
  <2>10. CASE FirstRoundFails(r)
    BY <2>10 DEF FirstRoundFails, TimePasses
  <2>11. CASE RepairFails(r)
    BY <2>11 DEF RepairFails, TimePasses
  <2>12. CASE Repair(r)
    BY <2>12 DEF Repair
  <2>13. CASE Settle(r)
    BY <2>13 DEF Settle
  <2>14. CASE Raises(r)
    BY <2>14 DEF Raises
  <2>15. CASE Grade(r)
    BY <2>15 DEF Grade
  <2>16. CASE Persist(r)
    BY <2>16 DEF Persist, Save
  <2>17. CASE Hangs(r)
    BY <2>17 DEF Hangs
  <2>18. CASE BeatReads(r)
    BY <2>18 DEF BeatReads
  <2>19. CASE BeatSaves(r)
    BY <2>19 DEF BeatSaves, Save
  <2>20. CASE SweepFinds(r)
    BY <2>20 DEF SweepFinds, Overdue
  <2>21. CASE SweepWrites(r)
    BY <2>21 DEF SweepWrites
  <2>22. CASE Age(r)
    BY <2>22 DEF Age
  <2> QED
    BY <1>1, <2>1, <2>2, <2>3, <2>4, <2>5, <2>6, <2>7, <2>8, <2>9, <2>10,
       <2>11, <2>12, <2>13, <2>14, <2>15, <2>16, <2>17, <2>18, <2>19, <2>20,
       <2>21, <2>22
    DEF Worker, Heartbeat, Sweeper
<1>2. CASE Recycle
  BY <1>2 DEF Recycle, Alive, Typed, TypeOK
<1>3. CASE UNCHANGED vars
  BY <1>3 DEF vars, Alive, Typed, TypeOK
<1> QED
  BY <1>1, <1>2, <1>3 DEF Next

(* The three hold throughout every session. *)
LEMMA Invariant == Spec => [](Verdicts /\ Alive)
<1>1. Init => Verdicts /\ Alive
  BY RunLifecycleAssumption DEF Init, Verdicts, Alive, Typed, TypeOK
<1>2. Verdicts /\ Alive /\ [Next]_vars => Verdicts' /\ Alive'
  BY VerdictsStep, AliveStep
<1> QED
  BY <1>1, <1>2, PTL DEF Spec

(* Every variable keeps its type; in particular no run takes more rounds than one
   for each pull request after the first. *)
THEOREM TypeCorrect == Spec => []TypeOK
BY Invariant, PTL DEF Verdicts, Typed

(* A run that ends "failed" failed for good, with any number of runs and repairs
   and any faults (_drive, _is_permanent). *)
THEOREM FailedForGood == Spec => []FailedIsPermanent
<1>1. Verdicts => FailedIsPermanent
  BY DEF Verdicts, FailedIsPermanent
<1> QED
  BY <1>1, Invariant, PTL

(* The saved state of a run that is worked at goes stale only after its status
   has called it over (_heartbeat, active_snapshot_is_stale). *)
THEOREM InterruptedDead == Spec => []InterruptedIsDead
<1>1. Alive => InterruptedIsDead
  BY DEF Alive, InterruptedIsDead, Working
<1> QED
  BY <1>1, Invariant, PTL

(* A settled verdict is final, whatever the sweeper found before
   (transition, _drive). *)
THEOREM VerdictFinal == Spec => VerdictIsFinal
<1>1. ASSUME Verdicts, [Next]_vars, NEW q \in Runs, at[q] \in {"persisting", "gone"}
      PROVE  status'[q] = status[q] /\ reason'[q] = reason[q]
  <2> USE <1>1, RunLifecycleAssumption DEF Verdicts, Typed, TypeOK
  <2> SUFFICES ASSUME NEW r \in Runs,
                      Submit(r) \/ Worker(r) \/ Hangs(r) \/ Heartbeat(r) \/ Sweeper(r)
                        \/ Age(r)
               PROVE  status'[q] = status[q] /\ reason'[q] = reason[q]
    BY DEF Next, Recycle, vars
  <2>1. CASE Submit(r)
    BY <2>1 DEF Submit, Save
  <2>2. CASE Rejected(r)
    BY <2>2 DEF Rejected
  <2>3. CASE LimitHit(r)
    BY <2>3 DEF LimitHit
  <2>4. CASE Admitted(r)
    BY <2>4 DEF Admitted
  <2>5. CASE Hydrated(r)
    BY <2>5 DEF Hydrated
  <2>6. CASE NotReady(r)
    BY <2>6 DEF NotReady
  <2>7. CASE Ready(r)
    BY <2>7 DEF Ready
  <2>8. CASE RoundStarts(r)
    BY <2>8 DEF RoundStarts
  <2>9. CASE RoundSucceeds(r)
    BY <2>9 DEF RoundSucceeds, TimePasses
  <2>10. CASE FirstRoundFails(r)
    BY <2>10 DEF FirstRoundFails, TimePasses
  <2>11. CASE RepairFails(r)
    BY <2>11 DEF RepairFails, TimePasses
  <2>12. CASE Repair(r)
    BY <2>12 DEF Repair
  <2>13. CASE Settle(r)
    BY <2>13 DEF Settle
  <2>14. CASE Raises(r)
    BY <2>14 DEF Raises
  <2>15. CASE Grade(r)
    BY <2>15 DEF Grade
  <2>16. CASE Persist(r)
    BY <2>16 DEF Persist, Save
  <2>17. CASE Hangs(r)
    BY <2>17 DEF Hangs
  <2>18. CASE BeatReads(r)
    BY <2>18 DEF BeatReads
  <2>19. CASE BeatSaves(r)
    BY <2>19 DEF BeatSaves, Save
  <2>20. CASE SweepFinds(r)
    BY <2>20 DEF SweepFinds
  <2>21. CASE SweepWrites(r)
    BY <2>21 DEF SweepWrites
  <2>22. CASE Age(r)
    BY <2>22 DEF Age
  <2> QED
    BY <2>1, <2>2, <2>3, <2>4, <2>5, <2>6, <2>7, <2>8, <2>9, <2>10, <2>11,
       <2>12, <2>13, <2>14, <2>15, <2>16, <2>17, <2>18, <2>19, <2>20, <2>21,
       <2>22
    DEF Worker, Heartbeat, Sweeper
<1>2. Verdicts /\ [Next]_vars =>
         [\A r \in Runs : at[r] \in {"persisting", "gone"} =>
            status'[r] = status[r] /\ reason'[r] = reason[r]]_vars
  BY <1>1
<1> QED
  BY <1>2, Invariant, PTL DEF Spec, VerdictIsFinal

(* The runs the limit is about. *)
InHand == {r \in Runs : Working(r) /\ r \notin lapsed}

(* No step but an admission brings a run in hand. *)
LEMMA InHandStep ==
    ASSUME Alive, [Next]_vars, NEW q \in Runs, q \in InHand', q \notin InHand
    PROVE  Admitted(q)
<1> USE RunLifecycleAssumption DEF Alive, Typed, TypeOK, InHand, Working
<1>1. ASSUME NEW r \in Runs,
             Submit(r) \/ Worker(r) \/ Hangs(r) \/ Heartbeat(r) \/ Sweeper(r) \/ Age(r)
      PROVE  Admitted(q)
  <2>1. CASE Submit(r)
    BY <2>1 DEF Submit, Save
  <2>2. CASE Rejected(r)
    BY <2>2 DEF Rejected
  <2>3. CASE LimitHit(r)
    BY <2>3 DEF LimitHit
  <2>4. CASE Admitted(r)
    BY <2>4 DEF Admitted
  <2>5. CASE Hydrated(r)
    BY <2>5 DEF Hydrated
  <2>6. CASE NotReady(r)
    BY <2>6 DEF NotReady
  <2>7. CASE Ready(r)
    BY <2>7 DEF Ready
  <2>8. CASE RoundStarts(r)
    BY <2>8 DEF RoundStarts
  <2>9. CASE RoundSucceeds(r)
    BY <2>9 DEF RoundSucceeds, TimePasses
  <2>10. CASE FirstRoundFails(r)
    BY <2>10 DEF FirstRoundFails, TimePasses
  <2>11. CASE RepairFails(r)
    BY <2>11 DEF RepairFails, TimePasses
  <2>12. CASE Repair(r)
    BY <2>12 DEF Repair
  <2>13. CASE Settle(r)
    BY <2>13 DEF Settle
  <2>14. CASE Raises(r)
    BY <2>14 DEF Raises
  <2>15. CASE Grade(r)
    BY <2>15 DEF Grade
  <2>16. CASE Persist(r)
    BY <2>16 DEF Persist, Save
  <2>17. CASE Hangs(r)
    BY <2>17 DEF Hangs
  <2>18. CASE BeatReads(r)
    BY <2>18 DEF BeatReads
  <2>19. CASE BeatSaves(r)
    BY <2>19 DEF BeatSaves, Save
  <2>20. CASE SweepFinds(r)
    BY <2>20 DEF SweepFinds, Overdue
  <2>21. CASE SweepWrites(r)
    BY <2>21 DEF SweepWrites
  <2>22. CASE Age(r)
    BY <2>22 DEF Age
  <2> QED
    BY <1>1, <2>1, <2>2, <2>3, <2>4, <2>5, <2>6, <2>7, <2>8, <2>9, <2>10,
       <2>11, <2>12, <2>13, <2>14, <2>15, <2>16, <2>17, <2>18, <2>19, <2>20,
       <2>21, <2>22
    DEF Worker, Heartbeat, Sweeper
<1>2. CASE Recycle
  BY <1>2 DEF Recycle
<1>3. CASE UNCHANGED vars
  BY <1>3 DEF vars
<1> QED
  BY <1>1, <1>2, <1>3 DEF Next

(* Whoever is in hand is counted as active by a run that asks for admission. *)
LEMMA LimitStep ==
    ASSUME Alive, LimitKept, [Next]_vars
    PROVE  LimitKept'
<1>1. /\ IsFiniteSet(Runs) /\ InHand \subseteq Runs /\ InHand' \subseteq Runs
      /\ MaxConcurrent \in Nat
  BY RunLifecycleAssumption DEF InHand
<1>2. /\ IsFiniteSet(InHand) /\ Cardinality(InHand) \in Nat
      /\ IsFiniteSet(InHand') /\ Cardinality(InHand') \in Nat
  BY <1>1, FS_Subset, FS_CardinalityType
<1>3. CASE InHand' \subseteq InHand
  <2>1. Cardinality(InHand') <= Cardinality(InHand)
    BY <1>2, <1>3, FS_Subset
  <2> QED
    BY <1>1, <1>2, <2>1 DEF LimitKept, InHand
<1>4. ASSUME NEW q \in Runs, q \in InHand', q \notin InHand
      PROVE  LimitKept'
  <2> DEFINE others == {s \in Runs \ {q} : at[s] # "unsubmitted" /\ status[s] \in Active}
  <2>1. Admitted(q)
    BY <1>4, InHandStep
  <2>2. InHand \subseteq others
    BY <1>4 DEF InHand, Working, Alive
  <2>3. IsFiniteSet(others) /\ Cardinality(others) \in Nat
    BY <1>1, FS_Subset, FS_CardinalityType
  <2>4. Cardinality(others) < MaxConcurrent
    BY <2>1 DEF Admitted, ActiveCount
  <2> HIDE DEF others
  <2>5. Cardinality(InHand) <= Cardinality(others)
    BY <2>2, <2>3, FS_Subset
  <2>6. InHand' \subseteq InHand \cup {q}
    <3>1. ASSUME NEW p \in InHand', p \notin InHand
          PROVE  p = q
      <4>1. Admitted(p)
        BY <1>1, <3>1, InHandStep
      <4> QED
        BY <2>1, <4>1 DEF Admitted, Alive, Typed, TypeOK
    <3> QED
      BY <3>1
  <2>7. /\ IsFiniteSet(InHand \cup {q})
        /\ Cardinality(InHand \cup {q}) = Cardinality(InHand) + 1
    BY <1>2, <1>4, FS_AddElement
  <2>8. Cardinality(InHand') <= Cardinality(InHand) + 1
    BY <2>6, <2>7, FS_Subset
  <2> QED
    BY <1>1, <1>2, <2>3, <2>4, <2>5, <2>8 DEF LimitKept, InHand
<1> QED
  BY <1>1, <1>3, <1>4

(* For any number of runs and any limit: no more runs are worked at than the
   limit, but for those whose status called them over while they were (_admission,
   active_count). *)
THEOREM LimitIsKept == Spec => []LimitKept
<1>1. Init => LimitKept
  <2> SUFFICES ASSUME Init
               PROVE  LimitKept
    OBVIOUS
  <2>1. InHand = {}
    BY DEF Init, InHand, Working
  <2> QED
    BY <2>1, FS_EmptySet, RunLifecycleAssumption DEF LimitKept, InHand
<1>2. Alive /\ LimitKept /\ [Next]_vars => LimitKept'
  BY LimitStep
<1> QED
  BY <1>1, <1>2, Invariant, PTL DEF Spec

(* What the sweeper has found hangs, or has begun more rounds than
   STRANDED_AFTER_S allows for. *)
Outlasts(r) == at[r] = "hung" \/ 1 + repaired[r] > MaxIterations

FoundOutlast == \A r \in found : Outlasts(r)

(* A worker that hangs never comes back, and repairs are never taken back. *)
LEMMA OutlastsStep ==
    ASSUME Typed, [Next]_vars, NEW q \in Runs, Outlasts(q)
    PROVE  Outlasts(q)'
<1> USE RunLifecycleAssumption DEF Outlasts, Typed, TypeOK
<1>1. ASSUME NEW r \in Runs,
             Submit(r) \/ Hangs(r) \/ Heartbeat(r) \/ Sweeper(r) \/ Age(r)
      PROVE  Outlasts(q)'
  BY <1>1 DEF Submit, Hangs, Heartbeat, BeatReads, BeatSaves, Sweeper, SweepFinds,
     SweepWrites, Age
<1>2. ASSUME NEW r \in Runs, Worker(r)
      PROVE  Outlasts(q)'
  <2>1. /\ at[r] # "hung"
        /\ r # q => at'[q] = at[q]
        /\ repaired'[q] = repaired[q] \/ repaired'[q] = repaired[q] + 1
    BY <1>2 DEF Worker, Rejected, LimitHit, Admitted, Hydrated, NotReady, Ready,
       RoundStarts, RoundSucceeds, FirstRoundFails, RepairFails, TimePasses, Repair,
       Settle, Raises, Grade, Persist
  <2> QED
    BY <2>1
<1>3. CASE Recycle
  BY <1>3 DEF Recycle
<1>4. CASE UNCHANGED vars
  BY <1>4 DEF vars
<1> QED
  BY <1>1, <1>2, <1>3, <1>4 DEF Next

(* No round but the one at work has been begun and not been spent in part, so a run
   past the threshold that does not hang is in a round the threshold does not
   cover. *)
LEMMA FoundStep ==
    ASSUME Typed, FoundOutlast, [Next]_vars
    PROVE  FoundOutlast'
<1>1. ASSUME NEW r \in found', r \notin found
      PROVE  Outlasts(r)'
  <2> USE RunLifecycleAssumption DEF Typed, TypeOK
  <2>1. r \in Runs /\ SweepFinds(r)
    BY <1>1 DEF Next, Submit, Worker, Rejected, LimitHit, Admitted, Hydrated, NotReady,
       Ready, RoundStarts, RoundSucceeds, FirstRoundFails, RepairFails, TimePasses,
       Repair, Settle, Raises, Grade, Persist, Hangs, Heartbeat, BeatReads, BeatSaves,
       Sweeper, SweepFinds, SweepWrites, Age, Recycle, vars
  <2>2. Outlasts(r)
    BY <2>1 DEF SweepFinds, Overdue, Outlasts
  <2> QED
    BY <2>1, <2>2, OutlastsStep
<1>2. ASSUME NEW r \in found' \cap found
      PROVE  Outlasts(r)'
  BY <1>2, OutlastsStep DEF FoundOutlast, Typed, TypeOK
<1> QED
  BY <1>1, <1>2 DEF FoundOutlast

(* For any number of runs, repairs and rounds: the sweeper ends only what hangs or
   has begun more rounds than its threshold is derived from, however much happened
   since it found it (reconcile, transition). *)
THEOREM SweptAreOverdue == Spec => SweptIsOverdue
<1>1. Init => FoundOutlast
  BY DEF Init, FoundOutlast
<1>2. Typed /\ FoundOutlast /\ [Next]_vars => FoundOutlast'
  BY FoundStep
<1>3. ASSUME Typed, FoundOutlast, [Next]_vars, NEW q \in Runs,
             reason'[q] = "STRANDED_NO_PROGRESS", reason[q] # "STRANDED_NO_PROGRESS"
      PROVE  Outlasts(q)
  <2> USE <1>3, RunLifecycleAssumption DEF Typed, TypeOK
  <2>1. ASSUME NEW r \in Runs, SweepWrites(r)
        PROVE  Outlasts(q)
    BY <2>1 DEF SweepWrites, FoundOutlast
  <2>2. ASSUME NEW r \in Runs, Worker(r)
        PROVE  FALSE
    BY <2>2 DEF Worker, Rejected, LimitHit, Admitted, Hydrated, NotReady, Ready,
       RoundStarts, RoundSucceeds, FirstRoundFails, RepairFails, Repair, Settle,
       Raises, Grade, Persist
  <2>3. ASSUME NEW r \in Runs,
               Submit(r) \/ Hangs(r) \/ Heartbeat(r) \/ SweepFinds(r) \/ Age(r)
        PROVE  FALSE
    BY <2>3 DEF Submit, Hangs, Heartbeat, BeatReads, BeatSaves, SweepFinds, Age
  <2> QED
    BY <2>1, <2>2, <2>3 DEF Next, Sweeper, Recycle, vars
<1>4. Typed /\ FoundOutlast /\ [Next]_vars =>
         [\A r \in Runs :
             reason'[r] = "STRANDED_NO_PROGRESS" /\ reason[r] # "STRANDED_NO_PROGRESS" =>
                at[r] = "hung" \/ 1 + repaired[r] > MaxIterations]_vars
  BY <1>3 DEF Outlasts
<1>5. Verdicts => Typed
  BY DEF Verdicts
<1> QED
  BY <1>1, <1>2, <1>4, <1>5, Invariant, PTL DEF Spec, SweptIsOverdue
=============================================================================
