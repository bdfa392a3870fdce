-------------------------- MODULE ComposeLeaseProofs --------------------------
(***************************************************************************)
(* Theorems about ComposeLease for any number of runs: an evicted writer   *)
(* had its whole time; and while no live holder outlasts the lease, the    *)
(* repository implements EvidenceLog.                                      *)
(***************************************************************************)
EXTENDS ComposeLease, TLAPS

(* What leaving does: the lease is released by its holder alone, and at most the
   waiting runs wake up. *)
LEMMA LeavesEffect ==
    ASSUME TypeOK, NEW r \in Runs, NEW to \in Places, Leaves(r, to)
    PROVE  /\ pc' \in [Runs -> Places] /\ pc'[r] = to
           /\ \A s \in Runs \ {r} :
                 pc'[s] = pc[s] \/ (pc[s] = "waiting" /\ pc'[s] = "trying")
           /\ owner = r => owner' = NoRun /\ old' = FALSE
           /\ owner # r => owner' = owner /\ old' = old
           /\ outlasted' = outlasted
<1>1. CASE owner = r
  BY <1>1 DEF Leaves, TypeOK, Places, Composing
<1>2. CASE owner # r
  BY <1>2 DEF Leaves, TypeOK, lease
<1> QED
  BY <1>1, <1>2

(* The lease belongs to nobody, to a run that composes, or to one that hangs; a run
   that composes without it was evicted after the whole of its time. *)
Leased ==
    /\ TypeOK
    /\ owner # NoRun => pc[owner] \in Composing \cup {"hung"}
    /\ old => owner # NoRun /\ owner \in outlasted
    /\ EvictedOutlasted

(* Every step keeps that. *)
LEMMA LeasedStep ==
    ASSUME Leased, [Next]_vars
    PROVE  Leased'
<1>1. ASSUME NEW r \in Runs, Starts(r) \/ Step(r)
      PROVE  Leased'
  <2> USE ComposeLeaseAssumption DEF Leased, TypeOK, EvictedOutlasted, Composing, Places,
            lease, repo, TipOf
  <2>1. CASE Starts(r)
    BY <2>1 DEF Starts
  <2>2. CASE Acquire(r)
    BY <2>2 DEF Acquire
  <2>3. CASE Waits(r)
    BY <2>3 DEF Waits
  <2>4. CASE Wakes(r)
    BY <2>4 DEF Wakes
  <2>5. CASE Reset(r)
    BY <2>5 DEF Reset, Goes
  <2>6. CASE Checkout(r)
    BY <2>6 DEF Checkout, Goes
  <2>7. CASE Copy(r)
    BY <2>7 DEF Copy, Goes
  <2>8. CASE Commit(r)
    BY <2>8 DEF Commit, Goes
  <2>9. CASE Read(r)
    <3>1. Leaves(r, "done")
      BY <2>9 DEF Read
    <3>2. pc' \in [Runs -> Places] /\ pc'[r] = "done"
      BY <3>1, LeavesEffect
    <3>3. \A s \in Runs \ {r} :
            pc'[s] = pc[s] \/ (pc[s] = "waiting" /\ pc'[s] = "trying")
      BY <3>1, LeavesEffect
    <3>4. /\ owner = r => owner' = NoRun /\ old' = FALSE
          /\ owner # r => owner' = owner /\ old' = old
          /\ outlasted' = outlasted
      BY <3>1, LeavesEffect
    <3>5. TipOf(head) \in SUBSET (Runs \cup {NoRun})
      OBVIOUS
    <3>6. /\ composed' \in [Runs -> SUBSET (Runs \cup {NoRun})]
          /\ head' = head /\ tree' = tree /\ tip' = tip
      BY <2>9, <3>5 DEF Read
    <3>7. TypeOK'
      BY <3>2, <3>4, <3>6
    <3>8. ASSUME NEW s \in Runs, pc'[s] \in Composing, owner' # s
          PROVE  s \in outlasted'
      BY <3>2, <3>3, <3>4, <3>8
    <3>9. owner' # NoRun => pc'[owner'] \in Composing \cup {"hung"}
      BY <3>2, <3>3, <3>4
    <3> QED
      BY <3>4, <3>7, <3>8, <3>9
  <2>10. CASE Raises(r)
    <3>1. Leaves(r, "raised")
      BY <2>10 DEF Raises
    <3>2. pc' \in [Runs -> Places] /\ pc'[r] = "raised"
      BY <3>1, LeavesEffect
    <3>3. \A s \in Runs \ {r} :
            pc'[s] = pc[s] \/ (pc[s] = "waiting" /\ pc'[s] = "trying")
      BY <3>1, LeavesEffect
    <3>4. /\ owner = r => owner' = NoRun /\ old' = FALSE
          /\ owner # r => owner' = owner /\ old' = old
          /\ outlasted' = outlasted
      BY <3>1, LeavesEffect
    <3>5. /\ tree' \subseteq Runs
          /\ head' = head /\ tip' = tip /\ composed' = composed
      BY <2>10 DEF Raises
    <3>6. TypeOK'
      BY <3>2, <3>4, <3>5
    <3>7. ASSUME NEW s \in Runs, pc'[s] \in Composing, owner' # s
          PROVE  s \in outlasted'
      BY <3>2, <3>3, <3>4, <3>7
    <3>8. owner' # NoRun => pc'[owner'] \in Composing \cup {"hung"}
      BY <3>2, <3>3, <3>4
    <3> QED
      BY <3>4, <3>6, <3>7, <3>8
  <2>11. CASE Hangs(r)
    BY <2>11 DEF Hangs
  <2> QED
    BY <1>1, <2>1, <2>2, <2>3, <2>4, <2>5, <2>6, <2>7, <2>8, <2>9, <2>10,
       <2>11
    DEF Step
<1>2. CASE GrowsOld
  BY <1>2, ComposeLeaseAssumption
  DEF GrowsOld, Leased, TypeOK, EvictedOutlasted, Composing, Places,
            lease, repo, TipOf
<1>3. CASE UNCHANGED vars
  BY <1>3, ComposeLeaseAssumption
  DEF vars, lease, repo, Leased, TypeOK, EvictedOutlasted, Composing, Places,
            lease, repo, TipOf
<1> QED
  BY <1>1, <1>2, <1>3 DEF Next

(* It holds in every behaviour. *)
LEMMA LeasedHolds == Spec => []Leased
<1>1. Init => Leased
  BY ComposeLeaseAssumption
  DEF Init, Leased, TypeOK, EvictedOutlasted, Composing, Places
<1> QED
  BY <1>1, LeasedStep, PTL DEF Spec

(* Every variable keeps its type. *)
THEOREM TypeCorrect == Spec => []TypeOK
BY LeasedHolds, PTL DEF Leased

(* Two runs write the repository together only when one of them has outlasted the
   lease (_Lease.acquire, _Lease.release). *)
THEOREM EvictionIsFair == Spec => []EvictedOutlasted
BY LeasedHolds, PTL DEF Leased
-----------------------------------------------------------------------------
(* Where a run stands in its compose decides what is checked out and what the work
   tree and its branch hold. *)
Repository(r) ==
    /\ pc[r] \in {"copying", "committing", "reading"} => head = r
    /\ pc[r] = "copying" => tree = {}
    /\ pc[r] = "committing" => tree = {r}
    /\ pc[r] = "reading" => tip[r] = {r}

(* While no live holder outlasts the lease, whoever composes holds it. *)
Alone ==
    /\ TypeOK
    /\ owner # NoRun => pc[owner] \in Composing \cup {"hung"}
    /\ old => owner # NoRun /\ pc[owner] = "hung"
    /\ \A r \in Runs :
          /\ pc[r] \in Composing => owner = r
          /\ Repository(r)
          /\ composed[r] = IF pc[r] = "done" THEN {r} ELSE {NoRun}

(* Every step keeps that. *)
LEMMA AloneStep ==
    ASSUME ~Slow, Alone, [Next]_vars
    PROVE  Alone'
<1>1. ASSUME NEW r \in Runs, Starts(r) \/ Step(r)
      PROVE  Alone'
  <2> USE ComposeLeaseAssumption DEF Alone, Repository, TypeOK, Composing, Places,
            lease, repo, TipOf
  <2>1. CASE Starts(r)
    BY <2>1 DEF Starts
  <2>2. CASE Acquire(r)
    BY <2>2 DEF Acquire
  <2>3. CASE Waits(r)
    BY <2>3 DEF Waits
  <2>4. CASE Wakes(r)
    BY <2>4 DEF Wakes
  <2>5. CASE Reset(r)
    BY <2>5 DEF Reset, Goes
  <2>6. CASE Checkout(r)
    BY <2>6 DEF Checkout, Goes
  <2>7. CASE Copy(r)
    BY <2>7 DEF Copy, Goes
  <2>8. CASE Commit(r)
    BY <2>8 DEF Commit, Goes
  <2>9. CASE Read(r)
    <3>1. Leaves(r, "done")
      BY <2>9 DEF Read
    <3>2. pc' \in [Runs -> Places] /\ pc'[r] = "done"
      BY <3>1, LeavesEffect
    <3>3. \A s \in Runs \ {r} :
            pc'[s] = pc[s] \/ (pc[s] = "waiting" /\ pc'[s] = "trying")
      BY <3>1, LeavesEffect
    <3>4. /\ owner = r => owner' = NoRun /\ old' = FALSE
          /\ owner # r => owner' = owner /\ old' = old
          /\ outlasted' = outlasted
      BY <3>1, LeavesEffect
    <3>5. owner = r /\ owner' = NoRun /\ old' = FALSE
      BY <2>9, <3>4 DEF Read
    <3>6. TypeOK'
      BY <2>9, <3>2, <3>4 DEF Read
    <3>7. ASSUME NEW s \in Runs
          PROVE  /\ pc'[s] \in Composing => owner' = s
                 /\ Repository(s)'
                 /\ composed'[s] = IF pc'[s] = "done" THEN {s} ELSE {NoRun}
      <4>1. CASE s = r
        BY <2>9, <3>2, <3>5, <4>1 DEF Read
      <4>2. CASE s # r
        BY <2>9, <3>3, <3>5, <4>2 DEF Read
      <4> QED
        BY <4>1, <4>2
    <3> QED
      BY <3>5, <3>6, <3>7
  <2>10. CASE Raises(r)
    <3>1. Leaves(r, "raised")
      BY <2>10 DEF Raises
    <3>2. pc' \in [Runs -> Places] /\ pc'[r] = "raised"
      BY <3>1, LeavesEffect
    <3>3. \A s \in Runs \ {r} :
            pc'[s] = pc[s] \/ (pc[s] = "waiting" /\ pc'[s] = "trying")
      BY <3>1, LeavesEffect
    <3>4. /\ owner = r => owner' = NoRun /\ old' = FALSE
          /\ owner # r => owner' = owner /\ old' = old
          /\ outlasted' = outlasted
      BY <3>1, LeavesEffect
    <3>5. owner = r /\ owner' = NoRun /\ old' = FALSE
      BY <2>10, <3>4 DEF Raises
    <3>6. TypeOK'
      BY <2>10, <3>2, <3>4 DEF Raises
    <3>7. ASSUME NEW s \in Runs
          PROVE  /\ pc'[s] \in Composing => owner' = s
                 /\ Repository(s)'
                 /\ composed'[s] = IF pc'[s] = "done" THEN {s} ELSE {NoRun}
      <4>1. CASE s = r
        BY <2>10, <3>2, <3>5, <4>1 DEF Raises
      <4>2. CASE s # r
        BY <2>10, <3>3, <3>5, <4>2 DEF Raises
      <4> QED
        BY <4>1, <4>2
    <3> QED
      BY <3>5, <3>6, <3>7
  <2>11. CASE Hangs(r)
    BY <2>11 DEF Hangs
  <2> QED
    BY <1>1, <2>1, <2>2, <2>3, <2>4, <2>5, <2>6, <2>7, <2>8, <2>9, <2>10,
       <2>11
    DEF Step
<1>2. CASE GrowsOld
  BY <1>2, ComposeLeaseAssumption
  DEF GrowsOld, Alone, Repository, TypeOK, Composing, Places,
            lease, repo, TipOf
<1>3. CASE UNCHANGED vars
  BY <1>3, ComposeLeaseAssumption
  DEF vars, lease, repo, Alone, Repository, TypeOK, Composing, Places,
            lease, repo, TipOf
<1> QED
  BY <1>1, <1>2, <1>3 DEF Next

(* It holds in every behaviour. *)
LEMMA AloneHolds ==
    ASSUME ~Slow
    PROVE  Spec => []Alone
<1>1. Init => Alone
  BY ComposeLeaseAssumption DEF Init, Alone, Repository, TypeOK, Composing, Places
<1>2. Alone /\ [Next]_vars => Alone'
  BY AloneStep
<1> QED
  BY <1>1, <1>2, PTL DEF Spec

(* While no live holder outlasts the lease, the commit recorded for a run is its
   own deliverable and nothing else (_compose_commit_locked). *)
THEOREM EvidenceOwn ==
    ASSUME ~Slow
    PROVE  Spec => []EvidenceIsOwn
<1>1. Alone => EvidenceIsOwn
  BY DEF Alone, EvidenceIsOwn
<1> QED
  BY <1>1, AloneHolds, PTL

(* Then the lease, the commands and their failures implement the log of evidence:
   one writer at a time, each record made whole and once (_compose_commit). *)
THEOREM Implements ==
    ASSUME ~Slow
    PROVE  Spec => ImplementsEvidenceLog
<1>1. Init => Log!Init
  BY ComposeLeaseAssumption DEF Init, Log!Init, Log!None, Writer
<1>2. ASSUME Alone, [Next]_vars
      PROVE  [Log!Next]_(Log!vars)
  <2> USE <1>2, ComposeLeaseAssumption
      DEF Alone, Repository, TypeOK, Composing, Places, lease, repo, TipOf, Writer,
          Log!vars, Log!None
  <2>1. ASSUME NEW r \in Runs, Starts(r) \/ Step(r)
        PROVE  [Log!Next]_(Log!vars)
    <3>1. CASE Starts(r)
      BY <3>1 DEF Starts
    <3>2. CASE Acquire(r)
      <4>1. pc[r] = "trying" /\ pc' = [pc EXCEPT ![r] = "resetting"]
            /\ owner' = r /\ composed' = composed
        BY <3>2 DEF Acquire
      <4>2. owner = NoRun \/ pc[owner] = "hung"
        BY <3>2 DEF Acquire
      <4>3. Writer = NoRun
        BY <4>2
      <4>4. Writer' = r
        BY <4>1
      <4>5. composed[r] = {NoRun}
        BY <4>1
      <4>6. Log!Enter(r)
        BY <4>1, <4>3, <4>4, <4>5 DEF Log!Enter
      <4> QED
        BY <4>6 DEF Log!Next
    <3>3. CASE Waits(r)
      BY <3>3 DEF Waits
    <3>4. CASE Wakes(r)
      BY <3>4 DEF Wakes
    <3>5. CASE Reset(r)
      BY <3>5 DEF Reset, Goes
    <3>6. CASE Checkout(r)
      BY <3>6 DEF Checkout, Goes
    <3>7. CASE Copy(r)
      BY <3>7 DEF Copy, Goes
    <3>8. CASE Commit(r)
      BY <3>8 DEF Commit, Goes
    <3>9. CASE Read(r)
      <4>1. pc[r] \in Composing /\ owner = r /\ head = r /\ tip[r] = {r}
        BY <3>9 DEF Read
      <4>2. Writer = r
        BY <4>1
      <4>3. Writer' = NoRun
        BY <3>9, <4>1 DEF Read, Leaves
      <4>4. composed' = [composed EXCEPT ![r] = {r}]
        BY <3>9, <4>1 DEF Read
      <4>5. Log!Record(r)
        BY <4>2, <4>3, <4>4 DEF Log!Record
      <4> QED
        BY <4>5 DEF Log!Next
    <3>10. CASE Raises(r)
      <4>1. pc[r] \in Composing /\ owner = r /\ composed' = composed
        BY <3>10 DEF Raises
      <4>2. Writer = r
        BY <4>1
      <4>3. Writer' = NoRun
        BY <3>10, <4>1 DEF Raises, Leaves
      <4>4. Log!Leave(r)
        BY <4>1, <4>2, <4>3 DEF Log!Leave
      <4> QED
        BY <4>4 DEF Log!Next
    <3>11. CASE Hangs(r)
      <4>1. pc[r] \in Composing /\ owner = r /\ composed' = composed
        BY <3>11 DEF Hangs
      <4>2. Writer = r
        BY <4>1
      <4>3. Writer' = NoRun
        BY <3>11, <4>1 DEF Hangs
      <4>4. Log!Leave(r)
        BY <4>1, <4>2, <4>3 DEF Log!Leave
      <4> QED
        BY <4>4 DEF Log!Next
    <3> QED
      BY <2>1, <3>1, <3>2, <3>3, <3>4, <3>5, <3>6, <3>7, <3>8, <3>9, <3>10,
         <3>11
      DEF Step
  <2>2. CASE GrowsOld
    BY <2>2 DEF GrowsOld
  <2>3. CASE UNCHANGED vars
    BY <2>3 DEF vars
  <2> QED
    BY <1>2, <2>1, <2>2, <2>3 DEF Next
<1> QED
  BY <1>1, <1>2, AloneHolds, PTL DEF Spec, ImplementsEvidenceLog, Log!Spec
===============================================================================
