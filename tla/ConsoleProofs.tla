--------------------------- MODULE ConsoleProofs ---------------------------
(***************************************************************************)
(* Theorems about what surrounds a run: the fleet and its wiring, the      *)
(* connections, the shells and the ledger of sessions.  A part has its own *)
(* invariant and its own step lemma; the last section takes them, and      *)
(* those of ListsProofs and RoundsProofs, to the behaviours of MCConsole.  *)
(***************************************************************************)
EXTENDS MCConsole, RoundsProofs, SequenceTheorems, NaturalsInduction

-----------------------------------------------------------------------------
(* The fleet *)

ScriptsTyped ==
    /\ runtime \in [Harnessed -> Nat] /\ record \in [Harnessed -> Nat] /\ id \in [Harnessed -> Nat]
    /\ script \in [Harnessed -> ScriptSteps]
    /\ created \in Nat /\ complete \subseteq Harnessed

\* What a script has done so far, and what a deploy that ended well has left.
ScriptHolds(r) ==
    /\ r \in complete =>
         script[r] = "none" /\ record[r] = runtime[r] /\ runtime[r] # NoRuntime /\ r \in iam
    /\ script[r] \in {"roleReady", "waiting", "recording", "dumping"} => r \in iam
    /\ script[r] \in {"waiting", "recording", "dumping"} => id[r] = runtime[r] /\ runtime[r] # NoRuntime
ScriptsHold == ScriptsTyped /\ \A r \in Harnessed : ScriptHolds(r)

(* Every step of a script leaves behind what the next one relies on. *)
LEMMA ScriptsHoldStep ==
    ASSUME ScriptsHold, [FleetNext]_fleetVars
    PROVE  ScriptsHold'
<1> USE DEF ScriptsHold, ScriptsTyped, ScriptHolds, ScriptSteps, To, NoRuntime
<1>1. ASSUME NEW r \in Harnessed, DeployStarts(r)
      PROVE  ScriptsHold'
  BY <1>1 DEF DeployStarts
<1>2. ASSUME NEW r \in Harnessed, DeployUpdates(r)
      PROVE  ScriptsHold'
  BY <1>2 DEF DeployUpdates, Found
<1>3. ASSUME NEW r \in Harnessed, DeployCreates(r)
      PROVE  ScriptsHold'
  BY <1>3 DEF DeployCreates
<1>4. ASSUME NEW r \in Harnessed, DeployReady(r)
      PROVE  ScriptsHold'
  BY <1>4 DEF DeployReady
<1>5. ASSUME NEW r \in Harnessed, DeployRecords(r)
      PROVE  ScriptsHold'
  BY <1>5 DEF DeployRecords
<1>50. ASSUME NEW r \in Harnessed, DeployOpens(r)
       PROVE  ScriptsHold'
  BY <1>50, FleetAssumption DEF DeployOpens
<1>6. ASSUME NEW r \in Harnessed, CleanupStarts(r)
      PROVE  ScriptsHold'
  BY <1>6 DEF CleanupStarts
<1>7. ASSUME NEW r \in Harnessed, CleanupDeletes(r)
      PROVE  ScriptsHold'
  BY <1>7 DEF CleanupDeletes
<1>8. ASSUME NEW r \in Harnessed, CleanupDeletesRole(r)
      PROVE  ScriptsHold'
  BY <1>8 DEF CleanupDeletesRole
<1>9. ASSUME NEW r \in Harnessed, CleanupForgets(r)
      PROVE  ScriptsHold'
  BY <1>9 DEF CleanupForgets
<1>10. ASSUME NEW r \in Harnessed, ScriptStops(r)
      PROVE  ScriptsHold'
  BY <1>10 DEF ScriptStops
<1>11. CASE UNCHANGED deployment
  BY <1>11 DEF deployment
<1> QED
  BY <1>1, <1>2, <1>3, <1>4, <1>5, <1>50, <1>6, <1>7, <1>8, <1>9, <1>10, <1>11
  DEF FleetNext, Scripts, fleetVars, EditBegins, EditOpens, EditDumps, EditResets, EditCut, PickReads, PickTakes, deployment

(* The settings *)

\* An edit is known by its fields, a request by its edit.
EditsAreRecords ==
    /\ edit = [e \in Editors |-> edit[e]]
    /\ \A e \in Editors :
         /\ edit[e] = [step |-> edit[e].step, op |-> edit[e].op, role |-> edit[e].role,
                       arn |-> edit[e].arn, runtimes |-> edit[e].runtimes, descs |-> edit[e].descs]
         /\ edit[e].step \in {"none", "read", "open"}
Asked == [runtimes |-> wired, descs |-> described]

\* As long as edits have not met, one request at most makes one: it has read
\* what the edits before it asked for, and writes what they and it ask for.
EditHolds(e) ==
    /\ \A f \in Editors : edit[e].step # "none" /\ edit[f].step # "none" => e = f
    /\ edit[e].step = "read" => edit[e].runtimes = wired /\ edit[e].descs = described
    /\ edit[e].step = "open" => due = [runtimes |-> edit[e].runtimes, descs |-> edit[e].descs]
EditsHold ==
    /\ EditsAreRecords
    /\ ~muddled => \A e \in Editors : EditHolds(e)
    /\ WiringIsKept

(* A wiring cleared to nothing takes the descriptions with it. *)
LEMMA ClearedAway ==
    ASSUME NEW ed, NEW fleet, NEW descs, RemovesFile(ed, fleet)
    PROVE  Edited(ed, fleet) = Nothing /\ Redescribed(ed, fleet, descs) = {}
<1>1. ed.op = "clear" /\ Edited(ed, fleet) = Nothing
  BY DEF RemovesFile
<1>2. ed.op # "describe"
  BY <1>1
<1> QED
  BY <1>1, <1>2, Zenon DEF Redescribed

(* An edit that goes on is still an edit. *)
LEMMA EditAltered ==
    ASSUME NEW ed, NEW next, NEW runtimes, NEW descs,
           ed = [step |-> ed.step, op |-> ed.op, role |-> ed.role, arn |-> ed.arn,
                 runtimes |-> ed.runtimes, descs |-> ed.descs]
    PROVE  [ed EXCEPT !.step = next, !.runtimes = runtimes, !.descs = descs]
             = [step |-> next, op |-> ed.op, role |-> ed.role, arn |-> ed.arn, runtimes |-> runtimes, descs |-> descs]
<1> DEFINE new == [ed EXCEPT !.step = next, !.runtimes = runtimes, !.descs = descs]
<1>1. DOMAIN ed = {"step", "op", "role", "arn", "runtimes", "descs"}
  OBVIOUS
<1>2. new = [x \in DOMAIN ed |-> IF x = "descs" THEN descs ELSE IF x = "runtimes" THEN runtimes
                                ELSE IF x = "step" THEN next ELSE ed[x]]
  OBVIOUS
<1>3. /\ DOMAIN new = DOMAIN ed /\ new.step = next /\ new.runtimes = runtimes /\ new.descs = descs
      /\ new.op = ed.op /\ new.role = ed.role /\ new.arn = ed.arn
  BY <1>1, <1>2
<1> QED
  BY <1>1, <1>2, <1>3

(* Every step of an edit writes what it was asked for, or is known to have met another. *)
LEMMA EditsHoldStep ==
    ASSUME EditsHold, [FleetNext]_fleetVars
    PROVE  EditsHold'
<1> USE DEF EditsHold, EditsAreRecords
<1>1. ASSUME NEW e \in Editors, EditBegins(e)
      PROVE  EditsHold'
  <2>1. PICK op \in {"save", "add", "remove", "clear", "describe"}, r \in Roles, a \in Pasted \cup 0..created :
          edit' = [edit EXCEPT ![e] = [step |-> "read", op |-> op, role |-> r, arn |-> a,
                                       runtimes |-> wired, descs |-> described]]
    BY <1>1 DEF EditBegins
  <2>2. UNCHANGED <<wired, described, due>> /\ edit[e].step = "none" /\ muddled' = (muddled \/ Busy # {})
    BY <1>1 DEF EditBegins
  <2>3. ~muddled' => ~muddled /\ \A f \in Editors : edit[f].step = "none"
    BY <2>2 DEF Busy
  <2>4. EditsAreRecords'
    BY <2>1
  <2> QED
    BY <2>1, <2>2, <2>3, <2>4 DEF EditHolds, WiringIsKept
<1>2. ASSUME NEW e \in Editors, EditOpens(e)
      PROVE  EditsHold'
  <2> DEFINE ed == edit[e]
             descs == IF ed.op = "describe" THEN ed.descs ELSE described
             alters == [ed EXCEPT !.step = "open", !.runtimes = Written(ed),
                                  !.descs = Redescribed(ed, ed.runtimes, descs)]
  <2>1. /\ ed.step = "read" /\ wired' = Nothing /\ described' = {} /\ muddled' = muddled
        /\ edit' = [edit EXCEPT ![e] = IF RemovesFile(ed, ed.runtimes) THEN NoEdit ELSE alters]
        /\ due' = [runtimes |-> Edited(ed, due.runtimes), descs |-> Redescribed(ed, due.runtimes, due.descs)]
    BY <1>2 DEF EditOpens
  <2>2. ASSUME ~muddled
        PROVE  /\ \A f \in Editors : f # e => edit[f].step = "none"
               /\ ed.runtimes = wired /\ ed.descs = described /\ due.runtimes = wired /\ due.descs = described
    BY <2>1, <2>2 DEF EditHolds, WiringIsKept
  <2>3. ~muddled => descs = described
    BY <2>2
  <2>4. CASE RemovesFile(ed, ed.runtimes)
    <3>1. edit' = [edit EXCEPT ![e] = NoEdit]
      BY <2>1, <2>4
    <3>2. EditsAreRecords'
      BY <3>1 DEF NoEdit
    <3>3. ~muddled => due' = [runtimes |-> Nothing, descs |-> {}]
      BY <2>1, <2>2, <2>4, ClearedAway, Zenon
    <3>4. ~muddled => \A f \in Editors : edit'[f].step = "none"
      BY <2>2, <3>1 DEF NoEdit
    <3> QED
      BY <2>1, <3>2, <3>3, <3>4 DEF EditHolds, WiringIsKept
  <2>5. CASE ~RemovesFile(ed, ed.runtimes)
    <3>1. edit' = [edit EXCEPT ![e] = alters]
      BY <2>1, <2>5
    <3>2. alters = [step |-> "open", op |-> ed.op, role |-> ed.role, arn |-> ed.arn,
                    runtimes |-> Written(ed), descs |-> Redescribed(ed, ed.runtimes, descs)]
      <4>1. ed = [step |-> ed.step, op |-> ed.op, role |-> ed.role, arn |-> ed.arn,
                  runtimes |-> ed.runtimes, descs |-> ed.descs]
        OBVIOUS
      <4> DEFINE w == Written(ed)
                 q == Redescribed(ed, ed.runtimes, descs)
      <4>2. alters = [ed EXCEPT !.step = "open", !.runtimes = w, !.descs = q]
        OBVIOUS
      <4> HIDE DEF ed, descs, alters, w, q
      <4>3. alters = [step |-> "open", op |-> ed.op, role |-> ed.role, arn |-> ed.arn, runtimes |-> w, descs |-> q]
        BY <4>1, <4>2, EditAltered
      <4> QED
        BY <4>3 DEF w, q
    <3> HIDE DEF alters
    <3>3. EditsAreRecords'
      BY <3>1, <3>2
    <3>4. ~muddled => due' = [runtimes |-> Written(ed), descs |-> Redescribed(ed, ed.runtimes, descs)]
      BY <2>1, <2>2, <2>3, Zenon DEF Written
    <3>5. edit'[e] = alters /\ \A f \in Editors : f # e => edit'[f] = edit[f]
      BY <3>1
    <3>6. alters.step = "open" /\ alters.runtimes = Written(ed) /\ alters.descs = Redescribed(ed, ed.runtimes, descs)
      BY <3>2
    <3> HIDE DEF ed, descs
    <3> QED
      BY <2>1, <2>2, <3>3, <3>4, <3>5, <3>6 DEF EditHolds, WiringIsKept
  <2> QED
    BY <2>4, <2>5
<1>3. ASSUME NEW e \in Editors, EditDumps(e)
      PROVE  EditsHold'
  <2>1. /\ edit[e].step = "open" /\ wired' = edit[e].runtimes /\ described' = edit[e].descs
        /\ edit' = [edit EXCEPT ![e] = NoEdit] /\ UNCHANGED <<due, muddled>>
    BY <1>3 DEF EditDumps
  <2>2. EditsAreRecords'
    BY <2>1 DEF NoEdit
  <2> QED
    BY <2>1, <2>2 DEF EditHolds, WiringIsKept, NoEdit
<1>4. ASSUME NEW e \in Editors, EditResets(e)
      PROVE  EditsHold'
  <2>1. /\ wired' = Nothing /\ described' = {} /\ due' = [runtimes |-> Nothing, descs |-> {}]
        /\ muddled' = (muddled \/ Busy # {}) /\ UNCHANGED edit
    BY <1>4 DEF EditResets
  <2>2. ~muddled' => \A f \in Editors : edit[f].step = "none"
    BY <2>1 DEF Busy
  <2> QED
    BY <2>1, <2>2 DEF EditHolds, WiringIsKept
<1>5. ASSUME NEW e \in Editors, EditCut(e)
      PROVE  EditsHold'
  <2>1. edit' = [edit EXCEPT ![e] = NoEdit] /\ muddled'
    BY <1>5 DEF EditCut
  <2>2. EditsAreRecords'
    BY <2>1 DEF NoEdit
  <2> QED
    BY <2>1, <2>2 DEF WiringIsKept
<1>6. CASE UNCHANGED wiring
  BY <1>6 DEF wiring, EditHolds, WiringIsKept
<1> QED
  BY <1>1, <1>2, <1>3, <1>4, <1>5, <1>6
  DEF FleetNext, Scripts, fleetVars, PickReads, PickTakes, DeployStarts, DeployUpdates, DeployCreates, DeployReady,
      DeployOpens, DeployRecords, CleanupStarts, CleanupDeletes, CleanupDeletesRole, CleanupForgets, ScriptStops

(* Nothing is deployed and nothing is asked for at first. *)
LEMMA FleetStart == FleetInit => ScriptsHold /\ EditsHold
<1> SUFFICES ASSUME FleetInit
             PROVE  ScriptsHold /\ EditsHold
  OBVIOUS
<1>1. ScriptsHold
  BY DEF FleetInit, ScriptsHold, ScriptsTyped, ScriptHolds, ScriptSteps, NoRuntime
<1>2. edit = [e \in Editors |-> NoEdit]
  BY DEF FleetInit
<1>3. EditsAreRecords
  BY <1>2 DEF EditsAreRecords, NoEdit
<1>4. \A e \in Editors : edit[e].step = "none"
  BY <1>2 DEF NoEdit
<1>5. WiringIsKept
  BY DEF FleetInit, WiringIsKept
<1> QED
  BY <1>1, <1>3, <1>4, <1>5 DEF EditsHold, EditHolds

(* The shelf *)

(* The shelf shows what the deployment wrote, whatever it has of its own. *)
LEMMA ShelfShows == ShelfFollowsDeploys
BY DEF ShelfFollowsDeploys, PublicAgent

-----------------------------------------------------------------------------
(* What the settings wire *)

\* Lists of ARNs without one that occurs twice.
Wires(fleet) == fleet \in [Roles -> Seq(Arns)] /\ \A r \in Roles : IsInjective(fleet[r])

\* What scripts create, what edits ask for and what the file has.
RuntimesAreNumbered ==
    /\ created \in 0..MaxDeploys
    /\ runtime \in [Harnessed -> 0..MaxDeploys] /\ record \in [Harnessed -> 0..MaxDeploys]
    /\ id \in [Harnessed -> 0..MaxDeploys]
EditNames(e) ==
    edit[e].step # "none" =>
      /\ edit[e].op \in {"save", "add", "remove", "clear", "describe"}
      /\ edit[e].role \in Roles /\ (edit[e].op # "clear" => edit[e].arn \in Arns)
      /\ Wires(edit[e].runtimes)
WiringTyped == Wires(wired) /\ RuntimesAreNumbered /\ \A e \in Editors : EditNames(e)

(* A list without repetitions has none when it grows by another member, nor when
   some are left out (add_runtime, remove_runtime). *)
LEMMA StaysInjective ==
    ASSUME NEW list \in Seq(Arns), IsInjective(list)
    PROVE  /\ \A a \in Arns : a \notin ToSet(list) => Append(list, a) \in Seq(Arns) /\ IsInjective(Append(list, a))
           /\ \A set : Only(list, set) \in Seq(Arns) /\ IsInjective(Only(list, set))
<1>1. ASSUME NEW a \in Arns, a \notin ToSet(list)
      PROVE  Append(list, a) \in Seq(Arns) /\ IsInjective(Append(list, a))
  <2> DEFINE n == Len(list)
             long == Append(list, a)
  <2>1. /\ long \in Seq(Arns) /\ n \in Nat /\ DOMAIN long = 1..(n + 1) /\ DOMAIN list = 1..n
        /\ long[n + 1] = a /\ \A i \in 1..n : long[i] = list[i]
    OBVIOUS
  <2>2. \A i \in 1..n : list[i] # a
    BY <1>1, <2>1 DEF ToSet
  <2> HIDE DEF n, long
  <2> SUFFICES ASSUME NEW i \in 1..(n + 1), NEW j \in 1..(n + 1), long[i] = long[j] PROVE i = j
    BY <2>1 DEF IsInjective, long
  <2>3. (i \in 1..n \/ i = n + 1) /\ (j \in 1..n \/ j = n + 1)
    BY <2>1
  <2> QED
    BY <2>1, <2>2, <2>3 DEF IsInjective
<1>2. ASSUME NEW set
      PROVE  Only(list, set) \in Seq(Arns) /\ IsInjective(Only(list, set))
  <2> DEFINE out == Only(list, set)
  <2>1. out \in Seq(Arns) /\ \E pos \in [1..Len(out) -> 1..Len(list)] :
           /\ \A k \in 1..Len(out) : out[k] = list[pos[k]] /\ out[k] \in set
           /\ \A j, k \in 1..Len(out) : j < k => pos[j] < pos[k]
           /\ \A i \in 1..Len(list) : list[i] \in set => \E k \in 1..Len(out) : pos[k] = i
    BY OnlyPicks
  <2>2. PICK pos \in [1..Len(out) -> 1..Len(list)] :
           /\ \A k \in 1..Len(out) : out[k] = list[pos[k]]
           /\ \A j, k \in 1..Len(out) : j < k => pos[j] < pos[k]
    BY <2>1
  <2>3. DOMAIN out = 1..Len(out) /\ Len(out) \in Nat /\ DOMAIN list = 1..Len(list) /\ Len(list) \in Nat
    BY <2>1
  <2> HIDE DEF out
  <2>4. ASSUME NEW i \in 1..Len(out), NEW j \in 1..Len(out), out[i] = out[j], i # j PROVE FALSE
    <3>1. list[pos[i]] = list[pos[j]] /\ pos[i] \in 1..Len(list) /\ pos[j] \in 1..Len(list)
      BY <2>2, <2>4
    <3>2. pos[i] = pos[j]
      BY <3>1, <2>3 DEF IsInjective
    <3>3. i < j \/ j < i
      BY <2>3, <2>4
    <3>4. pos[i] < pos[j] \/ pos[j] < pos[i]
      BY <3>3, <2>2
    <3> QED
      BY <3>1, <3>2, <3>4, <2>3
  <2> QED
    BY <2>1, <2>3, <2>4 DEF IsInjective, out
<1> QED
  BY <1>1, <1>2

LEMMA EditedWires ==
    ASSUME NEW ed, NEW fleet, Wires(fleet), ed.role \in Roles,
           ed.op \in {"save", "add", "remove", "clear", "describe"}, ed.op # "clear" => ed.arn \in Arns
    PROVE  Wires(Edited(ed, fleet))
<1> DEFINE old == fleet[ed.role]
<1>0. old \in Seq(Arns) /\ IsInjective(old)
  BY DEF Wires
<1>1. \A w \in Seq(Arns) : IsInjective(w) => Wires([fleet EXCEPT ![ed.role] = w])
  BY DEF Wires
<1>2. CASE ed.op = "save"
  <2>1. <<ed.arn>> \in Seq(Arns) /\ IsInjective(<<ed.arn>>)
    BY <1>2 DEF IsInjective
  <2> QED
    BY <1>1, <1>2, <2>1 DEF Edited
<1>3. CASE ed.op = "add"
  BY <1>0, <1>1, <1>3, StaysInjective DEF Edited
<1>4. CASE ed.op = "remove"
  BY <1>0, <1>1, <1>4, StaysInjective DEF Edited
<1>5. CASE ed.op = "clear"
  <2>1. <<>> \in Seq(Arns) /\ IsInjective(<<>>)
    BY DEF IsInjective
  <2> QED
    BY <1>1, <1>5, <2>1 DEF Edited
<1>6. CASE ed.op = "describe"
  BY <1>6 DEF Edited
<1> QED
  BY <1>2, <1>3, <1>4, <1>5, <1>6

(* Nothing repeats itself in the settings, and nothing names an unknown runtime. *)
LEMMA WiringTypedStep ==
    ASSUME WiringTyped, EditsAreRecords, [FleetNext]_fleetVars
    PROVE  WiringTyped'
<1> USE DEF NoRuntime
<1>0. /\ Wires(wired) /\ RuntimesAreNumbered /\ \A e \in Editors : EditNames(e)
      /\ edit = [e \in Editors |-> edit[e]]
  BY DEF WiringTyped, EditsAreRecords
<1>1. Wires(Nothing)
  BY DEF Wires, Nothing, IsInjective
<1>2. ASSUME NEW e \in Editors, edit' = [edit EXCEPT ![e] = NoEdit]
      PROVE  \A f \in Editors : EditNames(f)'
  BY <1>0, <1>2 DEF EditNames, NoEdit
<1>3. ASSUME NEW e \in Editors, EditBegins(e)
      PROVE  WiringTyped'
  <2>1. PICK op \in {"save", "add", "remove", "clear", "describe"}, r \in Roles, a \in Pasted \cup 0..created :
          /\ (a = NoRuntime) <=> (op = "clear")
          /\ edit' = [edit EXCEPT ![e] = [step |-> "read", op |-> op, role |-> r, arn |-> a,
                                       runtimes |-> wired, descs |-> described]]
    BY <1>3 DEF EditBegins
  <2>2. op # "clear" => a \in Arns
    <3>1. MaxDeploys \in Nat
      BY FleetAssumption
    <3> QED
      BY <2>1, <3>1, <1>0 DEF RuntimesAreNumbered, Arns
  <2>3. \A f \in Editors : EditNames(f)'
    BY <1>0, <2>1, <2>2 DEF EditNames
  <2>4. UNCHANGED <<wired, created, runtime, record, id>>
    BY <1>3 DEF EditBegins, deployment
  <2> QED
    BY <1>0, <2>3, <2>4 DEF WiringTyped, RuntimesAreNumbered
<1>4. ASSUME NEW e \in Editors, EditOpens(e)
      PROVE  WiringTyped'
  <2> DEFINE ed == edit[e]
             descs == IF ed.op = "describe" THEN ed.descs ELSE described
             alters == [ed EXCEPT !.step = "open", !.runtimes = Written(ed),
                                  !.descs = Redescribed(ed, ed.runtimes, descs)]
  <2>1. /\ ed.step = "read" /\ wired' = Nothing /\ UNCHANGED <<created, runtime, record, id>>
        /\ edit' = [edit EXCEPT ![e] = IF RemovesFile(ed, ed.runtimes) THEN NoEdit ELSE alters]
    BY <1>4 DEF EditOpens, deployment
  <2>2. Wires(Written(ed))
    BY <1>0, <2>1, EditedWires DEF EditNames, Written
  <2>3. CASE RemovesFile(ed, ed.runtimes)
    BY <1>0, <1>1, <1>2, <2>1, <2>3 DEF WiringTyped, RuntimesAreNumbered
  <2>4. CASE ~RemovesFile(ed, ed.runtimes)
    <3> DEFINE q == Redescribed(ed, ed.runtimes, descs)
               w == Written(ed)
    <3>1. ed = [step |-> ed.step, op |-> ed.op, role |-> ed.role, arn |-> ed.arn,
                runtimes |-> ed.runtimes, descs |-> ed.descs]
      BY DEF EditsAreRecords
    <3>2. edit' = [edit EXCEPT ![e] = alters]
      BY <2>1, <2>4
    <3>b. alters = [ed EXCEPT !.step = "open", !.runtimes = w, !.descs = q]
      OBVIOUS
    <3> HIDE DEF q, w, descs, alters, ed
    <3>a. alters = [step |-> "open", op |-> ed.op, role |-> ed.role, arn |-> ed.arn, runtimes |-> w, descs |-> q]
      BY <3>1, <3>b, EditAltered
    <3>3. edit' = [edit EXCEPT ![e] = [step |-> "open", op |-> ed.op, role |-> ed.role, arn |-> ed.arn,
                                       runtimes |-> w, descs |-> q]]
      BY <3>2, <3>a
    <3>4. \A f \in Editors : EditNames(f)'
      BY <1>0, <2>1, <2>2, <3>3 DEF EditNames, w, ed
    <3> QED
      BY <1>0, <1>1, <2>1, <3>4 DEF WiringTyped, RuntimesAreNumbered
  <2> QED
    BY <2>3, <2>4
<1>5. ASSUME NEW e \in Editors, EditDumps(e)
      PROVE  WiringTyped'
  <2>1. /\ edit[e].step = "open" /\ wired' = edit[e].runtimes /\ edit' = [edit EXCEPT ![e] = NoEdit]
        /\ UNCHANGED <<created, runtime, record, id>>
    BY <1>5 DEF EditDumps, deployment
  <2>2. Wires(wired)'
    BY <1>0, <2>1 DEF EditNames
  <2> QED
    BY <1>0, <1>2, <2>1, <2>2 DEF WiringTyped, RuntimesAreNumbered
<1>6. ASSUME NEW e \in Editors, EditResets(e)
      PROVE  WiringTyped'
  <2>1. wired' = Nothing /\ UNCHANGED <<edit, created, runtime, record, id>>
    BY <1>6 DEF EditResets, deployment
  <2> QED
    BY <1>0, <1>1, <2>1 DEF WiringTyped, RuntimesAreNumbered, EditNames
<1>7. ASSUME NEW e \in Editors, EditCut(e)
      PROVE  WiringTyped'
  <2>1. edit' = [edit EXCEPT ![e] = NoEdit] /\ UNCHANGED <<wired, created, runtime, record, id>>
    BY <1>7 DEF EditCut, deployment
  <2> QED
    BY <1>0, <1>2, <2>1 DEF WiringTyped, RuntimesAreNumbered
<1>8. ASSUME NEW r \in Harnessed, Scripts(r)
      PROVE  WiringTyped'
  <2>0. MaxDeploys \in Nat
    BY FleetAssumption
  <2>1. UNCHANGED <<wired, edit>>
    BY <1>8 DEF Scripts, wiring, DeployStarts, DeployUpdates, DeployCreates, DeployReady,
       DeployOpens, DeployRecords, CleanupStarts, CleanupDeletes, CleanupDeletesRole, CleanupForgets, ScriptStops
  <2>2. RuntimesAreNumbered'
    <3> USE DEF RuntimesAreNumbered
    <3>1. CASE DeployStarts(r) \/ DeployReady(r) \/ CleanupDeletesRole(r)
      BY <1>0, <3>1 DEF DeployStarts, DeployReady, CleanupDeletesRole
    <3>2. CASE DeployUpdates(r)
      BY <1>0, <3>2 DEF DeployUpdates, Found
    <3>3. CASE DeployCreates(r)
      BY <1>0, <2>0, <3>3 DEF DeployCreates
    <3>4. CASE DeployRecords(r)
      BY <1>0, <2>0, <3>4 DEF DeployRecords
    <3>40. CASE DeployOpens(r)
      BY <1>0, <2>0, <3>40 DEF DeployOpens, NoRuntime
    <3>5. CASE CleanupStarts(r)
      BY <1>0, <3>5 DEF CleanupStarts
    <3>6. CASE CleanupDeletes(r)
      BY <1>0, <2>0, <3>6 DEF CleanupDeletes
    <3>7. CASE CleanupForgets(r)
      BY <1>0, <2>0, <3>7 DEF CleanupForgets
    <3>8. CASE ScriptStops(r)
      BY <1>0, <2>0, <3>8 DEF ScriptStops
    <3> QED
      BY <1>8, <3>1, <3>2, <3>3, <3>4, <3>40, <3>5, <3>6, <3>7, <3>8 DEF Scripts
  <2> QED
    BY <1>0, <2>1, <2>2 DEF WiringTyped, EditNames
<1>9. CASE UNCHANGED <<deployment, wiring>>
  BY <1>0, <1>9 DEF deployment, wiring, WiringTyped, RuntimesAreNumbered, EditNames
<1> QED
  BY <1>3, <1>4, <1>5, <1>6, <1>7, <1>8, <1>9 DEF FleetNext, fleetVars, PickReads, PickTakes

(* Dispatches *)

\* How many dispatches ago a place of a fleet of n was last due, when the next is after idx.
Ago(idx, k, n) == IF k =< idx THEN idx - k ELSE idx - k + n

\* The places due last, m of them, have had one turn more than the others.
InTurn(count, arns, idx, m) ==
    \A k \in 1..Len(arns) : count[arns[k]] = IF Ago(idx, k, Len(arns)) < m THEN 1 ELSE 0

Spread(r) ==
    LET arns == Instances(r) IN
    arns # <<>> /\ IsInjective(arns) =>
      \E m \in 0..(Len(arns) - 1) : InTurn(turns[r], arns, cursor[r] % Len(arns), m)

PicksTyped ==
    /\ cursor \in [Roles -> Nat] /\ turns \in [Roles -> [Arns -> Nat]]
    /\ hits = [d \in Dispatchers |-> hits[d]]
    /\ \A d \in Dispatchers : hits[d].arns \in Seq(Arns) /\ (hits[d].arns # <<>> => hits[d].role \in Roles)
SpreadsEvenly == WiringTyped /\ PicksTyped /\ \A r \in Roles : Spread(r)

(* One more dispatch to the fleet whose turns are spread (pick). *)
LEMMA OneMoreTurn ==
    ASSUME NEW arns \in Seq(Arns), arns # <<>>, IsInjective(arns), NEW count \in [Arns -> Nat],
           NEW idx \in 0..(Len(arns) - 1), NEW m \in 0..(Len(arns) - 1), InTurn(count, arns, idx, m)
    PROVE  LET new == Levelled(OneMore(count, arns[idx + 1]), arns)
               next == IF idx + 1 = Len(arns) THEN 0 ELSE idx + 1
           IN  new \in [Arns -> Nat] /\ \E w \in 0..(Len(arns) - 1) : InTurn(new, arns, next, w)
<1> DEFINE n == Len(arns)
           next == IF idx + 1 = n THEN 0 ELSE idx + 1
           more == OneMore(count, arns[idx + 1])
           new == Levelled(more, arns)
<1>1. /\ n \in Nat /\ n > 0 /\ DOMAIN arns = 1..n /\ \A k \in 1..n : arns[k] \in Arns
      /\ idx \in 0..(n - 1) /\ m \in 0..(n - 1) /\ idx + 1 \in 1..n
  OBVIOUS
<1>2. \A k \in 1..n : count[arns[k]] = IF Ago(idx, k, n) < m THEN 1 ELSE 0
  BY DEF InTurn
<1>3. \A j, k \in 1..n : arns[j] = arns[k] => j = k
  BY <1>1 DEF IsInjective
<1> HIDE DEF n
<1>4. more \in [Arns -> Nat] /\ \A k \in 1..n : more[arns[k]] = count[arns[k]] + (IF k = idx + 1 THEN 1 ELSE 0)
  <2>1. more \in [Arns -> Nat] /\ more[arns[idx + 1]] = count[arns[idx + 1]] + 1
    BY <1>1 DEF OneMore
  <2>2. \A k \in 1..n : k # idx + 1 => arns[k] # arns[idx + 1]
    BY <1>1, <1>3
  <2> QED
    BY <1>1, <2>1, <2>2 DEF OneMore
<1> HIDE DEF more
<1>5. Ago(idx, idx + 1, n) = n - 1
  BY <1>1 DEF Ago
<1>6. \A k \in 1..n : Ago(idx, k, n) \in 0..(n - 1)
  BY <1>1 DEF Ago
<1>7. \A k \in 1..n : Ago(next, k, n) = IF k = idx + 1 THEN 0 ELSE Ago(idx, k, n) + 1
  BY <1>1 DEF Ago
<1>8. next \in 0..(n - 1) /\ \A k \in 1..n : Ago(next, k, n) \in 0..(n - 1)
  BY <1>1 DEF Ago
<1> HIDE DEF next
<1>9. \A k \in 1..n : more[arns[k]] = IF Ago(next, k, n) < m + 1 THEN 1 ELSE 0
  <2> TAKE k \in 1..n
  <2>1. CASE k = idx + 1
    BY <2>1, <1>1, <1>2, <1>4, <1>5, <1>7
  <2>2. CASE k # idx + 1
    <3>1. more[arns[k]] = IF Ago(idx, k, n) < m THEN 1 ELSE 0
      BY <2>2, <1>2, <1>4
    <3>2. Ago(next, k, n) = Ago(idx, k, n) + 1 /\ Ago(idx, k, n) \in 0..(n - 1)
      BY <2>2, <1>6, <1>7
    <3> QED
      BY <3>1, <3>2, <1>1
  <2> QED
    BY <2>1, <2>2
<1>10. ToSet(arns) = {arns[k] : k \in 1..n} /\ ToSet(arns) \subseteq Arns
  BY <1>1 DEF ToSet
<1>11. CASE m = n - 1
  <2>1. \A k \in 1..n : more[arns[k]] = 1
    BY <1>1, <1>8, <1>9, <1>11
  <2>2. \A a \in ToSet(arns) : more[a] = 1
    BY <2>1, <1>10
  <2>3. new = [a \in Arns |-> IF a \in ToSet(arns) THEN more[a] - 1 ELSE 0]
    BY <2>2 DEF Levelled
  <2> HIDE DEF new
  <2>4. \A a \in Arns : new[a] = 0
    BY <2>2, <2>3
  <2>5. new \in [Arns -> Nat]
    <3>1. new = [a \in Arns |-> new[a]]
      BY <2>3
    <3> QED
      BY <2>4, <3>1
  <2>6. \A k \in 1..n : new[arns[k]] = 0 /\ ~(Ago(next, k, n) < 0)
    BY <2>4, <1>1, <1>8
  <2>7. InTurn(new, arns, next, 0) /\ 0 \in 0..(n - 1)
    BY <2>6, <1>1 DEF InTurn, n
  <2>8. new \in [Arns -> Nat] /\ \E w \in 0..(n - 1) : InTurn(new, arns, next, w)
    BY <2>5, <2>7
  <2> QED
    BY <2>8 DEF new, next, more, n
<1>12. CASE m # n - 1
  <2>1. PICK k \in 1..n : Ago(next, k, n) = n - 1
    <3>1. next + 1 \in 1..n /\ Ago(next, next + 1, n) = n - 1
      BY <1>1, <1>8 DEF Ago
    <3> QED
      BY <3>1
  <2>2. more[arns[k]] = 0 /\ arns[k] \in ToSet(arns)
    BY <2>1, <1>1, <1>9, <1>10, <1>12
  <2>3. new = more
    BY <2>2 DEF Levelled
  <2>4. InTurn(more, arns, next, m + 1)
    BY <1>9 DEF InTurn, n
  <2>5. m + 1 \in 0..(n - 1)
    BY <1>1, <1>12
  <2>6. new \in [Arns -> Nat] /\ \E w \in 0..(n - 1) : InTurn(new, arns, next, w)
    BY <2>3, <2>4, <2>5, <1>4
  <2> QED
    BY <2>6 DEF new, next, more, n
<1> QED
  BY <1>11, <1>12

\* The rest of a number below n by n, and of n.
LEMMA RestOf == \A n \in Nat \ {0} : n % n = 0 /\ \A x \in 0..(n - 1) : x % n = x
OBVIOUS

LEMMA RestIsBelow == \A n \in Nat \ {0}, x \in Nat : x % n \in 0..(n - 1)
OBVIOUS

InstancesAreArns ==
    \A r \in Roles : /\ Instances(r) \in Seq(Arns)
                     /\ IsInjective(Env[r]) => IsInjective(Instances(r))

LEMMA FleetsAreArns == WiringTyped => InstancesAreArns
<1> SUFFICES ASSUME WiringTyped, NEW r \in Roles
             PROVE  /\ Instances(r) \in Seq(Arns)
                    /\ IsInjective(Env[r]) => IsInjective(Instances(r))
  BY DEF InstancesAreArns
<1>1. Env[r] \in Seq(Arns)
  <2>1. Env[r] \in Seq(Pasted) /\ Pasted \subseteq Arns
    BY FleetAssumption DEF Arns
  <2> QED
    BY <2>1
<1>2. wired[r] \in Seq(Arns) /\ IsInjective(wired[r])
  BY DEF WiringTyped, Wires
<1>3. Discovered(r) \in Seq(Arns) /\ IsInjective(Discovered(r))
  <2>1. <<>> \in Seq(Arns) /\ IsInjective(<<>>)
    BY DEF IsInjective
  <2>2. r \in Harnessed /\ record[r] # NoRuntime => record[r] \in Arns
    BY FleetAssumption DEF WiringTyped, RuntimesAreNumbered, NoRuntime, Arns
  <2>3. \A a \in Arns : <<a>> \in Seq(Arns) /\ IsInjective(<<a>>)
    BY DEF IsInjective
  <2> QED
    BY <2>1, <2>2, <2>3 DEF Discovered
<1> QED
  BY <1>1, <1>2, <1>3 DEF Instances

(* Between picks a thread has no fleet. *)
LEMMA NoHits == LET none == [role |-> "", arns |-> <<>>] IN none.arns = <<>> /\ none.arns \in Seq(Arns)
<1>1. \A w : [role |-> "", arns |-> w].arns = w
  OBVIOUS
<1>2. [role |-> "", arns |-> <<>>].arns = <<>>
  BY <1>1, Zenon
<1> QED
  BY <1>2

LEMMA FleetsStayArns == WiringTyped' => InstancesAreArns'
BY FleetsAreArns, PTL

LEMMA LevelledCounts ==
    ASSUME NEW count \in [Arns -> Nat], NEW arns \in Seq(Arns)
    PROVE  Levelled(count, arns) \in [Arns -> Nat]
<1> DEFINE new == [a \in Arns |-> IF a \in ToSet(arns) THEN count[a] - 1 ELSE 0]
<1>1. CASE \A a \in ToSet(arns) : count[a] > 0
  <2>1. Levelled(count, arns) = new
    BY <1>1 DEF Levelled
  <2>2. \A a \in Arns : (IF a \in ToSet(arns) THEN count[a] - 1 ELSE 0) \in Nat
    BY <1>1
  <2>3. new \in [Arns -> Nat]
    BY <2>2
  <2> QED
    BY <2>1, <2>3
<1>2. CASE ~\A a \in ToSet(arns) : count[a] > 0
  BY <1>2 DEF Levelled
<1> QED
  BY <1>1, <1>2

(* Counts that start again are spread, wherever the cursor is. *)
LEMMA NoTurns ==
    ASSUME NEW arns \in Seq(Arns), arns # <<>>, NEW count, \A a \in Arns : count[a] = 0, NEW at \in Nat
    PROVE  \E m \in 0..(Len(arns) - 1) : InTurn(count, arns, at % Len(arns), m)
<1> DEFINE n == Len(arns)
           idx == at % n
<1>1. n \in Nat \ {0} /\ \A k \in 1..n : arns[k] \in Arns
  OBVIOUS
<1>2. InTurn(count, arns, at % n, 0)
  <2> HIDE DEF n
  <2>1. idx \in 0..(n - 1)
    BY <1>1, RestIsBelow
  <2> HIDE DEF idx
  <2>2. \A k \in 1..n : ~(Ago(idx, k, n) < 0)
    BY <1>1, <2>1 DEF Ago
  <2>3. InTurn(count, arns, idx, 0)
    BY <1>1, <2>2 DEF InTurn, n
  <2> QED
    BY <2>3 DEF idx
<1>3. 0 \in 0..(n - 1)
  BY <1>1
<1> QED
  BY <1>2, <1>3

LEMMA RecountedSpreads ==
    ASSUME SpreadsEvenly, WiringTyped', Recounted, cursor' = cursor, hits' = hits
    PROVE  SpreadsEvenly'
<1>1. PicksTyped'
  <2>1. \A r \in Roles : turns'[r] \in [Arns -> Nat]
    BY DEF Recounted, SpreadsEvenly, PicksTyped
  <2>2. turns' = [r \in Roles |-> turns'[r]]
    BY DEF Recounted
  <2> QED
    BY <2>1, <2>2 DEF SpreadsEvenly, PicksTyped
<1>2. ASSUME NEW r \in Roles
      PROVE  Spread(r)'
  <2>1. CASE Instances(r)' = Instances(r)
    <3>1. turns'[r] = turns[r]
      BY <2>1 DEF Recounted
    <3>2. Spread(r)
      BY DEF SpreadsEvenly
    <3> QED
      BY <2>1, <3>1, <3>2 DEF Spread
  <2>2. CASE Instances(r)' # Instances(r)
    <3>1. \A a \in Arns : turns'[r][a] = 0
      BY <2>2 DEF Recounted
    <3>2. Instances(r)' \in Seq(Arns)
      BY FleetsStayArns DEF InstancesAreArns
    <3>3. cursor'[r] \in Nat
      BY <1>1 DEF PicksTyped
    <3>4. Instances(r)' # <<>> => \E m \in 0..(Len(Instances(r)') - 1) : InTurn(turns'[r], Instances(r)', cursor'[r] % Len(Instances(r)'), m)
      BY <3>1, <3>2, <3>3, NoTurns
    <3> QED
      BY <3>4 DEF Spread, InTurn
  <2> QED
    BY <2>1, <2>2
<1> QED
  BY <1>1, <1>2 DEF SpreadsEvenly

LEMMA PickTakesSpreads ==
    ASSUME SpreadsEvenly, WiringTyped', NEW d \in Dispatchers, PickTakes(d)
    PROVE  SpreadsEvenly'
<1> DEFINE r == hits[d].role
           arns == hits[d].arns
           n == Len(arns)
           idx == NextIndex(r, n)
           next == IF idx + 1 = n THEN 0 ELSE idx + 1
           more == OneMore(turns[r], arns[idx + 1])
           new == IF arns = Instances(r) THEN Levelled(more, arns) ELSE [a \in Arns |-> 0]
<1>1. /\ arns # <<>> /\ cursor' = [cursor EXCEPT ![r] = idx + 1]
      /\ turns' = [turns EXCEPT ![r] = new]
      /\ hits' = [hits EXCEPT ![d] = [role |-> "", arns |-> <<>>]]
      /\ UNCHANGED <<wired, record>>
  <2>1. arns # <<>> /\ cursor' = [cursor EXCEPT ![r] = idx + 1]
    BY DEF PickTakes
  <2>2. turns' = [turns EXCEPT ![r] = new]
    BY DEF PickTakes
  <2>3. /\ hits' = [hits EXCEPT ![d] = [role |-> "", arns |-> <<>>]]
        /\ UNCHANGED <<wired, record>>
    BY DEF PickTakes, deployment, wiring
  <2> HIDE DEF new
  <2> QED
    BY <2>1, <2>2, <2>3
<1>2. /\ cursor \in [Roles -> Nat] /\ turns \in [Roles -> [Arns -> Nat]]
      /\ hits = [e \in Dispatchers |-> hits[e]]
      /\ \A e \in Dispatchers : hits[e].arns \in Seq(Arns) /\ (hits[e].arns # <<>> => hits[e].role \in Roles)
      /\ \A q \in Roles : Spread(q)
  BY DEF SpreadsEvenly, PicksTyped
<1>3. r \in Roles /\ arns \in Seq(Arns) /\ n \in Nat \ {0} /\ cursor[r] \in Nat /\ turns[r] \in [Arns -> Nat]
  <2>1. r \in Roles /\ arns \in Seq(Arns) /\ arns # <<>>
    <3> HIDE DEF new
    <3> QED
      BY <1>1, <1>2
  <2> HIDE DEF r, arns
  <2> QED
    BY <2>1, <1>2
<1>4. \A q \in Roles : Instances(q)' = Instances(q)
  BY <1>1 DEF Instances, Discovered
<1> HIDE DEF r, arns
<1>5. idx \in 0..(n - 1) /\ idx = cursor[r] % n
  BY <1>3, RestIsBelow DEF NextIndex
<1>6. (idx + 1) % n = next /\ idx + 1 \in Nat
  <2> HIDE DEF idx, n
  <2> QED
    <3>1. CASE idx + 1 = n
      BY <3>1, <1>3, <1>5, RestOf
    <3>2. CASE idx + 1 # n
      <4> DEFINE x == idx + 1
      <4>1. x \in 0..(n - 1)
        BY <3>2, <1>3, <1>5
      <4> HIDE DEF x
      <4>2. x % n = x
        BY <4>1, <1>3, RestOf
      <4> QED
        BY <4>1, <4>2, <3>2 DEF x
    <3> QED
      BY <3>1, <3>2
<1>7. more \in [Arns -> Nat]
  <2>1. arns[idx + 1] \in Arns
    BY <1>3, <1>5
  <2> HIDE DEF idx
  <2> QED
    BY <1>3, <2>1 DEF OneMore
<1>8. new \in [Arns -> Nat]
  <2> HIDE DEF more
  <2> QED
    BY <1>3, <1>7, LevelledCounts
<1> HIDE DEF idx, next
<1>9. PicksTyped'
  <2> HIDE DEF new
  <2> QED
    <3>1. cursor' \in [Roles -> Nat]
      BY <1>1, <1>2, <1>3, <1>6
    <3>2. turns' \in [Roles -> [Arns -> Nat]]
      BY <1>1, <1>2, <1>3, <1>8
    <3>3. /\ hits' = [e \in Dispatchers |-> hits'[e]]
          /\ \A e \in Dispatchers : hits'[e].arns \in Seq(Arns) /\ (hits'[e].arns # <<>> => hits'[e].role \in Roles)
      <4>1. /\ hits' = [hits EXCEPT ![d] = [role |-> "", arns |-> <<>>]]
            /\ hits = [e \in Dispatchers |-> hits[e]]
        BY <1>1, <1>2
      <4>2. \A e \in Dispatchers : hits'[e] = IF e = d THEN [role |-> "", arns |-> <<>>] ELSE hits[e]
        BY <4>1
      <4>3. hits' = [e \in Dispatchers |-> hits'[e]]
        BY <4>1
      <4>4. ASSUME NEW e \in Dispatchers
            PROVE  hits'[e].arns \in Seq(Arns) /\ (hits'[e].arns # <<>> => hits'[e].role \in Roles)
        <5>1. CASE e = d
          <6>1. hits'[e] = [role |-> "", arns |-> <<>>]
            BY <4>2, <5>1
          <6> QED
            BY <6>1, NoHits
        <5>2. CASE e # d
          <6>1. hits'[e] = hits[e]
            BY <4>2, <5>2
          <6>2. hits[e].arns \in Seq(Arns) /\ (hits[e].arns # <<>> => hits[e].role \in Roles)
            BY <1>2
          <6> QED
            BY <6>1, <6>2
        <5> QED
          BY <5>1, <5>2
      <4> QED
        BY <4>3, <4>4
    <3> QED
      BY <3>1, <3>2, <3>3 DEF PicksTyped
<1>10. ASSUME NEW q \in Roles
       PROVE  Spread(q)'
  <2>1. CASE q # r
    <3>1. cursor'[q] = cursor[q] /\ turns'[q] = turns[q] /\ Instances(q)' = Instances(q)
      <4> HIDE DEF new
      <4> QED
        BY <2>1, <1>1, <1>2, <1>3, <1>4
    <3>2. Spread(q)
      BY <1>2
    <3> QED
      BY <3>1, <3>2 DEF Spread
  <2>2. CASE q = r /\ arns = Instances(r)
    <3>1. cursor'[q] % n = next /\ turns'[q] = new /\ Instances(q)' = arns
      <4>1. cursor'[r] = idx + 1 /\ turns'[r] = new
        <5> HIDE DEF new
        <5> QED
          BY <1>1, <1>2, <1>3
      <4> QED
        BY <4>1, <2>2, <1>4, <1>6
    <3>2. new = Levelled(more, arns)
      BY <2>2
    <3>3. SUFFICES ASSUME IsInjective(arns)
                   PROVE  \E m \in 0..(n - 1) : InTurn(new, arns, next, m)
      <4> HIDE DEF new, n
      <4>1. (\E m \in 0..(n - 1) : InTurn(turns'[q], arns, cursor'[q] % n, m)) <=> \E m \in 0..(n - 1) : InTurn(new, arns, next, m)
        BY <3>1
      <4> QED
        BY <3>1, <4>1 DEF Spread, n
    <3>4. PICK m \in 0..(n - 1) : InTurn(turns[r], arns, idx, m)
      <4>1. Spread(r)
        BY <1>2, <1>3
      <4> QED
        BY <4>1, <1>1, <1>5, <2>2, <3>3 DEF Spread
    <3>5. \E w \in 0..(n - 1) : InTurn(Levelled(more, arns), arns, next, w)
      BY <1>1, <1>3, <1>5, <3>3, <3>4, OneMoreTurn DEF next
    <3> QED
      BY <3>2, <3>5
  <2>3. CASE q = r /\ arns # Instances(r)
    <3>1. \A a \in Arns : turns'[q][a] = 0
      BY <2>3, <1>1, <1>2, <1>3
    <3>2. Instances(q)' \in Seq(Arns) /\ cursor'[q] \in Nat
      BY <1>9, FleetsStayArns DEF PicksTyped, InstancesAreArns
    <3>3. Instances(q)' # <<>> => \E m \in 0..(Len(Instances(q)') - 1) : InTurn(turns'[q], Instances(q)', cursor'[q] % Len(Instances(q)'), m)
      BY <3>1, <3>2, NoTurns
    <3> QED
      BY <3>3 DEF Spread, InTurn
  <2> QED
    BY <2>1, <2>2, <2>3
<1> QED
  BY <1>9, <1>10 DEF SpreadsEvenly

LEMMA SpreadsEvenlyStep ==
    ASSUME SpreadsEvenly, EditsAreRecords, [FleetNext]_fleetVars
    PROVE  SpreadsEvenly'
<1>1. WiringTyped'
  BY WiringTypedStep DEF SpreadsEvenly
<1>2. CASE Recounted /\ UNCHANGED <<cursor, hits>>
  BY <1>1, <1>2, RecountedSpreads
<1>3. CASE UNCHANGED <<wired, record, cursor, turns>> /\ PicksTyped'
  <2>1. \A r \in Roles : Instances(r)' = Instances(r)
    BY <1>3 DEF Instances, Discovered
  <2> QED
    BY <1>1, <1>3, <2>1 DEF SpreadsEvenly, Spread
<1>4. CASE UNCHANGED <<wired, record, dispatch>>
  BY <1>3, <1>4 DEF dispatch, SpreadsEvenly, PicksTyped
<1>5. ASSUME NEW r \in Harnessed, Scripts(r)
      PROVE  SpreadsEvenly'
  <2>1. CASE DeployOpens(r) \/ DeployRecords(r) \/ CleanupForgets(r)
    BY <1>2, <2>1 DEF DeployOpens, DeployRecords, CleanupForgets
  <2>2. CASE ~(DeployOpens(r) \/ DeployRecords(r) \/ CleanupForgets(r))
    BY <1>4, <1>5, <2>2 DEF Scripts, wiring, DeployStarts, DeployUpdates, DeployCreates, DeployReady,
       CleanupStarts, CleanupDeletes, CleanupDeletesRole, ScriptStops
  <2> QED
    BY <2>1, <2>2
<1>6. ASSUME NEW e \in Editors, EditBegins(e) \/ EditCut(e)
      PROVE  SpreadsEvenly'
  BY <1>4, <1>6 DEF EditBegins, EditCut, deployment
<1>7. ASSUME NEW e \in Editors, EditOpens(e) \/ EditDumps(e) \/ EditResets(e)
      PROVE  SpreadsEvenly'
  BY <1>2, <1>7 DEF EditOpens, EditDumps, EditResets
<1>8. ASSUME NEW d \in Dispatchers, PickReads(d)
      PROVE  SpreadsEvenly'
  <2>1. PICK r \in Roles : Instances(r) # <<>> /\
           hits' = [hits EXCEPT ![d] = [role |-> r, arns |-> Instances(r)]]
    BY <1>8 DEF PickReads
  <2>2. Instances(r) \in Seq(Arns)
    BY FleetsAreArns DEF SpreadsEvenly, InstancesAreArns
  <2>3. PicksTyped'
    BY <1>8, <2>1, <2>2 DEF PickReads, SpreadsEvenly, PicksTyped
  <2> QED
    BY <1>3, <1>8, <2>3 DEF PickReads, deployment, wiring
<1>9. ASSUME NEW d \in Dispatchers, PickTakes(d)
      PROVE  SpreadsEvenly'
  BY <1>1, <1>9, PickTakesSpreads
<1>10. CASE UNCHANGED fleetVars
  BY <1>4, <1>10 DEF fleetVars, deployment, wiring
<1> QED
  BY <1>5, <1>6, <1>7, <1>8, <1>9, <1>10 DEF FleetNext

LEMMA SpreadStart == FleetInit => SpreadsEvenly
<1> SUFFICES ASSUME FleetInit
             PROVE  SpreadsEvenly
  OBVIOUS
<1>0. MaxDeploys \in Nat
  BY FleetAssumption
<1>1. Wires(wired)
  <2>1. wired = [r \in Roles |-> <<>>]
    BY DEF FleetInit
  <2>2. <<>> \in Seq(Arns) /\ IsInjective(<<>>)
    BY DEF IsInjective
  <2> QED
    BY <2>1, <2>2 DEF Wires
<1>2. WiringTyped
  <2>1. RuntimesAreNumbered
    <3>1. created = 0 /\ runtime = [r \in Harnessed |-> 0] /\ record = [r \in Harnessed |-> 0]
          /\ id = [r \in Harnessed |-> 0]
      BY DEF FleetInit, NoRuntime
    <3>2. 0 \in 0..MaxDeploys
      BY <1>0
    <3> QED
      BY <3>1, <3>2 DEF RuntimesAreNumbered
  <2>2. \A e \in Editors : edit[e].step = "none"
    BY DEF FleetInit, NoEdit
  <2> QED
    BY <1>1, <2>1, <2>2 DEF WiringTyped, EditNames
<1>3. PicksTyped
  <2>1. cursor \in [Roles -> Nat] /\ turns \in [Roles -> [Arns -> Nat]]
    BY DEF FleetInit
  <2>2. hits = [d \in Dispatchers |-> [role |-> "", arns |-> <<>>]]
    BY DEF FleetInit
  <2>3. \A d \in Dispatchers : hits[d] = [role |-> "", arns |-> <<>>]
    BY <2>2
  <2>4. hits = [d \in Dispatchers |-> hits[d]]
    BY <2>2
  <2>5. \A d \in Dispatchers : hits[d].arns = <<>> /\ hits[d].arns \in Seq(Arns)
    BY <2>3, NoHits
  <2> QED
    BY <2>1, <2>4, <2>5 DEF PicksTyped
<1>4. ASSUME NEW r \in Roles
      PROVE  Spread(r)
  <2>1. /\ Instances(r) \in Seq(Arns) /\ cursor[r] \in Nat
    BY <1>2, <1>3, FleetsAreArns DEF InstancesAreArns, PicksTyped
  <2>2. \A a \in Arns : turns[r][a] = 0
    BY DEF FleetInit
  <2> QED
    BY <2>1, <2>2, NoTurns DEF Spread
<1> QED
  BY <1>2, <1>3, <1>4 DEF SpreadsEvenly

LEMMA SpreadIsBalanced == SpreadsEvenly => Balanced
<1> SUFFICES ASSUME SpreadsEvenly, NEW r \in Roles, IsInjective(Env[r]),
                    NEW a \in ToSet(Instances(r)), NEW b \in ToSet(Instances(r))
             PROVE  turns[r][a] =< turns[r][b] + 1
  BY DEF Balanced
<1> DEFINE arns == Instances(r)
           n == Len(arns)
<1>1. arns \in Seq(Arns) /\ IsInjective(arns)
  BY FleetsAreArns DEF SpreadsEvenly, InstancesAreArns
<1>2. PICK i \in 1..n, j \in 1..n : a = arns[i] /\ b = arns[j]
  BY <1>1 DEF ToSet
<1>3. arns # <<>>
  BY <1>1, <1>2
<1>4. PICK m \in 0..(n - 1) : InTurn(turns[r], arns, cursor[r] % n, m)
  BY <1>1, <1>3 DEF SpreadsEvenly, Spread
<1> HIDE DEF arns
<1>5. turns[r][a] \in {0, 1} /\ turns[r][b] \in {0, 1}
  BY <1>2, <1>4 DEF InTurn
<1> QED
  BY <1>5

-----------------------------------------------------------------------------
(* The connections *)

DoctorRecords ==
    [step : {"none", "listed", "read", "created", "ready", "notReady"},
     repo : Repos \cup {""}, lacks : BOOLEAN, steady : BOOLEAN]
GitHubTyped ==
    /\ saved \in Repos \cup {""} /\ gateway \in Gateways /\ grant \in [Repos -> Grants]
    /\ doctor \in [Doctors -> DoctorRecords]
KiroTyped == saver \in [Savers -> [step : {"none", "vault", "note"}, key : Keys \cup {NoKey}]]

\* What a doctor that nothing disturbed has seen is still so.
DoctorSaw(d) ==
    LET at == doctor[d].step
        r == doctor[d].repo
    IN  /\ at \in {"listed", "read", "created", "ready"} =>
             r = Config /\ r # NoConfig /\ Answers /\ (~doctor[d].lacks => gateway = "up")
                /\ (doctor[d].lacks => gateway # "up")
        /\ at \in {"read", "created", "ready"} => "read" \in grant[r]
        /\ at \in {"created", "ready"} => MayPush(r)
        /\ at = "ready" => ~doctor[d].lacks
        /\ at = "notReady" =>
             Config = NoConfig \/ gateway # "up" \/ ~Connected \/ ~MayPush(Config)
DoctorsSaw == \A d \in Doctors : doctor[d].steady => DoctorSaw(d)

\* Unless changes of the key met, one request at most makes one.
OneSaver == ~blurred => \A s, u \in Savers : saver[s].step # "none" /\ saver[u].step # "none" => s = u
KeyIsThere ==
    ~blurred => \A s \in Savers :
        saver[s].step = "note" /\ saver[s].key # NoKey => vault # NoKey

(* A report is one of the doctor's. *)
LEMMA Reported ==
    ASSUME GitHubTyped, NEW d \in Doctors,
           DoctorReads(d) \/ DoctorCreates(d) \/ DoctorResets(d)
    PROVE  /\ \E at \in {"read", "created", "ready", "notReady"} :
                doctor' = [doctor EXCEPT ![d].step = at]
           /\ UNCHANGED <<saved, gateway, grant>>
BY DEF DoctorReads, DoctorCreates, DoctorResets, Reports

(* The configuration names a repository, or none. *)
LEMMA ConfigTyped == GitHubTyped => Config \in Repos \cup {""}
BY ConnectionsAssumption DEF GitHubTyped, Config, NoConfig

(* Every step of the connection keeps the types. *)
LEMMA GitHubTypedStep ==
    ASSUME GitHubTyped, [GitHubNext]_github
    PROVE  GitHubTyped'
<1> USE DEF GitHubTyped
<1>1. CASE Turns
  <2>1. saved' \in Repos \cup {""} /\ gateway' \in Gateways /\ grant' \in [Repos -> Grants]
    BY <1>1 DEF Turns
  <2>2. doctor' \in [Doctors -> DoctorRecords]
    BY <1>1 DEF Turns, DoctorRecords
  <2> QED
    BY <2>1, <2>2
<1>2. ASSUME NEW d \in Doctors, DoctorLists(d)
      PROVE  GitHubTyped'
  <2> DEFINE rec == [step |-> IF Config # NoConfig /\ Answers THEN "listed" ELSE "notReady",
                     repo |-> Config, lacks |-> gateway = "stale", steady |-> TRUE]
  <2>1. rec \in DoctorRecords
    BY ConfigTyped DEF DoctorRecords, GitHubTyped
  <2>2. doctor' = [doctor EXCEPT ![d] = rec] /\ UNCHANGED <<saved, gateway, grant>>
    BY <1>2 DEF DoctorLists
  <2> HIDE DEF rec
  <2> QED
    BY <2>1, <2>2
<1>3. ASSUME NEW d \in Doctors, DoctorReads(d)
      PROVE  GitHubTyped'
  <2>1. PICK at \in {"read", "created", "ready", "notReady"} : doctor' = [doctor EXCEPT ![d].step = at]
    BY <1>3, Reported
  <2>2. doctor' \in [Doctors -> DoctorRecords]
    BY <2>1 DEF DoctorRecords
  <2> QED
    BY <1>3, <2>2, Reported
<1>4. ASSUME NEW d \in Doctors, DoctorCreates(d)
      PROVE  GitHubTyped'
  <2>1. PICK at \in {"read", "created", "ready", "notReady"} : doctor' = [doctor EXCEPT ![d].step = at]
    BY <1>4, Reported
  <2>2. doctor' \in [Doctors -> DoctorRecords]
    BY <2>1 DEF DoctorRecords
  <2> QED
    BY <1>4, <2>2, Reported
<1>5. ASSUME NEW d \in Doctors, DoctorResets(d)
      PROVE  GitHubTyped'
  <2>1. PICK at \in {"read", "created", "ready", "notReady"} : doctor' = [doctor EXCEPT ![d].step = at]
    BY <1>5, Reported
  <2>2. doctor' \in [Doctors -> DoctorRecords]
    BY <2>1 DEF DoctorRecords
  <2> QED
    BY <1>5, <2>2, Reported
<1>6. CASE UNCHANGED github
  BY <1>6 DEF github
<1> QED
  BY <1>1, <1>2, <1>3, <1>4, <1>5, <1>6
  DEF GitHubNext

(* What a doctor saw holds on until the attendee changes it. *)
LEMMA DoctorsSawStep ==
    ASSUME GitHubTyped, DoctorsSaw, [GitHubNext]_github
    PROVE  DoctorsSaw'
<1> USE ConnectionsAssumption
<1> USE DEF GitHubTyped, DoctorRecords, DoctorsSaw, DoctorSaw, Config, Answers, MayPush, Connected, Reports, NoConfig
<1>1. CASE Turns
  BY <1>1 DEF Turns, kiro
<1>2. ASSUME NEW d \in Doctors, DoctorLists(d)
      PROVE  DoctorsSaw'
  BY <1>2 DEF DoctorLists, kiro
<1>3. ASSUME NEW d \in Doctors, DoctorReads(d)
      PROVE  DoctorsSaw'
  BY <1>3 DEF DoctorReads, kiro
<1>4. ASSUME NEW d \in Doctors, DoctorCreates(d)
      PROVE  DoctorsSaw'
  <2>1. UNCHANGED <<saved, gateway, grant>>
    BY <1>4 DEF DoctorCreates
  <2>2. CASE MayPush(doctor[d].repo)
    <3>1. doctor' = [doctor EXCEPT ![d].step = "created"]
      BY <1>4, <2>2 DEF DoctorCreates
    <3> QED
      BY <1>4, <2>1, <2>2, <3>1 DEF DoctorCreates
  <2>3. CASE ~MayPush(doctor[d].repo)
    <3>1. doctor' = [doctor EXCEPT ![d].step = "notReady"]
      BY <1>4, <2>3 DEF DoctorCreates
    <3> QED
      BY <1>4, <2>1, <2>3, <3>1 DEF DoctorCreates
  <2> QED
    BY <2>2, <2>3
<1>5. ASSUME NEW d \in Doctors, DoctorResets(d)
      PROVE  DoctorsSaw'
  <2>1. UNCHANGED <<saved, gateway, grant>>
    BY <1>5 DEF DoctorResets
  <2>2. CASE MayPush(doctor[d].repo) /\ doctor[d].lacks
    <3>1. doctor' = [doctor EXCEPT ![d].step = "notReady"]
      BY <1>5, <2>2 DEF DoctorResets
    <3> QED
      BY <1>5, <2>1, <2>2, <3>1 DEF DoctorResets
  <2>3. CASE MayPush(doctor[d].repo) /\ ~doctor[d].lacks
    <3>1. doctor' = [doctor EXCEPT ![d].step = "ready"]
      BY <1>5, <2>3 DEF DoctorResets
    <3> QED
      BY <1>5, <2>1, <2>3, <3>1 DEF DoctorResets
  <2>4. CASE ~MayPush(doctor[d].repo)
    <3>1. doctor' = [doctor EXCEPT ![d].step = "notReady"]
      BY <1>5, <2>4 DEF DoctorResets
    <3> QED
      BY <1>5, <2>1, <2>4, <3>1 DEF DoctorResets
  <2> QED
    BY <2>2, <2>3, <2>4
<1>6. CASE UNCHANGED github
  BY <1>6 DEF github
<1> QED
  BY <1>1, <1>2, <1>3, <1>4, <1>5, <1>6
  DEF GitHubNext

(* Every step of a change of the key keeps the types. *)
LEMMA KiroTypedStep ==
    ASSUME KiroTyped, [KiroNext]_kiro
    PROVE  KiroTyped'
<1> USE DEF KiroTyped, NoSave, NoKey
<1>1. ASSUME NEW s \in Savers, KeyBegins(s)
      PROVE  KiroTyped'
  BY <1>1 DEF KeyBegins
<1>2. ASSUME NEW s \in Savers, KeyVault(s)
      PROVE  KiroTyped'
  <2>1. \/ saver' = [saver EXCEPT ![s].step = "note"]
        \/ saver' = [saver EXCEPT ![s] = NoSave]
    <3>1. CASE saver' = [saver EXCEPT ![s] = IF GoesOnFailed(@.key) THEN [@ EXCEPT !.step = "note"] ELSE NoSave]
      <4>1. CASE GoesOnFailed(saver[s].key)
        BY <3>1, <4>1
      <4>2. CASE ~GoesOnFailed(saver[s].key)
        BY <3>1, <4>2
      <4> QED
        BY <4>1, <4>2
    <3> QED
      BY <1>2, <3>1 DEF KeyVault
  <2> QED
    BY <2>1
<1>3. ASSUME NEW s \in Savers, KeyNote(s)
      PROVE  KiroTyped'
  BY <1>3 DEF KeyNote
<1>4. ASSUME NEW s \in Savers, KeyCut(s)
      PROVE  KiroTyped'
  BY <1>4 DEF KeyCut
<1>5. CASE UNCHANGED kiro
  BY <1>5 DEF kiro
<1> QED
  BY <1>1, <1>2, <1>3, <1>4, <1>5
  DEF KiroNext

(* Changes of the key that meet are known to have met. *)
LEMMA OneSaverStep ==
    ASSUME KiroTyped, OneSaver, [KiroNext]_kiro
    PROVE  OneSaver'
<1> USE DEF KiroTyped, OneSaver, Changing, NoSave
<1>1. ASSUME NEW s \in Savers, KeyBegins(s)
      PROVE  OneSaver'
  BY <1>1 DEF KeyBegins
<1>2. ASSUME NEW s \in Savers, KeyVault(s)
      PROVE  OneSaver'
  BY <1>2 DEF KeyVault
<1>3. ASSUME NEW s \in Savers, KeyNote(s)
      PROVE  OneSaver'
  BY <1>3 DEF KeyNote
<1>4. ASSUME NEW s \in Savers, KeyCut(s)
      PROVE  OneSaver'
  BY <1>4 DEF KeyCut
<1>5. CASE UNCHANGED kiro
  BY <1>5 DEF kiro
<1> QED
  BY <1>1, <1>2, <1>3, <1>4, <1>5
  DEF KiroNext

(* A key that is noted is in the vault. *)
LEMMA KeyStep ==
    ASSUME KiroTyped, OneSaver, KeyIsThere, ConnectedHasKey, [KiroNext]_kiro
    PROVE  (KeyIsThere /\ ConnectedHasKey)'
<1> USE DEF KiroTyped, OneSaver, KeyIsThere, ConnectedHasKey, NoSave, GoesOnFailed
<1>1. ASSUME NEW s \in Savers, KeyBegins(s)
      PROVE  (KeyIsThere /\ ConnectedHasKey)'
  <2>1. PICK k \in Keys \cup {NoKey} : saver' = [saver EXCEPT ![s] = [step |-> "vault", key |-> k]]
    BY <1>1 DEF KeyBegins
  <2>2. UNCHANGED <<vault, note>> /\ (~blurred' => ~blurred) /\ saver[s].step = "none"
    BY <1>1 DEF KeyBegins
  <2>3. \A u \in Savers : saver'[u].step = "note" <=> saver[u].step = "note"
    BY <2>1, <2>2
  <2>4. \A u \in Savers : saver'[u].step = "note" => saver'[u].key = saver[u].key
    BY <2>1, <2>2
  <2> HIDE DEF KiroTyped
  <2> QED
    BY <2>2, <2>3, <2>4
<1>2. ASSUME NEW s \in Savers, KeyVault(s)
      PROVE  (KeyIsThere /\ ConnectedHasKey)'
  BY <1>2 DEF KeyVault
<1>3. ASSUME NEW s \in Savers, KeyNote(s)
      PROVE  (KeyIsThere /\ ConnectedHasKey)'
  BY <1>3 DEF KeyNote
<1>4. ASSUME NEW s \in Savers, KeyCut(s)
      PROVE  (KeyIsThere /\ ConnectedHasKey)'
  BY <1>4 DEF KeyCut
<1>5. CASE UNCHANGED kiro
  BY <1>5 DEF kiro
<1> QED
  BY <1>1, <1>2, <1>3, <1>4, <1>5
  DEF KiroNext

(* It begins so. *)
LEMMA ConnectionsStart ==
    ConnectionsInit => GitHubTyped /\ DoctorsSaw /\ KiroTyped /\ OneSaver /\ KeyIsThere /\ ConnectedHasKey
<1> SUFFICES ASSUME ConnectionsInit
             PROVE  GitHubTyped /\ DoctorsSaw /\ KiroTyped /\ OneSaver /\ KeyIsThere /\ ConnectedHasKey
  OBVIOUS
<1>1. doctor = [d \in Doctors |-> Well] /\ Well \in DoctorRecords /\ ~Well.steady
  BY DEF ConnectionsInit, Well, DoctorRecords
<1>2. GitHubTyped /\ DoctorsSaw
  BY <1>1 DEF ConnectionsInit, GitHubTyped, DoctorsSaw
<1>3. saver = [s \in Savers |-> NoSave] /\ NoSave = [step |-> "none", key |-> NoKey]
  BY DEF ConnectionsInit, NoSave
<1>4. KiroTyped /\ OneSaver /\ KeyIsThere
  BY <1>3 DEF KiroTyped, OneSaver, KeyIsThere
<1>5. ConnectedHasKey
  BY DEF ConnectionsInit, ConnectedHasKey
<1> QED
  BY <1>2, <1>4, <1>5

(* The verdict is what the doctor saw. *)
LEMMA VerdictsHold == DoctorsSaw => DoctorIsRight
BY DEF DoctorsSaw, DoctorSaw, DoctorIsRight, Answers, Connected

-----------------------------------------------------------------------------
(* The terminals *)

Folders == DevFolders \cup Sessions \cup {NoFolder}
SessionRecords ==
    [status : {"none", "open", "closed"}, root : Folders, cwd : Folders, pty : Nat]
ShellRecords ==
    [of : Sessions, root : Folders, live : BOOLEAN, open : BOOLEAN, out : Nat, read : Nat]
TerminalsTyped ==
    /\ session \in [Sessions -> SessionRecords]
    /\ shell \in Seq(ShellRecords)
    /\ opening \in Sessions \cup {NoFolder}

\* A terminal shows a shell of its own session, and none while one is opened.
PtyIsOwn ==
    \A s \in Sessions :
      /\ session[s].pty # 0 => session[s].pty \in DOMAIN shell /\ shell[session[s].pty].of = s
      /\ opening = s => Opened(s) /\ session[s].pty = 0
ShellsMatch == TerminalsTyped /\ PtyIsOwn /\ ShellMatchesSession

(* Every folder is within itself. *)
LEMMA FoldersWithin ==
    /\ \A f \in Folders : <<f, f>> \in Within
    /\ Sessions \subseteq Folders /\ DevFolders \subseteq Folders /\ NoFolder \in Folders
    /\ Start \in DevFolders /\ NoFolder \notin Sessions
BY TerminalsAssumption DEF Folders

(* A shell that is listed is a record of a shell. *)
LEMMA EachShell ==
    ASSUME TerminalsTyped, NEW g \in DOMAIN shell
    PROVE  shell[g] \in ShellRecords /\ shell[g].of \in Sessions /\ g \in Nat /\ g # 0
<1>1. g \in 1..Len(shell) /\ shell[g] \in ShellRecords
  BY DEF TerminalsTyped
<1> QED
  BY <1>1 DEF ShellRecords

(* To kill a session's shell leaves it none that runs. *)
LEMMA KilledShellEnds ==
    ASSUME ShellsMatch, NEW s \in Sessions, shell' = KilledShell(s)
    PROVE  /\ shell' \in Seq(ShellRecords) /\ DOMAIN shell' = DOMAIN shell
           /\ \A g \in DOMAIN shell :
                /\ shell'[g].of = shell[g].of /\ shell'[g].root = shell[g].root
                /\ shell'[g].live => shell[g].live /\ shell[g].of # s
<1> USE DEF ShellsMatch
<1>1. CASE session[s].pty = 0
  <2>1. shell' = shell
    BY <1>1 DEF KilledShell
  <2>2. \A g \in DOMAIN shell : shell[g].live => shell[g].of # s
    BY <1>1 DEF ShellMatchesSession, TerminalsTyped
  <2> QED
    BY <2>1, <2>2 DEF TerminalsTyped
<1>2. CASE session[s].pty # 0
  <2> DEFINE p == session[s].pty
             rec == [shell[p] EXCEPT !.live = FALSE, !.open = FALSE]
  <2>1. p \in DOMAIN shell /\ shell[p] \in ShellRecords
    BY <1>2 DEF PtyIsOwn, TerminalsTyped
  <2>2. shell' = [shell EXCEPT ![p] = rec]
    BY <1>2, <2>1 DEF KilledShell, TerminalsTyped, ShellRecords
  <2>3. rec \in ShellRecords /\ rec.of = shell[p].of /\ rec.root = shell[p].root /\ ~rec.live
    BY <2>1 DEF ShellRecords
  <2>4. \A g \in DOMAIN shell : shell[g].live /\ shell[g].of = s => g = p
    BY DEF ShellMatchesSession
  <2> HIDE DEF p, rec
  <2>5. shell' \in Seq(ShellRecords) /\ DOMAIN shell' = DOMAIN shell
    BY <2>1, <2>2, <2>3 DEF TerminalsTyped
  <2>6. \A g \in DOMAIN shell : shell'[g] = IF g = p THEN rec ELSE shell[g]
    BY <2>2
  <2> QED
    BY <2>3, <2>4, <2>5, <2>6
<1> QED
  BY <1>1, <1>2

(* So a session whose shell was killed may change, be closed or open a new one. *)
LEMMA AfterTheKill ==
    ASSUME ShellsMatch, NEW s \in Sessions, shell' = KilledShell(s),
           NEW rec \in SessionRecords, session' = [session EXCEPT ![s] = rec],
           rec.pty = 0, <<rec.cwd, rec.root>> \in Within,
           opening = NoFolder, opening' \in {NoFolder, s},
           opening' = s => rec.status = "open"
    PROVE  ShellsMatch'
<1>1. /\ shell' \in Seq(ShellRecords) /\ DOMAIN shell' = DOMAIN shell
      /\ \A g \in DOMAIN shell :
           /\ shell'[g].of = shell[g].of /\ shell'[g].root = shell[g].root
           /\ shell'[g].live => shell[g].live /\ shell[g].of # s
  BY KilledShellEnds
<1>2. session' \in [Sessions -> SessionRecords] /\ session'[s] = rec /\ \A u \in Sessions : u # s => session'[u] = session[u]
  BY DEF ShellsMatch, TerminalsTyped
<1>3. TerminalsTyped'
  BY <1>1, <1>2 DEF TerminalsTyped
<1>4. PtyIsOwn'
  <2>1. ASSUME NEW u \in Sessions
        PROVE  /\ session'[u].pty # 0 => session'[u].pty \in DOMAIN shell' /\ shell'[session'[u].pty].of = u
               /\ opening' = u => Opened(u)' /\ session'[u].pty = 0
    <3>1. CASE u = s
      BY <1>2, <3>1 DEF Opened
    <3>2. CASE u # s
      BY <1>1, <1>2, <3>2, FoldersWithin DEF ShellsMatch, PtyIsOwn
    <3> QED
      BY <3>1, <3>2
  <2> QED
    BY <2>1 DEF PtyIsOwn
<1>5. ASSUME NEW g \in DOMAIN shell', shell'[g].live
      PROVE  session'[shell'[g].of].status = "open" /\ session'[shell'[g].of].pty = g /\ session'[shell'[g].of].root = shell'[g].root
  <2>1. shell[g].live /\ shell[g].of # s /\ shell[g].of \in Sessions
    BY <1>1, <1>5, EachShell DEF ShellsMatch
  <2> QED
    BY <1>1, <1>2, <2>1 DEF ShellsMatch, ShellMatchesSession, Opened
<1>6. \A u \in Sessions : <<session'[u].cwd, session'[u].root>> \in Within
  BY <1>2 DEF ShellsMatch, ShellMatchesSession
<1> QED
  BY <1>3, <1>4, <1>5, <1>6 DEF ShellsMatch, ShellMatchesSession, Opened

(* A shell writes, exits or is read. *)
LEMMA ShellChanges ==
    ASSUME ShellsMatch, NEW g \in DOMAIN shell, NEW rec \in ShellRecords,
           shell' = [shell EXCEPT ![g] = rec], rec.of = shell[g].of, rec.root = shell[g].root,
           rec.live => shell[g].live, UNCHANGED <<session, opening>>
    PROVE  ShellsMatch'
<1>1. shell' \in Seq(ShellRecords) /\ DOMAIN shell' = DOMAIN shell
  BY DEF ShellsMatch, TerminalsTyped
<1>2. \A h \in DOMAIN shell : shell'[h].of = shell[h].of /\ shell'[h].root = shell[h].root /\ (shell'[h].live => shell[h].live)
  OBVIOUS
<1> QED
  BY <1>1, <1>2 DEF ShellsMatch, TerminalsTyped, PtyIsOwn, ShellMatchesSession, Opened

(* Every step keeps a shell at its session, and a session in its folder. *)
LEMMA ShellsMatchStep ==
    ASSUME ShellsMatch, [TerminalsNext]_terminalVars
    PROVE  ShellsMatch'
<1>1. ASSUME NEW s \in Sessions, NewSession(s)
      PROVE  ShellsMatch'
  <2> DEFINE root == IF s \in DevSessions THEN Start ELSE s
             rec == [status |-> "open", root |-> root, cwd |-> root, pty |-> 0]
  <2>1. root \in Folders /\ <<root, root>> \in Within
    BY FoldersWithin
  <2>2. session' = [session EXCEPT ![s] = rec] /\ UNCHANGED <<shell, opening>> /\ ~Opened(s)
    BY <1>1 DEF NewSession, Opened
  <2> HIDE DEF root
  <2>3. rec \in SessionRecords /\ rec.pty = 0 /\ rec.status = "open" /\ <<rec.cwd, rec.root>> \in Within
    BY <2>1 DEF SessionRecords
  <2> HIDE DEF rec
  <2>4. session' \in [Sessions -> SessionRecords] /\ session'[s] = rec /\ \A u \in Sessions : u # s => session'[u] = session[u]
    BY <2>2, <2>3 DEF ShellsMatch, TerminalsTyped
  <2>5. TerminalsTyped'
    BY <2>2, <2>4 DEF ShellsMatch, TerminalsTyped
  <2>6. PtyIsOwn'
    BY <2>2, <2>3, <2>4 DEF ShellsMatch, PtyIsOwn, Opened
  <2>7. ShellMatchesSession'
    <3>1. \A g \in DOMAIN shell : shell[g].live => shell[g].of # s /\ shell[g].of \in Sessions
      BY <2>2, EachShell DEF ShellsMatch, ShellMatchesSession
    <3> QED
      BY <2>2, <2>3, <2>4, <3>1 DEF ShellsMatch, ShellMatchesSession, Opened
  <2> QED
    BY <2>5, <2>6, <2>7 DEF ShellsMatch
<1>2. ASSUME NEW s \in Sessions, CloseSession(s)
      PROVE  ShellsMatch'
  <2> DEFINE rec == [session[s] EXCEPT !.pty = 0, !.status = "closed"]
  <2>1. session[s] \in SessionRecords
    BY DEF ShellsMatch, TerminalsTyped
  <2>2. rec \in SessionRecords /\ rec.pty = 0 /\ <<rec.cwd, rec.root>> \in Within
    BY <2>1 DEF SessionRecords, ShellsMatch, ShellMatchesSession
  <2>3. session' = [session EXCEPT ![s] = rec]
    BY <1>2, <2>1 DEF CloseSession, ShellsMatch, TerminalsTyped, SessionRecords
  <2>4. shell' = KilledShell(s) /\ opening = NoFolder /\ opening' = NoFolder /\ opening' # s
    BY <1>2, FoldersWithin DEF CloseSession, Free
  <2> HIDE DEF rec
  <2> QED
    BY <2>2, <2>3, <2>4, AfterTheKill
<1>3. ASSUME NEW s \in Sessions, OpenBegins(s)
      PROVE  ShellsMatch'
  <2> DEFINE rec == [session[s] EXCEPT !.pty = 0]
  <2>1. session[s] \in SessionRecords
    BY DEF ShellsMatch, TerminalsTyped
  <2>2. rec \in SessionRecords /\ rec.pty = 0 /\ rec.status = "open" /\ <<rec.cwd, rec.root>> \in Within
    BY <1>3, <2>1 DEF SessionRecords, ShellsMatch, ShellMatchesSession, OpenBegins, Opened
  <2>3. session' = [session EXCEPT ![s] = rec]
    BY <1>3, <2>1 DEF OpenBegins, ShellsMatch, TerminalsTyped, SessionRecords
  <2>4. shell' = KilledShell(s) /\ opening = NoFolder /\ opening' = s
    BY <1>3 DEF OpenBegins, Free
  <2> HIDE DEF rec
  <2> QED
    BY <2>2, <2>3, <2>4, AfterTheKill
<1>4. ASSUME NEW s \in Sessions, OpenSpawns(s)
      PROVE  ShellsMatch'
  <2>1. CASE session[s].root \in dirs'
    <3> DEFINE rec == [of |-> s, root |-> session[s].root, live |-> TRUE, open |-> TRUE, out |-> 0, read |-> 0]
               n == Len(shell) + 1
               mine == [session[s] EXCEPT !.pty = n]
    <3>1. session[s] \in SessionRecords /\ opening = s /\ Opened(s) /\ session[s].pty = 0
      BY <1>4 DEF ShellsMatch, TerminalsTyped, PtyIsOwn, OpenSpawns
    <3>2. rec \in ShellRecords /\ rec.of = s /\ rec.root = session[s].root
      BY <3>1 DEF ShellRecords, SessionRecords
    <3>3. n \in Nat /\ n # 0 /\ mine \in SessionRecords
      BY <3>1 DEF SessionRecords, ShellsMatch, TerminalsTyped
    <3>4. mine.pty = n /\ mine.root = session[s].root /\ mine.cwd = session[s].cwd /\ mine.status = "open"
      BY <3>1 DEF SessionRecords, Opened
    <3>5. shell' = Append(shell, rec) /\ opening' = NoFolder
      BY <1>4, <2>1 DEF OpenSpawns
    <3>6. session' = [session EXCEPT ![s] = mine]
      BY <1>4, <2>1, <3>1 DEF OpenSpawns, ShellsMatch, TerminalsTyped, SessionRecords
    <3> HIDE DEF rec, mine
    <3>7. /\ shell' \in Seq(ShellRecords) /\ Len(shell') = n /\ shell'[n] = rec
          /\ DOMAIN shell' = DOMAIN shell \cup {n} /\ \A g \in DOMAIN shell : shell'[g] = shell[g] /\ g # n
      BY <3>2, <3>5 DEF ShellsMatch, TerminalsTyped
    <3>8. session' \in [Sessions -> SessionRecords] /\ session'[s] = mine /\ \A u \in Sessions : u # s => session'[u] = session[u]
      BY <3>3, <3>6 DEF ShellsMatch, TerminalsTyped
    <3> HIDE DEF n
    <3>9. \A g \in DOMAIN shell : shell[g].of \in Sessions /\ g # 0
      BY EachShell DEF ShellsMatch
    <3>10. TerminalsTyped'
      BY <3>5, <3>7, <3>8 DEF TerminalsTyped
    <3>11. PtyIsOwn'
      BY <3>2, <3>4, <3>5, <3>7, <3>8, FoldersWithin DEF ShellsMatch, PtyIsOwn, Opened
    <3>12. ASSUME NEW g \in DOMAIN shell', shell'[g].live
          PROVE  session'[shell'[g].of].status = "open" /\ session'[shell'[g].of].pty = g /\ session'[shell'[g].of].root = shell'[g].root
      <4>1. CASE g = n
        BY <3>2, <3>4, <3>7, <3>8, <4>1 DEF Opened
      <4>2. CASE g \in DOMAIN shell
        <5>1. shell[g].live /\ shell'[g] = shell[g] /\ shell[g].of \in Sessions
          BY <3>7, <3>9, <3>12, <4>2
        <5>2. Opened(shell[g].of) /\ session[shell[g].of].pty = g /\ session[shell[g].of].root = shell[g].root
          BY <4>2, <5>1 DEF ShellsMatch, ShellMatchesSession
        <5>3. shell[g].of # s
          BY <3>1, <3>9, <4>2, <5>2
        <5> QED
          BY <3>8, <5>1, <5>2, <5>3 DEF Opened
      <4> QED
        BY <3>7, <4>1, <4>2
    <3>13. \A u \in Sessions : <<session'[u].cwd, session'[u].root>> \in Within
      BY <3>4, <3>8 DEF ShellsMatch, ShellMatchesSession
    <3> QED
      BY <3>10, <3>11, <3>12, <3>13 DEF ShellsMatch, ShellMatchesSession, Opened
  <2>2. CASE session[s].root \notin dirs'
    <3>1. UNCHANGED <<shell, session>> /\ opening' = NoFolder
      BY <1>4, <2>2 DEF OpenSpawns
    <3> QED
      BY <3>1, FoldersWithin DEF ShellsMatch, TerminalsTyped, PtyIsOwn, ShellMatchesSession, Opened
  <2> QED
    BY <2>1, <2>2
<1>5. ASSUME NEW s \in Sessions, NEW f \in DevFolders \cup {NoFolder}, OpenFolder(s, f)
      PROVE  ShellsMatch'
  <2> DEFINE rec == [session[s] EXCEPT !.pty = 0, !.root = f, !.cwd = f]
  <2>1. session[s] \in SessionRecords /\ f \in Folders
    BY FoldersWithin DEF ShellsMatch, TerminalsTyped
  <2>2. rec \in SessionRecords /\ rec.pty = 0 /\ rec.cwd = f /\ rec.root = f
    BY <2>1 DEF SessionRecords
  <2>3. session' = [session EXCEPT ![s] = rec]
    BY <1>5, <2>1 DEF OpenFolder, ShellsMatch, TerminalsTyped, SessionRecords
  <2>4. shell' = KilledShell(s) /\ opening = NoFolder /\ opening' = NoFolder /\ opening' # s
    BY <1>5, FoldersWithin DEF OpenFolder, Free
  <2>5. <<rec.cwd, rec.root>> \in Within
    BY <2>1, <2>2, FoldersWithin
  <2> HIDE DEF rec
  <2> QED
    BY <2>2, <2>3, <2>4, <2>5, AfterTheKill
<1>6. ASSUME NEW s \in Sessions, NEW f \in DevFolders \cup Sessions, RunCommand(s, f)
      PROVE  ShellsMatch'
  <2> DEFINE to == IF <<f, session[s].root>> \in Within THEN f ELSE session[s].cwd
             rec == [session[s] EXCEPT !.cwd = to]
  <2>1. session[s] \in SessionRecords /\ to \in Folders /\ <<to, session[s].root>> \in Within
    BY FoldersWithin DEF ShellsMatch, TerminalsTyped, SessionRecords, ShellMatchesSession
  <2>2. session' = [session EXCEPT ![s] = rec] /\ UNCHANGED <<shell, opening>>
    BY <1>6, <2>1 DEF RunCommand, ShellsMatch, TerminalsTyped, SessionRecords
  <2> HIDE DEF to
  <2>3. /\ rec \in SessionRecords /\ rec.cwd = to /\ rec.root = session[s].root
        /\ rec.status = session[s].status /\ rec.pty = session[s].pty
    BY <2>1 DEF SessionRecords
  <2> HIDE DEF rec
  <2>4. session' \in [Sessions -> SessionRecords] /\ session'[s] = rec /\ \A u \in Sessions : u # s => session'[u] = session[u]
    BY <2>2, <2>3 DEF ShellsMatch, TerminalsTyped
  <2>5. \A u \in Sessions : session'[u].pty = session[u].pty /\ session'[u].status = session[u].status /\ session'[u].root = session[u].root
    BY <2>3, <2>4
  <2>6. \A u \in Sessions : <<session'[u].cwd, session'[u].root>> \in Within
    BY <2>1, <2>3, <2>4 DEF ShellsMatch, ShellMatchesSession
  <2>7. \A g \in DOMAIN shell : shell[g].of \in Sessions
    BY EachShell DEF ShellsMatch
  <2> QED
    BY <2>2, <2>4, <2>5, <2>6, <2>7 DEF ShellsMatch, TerminalsTyped, PtyIsOwn, ShellMatchesSession, Opened
<1>7. ASSUME NEW g \in DOMAIN shell, ShellWrites(g) \/ ShellExits(g) \/ ReaderReads(g)
      PROVE  ShellsMatch'
  <2>1. shell[g] \in ShellRecords
    BY EachShell DEF ShellsMatch
  <2> DEFINE wrote == [shell[g] EXCEPT !.out = @ + 1]
             left == [shell[g] EXCEPT !.live = FALSE]
             heard == [shell[g] EXCEPT !.read = @ + 1]
             StaysPut(rec) == /\ rec \in ShellRecords /\ rec.of = shell[g].of /\ rec.root = shell[g].root
                              /\ rec.live => shell[g].live
  <2>2. StaysPut(wrote) /\ StaysPut(left) /\ StaysPut(heard)
    <3>1. shell[g].out + 1 \in Nat /\ shell[g].read + 1 \in Nat
      BY <2>1 DEF ShellRecords
    <3>2. StaysPut(wrote)
      BY <2>1, <3>1 DEF ShellRecords
    <3>3. StaysPut(left)
      BY <2>1 DEF ShellRecords
    <3>4. StaysPut(heard)
      BY <2>1, <3>1 DEF ShellRecords
    <3> QED
      BY <3>2, <3>3, <3>4
  <2>3. shell' = [shell EXCEPT ![g] = wrote] \/ shell' = [shell EXCEPT ![g] = left] \/ shell' = [shell EXCEPT ![g] = heard]
    BY <1>7, <2>1 DEF ShellWrites, ShellExits, ReaderReads, ShellRecords
  <2>4. UNCHANGED <<session, opening>>
    BY <1>7 DEF ShellWrites, ShellExits, ReaderReads
  <2> HIDE DEF wrote, left, heard
  <2>5. ASSUME NEW rec, StaysPut(rec), shell' = [shell EXCEPT ![g] = rec]
        PROVE  ShellsMatch'
    BY <2>4, <2>5, ShellChanges
  <2> HIDE DEF StaysPut
  <2> QED
    BY <2>2, <2>3, <2>5
<1>8. CASE UNCHANGED <<session, shell, opening>>
  BY <1>8 DEF ShellsMatch, TerminalsTyped, PtyIsOwn, ShellMatchesSession, Opened
<1> QED
  BY <1>1, <1>2, <1>3, <1>4, <1>5, <1>6, <1>7, <1>8
  DEF TerminalsNext, terminalVars, PollIo, Follow, TickReads, TickPolls, Disconnect, Ends

(* It begins with no shell at all. *)
LEMMA TerminalsStart == TerminalsInit => ShellsMatch
BY FoldersWithin DEF TerminalsInit, ShellsMatch, TerminalsTyped, PtyIsOwn, ShellMatchesSession, NoSession, SessionRecords, Opened

-----------------------------------------------------------------------------
(* What the streams of the terminals show *)

Chunks == Nat \X Nat
Screens ==
    [at : {"off", "reads", "polls"}, of : Sessions \cup {NoStream.of}, shell : Nat,
     sent : Nat, first : Nat, shown : Seq(Chunks), cut : SUBSET Chunks]
\* The first n chunks of a shell.
FirstChunks(g, n) == [i \in 1..n |-> <<g, i>>]

\* What a viewer of one shell was shown is what that shell put out, up to its offset.
ScreenHolds(w) ==
    /\ w.at # "off" \/ w.first # 0 => w.of \in Sessions
    /\ w.first # 0 => w.first \in DOMAIN shell
    /\ w.shown = <<>> => w.sent = 0
    /\ w.first # 0 /\ session[w.of].pty = w.first /\ shell[w.first].read <= Cap =>
         w.sent <= shell[w.first].read /\ w.shown = FirstChunks(w.first, w.sent)
ScreensHold == stream \in [Viewers -> Screens] /\ \A v \in Viewers : ScreenHolds(stream[v])

(* What a look cuts is chunks of the shell. *)
LEMMA CutsAreChunks ==
    ASSUME NEW g \in Nat, NEW s \in Nat
    PROVE  CutSince(g, s) \subseteq Chunks
BY TerminalsAssumption DEF CutSince, Chunks

(* The greater of two, and the smaller. *)
LEMMA OfTwo ==
    ASSUME NEW a \in Nat, NEW b \in Nat
    PROVE  Max({a, b}) = (IF a <= b THEN b ELSE a) /\ Min({a, b}) = (IF a <= b THEN a ELSE b)
<1>1. \E x \in {a, b} : \A y \in {a, b} : x >= y
  OBVIOUS
<1>2. Max({a, b}) \in {a, b} /\ \A y \in {a, b} : Max({a, b}) >= y
  BY <1>1 DEF Max
<1>3. \E x \in {a, b} : \A y \in {a, b} : x =< y
  OBVIOUS
<1>4. Min({a, b}) \in {a, b} /\ \A y \in {a, b} : Min({a, b}) =< y
  BY <1>3 DEF Min
<1> QED
  BY <1>2, <1>4

(* The buffer of a shell that put out no more than fits has all of it. *)
LEMMA BufferHas ==
    ASSUME TerminalsTyped, NEW g \in DOMAIN shell
    PROVE  /\ Buffer(g) \in Seq(Chunks) /\ Len(Buffer(g)) \in Nat
           /\ shell[g].read \in Nat
           /\ shell[g].read <= Cap =>
                Len(Buffer(g)) = shell[g].read /\ Buffer(g) = FirstChunks(g, shell[g].read)
<1>1. g \in Nat /\ shell[g].read \in Nat /\ Cap \in Nat
  BY EachShell, TerminalsAssumption DEF ShellRecords
<1> DEFINE r == shell[g].read
           n == Min({r, Cap})
<1>2. n = (IF r <= Cap THEN r ELSE Cap)
  BY <1>1, OfTwo
<1>3. Buffer(g) = [i \in 1..n |-> <<g, r - n + i>>]
  BY DEF Buffer
<1> HIDE DEF n
<1>4. n \in Nat /\ n <= r /\ \A i \in 1..n : r - n + i \in Nat
  BY <1>1, <1>2
<1>5. \A i \in 1..n : <<g, r - n + i>> \in Chunks
  BY <1>1, <1>4 DEF Chunks
<1>6. Buffer(g) \in Seq(Chunks) /\ Len(Buffer(g)) = n
  BY <1>3, <1>4, <1>5
<1>7. ASSUME r <= Cap
      PROVE  n = r /\ Buffer(g) = FirstChunks(g, r)
  <2>1. n = r
    BY <1>2, <1>7
  <2>2. \A i \in 1..r : r - r + i = i
    BY <1>1
  <2> QED
    BY <1>3, <2>1, <2>2 DEF FirstChunks
<1> QED
  BY <1>1, <1>4, <1>6, <1>7

(* The first chunks and those that follow them are the first chunks again. *)
LEMMA ChunksFollow ==
    ASSUME NEW g \in Nat, NEW n \in Nat, NEW m \in 0..n
    PROVE  FirstChunks(g, m) \o SubSeq(FirstChunks(g, n), m + 1, n) = FirstChunks(g, n)
<1> DEFINE a == FirstChunks(g, m)
           b == SubSeq(FirstChunks(g, n), m + 1, n)
           c == FirstChunks(g, n)
<1>1. /\ a \in Seq(Chunks) /\ Len(a) = m /\ \A i \in 1..m : a[i] = <<g, i>>
      /\ c \in Seq(Chunks) /\ Len(c) = n /\ \A i \in 1..n : c[i] = <<g, i>>
  BY DEF FirstChunks, Chunks
<1> HIDE DEF a, c
<1>2. b \in Seq(Chunks) /\ Len(b) = n - m /\ \A i \in 1..(n - m) : b[i] = c[m + i]
  BY <1>1 DEF c
<1> HIDE DEF b
<1>3. /\ a \o b \in Seq(Chunks) /\ Len(a \o b) = Len(a) + Len(b)
      /\ \A i \in 1..(Len(a) + Len(b)) : (a \o b)[i] = IF i <= Len(a) THEN a[i] ELSE b[i - Len(a)]
  BY <1>1, <1>2, ConcatProperties
<1> m \in Nat /\ Len(a) = m /\ Len(b) = n - m /\ Len(a \o b) = n
  BY <1>1, <1>2, <1>3
<1>4. ASSUME NEW i \in 1..n
      PROVE  (a \o b)[i] = c[i]
  <2>1. (a \o b)[i] = IF i <= m THEN a[i] ELSE b[i - m]
    BY <1>3
  <2>2. ASSUME i <= m
        PROVE  a[i] = c[i]
    <3>1. i \in 1..m
      BY <2>2
    <3>2. a[i] = <<g, i>> /\ c[i] = <<g, i>>
      BY <1>1, <3>1
    <3> QED
      BY <3>2
  <2>3. ~(i <= m) => i - m \in 1..(n - m) /\ m + (i - m) = i
    OBVIOUS
  <2> QED
    BY <1>2, <2>1, <2>2, <2>3
<1>5. a \o b = c
  BY <1>1, <1>3, <1>4, SeqEqual
<1> QED
  BY <1>5 DEF a, b, c

(* A look at the buffer from an offset: what was shown and what it adds. *)
LEMMA LookAdds ==
    ASSUME TerminalsTyped, NEW g \in DOMAIN shell, NEW s \in Nat, NEW shown \in Seq(Chunks),
           shown = <<>> => s = 0
    PROVE  /\ shown \o Since(g, s) \in Seq(Chunks)
           /\ shown \o Since(g, s) = <<>> => Len(Buffer(g)) = 0 /\ s = 0
           /\ shell[g].read <= Cap /\ s <= shell[g].read /\ shown = FirstChunks(g, s) =>
                shown \o Since(g, s) = FirstChunks(g, shell[g].read)
<1> DEFINE b == Buffer(g)
           n == Len(b)
           r == shell[g].read
<1>1. b \in Seq(Chunks) /\ n \in Nat /\ g \in Nat /\ r \in Nat
  BY BufferHas, EachShell
<1>2. Since(g, s) = SubSeq(b, s + 1, n)
  BY DEF Since
<1>3. r <= Cap => n = r /\ b = FirstChunks(g, r)
  BY BufferHas
<1> HIDE DEF b, n
<1>4. SubSeq(b, s + 1, n) \in Seq(Chunks) /\ Len(SubSeq(b, s + 1, n)) = IF s + 1 <= n THEN n - s ELSE 0
  BY <1>1 DEF n
<1>5. shown \o SubSeq(b, s + 1, n) \in Seq(Chunks)
  BY <1>4
<1>6. ASSUME shown \o SubSeq(b, s + 1, n) = <<>>
      PROVE  n = 0 /\ s = 0
  <2>1. Len(shown) + Len(SubSeq(b, s + 1, n)) = 0
    BY <1>4, <1>6, ConcatProperties
  <2>2. Len(shown) = 0 /\ Len(SubSeq(b, s + 1, n)) = 0
    BY <1>4, <2>1
  <2>3. s = 0
    BY <2>2
  <2> QED
    BY <1>1, <1>4, <2>2, <2>3
<1>7. ASSUME r <= Cap, s <= r, shown = FirstChunks(g, s)
      PROVE  shown \o SubSeq(b, s + 1, n) = FirstChunks(g, r)
  <2>1. n = r /\ b = FirstChunks(g, r) /\ s \in 0..r
    BY <1>1, <1>3, <1>7
  <2>2. FirstChunks(g, s) \o SubSeq(FirstChunks(g, r), s + 1, r) = FirstChunks(g, r)
    BY <1>1, <2>1, ChunksFollow
  <2> QED
    BY <1>7, <2>1, <2>2
<1> QED
  BY <1>2, <1>5, <1>6, <1>7 DEF n, b

(* The table goes on: no shell loses output, and a session that gets a shell gets
   a new one. *)
TableGoesOn ==
    /\ UNCHANGED stream
    /\ DOMAIN shell \subseteq DOMAIN shell'
    /\ \A g \in DOMAIN shell : shell'[g].read \in Nat /\ shell[g].read <= shell'[g].read
    /\ \A s \in Sessions : session'[s].pty \in {session[s].pty, 0} \/ session'[s].pty \notin DOMAIN shell

(* To kill a shell takes nothing back of what was read from it. *)
LEMMA KilledIsRead ==
    ASSUME ShellsMatch, NEW s \in Sessions, shell' = KilledShell(s)
    PROVE  DOMAIN shell' = DOMAIN shell /\ \A g \in DOMAIN shell : shell'[g].read = shell[g].read
<1>1. CASE session[s].pty = 0
  BY <1>1 DEF KilledShell
<1>2. CASE session[s].pty # 0
  <2> DEFINE p == session[s].pty
             rec == [shell[p] EXCEPT !.live = FALSE, !.open = FALSE]
  <2>1. p \in DOMAIN shell /\ shell[p] \in ShellRecords
    BY <1>2 DEF ShellsMatch, PtyIsOwn, TerminalsTyped
  <2>2. shell' = [shell EXCEPT ![p] = rec]
    BY <1>2, <2>1 DEF KilledShell, ShellsMatch, TerminalsTyped, ShellRecords
  <2>3. rec.read = shell[p].read
    BY <2>1 DEF ShellRecords
  <2> HIDE DEF p, rec
  <2> QED
    BY <2>1, <2>2, <2>3
<1> QED
  BY <1>1, <1>2

(* So it does with every step of a session or a shell. *)
LEMMA TableSteps ==
    ASSUME ShellsMatch, TerminalsNext
    PROVE  \/ TableGoesOn
           \/ \E v \in Viewers :
                /\ UNCHANGED <<session, shell>>
                /\ \/ TickReads(v) \/ TickPolls(v) \/ Disconnect(v)
                   \/ \E s \in Sessions : PollIo(v, s) \/ \E resumes \in BOOLEAN : Follow(v, s, resumes)
<1>1. \A g \in DOMAIN shell : shell[g].read \in Nat /\ shell[g] \in ShellRecords /\ g # 0
  BY EachShell DEF ShellsMatch, ShellRecords
<1>2. \A s \in Sessions : session[s] \in SessionRecords
  BY DEF ShellsMatch, TerminalsTyped
<1>3. ASSUME NEW s \in Sessions, shell' = KilledShell(s), session'[s].pty = 0, UNCHANGED stream,
             \A u \in Sessions \ {s} : session'[u] = session[u]
      PROVE  TableGoesOn
  BY <1>1, <1>3, KilledIsRead DEF TableGoesOn
<1>4. ASSUME NEW s \in Sessions, UNCHANGED <<shell, stream>>, session'[s].pty \in {session[s].pty, 0},
             \A u \in Sessions \ {s} : session'[u] = session[u]
      PROVE  TableGoesOn
  BY <1>1, <1>4 DEF TableGoesOn
<1>5. ASSUME NEW s \in Sessions, NewSession(s)
      PROVE  TableGoesOn
  <2>1. /\ UNCHANGED <<shell, stream>> /\ session'[s].pty = 0
        /\ \A u \in Sessions \ {s} : session'[u] = session[u]
    BY <1>5 DEF NewSession, ShellsMatch, TerminalsTyped
  <2> QED
    BY <1>4, <2>1
<1>6. ASSUME NEW s \in Sessions, CloseSession(s) \/ OpenBegins(s) \/ \E f \in DevFolders \cup {NoFolder} : OpenFolder(s, f)
      PROVE  TableGoesOn
  <2> DEFINE Emptied == session'[s].pty = 0 /\ \A u \in Sessions \ {s} : session'[u] = session[u]
  <2>1. shell' = KilledShell(s) /\ UNCHANGED stream
    BY <1>6 DEF CloseSession, OpenBegins, OpenFolder
  <2>2. CloseSession(s) => Emptied
    BY <1>2 DEF CloseSession, ShellsMatch, TerminalsTyped, SessionRecords
  <2>3. OpenBegins(s) => Emptied
    BY <1>2 DEF OpenBegins, ShellsMatch, TerminalsTyped, SessionRecords
  <2>4. ASSUME NEW f \in DevFolders \cup {NoFolder}, OpenFolder(s, f)
        PROVE  Emptied
    BY <1>2, <2>4 DEF OpenFolder, ShellsMatch, TerminalsTyped, SessionRecords
  <2> QED
    BY <1>3, <1>6, <2>1, <2>2, <2>3, <2>4
<1>7. ASSUME NEW s \in Sessions, NEW f \in DevFolders \cup Sessions, RunCommand(s, f)
      PROVE  TableGoesOn
  <2>1. /\ UNCHANGED <<shell, stream>> /\ session'[s].pty = session[s].pty
        /\ \A u \in Sessions \ {s} : session'[u] = session[u]
    BY <1>2, <1>7 DEF RunCommand, ShellsMatch, TerminalsTyped, SessionRecords
  <2> QED
    BY <1>4, <2>1
<1>8. ASSUME NEW s \in Sessions, OpenSpawns(s)
      PROVE  TableGoesOn
  <2>1. CASE UNCHANGED <<shell, session>>
    BY <1>4, <1>8, <2>1 DEF OpenSpawns
  <2>2. CASE ~UNCHANGED <<shell, session>>
    <3> DEFINE n == Len(shell) + 1
               rec == [of |-> s, root |-> session[s].root, live |-> TRUE, open |-> TRUE, out |-> 0, read |-> 0]
    <3>1. /\ shell' = Append(shell, rec) /\ UNCHANGED stream
          /\ session' = [session EXCEPT ![s].pty = n]
      BY <1>8, <2>2 DEF OpenSpawns
    <3> HIDE DEF rec
    <3>2. \A g \in DOMAIN shell : g \in DOMAIN shell' /\ shell'[g] = shell[g]
      BY <3>1 DEF ShellsMatch, TerminalsTyped
    <3>3. n \notin DOMAIN shell
      BY DEF ShellsMatch, TerminalsTyped
    <3>4. session'[s].pty = n /\ \A u \in Sessions \ {s} : session'[u] = session[u]
      BY <1>2, <3>1 DEF ShellsMatch, TerminalsTyped, SessionRecords
    <3> HIDE DEF n
    <3> QED
      BY <1>1, <3>1, <3>2, <3>3, <3>4 DEF TableGoesOn
  <2> QED
    BY <2>1, <2>2
<1>9. ASSUME NEW g \in DOMAIN shell, ShellWrites(g) \/ ShellExits(g) \/ ReaderReads(g)
      PROVE  TableGoesOn
  <2>1. UNCHANGED <<session, stream>>
    BY <1>9 DEF ShellWrites, ShellExits, ReaderReads
  <2>2. DOMAIN shell' = DOMAIN shell /\ \A h \in DOMAIN shell : h # g => shell'[h] = shell[h]
    BY <1>9 DEF ShellWrites, ShellExits, ReaderReads, ShellsMatch, TerminalsTyped
  <2>3. shell'[g].read \in {shell[g].read, shell[g].read + 1}
    BY <1>1, <1>9 DEF ShellWrites, ShellExits, ReaderReads, ShellsMatch, TerminalsTyped, ShellRecords
  <2> QED
    BY <1>1, <2>1, <2>2, <2>3 DEF TableGoesOn
<1>10. ASSUME NEW v \in Viewers,
              \/ TickReads(v) \/ TickPolls(v) \/ Disconnect(v)
              \/ \E s \in Sessions : PollIo(v, s) \/ \E resumes \in BOOLEAN : Follow(v, s, resumes)
       PROVE  UNCHANGED <<session, shell>>
  BY <1>10 DEF PollIo, Follow, TickReads, TickPolls, Disconnect
<1> QED
  BY <1>5, <1>6, <1>7, <1>8, <1>9, <1>10 DEF TerminalsNext

(* A screen that holds goes on holding beside it: a viewer of the shell that runs
   was a viewer of it before. *)
LEMMA ScreensGoOn ==
    ASSUME ShellsMatch, ScreensHold, TableGoesOn
    PROVE  ScreensHold'
<1> SUFFICES ASSUME NEW v \in Viewers
             PROVE  ScreenHolds(stream[v])'
  BY DEF ScreensHold, TableGoesOn
<1> DEFINE w == stream[v]
           f == stream[v].first
<1>1. w \in Screens /\ ScreenHolds(w) /\ stream'[v] = w
  BY DEF ScreensHold, TableGoesOn
<1>2. (f # 0 => f \in DOMAIN shell') /\ (w.at # "off" \/ f # 0 => w.of \in Sessions)
  BY <1>1 DEF ScreenHolds, TableGoesOn
<1>3. ASSUME f # 0, session'[w.of].pty = f, shell'[f].read <= Cap
      PROVE  w.sent <= shell'[f].read /\ w.shown = FirstChunks(f, w.sent)
  <2>1. f \in DOMAIN shell /\ w.of \in Sessions
    BY <1>1, <1>3 DEF ScreenHolds
  <2>2. session[w.of].pty = f
    BY <1>3, <2>1 DEF TableGoesOn
  <2>3. /\ shell[f].read \in Nat /\ shell'[f].read \in Nat /\ Cap \in Nat /\ w.sent \in Nat
        /\ shell[f].read <= shell'[f].read
    BY <1>1, <2>1, EachShell, TerminalsAssumption DEF TableGoesOn, ShellsMatch, ShellRecords, Screens
  <2>4. shell[f].read <= Cap
    BY <1>3, <2>3
  <2>5. w.sent <= shell[f].read /\ w.shown = FirstChunks(f, w.sent)
    BY <1>1, <1>3, <2>2, <2>4 DEF ScreenHolds
  <2> QED
    BY <2>3, <2>5
<1> QED
  BY <1>1, <1>2, <1>3 DEF ScreenHolds

(* A viewer's own step changes its own screen. *)
LEMMA OneScreen ==
    ASSUME ScreensHold, UNCHANGED <<session, shell>>, NEW v \in Viewers, NEW w \in Screens,
           ScreenHolds(w), stream' = [stream EXCEPT ![v] = w]
    PROVE  ScreensHold'
<1>1. stream' \in [Viewers -> Screens] /\ \A u \in Viewers : stream'[u] = IF u = v THEN w ELSE stream[u]
  BY DEF ScreensHold
<1>2. ASSUME NEW u \in Viewers
      PROVE  ScreenHolds(stream[u])'
  <2>1. ScreenHolds(stream'[u])
    BY <1>1 DEF ScreensHold
  <2> QED
    BY <2>1 DEF ScreenHolds
<1> QED
  BY <1>1, <1>2 DEF ScreensHold

(* The record of a viewer after a look at the buffer of its session's shell. *)
LEMMA LookHolds ==
    ASSUME ShellsMatch, NEW w \in Screens, ScreenHolds(w), w.of \in Sessions,
           session[w.of].pty # 0, NEW u \in Screens, u.of = w.of,
           u.shown = w.shown \o Since(session[w.of].pty, w.sent),
           \/ u.sent = Max({w.sent, Len(Buffer(session[w.of].pty))}) /\ u.first = w.first
           \/ /\ u.sent = Len(Buffer(session[w.of].pty))
              /\ u.first = IF w.shown = <<>> THEN session[w.of].pty ELSE w.first
    PROVE  /\ ScreenHolds(u)
           /\ u.first = session[w.of].pty /\ w.first = u.first /\ shell[u.first].read <= Cap =>
                u.shown = FirstChunks(u.first, shell[u.first].read)
<1> DEFINE g == session[w.of].pty
           r == shell[g].read
           n == Len(Buffer(g))
<1>1. g \in DOMAIN shell /\ TerminalsTyped
  BY DEF ShellsMatch, PtyIsOwn
<1>2. w.sent \in Nat /\ w.shown \in Seq(Chunks) /\ (w.shown = <<>> => w.sent = 0)
  BY DEF Screens, ScreenHolds
<1>3. n \in Nat /\ r \in Nat /\ (r <= Cap => n = r)
  BY <1>1, BufferHas
<1>4. /\ u.shown = <<>> => n = 0 /\ w.sent = 0
      /\ r <= Cap /\ w.sent <= r /\ w.shown = FirstChunks(g, w.sent) => u.shown = FirstChunks(g, r)
  BY <1>1, <1>2, LookAdds
<1>5. Max({w.sent, n}) = IF w.sent <= n THEN n ELSE w.sent
  BY <1>2, <1>3, OfTwo
<1>6. g # 0 /\ (w.first # 0 => w.first \in DOMAIN shell)
  BY DEF ScreenHolds
<1>7. ASSUME u.first = g, r <= Cap
      PROVE  w.sent <= r /\ w.shown = FirstChunks(g, w.sent)
  <2>1. CASE w.first = g
    BY <1>6, <1>7, <2>1 DEF ScreenHolds
  <2>2. CASE w.first # g
    <3>1. w.shown = <<>> /\ w.sent = 0
      BY <1>2, <1>7, <2>2
    <3>2. FirstChunks(g, 0) = <<>>
      BY DEF FirstChunks
    <3> QED
      BY <1>3, <3>1, <3>2
  <2> QED
    BY <2>1, <2>2
<1>8. u.first = g /\ r <= Cap => u.sent = r /\ u.shown = FirstChunks(g, r)
  BY <1>2, <1>3, <1>4, <1>5, <1>7
<1>9. (u.first # 0 => u.first \in DOMAIN shell) /\ (u.shown = <<>> => u.sent = 0)
  BY <1>1, <1>2, <1>3, <1>4, <1>5, <1>6
<1>10. u.of = w.of /\ u.of \in Sessions /\ session[u.of].pty = g
  OBVIOUS
<1>11. ASSUME u.first = g, shell[u.first].read <= Cap
       PROVE  u.sent <= shell[u.first].read /\ u.sent = r /\ u.shown = FirstChunks(u.first, r)
  <2>1. shell[u.first].read = r /\ r <= Cap
    BY <1>11
  <2>2. u.sent = r /\ u.shown = FirstChunks(g, r)
    BY <1>8, <1>11, <2>1
  <2>3. r <= r
    BY <1>3
  <2> QED
    BY <1>11, <2>1, <2>2, <2>3
<1>12. u.first = g => shell[u.first].read = r
  OBVIOUS
<1> HIDE DEF g, r, n
<1>13. ScreenHolds(u)
  BY <1>9, <1>10, <1>11, <1>12 DEF ScreenHolds
<1> QED
  BY <1>10, <1>11, <1>12, <1>13 DEF g

(* Every step keeps what the screens show. *)
LEMMA ScreensHoldStep ==
    ASSUME ShellsMatch, ScreensHold, [TerminalsNext]_terminalVars
    PROVE  ScreensHold'
<1>1. CASE UNCHANGED terminalVars
  BY <1>1 DEF terminalVars, ScreensHold, ScreenHolds
<1>2. CASE TableGoesOn
  BY <1>2, ScreensGoOn
<1>3. ASSUME NEW v \in Viewers, UNCHANGED <<session, shell>>,
             \/ TickReads(v) \/ TickPolls(v) \/ Disconnect(v)
             \/ \E s \in Sessions : PollIo(v, s) \/ \E resumes \in BOOLEAN : Follow(v, s, resumes)
      PROVE  ScreensHold'
  <2> DEFINE w == stream[v]
             off == [w EXCEPT !.at = "off", !.shell = 0]
             on == [w EXCEPT !.at = "reads", !.shell = 0]
  <2>1. w \in Screens /\ ScreenHolds(w) /\ stream \in [Viewers -> Screens]
    BY DEF ScreensHold
  <2>2. off \in Screens /\ ScreenHolds(off)
    BY <2>1 DEF Screens, ScreenHolds
  <2>3. Ends(v) => stream' = [stream EXCEPT ![v] = off]
    BY <2>1 DEF Ends, Screens
  <2>4. CASE Ends(v)
    <3> HIDE DEF off
    <3> QED
      BY <1>3, <2>2, <2>3, <2>4, OneScreen
  <2>5. CASE TickReads(v) /\ ~Ends(v)
    <3> DEFINE g == session[w.of].pty
               u == [w EXCEPT !.at = "polls", !.shell = g, !.sent = Max({@, Len(Buffer(g))}),
                              !.shown = @ \o Since(g, w.sent), !.cut = @ \cup CutSince(g, w.sent)]
    <3>1. g # 0 /\ w.at = "reads" /\ w.of \in Sessions
      BY <2>1, <2>5 DEF TickReads, ScreenHolds
    <3>2. stream' = [stream EXCEPT ![v] = u]
      BY <2>1, <2>5, <3>1 DEF TickReads, Screens
    <3>3. g \in DOMAIN shell /\ TerminalsTyped /\ g \in Nat
      BY <3>1, EachShell DEF ShellsMatch, PtyIsOwn
    <3>4. w.sent \in Nat /\ w.shown \in Seq(Chunks) /\ Len(Buffer(g)) \in Nat
      BY <2>1, <3>3, BufferHas DEF Screens
    <3>5. Max({w.sent, Len(Buffer(g))}) \in Nat
      BY <3>4, OfTwo
    <3>6. w.shown \o Since(g, w.sent) \in Seq(Chunks)
      BY <2>1, <3>3, <3>4, LookAdds DEF ScreenHolds
    <3>60. CutSince(g, w.sent) \subseteq Chunks
      BY <3>3, <3>4, CutsAreChunks
    <3>7. /\ u \in Screens /\ u.of = w.of /\ u.first = w.first
          /\ u.sent = Max({w.sent, Len(Buffer(g))}) /\ u.shown = w.shown \o Since(g, w.sent)
      <4> HIDE DEF g
      <4> QED
        BY <2>1, <3>3, <3>5, <3>6, <3>60 DEF Screens
    <3> HIDE DEF u
    <3>8. ScreenHolds(u)
      BY <2>1, <3>1, <3>7, LookHolds
    <3> QED
      BY <1>3, <3>2, <3>7, <3>8, OneScreen
  <2>6. CASE TickPolls(v) /\ ~Ends(v)
    <3>1. stream' = [stream EXCEPT ![v] = on] /\ w.at = "polls"
      BY <2>1, <2>6 DEF TickPolls, Screens
    <3>2. on \in Screens /\ ScreenHolds(on)
      BY <2>1, <3>1 DEF Screens, ScreenHolds
    <3> HIDE DEF on
    <3> QED
      BY <1>3, <3>1, <3>2, OneScreen
  <2>7. CASE Disconnect(v)
    BY <2>4, <2>7 DEF Disconnect
  <2>8. ASSUME NEW s \in Sessions, PollIo(v, s)
        PROVE  ScreensHold'
    <3> DEFINE g == session[s].pty
               u == [w EXCEPT !.sent = Len(Buffer(g)), !.first = IF w.shown = <<>> THEN g ELSE @,
                              !.shown = @ \o Since(g, w.sent), !.cut = @ \cup CutSince(g, w.sent)]
    <3>1. g # 0 /\ w.of = s
      BY <2>8 DEF PollIo
    <3>2. stream' = [stream EXCEPT ![v] = u]
      BY <2>1, <2>8 DEF PollIo, Screens
    <3>3. g \in DOMAIN shell /\ TerminalsTyped /\ g \in Nat
      BY <3>1, EachShell DEF ShellsMatch, PtyIsOwn
    <3>4. w.sent \in Nat /\ w.shown \in Seq(Chunks) /\ Len(Buffer(g)) \in Nat
      BY <2>1, <3>3, BufferHas DEF Screens
    <3>5. w.shown \o Since(g, w.sent) \in Seq(Chunks)
      BY <2>1, <3>3, <3>4, LookAdds DEF ScreenHolds
    <3>50. CutSince(g, w.sent) \subseteq Chunks
      BY <3>3, <3>4, CutsAreChunks
    <3>6. /\ u \in Screens /\ u.of = w.of /\ u.first = (IF w.shown = <<>> THEN g ELSE w.first)
          /\ u.sent = Len(Buffer(g)) /\ u.shown = w.shown \o Since(g, w.sent)
      <4> HIDE DEF g
      <4> QED
        BY <2>1, <3>3, <3>4, <3>5, <3>50 DEF Screens
    <3> HIDE DEF u
    <3>7. ScreenHolds(u)
      BY <2>1, <3>1, <3>6, LookHolds
    <3> QED
      BY <1>3, <3>2, <3>6, <3>7, OneScreen
  <2>9. ASSUME NEW s \in Sessions, NEW resumes \in BOOLEAN, Follow(v, s, resumes)
        PROVE  ScreensHold'
    <3> DEFINE again == [w EXCEPT !.at = "reads"]
               anew == [at |-> "reads", of |-> s, shell |-> 0, sent |-> 0,
                        first |-> session[s].pty, shown |-> <<>>, cut |-> {}]
    <3>1. CASE resumes
      <4>1. stream' = [stream EXCEPT ![v] = again] /\ w.of = s
        BY <2>1, <2>9, <3>1 DEF Follow, Screens
      <4>2. again \in Screens /\ ScreenHolds(again)
        BY <2>1, <4>1 DEF Screens, ScreenHolds
      <4> HIDE DEF again
      <4> QED
        BY <1>3, <4>1, <4>2, OneScreen
    <3>2. CASE ~resumes
      <4>1. stream' = [stream EXCEPT ![v] = anew]
        BY <2>9, <3>2 DEF Follow
      <4>2. session[s].pty \in Nat /\ (session[s].pty # 0 => session[s].pty \in DOMAIN shell)
        BY DEF ShellsMatch, PtyIsOwn, TerminalsTyped, SessionRecords
      <4>3. anew \in Screens
        BY <4>2 DEF Screens
      <4>4. ASSUME session[s].pty # 0
            PROVE  0 <= shell[session[s].pty].read
        BY <4>2, <4>4, EachShell DEF ShellsMatch, ShellRecords
      <4>5. FirstChunks(session[s].pty, 0) = <<>>
        BY DEF FirstChunks
      <4>6. ScreenHolds(anew)
        BY <4>2, <4>4, <4>5 DEF ScreenHolds
      <4> HIDE DEF anew
      <4> QED
        BY <1>3, <4>1, <4>3, <4>6, OneScreen
    <3> QED
      BY <3>1, <3>2
  <2> QED
    BY <1>3, <2>4, <2>5, <2>6, <2>7, <2>8, <2>9
<1> QED
  BY <1>1, <1>2, <1>3, TableSteps

(* Nobody follows anything at first. *)
LEMMA ScreensStart == TerminalsInit => ScreensHold
BY DEF TerminalsInit, ScreensHold, ScreenHolds, Screens, NoStream

(* And a look at the buffer shows all of a shell that put out no more than fits. *)
LEMMA LookShowsAll ==
    ASSUME ShellsMatch, ScreensHold, TerminalsNext, NEW v \in Viewers, Steady(v),
           shell[stream[v].first].read <= Cap, stream'[v].at = "polls", stream[v].at = "reads"
    PROVE  LET g == stream[v].first IN stream'[v].shown = [i \in 1..shell[g].read |-> <<g, i>>]
<1> DEFINE w == stream[v]
           g == session[w.of].pty
           u == [w EXCEPT !.at = "polls", !.shell = g, !.sent = Max({@, Len(Buffer(g))}),
                          !.shown = @ \o Since(g, w.sent), !.cut = @ \cup CutSince(g, w.sent)]
<1>1. w \in Screens /\ ScreenHolds(w) /\ stream \in [Viewers -> Screens]
  BY DEF ScreensHold
<1>2. g = w.first /\ g # 0 /\ w.of \in Sessions
  BY <1>1 DEF Steady, ScreenHolds
<1>3. TickReads(v)
  <2>1. ~TableGoesOn
    BY DEF TableGoesOn
  <2>2. PICK x \in Viewers :
          \/ TickReads(x) \/ TickPolls(x) \/ Disconnect(x)
          \/ \E s \in Sessions : PollIo(x, s) \/ \E resumes \in BOOLEAN : Follow(x, s, resumes)
    BY <2>1, TableSteps
  <2>3. x = v
    BY <1>1, <2>2 DEF TickReads, TickPolls, Disconnect, PollIo, Follow, Ends
  <2>4. ~TickPolls(v) /\ \A s \in Sessions : ~PollIo(v, s) /\ \A resumes \in BOOLEAN : ~Follow(v, s, resumes)
    BY DEF TickPolls, PollIo, Follow
  <2>5. ~Ends(v)
    BY <1>1 DEF Ends, Screens
  <2> QED
    BY <2>2, <2>3, <2>4, <2>5 DEF Disconnect
<1>4. stream'[v] = u
  BY <1>1, <1>2, <1>3 DEF TickReads, Screens
<1>5. g \in DOMAIN shell /\ TerminalsTyped /\ w.sent \in Nat /\ w.shown \in Seq(Chunks)
  BY <1>1, <1>2 DEF ShellsMatch, PtyIsOwn, Screens
<1>6. w.sent <= shell[g].read /\ w.shown = FirstChunks(g, w.sent)
  BY <1>1, <1>2 DEF ScreenHolds
<1>7. w.shown \o Since(g, w.sent) = FirstChunks(g, shell[g].read)
  BY <1>1, <1>2, <1>5, <1>6, LookAdds DEF ScreenHolds
<1>8. u.shown = w.shown \o Since(g, w.sent)
  BY <1>1 DEF Screens
<1> HIDE DEF u, g
<1> QED
  BY <1>2, <1>4, <1>7, <1>8 DEF FirstChunks

-----------------------------------------------------------------------------
(* The shells in runtimes *)

\* The k numbers after m, in order.
After(m, k) == [i \in 1..k |-> m + i]

(* Counting on by one. *)
LEMMA CountsOn ==
    ASSUME NEW m \in Nat, NEW k \in Nat
    PROVE  /\ After(m, k) \in Seq(Nat)
           /\ Append(After(m, k), m + k + 1) = After(m, k + 1)
<1>1. After(m, k) \in Seq(Nat) /\ Len(After(m, k)) = k
  BY DEF After
<1>2. After(m, k + 1) \in Seq(Nat) /\ Len(After(m, k + 1)) = k + 1
  BY DEF After
<1>3. Append(After(m, k), m + k + 1) \in Seq(Nat) /\ Len(Append(After(m, k), m + k + 1)) = k + 1
  BY <1>1
<1>4. ASSUME NEW i \in 1..(k + 1)
      PROVE  Append(After(m, k), m + k + 1)[i] = After(m, k + 1)[i]
  BY <1>1, <1>2 DEF After
<1> QED
  BY <1>1, <1>2, <1>3, <1>4, SeqEqual

(* To show the head of the queue changes nothing in the order. *)
LEMMA HeadMoves ==
    ASSUME NEW s \in Seq(Nat), NEW q \in Seq(Nat), q # <<>>
    PROVE  Append(s, Head(q)) \o Tail(q) = s \o q
<1>1. Head(q) \in Nat /\ Tail(q) \in Seq(Nat) /\ Len(Tail(q)) = Len(q) - 1 /\ Len(q) > 0
  OBVIOUS
<1>2. Append(s, Head(q)) \o Tail(q) \in Seq(Nat) /\ s \o q \in Seq(Nat)
  BY <1>1
<1>3. Len(Append(s, Head(q)) \o Tail(q)) = Len(s \o q)
  BY <1>1
<1>4. ASSUME NEW i \in 1..Len(s \o q)
      PROVE  (Append(s, Head(q)) \o Tail(q))[i] = (s \o q)[i]
  BY <1>1
<1> QED
  BY <1>2, <1>3, <1>4, SeqEqual

Sizes == Measured \cup {StartSize}
RtRecords ==
    [at : {"none", "started", "opening", "sizing", "running", "ending", "over"}, alive : BOOLEAN,
     attempts : Nat, size : Sizes, sized : BOOLEAN,
     launched : Sizes \cup {0}, out : Nat,
     connected : BOOLEAN, halted : BOOLEAN]
ViewerRecords ==
    [at : {"off", "looked", "follows"}, of : RtSessions \cup {NoViewer.of},
     seen : Nat, from : Nat, queue : Seq(Nat), shown : Seq(Nat)]
ShellsTyped ==
    /\ rt \in [RtSessions -> RtRecords]
    /\ registry \subseteq RtSessions /\ stopping \subseteq RtSessions
ViewersTyped == viewer \in [RtViewers -> ViewerRecords]

\* A session is listed only when it was started.
ShellsListed == \A r \in registry : rt[r].at # "none"

\* A stream is of a session there is; what it has shown and queued is what was
\* in the buffer when it looked and all that came since it subscribed.
Follows(v) ==
    LET r == viewer[v].of
    IN  /\ viewer[v].at # "off" => r \in RtSessions /\ rt[r].at # "none"
        /\ viewer[v].at = "looked" => viewer[v].queue = <<>> /\ viewer[v].shown = After(0, viewer[v].seen)
        /\ viewer[v].at = "follows" =>
             /\ viewer[v].from <= rt[r].out
             /\ viewer[v].shown \o viewer[v].queue =
                  After(0, viewer[v].seen) \o After(viewer[v].from, rt[r].out - viewer[v].from)
StreamsFollow == \A v \in RtViewers : Follows(v)

(* A size is a number that no runtime needs to know. *)
LEMMA Sized == StartSize \in Sizes /\ Measured \subseteq Sizes
BY DEF Sizes

(* An output of a session, and its end, leave a session. *)
LEMMA EmitsTyped ==
    ASSUME ShellsTyped, NEW r \in RtSessions, NEW ran \in RtRecords, Emits(r, ran)
    PROVE  ShellsTyped'
<1> DEFINE rec == [ran EXCEPT !.out = @ + 1]
<1>1. rec \in RtRecords
  BY DEF RtRecords
<1>2. rt' = [rt EXCEPT ![r] = rec]
  BY DEF Emits
<1> HIDE DEF rec
<1> QED
  BY <1>1, <1>2 DEF ShellsTyped, Emits

(* So does the end of one that a viewer or the service asks for. *)
LEMMA KilledTyped ==
    ASSUME ShellsTyped, NEW r \in RtSessions, RtKilled(r)
    PROVE  rt' \in [RtSessions -> RtRecords]
<1>1. rt[r] \in RtRecords
  BY DEF ShellsTyped
<1> DEFINE told == rt[r].halted \/ rt[r].at \in AtWork
           dead == [rt[r] EXCEPT !.alive = FALSE, !.halted = told]
<1>2. told \in BOOLEAN
  OBVIOUS
<1>3. rt' = [rt EXCEPT ![r] = dead]
  BY <1>1 DEF RtKilled, ShellsTyped, RtRecords
<1> HIDE DEF told
<1>4. dead \in RtRecords
  BY <1>1, <1>2 DEF RtRecords
<1> HIDE DEF dead
<1> QED
  BY <1>3, <1>4 DEF ShellsTyped

(* Every step keeps the types of the sessions. *)
LEMMA ShellsTypedStep ==
    ASSUME ShellsTyped, [RtNext]_rtVars
    PROVE  ShellsTyped'
<1>1. ASSUME NEW r \in RtSessions, RtOpens(r)
      PROVE  ShellsTyped'
  <2> DEFINE rec == [NoRt EXCEPT !.at = "started", !.alive = TRUE]
  <2>1. rt[r] \in RtRecords
    BY DEF ShellsTyped
  <2>2. rec \in RtRecords
    BY <2>1, Sized, RuntimeShellsAssumption DEF RtRecords, NoRt
  <2>3. rt' = [rt EXCEPT ![r] = rec]
    BY <1>1 DEF RtOpens, ShellsTyped, RtRecords
  <2> HIDE DEF rec
  <2>4. rt' \in [RtSessions -> RtRecords]
    BY <2>2, <2>3 DEF ShellsTyped
  <2> QED
    BY <1>1, <2>4 DEF RtOpens, ShellsTyped
<1>2. ASSUME NEW r \in RtSessions, LoopStarts(r)
      PROVE  ShellsTyped'
  <2> DEFINE rec == [rt[r] EXCEPT !.at = "opening"]
  <2>1. rt[r] \in RtRecords
    BY DEF ShellsTyped
  <2>2. rec \in RtRecords
    BY <2>1, Sized, RuntimeShellsAssumption DEF RtRecords, NoRt
  <2>3. rt' = [rt EXCEPT ![r] = rec]
    BY <1>2 DEF LoopStarts, ShellsTyped, RtRecords
  <2> HIDE DEF rec
  <2>4. rt' \in [RtSessions -> RtRecords]
    BY <2>2, <2>3 DEF ShellsTyped
  <2> QED
    BY <1>2, <2>4 DEF LoopStarts, ShellsTyped
<1>3. ASSUME NEW r \in RtSessions, AttemptFails(r)
      PROVE  ShellsTyped'
  <2> DEFINE tried == IF rt[r].attempts + 1 < MaxAttempts THEN [rt[r] EXCEPT !.attempts = @ + 1]
                     ELSE [rt[r] EXCEPT !.attempts = @ + 1, !.at = "over", !.alive = FALSE]
  <2>1. rt[r] \in RtRecords
    BY DEF ShellsTyped
  <2>2. tried \in RtRecords
    <3>1. CASE rt[r].attempts + 1 < MaxAttempts
      BY <2>1, <3>1 DEF RtRecords
    <3>2. CASE ~(rt[r].attempts + 1 < MaxAttempts)
      <4> DEFINE last == [rt[r] EXCEPT !.attempts = @ + 1]
      <4>1. last \in RtRecords
        BY <2>1 DEF RtRecords
      <4>2. tried = [last EXCEPT !.at = "over", !.alive = FALSE]
        BY <2>1, <3>2 DEF RtRecords
      <4> HIDE DEF last, tried
      <4>3. [last EXCEPT !.at = "over", !.alive = FALSE] \in RtRecords
        BY <4>1 DEF RtRecords
      <4> QED
        BY <4>2, <4>3
    <3> QED
      BY <3>1, <3>2
  <2>3. Emits(r, tried)
    BY <1>3 DEF AttemptFails
  <2> HIDE DEF tried
  <2> QED
    BY <2>2, <2>3, EmitsTyped
<1>4. ASSUME NEW r \in RtSessions, ShellOpens(r)
      PROVE  ShellsTyped'
  <2> DEFINE rec == [rt[r] EXCEPT !.at = "sizing", !.size = StartSize, !.connected = TRUE]
  <2>1. rt[r] \in RtRecords
    BY DEF ShellsTyped
  <2>2. rec \in RtRecords
    BY <2>1, Sized, RuntimeShellsAssumption DEF RtRecords, NoRt
  <2>3. rt' = [rt EXCEPT ![r] = rec]
    BY <1>4 DEF ShellOpens, ShellsTyped, RtRecords
  <2> HIDE DEF rec
  <2>4. rt' \in [RtSessions -> RtRecords]
    BY <2>2, <2>3 DEF ShellsTyped
  <2> QED
    BY <1>4, <2>4 DEF ShellOpens, ShellsTyped
<1>5. ASSUME NEW r \in RtSessions, Launches(r)
      PROVE  ShellsTyped'
  <2> DEFINE rec == [rt[r] EXCEPT !.at = "running", !.launched = rt[r].size]
  <2>1. rt[r] \in RtRecords
    BY DEF ShellsTyped
  <2>2. rec \in RtRecords
    BY <2>1, Sized, RuntimeShellsAssumption DEF RtRecords, NoRt
  <2>3. rt' = [rt EXCEPT ![r] = rec]
    BY <1>5 DEF Launches, ShellsTyped, RtRecords
  <2> HIDE DEF rec
  <2>4. rt' \in [RtSessions -> RtRecords]
    BY <2>2, <2>3 DEF ShellsTyped
  <2> QED
    BY <1>5, <2>4 DEF Launches, ShellsTyped
<1>6. ASSUME NEW r \in RtSessions, Outputs(r)
      PROVE  ShellsTyped'
  <2>1. rt[r] \in RtRecords
    BY DEF ShellsTyped
  <2> QED
    BY <1>6, <2>1, EmitsTyped DEF Outputs
<1>7. ASSUME NEW r \in RtSessions, RemoteEnds(r)
      PROVE  ShellsTyped'
  <2> DEFINE rec == [rt[r] EXCEPT !.at = "ending", !.alive = FALSE, !.connected = FALSE]
  <2>1. rt[r] \in RtRecords
    BY DEF ShellsTyped
  <2>2. rec \in RtRecords
    BY <2>1, Sized, RuntimeShellsAssumption DEF RtRecords, NoRt
  <2>3. rt' = [rt EXCEPT ![r] = rec]
    BY <1>7 DEF RemoteEnds, ShellsTyped, RtRecords
  <2> HIDE DEF rec
  <2>4. rt' \in [RtSessions -> RtRecords]
    BY <2>2, <2>3 DEF ShellsTyped
  <2> QED
    BY <1>7, <2>4 DEF RemoteEnds, ShellsTyped
<1>8. ASSUME NEW r \in RtSessions, SaysEnded(r)
      PROVE  ShellsTyped'
  <2>1. rt[r] \in RtRecords
    BY DEF ShellsTyped
  <2>2. [rt[r] EXCEPT !.at = "over"] \in RtRecords
    BY <2>1 DEF RtRecords
  <2> QED
    BY <1>8, <2>2, EmitsTyped DEF SaysEnded
<1>9. ASSUME NEW r \in RtSessions, Close(r)
      PROVE  ShellsTyped'
  BY <1>9, KilledTyped DEF Close, ShellsTyped
<1>10. ASSUME NEW r \in RtSessions, StopCalls(r)
      PROVE  ShellsTyped'
  BY <1>10 DEF StopCalls, ShellsTyped
<1>11. ASSUME NEW r \in RtSessions, StopCloses(r)
      PROVE  ShellsTyped'
  BY <1>11, KilledTyped DEF StopCloses, ShellsTyped
<1>12. ASSUME NEW r \in RtSessions, NEW size \in Measured, Resize(r, size)
      PROVE  ShellsTyped'
  <2> DEFINE rec == [rt[r] EXCEPT !.size = size, !.sized = TRUE]
  <2>1. rt[r] \in RtRecords
    BY DEF ShellsTyped
  <2>2. rec \in RtRecords
    BY <2>1, Sized, RuntimeShellsAssumption, Sized DEF RtRecords, NoRt
  <2>3. rt' = [rt EXCEPT ![r] = rec]
    BY <1>12 DEF Resize, ShellsTyped, RtRecords
  <2> HIDE DEF rec
  <2>4. rt' \in [RtSessions -> RtRecords]
    BY <2>2, <2>3 DEF ShellsTyped
  <2> QED
    BY <1>12, <2>4 DEF Resize, ShellsTyped
<1>13. ASSUME NEW r \in RtSessions, NEW v \in RtViewers, StreamBegins(v, r)
      PROVE  ShellsTyped'
  BY <1>13 DEF StreamBegins, ShellsTyped
<1>14. ASSUME NEW v \in RtViewers, Subscribes(v)
      PROVE  ShellsTyped'
  BY <1>14 DEF Subscribes, ShellsTyped
<1>15. ASSUME NEW v \in RtViewers, StreamYields(v)
      PROVE  ShellsTyped'
  BY <1>15 DEF StreamYields, ShellsTyped
<1>16. ASSUME NEW v \in RtViewers, StreamEnds(v)
      PROVE  ShellsTyped'
  BY <1>16 DEF StreamEnds, ShellsTyped
<1>17. CASE UNCHANGED rtVars
  BY <1>17 DEF rtVars, ShellsTyped
<1>18. ASSUME NEW r \in RtSessions, ThreadFails(r)
      PROVE  ShellsTyped'
  <2>1. rt[r] \in RtRecords
    BY DEF ShellsTyped
  <2>2. [rt[r] EXCEPT !.at = "over", !.alive = FALSE, !.connected = FALSE] \in RtRecords
    BY <2>1 DEF RtRecords
  <2> QED
    BY <1>18, <2>2, EmitsTyped DEF ThreadFails
<1>19. ASSUME NEW r \in RtSessions, LoopHalts(r)
      PROVE  ShellsTyped'
  <2>1. rt[r] \in RtRecords
    BY DEF ShellsTyped
  <2>2. [rt[r] EXCEPT !.at = "over", !.alive = FALSE] \in RtRecords
    BY <2>1 DEF RtRecords
  <2> QED
    BY <1>19, <2>2, EmitsTyped DEF LoopHalts
<1> QED
  BY <1>1, <1>2, <1>3, <1>4, <1>5, <1>6, <1>7, <1>8, <1>9, <1>10, <1>11, <1>12, <1>13, <1>14, <1>15, <1>16, <1>17, <1>18, <1>19
  DEF RtNext

(* Every step keeps the list of the sessions. *)
LEMMA ListedStep ==
    ASSUME ShellsTyped, ShellsListed, [RtNext]_rtVars
    PROVE  ShellsListed'
<1> USE DEF ShellsTyped, RtRecords, ShellsListed, Emits, RtKilled, NoRt, AtWork
<1>1. ASSUME NEW r \in RtSessions, RtOpens(r)
      PROVE  ShellsListed'
  BY <1>1 DEF RtOpens
<1>2. ASSUME NEW r \in RtSessions, LoopStarts(r)
      PROVE  ShellsListed'
  BY <1>2 DEF LoopStarts
<1>3. ASSUME NEW r \in RtSessions, AttemptFails(r)
      PROVE  ShellsListed'
  BY <1>3 DEF AttemptFails
<1>4. ASSUME NEW r \in RtSessions, ShellOpens(r)
      PROVE  ShellsListed'
  BY <1>4 DEF ShellOpens
<1>5. ASSUME NEW r \in RtSessions, Launches(r)
      PROVE  ShellsListed'
  BY <1>5 DEF Launches
<1>6. ASSUME NEW r \in RtSessions, Outputs(r)
      PROVE  ShellsListed'
  BY <1>6 DEF Outputs
<1>7. ASSUME NEW r \in RtSessions, RemoteEnds(r)
      PROVE  ShellsListed'
  BY <1>7 DEF RemoteEnds
<1>8. ASSUME NEW r \in RtSessions, SaysEnded(r)
      PROVE  ShellsListed'
  BY <1>8 DEF SaysEnded
<1>9. ASSUME NEW r \in RtSessions, Close(r)
      PROVE  ShellsListed'
  BY <1>9 DEF Close
<1>10. ASSUME NEW r \in RtSessions, StopCalls(r)
      PROVE  ShellsListed'
  BY <1>10 DEF StopCalls
<1>11. ASSUME NEW r \in RtSessions, StopCloses(r)
      PROVE  ShellsListed'
  BY <1>11 DEF StopCloses
<1>12. ASSUME NEW r \in RtSessions, NEW size \in Measured, Resize(r, size)
      PROVE  ShellsListed'
  BY <1>12 DEF Resize
<1>13. ASSUME NEW r \in RtSessions, NEW v \in RtViewers, StreamBegins(v, r)
      PROVE  ShellsListed'
  BY <1>13 DEF StreamBegins
<1>14. ASSUME NEW v \in RtViewers, Subscribes(v)
      PROVE  ShellsListed'
  BY <1>14 DEF Subscribes
<1>15. ASSUME NEW v \in RtViewers, StreamYields(v)
      PROVE  ShellsListed'
  BY <1>15 DEF StreamYields
<1>16. ASSUME NEW v \in RtViewers, StreamEnds(v)
      PROVE  ShellsListed'
  BY <1>16 DEF StreamEnds
<1>17. CASE UNCHANGED rtVars
  BY <1>17 DEF rtVars
<1>18. ASSUME NEW r \in RtSessions, ThreadFails(r)
      PROVE  ShellsListed'
  BY <1>18 DEF ThreadFails
<1>19. ASSUME NEW r \in RtSessions, LoopHalts(r)
      PROVE  ShellsListed'
  BY <1>19 DEF LoopHalts
<1> QED
  BY <1>1, <1>2, <1>3, <1>4, <1>5, <1>6, <1>7, <1>8, <1>9, <1>10, <1>11, <1>12, <1>13, <1>14, <1>15, <1>16, <1>17, <1>18, <1>19
  DEF RtNext

(* An output reaches every stream that subscribed, in order. *)
LEMMA QueuedFollows ==
    ASSUME ShellsTyped, ViewersTyped, StreamsFollow, NEW r \in RtSessions,
           viewer' = Queued(r, rt[r].out + 1),
           rt'[r].out = rt[r].out + 1, rt'[r].at # "none",
           \A q \in RtSessions : q # r => rt'[q] = rt[q]
    PROVE  ViewersTyped' /\ StreamsFollow'
<1>1. rt[r].out \in Nat
  BY DEF ShellsTyped, RtRecords
<1>2. ASSUME NEW v \in RtViewers
      PROVE  viewer'[v] \in ViewerRecords /\ Follows(v)'
  <2>1. viewer[v] \in ViewerRecords /\ Follows(v)
    BY DEF ViewersTyped, StreamsFollow
  <2>2. CASE viewer[v].at = "follows" /\ viewer[v].of = r
    <3> DEFINE k == rt[r].out - viewer[v].from
    <3>1. viewer'[v] = [viewer[v] EXCEPT !.queue = Append(@, rt[r].out + 1)]
      BY <2>2 DEF Queued
    <3>2. viewer[v].shown \in Seq(Nat) /\ viewer[v].queue \in Seq(Nat) /\ viewer[v].from \in Nat /\ viewer[v].seen \in Nat
      BY <2>1 DEF ViewerRecords
    <3>3. Append(viewer[v].queue, rt[r].out + 1) \in Seq(Nat)
      BY <1>1, <3>2
    <3>4. viewer'[v] \in ViewerRecords
      BY <2>1, <3>1, <3>3 DEF ViewerRecords
    <3>5. /\ viewer'[v].shown = viewer[v].shown /\ viewer'[v].queue = Append(viewer[v].queue, rt[r].out + 1)
          /\ viewer'[v].at = "follows" /\ viewer'[v].of = r
          /\ viewer'[v].from = viewer[v].from /\ viewer'[v].seen = viewer[v].seen
      BY <2>1, <2>2, <3>1 DEF ViewerRecords
    <3>6. viewer[v].from <= rt[r].out /\ viewer[v].shown \o viewer[v].queue = After(0, viewer[v].seen) \o After(viewer[v].from, k)
      BY <2>1, <2>2 DEF Follows
    <3>a. /\ k \in Nat /\ rt[r].out + 1 = viewer[v].from + k + 1 /\ rt'[r].out - viewer[v].from = k + 1
          /\ viewer[v].from <= rt'[r].out /\ rt[r].out + 1 \in Nat
      BY <1>1, <3>2, <3>6
    <3> HIDE DEF k
    <3>d. \A s, q \in Seq(Nat), x \in Nat : s \o Append(q, x) = Append(s \o q, x)
      BY AppendLast
    <3>7. viewer[v].shown \o Append(viewer[v].queue, rt[r].out + 1)
            = Append(viewer[v].shown \o viewer[v].queue, rt[r].out + 1)
      BY <3>2, <3>a, <3>d
    <3>8. After(0, viewer[v].seen) \in Seq(Nat) /\ After(viewer[v].from, k) \in Seq(Nat)
      BY <3>2, <3>a, CountsOn
    <3>9. Append(After(0, viewer[v].seen) \o After(viewer[v].from, k), rt[r].out + 1)
            = After(0, viewer[v].seen) \o Append(After(viewer[v].from, k), rt[r].out + 1)
      BY <3>8, <3>a, <3>d
    <3>10. Append(After(viewer[v].from, k), rt[r].out + 1) = After(viewer[v].from, k + 1)
      BY <3>2, <3>a, CountsOn
    <3>11. viewer'[v].shown \o viewer'[v].queue
             = After(0, viewer[v].seen) \o After(viewer[v].from, k + 1)
      BY <3>5, <3>6, <3>7, <3>9, <3>10
    <3>b. viewer'[v].shown \o viewer'[v].queue
            = After(0, viewer'[v].seen) \o After(viewer'[v].from, rt'[r].out - viewer'[v].from)
      BY <3>5, <3>11, <3>a
    <3>c. Follows(v)'
      BY <3>5, <3>b, <3>a, Zenon DEF Follows
    <3> QED
      BY <3>4, <3>c
  <2>3. CASE ~(viewer[v].at = "follows" /\ viewer[v].of = r)
    <3>1. viewer'[v] = viewer[v]
      BY <2>3 DEF Queued
    <3> QED
      BY <2>1, <2>3, <3>1 DEF Follows
  <2> QED
    BY <2>2, <2>3
<1>3. viewer' \in [RtViewers -> ViewerRecords]
  <2>1. viewer' = [v \in RtViewers |-> viewer'[v]]
    BY DEF Queued
  <2> QED
    BY <1>2, <2>1
<1> QED
  BY <1>2, <1>3 DEF ViewersTyped, StreamsFollow

(* Nothing changes for a stream whose session has no output. *)
LEMMA QuietFollows ==
    ASSUME ShellsTyped, ViewersTyped, StreamsFollow, UNCHANGED viewer,
           \A q \in RtSessions : rt[q].at # "none" => rt'[q].at # "none" /\ rt'[q].out = rt[q].out
    PROVE  ViewersTyped' /\ StreamsFollow'
BY DEF ViewersTyped, StreamsFollow, Follows

(* To kill a session puts nothing out. *)
LEMMA KilledFollows ==
    ASSUME ShellsTyped, ViewersTyped, StreamsFollow, NEW r \in RtSessions, RtKilled(r)
    PROVE  ViewersTyped' /\ StreamsFollow'
<1>1. UNCHANGED viewer
  BY DEF RtKilled
<1>2. \A q \in RtSessions : rt'[q].at = rt[q].at /\ rt'[q].out = rt[q].out
  BY DEF RtKilled, ShellsTyped, RtRecords
<1> QED
  BY <1>1, <1>2, QuietFollows

(* What a session puts out, its streams are owed. *)
LEMMA EmitsFollows ==
    ASSUME ShellsTyped, ViewersTyped, StreamsFollow, NEW r \in RtSessions, NEW ran \in RtRecords,
           ran.at # "none", ran.out = rt[r].out, Emits(r, ran)
    PROVE  ViewersTyped' /\ StreamsFollow'
<1>1. rt'[r].out = rt[r].out + 1 /\ rt'[r].at # "none" /\ \A q \in RtSessions : q # r => rt'[q] = rt[q]
  BY DEF Emits, ShellsTyped, RtRecords
<1> QED
  BY <1>1, QueuedFollows DEF Emits

(* Every step keeps every stream at what its session has put out. *)
LEMMA StreamsFollowStep ==
    ASSUME ShellsTyped, ViewersTyped, ShellsListed, StreamsFollow, [RtNext]_rtVars
    PROVE  ViewersTyped' /\ StreamsFollow'
<1>1. ASSUME NEW r \in RtSessions, RtOpens(r)
      PROVE  ViewersTyped' /\ StreamsFollow'
  <2>1. \A q \in RtSessions : rt[q].at # "none" => rt'[q].at # "none" /\ rt'[q].out = rt[q].out
    BY <1>1 DEF RtOpens, ShellsTyped, RtRecords
  <2> QED
    BY <1>1, <2>1, QuietFollows DEF RtOpens
<1>2. ASSUME NEW r \in RtSessions, LoopStarts(r)
      PROVE  ViewersTyped' /\ StreamsFollow'
  <2>1. \A q \in RtSessions : rt[q].at # "none" => rt'[q].at # "none" /\ rt'[q].out = rt[q].out
    BY <1>2 DEF LoopStarts, ShellsTyped, RtRecords
  <2> QED
    BY <1>2, <2>1, QuietFollows DEF LoopStarts
<1>3. ASSUME NEW r \in RtSessions, AttemptFails(r)
      PROVE  ViewersTyped' /\ StreamsFollow'
  <2> DEFINE tried == IF rt[r].attempts + 1 < MaxAttempts THEN [rt[r] EXCEPT !.attempts = @ + 1]
                     ELSE [rt[r] EXCEPT !.attempts = @ + 1, !.at = "over", !.alive = FALSE]
  <2>1. rt[r] \in RtRecords
    BY DEF ShellsTyped
  <2>2. tried.at # "none" /\ tried.out = rt[r].out
    BY <1>3, <2>1 DEF AttemptFails, RtRecords
  <2>3. rt'[r].out = rt[r].out + 1 /\ rt'[r].at # "none" /\ \A q \in RtSessions : q # r => rt'[q] = rt[q]
    <3>1. rt' = [rt EXCEPT ![r] = [tried EXCEPT !.out = @ + 1]]
      BY <1>3 DEF AttemptFails, Emits
    <3>2. tried.out = rt[r].out /\ DOMAIN tried = DOMAIN rt[r] /\ "out" \in DOMAIN tried /\ "at" \in DOMAIN tried
      BY <2>1 DEF RtRecords
    <3> HIDE DEF tried
    <3> QED
      BY <2>2, <3>1, <3>2 DEF ShellsTyped
  <2>4. viewer' = Queued(r, rt[r].out + 1)
    BY <1>3 DEF AttemptFails, Emits
  <2> HIDE DEF tried
  <2> QED
    BY <2>3, <2>4, QueuedFollows
<1>4. ASSUME NEW r \in RtSessions, ShellOpens(r)
      PROVE  ViewersTyped' /\ StreamsFollow'
  <2>1. \A q \in RtSessions : rt[q].at # "none" => rt'[q].at # "none" /\ rt'[q].out = rt[q].out
    BY <1>4 DEF ShellOpens, ShellsTyped, RtRecords
  <2> QED
    BY <1>4, <2>1, QuietFollows DEF ShellOpens
<1>5. ASSUME NEW r \in RtSessions, Launches(r)
      PROVE  ViewersTyped' /\ StreamsFollow'
  <2>1. \A q \in RtSessions : rt[q].at # "none" => rt'[q].at # "none" /\ rt'[q].out = rt[q].out
    BY <1>5 DEF Launches, ShellsTyped, RtRecords
  <2> QED
    BY <1>5, <2>1, QuietFollows DEF Launches
<1>6. ASSUME NEW r \in RtSessions, Outputs(r)
      PROVE  ViewersTyped' /\ StreamsFollow'
  <2>1. rt[r] \in RtRecords
    BY DEF ShellsTyped
  <2>2. rt[r] \in RtRecords
    BY <2>1 DEF RtRecords
  <2> QED
    BY <1>6, <2>1, <2>2, EmitsFollows DEF Outputs, RtRecords
<1>7. ASSUME NEW r \in RtSessions, RemoteEnds(r)
      PROVE  ViewersTyped' /\ StreamsFollow'
  <2>1. \A q \in RtSessions : rt[q].at # "none" => rt'[q].at # "none" /\ rt'[q].out = rt[q].out
    BY <1>7 DEF RemoteEnds, ShellsTyped, RtRecords
  <2> QED
    BY <1>7, <2>1, QuietFollows DEF RemoteEnds
<1>8. ASSUME NEW r \in RtSessions, SaysEnded(r)
      PROVE  ViewersTyped' /\ StreamsFollow'
  <2>1. rt[r] \in RtRecords
    BY DEF ShellsTyped
  <2>2. [rt[r] EXCEPT !.at = "over"] \in RtRecords
    BY <2>1 DEF RtRecords
  <2> QED
    BY <1>8, <2>1, <2>2, EmitsFollows DEF SaysEnded, RtRecords
<1>9. ASSUME NEW r \in RtSessions, Close(r)
      PROVE  ViewersTyped' /\ StreamsFollow'
  BY <1>9, KilledFollows DEF Close
<1>10. ASSUME NEW r \in RtSessions, StopCalls(r)
      PROVE  ViewersTyped' /\ StreamsFollow'
  <2>1. \A q \in RtSessions : rt[q].at # "none" => rt'[q].at # "none" /\ rt'[q].out = rt[q].out
    BY <1>10 DEF StopCalls, ShellsTyped, RtRecords
  <2> QED
    BY <1>10, <2>1, QuietFollows DEF StopCalls
<1>11. ASSUME NEW r \in RtSessions, StopCloses(r)
      PROVE  ViewersTyped' /\ StreamsFollow'
  <2>1. CASE r \in registry
    BY <1>11, <2>1, KilledFollows DEF StopCloses
  <2>2. CASE r \notin registry
    BY <1>11, <2>2, QuietFollows DEF StopCloses
  <2> QED
    BY <2>1, <2>2
<1>12. ASSUME NEW r \in RtSessions, NEW size \in Measured, Resize(r, size)
      PROVE  ViewersTyped' /\ StreamsFollow'
  <2>1. \A q \in RtSessions : rt[q].at # "none" => rt'[q].at # "none" /\ rt'[q].out = rt[q].out
    BY <1>12 DEF Resize, ShellsTyped, RtRecords
  <2> QED
    BY <1>12, <2>1, QuietFollows DEF Resize
<1>13. ASSUME NEW r \in RtSessions, NEW v \in RtViewers, StreamBegins(v, r)
      PROVE  ViewersTyped' /\ StreamsFollow'
  <2>1. rt[r].out \in Nat /\ rt[r].at # "none"
    BY <1>13 DEF StreamBegins, ShellsTyped, RtRecords, ShellsListed
  <2>2. After(0, rt[r].out) \in Seq(Nat) /\ After(0, rt[r].out) = [i \in 1..rt[r].out |-> i]
    BY <2>1, CountsOn DEF After
  <2>3. Looks(v, r) = [at |-> "looked", of |-> r, seen |-> rt[r].out, from |-> 0, queue |-> <<>>, shown |-> After(0, rt[r].out)]
    <3> DEFINE buffer == [i \in 1..rt[r].out |-> i]
    <3>1. Looks(v, r) = [NoViewer EXCEPT !.at = "looked", !.of = r, !.seen = rt[r].out, !.shown = buffer]
      BY DEF Looks
    <3>2. buffer = After(0, rt[r].out)
      BY <2>2
    <3> HIDE DEF buffer
    <3> QED
      BY <3>1, <3>2 DEF NoViewer
  <2>4. Looks(v, r) \in ViewerRecords
    BY <2>1, <2>2, <2>3 DEF ViewerRecords
  <2>5. viewer' = [viewer EXCEPT ![v] = Looks(v, r)] /\ UNCHANGED rt
    BY <1>13 DEF StreamBegins
  <2>6. viewer' \in [RtViewers -> ViewerRecords]
    BY <2>4, <2>5 DEF ViewersTyped
  <2>7. ASSUME NEW w \in RtViewers
        PROVE  Follows(w)'
    <3>1. CASE w = v
      BY <2>1, <2>3, <2>5, <3>1 DEF Follows, ViewersTyped
    <3>2. CASE w # v
      BY <2>5, <3>2 DEF Follows, ViewersTyped, StreamsFollow
    <3> QED
      BY <3>1, <3>2
  <2> QED
    BY <2>6, <2>7 DEF ViewersTyped, StreamsFollow
<1>14. ASSUME NEW v \in RtViewers, Subscribes(v)
      PROVE  ViewersTyped' /\ StreamsFollow'
  <2> DEFINE out == rt[viewer[v].of].out
  <2>1. viewer[v] \in ViewerRecords /\ Follows(v) /\ viewer[v].at = "looked"
    BY <1>14 DEF ViewersTyped, StreamsFollow, Subscribes
  <2>2. viewer[v].of \in RtSessions /\ out \in Nat /\ viewer[v].seen \in Nat
    BY <2>1 DEF Follows, ShellsTyped, RtRecords, ViewerRecords
  <2>3. viewer' = [viewer EXCEPT ![v] = [viewer[v] EXCEPT !.at = "follows", !.from = out]] /\ UNCHANGED rt
    BY <1>14 DEF Subscribes, ViewersTyped, ViewerRecords
  <2>4. [viewer[v] EXCEPT !.at = "follows", !.from = out] \in ViewerRecords
    BY <2>1, <2>2 DEF ViewerRecords
  <2>5. viewer' \in [RtViewers -> ViewerRecords]
    BY <2>3, <2>4 DEF ViewersTyped
  <2>6. Follows(v)'
    <3>1. /\ viewer'[v].at = "follows" /\ viewer'[v].of = viewer[v].of /\ viewer'[v].seen = viewer[v].seen
          /\ viewer'[v].from = out /\ viewer'[v].queue = <<>> /\ viewer'[v].shown = After(0, viewer[v].seen)
      BY <2>1, <2>3 DEF Follows, ViewersTyped, ViewerRecords
    <3>2. out - out = 0 /\ out <= out
      BY <2>2
    <3>3. After(out, 0) = <<>> /\ After(0, viewer[v].seen) \in Seq(Nat)
      BY <2>2, CountsOn DEF After
    <3>4. After(0, viewer[v].seen) \o <<>> = After(0, viewer[v].seen) \o After(out, 0)
      BY <3>3
    <3> QED
      BY <2>1, <2>2, <2>3, <3>1, <3>2, <3>4 DEF Follows
  <2>7. ASSUME NEW w \in RtViewers, w # v
        PROVE  Follows(w)'
    BY <2>3, <2>7 DEF Follows, ViewersTyped, StreamsFollow
  <2> QED
    BY <2>5, <2>6, <2>7 DEF ViewersTyped, StreamsFollow
<1>15. ASSUME NEW v \in RtViewers, StreamYields(v)
      PROVE  ViewersTyped' /\ StreamsFollow'
  <2> DEFINE moved == [viewer[v] EXCEPT !.shown = Append(@, Head(viewer[v].queue)), !.queue = Tail(@)]
  <2>1. viewer[v] \in ViewerRecords /\ Follows(v) /\ viewer[v].at = "follows" /\ viewer[v].queue # <<>>
    BY <1>15 DEF ViewersTyped, StreamsFollow, StreamYields
  <2>2. viewer[v].shown \in Seq(Nat) /\ viewer[v].queue \in Seq(Nat)
    BY <2>1 DEF ViewerRecords
  <2>3. viewer' = [viewer EXCEPT ![v] = moved] /\ UNCHANGED rt
    BY <1>15 DEF StreamYields, ViewersTyped, ViewerRecords
  <2>4. Append(viewer[v].shown, Head(viewer[v].queue)) \in Seq(Nat) /\ Tail(viewer[v].queue) \in Seq(Nat)
    BY <2>1, <2>2
  <2>5. moved \in ViewerRecords
    BY <2>1, <2>4 DEF ViewerRecords
  <2>6. /\ moved.shown = Append(viewer[v].shown, Head(viewer[v].queue)) /\ moved.queue = Tail(viewer[v].queue)
        /\ moved.at = "follows" /\ moved.of = viewer[v].of /\ moved.seen = viewer[v].seen /\ moved.from = viewer[v].from
    BY <2>1 DEF ViewerRecords
  <2> HIDE DEF moved
  <2>7. moved.shown \o moved.queue = viewer[v].shown \o viewer[v].queue
    BY <2>1, <2>2, <2>6, HeadMoves
  <2>8. viewer' \in [RtViewers -> ViewerRecords] /\ viewer'[v] = moved
    BY <2>3, <2>5 DEF ViewersTyped
  <2>9. Follows(v)'
    BY <2>1, <2>3, <2>6, <2>7, <2>8 DEF Follows
  <2>10. ASSUME NEW w \in RtViewers, w # v
        PROVE  Follows(w)'
    BY <2>3, <2>10 DEF Follows, ViewersTyped, StreamsFollow
  <2> QED
    BY <2>8, <2>9, <2>10 DEF ViewersTyped, StreamsFollow
<1>16. ASSUME NEW v \in RtViewers, StreamEnds(v)
      PROVE  ViewersTyped' /\ StreamsFollow'
  <2> DEFINE stops == [viewer[v] EXCEPT !.at = "off", !.queue = <<>>]
  <2>1. viewer[v] \in ViewerRecords
    BY DEF ViewersTyped
  <2>2. stops \in ViewerRecords /\ stops.at = "off"
    <3>1. <<>> \in Seq(Nat)
      OBVIOUS
    <3> QED
      BY <2>1, <3>1 DEF ViewerRecords
  <2>3. viewer' = [viewer EXCEPT ![v] = stops] /\ UNCHANGED rt
    BY <1>16 DEF StreamEnds, ViewersTyped, ViewerRecords
  <2> HIDE DEF stops
  <2>4. viewer' \in [RtViewers -> ViewerRecords]
    BY <2>2, <2>3 DEF ViewersTyped
  <2>5. ASSUME NEW w \in RtViewers
        PROVE  Follows(w)'
    BY <2>2, <2>3 DEF Follows, ViewersTyped, StreamsFollow
  <2> QED
    BY <2>4, <2>5 DEF ViewersTyped, StreamsFollow
<1>17. CASE UNCHANGED rtVars
  <2>1. \A q \in RtSessions : rt[q].at # "none" => rt'[q].at # "none" /\ rt'[q].out = rt[q].out
    BY <1>17 DEF rtVars, ShellsTyped, RtRecords
  <2> QED
    BY <1>17, <2>1, QuietFollows DEF rtVars
<1>18. ASSUME NEW r \in RtSessions, ThreadFails(r)
      PROVE  ViewersTyped' /\ StreamsFollow'
  <2> DEFINE ran == [rt[r] EXCEPT !.at = "over", !.alive = FALSE, !.connected = FALSE]
  <2>1. rt[r] \in RtRecords
    BY DEF ShellsTyped
  <2>2. ran \in RtRecords /\ ran.at # "none" /\ ran.out = rt[r].out
    BY <2>1 DEF RtRecords
  <2>3. Emits(r, ran)
    BY <1>18 DEF ThreadFails
  <2> HIDE DEF ran
  <2> QED
    BY <2>2, <2>3, EmitsFollows
<1>19. ASSUME NEW r \in RtSessions, LoopHalts(r)
      PROVE  ViewersTyped' /\ StreamsFollow'
  <2> DEFINE ran == [rt[r] EXCEPT !.at = "over", !.alive = FALSE]
  <2>1. rt[r] \in RtRecords
    BY DEF ShellsTyped
  <2>2. ran \in RtRecords /\ ran.at # "none" /\ ran.out = rt[r].out
    BY <2>1 DEF RtRecords
  <2>3. Emits(r, ran)
    BY <1>19 DEF LoopHalts
  <2> HIDE DEF ran
  <2> QED
    BY <2>2, <2>3, EmitsFollows
<1> QED
  BY <1>1, <1>2, <1>3, <1>4, <1>5, <1>6, <1>7, <1>8, <1>9, <1>10, <1>11, <1>12, <1>13, <1>14, <1>15, <1>16, <1>17, <1>18, <1>19
  DEF RtNext

(* Before the first attach there is no session and no stream. *)
LEMMA ShellsStart == RtInit => ShellsTyped /\ ViewersTyped /\ ShellsListed /\ StreamsFollow
<1> SUFFICES ASSUME RtInit
             PROVE  ShellsTyped /\ ViewersTyped /\ ShellsListed /\ StreamsFollow
  OBVIOUS
<1>1. ShellsTyped /\ ShellsListed
  BY Sized DEF RtInit, ShellsTyped, ShellsListed, NoRt, RtRecords
<1>2. <<>> \in Seq(Nat) /\ NoViewer.of = (CHOOSE r \in RtSessions : TRUE)
  BY DEF NoViewer
<1>3. NoViewer \in ViewerRecords /\ NoViewer.at = "off"
  BY <1>2 DEF NoViewer, ViewerRecords
<1> QED
  BY <1>1, <1>3 DEF RtInit, ViewersTyped, StreamsFollow, Follows

(* Then a stream misses what came between its look and its subscription, and no more. *)
LEMMA OnlyTheGap == ViewersTyped /\ StreamsFollow => StreamHasOneGap
<1> SUFFICES ASSUME ViewersTyped, StreamsFollow, NEW v \in RtViewers, viewer[v].at = "follows"
             PROVE  viewer[v].shown \o viewer[v].queue =
                      [i \in 1..viewer[v].seen |-> i]
                        \o [i \in 1..(rt[viewer[v].of].out - viewer[v].from) |-> viewer[v].from + i]
  BY DEF StreamHasOneGap
<1>1. viewer[v].seen \in Nat
  BY DEF ViewersTyped, ViewerRecords
<1>2. After(0, viewer[v].seen) = [i \in 1..viewer[v].seen |-> i]
  BY <1>1 DEF After
<1>3. viewer[v].shown \o viewer[v].queue = After(0, viewer[v].seen)
        \o After(viewer[v].from, rt[viewer[v].of].out - viewer[v].from)
  BY DEF StreamsFollow, Follows
<1> QED
  BY <1>2, <1>3 DEF After

-----------------------------------------------------------------------------
(* The ledger and its readers *)

AskRecords ==
    [at : {"idle", "looked", "hit", "parsed", "storing", "has", "calls", "answered"},
     run : LedgerRuns \cup {NoLedgerRun}, sig : Nat, due : Nat, rows : Nat]
LedgerTyped ==
    /\ ledger \in Seq(Rows) /\ torn \in Rows \cup {NoRow}
    /\ cached \in [sig : Int, rows : Nat] /\ cached.rows <= Len(ledger)
    /\ asking \in [Requests -> AskRecords]
    /\ \A t \in Requests :
         /\ asking[t].due <= Len(ledger) /\ asking[t].rows <= Len(ledger)
         /\ asking[t].at # "idle" => asking[t].run \in LedgerRuns
    /\ worked \in [LedgerRuns -> [session : 0..MaxSessions, swept : BOOLEAN, done : BOOLEAN]]

\* A thread looked before it read: the size it keys with has no row it did not see.
Looked(a) ==
    /\ 2 * a.due <= a.sig /\ a.sig <= 2 * a.due + 1
    /\ a.at \in {"parsed", "storing"} => a.rows >= a.due
\* As long as two threads have not used its halves at once, the cache has the
\* rows of its key, or the thread that keyed it is about to store them.
CacheHolds ==
    /\ \A t, u \in Requests :
         asking[t].at = "storing" /\ asking[u].at \in {"storing", "hit"} => t = u
    /\ (\A t \in Requests : asking[t].at # "storing") => cached.sig <= 2 * cached.rows + 1
    /\ \A t \in Requests :
         /\ asking[t].at = "storing" => cached.sig <= 2 * asking[t].rows + 1
         /\ asking[t].at = "hit" => asking[t].due <= cached.rows
         /\ asking[t].at = "has" => asking[t].rows >= asking[t].due
ReadersHold == LedgerTyped /\ (\A t \in Requests : Looked(asking[t])) /\ (~mixed => CacheHolds)

(* One request changes at a time. *)
LEMMA OneRequest ==
    ASSUME LedgerTyped, NEW t \in Requests, NEW a \in AskRecords, asking' = [asking EXCEPT ![t] = a],
           a.due <= Len(ledger), a.rows <= Len(ledger), a.at # "idle" => a.run \in LedgerRuns,
           UNCHANGED <<ledger, torn, worked>>,
           cached' \in [sig : Int, rows : Nat], cached'.rows <= Len(ledger)
    PROVE  LedgerTyped' /\ asking'[t] = a /\ \A u \in Requests : u # t => asking'[u] = asking[u]
<1>1. asking' \in [Requests -> AskRecords] /\ asking'[t] = a /\ \A u \in Requests : u # t => asking'[u] = asking[u]
  BY DEF LedgerTyped
<1>2. \A u \in Requests : asking'[u].due <= Len(ledger) /\ asking'[u].rows <= Len(ledger)
                          /\ (asking'[u].at # "idle" => asking'[u].run \in LedgerRuns)
  BY <1>1 DEF LedgerTyped
<1> QED
  BY <1>1, <1>2 DEF LedgerTyped

(* A thread that is done, or was cut off. *)
LEMMA QuietTyped ==
    Quiet \in AskRecords /\ Quiet.due = 0 /\ Quiet.rows = 0 /\ Quiet.at = "idle" /\ Looked(Quiet)
BY DEF Quiet, AskRecords, Looked

(* A row names a run and a session. *)
LEMMA RowsTyped == \A row \in Rows : row.run \in LedgerRuns /\ row.session \in Nat
BY DEF Rows

(* A half-written row is the run's, and names a session it has had. *)
LEMMA RowBegun ==
    ASSUME LedgerTyped, NEW r \in LedgerRuns, LedgerBegins(r), Swept(r) \/ Settled(r)
    PROVE  /\ torn' = [run |-> r, session |-> worked[r].session] /\ torn' \in Rows /\ torn' # NoRow
           /\ worked' \in [LedgerRuns -> [session : 0..MaxSessions, swept : BOOLEAN, done : BOOLEAN]]
           /\ \A q \in LedgerRuns : worked'[q].session = worked[q].session
           /\ UNCHANGED <<ledger, cached, mixed, asking, live, stopped>>
<1>1. worked[r].session \in 0..MaxSessions
  BY DEF LedgerTyped
<1>2. torn' = [run |-> r, session |-> worked[r].session]
  BY DEF LedgerBegins
<1>3. torn' \in Rows
  BY <1>1, <1>2 DEF Rows
<1>4. torn'.run = r /\ NoRow.run = NoLedgerRun
  BY <1>2 DEF NoRow
<1>5. torn' # NoRow
  BY <1>4, MetricsAssumption
<1>6. worked' = [worked EXCEPT ![r].swept = TRUE] \/ worked' = [worked EXCEPT ![r].done = TRUE]
  BY DEF Swept, Settled
<1>7. worked' \in [LedgerRuns -> [session : 0..MaxSessions, swept : BOOLEAN, done : BOOLEAN]]
  <2>1. CASE worked' = [worked EXCEPT ![r].swept = TRUE]
    BY <2>1 DEF LedgerTyped
  <2>2. CASE worked' = [worked EXCEPT ![r].done = TRUE]
    BY <2>2 DEF LedgerTyped
  <2> QED
    BY <1>6, <2>1, <2>2
<1>8. \A q \in LedgerRuns : worked'[q].session = worked[q].session
  <2>1. CASE worked' = [worked EXCEPT ![r].swept = TRUE]
    BY <2>1 DEF LedgerTyped
  <2>2. CASE worked' = [worked EXCEPT ![r].done = TRUE]
    BY <2>2 DEF LedgerTyped
  <2> QED
    BY <1>6, <2>1, <2>2
<1> QED
  BY <1>2, <1>3, <1>5, <1>7, <1>8 DEF LedgerBegins

(* The ledger grows at its end. *)
LEMMA RowEnded ==
    ASSUME LedgerTyped, LedgerEnds
    PROVE  /\ torn \in Rows /\ ledger' \in Seq(Rows) /\ Len(ledger') = Len(ledger) + 1 /\ Len(ledger) \in Nat
           /\ ledger'[Len(ledger) + 1] = torn /\ \A i \in 1..Len(ledger) : ledger'[i] = ledger[i]
           /\ torn' = NoRow /\ UNCHANGED <<cached, mixed, asking, worked, live, stopped>>
BY DEF LedgerTyped, LedgerEnds

(* What a request's thread does next. *)
LEMMA RequestStep ==
    ASSUME LedgerTyped, NEW t \in Requests,
           \/ \E r \in LedgerRuns : StopBegins(t, r)
           \/ CacheHits(t) \/ CacheReturns(t) \/ LedgerParsed(t) \/ StoresKey(t) \/ StoresRows(t)
           \/ StopAnswered(t) \/ StopCalled(t) \/ StopTakes(t) \/ StopErrs(t) \/ StopMarks(t)
    PROVE  LedgerTyped' /\ \A u \in Requests : u # t => asking'[u] = asking[u]
<1>1. /\ asking[t] \in AskRecords /\ Len(ledger) \in Nat /\ asking[t].due <= Len(ledger) /\ asking[t].rows <= Len(ledger)
      /\ cached \in [sig : Int, rows : Nat] /\ cached.rows <= Len(ledger)
      /\ asking[t].at # "idle" => asking[t].run \in LedgerRuns
  BY DEF LedgerTyped
<1>2. ASSUME NEW r \in LedgerRuns, StopBegins(t, r)
      PROVE  LedgerTyped' /\ \A u \in Requests : u # t => asking'[u] = asking[u]
  <2> DEFINE a == [Quiet EXCEPT !.at = "looked", !.run = r, !.sig = LedgerSignature, !.due = Len(ledger)]
  <2>1. LedgerSignature \in Nat
    BY <1>1 DEF LedgerSignature
  <2>2. a \in AskRecords /\ a.due <= Len(ledger) /\ a.rows <= Len(ledger) /\ a.run = r
    <3>1. a \in AskRecords /\ a.due = Len(ledger) /\ a.rows = 0 /\ a.run = r
      BY <1>1, <2>1 DEF AskRecords, Quiet
    <3> HIDE DEF a
    <3> QED
      BY <1>1, <3>1
  <2>3. asking' = [asking EXCEPT ![t] = a] /\ UNCHANGED <<ledger, torn, cached, worked>>
    BY <1>2 DEF StopBegins
  <2> HIDE DEF a
  <2> QED
    BY <1>1, <2>2, <2>3, OneRequest
<1>3. CASE CacheHits(t)
  <2> DEFINE a == [asking[t] EXCEPT !.at = "hit"]
  <2>1. a \in AskRecords /\ a.due = asking[t].due /\ a.rows = asking[t].rows /\ a.run = asking[t].run
    BY <1>1 DEF AskRecords
  <2>2. asking' = [asking EXCEPT ![t] = a] /\ UNCHANGED <<ledger, torn, cached, worked>> /\ asking[t].at = "looked"
    BY <1>3 DEF CacheHits, LedgerTyped, AskRecords
  <2> HIDE DEF a
  <2> QED
    BY <1>1, <2>1, <2>2, OneRequest
<1>4. CASE CacheReturns(t)
  <2> DEFINE a == [asking[t] EXCEPT !.at = "has", !.rows = cached.rows]
  <2>1. a \in AskRecords /\ a.due = asking[t].due /\ a.rows = cached.rows /\ a.run = asking[t].run
    BY <1>1 DEF AskRecords
  <2>2. asking' = [asking EXCEPT ![t] = a] /\ UNCHANGED <<ledger, torn, cached, worked>> /\ asking[t].at = "hit"
    BY <1>4 DEF CacheReturns, LedgerTyped, AskRecords
  <2> HIDE DEF a
  <2> QED
    BY <1>1, <2>1, <2>2, OneRequest
<1>5. CASE LedgerParsed(t)
  <2> DEFINE a == [asking[t] EXCEPT !.at = "parsed", !.rows = Len(ledger)]
  <2>1. a \in AskRecords /\ a.due = asking[t].due /\ a.rows <= Len(ledger) /\ a.run = asking[t].run
    <3>1. a \in AskRecords /\ a.due = asking[t].due /\ a.rows = Len(ledger) /\ a.run = asking[t].run
      BY <1>1 DEF AskRecords
    <3> HIDE DEF a
    <3> QED
      BY <1>1, <3>1
  <2>2. asking' = [asking EXCEPT ![t] = a] /\ UNCHANGED <<ledger, torn, cached, worked>> /\ asking[t].at = "looked"
    BY <1>5 DEF LedgerParsed, LedgerTyped, AskRecords
  <2> HIDE DEF a
  <2> QED
    BY <1>1, <2>1, <2>2, OneRequest
<1>6. CASE StoresKey(t)
  <2> DEFINE a == [asking[t] EXCEPT !.at = "storing"]
  <2>1. a \in AskRecords /\ a.due = asking[t].due /\ a.rows = asking[t].rows /\ a.run = asking[t].run
    BY <1>1 DEF AskRecords
  <2>2. asking' = [asking EXCEPT ![t] = a] /\ UNCHANGED <<ledger, torn, worked>> /\ asking[t].at = "parsed"
    BY <1>6 DEF StoresKey, LedgerTyped, AskRecords
  <2>3. cached' = [cached EXCEPT !.sig = asking[t].sig] /\ asking[t].sig \in Int
    BY <1>1, <1>6 DEF StoresKey, StoredKey, AskRecords
  <2>4. cached' \in [sig : Int, rows : Nat] /\ cached'.rows = cached.rows
    BY <1>1, <2>3
  <2> HIDE DEF a
  <2> QED
    BY <1>1, <2>1, <2>2, <2>4, OneRequest
<1>7. CASE StoresRows(t)
  <2> DEFINE a == [asking[t] EXCEPT !.at = "has"]
  <2>1. a \in AskRecords /\ a.due = asking[t].due /\ a.rows = asking[t].rows /\ a.run = asking[t].run
    BY <1>1 DEF AskRecords
  <2>2. asking' = [asking EXCEPT ![t] = a] /\ UNCHANGED <<ledger, torn, worked>> /\ asking[t].at = "storing"
    BY <1>7 DEF StoresRows, LedgerTyped, AskRecords
  <2>3. cached' = [cached EXCEPT !.rows = asking[t].rows] /\ asking[t].rows \in Nat
    BY <1>1, <1>7 DEF StoresRows, AskRecords
  <2>4. cached' \in [sig : Int, rows : Nat] /\ cached'.rows = asking[t].rows
    BY <1>1, <2>3
  <2> HIDE DEF a
  <2> QED
    BY <1>1, <2>1, <2>2, <2>4, OneRequest
<1>8. CASE StopAnswered(t) \/ StopErrs(t) \/ StopMarks(t)
  <2>1. asking' = [asking EXCEPT ![t] = Quiet] /\ UNCHANGED <<ledger, torn, cached, worked>>
    BY <1>8 DEF StopAnswered, StopErrs, StopMarks
  <2>2. Quiet \in AskRecords /\ Quiet.due <= Len(ledger) /\ Quiet.rows <= Len(ledger) /\ Quiet.at = "idle"
    BY <1>1, QuietTyped
  <2> QED
    BY <1>1, <2>1, <2>2, OneRequest
<1>9. CASE StopCalled(t)
  <2>1. PICK n \in Stoppable(t) : asking' = [asking EXCEPT ![t].at = "calls", ![t].rows = n]
    BY <1>9 DEF StopCalled
  <2>2. n \in 1..asking[t].rows /\ UNCHANGED <<ledger, torn, cached, worked>> /\ asking[t].at = "has"
    BY <1>9, <2>1 DEF Stoppable, StopCalled
  <2>3. n \in Nat /\ n <= Len(ledger)
    BY <1>1, <2>2 DEF AskRecords
  <2> DEFINE a == [asking[t] EXCEPT !.at = "calls", !.rows = n]
  <2>4. a \in AskRecords /\ a.due = asking[t].due /\ a.rows = n /\ a.run = asking[t].run
    BY <1>1, <2>3 DEF AskRecords
  <2>5. asking' = [asking EXCEPT ![t] = a]
    BY <2>1 DEF LedgerTyped, AskRecords
  <2> HIDE DEF a
  <2> QED
    BY <1>1, <2>2, <2>3, <2>4, <2>5, OneRequest
<1>10. CASE StopTakes(t)
  <2> DEFINE a == [asking[t] EXCEPT !.at = "answered"]
  <2>1. a \in AskRecords /\ a.due = asking[t].due /\ a.rows = asking[t].rows /\ a.run = asking[t].run
    BY <1>1 DEF AskRecords
  <2>2. asking' = [asking EXCEPT ![t] = a] /\ UNCHANGED <<ledger, torn, cached, worked>> /\ asking[t].at = "calls"
    BY <1>10 DEF StopTakes, LedgerTyped, AskRecords
  <2> HIDE DEF a
  <2> QED
    BY <1>1, <2>1, <2>2, OneRequest
<1> QED
  BY <1>2, <1>3, <1>4, <1>5, <1>6, <1>7, <1>8, <1>9, <1>10

(* Every step keeps the types. *)
LEMMA LedgerTypedStep ==
    ASSUME LedgerTyped, [MetricsNext]_metricsVars
    PROVE  LedgerTyped'
<1>1. ASSUME NEW r \in LedgerRuns, RoleTurnReturns(r)
      PROVE  LedgerTyped'
  <2> DEFINE w == [worked[r] EXCEPT !.session = @ + 1]
  <2>1. worked[r] \in [session : 0..MaxSessions, swept : BOOLEAN, done : BOOLEAN] /\ worked[r].session < MaxSessions
    BY <1>1 DEF LedgerTyped, RoleTurnReturns
  <2>2. worked[r].session + 1 \in 0..MaxSessions
    BY <2>1, MetricsAssumption
  <2>3. w \in [session : 0..MaxSessions, swept : BOOLEAN, done : BOOLEAN]
    BY <2>1, <2>2
  <2>4. worked' = [worked EXCEPT ![r] = w] /\ UNCHANGED <<ledger, torn, cached, asking>>
    BY <1>1 DEF RoleTurnReturns
  <2> HIDE DEF w
  <2> QED
    BY <2>3, <2>4 DEF LedgerTyped
<1>2. ASSUME NEW r \in LedgerRuns, Swept(r) \/ Settled(r)
      PROVE  LedgerTyped'
  <2>1. LedgerBegins(r)
    BY <1>2 DEF Swept, Settled
  <2> QED
    BY <1>2, <2>1, RowBegun DEF LedgerTyped
<1>3. CASE LedgerEnds
  <2>1. /\ ledger' \in Seq(Rows) /\ Len(ledger') = Len(ledger) + 1 /\ Len(ledger) \in Nat
        /\ torn' = NoRow /\ UNCHANGED <<cached, asking, worked>>
    BY <1>3, RowEnded
  <2>2. cached.rows <= Len(ledger') /\ \A t \in Requests : asking[t].due <= Len(ledger') /\ asking[t].rows <= Len(ledger')
    BY <2>1 DEF LedgerTyped, AskRecords
  <2> QED
    BY <2>1, <2>2 DEF LedgerTyped
<1>4. CASE UNCHANGED <<ledger, torn, cached, asking, worked>>
  BY <1>4 DEF LedgerTyped
<1> QED
  BY <1>1, <1>2, <1>3, <1>4, RequestStep DEF MetricsNext, metricsVars, SessionIsOver

(* A thread knows no more rows than the size it looked at. *)
LEMMA LookedStep ==
    ASSUME LedgerTyped, \A t \in Requests : Looked(asking[t]), [MetricsNext]_metricsVars
    PROVE  \A t \in Requests : Looked(asking'[t])
<1>1. \A t \in Requests : asking[t] \in AskRecords /\ asking[t].due <= Len(ledger)
  BY DEF LedgerTyped
<1>2. Len(ledger) \in Nat
  BY DEF LedgerTyped
<1>3. ASSUME NEW t \in Requests, NEW r \in LedgerRuns, StopBegins(t, r)
      PROVE  \A u \in Requests : Looked(asking'[u])
  <2> DEFINE a == [Quiet EXCEPT !.at = "looked", !.run = r, !.sig = LedgerSignature, !.due = Len(ledger)]
  <2>1. LedgerSignature \in Nat /\ 2 * Len(ledger) <= LedgerSignature /\ LedgerSignature <= 2 * Len(ledger) + 1
    BY <1>2 DEF LedgerSignature
  <2>2. a.at = "looked" /\ a.due = Len(ledger) /\ a.sig = LedgerSignature
    BY DEF Quiet
  <2>3. asking' = [asking EXCEPT ![t] = a]
    BY <1>3 DEF StopBegins
  <2> HIDE DEF a
  <2>4. Looked(a)
    BY <2>1, <2>2 DEF Looked
  <2> QED
    BY <2>3, <2>4 DEF LedgerTyped
<1>4. ASSUME NEW t \in Requests, StopAnswered(t) \/ StopErrs(t) \/ StopMarks(t)
      PROVE  \A u \in Requests : Looked(asking'[u])
  <2>1. asking' = [asking EXCEPT ![t] = Quiet]
    BY <1>4 DEF StopAnswered, StopErrs, StopMarks
  <2> QED
    BY <2>1, QuietTyped DEF LedgerTyped
<1>5. ASSUME NEW t \in Requests, LedgerParsed(t)
      PROVE  \A u \in Requests : Looked(asking'[u])
  <2>1. asking' = [asking EXCEPT ![t] = [asking[t] EXCEPT !.at = "parsed", !.rows = Len(ledger)]]
    BY <1>1, <1>5 DEF LedgerParsed, LedgerTyped, AskRecords
  <2>2. asking'[t].sig = asking[t].sig /\ asking'[t].due = asking[t].due /\ asking'[t].rows = Len(ledger)
    BY <1>1, <2>1 DEF LedgerTyped, AskRecords
  <2>3. asking'[t].rows >= asking'[t].due
    BY <1>1, <1>2, <2>2 DEF AskRecords
  <2> QED
    BY <2>1, <2>2, <2>3 DEF Looked, LedgerTyped
<1>6. ASSUME NEW t \in Requests, CacheHits(t) \/ CacheReturns(t) \/ StoresRows(t) \/ StopCalled(t) \/ StopTakes(t)
      PROVE  \A u \in Requests : Looked(asking'[u])
  <2>1. /\ asking'[t].at \in {"hit", "has", "calls", "answered"}
        /\ asking'[t].sig = asking[t].sig /\ asking'[t].due = asking[t].due
        /\ \A u \in Requests : u # t => asking'[u] = asking[u]
    <3>1. CASE CacheHits(t)
      BY <1>1, <3>1 DEF CacheHits, LedgerTyped, AskRecords
    <3>2. CASE CacheReturns(t)
      BY <1>1, <3>2 DEF CacheReturns, LedgerTyped, AskRecords
    <3>3. CASE StoresRows(t)
      BY <1>1, <3>3 DEF StoresRows, LedgerTyped, AskRecords
    <3>4. CASE StopCalled(t)
      BY <1>1, <3>4 DEF StopCalled, LedgerTyped, AskRecords
    <3>5. CASE StopTakes(t)
      BY <1>1, <3>5 DEF StopTakes, LedgerTyped, AskRecords
    <3> QED
      BY <1>6, <3>1, <3>2, <3>3, <3>4, <3>5
  <2> QED
    BY <2>1 DEF Looked
<1>7. ASSUME NEW t \in Requests, StoresKey(t)
      PROVE  \A u \in Requests : Looked(asking'[u])
  <2>1. /\ asking[t].at = "parsed" /\ asking'[t].rows = asking[t].rows
        /\ asking'[t].sig = asking[t].sig /\ asking'[t].due = asking[t].due
        /\ \A u \in Requests : u # t => asking'[u] = asking[u]
    BY <1>1, <1>7 DEF StoresKey, LedgerTyped, AskRecords
  <2> QED
    BY <2>1 DEF Looked
<1>8. CASE UNCHANGED asking
  BY <1>8
<1> QED
  BY <1>3, <1>4, <1>5, <1>6, <1>7, <1>8
  DEF MetricsNext, metricsVars, SessionIsOver, RoleTurnReturns, Swept, Settled, LedgerBegins, LedgerEnds

(* Every step keeps the cache at its key, unless its halves are used at once. *)
LEMMA CacheHoldsStep ==
    ASSUME ReadersHold, [MetricsNext]_metricsVars
    PROVE  ~mixed' => CacheHolds'
<1> SUFFICES ASSUME ~mixed'
             PROVE  CacheHolds'
  OBVIOUS
<1>1. /\ \A t \in Requests : asking[t] \in AskRecords /\ Looked(asking[t])
      /\ asking = [t \in Requests |-> asking[t]]
      /\ cached.sig \in Int /\ cached.rows \in Nat /\ cached = [sig |-> cached.sig, rows |-> cached.rows]
  BY DEF ReadersHold, LedgerTyped
<1>2. \A t \in Requests : asking[t].sig \in Nat /\ asking[t].due \in Nat /\ asking[t].rows \in Nat
  BY <1>1 DEF AskRecords
<1>3. ASSUME NEW t \in Requests, UNCHANGED cached, ~mixed, asking'[t].at \notin {"storing", "hit", "has"},
             asking[t].at # "storing", \A u \in Requests : u # t => asking'[u] = asking[u]
      PROVE  CacheHolds'
  BY <1>3 DEF ReadersHold, CacheHolds
<1>4. ASSUME NEW t \in Requests, NEW r \in LedgerRuns, StopBegins(t, r)
      PROVE  CacheHolds'
  <2>1. /\ asking'[t].at = "looked" /\ asking[t].at = "idle" /\ UNCHANGED <<cached, mixed>>
        /\ \A u \in Requests : u # t => asking'[u] = asking[u]
    BY <1>1, <1>4 DEF StopBegins, Quiet
  <2> QED
    BY <1>3, <2>1
<1>5. ASSUME NEW t \in Requests, StopAnswered(t) \/ StopErrs(t) \/ StopMarks(t)
      PROVE  CacheHolds'
  <2>1. /\ asking'[t].at = "idle" /\ asking[t].at # "storing" /\ UNCHANGED <<cached, mixed>>
        /\ \A u \in Requests : u # t => asking'[u] = asking[u]
    BY <1>1, <1>5, QuietTyped DEF StopAnswered, StopErrs, StopMarks
  <2> QED
    BY <1>3, <2>1
<1>6. ASSUME NEW t \in Requests, StopCalled(t) \/ StopTakes(t) \/ LedgerParsed(t)
      PROVE  CacheHolds'
  <2>1. /\ asking'[t].at \in {"calls", "answered", "parsed"} /\ asking[t].at # "storing" /\ UNCHANGED <<cached, mixed>>
        /\ \A u \in Requests : u # t => asking'[u] = asking[u]
    <3>1. CASE StopCalled(t)
      BY <1>1, <3>1 DEF StopCalled, AskRecords
    <3>2. CASE StopTakes(t)
      BY <1>1, <3>2 DEF StopTakes, AskRecords
    <3>3. CASE LedgerParsed(t)
      BY <1>1, <3>3 DEF LedgerParsed, AskRecords
    <3> QED
      BY <1>6, <3>1, <3>2, <3>3
  <2> QED
    BY <1>3, <2>1
<1>7. ASSUME NEW t \in Requests, CacheHits(t)
      PROVE  CacheHolds'
  <2>1. /\ asking[t].at = "looked" /\ asking[t].sig = cached.sig /\ asking'[t].at = "hit" /\ asking'[t].due = asking[t].due
        /\ asking'[t].rows = asking[t].rows /\ UNCHANGED cached /\ \A u \in Requests : u # t => asking'[u] = asking[u]
    BY <1>1, <1>7 DEF CacheHits, AskRecords
  <2>2. ~mixed /\ \A u \in Requests : asking[u].at # "storing"
    BY <1>7, <2>1 DEF CacheHits, Beside
  <2>3. cached.sig <= 2 * cached.rows + 1 /\ 2 * asking[t].due <= asking[t].sig
    BY <1>1, <2>2 DEF ReadersHold, CacheHolds, Looked
  <2>4. asking[t].due <= cached.rows
    BY <1>1, <1>2, <2>1, <2>3
  <2> QED
    BY <2>1, <2>2, <2>3, <2>4 DEF ReadersHold, CacheHolds
<1>8. ASSUME NEW t \in Requests, CacheReturns(t)
      PROVE  CacheHolds'
  <2>1. /\ asking[t].at = "hit" /\ asking'[t].at = "has" /\ asking'[t].due = asking[t].due
        /\ asking'[t].rows = cached.rows /\ UNCHANGED <<cached, mixed>> /\ \A u \in Requests : u # t => asking'[u] = asking[u]
    BY <1>1, <1>8 DEF CacheReturns, AskRecords
  <2>2. asking[t].due <= cached.rows
    BY <2>1 DEF ReadersHold, CacheHolds
  <2>3. cached.rows >= asking[t].due
    BY <1>1, <1>2, <2>2
  <2> QED
    BY <2>1, <2>3 DEF ReadersHold, CacheHolds
<1>9. ASSUME NEW t \in Requests, StoresKey(t)
      PROVE  CacheHolds'
  <2>1. /\ asking[t].at = "parsed" /\ asking'[t].at = "storing" /\ asking'[t].due = asking[t].due
        /\ asking'[t].rows = asking[t].rows /\ \A u \in Requests : u # t => asking'[u] = asking[u]
    BY <1>1, <1>9 DEF StoresKey, AskRecords
  <2>2. cached'.sig = asking[t].sig /\ cached'.rows = cached.rows
    BY <1>1, <1>9 DEF StoresKey, StoredKey
  <2>3. ~mixed /\ \A u \in Requests : u # t => asking[u].at \notin {"storing", "hit"}
    BY <1>9 DEF StoresKey, Beside
  <2>4. asking[t].sig <= 2 * asking[t].due + 1 /\ asking[t].rows >= asking[t].due
    BY <1>1, <2>1 DEF Looked
  <2>5. asking[t].sig <= 2 * asking[t].rows + 1
    BY <1>2, <2>4
  <2> QED
    BY <2>1, <2>2, <2>3, <2>5 DEF ReadersHold, CacheHolds
<1>10. ASSUME NEW t \in Requests, StoresRows(t)
      PROVE  CacheHolds'
  <2>1. /\ asking[t].at = "storing" /\ asking'[t].at = "has" /\ asking'[t].due = asking[t].due /\ ~mixed
        /\ asking'[t].rows = asking[t].rows /\ \A u \in Requests : u # t => asking'[u] = asking[u]
    BY <1>1, <1>10 DEF StoresRows, AskRecords
  <2>2. cached'.sig = cached.sig /\ cached'.rows = asking[t].rows
    BY <1>1, <1>10 DEF StoresRows
  <2>3. asking[t].rows >= asking[t].due
    BY <1>1, <2>1 DEF Looked
  <2>4. \A u \in Requests : u # t => asking[u].at \notin {"storing", "hit"}
    BY <2>1 DEF ReadersHold, CacheHolds
  <2>5. cached.sig <= 2 * asking[t].rows + 1
    BY <2>1 DEF ReadersHold, CacheHolds
  <2> QED
    BY <2>1, <2>2, <2>3, <2>4, <2>5 DEF ReadersHold, CacheHolds
<1>11. CASE UNCHANGED <<cached, mixed, asking>>
  BY <1>11 DEF ReadersHold, CacheHolds
<1> QED
  BY <1>4, <1>5, <1>6, <1>7, <1>8, <1>9, <1>10, <1>11
  DEF MetricsNext, metricsVars, SessionIsOver, RoleTurnReturns, Swept, Settled, LedgerBegins, LedgerEnds

(* Together: every step keeps the readers of the ledger. *)
LEMMA ReadersHoldStep ==
    ASSUME ReadersHold, [MetricsNext]_metricsVars
    PROVE  ReadersHold'
<1>1. LedgerTyped' /\ \A t \in Requests : Looked(asking'[t])
  BY LedgerTypedStep, LookedStep DEF ReadersHold
<1> QED
  BY <1>1, CacheHoldsStep DEF ReadersHold, Looked

(* The sessions that are stopped *)

FirstRow(r, n) == n \in 1..Len(ledger) /\ ledger[n].run = r /\ \A i \in 1..(n - 1) : ledger[i].run # r
Gone(r, n) == <<r, ledger[n].session>> \notin live

\* A row names a session its run has had; a call is for the one that the run's
\* first row names, which is gone when it is answered and stays gone.
RowsNamed ==
    /\ \A i \in 1..Len(ledger) : ledger[i].session <= worked[ledger[i].run].session
    /\ torn # NoRow => torn.session <= worked[torn.run].session
CallHolds(a) ==
    /\ a.at \in {"calls", "answered"} => a.run \in LedgerRuns /\ FirstRow(a.run, a.rows)
    /\ a.at = "answered" => Gone(a.run, a.rows)
CallsHold == \A t \in Requests : CallHolds(asking[t])
MarksHold == \A r \in stopped : \E n \in 1..Len(ledger) : FirstRow(r, n) /\ Gone(r, n)
StopsHold == RowsNamed /\ CallsHold /\ MarksHold

(* The first row is the one the search finds, in all of the ledger or in part of it. *)
LEMMA RowFound ==
    ASSUME LedgerTyped, NEW r, NEW k \in 0..Len(ledger)
    PROVE  LET found == {i \in 1..k : ledger[i].run = r}
           IN  RowOf(r, k) = IF found # {} THEN Min(found) ELSE 0
<1>1. ledger \in Seq(Rows) /\ Len(ledger) \in Nat /\ k \in Nat
  BY DEF LedgerTyped
<1>2. Len(SubSeq(ledger, 1, k)) = k /\ \A i \in 1..k : SubSeq(ledger, 1, k)[i] = ledger[i]
  BY <1>1
<1> DEFINE rows == SubSeq(ledger, 1, k)
<1>3. RowOf(r, k) = LET I == {i \in 1..Len(rows) : rows[i].run = r} IN IF I # {} THEN Min(I) ELSE 0
  BY DEF RowOf, SelectInSeq
<1>4. {i \in 1..Len(rows) : rows[i].run = r} = {i \in 1..k : ledger[i].run = r}
  BY <1>2
<1> QED
  BY <1>3, <1>4

(* What the search finds is the first row. *)
LEMMA FoundIsFirst ==
    ASSUME LedgerTyped, NEW r, NEW k \in 0..Len(ledger), RowOf(r, k) \in 1..k
    PROVE  FirstRow(r, RowOf(r, k))
<1> DEFINE found == {i \in 1..k : ledger[i].run = r}
           n == RowOf(r, k)
<1>1. k \in Nat /\ k <= Len(ledger) /\ Len(ledger) \in Nat
  BY DEF LedgerTyped
<1>2. found # {} /\ n = Min(found)
  BY <1>1, RowFound
<1>3. found \in SUBSET Nat
  OBVIOUS
<1>4. n \in found /\ \A y \in found : n =< y
  BY <1>2, <1>3, LeastNumber
<1> HIDE DEF n
<1>5. n \in 1..Len(ledger) /\ ledger[n].run = r
  BY <1>1, <1>4
<1>6. ASSUME NEW i \in 1..(n - 1), ledger[i].run = r
      PROVE  FALSE
  <2>1. i \in found /\ ~(n =< i)
    BY <1>1, <1>4, <1>6
  <2> QED
    BY <1>4, <2>1
<1> QED
  BY <1>5, <1>6 DEF FirstRow, n

(* And the first row is what it finds. *)
LEMMA FirstIsFound ==
    ASSUME LedgerTyped, NEW r, NEW n, FirstRow(r, n)
    PROVE  RowOf(r, Len(ledger)) = n
<1> DEFINE found == {i \in 1..Len(ledger) : ledger[i].run = r}
<1>1. Len(ledger) \in Nat /\ n \in Nat
  BY DEF LedgerTyped, FirstRow
<1>2. RowOf(r, Len(ledger)) = IF found # {} THEN Min(found) ELSE 0
  BY <1>1, RowFound
<1>3. n \in found
  BY DEF FirstRow
<1>4. \A y \in found : n =< y
  BY <1>1 DEF FirstRow
<1>5. Min(found) \in found /\ \A y \in found : Min(found) =< y
  <2>1. found \in SUBSET Nat
    BY <1>1
  <2> HIDE DEF found
  <2> QED
    BY <1>3, <2>1, LeastNumber
<1>6. Min(found) =< n /\ n =< Min(found) /\ Min(found) \in Nat
  BY <1>3, <1>4, <1>5
<1> QED
  BY <1>1, <1>2, <1>3, <1>6

(* Rows stay, and a session that is gone does not come back: the run's next one is new. *)
LEMMA RowsStay ==
    ASSUME LedgerTyped, RowsNamed, [MetricsNext]_metricsVars
    PROVE  /\ RowsNamed'
           /\ \A r \in LedgerRuns : \A n \in 1..Len(ledger) :
                FirstRow(r, n) => n \in 1..Len(ledger') /\ FirstRow(r, n)' /\ (Gone(r, n) => Gone(r, n)')
<1>1. /\ Len(ledger) \in Nat /\ \A i \in 1..Len(ledger) : ledger[i].run \in LedgerRuns /\ ledger[i].session \in Nat
      /\ \A r \in LedgerRuns : worked[r].session \in Nat
      /\ torn # NoRow => torn.run \in LedgerRuns /\ torn.session \in Nat
  <2>1. Len(ledger) \in Nat /\ \A i \in 1..Len(ledger) : ledger[i] \in Rows
    BY DEF LedgerTyped
  <2>2. \A r \in LedgerRuns : worked[r].session \in Nat
    BY DEF LedgerTyped
  <2>3. torn # NoRow => torn \in Rows
    BY DEF LedgerTyped
  <2> QED
    BY <2>1, <2>2, <2>3, RowsTyped
<1>2. ASSUME NEW q \in LedgerRuns, RoleTurnReturns(q)
      PROVE  RowsNamed' /\ \A r \in LedgerRuns : \A n \in 1..Len(ledger) : FirstRow(r, n) => n \in 1..Len(ledger') /\ FirstRow(r, n)' /\ (Gone(r, n) => Gone(r, n)')
  <2>1. /\ UNCHANGED <<ledger, torn>> /\ worked'[q].session = worked[q].session + 1
        /\ \A r \in LedgerRuns : r # q => worked'[r] = worked[r]
        /\ live' = live \cup {<<q, worked'[q].session>>}
    BY <1>2 DEF RoleTurnReturns, LedgerTyped
  <2>2. \A r \in LedgerRuns : worked[r].session <= worked'[r].session
    BY <1>1, <2>1
  <2>3. RowsNamed'
    <3>1. ASSUME NEW i \in 1..Len(ledger)
          PROVE  ledger[i].session <= worked'[ledger[i].run].session
      <4>1. ledger[i].session <= worked[ledger[i].run].session /\ ledger[i].run \in LedgerRuns /\ ledger[i].session \in Nat
        BY <1>1 DEF RowsNamed
      <4>2. worked'[ledger[i].run].session \in Nat
        BY <1>1, <2>1, <4>1
      <4> QED
        BY <1>1, <2>2, <4>1, <4>2
    <3>2. ASSUME torn # NoRow
          PROVE  torn.session <= worked'[torn.run].session
      <4>1. torn.session <= worked[torn.run].session /\ torn.run \in LedgerRuns /\ torn.session \in Nat
        BY <1>1, <3>2 DEF RowsNamed
      <4>2. worked'[torn.run].session \in Nat
        BY <1>1, <2>1, <4>1
      <4> QED
        BY <1>1, <2>2, <4>1, <4>2
    <3> QED
      BY <2>1, <3>1, <3>2 DEF RowsNamed
  <2>4. ASSUME NEW r \in LedgerRuns, NEW n \in 1..Len(ledger), FirstRow(r, n), Gone(r, n)
        PROVE  <<r, ledger[n].session>> \notin live'
    <3>1. ledger[n].session <= worked[r].session /\ ledger[n].session \in Nat
      BY <1>1, <2>4 DEF RowsNamed, FirstRow
    <3>2. <<r, ledger[n].session>> # <<q, worked'[q].session>>
      BY <1>1, <2>1, <3>1
    <3> QED
      BY <2>1, <2>4, <3>2 DEF Gone
  <2> QED
    BY <2>1, <2>3, <2>4 DEF FirstRow, Gone
<1>3. ASSUME NEW q \in LedgerRuns, Swept(q) \/ Settled(q)
      PROVE  RowsNamed' /\ \A r \in LedgerRuns : \A n \in 1..Len(ledger) : FirstRow(r, n) => n \in 1..Len(ledger') /\ FirstRow(r, n)' /\ (Gone(r, n) => Gone(r, n)')
  <2>1. LedgerBegins(q)
    BY <1>3 DEF Swept, Settled
  <2>2. /\ torn' = [run |-> q, session |-> worked[q].session] /\ UNCHANGED <<ledger, live>>
        /\ \A r \in LedgerRuns : worked'[r].session = worked[r].session
    BY <1>3, <2>1, RowBegun
  <2>3. torn'.run = q /\ torn'.session = worked[q].session
    BY <2>2
  <2>4. RowsNamed'
    BY <1>1, <2>2, <2>3 DEF RowsNamed
  <2> QED
    BY <2>2, <2>4 DEF FirstRow, Gone
<1>4. CASE LedgerEnds
  <2>1. /\ Len(ledger') = Len(ledger) + 1 /\ ledger'[Len(ledger) + 1] = torn /\ torn # NoRow /\ torn' = NoRow
        /\ \A i \in 1..Len(ledger) : ledger'[i] = ledger[i]
        /\ UNCHANGED <<worked, live>>
    BY <1>4, RowEnded DEF LedgerEnds
  <2>2. ASSUME NEW i \in 1..Len(ledger')
        PROVE  ledger'[i].session <= worked[ledger'[i].run].session
    <3>1. i \in 1..Len(ledger) \/ i = Len(ledger) + 1
      BY <1>1, <2>1
    <3> QED
      BY <2>1, <3>1 DEF RowsNamed
  <2>3. RowsNamed'
    BY <2>1, <2>2 DEF RowsNamed
  <2>4. ASSUME NEW r \in LedgerRuns, NEW n \in 1..Len(ledger), FirstRow(r, n)
        PROVE  n \in 1..Len(ledger') /\ FirstRow(r, n)' /\ (Gone(r, n) => Gone(r, n)')
    <3>1. n \in 1..Len(ledger') /\ \A i \in 1..(n - 1) : i \in 1..Len(ledger)
      BY <1>1, <2>1
    <3> QED
      BY <2>1, <2>4, <3>1 DEF FirstRow, Gone
  <2> QED
    BY <2>3, <2>4
<1>5. CASE UNCHANGED <<ledger, torn, worked>> /\ live' \subseteq live
  BY <1>5 DEF RowsNamed, FirstRow, Gone
<1> QED
  BY <1>2, <1>3, <1>4, <1>5
  DEF MetricsNext, metricsVars, SessionIsOver, StopBegins, CacheHits, CacheReturns, LedgerParsed, StoresKey, StoresRows,
      StopAnswered, StopCalled, StopTakes, StopErrs, StopMarks

(* What a call is for stays the first row, and goes before it is marked. *)
LEMMA StopsHoldStep ==
    ASSUME LedgerTyped, StopsHold, stopped \subseteq LedgerRuns, [MetricsNext]_metricsVars
    PROVE  StopsHold' /\ (stopped \subseteq LedgerRuns)'
<1>1. /\ RowsNamed'
      /\ \A r \in LedgerRuns : \A n \in 1..Len(ledger) :
           FirstRow(r, n) => n \in 1..Len(ledger') /\ FirstRow(r, n)' /\ (Gone(r, n) => Gone(r, n)')
  BY RowsStay DEF StopsHold
<1>2. \A t \in Requests : asking[t] \in AskRecords /\ (asking[t].at # "idle" => asking[t].run \in LedgerRuns)
  BY DEF LedgerTyped
<1>3. ASSUME NEW t \in Requests, StopMarks(t)
      PROVE  MarksHold' /\ stopped' \subseteq LedgerRuns
  <2>1. asking[t].at = "answered" /\ stopped' = stopped \cup {asking[t].run}
    BY <1>3 DEF StopMarks
  <2>2. FirstRow(asking[t].run, asking[t].rows) /\ Gone(asking[t].run, asking[t].rows) /\ asking[t].run \in LedgerRuns
    BY <1>2, <2>1 DEF StopsHold, CallsHold, CallHolds
  <2>3. asking[t].rows \in 1..Len(ledger)
    BY <2>2 DEF FirstRow
  <2>4. \A r \in stopped' : r \in LedgerRuns /\ \E n \in 1..Len(ledger) : FirstRow(r, n) /\ Gone(r, n)
    BY <2>1, <2>2, <2>3 DEF StopsHold, MarksHold
  <2>5. \A r \in stopped' : \E n \in 1..Len(ledger') : FirstRow(r, n)' /\ Gone(r, n)'
    BY <1>1, <2>4
  <2> QED
    BY <2>4, <2>5 DEF MarksHold
<1>4. ASSUME UNCHANGED stopped
      PROVE  MarksHold' /\ stopped' \subseteq LedgerRuns
  <2>1. \A r \in stopped' : \E n \in 1..Len(ledger') : FirstRow(r, n)' /\ Gone(r, n)'
    BY <1>1, <1>4 DEF StopsHold, MarksHold
  <2> QED
    BY <1>4, <2>1 DEF MarksHold
<1>5. MarksHold' /\ stopped' \subseteq LedgerRuns
  BY <1>3, <1>4
  DEF MetricsNext, metricsVars, SessionIsOver, RoleTurnReturns, Swept, Settled, LedgerBegins, LedgerEnds, StopBegins, CacheHits,
      CacheReturns, LedgerParsed, StoresKey, StoresRows, StopAnswered, StopCalled, StopTakes, StopErrs
<1>6. ASSUME NEW a, CallHolds(a)
      PROVE  CallHolds(a)'
  <2>1. CASE a.at \in {"calls", "answered"}
    <3>1. a.run \in LedgerRuns /\ FirstRow(a.run, a.rows) /\ a.rows \in 1..Len(ledger)
      BY <1>6, <2>1 DEF CallHolds, FirstRow
    <3> QED
      BY <1>1, <1>6, <3>1 DEF CallHolds
  <2>2. CASE a.at \notin {"calls", "answered"}
    BY <2>2 DEF CallHolds
  <2> QED
    BY <2>1, <2>2
<1>7. ASSUME NEW u \in Requests, UNCHANGED asking[u]
      PROVE  CallHolds(asking[u])'
  <2>1. PICK a : a = asking[u]
    OBVIOUS
  <2>2. CallHolds(a)'
    BY <1>6, <2>1 DEF StopsHold, CallsHold
  <2>3. asking'[u] = a
    BY <1>7, <2>1
  <2> QED
    BY <2>2, <2>3 DEF CallHolds, FirstRow, Gone
<1>8. ASSUME NEW t \in Requests, StopCalled(t)
      PROVE  CallsHold'
  <2>1. PICK n \in Stoppable(t) : asking' = [asking EXCEPT ![t].at = "calls", ![t].rows = n]
    BY <1>8 DEF StopCalled
  <2> DEFINE r == asking[t].run
  <2>2. n \in 1..asking[t].rows /\ n = RowOf(r, asking[t].rows) /\ asking[t].at = "has" /\ UNCHANGED <<ledger, live>>
    BY <1>8, <2>1 DEF Stoppable, StopCalled
  <2>3. asking[t].rows \in 0..Len(ledger) /\ r \in LedgerRuns
    BY <1>2, <2>2 DEF LedgerTyped, AskRecords
  <2>4. FirstRow(r, n)
    BY <2>2, <2>3, FoundIsFirst
  <2>5. asking'[t].at = "calls" /\ asking'[t].run = r /\ asking'[t].rows = n
    BY <1>2, <2>1 DEF LedgerTyped, AskRecords
  <2>6. \A u \in Requests : u # t => UNCHANGED asking[u]
    BY <2>1 DEF LedgerTyped
  <2>7. CallHolds(asking[t])'
    BY <2>2, <2>3, <2>4, <2>5 DEF CallHolds, FirstRow
  <2> QED
    BY <1>7, <2>6, <2>7 DEF CallsHold
<1>9. ASSUME NEW t \in Requests, StopTakes(t)
      PROVE  CallsHold'
  <2>1. /\ asking' = [asking EXCEPT ![t].at = "answered"] /\ asking[t].at = "calls" /\ UNCHANGED ledger
        /\ live' = live \ {<<asking[t].run, ledger[asking[t].rows].session>>}
    BY <1>9 DEF StopTakes
  <2>2. asking'[t].at = "answered" /\ asking'[t].run = asking[t].run /\ asking'[t].rows = asking[t].rows
    BY <1>2, <2>1 DEF LedgerTyped, AskRecords
  <2>3. \A u \in Requests : u # t => UNCHANGED asking[u]
    BY <2>1 DEF LedgerTyped
  <2>4. CallHolds(asking[t])
    BY DEF StopsHold, CallsHold
  <2>5. CallHolds(asking[t])'
    BY <2>1, <2>2, <2>4 DEF CallHolds, FirstRow, Gone
  <2> QED
    BY <1>7, <2>3, <2>5 DEF CallsHold
<1>10. ASSUME NEW t \in Requests,
              \/ \E r \in LedgerRuns : StopBegins(t, r)
              \/ CacheHits(t) \/ CacheReturns(t) \/ LedgerParsed(t) \/ StoresKey(t) \/ StoresRows(t)
              \/ StopAnswered(t) \/ StopErrs(t) \/ StopMarks(t)
      PROVE  CallsHold'
  <2>1. asking'[t].at \notin {"calls", "answered"}
    <3>1. CASE \E r \in LedgerRuns : StopBegins(t, r)
      BY <1>2, <3>1 DEF StopBegins, LedgerTyped, Quiet
    <3>2. CASE CacheHits(t) \/ CacheReturns(t)
      BY <1>2, <3>2 DEF CacheHits, CacheReturns, LedgerTyped, AskRecords
    <3>3. CASE LedgerParsed(t)
      BY <1>2, <3>3 DEF LedgerParsed, LedgerTyped, AskRecords
    <3>4. CASE StoresKey(t) \/ StoresRows(t)
      BY <1>2, <3>4 DEF StoresKey, StoresRows, LedgerTyped, AskRecords
    <3>5. CASE StopAnswered(t) \/ StopErrs(t) \/ StopMarks(t)
      BY <1>2, <3>5, QuietTyped DEF StopAnswered, StopErrs, StopMarks, LedgerTyped
    <3> QED
      BY <1>10, <3>1, <3>2, <3>3, <3>4, <3>5
  <2>2. \A u \in Requests : u # t => UNCHANGED asking[u]
    BY <1>10, RequestStep
  <2>3. CallHolds(asking[t])'
    BY <2>1 DEF CallHolds
  <2> QED
    BY <1>7, <2>2, <2>3 DEF CallsHold
<1>11. ASSUME UNCHANGED asking
       PROVE  CallsHold'
  BY <1>7, <1>11 DEF CallsHold
<1>12. CallsHold'
  BY <1>8, <1>9, <1>10, <1>11
  DEF MetricsNext, metricsVars, SessionIsOver, RoleTurnReturns, Swept, Settled, LedgerBegins, LedgerEnds
<1> QED
  BY <1>1, <1>5, <1>12 DEF StopsHold

(* The ledger begins empty. *)
LEMMA MetricsStart == MetricsInit => ReadersHold /\ StopsHold /\ stopped \subseteq LedgerRuns
<1> SUFFICES ASSUME MetricsInit
             PROVE  ReadersHold /\ StopsHold /\ stopped \subseteq LedgerRuns
  OBVIOUS
<1>1. /\ ledger = <<>> /\ <<>> \in Seq(Rows) /\ Len(<<>>) = 0 /\ torn = NoRow
      /\ cached = [sig |-> -1, rows |-> 0] /\ stopped = {}
      /\ asking = [t \in Requests |-> Quiet]
  BY DEF MetricsInit
<1>2. worked \in [LedgerRuns -> [session : 0..MaxSessions, swept : BOOLEAN, done : BOOLEAN]]
  <2>1. 0 \in 0..MaxSessions
    BY MetricsAssumption
  <2> QED
    BY <2>1 DEF MetricsInit
<1>3. cached \in [sig : Int, rows : Nat] /\ cached.rows <= Len(ledger) /\ cached.sig <= 2 * cached.rows + 1
  BY <1>1
<1>4. \A t \in Requests : asking[t] \in AskRecords /\ asking[t].due <= Len(ledger) /\ asking[t].rows <= Len(ledger)
        /\ asking[t].at = "idle" /\ Looked(asking[t])
  BY <1>1, QuietTyped
<1>5. ReadersHold
  BY <1>1, <1>2, <1>3, <1>4 DEF ReadersHold, LedgerTyped, CacheHolds
<1> QED
  BY <1>1, <1>4, <1>5 DEF StopsHold, RowsNamed, CallsHold, CallHolds, MarksHold

(* So a request answers from what was there, and what is marked is gone. *)
LEMMA CurrentAndStopped ==
    ASSUME ReadersHold, StopsHold, stopped \subseteq LedgerRuns
    PROVE  LedgerIsCurrent /\ StoppedIsStopped
<1>1. LedgerIsCurrent
  BY DEF ReadersHold, CacheHolds, LedgerIsCurrent
<1>2. ASSUME NEW r \in stopped
      PROVE  <<r, ledger[RowOf(r, Len(ledger))].session>> \notin live
  <2>1. PICK n \in 1..Len(ledger) : FirstRow(r, n) /\ Gone(r, n)
    BY DEF StopsHold, MarksHold
  <2>2. RowOf(r, Len(ledger)) = n
    BY <2>1, FirstIsFound DEF ReadersHold
  <2> QED
    BY <2>1, <2>2 DEF Gone
<1> QED
  BY <1>1, <1>2 DEF StoppedIsStopped

-----------------------------------------------------------------------------
(* What the variables are *)

(* What is described is a known runtime, and what may be counted stays in its bounds. *)
SettingsTyped ==
    /\ iam \subseteq Harnessed /\ edits \in 0..MaxEdits /\ muddled \in BOOLEAN
    /\ described \subseteq Arns /\ \A e \in Editors : edit[e].descs \subseteq Arns

(* A description is of a known runtime (save_description). *)
LEMMA RedescribedArns ==
    ASSUME NEW ed, NEW fleet, NEW descs, descs \subseteq Arns, ed.op = "describe" => ed.arn \in Arns
    PROVE  Redescribed(ed, fleet, descs) \subseteq Arns
<1>1. CASE ed.op = "describe"
  <2> DEFINE less == descs \ {ed.arn}
             more == descs \cup {ed.arn}
  <2>1. less \subseteq Arns /\ more \subseteq Arns
    BY <1>1
  <2>2. ~RemovesFile(ed, fleet)
    BY <1>1 DEF RemovesFile
  <2>3. Redescribed(ed, fleet, descs) = less \/ Redescribed(ed, fleet, descs) = more
    BY <1>1, <2>2, Zenon DEF Redescribed
  <2> QED
    BY <2>1, <2>3
<1>2. CASE RemovesFile(ed, fleet)
  <2>1. Redescribed(ed, fleet, descs) = {}
    BY <1>2, ClearedAway, Zenon
  <2> QED
    BY <2>1
<1>3. CASE ed.op # "describe" /\ ~RemovesFile(ed, fleet)
  <2>1. Redescribed(ed, fleet, descs) = descs
    BY <1>3, Zenon DEF Redescribed
  <2> QED
    BY <2>1
<1> QED
  BY <1>1, <1>2, <1>3

(* Every step of the fleet keeps them so. *)
LEMMA SettingsTypedStep ==
    ASSUME SettingsTyped, EditsAreRecords, WiringTyped, ScriptsTyped, [FleetNext]_fleetVars
    PROVE  SettingsTyped'
<1>0. MaxEdits \in Nat
  BY FleetAssumption
<1>1. ASSUME NEW r \in Harnessed, Scripts(r)
      PROVE  SettingsTyped'
  <2>1. iam' \subseteq Harnessed
    BY <1>1 DEF SettingsTyped, Scripts, DeployStarts, DeployUpdates, DeployCreates, DeployReady, DeployOpens, DeployRecords,
       CleanupStarts, CleanupDeletes, CleanupDeletesRole, CleanupForgets, ScriptStops
  <2>2. UNCHANGED <<edits, muddled, described, edit>>
    BY <1>1 DEF wiring, Scripts, DeployStarts, DeployUpdates, DeployCreates, DeployReady, DeployOpens, DeployRecords,
       CleanupStarts, CleanupDeletes, CleanupDeletesRole, CleanupForgets, ScriptStops
  <2> QED
    BY <2>1, <2>2 DEF SettingsTyped
<1>2. ASSUME NEW e \in Editors, EditBegins(e)
      PROVE  SettingsTyped'
  <2>1. PICK op \in {"save", "add", "remove", "clear", "describe"}, r \in Roles, a \in Pasted \cup 0..created :
          edit' = [edit EXCEPT ![e] = [step |-> "read", op |-> op, role |-> r, arn |-> a,
                                       runtimes |-> wired, descs |-> described]]
    BY <1>2 DEF EditBegins
  <2>2. edits < MaxEdits /\ edits' = edits + 1 /\ muddled' \in BOOLEAN /\ UNCHANGED <<described, iam>>
    BY <1>2 DEF EditBegins, deployment
  <2>3. \A f \in Editors : edit'[f].descs \in {described, edit[f].descs}
    BY <2>1 DEF EditsAreRecords
  <2> QED
    BY <1>0, <2>2, <2>3 DEF SettingsTyped
<1>3. ASSUME NEW e \in Editors, EditOpens(e)
      PROVE  SettingsTyped'
  <2> DEFINE ed == edit[e]
             descs == IF ed.op = "describe" THEN ed.descs ELSE described
             new == Redescribed(ed, ed.runtimes, descs)
             open == [ed EXCEPT !.step = "open", !.runtimes = Written(ed), !.descs = new]
  <2>1. /\ edit' = [edit EXCEPT ![e] = IF RemovesFile(ed, ed.runtimes) THEN NoEdit ELSE open]
        /\ described' = {} /\ UNCHANGED <<edits, muddled, iam>>
    BY <1>3 DEF EditOpens, deployment
  <2>2. ed.op = "describe" => ed.arn \in Arns
    BY <1>3 DEF EditOpens, WiringTyped, EditNames
  <2>3. descs \subseteq Arns
    BY DEF SettingsTyped
  <2>4. new \subseteq Arns
    <3> HIDE DEF ed, descs
    <3> QED
      BY <2>2, <2>3, RedescribedArns
  <2>5. open.descs = new
    <3>1. ed = [step |-> ed.step, op |-> ed.op, role |-> ed.role, arn |-> ed.arn,
                runtimes |-> ed.runtimes, descs |-> ed.descs]
      BY DEF EditsAreRecords
    <3> DEFINE w == Written(ed)
    <3>2. open = [ed EXCEPT !.step = "open", !.runtimes = w, !.descs = new]
      OBVIOUS
    <3> HIDE DEF ed, descs, new, w, open
    <3>3. open = [step |-> "open", op |-> ed.op, role |-> ed.role, arn |-> ed.arn, runtimes |-> w, descs |-> new]
      BY <3>1, <3>2, EditAltered
    <3> QED
      BY <3>3
  <2> HIDE DEF new, open
  <2>6. \A f \in Editors : edit'[f].descs \subseteq Arns
    BY <2>1, <2>4, <2>5 DEF SettingsTyped, EditsAreRecords, NoEdit
  <2> QED
    BY <2>1, <2>6 DEF SettingsTyped
<1>4. ASSUME NEW e \in Editors, EditDumps(e)
      PROVE  SettingsTyped'
  BY <1>4 DEF EditDumps, deployment, SettingsTyped, EditsAreRecords, NoEdit
<1>5. ASSUME NEW e \in Editors, EditResets(e)
      PROVE  SettingsTyped'
  <2>1. edits < MaxEdits /\ edits' = edits + 1 /\ muddled' \in BOOLEAN /\ described' = {} /\ UNCHANGED <<edit, iam>>
    BY <1>5 DEF EditResets, deployment
  <2> QED
    BY <1>0, <2>1 DEF SettingsTyped
<1>6. ASSUME NEW e \in Editors, EditCut(e)
      PROVE  SettingsTyped'
  BY <1>6 DEF EditCut, deployment, SettingsTyped, EditsAreRecords, NoEdit
<1>7. ASSUME UNCHANGED <<iam, wiring>>
      PROVE  SettingsTyped'
  BY <1>7 DEF wiring, SettingsTyped
<1> QED
  BY <1>1, <1>2, <1>3, <1>4, <1>5, <1>6, <1>7
  DEF FleetNext, fleetVars, PickReads, PickTakes, deployment

(* What each part of the fleet's invariant says adds up to its types. *)
LEMMA FleetIsTyped ==
    ASSUME ScriptsTyped, SpreadsEvenly, EditsAreRecords, SettingsTyped
    PROVE  FleetTypeOK
<1>1. \A d \in Dispatchers : \A k \in DOMAIN hits[d].arns : hits[d].arns[k] \in Arns
  <2> SUFFICES ASSUME NEW d \in Dispatchers, NEW k \in DOMAIN hits[d].arns PROVE hits[d].arns[k] \in Arns
    OBVIOUS
  <2> DEFINE arns == hits[d].arns
  <2>1. arns \in Seq(Arns) /\ k \in DOMAIN arns
    BY DEF SpreadsEvenly, PicksTyped
  <2> HIDE DEF arns
  <2>2. arns[k] \in Arns
    BY <2>1
  <2> QED
    BY <2>2 DEF arns
<1>2. Wires(wired) /\ RuntimesAreNumbered
  BY DEF SpreadsEvenly, WiringTyped
<1> QED
  BY <1>1, <1>2
  DEF SpreadsEvenly, PicksTyped, Wires, RuntimesAreNumbered, ScriptsTyped, EditsAreRecords, SettingsTyped, FleetTypeOK

-----------------------------------------------------------------------------
\* A doctor past its first look knows the repository.
DoctorsProbe ==
    /\ probed \subseteq Repos /\ turned \in 0..MaxTurns
    /\ \A d \in Doctors : doctor[d].step \in {"listed", "read", "created"} => doctor[d].repo \in Repos
KeysTyped ==
    /\ vault \in Keys \cup {NoKey} /\ note \in Keys \cup {NoKey}
    /\ saves \in 0..MaxSaves /\ blurred \in BOOLEAN

(* A doctor probes only repositories. *)
LEMMA DoctorsProbeStep ==
    ASSUME DoctorsProbe, GitHubTyped, [GitHubNext]_github
    PROVE  DoctorsProbe'
<1>0. turned \in 0..MaxTurns
  BY DEF DoctorsProbe
<1> USE DEF DoctorsProbe, GitHubTyped, DoctorRecords
<1>1. CASE Turns
  <2>1. turned < MaxTurns /\ turned' = turned + 1 /\ MaxTurns \in Nat /\ probed' = probed
    BY <1>1, ConnectionsAssumption DEF Turns
  <2>2. turned' \in 0..MaxTurns
    <3> HIDE DEF DoctorsProbe, GitHubTyped
    <3> QED
      BY <1>0, <2>1
  <2>3. \A d \in Doctors : doctor'[d].step = doctor[d].step /\ doctor'[d].repo = doctor[d].repo
    BY <1>1 DEF Turns
  <2> QED
    BY <2>1, <2>2, <2>3
<1>2. ASSUME NEW d \in Doctors, DoctorLists(d)
      PROVE  DoctorsProbe'
  BY <1>2, ConfigTyped DEF DoctorLists, NoConfig
<1>3. ASSUME NEW d \in Doctors, DoctorReads(d)
      PROVE  DoctorsProbe'
  BY <1>3 DEF DoctorReads, Reports
<1>4. ASSUME NEW d \in Doctors, DoctorCreates(d)
      PROVE  DoctorsProbe'
  BY <1>4 DEF DoctorCreates, Reports
<1>5. ASSUME NEW d \in Doctors, DoctorResets(d)
      PROVE  DoctorsProbe'
  <2>1. UNCHANGED turned /\ doctor[d].repo \in Repos /\ probed' \subseteq probed \cup {doctor[d].repo}
    BY <1>5 DEF DoctorResets
  <2>2. PICK at \in {"ready", "notReady"} : doctor' = [doctor EXCEPT ![d].step = at]
    BY <1>5 DEF DoctorResets, Reports
  <2> QED
    BY <2>1, <2>2
<1>6. CASE UNCHANGED github
  BY <1>6 DEF github
<1> QED
  BY <1>1, <1>2, <1>3, <1>4, <1>5, <1>6 DEF GitHubNext

(* What is kept of a key is a key or nothing. *)
LEMMA KeysTypedStep ==
    ASSUME KeysTyped, KiroTyped, [KiroNext]_kiro
    PROVE  KeysTyped'
<1> USE DEF KeysTyped
<1>0. \A s \in Savers : saver[s].key \in Keys \cup {NoKey}
  BY DEF KiroTyped
<1>1. ASSUME NEW s \in Savers, KeyBegins(s)
      PROVE  KeysTyped'
  <2>1. saves < MaxSaves /\ saves' = saves + 1 /\ blurred' \in BOOLEAN /\ UNCHANGED <<vault, note>>
    BY <1>1 DEF KeyBegins
  <2>2. saves' \in 0..MaxSaves
    <3>1. MaxSaves \in Nat /\ saves \in 0..MaxSaves
      BY ConnectionsAssumption
    <3> HIDE DEF KeysTyped
    <3> QED
      BY <2>1, <3>1
  <2> QED
    BY <2>1, <2>2
<1>2. ASSUME NEW s \in Savers, KeyVault(s)
      PROVE  KeysTyped'
  BY <1>0, <1>2 DEF KeyVault
<1>3. ASSUME NEW s \in Savers, KeyNote(s)
      PROVE  KeysTyped'
  BY <1>0, <1>3 DEF KeyNote
<1>4. ASSUME NEW s \in Savers, KeyCut(s)
      PROVE  KeysTyped'
  BY <1>4 DEF KeyCut
<1>5. CASE UNCHANGED kiro
  BY <1>5 DEF kiro
<1> QED
  BY <1>1, <1>2, <1>3, <1>4, <1>5 DEF KiroNext

(* So both connections keep their types. *)
LEMMA ConnectionsAreTyped ==
    ASSUME GitHubTyped, DoctorsProbe, KiroTyped, KeysTyped
    PROVE  ConnectionsTypeOK
BY DEF GitHubTyped, DoctorRecords, DoctorsProbe, KiroTyped, KeysTyped, ConnectionsTypeOK

-----------------------------------------------------------------------------
(* A session of a runtime does not try to open more often than it may. *)
AttemptsAreFew == \A r \in RtSessions : rt[r].attempts \in 0..MaxAttempts

(* No step tries once more than the last attempt. *)
LEMMA AttemptsStayFew ==
    ASSUME ShellsTyped, AttemptsAreFew, [RtNext]_rtVars
    PROVE  AttemptsAreFew'
<1>0. /\ rt \in [RtSessions -> RtRecords] /\ MaxAttempts \in Nat
      /\ \A r \in RtSessions : rt[r] \in RtRecords /\ rt[r].attempts \in 0..MaxAttempts
  BY RuntimeShellsAssumption DEF ShellsTyped, AttemptsAreFew
<1>1. ASSUME NEW r \in RtSessions, NEW rec, rt' = [rt EXCEPT ![r] = rec], rec.attempts \in 0..MaxAttempts
      PROVE  AttemptsAreFew'
  BY <1>0, <1>1 DEF AttemptsAreFew
<1>2. ASSUME NEW r \in RtSessions, RtOpens(r)
      PROVE  AttemptsAreFew'
  <2> DEFINE rec == [NoRt EXCEPT !.at = "started", !.alive = TRUE]
  <2>1. rt' = [rt EXCEPT ![r] = rec] /\ rec.attempts = 0
    BY <1>2 DEF RtOpens, NoRt
  <2> HIDE DEF rec
  <2>2. rec.attempts \in 0..MaxAttempts
    BY <1>0, <2>1
  <2> QED
    BY <1>1, <2>1, <2>2
<1>3. ASSUME NEW r \in RtSessions, AttemptFails(r)
      PROVE  AttemptsAreFew'
  <2> DEFINE n == rt[r].attempts + 1
             ran == IF n < MaxAttempts THEN [rt[r] EXCEPT !.attempts = n]
                    ELSE [rt[r] EXCEPT !.attempts = n, !.at = "over", !.alive = FALSE]
             rec == [ran EXCEPT !.out = @ + 1]
  <2>1. rt[r].attempts < MaxAttempts /\ rt' = [rt EXCEPT ![r] = rec]
    BY <1>3 DEF AttemptFails, Emits
  <2>2. n \in 0..MaxAttempts
    BY <1>0, <2>1
  <2> HIDE DEF n
  <2>3. ran.attempts = n
    BY <1>0 DEF RtRecords
  <2> HIDE DEF ran
  <2>4. rec.attempts = ran.attempts
    OBVIOUS
  <2> HIDE DEF rec
  <2> QED
    BY <1>1, <2>1, <2>2, <2>3, <2>4
<1>4. ASSUME NEW r \in RtSessions, Outputs(r) \/ SaysEnded(r) \/ RtKilled(r) \/ ThreadFails(r) \/ LoopHalts(r)
      PROVE  AttemptsAreFew'
  <2>1. \A s \in RtSessions : rt'[s].attempts = rt[s].attempts
    <3>1. CASE Outputs(r)
      BY <1>0, <3>1 DEF Outputs, Emits
    <3>2. CASE SaysEnded(r)
      BY <1>0, <3>2 DEF SaysEnded, Emits
    <3>3. CASE RtKilled(r)
      BY <1>0, <3>3 DEF RtKilled, RtRecords
    <3>4. CASE ThreadFails(r)
      <4> DEFINE ran == [rt[r] EXCEPT !.at = "over", !.alive = FALSE, !.connected = FALSE]
                 rec == [ran EXCEPT !.out = @ + 1]
      <4>1. rt' = [rt EXCEPT ![r] = rec] /\ rec.attempts = rt[r].attempts
        BY <1>0, <3>4 DEF ThreadFails, Emits, RtRecords
      <4> HIDE DEF rec
      <4> QED
        BY <1>0, <4>1
    <3>5. CASE LoopHalts(r)
      <4> DEFINE ran == [rt[r] EXCEPT !.at = "over", !.alive = FALSE]
                 rec == [ran EXCEPT !.out = @ + 1]
      <4>1. rt' = [rt EXCEPT ![r] = rec] /\ rec.attempts = rt[r].attempts
        BY <1>0, <3>5 DEF LoopHalts, Emits, RtRecords
      <4> HIDE DEF rec
      <4> QED
        BY <1>0, <4>1
    <3> QED
      BY <1>4, <3>1, <3>2, <3>3, <3>4, <3>5
  <2> QED
    BY <1>0, <2>1 DEF AttemptsAreFew
<1>5. ASSUME NEW r \in RtSessions, LoopStarts(r) \/ ShellOpens(r) \/ Launches(r) \/ RemoteEnds(r)
                                    \/ \E size \in Measured : Resize(r, size)
      PROVE  AttemptsAreFew'
  <2>1. \A s \in RtSessions : rt'[s].attempts = rt[s].attempts
    <3>1. CASE LoopStarts(r)
      BY <1>0, <3>1 DEF LoopStarts
    <3>2. CASE ShellOpens(r)
      BY <1>0, <3>2 DEF ShellOpens
    <3>3. CASE Launches(r)
      BY <1>0, <3>3 DEF Launches
    <3>4. CASE RemoteEnds(r)
      BY <1>0, <3>4 DEF RemoteEnds
    <3>5. CASE \E size \in Measured : Resize(r, size)
      BY <1>0, <3>5 DEF Resize
    <3> QED
      BY <1>5, <3>1, <3>2, <3>3, <3>4, <3>5
  <2> QED
    BY <1>0, <2>1 DEF AttemptsAreFew
<1>6. ASSUME UNCHANGED rt
      PROVE  AttemptsAreFew'
  BY <1>6 DEF AttemptsAreFew
<1>7. ASSUME NEW r \in RtSessions, Close(r) \/ StopCloses(r)
      PROVE  AttemptsAreFew'
  BY <1>4, <1>6, <1>7 DEF Close, StopCloses
<1> QED
  BY <1>2, <1>3, <1>4, <1>5, <1>6, <1>7
  DEF RtNext, rtVars, StopCalls, StreamBegins, Subscribes, StreamYields, StreamEnds

(* So the shells of the runtimes keep their types. *)
LEMMA RtIsTyped ==
    ASSUME ShellsTyped, ViewersTyped, AttemptsAreFew
    PROVE  RtTypeOK
<1>1. \A r \in RtSessions : rt[r] \in RtRecords
  BY DEF ShellsTyped
<1>2. \A v \in RtViewers : viewer[v] \in ViewerRecords
  BY DEF ViewersTyped
<1> QED
  BY <1>1, <1>2 DEF RtRecords, ViewerRecords, Sizes, ShellsTyped, AttemptsAreFew, RtTypeOK

-----------------------------------------------------------------------------
(* The key of the ledger's cache is a size the ledger had, and only sessions run. *)
KeyedAndLive ==
    /\ cached.sig >= -1 /\ cached.sig <= 2 * Len(ledger) + 1
    /\ live \subseteq LedgerRuns \X (1..MaxSessions) /\ mixed \in BOOLEAN

(* A size that is stored was looked at before, and the ledger only grows. *)
LEMMA KeyedAndLiveStep ==
    ASSUME LedgerTyped, \A t \in Requests : Looked(asking[t]), KeyedAndLive, [MetricsNext]_metricsVars
    PROVE  KeyedAndLive'
<1>0. /\ Len(ledger) \in Nat /\ cached \in [sig : Int, rows : Nat] /\ cached.sig \in Int
      /\ cached.sig >= -1 /\ cached.sig <= 2 * Len(ledger) + 1
      /\ live \subseteq LedgerRuns \X (1..MaxSessions) /\ mixed \in BOOLEAN
  BY DEF LedgerTyped, KeyedAndLive
<1>1. ASSUME NEW r \in LedgerRuns, RoleTurnReturns(r)
      PROVE  KeyedAndLive'
  <2>1. /\ worked[r] \in [session : 0..MaxSessions, swept : BOOLEAN, done : BOOLEAN] /\ worked[r].session < MaxSessions
        /\ worked' = [worked EXCEPT ![r].session = @ + 1] /\ live' = live \cup {<<r, worked'[r].session>>}
        /\ UNCHANGED <<ledger, cached, mixed>>
    BY <1>1 DEF LedgerTyped, RoleTurnReturns
  <2>2. worked'[r].session = worked[r].session + 1
    BY <2>1 DEF LedgerTyped
  <2>3. worked'[r].session \in 1..MaxSessions
    BY <2>1, <2>2, MetricsAssumption
  <2> QED
    BY <1>0, <2>1, <2>3 DEF KeyedAndLive
<1>2. ASSUME NEW t \in Requests, StoresKey(t)
      PROVE  KeyedAndLive'
  <2>1. asking[t] \in AskRecords /\ asking[t].due <= Len(ledger) /\ Looked(asking[t])
    BY DEF LedgerTyped
  <2>2. asking[t].sig \in Nat /\ asking[t].sig <= 2 * Len(ledger) + 1
    BY <1>0, <2>1 DEF AskRecords, Looked
  <2>3. /\ cached'.sig = asking[t].sig /\ mixed' \in BOOLEAN /\ UNCHANGED <<ledger, live>>
    BY <1>0, <1>2 DEF StoresKey, StoredKey
  <2> QED
    BY <1>0, <2>2, <2>3 DEF KeyedAndLive
<1>3. CASE LedgerEnds
  <2>1. Len(ledger') = Len(ledger) + 1 /\ UNCHANGED <<cached, live, mixed>>
    BY <1>3, RowEnded DEF LedgerEnds
  <2> QED
    BY <1>0, <2>1 DEF KeyedAndLive
<1>4. ASSUME ledger' = ledger, cached'.sig = cached.sig, live' \subseteq live, mixed' \in BOOLEAN
      PROVE  KeyedAndLive'
  BY <1>0, <1>4 DEF KeyedAndLive
<1>5. ASSUME NEW t \in Requests, StoresRows(t)
      PROVE  KeyedAndLive'
  BY <1>0, <1>4, <1>5 DEF StoresRows
<1>6. ASSUME NEW t \in Requests, CacheHits(t)
      PROVE  KeyedAndLive'
  BY <1>0, <1>4, <1>6 DEF CacheHits
<1>7. ASSUME NEW t \in Requests,
             \/ \E r \in LedgerRuns : StopBegins(t, r)
             \/ CacheReturns(t) \/ LedgerParsed(t) \/ StopAnswered(t) \/ StopCalled(t) \/ StopErrs(t) \/ StopMarks(t)
      PROVE  KeyedAndLive'
  <2>1. UNCHANGED <<ledger, cached, live, mixed>>
    BY <1>7 DEF StopBegins, CacheReturns, LedgerParsed, StopAnswered, StopCalled, StopErrs, StopMarks
  <2> QED
    BY <1>0, <1>4, <2>1
<1>8. ASSUME NEW t \in Requests, StopTakes(t)
      PROVE  KeyedAndLive'
  BY <1>0, <1>4, <1>8 DEF StopTakes
<1>9. ASSUME NEW r \in LedgerRuns, Swept(r) \/ Settled(r)
      PROVE  KeyedAndLive'
  BY <1>0, <1>4, <1>9 DEF Swept, Settled, LedgerBegins
<1>10. ASSUME NEW s \in live, SessionIsOver(s)
       PROVE  KeyedAndLive'
  BY <1>0, <1>4, <1>10 DEF SessionIsOver
<1>11. CASE UNCHANGED metricsVars
  BY <1>0, <1>4, <1>11 DEF metricsVars
<1> QED
  BY <1>1, <1>2, <1>3, <1>5, <1>6, <1>7, <1>8, <1>9, <1>10, <1>11 DEF MetricsNext

(* So the ledger and its readers keep their types. *)
LEMMA MetricsAreTyped ==
    ASSUME LedgerTyped, KeyedAndLive, stopped \subseteq LedgerRuns
    PROVE  MetricsTypeOK
<1>1. Len(ledger) \in Nat /\ cached \in [sig : Int, rows : Nat] /\ cached.rows <= Len(ledger)
  BY DEF LedgerTyped
<1>2. cached.sig \in -1..(2 * Len(ledger) + 1) /\ cached.rows \in 0..Len(ledger)
  BY <1>1 DEF KeyedAndLive
<1>3. ASSUME NEW t \in Requests
      PROVE  /\ asking[t].at \in {"idle", "looked", "hit", "parsed", "storing", "has", "calls", "answered"}
             /\ asking[t].rows \in 0..Len(ledger) /\ asking[t].due \in 0..Len(ledger)
  <2>1. asking[t] \in AskRecords /\ asking[t].rows <= Len(ledger) /\ asking[t].due <= Len(ledger)
    BY DEF LedgerTyped
  <2> QED
    BY <1>1, <2>1 DEF AskRecords
<1> QED
  BY <1>2, <1>3 DEF LedgerTyped, KeyedAndLive, MetricsTypeOK

-----------------------------------------------------------------------------
(* The stored copies are typed and few. *)
LEMMA HistoryIsTyped == HistoryHolds => HistoryTypeOK
BY DEF HistoryHolds, HistoryTyped, FilesAreFew, Held, HistoryTypeOK

(* The shelf has known agents, ARNs and purposes. *)
LEMMA ShelfTypedStep ==
    ASSUME ShelfTypeOK, [ShelfNext]_shelfVars
    PROVE  ShelfTypeOK'
<1> USE DEF ShelfTypeOK
<1>1. \A a \in Agents : Reconciled(a) \in [status : {"not_deployed", "deploying", "ready"}, arn : ShelfArns \cup {NoArn}]
  BY DEF Reconciled
<1>2. Unedited \in [Agents -> Purposes \cup {Blank, Unset}]
  BY DEF Unedited
<1>3. Clean \in [Agents -> [status : {"not_deployed", "deploying", "ready"}, arn : ShelfArns \cup {NoArn}]]
  BY DEF Clean
<1>4. ASSUME NEW a \in Agents, DeployAgent(a)
      PROVE  ShelfTypeOK'
  BY <1>1, <1>4 DEF DeployAgent
<1>5. ASSUME NEW a \in Agents, NEW purpose \in Purposes \cup {Blank}, EditAgent(a, purpose)
      PROVE  ShelfTypeOK'
  BY <1>5 DEF EditAgent
<1>6. ASSUME NEW a \in Agents, NEW arn \in ShelfArns \cup {NoArn}, DeployLands(a, arn)
      PROVE  ShelfTypeOK'
  BY <1>6 DEF DeployLands
<1>7. CASE ShelfReset \/ ShelfRestart
  BY <1>2, <1>3, <1>7 DEF ShelfReset, ShelfRestart
<1>8. CASE UNCHANGED shelfVars
  BY <1>8 DEF shelfVars
<1> QED
  BY <1>4, <1>5, <1>6, <1>7, <1>8 DEF ShelfNext, ShelfSession

(* It begins so. *)
LEMMA ShelfStarts == ShelfInit => ShelfTypeOK
BY DEF ShelfInit, ShelfTypeOK, Clean, Unedited

-----------------------------------------------------------------------------
(* The folders there are, those of the sessions, and what a shell puts out. *)
RoleFolders == DevFolders \cup RoleSessions
ShellsBounded ==
    \A g \in DOMAIN shell : shell[g].root \in RoleFolders /\ shell[g].out <= MaxChunks /\ shell[g].read <= shell[g].out
RolesAtHome == \A s \in RoleSessions : Opened(s) => session[s].root = s
FoldersTyped ==
    dirs \subseteq RoleFolders /\ made \in Seq(RoleSessions) /\ ShellsBounded /\ RolesAtHome

\* Killing a shell changes neither where it was nor what it put out.
LEMMA KilledIsBounded ==
    ASSUME ShellsMatch, ShellsBounded, NEW s \in Sessions, shell' = KilledShell(s)
    PROVE  ShellsBounded'
<1>1. CASE session[s].pty = 0
  BY <1>1 DEF KilledShell, ShellsBounded
<1>2. CASE session[s].pty # 0
  <2> DEFINE p == session[s].pty
             rec == [shell[p] EXCEPT !.live = FALSE, !.open = FALSE]
  <2>1. p \in DOMAIN shell /\ shell[p] \in ShellRecords
    BY <1>2, EachShell DEF ShellsMatch, PtyIsOwn
  <2>2. shell' = [shell EXCEPT ![p] = rec]
    BY <1>2, <2>1 DEF KilledShell, ShellsMatch, TerminalsTyped, ShellRecords
  <2>3. rec.root = shell[p].root /\ rec.out = shell[p].out /\ rec.read = shell[p].read
    BY <2>1 DEF ShellRecords
  <2> HIDE DEF p, rec
  <2> QED
    BY <2>1, <2>2, <2>3 DEF ShellsBounded
<1> QED
  BY <1>1, <1>2

(* Every step leaves known folders, and a role's session in its own. *)
LEMMA FoldersTypedStep ==
    ASSUME ShellsMatch, FoldersTyped, [TerminalsNext]_terminalVars
    PROVE  FoldersTyped'
<1>0. /\ session \in [Sessions -> SessionRecords] /\ Start \in DevFolders /\ MaxChunks \in Nat
      /\ DevSessions \cap RoleSessions = {} /\ Recreating \subseteq RoleSessions
      /\ Sessions = DevSessions \cup RoleSessions
  BY TerminalsAssumption DEF ShellsMatch, TerminalsTyped, Sessions
<1>1. ASSUME NEW s \in Sessions, NEW rec, session' = [session EXCEPT ![s] = rec],
             s \in RoleSessions /\ rec.status = "open" => rec.root = s
      PROVE  RolesAtHome'
  BY <1>0, <1>1 DEF FoldersTyped, RolesAtHome, Opened
<1>2. ASSUME NEW s \in Sessions, NewSession(s)
      PROVE  FoldersTyped'
  <2> DEFINE root == IF s \in DevSessions THEN Start ELSE s
             rec == [status |-> "open", root |-> root, cwd |-> root, pty |-> 0]
             left == Only(made, RoleSessions \ Pruned)
             mine == IF s \in RoleSessions THEN <<s>> ELSE <<>>
  <2>1. /\ session' = [session EXCEPT ![s] = rec] /\ dirs' = (dirs \ Pruned) \cup {root}
        /\ made' = left \o mine /\ UNCHANGED shell
    BY <1>2 DEF NewSession
  <2>2. root \in RoleFolders /\ (s \in RoleSessions => root = s)
    BY <1>0 DEF RoleFolders
  <2>3. left \in Seq(RoleSessions)
    <3> DEFINE kept == RoleSessions \ Pruned
    <3> HIDE DEF kept
    <3>1. Only(made, kept) \in Seq(RoleSessions)
      BY OnlyPicks DEF FoldersTyped
    <3> QED
      BY <3>1 DEF kept
  <2>4. mine \in Seq(RoleSessions)
    BY <1>0
  <2> HIDE DEF root, left, mine
  <2>5. made' \in Seq(RoleSessions)
    BY <2>1, <2>3, <2>4
  <2>6. RolesAtHome'
    BY <1>1, <2>1, <2>2
  <2> QED
    BY <2>1, <2>2, <2>5, <2>6 DEF FoldersTyped, ShellsBounded
<1>3. ASSUME NEW s \in Sessions, CloseSession(s)
      PROVE  FoldersTyped'
  <2> DEFINE rec == [session[s] EXCEPT !.pty = 0, !.status = "closed"]
  <2>1. session[s] \in SessionRecords
    BY <1>0
  <2>2. session' = [session EXCEPT ![s] = rec] /\ rec.status = "closed"
    BY <1>0, <1>3, <2>1 DEF CloseSession, SessionRecords
  <2>3. shell' = KilledShell(s) /\ UNCHANGED <<dirs, made>>
    BY <1>3 DEF CloseSession
  <2> HIDE DEF rec
  <2>4. RolesAtHome'
    BY <1>1, <2>2
  <2> QED
    BY <2>3, <2>4, KilledIsBounded DEF FoldersTyped
<1>4. ASSUME NEW s \in Sessions, OpenBegins(s)
      PROVE  FoldersTyped'
  <2> DEFINE rec == [session[s] EXCEPT !.pty = 0]
  <2>1. session[s] \in SessionRecords
    BY <1>0
  <2>2. session' = [session EXCEPT ![s] = rec] /\ rec.status = session[s].status /\ rec.root = session[s].root
    BY <1>4, <2>1 DEF OpenBegins, SessionRecords
  <2>3. shell' = KilledShell(s) /\ UNCHANGED <<dirs, made>>
    BY <1>4 DEF OpenBegins
  <2> HIDE DEF rec
  <2>4. RolesAtHome'
    BY <1>1, <2>2 DEF FoldersTyped, RolesAtHome, Opened
  <2> QED
    BY <2>3, <2>4, KilledIsBounded DEF FoldersTyped
<1>5. ASSUME NEW s \in Sessions, OpenSpawns(s)
      PROVE  FoldersTyped'
  <2>1. session[s] \in SessionRecords /\ Opened(s) /\ opening = s
    BY <1>0, <1>5 DEF OpenSpawns, ShellsMatch, PtyIsOwn
  <2>2. dirs' = Staged(s) /\ UNCHANGED made
    BY <1>5 DEF OpenSpawns
  <2>3. dirs' \subseteq RoleFolders
    BY <1>0, <2>1, <2>2 DEF Staged, FoldersTyped, RolesAtHome, RoleFolders
  <2>4. CASE session[s].root \in dirs'
    <3> DEFINE spawned == [of |-> s, root |-> session[s].root, live |-> TRUE, open |-> TRUE, out |-> 0, read |-> 0]
               n == Len(shell) + 1
               rec == [session[s] EXCEPT !.pty = n]
    <3>1. shell' = Append(shell, spawned)
      BY <1>5, <2>4 DEF OpenSpawns
    <3>2. session' = [session EXCEPT ![s] = rec] /\ rec.status = session[s].status /\ rec.root = session[s].root
      BY <1>0, <1>5, <2>1, <2>4 DEF OpenSpawns, SessionRecords
    <3>3. spawned.root \in RoleFolders /\ spawned.out = 0 /\ spawned.read = 0
      BY <2>3, <2>4
    <3> HIDE DEF spawned, rec
    <3>4. shell \in Seq(ShellRecords) /\ DOMAIN shell' = DOMAIN shell \cup {n} /\ shell'[n] = spawned
          /\ \A g \in DOMAIN shell : shell'[g] = shell[g]
      BY <3>1 DEF ShellsMatch, TerminalsTyped
    <3>5. ShellsBounded'
      BY <1>0, <3>3, <3>4 DEF FoldersTyped, ShellsBounded
    <3>6. RolesAtHome'
      BY <1>1, <3>2 DEF FoldersTyped, RolesAtHome, Opened
    <3> QED
      BY <2>2, <2>3, <3>5, <3>6 DEF FoldersTyped
  <2>5. CASE session[s].root \notin dirs'
    <3>1. UNCHANGED <<shell, session>>
      BY <1>5, <2>5 DEF OpenSpawns
    <3> QED
      BY <2>2, <2>3, <3>1 DEF FoldersTyped, ShellsBounded, RolesAtHome, Opened
  <2> QED
    BY <2>4, <2>5
<1>6. ASSUME NEW s \in Sessions, NEW f \in DevFolders \cup {NoFolder}, OpenFolder(s, f)
      PROVE  FoldersTyped'
  <2> DEFINE rec == [session[s] EXCEPT !.pty = 0, !.root = f, !.cwd = f]
  <2>1. session[s] \in SessionRecords /\ s \notin RoleSessions
    BY <1>0, <1>6 DEF OpenFolder
  <2>2. session' = [session EXCEPT ![s] = rec]
    BY <1>0, <1>6, <2>1 DEF OpenFolder, SessionRecords
  <2>3. shell' = KilledShell(s) /\ UNCHANGED <<dirs, made>>
    BY <1>6 DEF OpenFolder
  <2> HIDE DEF rec
  <2>4. RolesAtHome'
    BY <1>1, <2>1, <2>2
  <2> QED
    BY <2>3, <2>4, KilledIsBounded DEF FoldersTyped
<1>7. ASSUME NEW s \in Sessions, NEW f \in DevFolders \cup Sessions, RunCommand(s, f)
      PROVE  FoldersTyped'
  <2> DEFINE to == IF <<f, session[s].root>> \in Within THEN f ELSE session[s].cwd
             rec == [session[s] EXCEPT !.cwd = to]
  <2>1. session[s] \in SessionRecords
    BY <1>0
  <2>2. session' = [session EXCEPT ![s] = rec] /\ UNCHANGED <<dirs, made, shell>>
    BY <1>7, <2>1 DEF RunCommand, SessionRecords
  <2> HIDE DEF to
  <2>3. rec.status = session[s].status /\ rec.root = session[s].root
    BY <2>1 DEF SessionRecords
  <2> HIDE DEF rec
  <2>4. RolesAtHome'
    BY <1>1, <2>2, <2>3 DEF FoldersTyped, RolesAtHome, Opened
  <2> QED
    BY <2>2, <2>4 DEF FoldersTyped, ShellsBounded
<1>8. ASSUME NEW g \in DOMAIN shell, ShellWrites(g) \/ ShellExits(g) \/ ReaderReads(g)
      PROVE  FoldersTyped'
  <2> DEFINE wrote == [shell[g] EXCEPT !.out = @ + 1]
             left == [shell[g] EXCEPT !.live = FALSE]
             heard == [shell[g] EXCEPT !.read = @ + 1]
             Fits(rec) == rec.root \in RoleFolders /\ rec.out <= MaxChunks /\ rec.read <= rec.out
  <2>1. shell[g] \in ShellRecords /\ Fits(shell[g])
    BY EachShell DEF ShellsMatch, FoldersTyped, ShellsBounded
  <2>2. UNCHANGED <<session, dirs, made>>
    BY <1>8 DEF ShellWrites, ShellExits, ReaderReads
  <2>3. ASSUME NEW rec, shell' = [shell EXCEPT ![g] = rec], Fits(rec)
        PROVE  FoldersTyped'
    BY <2>2, <2>3 DEF FoldersTyped, ShellsBounded, RolesAtHome, Opened
  <2>4. CASE ShellWrites(g)
    <3>1. shell' = [shell EXCEPT ![g] = wrote] /\ shell[g].out < MaxChunks
      BY <2>4 DEF ShellWrites
    <3>2. Fits(wrote)
      BY <1>0, <2>1, <3>1 DEF ShellRecords
    <3> HIDE DEF wrote, Fits
    <3> QED
      BY <2>3, <3>1, <3>2
  <2>5. CASE ShellExits(g)
    <3>1. shell' = [shell EXCEPT ![g] = left]
      BY <2>5 DEF ShellExits
    <3>2. Fits(left)
      BY <2>1 DEF ShellRecords
    <3> HIDE DEF left, Fits
    <3> QED
      BY <2>3, <3>1, <3>2
  <2>6. CASE ReaderReads(g)
    <3>1. shell' = [shell EXCEPT ![g] = heard] /\ shell[g].read < shell[g].out
      BY <2>6 DEF ReaderReads
    <3>2. Fits(heard)
      BY <1>0, <2>1, <3>1 DEF ShellRecords
    <3> HIDE DEF heard, Fits
    <3> QED
      BY <2>3, <3>1, <3>2
  <2> QED
    BY <1>8, <2>4, <2>5, <2>6
<1>9. CASE UNCHANGED <<session, shell, dirs, made>>
  BY <1>9 DEF FoldersTyped, ShellsBounded, RolesAtHome, Opened
<1> QED
  BY <1>2, <1>3, <1>4, <1>5, <1>6, <1>7, <1>8, <1>9
  DEF TerminalsNext, terminalVars, PollIo, Follow, TickReads, TickPolls, Disconnect, Ends

(* So the terminals keep their types. *)
LEMMA TerminalsAreTyped ==
    ASSUME ShellsMatch, ScreensHold, FoldersTyped
    PROVE  TerminalsTypeOK
<1>0. MaxChunks \in Nat /\ Len(shell) \in Nat /\ RoleFolders \subseteq DevFolders \cup Sessions
      /\ DOMAIN shell = 1..Len(shell)
  BY TerminalsAssumption DEF ShellsMatch, TerminalsTyped, RoleFolders, Sessions
<1>1. \A s \in Sessions : session[s] \in SessionRecords /\ session[s].pty \in 0..Len(shell)
  <2> SUFFICES ASSUME NEW s \in Sessions PROVE session[s] \in SessionRecords /\ session[s].pty \in 0..Len(shell)
    OBVIOUS
  <2>1. session[s] \in SessionRecords /\ session[s].pty \in Nat
    BY DEF ShellsMatch, TerminalsTyped, SessionRecords
  <2> QED
    BY <1>0, <2>1 DEF ShellsMatch, PtyIsOwn
<1>2. session \in [Sessions -> [status : {"none", "open", "closed"}, root : Folders, cwd : Folders, pty : 0..Len(shell)]]
  BY <1>1 DEF ShellsMatch, TerminalsTyped, SessionRecords
<1>3. ASSUME NEW g \in DOMAIN shell
      PROVE  shell[g] \in [of : Sessions, root : DevFolders \cup Sessions,
                           live : BOOLEAN, open : BOOLEAN, out : 0..MaxChunks, read : 0..MaxChunks]
  <2>1. shell[g] \in ShellRecords
    BY EachShell DEF ShellsMatch
  <2>2. shell[g].root \in RoleFolders /\ shell[g].out <= MaxChunks /\ shell[g].read <= shell[g].out
    BY DEF FoldersTyped, ShellsBounded
  <2>3. shell[g].out \in 0..MaxChunks /\ shell[g].read \in 0..MaxChunks
    BY <1>0, <2>1, <2>2 DEF ShellRecords
  <2> QED
    BY <1>0, <2>1, <2>2, <2>3 DEF ShellRecords
<1>4. \A v \in Viewers : stream[v].at \in {"off", "reads", "polls"}
  BY DEF ScreensHold, Screens
<1> QED
  BY <1>2, <1>3, <1>4 DEF ShellsMatch, TerminalsTyped, FoldersTyped, RoleFolders, Folders, TerminalsTypeOK

(* A tree's own variables. *)
StationsTyped ==
    /\ changes \subseteq WorkPaths /\ round \in 1..MaxRounds
    /\ step \in {"preparing", "installing", "ready", "working", "reading", "changed", "inspected", "over"}

(* Every step of a tree keeps them. *)
LEMMA StationsTypedStep ==
    ASSUME StationsTyped, [WorkTreeNext]_workTreeVars
    PROVE  StationsTyped'
<1> USE WorkTreeAssumption DEF StationsTyped
<1>1. CASE SeedCheckouts \/ SeedFails \/ InstallHarness \/ Hydrate
  BY <1>1 DEF SeedCheckouts, Extracted, SeedFails, InstallHarness, Hydrate
<1>2. ASSUME NEW p \in WorkPaths, NEW how, Touches(p, how)
      PROVE  StationsTyped'
  BY <1>2 DEF Touches
<1>3. CASE PackAndUpload \/ CommandLost
  BY <1>3 DEF PackAndUpload, CommandLost
<1>4. CASE RequireItemChange
  <2>1. changes' \subseteq WorkPaths /\ round' = round /\ step' \in {"over", "changed"}
    BY <1>4 DEF RequireItemChange, Differing
  <2> QED
    BY <2>1
<1>5. CASE StageForChecker \/ RepairStarts
  BY <1>5 DEF StageForChecker, RepairStarts
<1>6. CASE UNCHANGED workTreeVars
  BY <1>6 DEF workTreeVars
<1> QED
  BY <1>1, <1>2, <1>3, <1>4, <1>5, <1>6 DEF WorkTreeNext

(* So a tree keeps its types. *)
LEMMA WorkTreeIsTyped == TreesTyped /\ StationsTyped => WorkTreeTypeOK
BY DEF TreesTyped, StationsTyped, WorkTreeTypeOK

-----------------------------------------------------------------------------
(* A repair is of a pull request after the last one repaired, so that there are
   never more rounds than one and one for each pull request; and no check is of a
   round to come. *)
RoundsCounted ==
    /\ worker.fixing <= worker.cur /\ rounds <= worker.fixing + 1
    /\ worker.check <= rounds
    /\ \A b \in Owners : checks[b] <= rounds /\ gateDir[b] <= rounds

(* No thread is ahead of the round that runs. *)
LEMMA RoundsCountedStep ==
    ASSUME RoundsInv, RoundsInv', RoundsCounted, [GraphNext]_graphVars
    PROVE  RoundsCounted'
<1>0. GraphTyped /\ ThreadsTyped /\ GraphTyped' /\ NOwners \in Nat
  BY RoleGraphAssumption DEF RoundsInv
<1>a. /\ worker.cur \in Owners /\ worker.cur \in Int /\ worker.fixing \in Nat /\ worker.check \in Nat /\ rounds \in Nat
      /\ \A b \in Owners : checks[b] \in Nat /\ gateDir[b] \in Nat
  BY <1>0 DEF GraphTyped, Owners
<1>b. \A at, cur, fixing, check :
        LET w == [worker EXCEPT !.at = at]
            g == [worker EXCEPT !.at = at, !.check = check]
            n == [worker EXCEPT !.at = at, !.cur = cur]
            f == [worker EXCEPT !.at = at, !.fixing = fixing]
        IN  /\ w.cur = worker.cur /\ w.fixing = worker.fixing /\ w.check = worker.check
            /\ g.cur = worker.cur /\ g.fixing = worker.fixing /\ g.check = check
            /\ n.cur = cur /\ n.fixing = worker.fixing /\ n.check = worker.check
            /\ f.cur = worker.cur /\ f.fixing = fixing /\ f.check = worker.check
  BY <1>0 DEF GraphTyped
<1> USE DEF RoundsCounted
<1>1. ASSUME NEW r \in Everyone, NodeStarts(r)
      PROVE  RoundsCounted'
  BY <1>0, <1>1 DEF NodeStarts
<1>2. CASE GraphEnds \/ GraphGivesUp \/ WatchdogMarks
  BY <1>0, <1>2 DEF GraphEnds, GraphGivesUp, WatchdogMarks, GraphTyped
<1>3. ASSUME NEW t \in threads, BuilderPrompted(t)
      PROVE  RoundsCounted'
  BY <1>0, <1>3 DEF BuilderPrompted
<1>4. ASSUME NEW t \in threads, CheckerLists(t) \/ CheckerRemoves(t) \/ CheckerStages(t)
      PROVE  RoundsCounted'
  <2>1. t.round \in 1..rounds /\ UNCHANGED <<worker, rounds>> /\ rounds \in Nat
    BY <1>0, <1>4 DEF ThreadsTyped, CheckerLists, CheckerRemoves, CheckerStages, GraphTyped
  <2>2. \A b \in Owners : checks'[b] \in {checks[b], 0, t.round} /\ gateDir'[b] \in {gateDir[b], 0, t.round}
    BY <1>0, <1>4 DEF CheckerLists, CheckerRemoves, CheckerStages, GraphTyped
  <2> QED
    BY <2>1, <2>2
<1>5. ASSUME NEW t \in threads, NEW ok \in BOOLEAN, RoleTurnEnds(t, ok)
      PROVE  RoundsCounted'
  BY <1>0, <1>5 DEF RoleTurnEnds
<1>6. CASE RoundJudged \/ \E merges \in BOOLEAN : PullRequestSettles(merges)
  <2>1. /\ worker'.fixing = worker.fixing /\ worker'.check = worker.check /\ worker'.cur >= worker.cur /\ worker'.cur \in Int
        /\ UNCHANGED <<rounds, checks, gateDir>>
    <3>1. \/ worker' = NextPullRequest(worker)
          \/ \E at : worker' = [worker EXCEPT !.at = at]
      BY <1>6 DEF RoundJudged, PullRequestSettles
    <3>2. UNCHANGED <<rounds, checks, gateDir>>
      BY <1>6 DEF RoundJudged, PullRequestSettles
    <3>3. CASE worker' = NextPullRequest(worker)
      <4>1. \/ \E at : worker' = [worker EXCEPT !.at = at]
            \/ worker' = [worker EXCEPT !.at = "gate", !.cur = worker.cur + 1]
        BY <3>3 DEF NextPullRequest
      <4>2. CASE \E at : worker' = [worker EXCEPT !.at = at]
        BY <1>a, <1>b, <4>2, <3>2
      <4>3. CASE worker' = [worker EXCEPT !.at = "gate", !.cur = worker.cur + 1]
        BY <1>a, <1>b, <4>3, <3>2
      <4> QED
        BY <4>1, <4>2, <4>3
    <3>4. CASE \E at : worker' = [worker EXCEPT !.at = at]
      BY <1>a, <1>b, <3>2, <3>4
    <3> QED
      BY <3>1, <3>3, <3>4
  <2> QED
    BY <1>a, <2>1
<1>7. CASE GateReads \/ GateStages
  <2>1. /\ worker'.fixing = worker.fixing /\ worker'.cur = worker.cur /\ UNCHANGED rounds
        /\ worker'.check \in {worker.check, 0, gateDir[worker.cur]}
    <3>1. UNCHANGED rounds
      BY <1>7 DEF GateReads, GateStages
    <3>2. CASE worker' = [worker EXCEPT !.at = "gated"]
      BY <1>a, <1>b, <3>1, <3>2
    <3>3. CASE worker' = [worker EXCEPT !.at = "gated", !.check = 0]
      BY <1>a, <1>b, <3>1, <3>3
    <3>4. CASE worker' = [worker EXCEPT !.at = "raised"]
      BY <1>a, <1>b, <3>1, <3>4
    <3>5. CASE worker' = [worker EXCEPT !.at = "stages", !.check = gateDir[worker.cur]]
      BY <1>a, <1>b, <3>1, <3>5
    <3> QED
      BY <1>7, <3>2, <3>3, <3>4, <3>5 DEF GateReads, GateStages
  <2>2. \A b \in Owners : checks'[b] \in {checks[b], worker.check} /\ gateDir'[b] \in {gateDir[b], 0, worker.check}
    BY <1>0, <1>7 DEF GateReads, GateStages, GraphTyped
  <2> QED
    BY <1>a, <2>1, <2>2
<1>8. ASSUME NEW answer \in SUBSET Owners, RepairRouted(answer)
      PROVE  RoundsCounted'
  <2>1. /\ worker'.fixing = worker.cur /\ worker'.cur = worker.cur /\ worker'.check = worker.check
        /\ rounds' = rounds + 1 /\ UNCHANGED <<checks, gateDir>> /\ worker.fixing # worker.cur
    BY <1>b, <1>8 DEF RepairRouted
  <2>2. worker.fixing <= worker.cur /\ rounds <= worker.fixing + 1 /\ worker.fixing < worker.cur
    BY <1>a, <2>1
  <2>3. \A b \in Owners : checks[b] <= rounds + 1 /\ gateDir[b] <= rounds + 1
    BY <1>a
  <2>4. rounds' <= worker'.fixing + 1 /\ worker'.check <= rounds' /\ worker'.fixing <= worker'.cur
    BY <1>a, <2>1, <2>2
  <2> QED
    BY <2>1, <2>3, <2>4
<1>9. CASE UNCHANGED graphVars
  BY <1>9 DEF graphVars
<1> QED
  BY <1>1, <1>2, <1>3, <1>4, <1>5, <1>6, <1>7, <1>8, <1>9 DEF GraphNext, BuilderStarts, CheckerNodeStarts, Everyone

(* So the rounds keep their types. *)
LEMMA GraphIsTyped == RoundsInv /\ RoundsCounted => GraphTypeOK
<1> SUFFICES ASSUME GraphTyped, RoundsCounted
             PROVE  GraphTypeOK
  BY DEF RoundsInv
<1>1. rounds \in 1..(1 + NOwners)
  BY RoleGraphAssumption DEF GraphTyped, RoundsCounted, Owners
<1>2. checks \in [Owners -> 0..rounds] /\ gateDir \in [Owners -> 0..rounds]
  BY DEF GraphTyped, RoundsCounted
<1> QED
  BY <1>1, <1>2 DEF GraphTyped, GraphTypeOK, InRound

-----------------------------------------------------------------------------
(* The earlier runs are records, and a target is one of them. *)
EarlierRuns == [passed : BOOLEAN, authored : BOOLEAN, kept : BOOLEAN]
WorkTyped == before \in Seq(EarlierRuns) /\ judged.target \in 0..Len(before)

(* Pruning the evidence directories leaves as many runs (reviewer.py). *)
LEMMA PrunedDirsTyped ==
    ASSUME NEW runs \in Seq(EarlierRuns)
    PROVE  PrunedDirs(runs) \in Seq(EarlierRuns) /\ Len(PrunedDirs(runs)) = Len(runs)
<1> DEFINE few(n) == Cardinality({m \in n..Len(runs) : runs[m].kept}) <= KeptDirs
           out == [n \in DOMAIN runs |-> [runs[n] EXCEPT !.kept = @ /\ few(n)]]
<1>1. \A n \in DOMAIN runs : few(n) \in BOOLEAN
  OBVIOUS
<1>2. out = PrunedDirs(runs)
  BY DEF PrunedDirs
<1> HIDE DEF few
<1>3. ASSUME NEW n \in DOMAIN runs
      PROVE  out[n] \in EarlierRuns
  <2>1. runs[n] \in EarlierRuns
    OBVIOUS
  <2> DEFINE still == runs[n].kept /\ few(n)
  <2>2. still \in BOOLEAN
    OBVIOUS
  <2>3. out[n] = [runs[n] EXCEPT !.kept = still]
    OBVIOUS
  <2> HIDE DEF still, out
  <2> QED
    BY <2>1, <2>2, <2>3 DEF EarlierRuns
<1>4. DOMAIN out = 1..Len(runs) /\ DOMAIN runs = 1..Len(runs) /\ Len(runs) \in Nat
  OBVIOUS
<1> HIDE DEF out
<1>5. out \in Seq(EarlierRuns) /\ Len(out) = Len(runs)
  <2> DEFINE m == Len(runs)
  <2>1. out = [n \in 1..m |-> out[n]] /\ m \in Nat
    BY <1>4 DEF out
  <2>2. out \in [1..m -> EarlierRuns]
    BY <1>3, <1>4, <2>1
  <2> HIDE DEF m
  <2>3. out \in Seq(EarlierRuns) /\ Len(out) = m
    BY <2>1, <2>2
  <2> QED
    BY <2>3 DEF m
<1> QED
  BY <1>2, <1>5

(* What is reviewed is a run there was, or none. *)
LEMMA ReviewTargetTyped ==
    ASSUME before \in Seq(EarlierRuns), NEW asked \in 0..Len(before)
    PROVE  ReviewTarget(asked) \in 0..Len(before)
<1> DEFINE few == {n \in DOMAIN before : before[n].passed /\ Reviewable(n)}
           all == {0} \cup few
<1>1. all \in SUBSET Int /\ all \subseteq 0..Len(before) /\ all # {}
  OBVIOUS
<1>2. IsFiniteSet(all)
  <2>1. IsFiniteSet(0..Len(before))
    BY FS_Interval
  <2> QED
    BY <1>1, <2>1, FS_Subset
<1> HIDE DEF all
<1>3. PICK x \in all : \A y \in all : y <= x
  BY <1>1, <1>2, LargestOf
<1>4. Max(all) \in all
  BY <1>3 DEF Max
<1>5. Max(all) \in 0..Len(before)
  BY <1>1, <1>4
<1> QED
  BY <1>5 DEF ReviewTarget, all
(* Every step of a review keeps its work. *)
LEMMA WorkTypedStep ==
    ASSUME JudgedTyped, WorkTyped, [ReviewNext]_reviewVars
    PROVE  WorkTyped'
<1>0. /\ before \in Seq(EarlierRuns) /\ judged.target \in 0..Len(before) /\ Len(before) \in Nat
      /\ PrunedDirs(before) \in Seq(EarlierRuns) /\ Len(PrunedDirs(before)) = Len(before)
  BY PrunedDirsTyped DEF WorkTyped
<1>a. \A at, target, code, checked, outcome, subject :
        /\ [judged EXCEPT !.at = at].target = judged.target
        /\ [judged EXCEPT !.at = at, !.target = target].target = target
        /\ [judged EXCEPT !.at = at, !.outcome = outcome].target = judged.target
        /\ [judged EXCEPT !.at = at, !.subject = subject].target = judged.target
        /\ [judged EXCEPT !.at = at, !.code = code, !.checked = checked].target = judged.target
  BY DEF JudgedTyped
<1>1. ASSUME NEW passed \in BOOLEAN, NEW authored \in BOOLEAN, RunEnds(passed, authored)
      PROVE  WorkTyped'
  <2> DEFINE new == [passed |-> passed, authored |-> authored, kept |-> TRUE]
             runs == PrunedDirs(before)
  <2>1. before' = Append(runs, new) /\ judged' = judged /\ new \in EarlierRuns
    BY <1>1 DEF RunEnds, EarlierRuns
  <2> HIDE DEF new, runs
  <2>2. runs \in Seq(EarlierRuns) /\ Len(runs) = Len(before)
    BY <1>0 DEF runs
  <2>3. before' \in Seq(EarlierRuns) /\ Len(before') = Len(before) + 1
    BY <2>1, <2>2
  <2> QED
    BY <1>0, <2>1, <2>3 DEF WorkTyped
<1>2. ASSUME NEW asked \in 0..Len(before), ReadOnlyBegins(asked)
      PROVE  WorkTyped'
  <2>1. judged'.target = asked /\ before' = PrunedDirs(before)
    BY <1>a, <1>2 DEF ReadOnlyBegins
  <2> QED
    BY <1>0, <2>1 DEF WorkTyped
<1>3. CASE ExecuteReview
  <2>1. judged'.target = ReviewTarget(judged.target) /\ before' = before
    BY <1>a, <1>3 DEF ExecuteReview
  <2>2. ReviewTarget(judged.target) \in 0..Len(before)
    BY <1>0, ReviewTargetTyped
  <2> QED
    BY <1>0, <2>1, <2>2 DEF WorkTyped
<1>4. CASE NoRunToReview \/ PreFlightPasses \/ PullRequestBegins \/ GateCannotRun \/ GateStarts \/ NoJudge
  <2>1. judged'.target = judged.target /\ before' = before
    <3>1. CASE NoRunToReview
      BY <1>a, <3>1 DEF NoRunToReview
    <3>2. CASE PreFlightPasses
      BY <1>a, <3>2 DEF PreFlightPasses
    <3>3. CASE PullRequestBegins
      BY <1>a, <3>3 DEF PullRequestBegins
    <3>4. CASE GateCannotRun
      BY <1>a, <3>4 DEF GateCannotRun
    <3>5. CASE GateStarts
      BY <1>a, <3>5 DEF GateStarts
    <3>6. CASE NoJudge
      BY <1>a, <3>6 DEF NoJudge
    <3> QED
      BY <1>4, <3>1, <3>2, <3>3, <3>4, <3>5, <3>6
  <2> QED
    BY <1>0, <2>1 DEF WorkTyped
<1>5. ASSUME NEW p, Spawns(p)
      PROVE  WorkTyped'
  BY <1>0, <1>5 DEF Spawns, WorkTyped
<1>6. ASSUME NEW code, GateEnds(code)
      PROVE  WorkTyped'
  <2>1. judged'.target = judged.target /\ before' = before
    BY <1>a, <1>6 DEF GateEnds
  <2> QED
    BY <1>0, <2>1 DEF WorkTyped
<1>7. CASE KillTerm \/ KillAll \/ KillRefused
  <2>1. AfterGate.target = judged.target
    BY <1>a DEF AfterGate
  <2>2. judged'.target = judged.target /\ before' = before
    BY <1>a, <1>7, <2>1 DEF KillTerm, KillAll, KillRefused
  <2> QED
    BY <1>0, <2>2 DEF WorkTyped
<1>8. ASSUME NEW a, ReviewTurn(a)
      PROVE  WorkTyped'
  <2>1. judged'.target = judged.target /\ before' = before
    BY <1>a, <1>8 DEF ReviewTurn
  <2> QED
    BY <1>0, <2>1 DEF WorkTyped
<1>9. CASE FinalizeReadOnly
  <2>1. PICK outcome : judged' = [judged EXCEPT !.at = "over", !.outcome = outcome]
    BY <1>9, Zenon DEF FinalizeReadOnly
  <2>2. judged'.target = judged.target /\ before' = before
    BY <1>a, <1>9, <2>1 DEF FinalizeReadOnly
  <2> QED
    BY <1>0, <2>2 DEF WorkTyped
<1>10. CASE UNCHANGED reviewVars
  BY <1>0, <1>10 DEF reviewVars, WorkTyped
<1> QED
  BY <1>1, <1>2, <1>3, <1>4, <1>5, <1>6, <1>7, <1>8, <1>9, <1>10 DEF ReviewNext

(* So a review keeps its types. *)
LEMMA ReviewIsTyped == JudgementInv /\ WorkTyped => ReviewTypeOK
<1> SUFFICES ASSUME JudgedTyped, WorkTyped
             PROVE  ReviewTypeOK
  BY DEF JudgementInv
<1>1. \A n \in DOMAIN before : before[n] \in EarlierRuns
  BY DEF WorkTyped
<1> QED
  BY <1>1 DEF WorkTyped, JudgedTyped, ReviewTypeOK, EarlierRuns
-----------------------------------------------------------------------------
(* What a turn may call is served or a build, and a run that it starts has a
   checker whenever there is one. *)
HasChecker(runs) == ChatCheckers # {} => \A i \in DOMAIN runs : runs[i] \cap ChatCheckers # {}
ToolsTyped ==
    /\ wiredRoles \subseteq ChatRoles \cup {Coordinator}
    /\ \A t \in ChatTurns : turn[t].tools \subseteq ChatRoles \cup {Build} /\ HasChecker(turn[t].runs)

(* One turn changes at a time. *)
LEMMA OneTurnsTools ==
    ASSUME TurnsHold, ToolsTyped, UNCHANGED wiredRoles, NEW t \in ChatTurns, NEW y, turn' = [turn EXCEPT ![t] = y],
           y.tools = turn[t].tools, HasChecker(y.runs)
    PROVE  ToolsTyped'
<1>1. \A u \in ChatTurns : turn'[u] = IF u = t THEN y ELSE turn[u]
  BY DEF TurnsHold
<1>2. \A u \in ChatTurns : turn'[u].tools = turn[u].tools /\ (HasChecker(turn[u].runs))'
  BY <1>1 DEF ToolsTyped, HasChecker
<1> QED
  BY <1>2 DEF ToolsTyped

(* Every step of a conversation keeps the tools a turn has. *)
LEMMA ToolsTypedStep ==
    ASSUME TurnsHold, ToolsTyped, [ChatNext]_chatVars
    PROVE  ToolsTyped'
<1>1. ASSUME NEW t \in ChatTurns, NEW c \in Conversations, TurnBegins(t, c)
      PROVE  ToolsTyped'
  <2> DEFINE begun == [NoTurn EXCEPT !.at = "streams", !.of = c, !.history = remembered[c],
                                     !.tools = Tools, !.worker = "thinks", !.plain = Streams(c) = {}]
  <2>1. turn' = [u \in ChatTurns |-> IF u = t THEN begun
                   ELSE IF u \in Streams(c) THEN [turn[u] EXCEPT !.plain = FALSE] ELSE turn[u]]
        /\ wiredRoles' = wiredRoles
    BY <1>1 DEF TurnBegins
  <2>2. begun.tools = Tools /\ begun.runs = <<>>
    BY DEF NoTurn
  <2>3. begun.tools \subseteq ChatRoles \cup {Build} /\ HasChecker(begun.runs)
    BY <2>2 DEF Tools, HasChecker
  <2> HIDE DEF begun
  <2>4. ASSUME NEW u \in ChatTurns
        PROVE  LET y == [turn[u] EXCEPT !.plain = FALSE] IN y.tools = turn[u].tools /\ y.runs = turn[u].runs
    BY DEF TurnsHold, TurnHolds, TurnTyped, TurnFields
  <2>5. ASSUME NEW u \in ChatTurns
        PROVE  turn'[u].tools \subseteq ChatRoles \cup {Build} /\ HasChecker(turn'[u].runs)
    BY <2>1, <2>3, <2>4 DEF ToolsTyped
  <2> QED
    BY <2>1, <2>5 DEF ToolsTyped, HasChecker
<1>2. ASSUME NEW t \in ChatTurns, NEW tool, Calls(t, tool)
      PROVE  ToolsTyped'
  <2> DEFINE y == [turn[t] EXCEPT !.worker = "calls", !.tool = tool]
  <2>1. turn' = [turn EXCEPT ![t] = y] /\ UNCHANGED wiredRoles
    BY <1>2 DEF Calls, TurnsHold
  <2>2. y.tools = turn[t].tools /\ y.runs = turn[t].runs
    BY DEF TurnsHold, TurnHolds, TurnTyped, TurnFields
  <2> HIDE DEF y
  <2> QED
    BY <2>1, <2>2, OneTurnsTools DEF ToolsTyped
<1>3. ASSUME NEW t \in ChatTurns, NEW agents \in SUBSET ChatRoles, Kick(t, agents)
      PROVE  ToolsTyped'
  <2> DEFINE y == [turn[t] EXCEPT !.worker = "submitted", !.runs = Append(@, agents)]
  <2>1. turn' = [turn EXCEPT ![t] = y] /\ agents \in Teams(turn[t].tool) /\ UNCHANGED wiredRoles
    BY <1>3 DEF Kick, TurnsHold
  <2>2. y.tools = turn[t].tools /\ y.runs = Append(turn[t].runs, agents)
    BY DEF TurnsHold, TurnHolds, TurnTyped, TurnFields
  <2>3. ChatCheckers # {} => agents \cap ChatCheckers # {}
    BY <2>1 DEF Teams
  <2>4. turn[t].runs \in Seq(SUBSET ChatRoles) /\ HasChecker(turn[t].runs)
    BY DEF TurnsHold, TurnHolds, TurnTyped, ToolsTyped
  <2> HIDE DEF y
  <2>5. HasChecker(y.runs)
    <3> DEFINE runs == turn[t].runs
    <3>1. \A i \in DOMAIN Append(runs, agents) : Append(runs, agents)[i] = agents \/ (i \in DOMAIN runs /\ Append(runs, agents)[i] = runs[i])
      BY <2>4
    <3> QED
      BY <2>2, <2>3, <2>4, <3>1 DEF HasChecker
  <2> QED
    BY <2>1, <2>2, <2>5, OneTurnsTools
<1>4. ASSUME NEW t \in ChatTurns, AfterTool(t) \/ ModelFails(t) \/ WorkerEnds(t) \/ TurnYields(t) \/ BrowserLeaves(t) \/ TurnEnds(t)
      PROVE  ToolsTyped'
  <2>1. /\ UNCHANGED wiredRoles
        /\ \A u \in ChatTurns : turn'[u].tools = turn[u].tools /\ turn'[u].runs = turn[u].runs
    <3>1. DOMAIN turn = ChatTurns /\ DOMAIN turn[t] = TurnFields
      BY DEF TurnsHold, TurnHolds, TurnTyped
    <3> USE <3>1 DEF TurnFields
    <3>2. CASE AfterTool(t)
      BY <3>2 DEF AfterTool
    <3>3. CASE ModelFails(t)
      BY <3>3 DEF ModelFails
    <3>4. CASE WorkerEnds(t)
      BY <3>4 DEF WorkerEnds
    <3>5. CASE TurnYields(t)
      BY <3>5 DEF TurnYields
    <3>6. CASE BrowserLeaves(t)
      BY <3>6 DEF BrowserLeaves
    <3>7. CASE TurnEnds(t)
      BY <3>7 DEF TurnEnds
    <3> QED
      BY <1>4, <3>2, <3>3, <3>4, <3>5, <3>6, <3>7
  <2> QED
    BY <2>1 DEF ToolsTyped, HasChecker
<1>5. ASSUME NEW r \in ChatRoles \cup {Coordinator}, Rewired(r)
      PROVE  ToolsTyped'
  BY <1>5 DEF Rewired, ToolsTyped, HasChecker
<1>6. CASE UNCHANGED chatVars
  BY <1>6 DEF chatVars, ToolsTyped, HasChecker
<1> QED
  BY <1>1, <1>2, <1>3, <1>4, <1>5, <1>6 DEF ChatNext

(* So the conversations keep their types. *)
LEMMA ChatIsTyped == TurnsHold /\ MemoryHolds /\ ToolsTyped => ChatTypeOK
<1> SUFFICES ASSUME TurnsHold, MemoryTyped, ToolsTyped
             PROVE  ChatTypeOK
  BY DEF MemoryHolds
<1>1. ASSUME NEW t \in ChatTurns, NEW i \in DOMAIN turn[t].runs
      PROVE  turn[t].runs[i] \subseteq ChatRoles
  <2>1. turn[t].runs \in Seq(SUBSET ChatRoles)
    BY DEF TurnsHold, TurnHolds, TurnTyped
  <2>2. turn[t].runs[i] \in SUBSET ChatRoles
    BY <2>1
  <2> QED
    BY <2>2
<1> QED
  BY <1>1 DEF ChatTypeOK, MemoryTyped, ToolsTyped, HasChecker, TurnsHold, TurnHolds, TurnTyped

-----------------------------------------------------------------------------
(* A model is asked once for the roles and at most twice for the order. *)
AskedRarely ==
    /\ run.at \in {"none", "submitted", "admitted", "planned", "failed"} /\ calls \in 0..3
    /\ run.at \in {"none", "submitted"} => calls = 0
    /\ request.via = "none" => run.at = "none"
    /\ run.at = "admitted" => calls <= 1
    /\ ToSet(run.agents) \subseteq Registered

(* Nothing is asked of the model before the run is admitted, and then three times at most. *)
LEMMA AskedRarelyStep ==
    ASSUME RoutingHolds, RoutingHolds', AskedRarely, [RoutingNext]_routingVars
    PROVE  AskedRarely'
<1>0. DOMAIN run = RunFields /\ DOMAIN run' = RunFields /\ ToSet(<<>>) = {}
  BY DEF RoutingHolds, ToSet
<1> USE DEF AskedRarely
<1>1. ASSUME NEW role, ChatDispatches(role)
      PROVE  AskedRarely'
  BY <1>0, <1>1 DEF ChatDispatches, NoRun, NoRequest
<1>2. ASSUME NEW task, NEW preset, NEW roles, ConsoleSubmits(task, preset, roles)
      PROVE  AskedRarely'
  BY <1>0, <1>2 DEF ConsoleSubmits, NoRun, NoRequest
<1>3. ASSUME NEW answer, Admission(answer)
      PROVE  AskedRarely'
  <2>1. /\ run.at = "submitted" /\ request' = request /\ calls' \in {calls, calls + 1}
        /\ run'.at \in {"admitted", "failed"} /\ (run'.at = "failed" => run'.agents = <<>>)
    BY <1>0, <1>3 DEF Admission, RunFields
  <2>2. run'.at = "admitted" => ToSet(run'.agents) \subseteq Registered
    <3>1. run'.at = "admitted" => CanBeProved(run.agents, run.readOnly)' /\ (roster \in Seq(Registered))'
      BY DEF RoutingHolds
    <3>2. (roster \in Seq(Registered))' => Served' \subseteq Registered
      BY DEF Served, ToSet
    <3> QED
      BY <3>1, <3>2 DEF CanBeProved
  <2> QED
    BY <1>0, <2>1, <2>2
<1>4. ASSUME NEW first, NEW second, Plan(first, second)
      PROVE  AskedRarely'
  <2>1. /\ run.at = "admitted" /\ request' = request /\ calls' \in {calls + 1, calls + 2}
        /\ run'.at \in {"planned", "failed"} /\ run'.agents = run.agents
    BY <1>0, <1>4 DEF Plan, RunFields
  <2> QED
    BY <2>1
<1>5. CASE PlanFails
  <2>1. /\ run.at = "admitted" /\ request' = request /\ calls' = calls
        /\ run'.at = "failed" /\ run'.agents = run.agents
    BY <1>0, <1>5 DEF PlanFails, RunFields
  <2> QED
    BY <2>1
<1>6. CASE UNCHANGED routingVars
  BY <1>6 DEF routingVars
<1> QED
  BY <1>1, <1>2, <1>3, <1>4, <1>5, <1>6 DEF RoutingNext

(* So the routing keeps its types. *)
LEMMA RoutingIsTyped == RoutingHolds /\ AskedRarely => RoutingTypeOK
<1>1. roster \in Seq(Registered) => Served \subseteq Registered
  BY DEF Served, ToSet
<1> QED
  BY <1>1 DEF RoutingHolds, AskedRarely, RoutingTypeOK

-----------------------------------------------------------------------------
(* All the parts together *)

(* A step of one of the two connections leaves the other one alone. *)
LEMMA GitHubAlone == GitHubNext => UNCHANGED kiro
BY DEF GitHubNext, Turns, DoctorLists, DoctorReads, DoctorCreates, DoctorResets

LEMMA KiroAlone == KiroNext => UNCHANGED github
BY DEF KiroNext, KeyBegins, KeyVault, KeyNote, KeyCut

(* A part takes a step of its own or none. *)
PartsStep ==
    /\ [FleetNext]_fleetVars /\ [GitHubNext]_github /\ [KiroNext]_kiro
    /\ [TerminalsNext]_terminalVars /\ [RtNext]_rtVars /\ [FilesNext]_filesVars
    /\ [ShelfNext]_shelfVars /\ [ChatNext]_chatVars /\ [HistoryNext]_historyVars /\ [RoutingNext]_routingVars
    /\ [GraphNext]_graphVars /\ [ReviewNext]_reviewVars
    /\ [MetricsNext]_metricsVars /\ [WorkTreeNext]_workTreeVars

LEMMA EachPartSteps == [Next]_<<part, Rest>> => PartsStep
<1> SUFFICES ASSUME [Next]_<<part, Rest>>
             PROVE  PartsStep
  OBVIOUS
<1>1. CASE ConnectionSteps
  <2>1. [GitHubNext]_github /\ [KiroNext]_kiro
    BY <1>1, GitHubAlone, KiroAlone DEF ConnectionSteps
  <2> QED
    BY <1>1, <2>1 DEF ConnectionSteps, PartsStep
<1>2. UNCHANGED connectionVars => UNCHANGED github /\ UNCHANGED kiro
  BY DEF connectionVars
<1>3. CASE FleetSteps
  BY <1>2, <1>3 DEF FleetSteps, PartsStep
<1>4. CASE TerminalSteps
  BY <1>2, <1>4 DEF TerminalSteps, PartsStep
<1>5. CASE RuntimeSteps
  BY <1>2, <1>5 DEF RuntimeSteps, PartsStep
<1>6. CASE FileSteps
  BY <1>2, <1>6 DEF FileSteps, PartsStep
<1>7. CASE ShelfSteps
  BY <1>2, <1>7 DEF ShelfSteps, PartsStep
<1>8. CASE ChatSteps
  BY <1>2, <1>8 DEF ChatSteps, PartsStep
<1>9. CASE HistorySteps
  BY <1>2, <1>9 DEF HistorySteps, PartsStep
<1>10. CASE RoutingSteps
  BY <1>2, <1>10 DEF RoutingSteps, PartsStep
<1>11. CASE RoundSteps
  BY <1>2, <1>11 DEF RoundSteps, PartsStep
<1>12. CASE ReviewSteps
  BY <1>2, <1>12 DEF ReviewSteps, PartsStep
<1>13. CASE MetricsSteps
  BY <1>2, <1>13 DEF MetricsSteps, PartsStep
<1>14. CASE TreeSteps
  BY <1>2, <1>14 DEF TreeSteps, PartsStep
<1>15. CASE UNCHANGED <<part, Rest>>
  BY <1>2, <1>15 DEF Rest, PartsStep
<1> QED
  BY <1>1, <1>3, <1>4, <1>5, <1>6, <1>7, <1>8, <1>9, <1>10, <1>11, <1>12, <1>13, <1>14, <1>15
  DEF Next

(* The inductive invariant: each part's own. *)
ConnectionsHold ==
    GitHubTyped /\ DoctorsSaw /\ KiroTyped /\ OneSaver /\ KeyIsThere /\ ConnectedHasKey
RtHolds == ShellsTyped /\ ShellsListed /\ ViewersTyped /\ StreamsFollow
TypesHold ==
    /\ SettingsTyped /\ DoctorsProbe /\ KeysTyped /\ FoldersTyped /\ AttemptsAreFew /\ KeyedAndLive
    /\ ShelfTypeOK /\ ToolsTyped /\ AskedRarely /\ RoundsCounted /\ WorkTyped /\ StationsTyped
LedgerHolds == ReadersHold /\ StopsHold /\ stopped \subseteq LedgerRuns
PartsHold ==
    /\ ScriptsHold /\ EditsHold /\ SpreadsEvenly /\ ConnectionsHold /\ ShellsMatch /\ ScreensHold /\ RtHolds
    /\ TurnsHold /\ MemoryHolds /\ HistoryHolds /\ RoutingHolds
    /\ LedgerHolds /\ sample \in Samples /\ JudgementInv /\ RoundsInv /\ TreesInv
    /\ FilesTypeOK /\ TypesHold

(* All of it holds at first. *)
LEMMA SettingsStart == FleetInit => SettingsTyped
<1> SUFFICES ASSUME FleetInit PROVE SettingsTyped
  OBVIOUS
<1>1. iam = {} /\ edits = 0 /\ muddled = FALSE /\ described = {} /\ edit = [e \in Editors |-> NoEdit]
  BY DEF FleetInit
<1>2. edits \in 0..MaxEdits
  <2>1. MaxEdits \in Nat
    BY FleetAssumption
  <2>2. edits = 0
    BY <1>1
  <2> QED
    BY <2>1, <2>2
<1>3. muddled \in BOOLEAN
  BY <1>1, Zenon
<1>4. \A e \in Editors : edit[e].descs \subseteq Arns
  <2>1. edit = [e \in Editors |-> NoEdit] /\ NoEdit.descs = {}
    BY <1>1 DEF NoEdit
  <2> QED
    BY <2>1
<1>5. iam \subseteq Harnessed /\ described \subseteq Arns
  BY <1>1, Zenon
<1> QED
  BY <1>2, <1>3, <1>4, <1>5, Zenon DEF SettingsTyped

LEMMA DoctorsAndKeysStart == ConnectionsInit => DoctorsProbe /\ KeysTyped
<1> SUFFICES ASSUME ConnectionsInit PROVE DoctorsProbe /\ KeysTyped
  OBVIOUS
<1>1. /\ probed = {} /\ turned = 0 /\ doctor = [d \in Doctors |-> Well]
      /\ vault = NoKey /\ note = NoKey /\ saves = 0 /\ blurred = FALSE
  BY DEF ConnectionsInit
<1>2. turned \in 0..MaxTurns /\ saves \in 0..MaxSaves
  <2>1. MaxTurns \in Nat /\ MaxSaves \in Nat
    BY ConnectionsAssumption
  <2>2. turned = 0 /\ saves = 0
    BY <1>1
  <2> QED
    BY <2>1, <2>2
<1>3. \A d \in Doctors : doctor[d].step = "none"
  <2>1. doctor = [d \in Doctors |-> Well] /\ Well.step = "none"
    BY <1>1 DEF Well
  <2> QED
    BY <2>1
<1>4. probed \subseteq Repos /\ vault = NoKey /\ note = NoKey /\ blurred \in BOOLEAN
  BY <1>1, Zenon
<1>5. \A d \in Doctors : doctor[d].step \in {"listed", "read", "created"} => doctor[d].repo \in Repos
  BY <1>3
<1>6. DoctorsProbe
  BY <1>2, <1>4, <1>5, Zenon DEF DoctorsProbe
<1>7. KeysTyped
  BY <1>2, <1>4, Zenon DEF KeysTyped
<1> QED
  BY <1>6, <1>7

LEMMA FoldersStart == TerminalsInit => FoldersTyped
<1> SUFFICES ASSUME TerminalsInit PROVE FoldersTyped
  OBVIOUS
<1>1. session = [s \in Sessions |-> NoSession] /\ dirs = DevFolders /\ made = <<>> /\ shell = <<>>
  BY DEF TerminalsInit
<1>2. NoSession.status = "none"
  BY DEF NoSession
<1> QED
  BY <1>1, <1>2 DEF FoldersTyped, ShellsBounded, RolesAtHome, RoleFolders, Opened, Sessions

LEMMA AttemptsStart == RtInit => AttemptsAreFew
<1>1. NoRt.attempts = 0 /\ MaxAttempts \in Nat
  BY RuntimeShellsAssumption DEF NoRt
<1> QED
  BY <1>1 DEF RtInit, AttemptsAreFew

LEMMA ToolsStart == ChatInit => ToolsTyped
<1>1. NoTurn.tools = {} /\ NoTurn.runs = <<>>
  BY DEF NoTurn
<1> QED
  BY <1>1 DEF ChatInit, ToolsTyped, HasChecker

LEMMA TypesStart == Init => TypesHold
<1> SUFFICES ASSUME Init
             PROVE  TypesHold
  OBVIOUS
<1>1. SettingsTyped /\ DoctorsProbe /\ KeysTyped /\ FoldersTyped /\ AttemptsAreFew /\ ToolsTyped /\ ShelfTypeOK
  BY SettingsStart, DoctorsAndKeysStart, FoldersStart, AttemptsStart, ToolsStart, ShelfStarts DEF Init
<1>2. MetricsInit /\ RoutingInit /\ GraphInit /\ ReviewInit /\ WorkTreeInit
  BY DEF Init
<1>3. KeyedAndLive
  <2>1. ledger = <<>> /\ cached = [sig |-> -1, rows |-> 0] /\ live = {} /\ mixed = FALSE
    BY <1>2 DEF MetricsInit
  <2>2. cached.sig = -1 /\ Len(ledger) = 0
    BY <2>1
  <2>3. cached.sig >= -1 /\ cached.sig <= 2 * Len(ledger) + 1
    BY <2>2
  <2>4. live \subseteq LedgerRuns \X (1..MaxSessions) /\ mixed \in BOOLEAN
    BY <2>1, Zenon
  <2> QED
    BY <2>3, <2>4, Zenon DEF KeyedAndLive
<1>4. AskedRarely
  <2>1. run.at = "none" /\ run.agents = <<>> /\ calls = 0
    BY <1>2 DEF RoutingInit, NoRun
  <2>2. ToSet(run.agents) \subseteq Registered
    BY <2>1 DEF ToSet
  <2>3. calls \in 0..3
    BY <2>1
  <2>4. run.at # "admitted" /\ run.at \in {"none", "submitted", "admitted", "planned", "failed"}
    BY <2>1
  <2> QED
    BY <2>1, <2>2, <2>3, <2>4, Zenon DEF AskedRarely
<1>5. RoundsCounted
  <2>1. /\ worker = [at |-> "graph", cur |-> 1, fixing |-> 0, check |-> 0] /\ rounds = 1
        /\ checks = [b \in Owners |-> 0] /\ gateDir = [b \in Owners |-> 0]
    BY <1>2 DEF GraphInit
  <2> QED
    BY <2>1 DEF RoundsCounted
<1>6. WorkTyped
  <2>1. before = <<>> /\ judged.target = 0
    BY <1>2 DEF ReviewInit, NotJudged
  <2> QED
    BY <2>1 DEF WorkTyped
<1>7. StationsTyped
  <2>1. changes = {} /\ step = "preparing" /\ round = 1 /\ MaxRounds \in Nat \ {0}
    BY <1>2, WorkTreeAssumption DEF WorkTreeInit
  <2> QED
    BY <2>1 DEF StationsTyped
<1> QED
  BY <1>1, <1>3, <1>4, <1>5, <1>6, <1>7 DEF TypesHold

LEMMA PartsStart == Init => PartsHold
<1> SUFFICES ASSUME Init
             PROVE  PartsHold
  OBVIOUS
<1>1. /\ FleetInit /\ ConnectionsInit /\ TerminalsInit /\ RtInit /\ ChatInit
      /\ HistoryInit /\ RoutingInit /\ MetricsInit /\ ReviewInit /\ GraphInit /\ WorkTreeInit
  BY DEF Init
<1>2. sample \in Samples
  BY <1>1 DEF MetricsInit
<1>3. SpreadsEvenly /\ MemoryHolds /\ HistoryHolds /\ RoutingHolds
  BY <1>1, SpreadStart, MemoryStart, HistoryStart, RoutingStart
<1>4. FilesTypeOK /\ TypesHold
  BY FilesStart, TypesStart DEF Init, FilesTypeOK
<1> QED
  BY <1>1, <1>2, <1>3, <1>4, FleetStart, ConnectionsStart, TerminalsStart, ScreensStart, ShellsStart, ChatStart, MetricsStart,
     JudgementInit, RoundsInit, TreesInit
  DEF PartsHold, ConnectionsHold, RtHolds, LedgerHolds

LEMMA PartsGoOn == PartsHold /\ [Next]_<<part, Rest>> => PartsHold'
<1> SUFFICES ASSUME PartsHold, PartsStep
             PROVE  PartsHold'
  BY EachPartSteps
<1>1. (ScriptsHold /\ EditsHold)'
  BY ScriptsHoldStep, EditsHoldStep DEF PartsHold, PartsStep
<1>2. ConnectionsHold'
  <2>1. ConnectionsHold /\ [GitHubNext]_github /\ [KiroNext]_kiro
    BY DEF PartsHold, PartsStep
  <2>2. (GitHubTyped /\ DoctorsSaw)'
    BY <2>1, GitHubTypedStep, DoctorsSawStep DEF ConnectionsHold
  <2>3. (KiroTyped /\ OneSaver)'
    BY <2>1, KiroTypedStep, OneSaverStep DEF ConnectionsHold
  <2>4. (KeyIsThere /\ ConnectedHasKey)'
    BY <2>1, KeyStep DEF ConnectionsHold
  <2> QED
    BY <2>2, <2>3, <2>4 DEF ConnectionsHold
<1>3. ShellsMatch' /\ ScreensHold'
  BY ShellsMatchStep, ScreensHoldStep DEF PartsHold, PartsStep
<1>4. RtHolds'
  <2>1. RtHolds /\ [RtNext]_rtVars
    BY DEF PartsHold, PartsStep
  <2>2. (ShellsTyped /\ ShellsListed)'
    BY <2>1, ShellsTypedStep, ListedStep DEF RtHolds
  <2>3. ViewersTyped' /\ StreamsFollow'
    BY <2>1, StreamsFollowStep DEF RtHolds
  <2> QED
    BY <2>2, <2>3 DEF RtHolds
<1>5. TurnsHold'
  BY TurnsHoldStep DEF PartsHold, PartsStep
<1>6. LedgerHolds'
  <2>1. LedgerHolds /\ [MetricsNext]_metricsVars
    BY DEF PartsHold, PartsStep
  <2>2. LedgerTyped
    BY <2>1 DEF LedgerHolds, ReadersHold
  <2>3. ReadersHold'
    BY <2>1, ReadersHoldStep DEF LedgerHolds
  <2>4. StopsHold' /\ (stopped \subseteq LedgerRuns)'
    BY <2>1, <2>2, StopsHoldStep DEF LedgerHolds
  <2> QED
    BY <2>3, <2>4 DEF LedgerHolds
<1>7. JudgementInv'
  BY JudgementStep DEF PartsHold, PartsStep
<1>8. RoundsInv'
  BY RoundsStep DEF PartsHold, PartsStep
<1>9. TreesInv'
  BY TreesStep DEF PartsHold, PartsStep
<1>10. SpreadsEvenly'
  <2>1. EditsAreRecords
    BY DEF PartsHold, EditsHold
  <2> QED
    BY <2>1, SpreadsEvenlyStep DEF PartsHold, PartsStep
<1>11. MemoryHolds'
  BY MemoryHoldsStep DEF PartsHold, PartsStep
<1>12. HistoryHolds' /\ RoutingHolds'
  BY HistoryHoldsStep, RoutingHoldsStep DEF PartsHold, PartsStep
<1>13. (sample \in Samples)'
  BY SampleStays DEF PartsHold, PartsStep
<1>14. FilesTypeOK'
  BY FilesStay DEF PartsHold, PartsStep
<1>15. TypesHold'
  <2>1. TypesHold /\ EditsAreRecords /\ WiringTyped /\ ScriptsTyped
    BY DEF PartsHold, ScriptsHold, EditsHold, SpreadsEvenly
  <2>2. SettingsTyped'
    BY <2>1, SettingsTypedStep DEF TypesHold, PartsStep
  <2>3. DoctorsProbe' /\ KeysTyped'
    BY <2>1, DoctorsProbeStep, KeysTypedStep DEF TypesHold, PartsStep, PartsHold, ConnectionsHold
  <2>4. FoldersTyped'
    BY <2>1, FoldersTypedStep DEF TypesHold, PartsStep, PartsHold
  <2>5. AttemptsAreFew' /\ ShelfTypeOK'
    BY <2>1, AttemptsStayFew, ShelfTypedStep DEF TypesHold, PartsStep, PartsHold, RtHolds
  <2>6. KeyedAndLive'
    BY <2>1, KeyedAndLiveStep DEF TypesHold, PartsStep, PartsHold, LedgerHolds, ReadersHold
  <2>7. ToolsTyped'
    BY <2>1, ToolsTypedStep DEF TypesHold, PartsStep, PartsHold
  <2>8. AskedRarely'
    BY <1>12, <2>1, AskedRarelyStep DEF TypesHold, PartsStep, PartsHold
  <2>9. RoundsCounted'
    BY <1>8, <2>1, RoundsCountedStep DEF TypesHold, PartsStep, PartsHold
  <2>10. WorkTyped'
    BY <2>1, WorkTypedStep DEF TypesHold, PartsStep, PartsHold, JudgementInv
  <2>11. StationsTyped'
    BY <2>1, StationsTypedStep DEF TypesHold, PartsStep
  <2> QED
    BY <2>2, <2>3, <2>4, <2>5, <2>6, <2>7, <2>8, <2>9, <2>10, <2>11 DEF TypesHold
<1> QED
  BY <1>1, <1>2, <1>3, <1>4, <1>5, <1>6, <1>7, <1>8, <1>9, <1>10, <1>11, <1>12, <1>13, <1>14, <1>15 DEF PartsHold

(* The invariants of the parts give their types. *)
LEMMA TypesSuffice ==
    ASSUME PartsHold
    PROVE  TypeOK
<1>1. FleetTypeOK
  BY FleetIsTyped DEF PartsHold, TypesHold, ScriptsHold, EditsHold
<1>2. ConnectionsTypeOK
  BY ConnectionsAreTyped DEF PartsHold, TypesHold, ConnectionsHold
<1>3. TerminalsTypeOK
  BY TerminalsAreTyped DEF PartsHold, TypesHold
<1>4. RtTypeOK
  BY RtIsTyped DEF PartsHold, TypesHold, RtHolds
<1>5. FilesTypeOK /\ ShelfTypeOK
  BY DEF PartsHold, TypesHold
<1>6. ChatTypeOK
  BY ChatIsTyped DEF PartsHold, TypesHold
<1>7. HistoryTypeOK
  BY HistoryIsTyped DEF PartsHold
<1>8. RoutingTypeOK
  BY RoutingIsTyped DEF PartsHold, TypesHold
<1>9. GraphTypeOK
  BY GraphIsTyped DEF PartsHold, TypesHold
<1>10. ReviewTypeOK
  BY ReviewIsTyped DEF PartsHold, TypesHold
<1>11. MetricsTypeOK
  BY MetricsAreTyped DEF PartsHold, TypesHold, LedgerHolds, ReadersHold
<1>12. WorkTreeTypeOK
  BY WorkTreeIsTyped DEF PartsHold, TypesHold, TreesInv
<1> QED
  BY <1>1, <1>2, <1>3, <1>4, <1>5, <1>6, <1>7, <1>8, <1>9, <1>10, <1>11, <1>12 DEF TypeOK

(* Each part keeps its invariant, whatever the others do. *)
THEOREM PartsKeep == Spec => []PartsHold
<1>1. Init => PartsHold
  BY PartsStart
<1>2. PartsHold /\ [Next]_<<part, Rest>> => PartsHold'
  BY PartsGoOn
<1> QED
  BY <1>1, <1>2, PTL DEF Spec

(* For any fleet, sessions, runs and bounds: every variable of every part keeps its
   type, and what is counted its bound. *)
THEOREM PartsAreTyped == Spec => []TypeOK
<1>1. PartsHold => TypeOK
  BY TypesSuffice
<1> QED
  BY <1>1, PartsKeep, PTL

(* For any fleet, any number of deploys, clean-ups and interruptions, and any
   editors: a deploy that ended well leaves a record of the runtime that exists,
   edits that neither overlapped nor were cut short leave what they ask for, and
   the shelf shows what was deployed last (deploy.py of the agents,
   runtime_config.py, interactive_api.py). *)
THEOREM DeploymentsStayServed == Spec => []DeploymentsAreServed
<1>1. PartsHold => DeployedIsLive
  BY DEF PartsHold, ScriptsHold, ScriptsTyped, ScriptHolds, DeployedIsLive
<1>2. PartsHold => WiringIsKept /\ ShelfFollowsDeploys
  BY ShelfShows DEF PartsHold, EditsHold
<1>3. PartsHold => DeploymentsAreServed
  BY <1>1, <1>2 DEF DeploymentsAreServed
<1> QED
  BY <1>3, PartsKeep, PTL

(* For any number of doctors, repositories, savers and keys: the doctor's verdict
   is right both ways while nothing changes, and a role shown as connected has its
   key (github.py, kiro_config.py). *)
THEOREM ConnectionsStayReal == Spec => []ConnectionsAreReal
<1>1. PartsHold => ConnectionsAreReal
  BY VerdictsHold DEF PartsHold, ConnectionsHold, ConnectionsAreReal
<1> QED
  BY <1>1, PartsKeep, PTL

(* For any sessions and checks: no shell outlives its session or its folder, no
   service the gate it was started for (interactive_api.py, reviewer.py). *)
THEOREM ProcessesEnd == Spec => []NoProcessOutlives
<1>1. PartsHold => ShellMatchesSession
  BY DEF PartsHold, ShellsMatch
<1>2. PartsHold => NoServiceOutlives
  BY DEF PartsHold, JudgementInv
<1>3. PartsHold => NoProcessOutlives
  BY <1>1, <1>2 DEF NoProcessOutlives
<1> QED
  BY <1>3, PartsKeep, PTL

(* For any sessions, shells and viewers: after each look at the buffer a viewer of
   one shell has been shown all that was read from it, once and in order, as long
   as that fits the buffer (interactive_api.py). *)
THEOREM FollowersSeeAll == Spec => FollowerShowsAll
<1>1. PartsHold /\ [Next]_<<part, Rest>> =>
         [\A v \in Viewers :
            LET g == stream[v].first IN
            Steady(v) /\ shell[g].read <= Cap /\ stream'[v].at = "polls" /\ stream[v].at = "reads"
              => stream'[v].shown = [i \in 1..shell[g].read |-> <<g, i>>]]_terminalVars
  <2> SUFFICES ASSUME PartsHold, PartsStep, ~UNCHANGED terminalVars, NEW v \in Viewers, Steady(v),
                      shell[stream[v].first].read <= Cap, stream'[v].at = "polls", stream[v].at = "reads"
               PROVE  LET g == stream[v].first IN
                      stream'[v].shown = [i \in 1..shell[g].read |-> <<g, i>>]
    BY EachPartSteps
  <2>1. ShellsMatch /\ ScreensHold /\ TerminalsNext
    BY DEF PartsHold, PartsStep
  <2> QED
    BY <2>1, LookShowsAll
<1> QED
  BY <1>1, PartsKeep, PTL DEF Spec, FollowerShowsAll

(* For any number of viewers and outputs: a stream shows every output in order and
   once, but for those between its look at the buffer and its subscription
   (runtime_shell.py). *)
THEOREM StreamsHaveOneGap == Spec => []StreamHasOneGap
<1>1. PartsHold => StreamHasOneGap
  BY OnlyTheGap DEF PartsHold, RtHolds
<1> QED
  BY <1>1, PartsKeep, PTL

(* For any number of conversations, turns, builders and trees: a run a turn starts
   is announced, a round succeeds only when each of its turns did, and a pull
   request has what its role did (chat.py, engine.py). *)
THEOREM RunsStaySound == Spec => []RunsAreSound
<1>1. PartsHold => RunsAreSound
  BY ToldAtTheEnd, RoundsSuffice, TreesSuffice DEF PartsHold, RunsAreSound
<1> QED
  BY <1>1, PartsKeep, PTL

(* For any requests, runs and sessions: an answer is computed from every row that
   was complete when it looked, unless two threads used the halves of the cache at
   once, and a run is marked as stopped only when its session is gone
   (metrics_lib.py). *)
THEOREM MetricsStayReal == Spec => []MetricsAreReal
<1>1. PartsHold => MetricsAreReal
  BY CurrentAndStopped DEF PartsHold, LedgerHolds, MetricsAreReal
<1> QED
  BY <1>1, PartsKeep, PTL

(* For any roles, presets and answers of the model, any fleet, any number of boxes
   and runs, and any latencies: a run that is admitted can be done and proved and
   its items come in the planned order, dispatches are spread evenly over a role's
   runtimes, a kept run is found, an exchange is remembered, and the p95 is the
   least latency that 95 of 100 do not exceed (presets.py, integration_plan.py,
   runtime_config.py, run_store.py, connection_api.py, metrics_lib.py). *)
THEOREM ListsStayRight == Spec => []ListsAreRight
<1>1. PartsHold => sample \in Seq(Int)
  BY MetricsAssumption DEF PartsHold
<1>2. PartsHold => ListsAreRight
  BY <1>1, RoutedRunsAreProvable, SpreadIsBalanced, KeptRunsAreFound, LatestAreKept, LatencyIsPlaced
  DEF PartsHold, ListsAreRight
<1> QED
  BY <1>2, PartsKeep, PTL

(* For any names, any depth and any tree the explorer and the terminal make of them:
   a path that the explorer or a search shows leads back to the file it was shown for,
   whatever the folder's label and its real path are, when neither is in the names
   below the folder (interactive_api.py). *)
THEOREM ShownPathsStayTrue == Spec => []ShownPathsLeadBack
<1>1. PartsHold => ShownPathsLeadBack
  BY ShownLeadBack DEF PartsHold
<1> QED
  BY <1>1, PartsKeep, PTL
=============================================================================
