-------------------------------- MODULE Fleet --------------------------------
(***************************************************************************)
(* How a role gets the runtimes it is dispatched to: deploy.py and         *)
(* cleanup.py of its harness (coding-agents/claude-code) create and remove *)
(* the one the harness declares, the Settings pane edits the file of wired *)
(* ARNs (orchestrator/runtime_config.py), and the engine's worker threads  *)
(* pick from what is wired.                                                *)
(*                                                                         *)
(* The scripts are programs of their own that may be stopped between any   *)
(* two calls to AWS and started again.  The settings file is read, changed *)
(* in memory and written back whole, from the threads of the console's     *)
(* server and without a lock; opening it for writing empties it, and a     *)
(* reader takes an empty file for one that wires nothing.                  *)
(***************************************************************************)
EXTENDS Integers, Sequences, FiniteSets, SequencesExt, Lists

CONSTANTS
    Roles,       \* the roles served
    Harnessed,   \* those of them whose harness the scripts deploy here
    Pasted,      \* ARNs an attendee may wire by hand
    Env,         \* the ARNs of AGENTCORE_RUNTIME_<ROLE>, <<>> when it is not set
    Editors,     \* requests that may edit the settings at the same time
    Dispatchers, \* worker threads
    MaxDeploys,  \* bound on the runtimes ever created
    MaxEdits,    \* bound on the edits of the settings
    AwsFails     \* TRUE: a call to AWS may fail and a script may be stopped

ASSUME FleetAssumption ==
    /\ Harnessed \subseteq Roles
    /\ Env \in [Roles -> Seq(Pasted)]
    /\ {MaxDeploys, MaxEdits} \subseteq Nat
    /\ AwsFails \in BOOLEAN

(* A runtime the scripts create is known by its number. *)
Arns == Pasted \cup 1..MaxDeploys
NoRuntime == 0

VARIABLES
    \* AWS and the harness directories
    runtime,    \* the runtime that bears the harness's name
    iam,        \* harnesses whose execution role exists
    created,    \* runtimes created so far
    record,     \* runtime_id of coding-agents/<role>/runtime_config.json
    script,     \* the script that runs for the harness, and its step
    id,         \* the runtime it works on
    \* the settings file
    wired,      \* its runtimes
    described,  \* its descriptions, by ARN
    edit,       \* what each request is doing to it
    edits,      \* edits begun
    \* dispatch
    cursor,     \* _RR_CURSOR
    hits,       \* instances(role) as the thread read it, <<>> between picks
    \* history
    complete,   \* harnesses whose last script was a deploy that ended well
    due,        \* the wiring and descriptions the edits ask for, one after another
    muddled,    \* edits overlapped, or one was cut short
    turns       \* dispatches to each instance since the role's fleet changed,
                \* less those all of them have had

deployment == <<runtime, iam, created, record, script, id, complete>>
wiring == <<wired, described, edit, edits, due, muddled>>
dispatch == <<cursor, hits, turns>>
fleetVars == <<deployment, wiring, dispatch>>

ScriptSteps == {"none", "roleReady", "waiting", "recording", "dumping",
          "deleting", "deletingRole", "forgetting"}
NoEdit == [step |-> "none", op |-> "", role |-> "", arn |-> NoRuntime,
           runtimes |-> [r \in Roles |-> <<>>], descs |-> {}]

FleetTypeOK ==
    /\ runtime \in [Harnessed -> 0..MaxDeploys] /\ iam \subseteq Harnessed
    /\ created \in 0..MaxDeploys
    /\ record \in [Harnessed -> 0..MaxDeploys]
    /\ script \in [Harnessed -> ScriptSteps] /\ id \in [Harnessed -> 0..MaxDeploys]
    /\ wired \in [Roles -> Seq(Arns)] /\ (\A r \in Roles : IsInjective(wired[r]))
    /\ described \subseteq Arns
    /\ \A e \in Editors : edit[e].step \in {"none", "read", "open"}
    /\ edits \in 0..MaxEdits
    /\ cursor \in [Roles -> Nat]
    /\ \A d \in Dispatchers : \A k \in DOMAIN hits[d].arns : hits[d].arns[k] \in Arns
    /\ complete \subseteq Harnessed /\ muddled \in BOOLEAN

FleetInit ==
    /\ runtime = [r \in Harnessed |-> NoRuntime] /\ iam = {} /\ created = 0
    /\ record = [r \in Harnessed |-> NoRuntime]
    /\ script = [r \in Harnessed |-> "none"] /\ id = [r \in Harnessed |-> NoRuntime]
    /\ wired = [r \in Roles |-> <<>>] /\ described = {}
    /\ edit = [e \in Editors |-> NoEdit] /\ edits = 0
    /\ cursor = [r \in Roles |-> 0]
    /\ hits = [d \in Dispatchers |-> [role |-> "", arns |-> <<>>]]
    /\ complete = {}
    /\ due = [runtimes |-> wired, descs |-> {}] /\ muddled = FALSE
    /\ turns = [r \in Roles |-> [a \in Arns |-> 0]]
-----------------------------------------------------------------------------
(* The ladder of sources *)

(* Mutant: a record is taken for a runtime whatever it says. *)
DiscoveredAny(r) == IF r \in Harnessed THEN <<record[r]>> ELSE <<>>

Discovered(r) ==
    IF r \in Harnessed /\ record[r] # NoRuntime THEN <<record[r]>> ELSE <<>>

(* instances: the environment replaces the settings, which replace the
   harness's own record; sources are never merged. *)
Instances(r) ==
    IF Env[r] # <<>> THEN Env[r]
    ELSE IF wired[r] # <<>> THEN wired[r]
    ELSE Discovered(r)

(* The count starts again for the roles whose fleet a step changes. *)
Recounted ==
    turns' = [r \in Roles |->
                IF Instances(r)' = Instances(r) THEN turns[r]
                ELSE [a \in Arns |-> 0]]
-----------------------------------------------------------------------------
(* deploy.py *)

To(r, step) == script' = [script EXCEPT ![r] = step]

DeployStarts(r) ==
    /\ script[r] = "none"
    /\ iam' = iam \cup {r} /\ To(r, "roleReady")
    /\ complete' = complete \ {r}
    /\ UNCHANGED <<runtime, created, record, id, wiring, dispatch>>

(* Mutant: the recorded runtime is taken to exist. *)
FoundRecorded(r) == IF record[r] # NoRuntime THEN record[r] ELSE runtime[r]

(* The recorded runtime if it still exists; else the one of that name, which
   create_agent_runtime trips over; else none. *)
Found(r) == IF record[r] # NoRuntime /\ record[r] = runtime[r] THEN record[r] ELSE runtime[r]

DeployUpdates(r) ==
    /\ script[r] = "roleReady" /\ Found(r) # NoRuntime
    /\ id' = [id EXCEPT ![r] = Found(r)] /\ To(r, "waiting")
    /\ UNCHANGED <<runtime, iam, created, record, complete, wiring, dispatch>>

DeployCreates(r) ==
    /\ script[r] = "roleReady" /\ Found(r) = NoRuntime /\ created < MaxDeploys
    /\ created' = created + 1
    /\ runtime' = [runtime EXCEPT ![r] = created'] /\ id' = [id EXCEPT ![r] = created']
    /\ To(r, "waiting")
    /\ UNCHANGED <<iam, record, complete, wiring, dispatch>>

(* The status becomes READY.  A CREATE_FAILED or UPDATE_FAILED one ends the
   script, which ScriptStops covers: the runtime stays and no record names it. *)
DeployReady(r) ==
    /\ script[r] = "waiting" /\ To(r, "recording")
    /\ UNCHANGED <<runtime, iam, created, record, id, complete, wiring, dispatch>>

(* The record is opened for writing, which empties it: until it is written the
   engine finds no runtime in it, cleanup.py ends with an error, and a deploy that
   starts over looks for the runtime by its name. *)
DeployOpens(r) ==
    /\ script[r] = "recording" /\ To(r, "dumping")
    /\ record' = [record EXCEPT ![r] = NoRuntime]
    /\ UNCHANGED <<runtime, iam, created, id, complete, wiring, cursor, hits>>
    /\ Recounted

DeployRecords(r) ==
    /\ script[r] = "dumping"
    /\ record' = [record EXCEPT ![r] = id[r]] /\ To(r, "none")
    /\ id' = [id EXCEPT ![r] = NoRuntime] /\ complete' = complete \cup {r}
    /\ UNCHANGED <<runtime, iam, created, wiring, cursor, hits>>
    /\ Recounted

(* cleanup.py: every deletion that fails is a warning, and the record goes. *)
CleanupStarts(r) ==
    /\ script[r] = "none" /\ record[r] # NoRuntime
    /\ id' = [id EXCEPT ![r] = record[r]] /\ To(r, "deleting")
    /\ complete' = complete \ {r}
    /\ UNCHANGED <<runtime, iam, created, record, wiring, dispatch>>

CleanupDeletes(r) ==
    /\ script[r] = "deleting" /\ To(r, "deletingRole")
    /\ \/ runtime' = [runtime EXCEPT ![r] = IF @ = id[r] THEN NoRuntime ELSE @]
       \/ AwsFails /\ UNCHANGED runtime
    /\ UNCHANGED <<iam, created, record, id, complete, wiring, dispatch>>

CleanupDeletesRole(r) ==
    /\ script[r] = "deletingRole" /\ To(r, "forgetting")
    /\ \/ iam' = iam \ {r}
       \/ AwsFails /\ UNCHANGED iam
    /\ UNCHANGED <<runtime, created, record, id, complete, wiring, dispatch>>

CleanupForgets(r) ==
    /\ script[r] = "forgetting" /\ To(r, "none")
    /\ record' = [record EXCEPT ![r] = NoRuntime] /\ id' = [id EXCEPT ![r] = NoRuntime]
    /\ UNCHANGED <<runtime, iam, created, complete, wiring, cursor, hits>>
    /\ Recounted

(* A call raises, the runtime does not become ready, or the terminal closes. *)
ScriptStops(r) ==
    /\ AwsFails /\ script[r] # "none" /\ To(r, "none")
    /\ id' = [id EXCEPT ![r] = NoRuntime]
    /\ UNCHANGED <<runtime, iam, created, record, complete, wiring, dispatch>>

Scripts(r) ==
    \/ DeployStarts(r) \/ DeployUpdates(r) \/ DeployCreates(r)
    \/ DeployReady(r) \/ DeployOpens(r) \/ DeployRecords(r)
    \/ CleanupStarts(r) \/ CleanupDeletes(r) \/ CleanupDeletesRole(r)
    \/ CleanupForgets(r) \/ ScriptStops(r)
-----------------------------------------------------------------------------
(* The settings *)

Busy == {e \in Editors : edit[e].step # "none"}

(* The wiring an edit makes of another. *)
Edited(ed, fleet) ==
    CASE ed.op = "save" -> [fleet EXCEPT ![ed.role] = <<ed.arn>>]
      [] ed.op = "add" ->
           IF ed.arn \in ToSet(fleet[ed.role]) THEN fleet
           ELSE [fleet EXCEPT ![ed.role] = Append(@, ed.arn)]
      [] ed.op = "remove" ->
           [fleet EXCEPT ![ed.role] = Only(@, Arns \ {ed.arn})]
      [] ed.op = "clear" -> [fleet EXCEPT ![ed.role] = <<>>]
      [] ed.op = "describe" -> fleet

Nothing == [r \in Roles |-> <<>>]

(* A wiring that is cleared to nothing removes the file. *)
RemovesFile(ed, fleet) == ed.op = "clear" /\ Edited(ed, fleet) = Nothing

(* ... and of the descriptions: they go with the file; describing an ARN is
   setting its text where it has none and clearing it where it has one. *)
Redescribed(ed, fleet, descs) ==
    CASE ed.op = "describe" ->
           IF ed.arn \in descs THEN descs \ {ed.arn} ELSE descs \cup {ed.arn}
      [] RemovesFile(ed, fleet) -> {}
      [] OTHER -> descs

(* remove_runtime refuses an ARN that another source wires, save_description
   one that nothing wires. *)
Accepted(ed) ==
    CASE ed.op = "remove" ->
           ed.arn \in ToSet(Instances(ed.role)) =>
               Env[ed.role] = <<>> /\ wired[ed.role] # <<>>
      [] ed.op = "describe" -> ed.arn \in ToSet(Instances(ed.role))
      [] OTHER -> TRUE

(* A request reads the file.  Only a description is made of the descriptions
   read now; the other edits carry over those of the moment they write. *)
EditBegins(e) ==
    /\ edit[e].step = "none" /\ edits < MaxEdits /\ edits' = edits + 1
    /\ \E op \in {"save", "add", "remove", "clear", "describe"},
         r \in Roles, a \in Pasted \cup 0..created :
         LET ed == [step |-> "read", op |-> op, role |-> r, arn |-> a,
                    runtimes |-> wired, descs |-> described]
         IN  /\ (a = NoRuntime) <=> (op = "clear")
             /\ Accepted(ed)
             /\ edit' = [edit EXCEPT ![e] = ed]
    /\ muddled' = (muddled \/ Busy # {})
    /\ UNCHANGED <<wired, described, due, deployment, dispatch>>

(* Mutant: only the role that is edited is written back. *)
WrittenAlone(ed) ==
    [r \in Roles |-> IF r = ed.role THEN Edited(ed, ed.runtimes)[r] ELSE <<>>]

(* The wiring an edit writes: all of what it read, with its own change. *)
Written(ed) == Edited(ed, ed.runtimes)

(* The file is opened for writing, or removed, and is empty from here on. *)
EditOpens(e) ==
    /\ edit[e].step = "read"
    /\ LET ed == edit[e]
           descs == IF ed.op = "describe" THEN ed.descs ELSE described
       IN  /\ edit' = [edit EXCEPT ![e] =
                 IF RemovesFile(ed, ed.runtimes) THEN NoEdit
                 ELSE [ed EXCEPT !.step = "open", !.runtimes = Written(ed),
                         !.descs = Redescribed(ed, ed.runtimes, descs)]]
           /\ due' = [runtimes |-> Edited(ed, due.runtimes),
                      descs |-> Redescribed(ed, due.runtimes, due.descs)]
    /\ wired' = Nothing /\ described' = {}
    /\ UNCHANGED <<edits, muddled, deployment, cursor, hits>>
    /\ Recounted

EditDumps(e) ==
    /\ edit[e].step = "open"
    /\ wired' = edit[e].runtimes /\ described' = edit[e].descs
    /\ edit' = [edit EXCEPT ![e] = NoEdit]
    /\ UNCHANGED <<edits, due, muddled, deployment, cursor, hits>>
    /\ Recounted

(* clear_runtime without a role removes the file unread. *)
EditResets(e) ==
    /\ edit[e].step = "none" /\ edits < MaxEdits /\ edits' = edits + 1
    /\ wired' = Nothing /\ described' = {}
    /\ due' = [runtimes |-> Nothing, descs |-> {}]
    /\ muddled' = (muddled \/ Busy # {})
    /\ UNCHANGED <<edit, deployment, cursor, hits>>
    /\ Recounted

(* The console is killed in the middle of an edit. *)
EditCut(e) ==
    /\ AwsFails /\ edit[e].step # "none"
    /\ edit' = [edit EXCEPT ![e] = NoEdit] /\ muddled' = TRUE
    /\ UNCHANGED <<wired, described, edits, due, deployment, dispatch>>
-----------------------------------------------------------------------------
(* Dispatch *)

PickReads(d) ==
    /\ hits[d].arns = <<>>
    /\ \E r \in Roles : Instances(r) # <<>> /\
         hits' = [hits EXCEPT ![d] = [role |-> r, arns |-> Instances(r)]]
    /\ UNCHANGED <<cursor, turns, deployment, wiring>>

(* Mutant: the cursor of a fleet that shrank is not brought back into it. *)
NextIndexFirst(r, n) == IF cursor[r] < n THEN cursor[r] ELSE n - 1

NextIndex(r, n) == cursor[r] % n

(* A runtime has one dispatch more. *)
OneMore(count, a) == [count EXCEPT ![a] = @ + 1]

(* Only the differences between the counts matter. *)
Levelled(count, arns) ==
    IF \A a \in ToSet(arns) : count[a] > 0
    THEN [a \in Arns |-> IF a \in ToSet(arns) THEN count[a] - 1 ELSE 0]
    ELSE count

(* The cursor is read and moved under its lock. *)
PickTakes(d) ==
    /\ hits[d].arns # <<>>
    /\ LET r == hits[d].role
           arns == hits[d].arns
           idx == NextIndex(r, Len(arns))
       IN  /\ cursor' = [cursor EXCEPT ![r] = idx + 1]
           /\ turns' = [turns EXCEPT ![r] =
                 IF arns = Instances(r) THEN Levelled(OneMore(@, arns[idx + 1]), arns)
                 ELSE [a \in Arns |-> 0]]
    /\ hits' = [hits EXCEPT ![d] = [role |-> "", arns |-> <<>>]]
    /\ UNCHANGED <<deployment, wiring>>

FleetNext ==
    \/ \E r \in Harnessed : Scripts(r)
    \/ \E e \in Editors : EditBegins(e) \/ EditOpens(e) \/ EditDumps(e)
                      \/ EditResets(e) \/ EditCut(e)
    \/ \E d \in Dispatchers : PickReads(d) \/ PickTakes(d)

FleetSpec == FleetInit /\ [][FleetNext]_fleetVars
-----------------------------------------------------------------------------
(* Properties *)

(* A deploy that ends well leaves a record of the runtime that bears the
   harness's name, with its execution role, whatever earlier scripts were
   stopped or failed half way. *)
DeployedIsLive ==
    \A r \in complete : record[r] # NoRuntime /\ record[r] = runtime[r] /\ r \in iam

(* Edits that neither overlapped nor were cut short leave exactly what they ask
   for, of every role and of every description. *)
WiringIsKept ==
    ~muddled /\ (\A e \in Editors : edit[e].step # "open") =>
        due = [runtimes |-> wired, descs |-> described]

(* remove_runtime refuses an ARN that another source than the settings wires to
   the role; silently accepting one would show no change. *)
OthersAreRefused ==
    [][\A e \in Editors, r \in Roles :
         EditBegins(e) /\ edit'[e].op = "remove" /\ edit'[e].role = r =>
             edit'[e].arn \notin ToSet(Env[r]) \cup ToSet(Discovered(r))]_fleetVars

(* While a role's fleet does not change, the worker threads spread their
   dispatches over it evenly, from whatever position the cursor was left at,
   unless its environment variable names a runtime twice. *)
Balanced ==
    \A r \in Roles : IsInjective(Env[r]) =>
        \A a, b \in ToSet(Instances(r)) : turns[r][a] <= turns[r][b] + 1
=============================================================================
