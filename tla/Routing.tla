-------------------------------- MODULE Routing --------------------------------
(***************************************************************************)
(* Who works on a request: the roster (orchestrator/roles.py), the presets *)
(* and their resolution (presets.py), the model's choice of capabilities   *)
(* and the shared plan (integration_plan.py), as a run's admission and     *)
(* hydration use them (engine.py).  What a model answers is any answer;    *)
(* the text of a request is whether there is one.                          *)
(***************************************************************************)
EXTENDS Naturals, Sequences, SequencesExt, FiniteSets, Lists

CONSTANTS
    Makers, Checkers,  \* the registered roles
    CapabilityOf,      \* the capability of each
    PresetOf,          \* the presets: needs, task (it has one), readOnly
    AnyMaker                \* the need that stands for every maker

Registered == Makers \cup Checkers
NoPreset == ""
Typo == "typo"
Presets == DOMAIN PresetOf

ASSUME RoutingAssumption ==
    /\ IsFiniteSet(Registered) /\ Makers \cap Checkers = {} /\ Typo \notin Registered /\ NoPreset \notin Presets
    /\ {CapabilityOf[m] : m \in Makers} \cap {CapabilityOf[c] : c \in Checkers} = {}

VARIABLES
    roster,   \* the roles this deployment serves, in dispatch order
    request,  \* the request
    run,      \* the run it became
    calls     \* what the model was asked

routingVars == <<roster, request, run, calls>>

-----------------------------------------------------------------------------
\* The roster

\* Makers first, then checkers; an unknown name stays, at the end.
Ordered(ids) == Only(Distinct(ids), Makers) \o Only(Distinct(ids), Checkers)
                  \o Only(Distinct(ids), ToSet(ids) \ Registered)

Served == ToSet(roster)
ByCapabilities(needs) == Only(roster, {r \in Served : CapabilityOf[r] \in needs})
MakerCapabilities == {CapabilityOf[m] : m \in Served \cap Makers}

-----------------------------------------------------------------------------
\* Resolution

\* A preset's roles: its capabilities' makers, and the checkers.
ResolveNeeds(spec) ==
    LET makers == IF AnyMaker \in spec.needs THEN Only(roster, Makers)
                  ELSE ByCapabilities(spec.needs)
    IN  Distinct(makers \o Only(roster, Checkers))

\* Mutant: roles that were named are taken as they are.
ValidateNamed(agents, readOnly) ==
    IF ToSet(agents) \subseteq Served THEN "" ELSE "UNKNOWN_ROLE"
Validate(agents, readOnly) ==
    IF ~(ToSet(agents) \subseteq Served) THEN "UNKNOWN_ROLE"
    ELSE IF agents = <<>> THEN "NO_ROLES_ROUTED"
    ELSE IF readOnly THEN ""
    ELSE IF ToSet(agents) \cap Checkers = {} THEN "NO_CHECKER_ROUTED"
    ELSE IF ToSet(agents) \cap Makers = {} THEN "NO_BUILDER_ROUTED"
    ELSE ""

\* The model's choice, when it is one, and else every capability.
Selected(answer) ==
    IF answer # {} /\ answer \subseteq MakerCapabilities THEN answer ELSE MakerCapabilities

Routed(agents, readOnly) ==
    [agents |-> agents, readOnly |-> readOnly, error |-> Validate(agents, readOnly)]
Refused(reason) == [agents |-> <<>>, readOnly |-> FALSE, error |-> reason]

\* Roles that are named, or a preset, or the model's answer to a typed request.
Resolve(task, preset, roles, answer) ==
    IF roles # <<>> THEN Routed(Ordered(roles), FALSE)
    ELSE IF preset # NoPreset /\ preset \notin Presets THEN Refused("UNKNOWN_PRESET")
    ELSE IF preset # NoPreset /\ (PresetOf[preset].task \/ ~task) THEN
         Routed(Ordered(ResolveNeeds(PresetOf[preset])), PresetOf[preset].readOnly)
    ELSE IF task THEN
         Routed(Ordered(ByCapabilities(Selected(answer)) \o Only(roster, Checkers)), FALSE)
    ELSE Refused("EMPTY_TASK")

\* What a preset is advertised with.
PublicPreset(preset) == Ordered(ResolveNeeds(PresetOf[preset]))

-----------------------------------------------------------------------------
\* Requests

\* A tool of the chat: a role goes with the checkers, unless it is one.
KickedRoles(role) == IF role \in Checkers THEN <<role>> ELSE <<role>> \o Only(roster, Checkers)

\* The tools the chat offers: the roles that are served, those with a runtime;
\* which have one is left open here.
OfferedTools == Served

NoRun == [at |-> "none", agents |-> <<>>, readOnly |-> FALSE, error |-> "",
          order |-> <<>>, after |-> <<>>]
NoRequest == [via |-> "none", task |-> FALSE, preset |-> NoPreset, roles |-> <<>>]

RoutingInit ==
    /\ \E ids \in UNION {SetToSeqs(s) : s \in SUBSET Registered} : roster = Ordered(ids)
    /\ request = NoRequest /\ run = NoRun /\ calls = 0

RoutingTypeOK ==
    /\ Served \subseteq Registered
    /\ run.at \in {"none", "submitted", "admitted", "planned", "failed"}
    /\ ToSet(run.agents) \subseteq Registered /\ calls \in 0..3

ChatDispatches(role) ==
    /\ request = NoRequest /\ role \in OfferedTools
    /\ request' = [via |-> "tool", task |-> TRUE, preset |-> NoPreset, roles |-> KickedRoles(role)]
    /\ run' = [NoRun EXCEPT !.at = "submitted"]
    /\ UNCHANGED <<roster, calls>>

\* The console's form: any of the three, and names that nobody checked.
ConsoleSubmits(task, preset, roles) ==
    /\ request = NoRequest
    /\ request' = [via |-> "form", task |-> task, preset |-> preset, roles |-> roles]
    /\ run' = [NoRun EXCEPT !.at = "submitted"]
    /\ UNCHANGED <<roster, calls>>

\* A preset lends its text to a request that has none; no text is refused first.
Admission(answer) ==
    LET own == request.preset \in Presets /\ PresetOf[request.preset].task
        task == request.task \/ own
        route == IF task THEN Resolve(task, request.preset, request.roles, answer)
                 ELSE Refused("EMPTY_TASK")
        asks == task /\ request.roles = <<>> /\ ~own /\ MakerCapabilities # {}
                  /\ request.preset \in Presets \cup {NoPreset}
    IN  /\ run.at = "submitted"
        /\ run' = [run EXCEPT !.at = IF route.error = "" THEN "admitted" ELSE "failed",
                              !.agents = IF route.error = "" THEN route.agents ELSE <<>>,
                              !.readOnly = route.readOnly, !.error = route.error]
        /\ calls' = IF asks THEN calls + 1 ELSE calls
        /\ UNCHANGED <<roster, request>>

-----------------------------------------------------------------------------
\* The plan

Builders == Only(run.agents, Makers)

\* An order the model proposes is used when it names every builder once.
ValidOrder(order) == Len(order) = Len(Builders) /\ ToSet(order) = ToSet(Builders)

\* Mutant: every item waits for the first one of the order.
ChainedToFirst(order) ==
    [i \in DOMAIN order |-> IF i = 1 THEN {} ELSE {order[1]}]
\* Each item of the order waits for the one before it.
Chained(order) == [i \in DOMAIN order |-> IF i = 1 THEN {} ELSE {order[i - 1]}]
DependsOn(order, after, r) == after[CHOOSE i \in DOMAIN order : order[i] = r]

\* Rounds of the items whose dependencies are done, each in the input's order.
DependencyOrder(items, needs) ==
    LET Ready(done) == Only(items, {r \in ToSet(items) \ ToSet(done) : needs[r] \subseteq ToSet(done)})
        out[n \in 0..Len(items)] == IF n = 0 THEN <<>> ELSE out[n - 1] \o Ready(out[n - 1])
    IN  out[Len(items)]

\* A second answer is asked for when the first is not valid; a call that fails ends the run.
Plan(first, second) ==
    LET order == IF ValidOrder(first) THEN first ELSE second IN
    /\ run.at = "admitted"
    /\ run' = IF ValidOrder(order)
              THEN [run EXCEPT !.at = "planned", !.order = order, !.after = Chained(order)]
              ELSE [run EXCEPT !.at = "failed", !.error = "INTEGRATION_BRIEF_INVALID"]
    /\ calls' = calls + (IF ValidOrder(first) THEN 1 ELSE 2)
    /\ UNCHANGED <<roster, request>>
PlanFails ==
    /\ run.at = "admitted"
    /\ run' = [run EXCEPT !.at = "failed", !.error = "INTEGRATION_BRIEF_UNAVAILABLE"]
    /\ UNCHANGED <<roster, request, calls>>

\* The order of every later loop over the run's work items.
MergeOrder == DependencyOrder(Builders, [r \in ToSet(Builders) |-> DependsOn(run.order, run.after, r)])

NameLists == {<<>>} \cup {<<r>> : r \in Registered \cup {Typo}} \cup (Registered \X Registered)
OrderAnswers == {<<>>} \cup SetToSeqs(Makers) \cup {<<m>> : m \in Makers} \cup (Makers \X Makers)

RoutingNext ==
    \/ \E role \in Registered : ChatDispatches(role)
    \/ \E task \in BOOLEAN, preset \in Presets \cup {NoPreset, Typo}, roles \in NameLists :
         ConsoleSubmits(task, preset, roles)
    \/ \E answer \in SUBSET ({CapabilityOf[m] : m \in Makers} \cup {Typo}) : Admission(answer)
    \/ \E first, second \in OrderAnswers : Plan(first, second)
    \/ PlanFails

-----------------------------------------------------------------------------
(***************************************************************************)
(* Whatever is asked for and whatever the model answers, a run that is     *)
(* admitted is one that this deployment can do and prove: roles it serves, *)
(* each once, the makers before the checkers, at least one of both unless  *)
(* it only reads; and its work items come in the order that was planned.   *)
(***************************************************************************)
RunsAreProvable ==
    run.at \in {"admitted", "planned"} =>
      /\ ToSet(run.agents) \subseteq Served /\ IsInjective(run.agents)
      /\ \A i, j \in DOMAIN run.agents :
           run.agents[i] \in Checkers /\ run.agents[j] \in Makers => j < i
      /\ ~run.readOnly => /\ ToSet(run.agents) \cap Makers # {}
                          /\ ToSet(run.agents) \cap Checkers # {}
      /\ run.at = "planned" => MergeOrder = run.order

(***************************************************************************)
(* A role's tool "returns immediately with a run id; the work runs in the  *)
(* background" (chat.py 277-279): the run of a tool that the chat offers   *)
(* is not refused for its roles, the checkers being served.                *)
(***************************************************************************)
OfferedToolsAreRouted ==
    request.via = "tool" /\ Served \cap Checkers # {} => run.error # "NO_BUILDER_ROUTED"
==============================================================================
