-------------------------------- MODULE Shelf --------------------------------
(***************************************************************************)
(* The shelf of agents that the console shows (interactive-api): the       *)
(* records the process keeps, the runtime_config.json that a deployment    *)
(* leaves, and the attendee's edits of a name and a purpose.               *)
(***************************************************************************)
EXTENDS Naturals

CONSTANTS Agents, ShelfArns, Purposes

NoArn == ""
Unset == "unset"  \* no edit of this field
Blank == ""       \* an edit that clears it

ASSUME ShelfAssumption == NoArn \notin ShelfArns /\ Unset \notin Purposes \cup {Blank}

VARIABLES
    shelfRecord,  \* the process's record of each agent
    config,       \* the ARN in the agent's runtime_config.json
    override,     \* the overrides file
    lastEdit      \* history: the attendee's last edit since the last reset

shelfVars == <<shelfRecord, config, override, lastEdit>>

Clean == [a \in Agents |-> [status |-> "not_deployed", arn |-> NoArn]]
Unedited == [a \in Agents |-> Unset]

ShelfInit == shelfRecord = Clean /\ config = [a \in Agents |-> NoArn] /\ override = Unedited /\ lastEdit = Unedited

ShelfTypeOK ==
    /\ shelfRecord \in [Agents -> [status : {"not_deployed", "deploying", "ready"}, arn : ShelfArns \cup {NoArn}]]
    /\ config \in [Agents -> ShelfArns \cup {NoArn}]
    /\ override \in [Agents -> Purposes \cup {Blank, Unset}]

\* What _deploy_agent makes of a record.
Reconciled(a) == IF config[a] = NoArn THEN [status |-> "deploying", arn |-> NoArn]
                 ELSE [status |-> "ready", arn |-> config[a]]

DeployAgent(a) ==
    /\ shelfRecord' = [shelfRecord EXCEPT ![a] = Reconciled(a)]
    /\ UNCHANGED <<config, override, lastEdit>>

\* Opening a session prepares an agent that is not ready.
ShelfSession(a) == shelfRecord[a].status # "ready" /\ DeployAgent(a)

EditAgent(a, purpose) ==
    /\ override' = [override EXCEPT ![a] = purpose]
    /\ lastEdit' = [lastEdit EXCEPT ![a] = purpose]
    /\ UNCHANGED <<shelfRecord, config>>

ShelfReset ==
    /\ override' = Unedited /\ lastEdit' = Unedited
    /\ shelfRecord' = Clean
    /\ UNCHANGED config

\* The console's process starts again.
ShelfRestart ==
    /\ override' = Unedited
    /\ shelfRecord' = Clean
    /\ UNCHANGED <<config, lastEdit>>

\* The scripts beside the console write and remove the configuration.
DeployLands(a, arn) == config' = [config EXCEPT ![a] = arn] /\ UNCHANGED <<shelfRecord, override, lastEdit>>

ShelfNext ==
    \/ ShelfReset \/ ShelfRestart
    \/ \E a \in Agents :
         \/ DeployAgent(a) \/ ShelfSession(a)
         \/ \E purpose \in Purposes \cup {Blank} : EditAgent(a, purpose)
         \/ \E arn \in ShelfArns \cup {NoArn} : DeployLands(a, arn)

\* Mutant: the configuration is read only for an agent that is not ready.
PublicStale(a) ==
    IF config[a] # NoArn /\ shelfRecord[a].status # "ready" THEN [status |-> "ready", arn |-> config[a]]
    ELSE shelfRecord[a]
\* What the console shows of an agent.
PublicAgent(a) ==
    IF config[a] # NoArn THEN [status |-> "ready", arn |-> config[a]] ELSE shelfRecord[a]

ShownPurpose(a) == override[a]

(***************************************************************************)
(* A deployment shows at once, with the ARN that landed last, whatever the *)
(* console had recorded of an earlier one.                                 *)
(***************************************************************************)
ShelfFollowsDeploys == \A a \in Agents : config[a] # NoArn => PublicAgent(a).arn = config[a]

(***************************************************************************)
(* "The shelf shows ready only when the attendee has built the image and   *)
(* run deploy.py to create the Runtime" (interactive_api.py 268-269).      *)
(***************************************************************************)
ReadyOnlyWhenDeployed ==
    \A a \in Agents : PublicAgent(a).status = "ready" => config[a] # NoArn

(***************************************************************************)
(* The attendee's edits "live in a sibling JSON and survive a process      *)
(* restart" (interactive_api.py 151-152).                                  *)
(***************************************************************************)
EditsSurvive == \A a \in Agents : ShownPurpose(a) = lastEdit[a]
==============================================================================
