------------------------------ MODULE MCConsole ------------------------------
(***************************************************************************)
(* The parts around a run share no state: each behaviour takes the steps   *)
(* of one part, and the others keep their initial state.                   *)
(***************************************************************************)
EXTENDS Fleet, Connections, Terminals, RuntimeShells, WorkspaceFiles, Shelf, Chat, RunHistory, Routing, Review, RoleGraph, Metrics, WorkTree

VARIABLE part

Parts == {"fleet", "github", "kiro", "terminals", "runtimes", "files", "shelf", "chat", "history", "routing", "rounds", "review", "metrics", "latency", "trees"}

Tracking == {{}, WorkPaths}

NoEnv == [r \in Roles |-> <<>>]

\* A repository, and a folder in it whose name continues its path.
Nested == {<<f, f>> : f \in DevFolders \cup Sessions \cup {NoFolder}} \cup {<<"sub", "clone">>}

NameA == <<"a">>
\* The home folder is shown as `~`, which may be in a name.
HomeLabel == <<"~">>
HomePath == <<Slash, "h">>
NameG == <<"a", "~">>
TwoNames == {NameA, NameG}
JunkNames == {NameG}
HarnessPaths == {<<NameA>>, <<NameG, NameA>>}

Capabilities == [opencode |-> "backend", claude |-> "frontend", codex |-> "backend", kiro |-> "validator"]
Starts == [api |-> [needs |-> {"backend"}, task |-> TRUE, readOnly |-> FALSE],
           app |-> [needs |-> {"backend", "frontend"}, task |-> TRUE, readOnly |-> FALSE],
           own |-> [needs |-> {"*"}, task |-> FALSE, readOnly |-> FALSE],
           review |-> [needs |-> {}, task |-> TRUE, readOnly |-> TRUE]]

Latencies == {<<>>, <<7>>, <<3, 1, 2>>} \cup {[i \in 1..n |-> n - i] : n \in {19, 20, 21, 40, 41}} \cup {[i \in 1..20 |-> i % 2]}

Init ==
    /\ part \in Parts
    /\ FleetInit /\ TerminalsInit /\ RtInit /\ FilesInit /\ ShelfInit /\ ChatInit
    /\ HistoryInit /\ (part # "history" => mirrored)
    /\ ConnectionsInit
    /\ part # "github" =>
         saved = "" /\ gateway = "absent" /\ \A r \in Repos : grant[r] = {}
    /\ RoutingInit /\ (part # "routing" => roster = Ordered(SetToSeq(Registered)))
    /\ ReviewInit /\ GraphInit
    /\ WorkTreeInit
    /\ MetricsInit /\ (part # "latency" => sample = <<>>)

Rest == <<fleetVars, connectionVars, terminalVars, rtVars, filesVars, shelfVars, chatVars, historyVars, routingVars, graphVars, reviewVars, metricsVars, workTreeVars>>

FleetSteps ==
    /\ part = "fleet" /\ FleetNext
    /\ UNCHANGED <<connectionVars, terminalVars, rtVars, filesVars, shelfVars, chatVars, historyVars, routingVars, graphVars, reviewVars, metricsVars, workTreeVars>>
ConnectionSteps ==
    /\ (part = "github" /\ GitHubNext) \/ (part = "kiro" /\ KiroNext)
    /\ UNCHANGED <<fleetVars, terminalVars, rtVars, filesVars, shelfVars, chatVars, historyVars, routingVars, graphVars, reviewVars, metricsVars, workTreeVars>>
TerminalSteps ==
    /\ part = "terminals" /\ TerminalsNext
    /\ UNCHANGED <<fleetVars, connectionVars, rtVars, filesVars, shelfVars, chatVars, historyVars, routingVars, graphVars, reviewVars, metricsVars, workTreeVars>>
RuntimeSteps ==
    /\ part = "runtimes" /\ RtNext
    /\ UNCHANGED <<fleetVars, connectionVars, terminalVars, filesVars, shelfVars, chatVars, historyVars, routingVars, graphVars, reviewVars, metricsVars, workTreeVars>>
FileSteps ==
    /\ part = "files" /\ FilesNext
    /\ UNCHANGED <<fleetVars, connectionVars, terminalVars, rtVars, shelfVars, chatVars, historyVars, routingVars, graphVars, reviewVars, metricsVars, workTreeVars>>
ShelfSteps ==
    /\ part = "shelf" /\ ShelfNext
    /\ UNCHANGED <<fleetVars, connectionVars, terminalVars, rtVars, filesVars, chatVars, historyVars, routingVars, graphVars, reviewVars, metricsVars, workTreeVars>>
ChatSteps ==
    /\ part = "chat" /\ ChatNext
    /\ UNCHANGED <<fleetVars, connectionVars, terminalVars, rtVars, filesVars, shelfVars, historyVars, routingVars, graphVars, reviewVars, metricsVars, workTreeVars>>
HistorySteps ==
    /\ part = "history" /\ HistoryNext
    /\ UNCHANGED <<fleetVars, connectionVars, terminalVars, rtVars, filesVars, shelfVars, chatVars, routingVars, graphVars, reviewVars, metricsVars, workTreeVars>>
RoutingSteps ==
    /\ part = "routing" /\ RoutingNext
    /\ UNCHANGED <<fleetVars, connectionVars, terminalVars, rtVars, filesVars, shelfVars, chatVars, historyVars, graphVars, reviewVars, metricsVars, workTreeVars>>
RoundSteps ==
    /\ part = "rounds" /\ GraphNext
    /\ UNCHANGED <<fleetVars, connectionVars, terminalVars, rtVars, filesVars, shelfVars, chatVars, historyVars, routingVars, reviewVars, metricsVars, workTreeVars>>
ReviewSteps ==
    /\ part = "review" /\ ReviewNext
    /\ UNCHANGED <<fleetVars, connectionVars, terminalVars, rtVars, filesVars, shelfVars, chatVars, historyVars, routingVars, graphVars, metricsVars, workTreeVars>>
MetricsSteps ==
    /\ part = "metrics" /\ MetricsNext
    /\ UNCHANGED <<fleetVars, connectionVars, terminalVars, rtVars, filesVars, shelfVars, chatVars, historyVars, routingVars, graphVars, reviewVars, workTreeVars>>
TreeSteps ==
    /\ part = "trees" /\ WorkTreeNext
    /\ UNCHANGED <<fleetVars, connectionVars, terminalVars, rtVars, filesVars, shelfVars, chatVars, historyVars, routingVars, graphVars, reviewVars, metricsVars>>

Next ==
    /\ UNCHANGED part
    /\ \/ FleetSteps \/ ConnectionSteps \/ TerminalSteps \/ RuntimeSteps \/ FileSteps
       \/ ShelfSteps \/ ChatSteps \/ HistorySteps \/ RoutingSteps \/ RoundSteps \/ ReviewSteps \/ MetricsSteps \/ TreeSteps

Spec == Init /\ [][Next]_<<part, Rest>>

TypeOK ==
    /\ FleetTypeOK /\ ConnectionsTypeOK /\ TerminalsTypeOK /\ RtTypeOK /\ FilesTypeOK
    /\ ShelfTypeOK /\ ChatTypeOK /\ HistoryTypeOK /\ RoutingTypeOK /\ GraphTypeOK /\ ReviewTypeOK /\ MetricsTypeOK /\ WorkTreeTypeOK

-----------------------------------------------------------------------------
(***************************************************************************)
(* A deploy that ended well left a record of the runtime that exists, the  *)
(* settings hold what the edits ask for, and the shelf shows the           *)
(* deployment that landed last (deploy.py, runtime_config.py,              *)
(* interactive_api.py).                                                    *)
(***************************************************************************)
DeploymentsAreServed == DeployedIsLive /\ WiringIsKept /\ ShelfFollowsDeploys

(***************************************************************************)
(* What the page says of a connection is so: the doctor's verdict is what  *)
(* the repositories grant, and a role shown as connected has its key       *)
(* (github.py, kiro_config.py).                                            *)
(***************************************************************************)
ConnectionsAreReal == DoctorIsRight /\ ConnectedHasKey

(***************************************************************************)
(* No shell of the console and no process a check started runs on when the *)
(* session, the folder or the gate it belongs to is over                   *)
(* (interactive_api.py, reviewer.py).                                      *)
(***************************************************************************)
NoProcessOutlives == ShellMatchesSession /\ NoServiceOutlives

(***************************************************************************)
(* A run a conversation starts is announced to it, a round of it succeeds  *)
(* only when each of its turns did, whatever the threads of earlier rounds *)
(* still do beside it, and the pull request of a role is what the role did *)
(* (chat.py, engine.py).                                                   *)
(***************************************************************************)
RunsAreSound == RunsAreAnnounced /\ RoundsAreWhole /\ TreesAreCarried

(***************************************************************************)
(* What the governance page answers is what happened: from a ledger that   *)
(* is current, of sessions that were stopped (metrics_lib.py).             *)
(***************************************************************************)
MetricsAreReal == LedgerIsCurrent /\ StoppedIsStopped

(***************************************************************************)
(* What is computed from a list is right, however the list came about: a   *)
(* run that is admitted can be done and proved, dispatches spread evenly   *)
(* over the fleet a role has, every kept run is found by the list that     *)
(* merges the copies, an exchange stays in the conversation's memory, and  *)
(* the p95 is the one the latencies have (presets.py, runtime_config.py,   *)
(* run_store.py, connection_api.py, metrics_lib.py).                       *)
(***************************************************************************)
ListsAreRight == RunsAreProvable /\ Balanced /\ RunsAreFound /\ ExchangesKept /\ LatencyIsP95
=============================================================================
