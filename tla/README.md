# A verification project for the coding-agent orchestrator

The repository is a workshop in which several coding agents (roles) build what a person asked for:
an engine plans the work, runs the builders in parallel, has an independent checker prove each
builder's change, and takes each change through its own pull request, gate, review and merge. This
directory holds TLA+ models of the parts of that program whose correctness depends on order,
concurrency or failure, the TLC configurations that check them and the theorems TLAPS has proved about
them. Paths below are relative to the repository; `engine.py` is `orchestrator/engine.py`.

## 1. The system

| Part | State it keeps | Operations | What is hard about it |
|---|---|---|---|
| Engine: run execution and finalization (`engine.py`, `role_graph.py`) | one `Run` per request: role progress, work items, checks, gate and review records, the base checkout, the verdict | `_execute`, `_finalize`, `_repair_pull_request`, `_merge_work_item`, `_settle_run` | parallel builders and an AND join; a loop over pull requests whose outcomes must not mix; one bounded repair each; GitHub changes underneath |
| Patches (`work_items.py`) | none (files) | `diff_trees`, `apply_patch`, `prepare_refresh_checkout` | the three-way guard: deletions, equal changes, both sides changed |
| GitHub client and gateway (`github.py`, `coding-agents/gateway_mcp/app/main.py`) | branches, pull requests (on GitHub) | `publish_work_item`, `merge_work_item`, `snapshot_branch`, `_gateway_rpc`, `commit_changes` | calls that fail on the way in or out; retries of calls that are not idempotent; others write too |
| Reviewer and gate (`reviewer.py`) | one record per round | `run_gate`, `assess` | a red gate is never approved; an outage is not a finding |
| Integration plan (`integration_plan.py`) | merge order | `create`, `select_repair_agents` | routing fails open |
| Run lifecycle (`engine.py`, `run_store.py`, `chat.py`, `connection_api.py`) | `run.status`, a saved snapshot of each run | `submit`, `_drive`, `_heartbeat`, `reconcile`, `transition`, `run_status` | worker, heartbeat and sweeper write the same field; the process may go away |
| Evidence repository (`engine.py`) | one local git repository, one lease | `_compose_commit`, `_Lease` | eviction of a holder that may only be slow; what an interrupted compose leaves |
| Roster, presets and configuration (`roles.py`, `presets.py`, `runtime_config.py`, `kiro_config.py`) | tables, one settings file, one key in a vault | resolve a preset, `add_runtime`, `remove_runtime`, `pick`, connect and disconnect | a whole file rewritten by every edit; what is shown as connected must be so |
| Executors (`executor.py`, `runtime_exec.py`, `runtime_stage.py`) | one exchange archive per role, the commands in its runtime | stage, dispatch, give up, dispatch again, upload, read back, clean up | a command that was given up on goes on, and all of a role's turns share one archive |
| Interactive sessions (`interactive-api/`) | a pseudo-terminal and a buffer per session, remote shells, the workspace's files, a shelf of agents | open, write, stream, close, reconnect, edit | reader threads, offsets, takeovers, what outlives a close |
| Chat and history (`chat.py`, `connection_api.py`, `run_store.py`) | conversations, two copies of every run | a turn and its tools, `save`, `prune`, `recent`, `load` | a turn that fails after it started a run; copies that differ |
| Metrics API (`metrics_lib.py`) | the run ledger, a cache of it, marks | the lists, `stop_session`, the p95 | request threads that share a cache of two fields |
| Harness scripts (`coding-agents/*/deploy.py`, `cleanup.py`) | a runtime, a role, a record of it | deploy, clean up | stopped between any two calls and started again |
| Console server and web application, packaging, sample applications | a token cache, nothing, or a table | forwarding, rendering | no protocol of their own |

How they interact. `chat.py` and `connection_api.py` submit runs and read them; `submit` starts a worker
thread (`_drive`) and a heartbeat thread for each run, and `connection_api` starts the sweeper. The worker
calls the role graph, which runs every role's turn on threads of its own; a turn calls an executor and
reads the role's tree back. The checker's turn publishes the pull requests through the gateway and
authors one check for each. Finalization runs on the worker thread alone, calling the gate (a local
process), the reviewer (a model) and the gateway. The saved state (`run_store`) is what a later session
reads. The console's server hosts all of these in one process; the terminals, the file explorer, the shelf
and the metrics share no state with a run, only files that both read.

What makes each part correct: a pull request is offered or merged only as it was proven; a merge loses
nobody's work; one pull request's outcome does not decide another's; repair is bounded; the verdict, the
report and GitHub agree; a verdict is final, is saved, and comes in the end whatever hangs; the limit on
concurrent runs holds; each evidence commit is exactly its run's deliverable; a turn is judged on what that
turn did, and every dispatch is answered. Around a run: whom it is routed to can do and prove it; what is
shown as wired, connected, deployed or stopped is so; a stream shows what its shell said; what a session
started ends with it; a kept record is found. `PROJECT.json` lists, under
`hazards`, the line at which each of these could go wrong, and which property watches it.

## 2. The modules

| Module | Models | Checked by |
|---|---|---|
| `TreePatch` | trees, patches, the staleness guard, the refresh (`work_items.py`) | through `PullRequests`; `PullRequestsProofs` |
| `PullRequests` | one run from its first turn to its verdict (`engine.py`, `github.py`, `reviewer.py`) | `MCPullRequests`; `PullRequestsProofs` |
| `Delivery` | what a run promises about its pull requests (the abstract specification) | implemented by `PullRequests` |
| `RunLifecycle` | the runs of a session: workers, heartbeats, sweeper, saves | `MCRunLifecycle`; `RunLifecycleProofs` |
| `ComposeLease` | the evidence repository and its lease | `MCComposeLease`; `ComposeLeaseProofs` |
| `EvidenceLog` | what that repository promises (the abstract specification) | implemented by `ComposeLease` |
| `RoleTurns` | one role's turns over its exchange archive (`runtime_exec.py`, `runtime_stage.py`, their callers) | `MCRoleTurns`; `RoleTurnsProofs` |
| `GatewayCalls` | one publication, request by request (`github.py`, `gateway_mcp/app/main.py`) | `MCGatewayCalls`; `GatewayCallsProofs` |
| `RoleGraph` | the rounds of a run and the threads that outlive them (`engine.py`, `role_graph.py`) | `MCConsole`; `RoundsProofs` |
| `Review` | the gate's process group, the judge and the outcome of one piece of work (`reviewer.py`) | `MCConsole`; `RoundsProofs` |
| `Routing` | presets, capabilities, the plan and admission (`presets.py`, `roles.py`, `integration_plan.py`) | `MCConsole`; `ListsProofs` |
| `Fleet` | a harness's deploy and cleanup, the wiring file, the picks (`deploy.py`, `runtime_config.py`) | `MCConsole`; `ConsoleProofs` |
| `Connections` | the doctor and the Kiro role's key (`github.py`, `kiro_config.py`) | `MCConsole`; `ConsoleProofs` |
| `Terminals` | local terminals and the streams that follow them (`interactive_api.py`) | `MCConsole`, `MCTerminals`; `ConsoleProofs` |
| `RuntimeShells` | shells in deployed runtimes, their streams and stop (`runtime_shell.py`, `server.py`) | `MCConsole`; `ConsoleProofs` |
| `WorkspaceFiles`, `Shelf` | the file explorer; the shelf of agents (`interactive_api.py`) | `MCConsole`; `ListsProofs`, `ConsoleProofs` |
| `Chat`, `RunHistory` | a chat turn and its runs; the stored copies of runs (`chat.py`, `run_store.py`) | `MCConsole`; `ListsProofs`, `ConsoleProofs` |
| `WorkTree` | the way of a role's tree from the repository to its pull request (`engine.py`, `work_items.py`, `runtime_stage.py`, `runtime_exec.py`) | `MCConsole`; `RoundsProofs` |
| `Metrics` | the ledger, its cache, the kill switch (`metrics_lib.py`) | `MCConsole`; `ListsProofs`, `ConsoleProofs` |
| `Lists` | loops over a list, as functions a proof can unfold | through the modules whose code has them |

Each `MC` module extends its specification with the finite sets the configurations name; a
configuration (`.cfg`) is named after its run. Operators marked `Mutant:` are not part of a model: each is
a plausible bug of the definition below it, and every property of a passing run is known to be violated
when one of them takes that definition's place.

### PullRequests

A builder is its position in the run's merge order: `integration_plan.create` chains every item to the one
before it, and every loop over work items follows that order, so numbering loses nothing. A tree maps the
paths that matter to contents, absence included. The worker's position is `at`, with `cur` the pull
request being finalized and `todo` what is left of a loop over items.

| Action | Code |
|---|---|
| `BuilderDone`, `BuilderFails`, `GraphStops`, `CheckerStarts` | `_run_role`, `_require_item_change`, the watchdog at the end of `_execute`, the join of `build_graph` |
| `Publish`, `PublishFails` | `_publish_active_work_items`, `publish_work_item`, `commit_changes` |
| `StartAuthoring`, `Author`, `AuthorFails`, `CheckerDone` | the `validator` closure, `_cli_validator_authors_test` |
| `FirstRoundFails`, `RepairFails`, `RoundSucceeds` | the end of `_execute` and what its two callers do with it |
| `GateRed`, `GateGreen` | `_gate_one_pull_request`, `run_gate` |
| `Approve`, `RequestChanges`, `ReviewUnavailable`, `RouteRepair` | `_assess_pull_request`, `assess`, `_finalize`, `_repair_pull_request` |
| `LeaveOpen`, `MergeLands`, `MergeRefused`, `MergeUnheard`, `Snapshot`, `SnapshotFails` | `_merge_if_policy_allows`, `merge_work_item`, `_gateway_rpc`, `_merge_work_item` |
| `Settle`, `EngineRaises` | `_settle_run`, the handler of `_drive` |
| `Outside...` | what people and other runs do to GitHub and to the merge policy |

Three details of the code are kept because the properties turn on them: the commit of a pull request is
made on the head the default branch has at publication, not on the base the work was written against; the
end of a round reads the state of every routed role, not only of those that ran; the test after a repair
asks only whether the pull request was approved. A turn that "differs from the base" is any tree of `Turns`; the gate's own outcome, the review and the
routing of a repair are chosen freely, since a script and two models decide them. A stale patch makes both
authoring and gating fail, as in the code.

Not in this model: the read-only review run, the fixture executor, `_refresh_pending_work` (no caller; its
refresh itself is `RefreshTree` of `TreePatch`), comments, labels and digests. A role thread that outlives
the round it was abandoned in is the subject of `RoleGraph`; the requests of one publication are those of
`GatewayCalls`.

### Delivery

What all of this promises, without its turns, calls, rounds and records: pull requests are decided one after
the other; while one is decided, the work, the proof and the outcome of the others stand still; it reaches
the default branch only with work that its own gate and its own review have seen; the run leaves nothing
else there; and the verdict is the one the outcomes call for. `PullRequests` implements it under the mapping
`turn <- Turn, proven <- Proven, verdict <- Verdict`: `Turn` is 0 until finalization begins and past the
last when it is over, `Proven` are those whose gate, review and commit are of the present work, and
`Verdict` is told only when the worker is done. `Shared` (`MaxOutside > 0`) lets others write;
`Undisturbed` (no faults either) asks more: the branch after a merge is the branch before it with the
proven work, which fits it, and no merge goes unheard.

### RunLifecycle

A run's worker walks through admission, hydration, pre-flight, rounds and finalization (`at`); `status`
and `reason` are the two fields every thread writes. A heartbeat is two steps (`BeatReads` builds the
snapshot, `BeatSaves` takes the lock and writes it) and a sweep is two steps (`SweepFinds`, `SweepWrites`),
because that is where another thread gets in. Time is what the sweeper can tell: `spent` counts the rounds
that took their whole budget, and a run is overdue when it works beyond `MaxIterations` of them or hangs. A
saved active state may be called stale only when nothing refreshes it: the model assumes that saves do not
fail for as long as `ACTIVE_STALE_AFTER_S` while the heartbeat lives. `PERMANENT_FAIL_REASONS` is one
reason. `lapsed` is a history variable: the runs whose status called them over while they were worked at.

### ComposeLease and EvidenceLog

A deliverable is a file named by its run, so a tree is a set of runs. Each git command is a step that works
on whatever branch is checked out, as git does. `Slow` says whether a live holder may outlast the lease; a
holder that hangs always may. `outlasted` is a history variable. `EvidenceLog` is the abstract
specification: runs record one at a time, at most once, exactly what they produced. With timely holders
`ComposeLease` implements it under the mapping `writer <- Writer, log <- composed`.

### RoleTurns

The coordinator and a role's runtime share no memory: a tree goes out and comes back as one object of the
exchange bucket, the role's `archive`, whatever the turn. An archive or a work tree is what it was seeded
for (`seed`) and which commands wrote into it (`by`). The role's thread (`at`, `turn`, `attempt`) and the
commands of its runtime (`cmd`, one per dispatch) take steps of their own.

| Action | Code |
|---|---|
| `Stage`, `StageFails` | `_stage_builder_checkouts` (once), `_prepare_checker_checkout` (every turn), `clone_runtime_tree` |
| `Dispatch`, `ShellRefused` | `run_in_runtime`, `_dispatch_once`, `_live_session_for`, `open_shell` |
| `TurnIdle` | `_run_in_muxed_pty`: the terminal fell quiet, a second shell packs its work tree |
| `Exits`, `LosesShell`, `TimesOut` | the three ways out of `_drive_shell`, and what `run_in_runtime` and `_runtime_cli` make of them (`Again`: one more dispatch) |
| `ReadCheck`, `CheckReadFails`, `ReadTree` | `_read_artifact_from_runtime`, `_read_work_tree`, `_require_item_change` |
| `NextTurn`, `RunEnds` | the `validator` closure, the end of `_execute`, `_cleanup_runtime_exchange` |
| `Seeds`, `SeedFails`, `CliExits`, `Uploads`, `UploadFails` | the shell script of `_build_command`, in the runtime |
| `TuiWorks`, `TerminalEnds` | the terminal of `_interactive_dispatch_commands`, which people may write into and close |

`kind` is chosen at the start: a builder is staged once and repairs what it left in the archive; the
checker is staged with one pull request's tree per turn and must leave a file of a given name. A turn is
dispatched headless or, where the console hosts the process, live; the code decides by what the process
can import, the model leaves it open per dispatch. A status that never arrives counts as exit 0 (the shell
closed) or as a failed transport (its connection broke), as in the code. A spent quota is final where it
is looked for before anything else, which is not so of a live checker.

`GiveUp` is the point of the model: a command that is given up on is told nothing. It is lost with its
shell or goes on, and then it is in `orphans`, a history variable that only the bound `Survivors` reads.
In `TurnIdle` the packing takes the tree as the terminal left it last: writing before the packing commutes
with `TurnIdle`, writing after it reaches no archive. Left out: the local development seam, the S3 Files
mount, the sibling model (`llm.openai_sibling` answers nothing for the models in use), and skills archives.

### GatewayCalls

`PullRequests` takes a publication for one step that may fail on the way in or out. Here it is a chain of
tool calls (`Tools`): the client begins each with `Begin`, waits, and after a time-out sends it again
(`Retry`, which ends the call with an error once the attempts are spent). Every attempt is a process of its
own in the server and takes one GitHub request per step: `Prepare` (head, blobs, tree, commit), `Check` (the
compare with the expected parent) and `Move` for a commit, `Issue`, `Open`, `Look`, `Create` and `AddLabels`
for the rest. With `Outlive` an attempt goes on after its client gave it up. `told` is the head the client
was last told of, which is what it sends as the expected parent and later pins the merge to. `overlap`
and `shut` are history variables. `Outside` is what people and other runs do to the branch's pull request
and to the labels.

### RoleGraph

The worker (`worker.at`) begins a round, starts a thread per node when the node's edges are satisfied, and
ends the round by `GraphEnds` or `GraphGivesUp`; the threads take their steps beside it, whether or not
their round is the current one, and write the same variables: `progress`, `checks`, `gateDir`. `turnsOver`
is how each turn really ended, which the code does not keep. `late` is a history variable: the last round
that a thread of an earlier round has written into (0: none has).

### WorkTree

A tree maps paths to who wrote what is there, and a path stands for the files that every station treats
alike. `SeedCheckouts` stages the base for the runtime and checks it out for the coordinator; a turn is
`InstallHarness`, `Hydrate`, what the CLI does (`Touches`), `PackAndUpload` and `RequireItemChange`, which
reads the tree back and takes the difference to the base. What a station leaves out is a set of its own:
`GitIgnored` for a worktree that is checked out of a commit made with `git add -A`, `ArchiveExcludes`,
`Kept` and `PatchExcludes`; the base itself is what the snapshot's archive unpacks to (`Extracted`). `did` and `doing` are history variables: what the role itself wrote or deleted.
`RoleTurns` has the protocol of the same turns, and treats their contents as one value.

### Review

One gate after the other, of a pull request or of what an earlier run left on disk (`PullRequestBegins`,
`ReadOnlyBegins`, `ExecuteReview`). `group` is the process group of the check: what it starts (`Spawns`)
lives on until `KillTerm` and `KillAll`, which may be refused. `ReviewTurn` is one attempt of the judge with
any answer, `Parsed` what the code takes an answer for.

### Routing

`Init` gives any roster. `KickedRoles`, `ConsoleSubmits` and the resolution of a preset make a request,
`Admission` refuses or admits it, `Plan` orders its work items. Every answer of a model is possible.

### Fleet and Connections

A script is a process that takes one cloud call per step and may be stopped at any of them; the settings
file is opened (which empties it), then written, by editors that may overlap (`muddled`). A deployment's
record is opened and written in two steps likewise (`DeployOpens`, `DeployRecords`), and a script that stops
between the two leaves an empty one, which counts as none. A doctor lists,
reads, creates its branch and resets it while permissions, gateway and settings change (`steady` is whether
they did). The Kiro key is in the vault and in a note beside the console, written one after the other
(`blurred` when two savers overlap).

### Terminals, RuntimeShells, WorkspaceFiles and Shelf

Requests to a local terminal are atomic under the session lock; the shell, its reader thread and the ticks
of each stream are processes of their own. A shell's n-th chunk is `<<shell, n>>`; `Torn` are the chunks that
end inside a character, which the next one completes, and `cut` is what a viewer was shown of such halves,
since each look is decoded by itself (`CutSince`). A remote shell has its thread (`at`), its attempts to
connect, a buffer and subscribers; `StreamBegins` sends the buffer and `Subscribes` comes later. Closing it
tells a loop that runs to stop (`halted`), and the loop then stops with the shell's context still entered
(`connected`); that Python's collector may one day free what such a thread held is not modelled. The
explorer's texts are sequences of characters and are replaced where the code replaces them (`ToVirtual`,
`SafeJoin`: every occurrence, from left to right), because a property is about the way back. The shelf is what the process keeps,
what a deployment left on disk and what was edited.

### Chat, RunHistory and Metrics

A chat turn's worker thread drives the model, whose tools start runs; its consumer streams the queue and
writes the history back. A run's save goes to the disk of its session, pruned there, and then to a mirror
(`Save`, `Mirrors`). The ledger is a sequence that only grows; `LedgerParsed`, `StoresKey` and `StoresRows`
are the steps in which a request fills the cache, `StopCalled` and `StopMarks` those of the kill switch.

### MCConsole

These parts share no state. `MCConsole` composes them under one configuration: `part` is chosen at the start
and a behaviour takes the steps of that part only. Its properties are the parts' own or conjunctions of
them that belong together, named there; `ListsAreRight` has those about what a loop over a list computes. Such
loops are written with the operators of `Lists` (`InOrder`, `Only`, `Distinct`): functions over a list's
places, so that a theorem can be had by the least place at which it would fail.

## 3. What is checked

Passing runs (sizes are TLC's distinct states).

| Run | States | Shows |
|---|---|---|
| `PullRequestsAlone` | 353 000 | Alone, with every call answered: the tree merged is the tree gated (`LandsWhatWasGated`), no merge overwrites a content the role had not been given (`ForeignWorkSurvives`), the report agrees with GitHub (`ReportMatchesGitHub`) |
| `PullRequestsAdverse` | 1 403 000 | Calls fail and others interfere: what is settled was proven, in its published form (`SettledIsProven`); repair is bounded; the verdict follows from the merge states; an outage of the first review is not repaired; the run keeps the promise of `Delivery` (`ImplementsDelivery`) and reaches its verdict (`EventuallySettles`) |
| `RunLifecycleAlone` | 7 400 | One run with two pull requests and everything that goes wrong: verdicts are final, failures permanent, an "interrupted" run is not being worked at unless its status lapsed, whoever is swept hangs or has begun more rounds than the threshold allows for (`SweptIsOverdue`), whoever asks is in the end told an outcome, for good (`EveryRunIsAnswered`) |
| `RunLifecyclePair` | 891 000 | Two runs with a pull request each, one slot, and a sweeper that may end them at work: the limit holds but for lapsed runs |
| `ComposeLeaseSlow` | 165 000 | Only a holder that had its whole time is ever evicted, and it cannot release its successor's lease |
| `ComposeLeaseTimely` | 2 070 | With timely holders each commit is its run's own, the repository implements `EvidenceLog`, and hung holders wedge nobody |
| `RoleTurnsMixed` | 531 000 | A builder or the checker, a first turn and a repair, headless or live: what a turn is judged on is its own unless a command of an earlier turn survived (`OwnEvidence`), and every dispatch is answered, with work or an error (`EveryTurnIsAnswered`) |
| `GatewayCalls` | 45 000 | One publication and its refresh with attempts that outlive their client: a commit replaces only what the client knew of or made (`NoBlindWrite`), the head and the pull request that are reported are there (`ReportIsTrue`), every publication ends (`PublicationsEnd`) |
| `Console` | 1 076 000 | What surrounds a run, one part per behaviour; see the next table |

The properties of `Console`:

| Property | Says |
|---|---|
| `DeploymentsAreServed` | a deploy that ended well left a record of the runtime that exists, whatever scripts were stopped before it, at whichever call or write; edits that do not overlap leave exactly what they ask for; the shelf shows the last deployment |
| `ConnectionsAreReal` | the doctor's verdict is right both ways while nothing changes; a role shown as connected has its key |
| `NoProcessOutlives` | no local shell outlives its session or folder, no service its gate |
| `FollowerShowsAll`, `StreamHasOneGap` | a viewer of a local shell is shown every chunk once, across reconnections, below the buffer's cap; a viewer of a remote shell misses at most what came between the look at the buffer and the subscription |
| `ShownPathsLeadBack` | a path the explorer or a search shows leads back to the file it was shown for, unless the folder's label or real path is in the names below it |
| `RunsAreSound` | a run that a chat turn starts is announced; a round succeeds only when each of its turns did, with a check of its own round for each open pull request, which the gate does not miss (`RoundsAreWhole`); a pull request has what its role did and nothing else, and its check is written beside the files the gate has (`TreesAreCarried`) |
| `OutcomeIsProven` | nothing is approved but what its check passed and the judge's last answer approves with evidence, and an outage is never a finding |
| `MetricsAreReal` | a request answers from every complete row; what is marked as stopped was stopped |
| `ListsAreRight` | an admitted run can be done and proved, and its items come in the planned order; dispatches spread evenly over a role's fleet, unless its environment variable names a runtime twice; a stored run is found by the list that merges the copies; an exchange stays in its conversation's memory; the p95 is the nearest rank |

Runs that TLC must find violated: places where the code does something else than its comments or its own
instructions to people say. `PROJECT.json` quotes each line under `findings`.

| Run | What the counterexample shows |
|---|---|
| `PullRequestsCoupled` | the graph stops in the repair of pull request 1, whose builder stays in error; the repair of pull request 2 is the checker's alone and ends well, and is blocked for the error of the other |
| `PullRequestsLostUpdate` | a commit of somebody else between base and publication is overwritten by the merge |
| `TerminalsFreeze` | once a terminal's buffer is at its cap, new output no longer reaches a stream: the total a tick compares with the viewer's offset stops growing |

The models have more behaviours that contradict a text of the repository, or that a reader of the code may
not expect. The passing properties are stated so as to allow them. Each of the following properties says what
the text says, stands in its module beside the others, and fails: added to the configuration that is named
(as an invariant, or where it speaks of steps as a property), it makes TLC show the counterexample.

| Property | Added to | The text it takes from | What TLC shows |
|---|---|---|---|
| `LandsWhatWasGated` | `PullRequestsAdverse` | `engine.py:2885-2889`, "on the CURRENT base ... the whole cross-role guarantee" | a commit of somebody else between gate and merge: a tree lands that no gate ran on |
| `BlipCostsNoPullRequest` | `PullRequestsAdverse` | `github.py:208-210`, "One transient network failure must not cost an attendee a role or integration PR" | GitHub merged, the answer was lost, the repeated call is refused: blocked with `MERGE_REFUSED` |
| `CapIsDecided` | `PullRequestsAdverse` | `engine.py:3446`, 3586-3587, "a real gate or review decided against real work" | the review after a repair is out of service: blocked with `ITERATION_CAP` (`engine.py:3009`) |
| `EvidenceIsOffTheVerdict` | `PullRequestsAdverse` | `engine.py:3185-3188`, "nothing here is on the verdict path" | the evidence commit fails (`engine.py:3066`), and a run whose pull requests are settled ends `ENGINE_ERROR` |
| `SweptIsLost` | `RunLifecycleAlone` | `engine.py:398-408`, "or the sweeper kills a run that is still legitimately working" | two pull requests, each repaired once, take three rounds; the threshold is derived from two |
| `StrandedIsFinal` | `RunLifecycleAlone` | `engine.py:769-770`, "can never double-transition the same run" | the worker comes out of its round and assigns its status over the sweeper's |
| `InterruptedIsOver` | `RunLifecycleAlone` | `run_store.py:137-142`, "no process can advance" | a failed repair (`engine.py:2458`) ends the heartbeat of a run that goes on |
| `NoLeak`, with `Items = 2` | `RoleTurnsMixed` | `engine.py:1882-1885`, "nothing from the previous pull request's check can leak into the next one" | a command that was given up on uploads after the next pull request's tree was staged |
| `IdleIsRefused` | `Console` | `engine.py:1762-1765`, "the cloned repository itself is not evidence of role work" | a file tracked under `.venv`, `venv`, `.next` or `.cache` is in no archive (`runtime_stage.py:35`, `runtime_exec.py:68`) and not excluded from the patch (`engine.py:256`): a builder that did nothing deleted it |
| `OverIsDisconnected` | `Console` | `runtime_shell.py:197-198`, "so the `async for` in `_connect` exits and the WebSocket closes" | the loop is stopped, the thread ends, and `_connect` stays inside the shell's context |
| `ClosedEnds` | `Console` | `runtime_shell.py:386-388`, "so the human closing a tab truly ends the PTY" | a tab closed before its thread has a loop: nobody tells it to stop, and the shell opens afterwards |
| `MeasuredSizeIsUsed` | `Console` | `runtime_shell.py:289-290`, "sets the width the banner paints at" | a size measured while the shell is being opened is written over by the first one |
| `StreamIsWhole` | `Console` | `runtime_shell.py:446-450`, "Both see the same screen" | what the shell says between a stream's look and its subscription |
| `ByteForByte` | `Console` | `useSession.ts:12`, "byte-for-byte" | a character that two reads share shows as two replacement marks when a look falls between them (`interactive_api.py:656`) |
| `EveryPathLeadsBack` | `Console` | `interactive_api.py:1002-1008`, "the open/read/write round-trip broke" | in the home folder, whose label is `~` (`:837-844`), a file with that character in its name is shown under a path that leads to another file (`:1093`) |
| `OfferedToolsAreRouted` | `Console` | `chat.py:231` against `presets.py:266-267` | the tool of a checker is offered and its run refused |
| `DoctorProvesPath` | `Console` | the doctor's "ready" | it has proved that the App can push, not that it may open or label a pull request |
| `OthersAreRefused` | `Console` | the refusal that `runtime_config.py` announces | an ARN that the settings wire as well as a deployment is removed from the settings only and stays wired |
| `ReadyOnlyWhenDeployed`, `EditsSurvive` | `Console` | the shelf's states | "ready" after the configuration was removed; a restart forgets the edits |

What has no such property:

- a checker thread that its round gave up on may write "done" over the state that a later round's watchdog
  relies on (`engine.py:2422`), so that the later round succeeds without its checker; it may also clear the
  checks, or rebuild a gate directory while the worker gates, which ends the run with `ENGINE_ERROR`.
  `RoundsAreWhole` is claimed of the rounds that no such thread has written into, and that a gate finds its
  directory while none has written at all (`late`): what such a thread removed in one round may be missed in a
  later one, from four builders on, which is more than any run takes; the attempt to prove it showed so;
- a merge that took place is reported blocked when the snapshot after it fails (`ReportMatchesGitHub` is
  checked of a run whose calls are answered);
- a stale pull request takes its repair turn on the base it is stale against: `_refresh_pending_work` has
  no caller (`engine.py:2750`);
- a run that a failed repair made look over is hidden from the admission limit as well (`InterruptedIsDead`
  and `LimitKept` except lapsed runs);
- a heartbeat that built its snapshot before the verdict may save it after (`EveryRunIsAnswered` needs
  only that a stale state is answered as interrupted);
- `run_build` resolves its routing twice (`chat.py:305-321`); a preset's capability that nobody serves is
  dropped without a word (`roles.py:446-448`, `presets.py:226-231`);
- a read-only review asks for no evidence, and runs again only the last check its target had authored, in
  that check's old gate directory and with the composed tree as `WORKSHOP_WORK_DIR`
  (`reviewer.py:238-242`); a target that is named need not have passed, and one that is pruned meanwhile
  ends as a red gate; an `approve` of `"false"` counts as approval (`reviewer.py:403`);
- a live checker that meets the daily quota leaves no file and is dispatched again, against
  `engine.py:1295`; a builder's repair that wrote nothing, or whose read-back failed, is judged on the
  work of its former turns (`OwnEvidence` asks that a repair has at least that);
- a file that the repository tracks in spite of its own `.gitignore` is in the base and in no worktree
  (`runtime_exec.py:379-387`, `work_items.py:216-220`), so that every builder's pull request deletes it as
  well (`TreesAreCarried` excepts these paths, and those of `IdleIsRefused`, as `Dropped`). What a role writes
  under an ignored name is dropped before its repair. A read-back that fails leaves `.mcp/servers.jsonl`,
  which the harness wrote, in the patch;
- a live holder that outlasts the lease goes on committing to its successor's branch (`EvidenceIsOwn` is
  checked with timely holders);
- the list of runs shows an interrupted run as "running" for ever, where `run_status` says interrupted
  (`run_store.py:138-142` against `chat.py:379-384`); after a save that the disk refused, `load` answers the
  older copy (`run_store.py:115`);
- attempts of one commit that ran beside each other may replace one another's, and the one that is heard
  need not be the last (`overlap`); two edits of the wiring that overlap lose one (`muddled`);
- explorer and search disagree on which directories with a dot they hide;
- two threads that interleave the two stores of the ledger's cache leave stale rows until the next append,
  against `metrics_lib.py:71-72` (`mixed`); a run that was swept and then settled has two rows, so that its
  cost counts twice and the kill switch takes the first row's session; rows of kind `stage1_conversion` are
  read and never written (`metrics_lib.py:126-152`); a run that fails before its end is settled has no row.

Bounds, and why they are enough.

- Two builders (`N = 2`): every coupling between pull requests in the code is from one to a later one. The
  theorems cover any number.
- Two paths and four contents: a path of the base that is edited, deleted or edited differently, and one
  that is added; both sides of every case of the three-way guard occur. The runs with faults or outside
  steps, and the violations, take three contents and two turns, one editing the path of the base and one
  deleting it and adding the other: two builders still meet on a path, and still differ there.
- `MaxIterations = 2` is the code's value (but see `RunLifecyclePair`). `MaxOutside = 1`: one step of somebody else suffices for every
  violation, and the properties proved hold for any number.
- One run suffices where the property is about one (`RunLifecycle` runs share only the admission count);
  two for the limit. `Repairs` is the number of pull requests: 2 in `RunLifecycleAlone`, the first value
  that outlasts `STRANDED_AFTER_S`, and 1 in `RunLifecyclePair`, whose threshold covers one round
  (`MaxIterations = 1`) so that there too a repair may be swept; its calls are answered (`Faults = FALSE`),
  for with two runs that fail in every way there are eleven million states, which hold the limit too.
- One pull request and one repair in `RoleTurnsMixed`: every turn after the first differs from it in the
  same way. `Survivors = 1`: one command is enough to leak, and with none nothing leaks (a theorem). Whether
  a run goes on after a failed repair would need a second repair; that case is covered by the theorems only.
- Three runs in `ComposeLease`: an evicted holder, its successor, and the one a wrong release would let in.
- `GatewayCalls`: one item, two attempts (the code's `_RPC_ATTEMPTS` is three; two already run beside each
  other), two publications, two steps of others. An item's next publication begins when the attempts of the
  former are over.
- `Console`, rounds: two builders, one repair each, so a thread may outlive one or two rounds. Fleet: one
  role with a harness, one without, two deploys, two edits by one editor. Connections: two doctors and two
  repositories, two savers and three saves. Terminals: a session of either kind, two shells, two chunks, of one
  shell or of both, the first of which ends inside a character (`Torn`), and a buffer of two; `TerminalsFreeze` has the third chunk. Remote shells: two attempts, four outputs. Files:
  two names, `a` and `a~`, of which one is junk, to a depth of two, in the home folder, whose label is `~`; the limits on nodes and sizes are left out. Chat: two
  turns of one conversation that remembers one exchange. Trees: a repository with no file and one with every
  kind, two turns, one path that the role touches, twice if it likes (the larger instance with two paths has
  338,000 states and passes too). History: two sessions, two runs, three saves, one
  file kept, a list of one. Review: two runs that end, one directory kept. Metrics: one run, two requests; the p95 over samples of
  0, 1, 3, 19, 20, 21, 40 and 41 values, on both sides of every step of the rank.

`CHECK_DEADLOCK FALSE` everywhere: runs end, and a session whose runs are over has nothing left to do.

Fairness. `PullRequests!FairSpec`: every step of a role or of the worker is bounded by a timeout in the
code (phase budget, `GATE_TIMEOUT_S`, the gateway's timeouts), so roles together and the worker keep
moving; others owe nothing. `RunLifecycle!FairSpec`: threads are scheduled, the sweep comes round every
minute and time passes; a hung worker is never helped. `ComposeLease!FairSpec`: threads are scheduled, time
passes; a hung holder stays hung. `RoleTurns!FairSpec`: the role's thread is scheduled and its deadlines
pass, for `_drive_shell` waits for each frame under the time that is left; shells, terminals and runtimes
owe nothing, not even an end. (Opening a shell is not under that deadline: the code leaves it to the client
library, and the model takes it for bounded.) `GatewayCalls!FairSpec`: the client's time-outs pass; servers,
GitHub and other people owe nothing. The parts of `Console` have no liveness property and need no fairness.

## 4. What is proved

Checked by TLAPS for every value of the constants under the named assumptions of the modules that a theorem is
about: of each module of section 2 the one named after it, with `Assumption` at its end (`TreePatch` has
`AbsentAssumption`, `WorkspaceFiles` has `FilesAssumption`). They say that a bound is a number, that a set is
finite where it is counted, and that the names for "nothing" name nothing else. A theorem that needs more says
so in its `ASSUME`.

- `PullRequestsProofs`, of patches (`TreePatch`): one that is not stale overwrites nothing others changed; what
  GitHub leaves when it merges the published commit is the tree the gate builds; a refresh is current, keeps
  the owner's work and follows the base.
- The same module, of runs: `TypeCorrect`, `SettledProven`, `RepairBounded`, `VerdictMatches`,
  `OutageNotRepaired`. None of the four properties is inductive. `Inductive` adds: where the worker can
  stand in which status (`Placed`); that pull requests are finalized in order, so those behind `cur` have
  an outcome and those ahead have none (`Ordered`); that the published commit of a pull request carries
  its work (`CommitsCarryWork`); that the gate and the review on record are those of the present work at
  the places that rely on them (`EvidenceIsCurrent`), which is why a repair must be gated and reviewed
  again; that a builder's turns are counted by where the run is (`RoundsCounted`); and that the verdict is
  the one the merge states call for (`VerdictIsLast`).
- The same module, of a run that is alone and whose calls are answered (`~Faults`, `MaxOutside = 0`, the
  setting of `PullRequestsAlone`; without it each of the three is false, see section 3): `ReportAgrees`,
  `GatedIsLanded`, `ForeignSurvives`. To `Inductive` they add that every pull request is open when
  finalization begins (`Opened`) and is what the run says of it (`Reported`); that the base is the branch
  but for the snapshot after a merge, and the branch keeps what a commit found there (`Grown`); and that the
  gated tree is the present work on the present base, which it fits (`GatedOnBase`). `LandsOnGrown` then
  takes `GatedTreeLandsOnItsBase` to the merge.
- The same module: `KeepsItsPromise`, that `PullRequests` implements `Delivery`, for any number of builders,
  failures and outsiders. `Deliverable` adds to `Inductive` what the mapping needs: that a run which begins to
  finalize has opened every pull request (`Opened`), and that what is approved was approved last, at the
  merge or before (`ApprovedLast`). `StepKeepsPromise` then takes each action to one of `Delivery`, or to
  none: a gate or a review is a step only when it completes a proof (`Prove`) or ends the attempt (`GiveUp`).
- `RunLifecycleProofs`: `TypeCorrect`, `FailedForGood`, `InterruptedDead`, `VerdictFinal`, from `Typed`,
  `Verdicts` (which statuses and reasons are possible at each place of the worker) and `Alive` (a
  heartbeat is gone only when the status was seen terminal). `LimitIsKept` counts: whoever is worked at and
  has not lapsed (`InHand`) is among those that a run asking for admission counts, and an admission is the
  only step that brings a run in hand. `SweptAreOverdue`, for any number of repairs: what the sweeper has found
  hangs or has begun more rounds than the threshold allows for, and a worker that goes on stays so
  (`FoundOutlast`).
- `ComposeLeaseProofs`: `TypeCorrect` and `EvictionIsFair` without further assumption, from `Leased`;
  `EvidenceOwn` and `Implements` assume `~Slow`: then at most one run composes (`Alone`), and the state of
  the repository at each of its steps is determined (`Repository`).
- `RoleTurnsProofs`: `TypeCorrect`, `EvidenceIsTheTurns` and, for `Survivors = 0`, `NothingLeaks`.
  `OwnEvidence` speaks of what was judged; the invariant adds what may be judged next: whoever can still
  upload is awaited or in `orphans` (`Accounted`); while no earlier turn's command survives, the archive
  and every tree that may yet be written over it fit the present turn (`Fitting`), which is why a turn
  may not start on an archive that was not staged anew; and a builder's work tree has everything its turns
  were judged on (`Judged`).
- `GatewayCallsProofs`: `TypeCorrect`, `ReportTrue`, `WritesSeeing`. `Inductive` holds of each item: unless
  attempts overlapped, one runs at a time, for the call that is waited for or was given up, and the branch
  is at the head the client was told of (`OneAtATime`); and, late attempts or not, what each call needs has
  been left by the call before it (`Leaves`).
- `RoundsProofs`: `OutcomesAreProven` and `ChecksLeaveNothing`, from what each place of a judgement has
  behind it (`Placed`); `RoundsHold`, for any number of builders: a role has one thread in a round, the
  checker's waits for the builders', a role that is recorded as done has done its turn of this round and
  each check is of it (`RecordIsTrue`, `ChecksMade`), and a recorded check still to be gated has its
  directory (`ChecksKept`), as long as no thread of an earlier round wrote; `TreesHold`, for any repository
  and any number of turns: every station holds the repository but for what the role did, on the paths that
  no station leaves out (`Carried`).
- `ListsProofs`: induction over data is beyond the prover, since it takes an operator as a parameter. It is
  replaced by its reason: the places of a list at which a statement fails are a set of numbers, and a set of
  numbers has a least one (`LeastNumber`, from the library's theorem about the order of the naturals). So the
  module proves that a loop has the value its body says (`TakesExists`, `TakesEach`), what it keeps of a list
  (`OnlyPicks`, `OnlyOfConcat`, `DroppingIsOnly`), and on that what the parts need. Routing (`RoutingHolds`): a
  list of roles is ordered, free of repetition and within the roster, the chain of an order names each item once
  and puts it after those it needs (`ChainIsFollowed`). Chat: a conversation's memory ends with its last
  exchanges, whatever the trimming drops (`MemoryHolds`, `TrimKeeps`). The stored runs (`HistoryHolds`): pruning
  keeps the newest (`PruneLeaves`), and the merged list has every run that some copy has. Latencies: the rank is
  a ceiling and the value at it the least that enough of the sample do not exceed (`RankIsCeiling`,
  `PlaceIsLeast`). Files: the text of a path splits into the names it was made of (`TextLeadsBack`), and every
  handler leaves a tree a tree (`MovedIsTree`, `ScaffoldIsTree`, `DeletedIsTree` and the like).
- `ConsoleProofs`, over `MCConsole` with any constants: `DeploymentsStayServed`, `ConnectionsStayReal`,
  `ProcessesEnd`, `FollowersSeeAll`, `StreamsHaveOneGap`, `RunsStaySound`, `MetricsStayReal`, `ListsStayRight`,
  `ShownPathsStayTrue`, `PartsAreTyped`. Each part has an invariant of its own: what a script has done at each
  of its steps (`ScriptsHold`); that an edit that met no other writes the file it read, changed as asked
  (`EditsHold`); that the instances of a fleet have had their turns in order, up to the cursor
  (`SpreadsEvenly`); that a steady doctor has seen the present grants, and a single saver's key is in the vault
  before the note (`ConnectionsHold`); that a running shell is the one its session shows (`ShellsMatch`); that a
  screen is the first chunks of its shell up to the offset (`ScreensHold`); that what a stream has shown and
  what is queued for it are the numbers from its start on, but for the gap (`StreamsFollow`); what a turn has
  told of each run (`TurnsHold`); that a cached row set is a state of the ledger no older than its key, and that
  a marked session is gone (`LedgerHolds`). `TypesHold` has what the type invariant says beyond these, which is
  not inductive by itself: that a doctor past its first look knows its repository (`DoctorsProbe`), that a run
  asks the model once for its roles and twice for the order (`AskedRarely`), that the cache's key is a size the
  ledger had (`KeyedAndLive`), that no thread is ahead of the round that runs (`RoundsCounted`). `EachPartSteps`
  shows that a step of the composition is a step of each part or leaves it alone, and `PartsKeep` that all of
  them hold together.

`ShownPathsStayTrue` needs no assumption on the folder's label: the replacement of a text in a text is followed
from left to right (`Scan`), and where neither label nor real path is in the names below the folder there is
exactly one occurrence, at the front. Where they are, the property claims nothing, and `EveryPathLeadsBack`
(section 3) is false. `ProcessesEnd` is of local shells and of services; that a remote shell's connection ends
with its tab is false (`OverIsDisconnected`, `ClosedEnds`).

Every safety property that a passing run checks is stated by a theorem. Only model-checked, and why:

- the liveness properties `EventuallySettles`, `EveryRunIsAnswered`, `EveryoneIsLetIn`,
  `EveryTurnIsAnswered` and `PublicationsEnd`: fairness and ENABLED are beyond the prover. What they rest on
  is proved: that the worker is where its status says, and that rounds, repairs and attempts are bounded.

## 5. Plan

Every part of the plan is modelled, and every safety property that a run checks is a theorem. What could
still be done: to show that the publication step of `PullRequests` is what the calls of `GatewayCalls` add up to.
The two meet in `ReportIsTrue`, whose head and pull request are what `Publish` takes for granted; a
refinement would have to run a publication of `GatewayCalls` inside `PullRequests`, whose state space TLC could
not cover with it.

Not modelled, and not planned: prompts, wording and rendering; authentication, forwarding and the web
application, whose requests are inputs here; one-table request handlers and the sample applications; the
query of the invocation logs, sums and time windows of the metrics; image builds, the gateway's deployment
and the packaging; replay and diagnosis, which only read. They hold no protocol: no state that two actors
share, nothing that is retried or resumed.
