------------------------------ MODULE WorkTree ------------------------------
(***************************************************************************)
(* The way of one builder's tree, from the repository to its pull request  *)
(* and to the checker (orchestrator/engine.py, work_items.py,              *)
(* runtime_stage.py, runtime_exec.py).  Each station leaves out files of   *)
(* its own choice: the archives, the commit a worktree is checked out of,  *)
(* the clearing before a read-back and the patch.  A path stands for the   *)
(* files that all stations treat alike.  Bounds: MaxTouched paths that the *)
(* role writes or deletes, MaxRounds turns of it.                          *)
(***************************************************************************)
EXTENDS Integers, FiniteSets

CONSTANTS
    Repositories,   \* what a default branch may track: sets of paths
    MaxTouched, MaxRounds

HarnessFiles == {"steering", "skill", "mcp"}   \* CLAUDE.md, skills/x, .mcp/servers.jsonl

\* A source file; one that is tracked although .gitignore names it; a file in .venv,
\* one in node_modules; a log; and the harness.
WorkPaths == {"code", "built", "venv", "modules", "log"} \cup HarnessFiles

ASSUME WorkTreeAssumption ==
    /\ Repositories \subseteq SUBSET WorkPaths
    /\ MaxTouched \in Nat /\ MaxRounds \in Nat \ {0}

GitIgnored == {"built"}

\* _ARCHIVE_EXCLUDES, _TREE_EXCLUDES
ArchiveExcludes == {"venv", "modules"}

\* _COMPOSE_SKIP_DIRS, _COMPOSE_SKIP_NAMES, _COMPOSE_SKIP_SUFFIXES
PatchExcludes == {"modules", "log", "steering", "skill"}

\* What a role's directory keeps when a new tree is read into it.
Kept == {"steering", "skill"}

VARIABLES
    trackedTree,  \* run.item_base_dir
    exchanged,    \* the role's exchange object
    runtimeTree,  \* the worktree of the command that runs
    roleDir,      \* run.roledir
    changes,      \* item._patch: the paths it writes or deletes
    step, round, skillsStaged,
    did, doing,   \* history: what the role did, in its archive and in its command
    fetched       \* history: the last read-back succeeded

workTreeVars == <<trackedTree, exchanged, runtimeTree, roleDir, changes, step, round, skillsStaged, did, doing, fetched>>

NoFiles == [p \in WorkPaths |-> "none"]
Untouched == [p \in WorkPaths |-> "nothing"]
FileTrees == [WorkPaths -> {"none", "repository", "role", "harness"}]

WorkTreeTypeOK ==
    /\ {trackedTree, exchanged, runtimeTree, roleDir} \subseteq FileTrees
    /\ changes \subseteq WorkPaths
    /\ step \in {"preparing", "installing", "ready", "working", "reading", "changed", "inspected", "over"}
    /\ round \in 1..MaxRounds
    /\ {did, doing} \subseteq [WorkPaths -> {"nothing", "wrote", "deleted"}]
    /\ skillsStaged \in BOOLEAN /\ fetched \in BOOLEAN

WorkTreeInit ==
    /\ trackedTree = NoFiles /\ exchanged = NoFiles /\ runtimeTree = NoFiles
    /\ roleDir = NoFiles /\ changes = {}
    /\ step = "preparing" /\ round = 1 /\ skillsStaged = FALSE
    /\ did = Untouched /\ doing = Untouched /\ fetched = FALSE
-----------------------------------------------------------------------------
Without(tree, paths) == [p \in WorkPaths |-> IF p \in paths THEN "none" ELSE tree[p]]

Archived(tree) == Without(tree, ArchiveExcludes)

(* The seed is committed with `git add -A`, and the worktree checked out of it. *)
CheckedOut(tree) == Without(tree, GitIgnored)

(* The snapshot of the default branch: unpacked beside its place and moved there
   whole, or not at all. *)
Extracted(tracked) == [p \in WorkPaths |-> IF p \in tracked THEN "repository" ELSE "none"]

(* The base is staged for the runtime and checked out for the coordinator. *)
SeedCheckouts ==
    /\ step = "preparing"
    /\ \E tracked \in Repositories :
          LET base == Extracted(tracked) IN
          /\ trackedTree' = base
          /\ exchanged' = Archived(base)
          /\ roleDir' = CheckedOut(base)
    /\ step' = "installing"
    /\ UNCHANGED <<runtimeTree, changes, round, skillsStaged, did, doing, fetched>>

(* No snapshot, no wired runtime, or the archive is not cloned. *)
SeedFails ==
    /\ step = "preparing"
    /\ step' = "over"
    /\ UNCHANGED <<trackedTree, exchanged, runtimeTree, roleDir, changes, round, skillsStaged, did, doing, fetched>>

(* A line of the harness that the policy denies, that fails or that times out is
   recorded, and the next one is run. *)
Installed == SUBSET HarnessFiles

\* The upload of the skills is tried on every turn; its failure is a warning.
SkillsUploaded == {TRUE, skillsStaged}

InstallHarness ==
    /\ step = "installing"
    /\ \E got \in Installed :
          roleDir' = [p \in WorkPaths |-> IF p \in got THEN "harness" ELSE roleDir[p]]
    /\ skillsStaged' \in SkillsUploaded
    /\ step' = "ready"
    /\ UNCHANGED <<trackedTree, exchanged, runtimeTree, changes, round, did, doing, fetched>>

(* The command makes its worktree of the object, and lays skills and steering in it. *)
Hydrate ==
    /\ step = "ready"
    /\ runtimeTree' = [CheckedOut(exchanged) EXCEPT
          !["steering"] = "harness",
          !["skill"] = IF skillsStaged THEN "harness" ELSE @]
    /\ doing' = did
    /\ step' = "working"
    /\ UNCHANGED <<trackedTree, exchanged, roleDir, changes, round, skillsStaged, did, fetched>>

Touches(p, how) ==
    /\ step = "working"
    /\ runtimeTree[p] # (IF how = "wrote" THEN "role" ELSE "none")
    /\ runtimeTree' = [runtimeTree EXCEPT ![p] = IF how = "wrote" THEN "role" ELSE "none"]
    /\ doing' = [doing EXCEPT ![p] = how]
    /\ Cardinality({q \in WorkPaths : doing'[q] # "nothing"}) <= MaxTouched
    /\ UNCHANGED <<trackedTree, exchanged, roleDir, changes, step, round, skillsStaged, did, fetched>>

(* The result replaces the object, whatever the CLI's status.  A status that is not
   0 is answered with one more dispatch, or ends the turn. *)
PackAndUpload ==
    /\ step = "working"
    /\ exchanged' = Archived(runtimeTree) /\ did' = doing
    /\ runtimeTree' = NoFiles
    /\ step' \in {"reading", "ready", "over"}
    /\ UNCHANGED <<trackedTree, roleDir, changes, round, skillsStaged, doing, fetched>>

(* Nothing is uploaded: the work of this command is lost. *)
CommandLost ==
    /\ step \in {"ready", "working"}
    /\ runtimeTree' = NoFiles /\ doing' = did
    /\ step' \in {"ready", "over"}
    /\ UNCHANGED <<trackedTree, exchanged, roleDir, changes, round, skillsStaged, did, fetched>>

\* Mutant: what the former turn left stays beside the new tree.
ClearedOfNothing(dir) == dir

(* _clear_transferred: only names at the top of the directory are kept. *)
ClearTransferred(dir) == Without(dir, WorkPaths \ Kept)

ReadBack == [p \in WorkPaths |-> IF exchanged[p] = "none" THEN ClearTransferred(roleDir)[p] ELSE exchanged[p]]

Differing(base, tree) == {p \in WorkPaths \ PatchExcludes : base[p] # tree[p]}

(* A read-back that fails is logged, and the directory judged as it is. *)
RequireItemChange ==
    /\ step = "reading"
    /\ fetched' \in BOOLEAN
    /\ roleDir' = IF fetched' THEN ReadBack ELSE roleDir
    /\ changes' = Differing(trackedTree, roleDir')
    /\ step' = IF changes' = {} THEN "over" ELSE "changed"
    /\ UNCHANGED <<trackedTree, exchanged, runtimeTree, round, skillsStaged, did, doing>>

(* The tree that merging the pull request would produce; the gate is run on it. *)
Merged == [p \in WorkPaths |-> IF p \in changes THEN roleDir[p] ELSE Without(trackedTree, PatchExcludes)[p]]

(* The checker's command works in that tree, archived and checked out like the base. *)
Inspected == CheckedOut(Archived(Merged))

StageForChecker ==
    /\ step = "changed"
    /\ step' = "inspected"
    /\ UNCHANGED <<trackedTree, exchanged, runtimeTree, roleDir, changes, round, skillsStaged, did, doing, fetched>>

(* The repair installs the harness again and goes on from the builder's object. *)
RepairStarts ==
    /\ step = "inspected" /\ round < MaxRounds
    /\ round' = round + 1 /\ step' = "installing"
    /\ UNCHANGED <<trackedTree, exchanged, runtimeTree, roleDir, changes, skillsStaged, did, doing, fetched>>

WorkTreeNext ==
    \/ SeedCheckouts \/ SeedFails \/ InstallHarness \/ Hydrate
    \/ \E p \in WorkPaths, how \in {"wrote", "deleted"} : Touches(p, how)
    \/ PackAndUpload \/ CommandLost
    \/ RequireItemChange \/ StageForChecker \/ RepairStarts

WorkTreeSpec == WorkTreeInit /\ [][WorkTreeNext]_workTreeVars
-----------------------------------------------------------------------------
(* Properties. *)

Judged == step \in {"changed", "inspected"}

\* The paths that some station drops although the patch speaks of them.
Dropped == (GitIgnored \cup ArchiveExcludes) \ PatchExcludes

(* A pull request changes what its role wrote or deleted and nothing else
   (_require_item_change), but for the paths that are dropped on the way, and for
   the list of tool servers when the read-back failed that would have cleared it. *)
PatchIsOwn ==
    Judged => \A p \in changes \ Dropped : did[p] # "nothing" \/ (p = "mcp" /\ ~fetched)

(* What the role did, over all its turns, is what the pull request proposes once its
   tree was read back (_read_work_tree, _clear_transferred). *)
WorkArrives ==
    Judged /\ fetched =>
        \A p \in WorkPaths \ (PatchExcludes \cup Dropped) :
            /\ did[p] = "wrote" => Merged[p] = "role"
            /\ did[p] = "deleted" => Merged[p] = "none"

(* The checker writes its check beside the files that the gate runs it on
   (_gate_dir_check_path), except for those dropped on the way. *)
CheckerSeesGated ==
    step = "inspected" => \A p \in WorkPaths \ Dropped : Inspected[p] = Merged[p]

TreesAreCarried == PatchIsOwn /\ WorkArrives /\ CheckerSeesGated

(* "The cloned repository itself is not evidence of role work": a builder whose turn
   is accepted, on the tree it was read back from, did something
   (_require_item_change). *)
IdleIsRefused == Judged /\ fetched => \E p \in WorkPaths : did[p] # "nothing"
=============================================================================
