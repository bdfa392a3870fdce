------------------------------ MODULE RunHistory ------------------------------
(***************************************************************************)
(* The history of runs (orchestrator/run_store.py): every save of a run    *)
(* goes to the disk of the session that executes it, where old files are   *)
(* pruned, and then to a mirror that other sessions can read.  list_runs   *)
(* merges the two.  A copy of a run is the clock at which it was written   *)
(* and the number of its save.  Bounds: MaxRunSaves saves in all.          *)
(***************************************************************************)
EXTENDS Naturals, FiniteSetsExt

CONSTANTS
    Boxes,           \* the coordinator's sessions
    HistoryRuns,     \* the runs
    KeptFiles,       \* files that pruning keeps (_MAX_STATE_FILES)
    Limit,           \* the runs a list asks for
    MaxRunSaves

ASSUME RunHistoryAssumption ==
    IsFiniteSet(HistoryRuns) /\ KeptFiles \in Nat /\ Limit \in 1..KeptFiles /\ "" \notin Boxes

VARIABLES
    mirrored,  \* there is a mirror
    runAt,     \* the session that executes each run, once one does
    disk,      \* the copies on each session's disk
    mirror,    \* the copies in the mirror
    putting,   \* the saves that are on disk and not yet mirrored
    clock,     \* the time, which passes with every write
    lastSave   \* history: the last save of each run

historyVars == <<mirrored, runAt, disk, mirror, putting, clock, lastSave>>

NoBox == ""
NoCopy == [time |-> 0, save |-> 0]
NoCopies == [r \in HistoryRuns |-> NoCopy]
AllSaves == FoldSet(LAMBDA r, n : n + lastSave[r].count, 0, HistoryRuns)

HistoryInit ==
    /\ mirrored \in BOOLEAN
    /\ runAt = [r \in HistoryRuns |-> NoBox]
    /\ disk = [b \in Boxes |-> NoCopies]
    /\ mirror = NoCopies /\ putting = NoCopies /\ clock = 0
    /\ lastSave = [r \in HistoryRuns |-> [count |-> 0, time |-> 0, reached |-> TRUE, written |-> TRUE]]

Copies == [time : Nat, save : Nat]
HistoryTypeOK ==
    /\ runAt \in [HistoryRuns -> Boxes \cup {NoBox}]
    /\ disk \in [Boxes -> [HistoryRuns -> Copies]]
    /\ mirror \in [HistoryRuns -> Copies]
    /\ \A b \in Boxes : Cardinality({r \in HistoryRuns : disk[b][r] # NoCopy}) <= KeptFiles

-----------------------------------------------------------------------------
Held(copies) == {r \in HistoryRuns : copies[r] # NoCopy}

Newer(copies, r) == {s \in Held(copies) : copies[s].time > copies[r].time}

\* The n that were written last; no two copies have one time.
Newest(copies, n) == {r \in Held(copies) : Cardinality(Newer(copies, r)) < n}

KeepFiles(copies, files) == [r \in HistoryRuns |-> IF r \in files THEN copies[r] ELSE NoCopy]
\* Mutant: pruning keeps the oldest files.
PruneNewest(copies) ==
    KeepFiles(copies, {r \in Held(copies) : Cardinality({s \in Held(copies) : r \in Newer(copies, s)}) < KeptFiles})
Prune(copies) == KeepFiles(copies, Newest(copies, KeptFiles))

\* A save is on disk, unless the disk refuses it, and then on its way to the mirror.
Save(b, r, written) ==
    LET copy == [time |-> clock + 1, save |-> lastSave[r].count + 1] IN
    /\ runAt[r] \in {b, NoBox} /\ putting[r] = NoCopy /\ AllSaves < MaxRunSaves
    /\ runAt' = [runAt EXCEPT ![r] = b]
    /\ disk' = IF written THEN [disk EXCEPT ![b] = Prune([@ EXCEPT ![r] = copy])] ELSE disk
    /\ putting' = IF mirrored THEN [putting EXCEPT ![r] = copy] ELSE putting
    /\ lastSave' = [lastSave EXCEPT ![r] = [count |-> copy.save, time |-> copy.time,
                                      reached |-> written /\ ~mirrored, written |-> written]]
    /\ clock' = clock + 1
    /\ UNCHANGED <<mirrored, mirror>>

Mirrors(r, stored) ==
    /\ putting[r] # NoCopy
    /\ putting' = [putting EXCEPT ![r] = NoCopy]
    /\ mirror' = IF stored THEN [mirror EXCEPT ![r] = [putting[r] EXCEPT !.time = clock + 1]] ELSE mirror
    /\ lastSave' = [lastSave EXCEPT ![r].reached = stored, ![r].time = clock + 1]
    /\ clock' = clock + 1
    /\ UNCHANGED <<mirrored, runAt, disk>>

\* The session is recycled: its disk is new, and what it executed is over.
Recycled(b) ==
    /\ disk' = [disk EXCEPT ![b] = NoCopies]
    /\ putting' = [r \in HistoryRuns |-> IF runAt[r] = b THEN NoCopy ELSE putting[r]]
    /\ lastSave' = [r \in HistoryRuns |->
                   [lastSave[r] EXCEPT !.reached = @ /\ (mirrored \/ runAt[r] # b)]]
    /\ UNCHANGED <<mirrored, runAt, mirror, clock>>

HistoryNext ==
    \/ \E b \in Boxes : Recycled(b) \/ \E r \in HistoryRuns, written \in BOOLEAN : Save(b, r, written)
    \/ \E r \in HistoryRuns, stored \in BOOLEAN : Mirrors(r, stored)

-----------------------------------------------------------------------------
\* What a session answers

\* Of a run that is on disk and in the mirror, the copy written last.
Candidates(b) ==
    [r \in HistoryRuns |-> IF disk[b][r].time >= mirror[r].time THEN disk[b][r] ELSE mirror[r]]
Recent(b) == Newest(Candidates(b), Limit)

\* The disk first, then the mirror.
Load(b, r) == IF disk[b][r] # NoCopy THEN disk[b][r] ELSE mirror[r]

(***************************************************************************)
(* A run whose last save is where a session can read it is in that         *)
(* session's list, with that save, unless Limit other runs were saved      *)
(* since, and run_status answers the same save unless the disk refused it. *)
(* Pruned files, recycled sessions and lost saves of other runs change     *)
(* nothing of it.                                                          *)
(***************************************************************************)
RunsAreFound ==
    \A b \in Boxes, r \in HistoryRuns :
      LET newer == {s \in HistoryRuns : lastSave[s].time > lastSave[r].time} IN
      /\ lastSave[r].count > 0 /\ lastSave[r].reached /\ (mirrored \/ runAt[r] = b)
      /\ Cardinality(newer) < Limit
      => /\ r \in Recent(b)
         /\ Candidates(b)[r].save = lastSave[r].count
         /\ lastSave[r].written => Load(b, r).save = lastSave[r].count
==============================================================================
