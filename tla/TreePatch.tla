------------------------------ MODULE TreePatch ------------------------------
(***************************************************************************)
(* The pure part of orchestrator/work_items.py: the patch a role's tree is *)
(* relative to the base it received, and what becomes of that patch when   *)
(* it is laid over another base.                                           *)
(*                                                                         *)
(* A tree is a function from paths to contents.  A path with no file has   *)
(* the content Absent, so a deletion is an ordinary change and _MISSING of *)
(* the code is a value like the others.  Paths the code excludes           *)
(* (.workshop, .git) are not in Paths.                                     *)
(***************************************************************************)

CONSTANTS
    Paths,      \* the repository paths that matter
    Contents,   \* what a path may hold, "no file" among them
    Absent      \* the content of a path that has no file

ASSUME AbsentAssumption == Absent \in Contents

Trees == [Paths -> Contents]

-----------------------------------------------------------------------------
(* The changes of a work tree against the base its role received. *)
Changed(base, work) == {p \in Paths : base[p] # work[p]}

\* Mutant: a path the current base deleted is taken for unchanged.
ConflictsOfFiles(now, base, work) ==
    {p \in Changed(base, work) :
        now[p] # work[p] /\ now[p] # base[p] /\ now[p] # Absent}

(* What the three-way guard of apply_patch refuses: the current base `now`
   changed a path the role also changed, and changed it differently. *)
Conflicts(now, base, work) ==
    {p \in Changed(base, work) : now[p] # work[p] /\ now[p] # base[p]}

Stale(now, base, work) == Conflicts(now, base, work) # {}

(* The tree merging this one patch into `now` would produce. *)
Overlay(now, base, work) ==
    [p \in Paths |-> IF p \in Changed(base, work) THEN work[p] ELSE now[p]]

-----------------------------------------------------------------------------
(* The checkout prepare_refresh_checkout hands back to the owner of a stale
   patch: the latest base with the changes that still fit, and, beside it, the
   role's former proposal for every conflicting path it had not deleted. *)
RefreshTree(latest, base, work) ==
    [p \in Paths |->
        IF p \in Changed(base, work) \ Conflicts(latest, base, work)
        THEN work[p]
        ELSE latest[p]]

PriorWork(latest, base, work) ==
    {p \in Conflicts(latest, base, work) : work[p] # Absent}
=============================================================================
