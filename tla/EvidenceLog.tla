----------------------------- MODULE EvidenceLog -----------------------------
(***************************************************************************)
(* What the composed repository promises: runs record their evidence one   *)
(* at a time, each at most once, and what is recorded for a run is exactly *)
(* what the run produced, whatever the runs before it left behind.         *)
(***************************************************************************)
CONSTANTS Runs, NoRun

VARIABLES
    writer, \* the run that is recording, NoRun when none is
    log     \* the runs whose work is in the commit recorded for a run

vars == <<writer, log>>

None == {NoRun}     \* nothing is recorded for the run

Init == writer = NoRun /\ log = [r \in Runs |-> None]

Enter(r) ==
    /\ writer = NoRun /\ log[r] = None
    /\ writer' = r
    /\ UNCHANGED log

Record(r) ==
    /\ writer = r
    /\ log' = [log EXCEPT ![r] = {r}]
    /\ writer' = NoRun

(* A run that fails, or hangs, records nothing. *)
Leave(r) ==
    /\ writer = r
    /\ writer' = NoRun
    /\ UNCHANGED log

Next == \E r \in Runs : Enter(r) \/ Record(r) \/ Leave(r)

Spec == Init /\ [][Next]_vars
=============================================================================
