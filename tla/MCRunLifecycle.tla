--------------------------- MODULE MCRunLifecycle ---------------------------
(* Finite instances of RunLifecycle: one run, or two that compete. *)
EXTENDS RunLifecycle

CONSTANTS r1, r2

MCOneRun == {r1}
MCTwoRuns == {r1, r2}
=============================================================================
