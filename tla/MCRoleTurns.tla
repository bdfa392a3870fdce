----------------------------- MODULE MCRoleTurns -----------------------------
(***************************************************************************)
(* Small instances of RoleTurns.                                           *)
(***************************************************************************)
EXTENDS RoleTurns

\* Both ways of dispatching a turn, and the coordinator's own.
MCBoth == {"headless", "live"}
MCHeadless == {"headless"}
=============================================================================
