--------------------------- MODULE MCComposeLease ---------------------------
(* Three runs that compose at the same time: a holder, its successor, and one
   that a wrongly released lease would let in beside it. *)
EXTENDS ComposeLease

CONSTANTS r1, r2, r3, none

MCRuns == {r1, r2, r3}
=============================================================================
