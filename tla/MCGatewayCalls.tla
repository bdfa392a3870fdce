--------------------------- MODULE MCGatewayCalls ---------------------------
EXTENDS GatewayCalls

(* The item's pull request carries its role's label, which other runs create as
   well, and one of its own. *)
RoleAndWork == [i \in Items |-> {"role", "work"}]
=============================================================================
