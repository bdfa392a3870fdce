--------------------------- MODULE MCPullRequests ---------------------------
(* Finite instances of PullRequests: two paths, one of which has a file in the
   base; a builder edits it, deletes it, adds the other one, or does both. *)
EXTENDS PullRequests

CONSTANTS p, q, none, old, new, other

MCPaths == {p, q}
MCContents == {none, old, new, other}
MCBase == [x \in MCPaths |-> IF x = p THEN old ELSE none]
MCTurns == {[MCBase EXCEPT ![p] = new], [MCBase EXCEPT ![p] = none],
            [MCBase EXCEPT ![q] = new], [MCBase EXCEPT ![p] = other, ![q] = new]}

\* Two turns and three contents, for the larger instances: both touch one path.
MCFewContents == {none, old, new}
MCFewTurns == {[MCBase EXCEPT ![p] = new], [MCBase EXCEPT ![p] = none, ![q] = new]}
=============================================================================
