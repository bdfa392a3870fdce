-------------------------------- MODULE Lists --------------------------------
(***************************************************************************)
(* What the code makes of lists by going over them once, in order.         *)
(***************************************************************************)
EXTENDS Naturals, Sequences

\* The members of a list at some of its places.
InOrder(list, places) ==
    LET first[n \in 0..Len(list)] ==
          IF n = 0 THEN <<>>
          ELSE IF n \in places THEN Append(first[n - 1], list[n]) ELSE first[n - 1]
    IN  first[Len(list)]

\* Those that are in a set, as often as they occur.
Only(list, set) == InOrder(list, {i \in DOMAIN list : list[i] \in set})

\* Each once, where it occurs first.
Distinct(list) == InOrder(list, {i \in DOMAIN list : \A j \in 1..(i - 1) : list[j] # list[i]})
===============================================================================
