------------------------------- MODULE KMeans -------------------------------
(***************************************************************************)
(* What the nodes compute together: the K-means of one process, which      *)
(* assigns every space to its closest group, moves every group to the      *)
(* barycentre of its spaces, all at once, and ends with the first          *)
(* iteration that moves no group by more than EPSILON.                     *)
(***************************************************************************)
EXTENDS Clustering

VARIABLES
    centres,    \* the barycentres after the last iteration
    ended       \* no group has moved

Init ==
    /\ centres = [g \in Groups |-> Whole(Start[g])]
    /\ ended = FALSE

Iterate ==
    /\ ~ended
    /\ centres' = [g \in Groups |-> Average({s \in Spaces : Closest(centres, s) = g})]
    /\ ended' = \A g \in Groups : UnderEpsilon(centres'[g], centres[g])

Spec == Init /\ [][Iterate]_<<centres, ended>>

=============================================================================
