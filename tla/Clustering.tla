----------------------------- MODULE Clustering -----------------------------
(***************************************************************************)
(* The arithmetic of the K-means of Node/.  A space is its place in the    *)
(* list of spaces, and stands for its normalized value; a group is its     *)
(* place in the list of groups.  A barycentre is an exact fraction, where  *)
(* the code has a double.                                                  *)
(***************************************************************************)
EXTENDS Integers, Sequences, FiniteSetsExt

CONSTANTS
    Values,     \* Values[s]: the normalized value of a space
    Start       \* Start[g]: the barycentre that the file of groups gives

ASSUME ClusteringAssumption ==
    /\ Values \in Seq(Nat)
    /\ Start \in Seq(Nat) /\ Start # << >>

Spaces == 1 .. Len(Values)
Groups == 1 .. Len(Start)

Whole(n) == [sum |-> n, count |-> 1]

Magnitude(n) == IF n < 0 THEN -n ELSE n

Nearer(a, b, v) ==
    Magnitude(a.sum - v * a.count) * b.count < Magnitude(b.sum - v * b.count) * a.count

\* The first of the groups at the least distance: OrderBy is stable.
Closest(centres, s) ==
    CHOOSE g \in Groups : \A h \in Groups :
        /\ ~Nearer(centres[h], centres[g], Values[s])
        /\ h < g => Nearer(centres[g], centres[h], Values[s])

\* Mutant: a group without spaces is not looked for.
AverageOfNone(spaces) ==
    [sum |-> MapThenSumSet(LAMBDA s : Values[s], spaces), count |-> Cardinality(spaces)]

\* The barycentre of some spaces: 0 when there are none.
Average(spaces) ==
    IF spaces = {} THEN Whole(0)
    ELSE [sum |-> MapThenSumSet(LAMBDA s : Values[s], spaces),
          count |-> Cardinality(spaces)]

\* The barycentre has moved by EPSILON (1.0) at most.
UnderEpsilon(a, b) == Magnitude(a.sum * b.count - b.sum * a.count) <= a.count * b.count

=============================================================================
