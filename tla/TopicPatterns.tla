--------------------------- MODULE TopicPatterns ---------------------------
(***************************************************************************)
(* Topic paths and subscription patterns of Broker/Entities/TopicNode.cs.  *)
(* A path is the sequence of the segments of a routing key split at '/'; a *)
(* tree is the set of the paths of its nodes, the root left out, closed    *)
(* under taking the parent.                                                *)
(***************************************************************************)
EXTENDS Integers, Sequences

AllSubsequentLayersPattern == "#"
SubsequentLayerPattern == "*"

Root == << >>

\* The nodes on the way from the root to the node of a path, itself included.
Prefixes(path) == {SubSeq(path, 1, n) : n \in 1 .. Len(path)}

Parent(path) == SubSeq(path, 1, Len(path) - 1)

\* n is the node base or one of its descendants.
IsBelow(base, n) ==
    /\ Len(n) >= Len(base)
    /\ \A i \in 1 .. Len(base) : n[i] = base[i]

Children(tree, node) ==
    {n \in tree : Len(n) = Len(node) + 1 /\ IsBelow(node, n)}

IsLeaf(tree, node) == Children(tree, node) = {}

-----------------------------------------------------------------------------
(* What the three operations of the tree compute, each under the lock of   *)
(* ConcurrentTopicNode; TopicTree takes them step by step.                 *)

AddTopicNodes(tree, path) == tree \cup Prefixes(path)

\* Only a leaf is removed, and with it every ancestor that leads nowhere else.
RemoveTopicNodes(tree, path) ==
    IF path \in tree /\ IsLeaf(tree, path)
    THEN tree \ {n \in Prefixes(path) :
                    \A m \in tree : IsBelow(n, m) => m \in Prefixes(path)}
    ELSE tree

LayerMatches(key, segment) == key \in {SubsequentLayerPattern, segment}

\* The first n layers of the path match those of the pattern, none of them "#".
LayersMatch(pattern, path, n) ==
    \A i \in 1 .. n : /\ pattern[i] # AllSubsequentLayersPattern
                      /\ LayerMatches(pattern[i], path[i])

\* "*" stands for one layer; "#" for the node reached and everything below it,
\* whatever follows in the pattern.
Matches(pattern, path) ==
    \/ Len(path) = Len(pattern) /\ LayersMatch(pattern, path, Len(pattern))
    \/ \E h \in 1 .. Len(pattern) :
          /\ pattern[h] = AllSubsequentLayersPattern
          /\ Len(path) >= h - 1
          /\ LayersMatch(pattern, path, h - 1)

GetTopicNodes(tree, pattern) ==
    {n \in tree \cup {Root} : Matches(pattern, n)}

=============================================================================
