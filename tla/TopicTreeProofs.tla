--------------------------- MODULE TopicTreeProofs ---------------------------
(* Proofs about TopicTree.                                                 *)
EXTENDS TopicTree, TLAPS

-----------------------------------------------------------------------------
(* Paths.                                                                  *)

Path == Seq(STRING)

LEMMA BelowItself == ASSUME NEW a \in Path PROVE IsBelow(a, a)
BY DEF IsBelow, Path

LEMMA BelowTransitive ==
    ASSUME NEW a \in Path, NEW b \in Path, NEW c \in Path, IsBelow(a, b), IsBelow(b, c)
    PROVE  IsBelow(a, c)
BY DEF IsBelow, Path

\* Of two ancestors of a node one is an ancestor of the other.
LEMMA AncestorsOrdered ==
    ASSUME NEW a \in Path, NEW b \in Path, NEW c \in Path,
           IsBelow(a, c), IsBelow(b, c), Len(a) <= Len(b)
    PROVE  IsBelow(a, b)
BY DEF IsBelow, Path

LEMMA BelowSameLength ==
    ASSUME NEW a \in Path, NEW b \in Path, IsBelow(a, b), Len(a) = Len(b)
    PROVE  a = b
BY DEF IsBelow, Path

LEMMA SubPath ==
    ASSUME NEW c \in Path, NEW n \in 0 .. Len(c)
    PROVE  /\ SubSeq(c, 1, n) \in Path
           /\ Len(SubSeq(c, 1, n)) = n
           /\ \A i \in 1 .. n : SubSeq(c, 1, n)[i] = c[i]
           /\ IsBelow(SubSeq(c, 1, n), c)
BY DEF IsBelow, Path

\* The prefixes of a path are its ancestors and itself.
LEMMA PrefixesAreAncestors ==
    ASSUME NEW c \in Path
    PROVE  /\ Prefixes(c) \subseteq Path
           /\ \A a \in Path : a \in Prefixes(c) <=> Len(a) >= 1 /\ IsBelow(a, c)
<1>1. Prefixes(c) \subseteq Path
  <2> SUFFICES ASSUME NEW n \in 1 .. Len(c) PROVE SubSeq(c, 1, n) \in Path
    BY DEF Prefixes
  <2>1. n \in 0 .. Len(c) BY DEF Path
  <2> QED BY <2>1, SubPath
<1>2. ASSUME NEW a \in Path, a \in Prefixes(c) PROVE Len(a) >= 1 /\ IsBelow(a, c)
  <2>1. PICK n \in 1 .. Len(c) : a = SubSeq(c, 1, n) BY <1>2 DEF Prefixes
  <2>2. n \in 0 .. Len(c) BY DEF Path
  <2> QED BY <2>1, <2>2, SubPath
<1>3. ASSUME NEW a \in Path, Len(a) >= 1, IsBelow(a, c) PROVE a \in Prefixes(c)
  <2>1. Len(a) \in 1 .. Len(c) /\ Len(a) \in 0 .. Len(c)
    BY <1>3 DEF IsBelow, Path
  <2> DEFINE b == SubSeq(c, 1, Len(a))
  <2>2. b \in Path /\ Len(b) = Len(a) /\ IsBelow(b, c)
    BY <2>1, SubPath
  <2>3. a = b
    <3> HIDE DEF b
    <3>1. Len(a) <= Len(b) BY <2>1, <2>2
    <3> QED BY <1>3, <2>2, <3>1, AncestorsOrdered, BelowSameLength
  <2> QED BY <2>1, <2>3 DEF Prefixes
<1> QED BY <1>1, <1>2, <1>3

\* Below a node but not the node: there is a child of the node on the way.
LEMMA ChildOnTheWay ==
    ASSUME NEW a \in Path, NEW c \in Path, IsBelow(a, c), Len(c) > Len(a)
    PROVE  \E b \in Prefixes(c) : /\ b \in Path
                                  /\ Len(b) = Len(a) + 1
                                  /\ IsBelow(a, b)
                                  /\ IsBelow(b, c)
<1> DEFINE b == SubSeq(c, 1, Len(a) + 1)
<1>1. Len(a) + 1 \in 0 .. Len(c) /\ Len(a) + 1 >= 1 /\ Len(a) <= Len(a) + 1
  BY DEF Path
<1>2. b \in Path /\ Len(b) = Len(a) + 1 /\ IsBelow(b, c)
  BY <1>1, SubPath
<1> HIDE DEF b
<1>3. IsBelow(a, b)
  BY <1>1, <1>2, AncestorsOrdered
<1> QED BY <1>1, <1>2, <1>3, PrefixesAreAncestors

\* A set of paths with all their ancestors.
Closed(nodes) ==
    /\ nodes \subseteq Path
    /\ \A n \in nodes : Len(n) >= 1 /\ Prefixes(n) \subseteq nodes

LEMMA NodeOfPath ==
    ASSUME NEW path \in Path, NEW i \in 1 .. Len(path)
    PROVE  /\ SubSeq(path, 1, i) \in Prefixes(path)
           /\ SubSeq(path, 1, i) \in Path
           /\ Len(SubSeq(path, 1, i)) = i
           /\ IsBelow(SubSeq(path, 1, i), path)
           /\ \A n \in Prefixes(path) : Len(n) = i => n = SubSeq(path, 1, i)
<1> DEFINE node == SubSeq(path, 1, i)
<1>1. i \in 0 .. Len(path) /\ i >= 1 BY DEF Path
<1>2. node \in Path /\ Len(node) = i /\ IsBelow(node, path) BY <1>1, SubPath
<1> HIDE DEF node
<1>3. ASSUME NEW n \in Prefixes(path), Len(n) = i PROVE n = node
  <2>1. n \in Path /\ IsBelow(n, path) BY PrefixesAreAncestors
  <2>2. Len(n) <= Len(node) BY <1>1, <1>2, <1>3
  <2> QED BY <1>2, <1>3, <2>1, <2>2, AncestorsOrdered, BelowSameLength
<1>4. node \in Prefixes(path)
  BY <1>1, <1>2, PrefixesAreAncestors
<1> QED BY <1>2, <1>3, <1>4 DEF node

-----------------------------------------------------------------------------
(* What the walks do to a tree.                                            *)

\* The prefixes of the path that an addition has come by before its layer i.
Before(path, i) == {n \in Prefixes(path) : Len(n) < i}

LEMMA AddedClosed ==
    ASSUME NEW nodes, Closed(nodes), NEW path \in Path, NEW i \in Nat
    PROVE  Closed(nodes \cup Before(path, i))
<1> SUFFICES ASSUME NEW n \in Before(path, i)
             PROVE  n \in Path /\ Len(n) >= 1 /\ Prefixes(n) \subseteq Before(path, i)
  BY DEF Closed
<1>1. n \in Path /\ Len(n) >= 1 /\ IsBelow(n, path) /\ Len(n) < i
  BY PrefixesAreAncestors DEF Before
<1>2. ASSUME NEW a \in Prefixes(n) PROVE a \in Before(path, i)
  <2>1. a \in Path /\ Len(a) >= 1 /\ IsBelow(a, n)
    BY <1>1, PrefixesAreAncestors
  <2>2. IsBelow(a, path) /\ Len(a) < i
    <3>1. Len(a) <= Len(n) BY <2>1 DEF IsBelow
    <3>2. Len(a) \in Nat /\ Len(n) \in Nat BY <1>1, <2>1 DEF Path
    <3> QED BY <1>1, <2>1, <3>1, <3>2, BelowTransitive
  <2> QED BY <2>1, <2>2, PrefixesAreAncestors DEF Before
<1> QED BY <1>1, <1>2

\* One more layer is added.
LEMMA AddedLayer ==
    ASSUME NEW path \in Path, NEW i \in 1 .. Len(path)
    PROVE  /\ Before(path, i) \cup {SubSeq(path, 1, i)} = Before(path, i + 1)
           /\ i = Len(path) => Before(path, i + 1) = Prefixes(path) /\ SubSeq(path, 1, i) = path
           /\ Before(path, 1) = {}
<1> DEFINE node == SubSeq(path, 1, i)
<1>1. /\ node \in Prefixes(path) /\ node \in Path /\ Len(node) = i /\ IsBelow(node, path)
      /\ \A n \in Prefixes(path) : Len(n) = i => n = node
  BY NodeOfPath
<1> HIDE DEF node
<1>2. \A n \in Prefixes(path) : Len(n) \in Nat /\ Len(n) >= 1 /\ Len(n) <= Len(path)
  BY PrefixesAreAncestors DEF IsBelow, Path
<1>3. i \in Nat BY DEF Path
<1>4. Before(path, i) \cup {node} = Before(path, i + 1)
  BY <1>1, <1>2, <1>3 DEF Before
<1>5. i = Len(path) => Before(path, i + 1) = Prefixes(path) /\ node = path
  <2>1. i = Len(path) => node = path BY <1>1, BelowSameLength
  <2> QED BY <1>2, <1>3, <2>1 DEF Before
<1>6. Before(path, 1) = {}
  BY <1>2 DEF Before
<1> QED BY <1>4, <1>5, <1>6 DEF node

\* The ancestors of a path deeper than i that lead nowhere else.
Dead(nodes, path, i) ==
    {n \in Prefixes(path) :
        Len(n) > i /\ \A m \in nodes : IsBelow(n, m) => m \in Prefixes(path)}

LEMMA PrunedClosed ==
    ASSUME NEW nodes, Closed(nodes), NEW path \in Path, NEW i \in Nat
    PROVE  Closed(nodes \ Dead(nodes, path, i))
<1> SUFFICES ASSUME NEW n \in nodes, NEW a \in Prefixes(n), a \in Dead(nodes, path, i)
             PROVE  n \in Dead(nodes, path, i)
  BY DEF Closed
<1>1. n \in Path /\ a \in Path /\ IsBelow(a, n)
  BY PrefixesAreAncestors DEF Closed
<1>2. n \in Prefixes(path) BY <1>1 DEF Dead
<1>3. Len(n) > i
  <2>1. Len(a) <= Len(n) /\ Len(a) > i BY <1>1 DEF IsBelow, Dead
  <2>2. Len(a) \in Nat /\ Len(n) \in Nat BY <1>1 DEF Path
  <2> QED BY <2>1, <2>2
<1>4. ASSUME NEW m \in nodes, IsBelow(n, m) PROVE m \in Prefixes(path)
  <2>1. m \in Path BY DEF Closed
  <2>2. IsBelow(a, m) BY <1>1, <1>4, <2>1, BelowTransitive
  <2> QED BY <2>2 DEF Dead
<1> QED BY <1>2, <1>3, <1>4 DEF Dead

\* One step up of the loop that prunes: a node is a leaf of what is left exactly
\* when it leads nowhere but to the path.
LEMMA PrunedLayer ==
    ASSUME NEW nodes, Closed(nodes), NEW path \in Path, NEW i \in 1 .. Len(path)
    PROVE  (IF IsLeaf(nodes \ Dead(nodes, path, i), SubSeq(path, 1, i))
            THEN (nodes \ Dead(nodes, path, i)) \ {SubSeq(path, 1, i)}
            ELSE nodes \ Dead(nodes, path, i))
               = nodes \ Dead(nodes, path, i - 1)
<1> DEFINE left == nodes \ Dead(nodes, path, i)
           node == SubSeq(path, 1, i)
<1>1. /\ node \in Prefixes(path) /\ node \in Path /\ Len(node) = i /\ IsBelow(node, path)
      /\ \A n \in Prefixes(path) : Len(n) = i => n = node
  BY NodeOfPath
<1> HIDE DEF node
<1>2. \A n \in Prefixes(path) : n \in Path /\ Len(n) \in Nat
  BY PrefixesAreAncestors DEF Path
<1>3. i \in Nat BY DEF Path
<1>4. ASSUME \A m \in nodes : IsBelow(node, m) => m \in Prefixes(path)
      PROVE  IsLeaf(left, node)
  <2> SUFFICES ASSUME NEW n \in left, Len(n) = Len(node) + 1, IsBelow(node, n) PROVE FALSE
    BY DEF IsLeaf, Children
  <2>1. n \in nodes /\ n \in Path BY DEF Closed
  <2>2. ASSUME NEW m \in nodes, IsBelow(n, m) PROVE m \in Prefixes(path)
    <3>1. m \in Path BY DEF Closed
    <3>2. IsBelow(node, m) BY <1>1, <2>1, <2>2, <3>1, BelowTransitive
    <3> QED BY <1>4, <3>2
  <2>3. n \in Prefixes(path) /\ Len(n) > i
    BY <1>1, <1>3, <1>4, <2>1
  <2> QED BY <2>2, <2>3 DEF Dead
<1>5. ASSUME NEW m \in nodes, IsBelow(node, m), m \notin Prefixes(path)
      PROVE  ~ IsLeaf(left, node)
  <2>1. m \in Path /\ Prefixes(m) \subseteq nodes BY DEF Closed
  <2>2. Len(m) > Len(node)
    <3>1. Len(m) # Len(node) BY <1>1, <1>5, <2>1, BelowSameLength
    <3>2. Len(m) >= Len(node) BY <1>5 DEF IsBelow
    <3> QED BY <1>1, <2>1, <3>1, <3>2 DEF Path
  <2>3. PICK b \in Prefixes(m) : /\ b \in Path /\ Len(b) = Len(node) + 1
                                 /\ IsBelow(node, b) /\ IsBelow(b, m)
    BY <1>1, <1>5, <2>1, <2>2, ChildOnTheWay
  <2>4. b \in left BY <1>5, <2>1, <2>3 DEF Dead
  <2> QED BY <2>3, <2>4 DEF IsLeaf, Children
<1>6. IsLeaf(left, node) <=> \A m \in nodes : IsBelow(node, m) => m \in Prefixes(path)
  BY <1>4, <1>5
<1>7. \A n \in Prefixes(path) : Len(n) > i - 1 <=> Len(n) > i \/ n = node
  BY <1>1, <1>2, <1>3
<1>8. Dead(nodes, path, i - 1) =
         IF IsLeaf(left, node) THEN Dead(nodes, path, i) \cup {node} ELSE Dead(nodes, path, i)
  BY <1>1, <1>6, <1>7 DEF Dead
<1> QED BY <1>8 DEF node

\* At the leaf nothing has been pruned, at the root everything.
LEMMA PrunedEnds ==
    ASSUME NEW nodes, NEW path \in Path
    PROVE  /\ Dead(nodes, path, Len(path)) = {}
           /\ path \in nodes /\ IsLeaf(nodes, path) =>
                 RemoveTopicNodes(nodes, path) = nodes \ Dead(nodes, path, 0)
           /\ ~ (path \in nodes /\ IsLeaf(nodes, path)) => RemoveTopicNodes(nodes, path) = nodes
<1>1. \A n \in Prefixes(path) : Len(n) \in Nat /\ Len(n) > 0 /\ Len(n) <= Len(path)
  BY PrefixesAreAncestors DEF IsBelow, Path
<1>2. Dead(nodes, path, Len(path)) = {}
  BY <1>1 DEF Dead, Path
<1>3. Dead(nodes, path, 0) =
         {n \in Prefixes(path) : \A m \in nodes : IsBelow(n, m) => m \in Prefixes(path)}
  BY <1>1 DEF Dead
<1> QED BY <1>2, <1>3 DEF RemoveTopicNodes

-----------------------------------------------------------------------------
(* What a lookup reaches.                                                  *)

\* The nodes that k layers of the pattern lead to.
Reached(pattern, k) ==
    {n \in tree \cup {Root} : Len(n) = k /\ LayersMatch(pattern, n, k)}

LEMMA RootPath == Root \in Path /\ Len(Root) = 0
BY DEF Root, Path

LEMMA ReachedAtFirst == ASSUME Closed(tree), NEW pattern PROVE Reached(pattern, 0) = {Root}
<1>1. \A n \in tree : Len(n) # 0
  BY DEF Closed
<1> QED BY <1>1, RootPath DEF Reached, LayersMatch

\* A layer that is not "#" leads on to the children it matches.
LEMMA ReachedLayer ==
    ASSUME Closed(tree), NEW pattern \in Path, NEW i \in 1 .. Len(pattern),
           pattern[i] # AllSubsequentLayersPattern
    PROVE  NextNodes(Reached(pattern, i - 1), pattern[i]) = Reached(pattern, i)
<1>1. i \in Nat /\ i >= 1 /\ (i - 1) + 1 = i /\ i - 1 \in Nat
  BY DEF Path
<1>2. \A n \in tree \cup {Root} : n \in Path /\ Len(n) \in Nat
  <2>1. \A n \in tree : n \in Path BY DEF Closed
  <2>2. \A n \in Path : Len(n) \in Nat BY DEF Path
  <2> QED BY <2>1, <2>2, RootPath
<1>3. ASSUME NEW base \in Reached(pattern, i - 1), NEW n \in Children(tree, base),
             LayerMatches(pattern[i], n[Len(n)])
      PROVE  n \in Reached(pattern, i)
  <2>1. n \in tree /\ Len(n) = i /\ IsBelow(base, n) /\ Len(base) = i - 1
    BY <1>1, <1>3 DEF Children, Reached
  <2>2. \A j \in 1 .. i - 1 : n[j] = base[j]
    BY <2>1 DEF IsBelow
  <2>3. LayersMatch(pattern, n, i)
    <3>1. \A j \in 1 .. i : j \in 1 .. i - 1 \/ j = i
      BY <1>1
    <3> QED BY <1>3, <2>1, <2>2, <3>1 DEF LayersMatch, Reached
  <2> QED BY <2>1, <2>3 DEF Reached
<1>4. ASSUME NEW n \in Reached(pattern, i)
      PROVE  /\ \E base \in Reached(pattern, i - 1) : n \in Children(tree, base)
             /\ LayerMatches(pattern[i], n[Len(n)])
  <2>1. /\ n \in tree /\ n \in Path /\ Len(n) = i /\ LayersMatch(pattern, n, i)
    BY <1>1, <1>2, RootPath DEF Reached
  <2> DEFINE base == SubSeq(n, 1, i - 1)
  <2>2. i - 1 \in 0 .. Len(n) BY <1>1, <2>1
  <2>3. /\ base \in Path /\ Len(base) = i - 1 /\ IsBelow(base, n)
        /\ \A j \in 1 .. i - 1 : base[j] = n[j]
    BY <2>1, <2>2, SubPath
  <2> HIDE DEF base
  <2>4. LayersMatch(pattern, base, i - 1)
    BY <1>1, <2>1, <2>3 DEF LayersMatch
  <2>5. base \in tree \cup {Root}
    <3>1. CASE i - 1 = 0
      <4>1. base = Root BY <2>3, <3>1 DEF Path, Root
      <4> QED BY <4>1
    <3>2. CASE i - 1 # 0
      <4>1. base \in Prefixes(n) BY <1>1, <2>1, <2>3, <3>2, PrefixesAreAncestors
      <4> QED BY <2>1, <4>1 DEF Closed
    <3> QED BY <3>1, <3>2
  <2>6. n \in Children(tree, base)
    BY <1>1, <2>1, <2>3 DEF Children
  <2>7. LayerMatches(pattern[i], n[Len(n)])
    BY <1>1, <2>1 DEF LayersMatch
  <2> QED BY <2>3, <2>4, <2>5, <2>6, <2>7 DEF Reached
<1>5. \A n : n \in NextNodes(Reached(pattern, i - 1), pattern[i]) <=>
                /\ \E base \in Reached(pattern, i - 1) : n \in Children(tree, base)
                /\ LayerMatches(pattern[i], n[Len(n)])
  BY DEF NextNodes
<1> QED BY <1>3, <1>4, <1>5

\* "#" leads to everything from here down, and ends the lookup.
LEMMA ReachedAll ==
    ASSUME Closed(tree), NEW pattern \in Path, NEW i \in 1 .. Len(pattern),
           pattern[i] = AllSubsequentLayersPattern,
           \A j \in 1 .. i - 1 : pattern[j] # AllSubsequentLayersPattern
    PROVE  NextNodes(Reached(pattern, i - 1), pattern[i]) = GetTopicNodes(tree, pattern)
<1>1. i \in Nat /\ i >= 1 /\ i - 1 \in Nat /\ Len(pattern) \in Nat /\ i <= Len(pattern)
  BY DEF Path
<1>2. \A n \in tree \cup {Root} : n \in Path /\ Len(n) \in Nat
  <2>1. \A n \in tree : n \in Path BY DEF Closed
  <2>2. \A n \in Path : Len(n) \in Nat BY DEF Path
  <2> QED BY <2>1, <2>2, RootPath
<1>3. \A n \in tree \cup {Root} :
         Matches(pattern, n) <=> Len(n) >= i - 1 /\ LayersMatch(pattern, n, i - 1)
  <2> SUFFICES ASSUME NEW n \in tree \cup {Root}
               PROVE  Matches(pattern, n) <=> Len(n) >= i - 1 /\ LayersMatch(pattern, n, i - 1)
    OBVIOUS
  <2>1. ~ LayersMatch(pattern, n, Len(pattern))
    BY <1>1 DEF LayersMatch
  <2>2. ASSUME NEW h \in 1 .. Len(pattern), pattern[h] = AllSubsequentLayersPattern,
               LayersMatch(pattern, n, h - 1)
        PROVE  h = i
    <3>1. ~ (h \in 1 .. i - 1) BY <2>2
    <3>2. ~ (i \in 1 .. h - 1) BY <2>2 DEF LayersMatch
    <3> QED BY <1>1, <3>1, <3>2
  <2> QED BY <2>1, <2>2 DEF Matches
<1>4. ASSUME NEW n \in tree \cup {Root}
      PROVE  (\E base \in Reached(pattern, i - 1) : IsBelow(base, n))
                 <=> Len(n) >= i - 1 /\ LayersMatch(pattern, n, i - 1)
  <2>1. ASSUME NEW base \in Reached(pattern, i - 1), IsBelow(base, n)
        PROVE  Len(n) >= i - 1 /\ LayersMatch(pattern, n, i - 1)
    BY <2>1 DEF Reached, IsBelow, LayersMatch
  <2>2. ASSUME Len(n) >= i - 1, LayersMatch(pattern, n, i - 1)
        PROVE  \E base \in Reached(pattern, i - 1) : IsBelow(base, n)
    <3> DEFINE base == SubSeq(n, 1, i - 1)
    <3>1. n \in Path /\ i - 1 \in 0 .. Len(n) BY <1>1, <1>2, <2>2
    <3>2. /\ base \in Path /\ Len(base) = i - 1 /\ IsBelow(base, n)
          /\ \A j \in 1 .. i - 1 : base[j] = n[j]
      BY <3>1, SubPath
    <3> HIDE DEF base
    <3>3. LayersMatch(pattern, base, i - 1)
      BY <2>2, <3>2 DEF LayersMatch
    <3>4. base \in tree \cup {Root}
      <4>1. CASE i - 1 = 0
        <5>1. base = Root BY <3>2, <4>1 DEF Path, Root
        <5> QED BY <5>1
      <4>2. CASE i - 1 # 0
        <5>1. n \in tree
          <6>1. Len(n) # 0 BY <1>1, <1>2, <2>2, <4>2
          <6> QED BY <6>1, RootPath
        <5>2. base \in Prefixes(n) BY <1>1, <3>1, <3>2, <4>2, PrefixesAreAncestors
        <5> QED BY <5>1, <5>2 DEF Closed
      <4> QED BY <4>1, <4>2
    <3> QED BY <3>2, <3>3, <3>4 DEF Reached
  <2> QED BY <2>1, <2>2
<1>5. NextNodes(Reached(pattern, i - 1), pattern[i]) =
         {n \in tree \cup {Root} : \E base \in Reached(pattern, i - 1) : IsBelow(base, n)}
  BY DEF NextNodes
<1> QED BY <1>3, <1>4, <1>5 DEF GetTopicNodes

\* Without a "#" the lookup has reached what the pattern matches at its end.
LEMMA ReachedAtLast ==
    ASSUME NEW pattern \in Path,
           \A j \in 1 .. Len(pattern) : pattern[j] # AllSubsequentLayersPattern
    PROVE  Reached(pattern, Len(pattern)) = GetTopicNodes(tree, pattern)
BY DEF Reached, GetTopicNodes, Matches

-----------------------------------------------------------------------------
(* Leaves.                                                                 *)

\* An addition makes no leaf but the path it adds.
LEMMA AddedLeaves ==
    ASSUME NEW nodes, NEW path \in Path, NEW n \in nodes \cup Prefixes(path),
           IsLeaf(nodes \cup Prefixes(path), n)
    PROVE  (n \in nodes /\ IsLeaf(nodes, n)) \/ n = path
<1>1. CASE n \in nodes
  BY <1>1 DEF IsLeaf, Children
<1>2. CASE n \in Prefixes(path) /\ n # path
  <2>1. n \in Path /\ IsBelow(n, path) BY <1>2, PrefixesAreAncestors
  <2>2. Len(path) > Len(n)
    <3>1. Len(n) # Len(path) BY <1>2, <2>1, BelowSameLength
    <3>2. Len(path) >= Len(n) BY <2>1 DEF IsBelow
    <3> QED BY <2>1, <3>1, <3>2 DEF Path
  <2>3. \E b \in Prefixes(path) : Len(b) = Len(n) + 1 /\ IsBelow(n, b)
    BY <2>1, <2>2, ChildOnTheWay
  <2> QED BY <2>3 DEF IsLeaf, Children
<1> QED BY <1>1, <1>2

\* A removal makes no leaf at all.
LEMMA RemovedLeaves ==
    ASSUME NEW nodes, Closed(nodes), NEW path \in Path,
           NEW n \in RemoveTopicNodes(nodes, path), IsLeaf(RemoveTopicNodes(nodes, path), n)
    PROVE  n \in nodes /\ IsLeaf(nodes, n)
<1> DEFINE left == RemoveTopicNodes(nodes, path)
<1>1. n \in nodes /\ n \in Path BY DEF RemoveTopicNodes, Closed
<1>2. SUFFICES ASSUME NEW c \in nodes, Len(c) = Len(n) + 1, IsBelow(n, c) PROVE FALSE
  BY <1>1 DEF IsLeaf, Children
<1>3. c \notin left BY <1>2 DEF IsLeaf, Children
<1>4. /\ c \in Prefixes(path)
      /\ \A x \in left : x \in Prefixes(path) =>
            \E m \in nodes : IsBelow(x, m) /\ m \notin Prefixes(path)
      /\ \A x \in nodes : (\E m \in nodes : IsBelow(x, m) /\ m \notin Prefixes(path)) => x \in left
  BY <1>2, <1>3 DEF RemoveTopicNodes
<1> HIDE DEF left
<1>5. c \in Path /\ IsBelow(c, path) BY <1>4, PrefixesAreAncestors
<1>6. n \in Prefixes(path)
  <2>1. IsBelow(n, path) BY <1>1, <1>2, <1>5, BelowTransitive
  <2> QED BY <1>1, <2>1, PrefixesAreAncestors DEF Closed
<1>7. n \in left BY DEF left
<1>8. PICK m \in nodes : IsBelow(n, m) /\ m \notin Prefixes(path)
  BY <1>4, <1>6, <1>7
<1>9. m \in Path /\ Prefixes(m) \subseteq nodes BY DEF Closed
<1>10. Len(m) > Len(n)
  <2>1. Len(m) # Len(n) BY <1>1, <1>6, <1>8, <1>9, BelowSameLength
  <2>2. Len(m) >= Len(n) BY <1>8 DEF IsBelow
  <2> QED BY <1>1, <1>9, <2>1, <2>2 DEF Path
<1>11. PICK b \in Prefixes(m) : b \in Path /\ Len(b) = Len(n) + 1 /\ IsBelow(n, b) /\ IsBelow(b, m)
  BY <1>1, <1>8, <1>9, <1>10, ChildOnTheWay
<1>12. b \in left BY <1>4, <1>8, <1>9, <1>11
<1> QED BY <1>11, <1>12 DEF IsLeaf, Children, left

-----------------------------------------------------------------------------
(* The inductive invariant.                                                *)

Writes(t) == pc[t] \in {"walking", "pruning", "exiting"} /\ call[t].op \in {"add", "remove"}
Reads(t) == pc[t] \in {"walking", "exiting", "threw"} /\ call[t].op = "get"

\* The lock has one writer, or readers; what the last writer left is the tree
\* until the next one enters.
LockInv ==
    /\ \A t \in Threads : (writer = t <=> Writes(t)) /\ (t \in readers <=> Reads(t))
    /\ writer # NoCall => readers = {}
    /\ writer = NoCall => tree = committed

AddInv(t) ==
    /\ call[t].arg \in added
    /\ pc[t] = "walking" =>
          /\ idx[t] \in 1 .. Len(call[t].arg)
          /\ tree = committed \cup Before(call[t].arg, idx[t])
    /\ pc[t] = "exiting" =>
          /\ tree = committed \cup Prefixes(call[t].arg)
          /\ ok[t] = (call[t].arg \notin committed)

RemoveInv(t) ==
    /\ pc[t] = "walking" =>
          /\ idx[t] \in 1 .. Len(call[t].arg)
          /\ tree = committed
          /\ ok[t] = FALSE
    /\ pc[t] = "pruning" =>
          /\ idx[t] \in 0 .. Len(call[t].arg)
          /\ call[t].arg \in committed /\ IsLeaf(committed, call[t].arg)
          /\ tree = committed \ Dead(committed, call[t].arg, idx[t])
          /\ ok[t] = TRUE
    /\ pc[t] = "exiting" =>
          /\ tree = RemoveTopicNodes(committed, call[t].arg)
          /\ ok[t] = (call[t].arg \in committed /\ IsLeaf(committed, call[t].arg))

GetInv(t) ==
    /\ pc[t] \in {"walking", "exiting"} => ok[t] = TRUE
    /\ pc[t] = "walking" =>
          /\ idx[t] \in 1 .. Len(call[t].arg)
          /\ \A j \in 1 .. idx[t] - 1 : call[t].arg[j] # AllSubsequentLayersPattern
          /\ found[t] = Reached(call[t].arg, idx[t] - 1)
    /\ pc[t] = "exiting" => found[t] = GetTopicNodes(tree, call[t].arg)

CallInv(t) ==
    /\ pc[t] = "idle" => call[t] = NoCall
    /\ pc[t] # "idle" => call[t] \in Calls
    /\ pc[t] = "pruning" => call[t].op = "remove"
    /\ pc[t] = "threw" => call[t].op = "get"
    /\ pc[t] # "idle" /\ call[t].op = "add" => AddInv(t)
    /\ pc[t] # "idle" /\ call[t].op = "remove" => RemoveInv(t)
    /\ pc[t] # "idle" /\ call[t].op = "get" => GetInv(t)

TreesClosed == Closed(tree) /\ Closed(committed)

\* The leaves of what the writers have left are keys that were added.
CommittedLeaves == \A n \in committed : IsLeaf(committed, n) => n \in added

TreeInv ==
    /\ TypeOK
    /\ TreesClosed
    /\ CommittedLeaves
    /\ LockInv
    /\ \A t \in Threads : CallInv(t)

LEMMA InitTreeInv == Init => TreeInv
<1> SUFFICES ASSUME Init PROVE TreeInv
  OBVIOUS
<1> USE TopicTreeAssumption DEF Init
<1>1. TypeOK BY DEF TypeOK
<1>2. TreesClosed /\ CommittedLeaves BY DEF TreesClosed, Closed, CommittedLeaves
<1>3. LockInv BY DEF LockInv, Writes, Reads
<1>4. \A t \in Threads : CallInv(t) BY DEF CallInv
<1> QED BY <1>1, <1>2, <1>3, <1>4 DEF TreeInv

\* What an invariant gives about a thread in a call.
LEMMA InCall ==
    ASSUME TreeInv, NEW t \in Threads, pc[t] # "idle"
    PROVE  /\ call[t] \in Calls /\ call[t] # NoCall
           /\ call[t].op \in {"add", "remove", "get"}
           /\ call[t].op # "get" => call[t].arg \in Keys
           /\ call[t].arg \in Path /\ Len(call[t].arg) >= 1
<1>1. call[t] \in Calls BY DEF TreeInv, CallInv
<1>2. /\ call[t].op \in {"add", "remove", "get"}
      /\ call[t].op # "get" => call[t].arg \in Keys
      /\ call[t].arg \in Keys \cup Patterns
  BY <1>1 DEF Calls
<1>3. \A c \in Path \ {Root} : Len(c) >= 1
  BY DEF Path, Root
<1> QED BY <1>1, <1>2, <1>3, TopicTreeAssumption DEF Path

\* A step of a thread that leaves the tree alone, or has the lock to itself,
\* disturbs no other thread's call.
LEMMA OthersUndisturbed ==
    ASSUME TreeInv, NEW u \in Threads, NEW t \in Threads \ {u},
           /\ pc'[t] = pc[t] /\ call'[t] = call[t] /\ idx'[t] = idx[t]
           /\ found'[t] = found[t] /\ ok'[t] = ok[t],
           UNCHANGED <<tree, committed>> \/ writer = u,
           added \subseteq added'
    PROVE  CallInv(t)'
<1>1. CallInv(t) BY DEF TreeInv
<1>2. CASE UNCHANGED <<tree, committed>>
  BY <1>1, <1>2 DEF CallInv, AddInv, RemoveInv, GetInv, Reached
<1>3. CASE writer = u
  <2>1. ~ Writes(t) /\ ~ Reads(t) /\ writer # NoCall
    BY <1>3, TopicTreeAssumption DEF TreeInv, LockInv
  <2>2. pc[t] # "idle" => call[t].op \in {"add", "remove", "get"}
    BY InCall
  <2> QED BY <1>1, <2>1, <2>2 DEF CallInv, AddInv, RemoveInv, GetInv, Writes, Reads
<1> QED BY <1>2, <1>3

LEMMA Types ==
    ASSUME TreeInv
    PROVE  /\ tree \in SUBSET Paths /\ committed \in SUBSET Paths /\ added \in SUBSET Keys
           /\ writer \in Threads \cup {NoCall} /\ readers \in SUBSET Threads
           /\ call \in [Threads -> Calls \cup {NoCall}]
           /\ pc \in [Threads -> {"idle", "entering", "walking", "pruning", "exiting", "threw"}]
           /\ idx \in [Threads -> Nat]
           /\ found \in [Threads -> SUBSET (Paths \cup {Root})]
           /\ ok \in [Threads -> BOOLEAN]
           /\ answer \in [Threads -> [ok : BOOLEAN, nodes : SUBSET (Paths \cup {Root})]]
           /\ calls \in 0 .. MaxCalls
           /\ NoCall \notin Threads \cup Calls
           /\ Closed(tree) /\ Closed(committed)
BY TopicTreeAssumption DEF TreeInv, TypeOK, TreesClosed

LEMMA InvokeTreeInv ==
    ASSUME TreeInv, NEW t \in Threads, Invoke(t)
    PROVE  TreeInv' /\ Directory!Next
<1> USE Types
<1>1. PICK c \in Calls : /\ call' = [call EXCEPT ![t] = c]
                         /\ added' = IF c.op = "add" THEN added \cup {c.arg} ELSE added
  BY DEF Invoke
<1>2. /\ pc[t] = "idle" /\ pc' = [pc EXCEPT ![t] = "entering"]
      /\ calls < MaxCalls /\ calls' = calls + 1
      /\ UNCHANGED <<tree, writer, readers, idx, found, ok, answer, committed>>
  BY DEF Invoke, lockVars
<1>3. /\ added' \in SUBSET Keys /\ added \subseteq added'
      /\ c.op = "add" => c.arg \in added'
  BY <1>1 DEF Calls
<1>4. TypeOK'
  <2>1. calls' \in 0 .. MaxCalls BY <1>2, TopicTreeAssumption
  <2> QED BY <1>1, <1>2, <1>3, <2>1 DEF TypeOK
<1>5. TreesClosed' BY <1>2 DEF TreesClosed
<1>6. CommittedLeaves' BY <1>2, <1>3 DEF TreeInv, CommittedLeaves
<1>7. call[t] = NoCall BY <1>2 DEF TreeInv, CallInv
<1>8. LockInv'
  <2>1. ~ Writes(t) /\ ~ Reads(t) /\ ~ Writes(t)' /\ ~ Reads(t)'
    BY <1>2 DEF Writes, Reads
  <2>2. \A u \in Threads \ {t} : (Writes(u)' <=> Writes(u)) /\ (Reads(u)' <=> Reads(u))
    BY <1>1, <1>2 DEF Writes, Reads
  <2> QED BY <1>2, <2>1, <2>2 DEF TreeInv, LockInv
<1>9. CallInv(t)'
  BY <1>1, <1>2, <1>3 DEF CallInv, AddInv, RemoveInv, GetInv
<1>10. \A u \in Threads \ {t} : CallInv(u)'
  BY <1>1, <1>2, <1>3, OthersUndisturbed
<1>11. Directory!Next
  BY <1>1, <1>2, <1>7 DEF Directory!Next, Directory!Invoke, Directory!Calls, Calls
<1> QED BY <1>4, <1>5, <1>6, <1>8, <1>9, <1>10, <1>11 DEF TreeInv

LEMMA EnterTreeInv ==
    ASSUME TreeInv, NEW t \in Threads, EnterWriteLock(t) \/ EnterReadLock(t)
    PROVE  TreeInv' /\ UNCHANGED Directory!vars
<1> USE Types
<1>1. /\ UNCHANGED <<tree, call, answer, committed, added, calls>>
      /\ pc[t] = "entering" /\ pc' = [pc EXCEPT ![t] = "walking"]
      /\ idx' = [idx EXCEPT ![t] = 1]
      /\ writer = NoCall
  BY DEF EnterWriteLock, EnterReadLock, BeginWrite, BeginRead
<1>2. /\ call[t] \in Calls /\ call[t] # NoCall
      /\ call[t].op \in {"add", "remove", "get"}
      /\ call[t].arg \in Path /\ Len(call[t].arg) >= 1 /\ 1 \in 1 .. Len(call[t].arg)
  <2>1. \A c \in Path : Len(c) >= 1 => 1 \in 1 .. Len(c) BY DEF Path
  <2> QED BY <1>1, <2>1, InCall
<1>3. tree = committed BY <1>1 DEF TreeInv, LockInv
<1>4. TreesClosed' /\ CommittedLeaves'
  BY <1>1 DEF TreeInv, TreesClosed, CommittedLeaves
<1>5. CASE EnterWriteLock(t)
  <2>1. /\ call[t].op \in {"add", "remove"} /\ writer' = t /\ readers = {}
        /\ ok' = [ok EXCEPT ![t] = FALSE]
        /\ UNCHANGED <<readers, found>>
    BY <1>5 DEF EnterWriteLock, BeginWrite
  <2>2. TypeOK' BY <1>1, <2>1 DEF TypeOK
  <2>3. LockInv'
    <3>1. Writes(t)' /\ ~ Reads(t)' BY <1>1, <2>1 DEF Writes, Reads
    <3>2. \A u \in Threads \ {t} : (Writes(u)' <=> Writes(u)) /\ (Reads(u)' <=> Reads(u))
      BY <1>1 DEF Writes, Reads
    <3> QED BY <1>1, <2>1, <3>1, <3>2 DEF TreeInv, LockInv
  <2>4. CallInv(t)'
    <3>1. call[t].op = "add" => call[t].arg \in added
      BY <1>1 DEF TreeInv, CallInv, AddInv
    <3>2. Before(call[t].arg, 1) = {} BY <1>2, AddedLayer
    <3> QED BY <1>1, <1>2, <1>3, <2>1, <3>1, <3>2 DEF CallInv, AddInv, RemoveInv
  <2>5. \A u \in Threads \ {t} : CallInv(u)'
    BY <1>1, <2>1, OthersUndisturbed
  <2> QED BY <1>1, <1>4, <2>2, <2>3, <2>4, <2>5 DEF TreeInv, Directory!vars
<1>6. CASE EnterReadLock(t)
  <2>1. /\ call[t].op = "get" /\ readers' = readers \cup {t} /\ UNCHANGED writer
        /\ found' = [found EXCEPT ![t] = {Root}]
        /\ ok' = [ok EXCEPT ![t] = TRUE]
    BY <1>6 DEF EnterReadLock, BeginRead
  <2>2. TypeOK' BY <1>1, <2>1 DEF TypeOK
  <2>3. LockInv'
    <3>1. ~ Writes(t)' /\ Reads(t)' BY <1>1, <2>1 DEF Writes, Reads
    <3>2. \A u \in Threads \ {t} : (Writes(u)' <=> Writes(u)) /\ (Reads(u)' <=> Reads(u))
      BY <1>1 DEF Writes, Reads
    <3> QED BY <1>1, <2>1, <3>1, <3>2 DEF TreeInv, LockInv
  <2>4. CallInv(t)'
    <3>1. Reached(call[t].arg, 0) = {Root} BY ReachedAtFirst
    <3> QED BY <1>1, <1>2, <2>1, <3>1 DEF CallInv, GetInv, Reached
  <2>5. \A u \in Threads \ {t} : CallInv(u)'
    BY <1>1, <2>1, OthersUndisturbed
  <2> QED BY <1>1, <1>4, <2>2, <2>3, <2>4, <2>5 DEF TreeInv, Directory!vars
<1> QED BY <1>5, <1>6

\* TopicDirectory's tree operations are those of TopicPatterns.
LEMMA SameOperations ==
    ASSUME NEW nodes, NEW path
    PROVE  /\ Directory!AddTopicNodes(nodes, path) = AddTopicNodes(nodes, path)
           /\ Directory!RemoveTopicNodes(nodes, path) = RemoveTopicNodes(nodes, path)
           /\ Directory!GetTopicNodes(nodes, path) = GetTopicNodes(nodes, path)
           /\ Directory!IsLeaf(nodes, path) = IsLeaf(nodes, path)
BY Zenon
DEF AddTopicNodes, RemoveTopicNodes, GetTopicNodes, IsLeaf, Children, IsBelow, Prefixes, Matches,
    LayersMatch, LayerMatches, Root, AllSubsequentLayersPattern, SubsequentLayerPattern,
    Directory!AddTopicNodes, Directory!RemoveTopicNodes, Directory!GetTopicNodes, Directory!IsLeaf,
    Directory!Children, Directory!IsBelow, Directory!Prefixes, Directory!Matches,
    Directory!LayersMatch, Directory!LayerMatches, Directory!Root,
    Directory!AllSubsequentLayersPattern, Directory!SubsequentLayerPattern

LEMMA ExitTreeInv ==
    ASSUME TreeInv, NEW t \in Threads, ExitLock(t)
    PROVE  TreeInv' /\ Directory!Next
<1> USE Types
<1>1. /\ pc[t] = "exiting" /\ pc' = [pc EXCEPT ![t] = "idle"]
      /\ writer' = IF writer = t THEN NoCall ELSE writer
      /\ readers' = readers \ {t}
      /\ committed' = tree
      /\ answer' = [answer EXCEPT ![t] =
                      [ok |-> ok[t], nodes |-> IF call[t].op = "get" THEN found[t] ELSE {}]]
      /\ call' = [call EXCEPT ![t] = NoCall]
      /\ UNCHANGED <<tree, idx, found, ok, added, calls>>
  BY DEF ExitLock
<1>2. /\ call[t] \in Calls /\ call[t] # NoCall
      /\ call[t].op \in {"add", "remove", "get"}
      /\ call[t].arg \in Path
  BY <1>1, InCall
<1>3. CallInv(t) BY DEF TreeInv
<1>4. TypeOK' /\ TreesClosed'
  BY <1>1 DEF TypeOK, TreesClosed
<1>5. /\ writer = t \/ t \in readers
      /\ t \in readers => writer = NoCall /\ tree = committed /\ call[t].op = "get"
      /\ call[t].op = "get" => t \in readers
  BY <1>1, <1>2 DEF TreeInv, LockInv, Writes, Reads
<1>6. CommittedLeaves'
  <2> SUFFICES ASSUME NEW n \in tree, IsLeaf(tree, n) PROVE n \in added
    BY <1>1 DEF CommittedLeaves
  <2>1. \A m \in committed : IsLeaf(committed, m) => m \in added
    BY DEF TreeInv, CommittedLeaves
  <2>2. CASE call[t].op = "get" BY <1>5, <2>1, <2>2
  <2>3. CASE call[t].op = "add"
    <3>1. tree = committed \cup Prefixes(call[t].arg) /\ call[t].arg \in added
      BY <1>1, <1>3, <2>3 DEF CallInv, AddInv
    <3> QED BY <1>2, <2>1, <3>1, AddedLeaves
  <2>4. CASE call[t].op = "remove"
    <3>1. tree = RemoveTopicNodes(committed, call[t].arg)
      BY <1>1, <1>3, <2>4 DEF CallInv, RemoveInv
    <3> QED BY <1>2, <2>1, <3>1, RemovedLeaves
  <2> QED BY <1>2, <2>2, <2>3, <2>4
<1>7. LockInv'
  <2>1. ~ Writes(t)' /\ ~ Reads(t)' BY <1>1 DEF Writes, Reads
  <2>2. \A u \in Threads \ {t} : (Writes(u)' <=> Writes(u)) /\ (Reads(u)' <=> Reads(u))
    BY <1>1 DEF Writes, Reads
  <2> QED BY <1>1, <1>5, <2>1, <2>2 DEF TreeInv, LockInv
<1>8. CallInv(t)'
  BY <1>1 DEF CallInv
<1>9. \A u \in Threads \ {t} : CallInv(u)'
  BY <1>1, <1>5, OthersUndisturbed
<1>10. Directory!Next
  <2>1. CASE call[t].op = "add"
    <3>1. tree = committed \cup Prefixes(call[t].arg) /\ ok[t] = (call[t].arg \notin committed)
      BY <1>1, <1>3, <2>1 DEF CallInv, AddInv
    <3>2. answer' = [answer EXCEPT ![t] = [ok |-> call[t].arg \notin committed, nodes |-> {}]]
      BY <1>1, <2>1, <3>1
    <3>3. Directory!Return(t, call[t].arg \notin committed, {})
      BY <1>1, <3>2, Zenon DEF Directory!Return
    <3>4. committed' = AddTopicNodes(committed, call[t].arg)
      BY <1>1, <3>1 DEF AddTopicNodes
    <3>5. Directory!Add(t)
      BY <1>2, <2>1, <3>3, <3>4, SameOperations, Zenon DEF Directory!Add
    <3> QED BY <3>5, Zenon DEF Directory!Next
  <2>2. CASE call[t].op = "remove"
    <3>1. /\ tree = RemoveTopicNodes(committed, call[t].arg)
          /\ ok[t] = (call[t].arg \in committed /\ IsLeaf(committed, call[t].arg))
      BY <1>1, <1>3, <2>2 DEF CallInv, RemoveInv
    <3>2. answer' = [answer EXCEPT ![t] =
                       [ok |-> call[t].arg \in committed /\ IsLeaf(committed, call[t].arg),
                        nodes |-> {}]]
      BY <1>1, <2>2, <3>1
    <3>3. Directory!Return(t, call[t].arg \in committed /\ IsLeaf(committed, call[t].arg), {})
      BY <1>1, <3>2, Zenon DEF Directory!Return
    <3>4. committed' = RemoveTopicNodes(committed, call[t].arg)
      BY <1>1, <3>1
    <3>5. Directory!Remove(t)
      BY <1>2, <2>2, <3>3, <3>4, SameOperations, Zenon DEF Directory!Remove
    <3> QED BY <3>5, Zenon DEF Directory!Next
  <2>3. CASE call[t].op = "get"
    <3>1. /\ tree = committed /\ ok[t] = TRUE
          /\ found[t] = GetTopicNodes(committed, call[t].arg)
      BY <1>1, <1>3, <1>5, <2>3 DEF CallInv, GetInv
    <3>2. answer' = [answer EXCEPT ![t] =
                       [ok |-> TRUE, nodes |-> GetTopicNodes(committed, call[t].arg)]]
      BY <1>1, <2>3, <3>1
    <3>3. Directory!Return(t, TRUE, GetTopicNodes(committed, call[t].arg))
      BY <1>1, <3>2, Zenon DEF Directory!Return
    <3>4. UNCHANGED committed
      BY <1>1, <3>1
    <3>5. Directory!Get(t)
      <4>1. Directory!Return(t, TRUE, Directory!GetTopicNodes(committed, call[t].arg))
        BY <3>3, SameOperations
      <4> QED BY <1>2, <2>3, <3>4, <4>1 DEF Directory!Get
    <3> QED BY <3>5, Zenon DEF Directory!Next
  <2> QED BY <1>2, <2>1, <2>2, <2>3
<1> QED BY <1>4, <1>6, <1>7, <1>8, <1>9, <1>10 DEF TreeInv

\* A step of a thread within the lock, which it neither enters nor leaves.
LEMMA WithinLock ==
    ASSUME TreeInv, NEW t \in Threads,
           pc[t] \in {"walking", "pruning"},
           pc'[t] \in {"walking", "pruning", "exiting"} \/ (pc'[t] = "threw" /\ call[t].op = "get"),
           pc'[t] = "pruning" => call[t].op = "remove",
           \A u \in Threads \ {t} : pc'[u] = pc[u],
           UNCHANGED <<writer, readers, call, committed>>,
           UNCHANGED tree \/ writer = t
    PROVE  LockInv'
<1> USE Types
<1>1. call[t].op \in {"add", "remove", "get"} /\ (pc[t] = "pruning" => call[t].op = "remove")
  BY InCall DEF TreeInv, CallInv
<1>2. (Writes(t)' <=> Writes(t)) /\ (Reads(t)' <=> Reads(t))
  BY <1>1 DEF Writes, Reads
<1>3. \A u \in Threads \ {t} : (Writes(u)' <=> Writes(u)) /\ (Reads(u)' <=> Reads(u))
  BY DEF Writes, Reads
<1> QED BY <1>2, <1>3 DEF TreeInv, LockInv

LEMMA AddNodeTreeInv ==
    ASSUME TreeInv, NEW t \in Threads, AddNode(t)
    PROVE  TreeInv' /\ UNCHANGED Directory!vars
<1> USE Types
<1>1. /\ pc[t] = "walking" /\ call[t].op = "add"
      /\ tree' = tree \cup {Node(t)}
      /\ ok' = [ok EXCEPT ![t] = Node(t) \notin tree]
      /\ \/ /\ IsLast(t) /\ pc' = [pc EXCEPT ![t] = "exiting"] /\ UNCHANGED idx
         \/ /\ ~ IsLast(t) /\ idx' = [idx EXCEPT ![t] = @ + 1] /\ UNCHANGED pc
      /\ UNCHANGED <<writer, readers, call, found, answer, committed, added, calls>>
  BY DEF AddNode, At, lockVars
<1> DEFINE arg == call[t].arg
           i == idx[t]
<1>2. arg \in Path /\ arg \in Keys /\ call[t] \in Calls
  BY <1>1, InCall
<1>3. /\ i \in 1 .. Len(arg) /\ arg \in added
      /\ tree = committed \cup Before(arg, i)
  BY <1>1 DEF TreeInv, CallInv, AddInv
<1>4. Node(t) = SubSeq(arg, 1, i) /\ (IsLast(t) <=> i = Len(arg))
  BY DEF Node, IsLast
<1>5. i \in Nat /\ Len(arg) \in Nat /\ i <= Len(arg) /\ i + 1 \in Nat
  BY <1>2, <1>3 DEF Path
<1>6. writer = t
  BY <1>1 DEF TreeInv, LockInv, Writes
<1>7. /\ tree' = committed \cup Before(arg, i + 1)
      /\ i = Len(arg) => Before(arg, i + 1) = Prefixes(arg) /\ Node(t) = arg
  BY <1>1, <1>2, <1>3, <1>4, AddedLayer
<1>8. Node(t) \in Prefixes(arg)
  BY <1>2, <1>3, <1>4, NodeOfPath
<1>9. TypeOK'
  <2>1. tree' \in SUBSET Paths BY <1>1, <1>2, <1>8 DEF Paths
  <2>2. idx' \in [Threads -> Nat] BY <1>1, <1>5
  <2> QED BY <1>1, <2>1, <2>2 DEF TypeOK
<1>10. TreesClosed'
  <2>1. Closed(committed \cup Before(arg, i + 1)) BY <1>2, <1>5, AddedClosed
  <2> QED BY <1>1, <1>7, <2>1 DEF TreesClosed
<1>11. CommittedLeaves' BY <1>1 DEF TreeInv, CommittedLeaves
<1>12. LockInv'
  BY <1>1, <1>6, WithinLock
<1>13. CallInv(t)'
  <2>1. CASE i = Len(arg)
    <3>1. /\ pc'[t] = "exiting" /\ idx'[t] = i /\ tree' = committed \cup Prefixes(arg)
          /\ ok'[t] = (Node(t) \notin tree)
      BY <1>1, <1>4, <1>7, <2>1
    <3>2. Node(t) \notin tree <=> arg \notin committed
      <4>1. arg \notin Before(arg, i) BY <1>5, <2>1 DEF Before
      <4> QED BY <1>3, <1>7, <2>1, <4>1
    <3> QED BY <1>1, <1>2, <1>3, <3>1, <3>2 DEF CallInv, AddInv
  <2>2. CASE i # Len(arg)
    <3>1. /\ pc'[t] = "walking" /\ idx'[t] = i + 1 /\ i + 1 \in 1 .. Len(arg)
      BY <1>1, <1>4, <1>5, <2>2
    <3> QED BY <1>1, <1>2, <1>3, <1>7, <3>1 DEF CallInv, AddInv
  <2> QED BY <2>1, <2>2
<1>14. \A u \in Threads \ {t} : CallInv(u)'
  BY <1>1, <1>6, OthersUndisturbed
<1> QED BY <1>1, <1>9, <1>10, <1>11, <1>12, <1>13, <1>14 DEF TreeInv, Directory!vars

LEMMA RemoveDescendTreeInv ==
    ASSUME TreeInv, NEW t \in Threads, RemoveDescend(t)
    PROVE  TreeInv' /\ UNCHANGED Directory!vars
<1> USE Types
<1>1. /\ pc[t] = "walking" /\ call[t].op = "remove" /\ ~ IsLast(t)
      /\ \/ Node(t) \in tree /\ idx' = [idx EXCEPT ![t] = @ + 1] /\ UNCHANGED pc
         \/ Node(t) \notin tree /\ pc' = [pc EXCEPT ![t] = "exiting"] /\ UNCHANGED idx
      /\ UNCHANGED <<tree, writer, readers, call, found, ok, answer, committed, added, calls>>
  BY DEF RemoveDescend, At, lockVars
<1> DEFINE arg == call[t].arg
           i == idx[t]
<1>2. arg \in Path /\ call[t] \in Calls
  BY <1>1, InCall
<1>3. i \in 1 .. Len(arg) /\ tree = committed /\ ok[t] = FALSE
  BY <1>1 DEF TreeInv, CallInv, RemoveInv
<1>4. /\ Node(t) = SubSeq(arg, 1, i) /\ i # Len(arg)
      /\ i \in Nat /\ i + 1 \in Nat /\ i + 1 \in 1 .. Len(arg)
  BY <1>1, <1>2, <1>3 DEF Node, IsLast, Path
<1>5. TypeOK'
  <2>1. idx' \in [Threads -> Nat] BY <1>1, <1>4
  <2> QED BY <1>1, <2>1 DEF TypeOK
<1>6. TreesClosed' /\ CommittedLeaves'
  BY <1>1 DEF TreeInv, TreesClosed, CommittedLeaves
<1>7. LockInv'
  BY <1>1, WithinLock
<1>8. CallInv(t)'
  <2>1. CASE Node(t) \in tree
    BY <1>1, <1>2, <1>3, <1>4, <2>1 DEF CallInv, RemoveInv
  <2>2. CASE Node(t) \notin tree
    <3>1. arg \notin committed
      <4>1. Node(t) \in Prefixes(arg) BY <1>2, <1>3, <1>4, NodeOfPath
      <4> QED BY <1>3, <2>2, <4>1 DEF Closed
    <3>2. RemoveTopicNodes(committed, arg) = committed
      BY <1>2, <3>1, PrunedEnds
    <3>3. /\ pc'[t] = "exiting" /\ ok'[t] = FALSE
      BY <1>1, <1>3, <2>2
    <3> QED BY <1>1, <1>2, <1>3, <3>1, <3>2, <3>3 DEF CallInv, RemoveInv
  <2> QED BY <2>1, <2>2
<1>9. \A u \in Threads \ {t} : CallInv(u)'
  BY <1>1, OthersUndisturbed
<1> QED BY <1>1, <1>5, <1>6, <1>7, <1>8, <1>9 DEF TreeInv, Directory!vars

LEMMA RemoveLeafTreeInv ==
    ASSUME TreeInv, NEW t \in Threads, RemoveLeaf(t)
    PROVE  TreeInv' /\ UNCHANGED Directory!vars
<1> USE Types
<1>1. /\ pc[t] = "walking" /\ call[t].op = "remove" /\ IsLast(t)
      /\ \/ /\ Removable(t)
            /\ tree' = tree \ {Node(t)}
            /\ ok' = [ok EXCEPT ![t] = TRUE]
            /\ idx' = [idx EXCEPT ![t] = @ - 1]
            /\ pc' = [pc EXCEPT ![t] = "pruning"]
         \/ /\ ~ Removable(t)
            /\ pc' = [pc EXCEPT ![t] = "exiting"]
            /\ UNCHANGED <<tree, ok, idx>>
      /\ UNCHANGED <<writer, readers, call, found, answer, committed, added, calls>>
  BY DEF RemoveLeaf, At, lockVars
<1> DEFINE arg == call[t].arg
           i == idx[t]
<1>2. arg \in Path /\ call[t] \in Calls
  BY <1>1, InCall
<1>3. i \in 1 .. Len(arg) /\ tree = committed /\ ok[t] = FALSE
  BY <1>1 DEF TreeInv, CallInv, RemoveInv
<1>4. i = Len(arg) /\ i \in Nat /\ i - 1 \in Nat /\ i - 1 \in 0 .. Len(arg)
  BY <1>1, <1>2, <1>3 DEF IsLast, Path
<1>5. Node(t) = SubSeq(arg, 1, i) /\ Node(t) = arg
  <2>1. SubSeq(arg, 1, i) = arg BY <1>2, <1>3, <1>4, AddedLayer
  <2> QED BY <2>1 DEF Node
<1>6. Removable(t) <=> arg \in committed /\ IsLeaf(committed, arg)
  BY <1>3, <1>5 DEF Removable
<1>7. writer = t
  BY <1>1 DEF TreeInv, LockInv, Writes
<1>8. Removable(t) => tree' = committed \ Dead(committed, arg, i - 1)
  <2>1. committed = committed \ Dead(committed, arg, i)
    BY <1>2, <1>4, PrunedEnds
  <2>2. (IF IsLeaf(committed, Node(t)) THEN committed \ {Node(t)} ELSE committed)
           = committed \ Dead(committed, arg, i - 1)
    <3>1. (IF IsLeaf(committed \ Dead(committed, arg, i), SubSeq(arg, 1, i))
           THEN (committed \ Dead(committed, arg, i)) \ {SubSeq(arg, 1, i)}
           ELSE committed \ Dead(committed, arg, i))
              = committed \ Dead(committed, arg, i - 1)
      BY <1>2, <1>3, PrunedLayer
    <3> QED BY <1>5, <2>1, <3>1
  <2> QED BY <1>1, <1>3, <1>5, <1>6, <2>2
<1>9. TypeOK'
  <2>1. idx' \in [Threads -> Nat] BY <1>1, <1>4
  <2>2. tree' \subseteq tree BY <1>1
  <2>3. pc' \in [Threads -> {"idle", "entering", "walking", "pruning", "exiting", "threw"}]
    <3>1. pc' = [pc EXCEPT ![t] = "pruning"] \/ pc' = [pc EXCEPT ![t] = "exiting"]
      BY <1>1
    <3> QED BY <3>1
  <2>4. ok' \in [Threads -> BOOLEAN]
    <3>1. ok' = [ok EXCEPT ![t] = TRUE] \/ ok' = ok BY <1>1
    <3> QED BY <3>1
  <2> QED BY <1>1, <2>1, <2>2, <2>3, <2>4 DEF TypeOK
<1>10. TreesClosed'
  <2>1. Closed(committed \ Dead(committed, arg, i - 1)) BY <1>2, <1>4, PrunedClosed
  <2> QED BY <1>1, <1>8, <2>1 DEF TreesClosed
<1>11. CommittedLeaves' BY <1>1 DEF TreeInv, CommittedLeaves
<1>12. LockInv'
  BY <1>1, <1>7, WithinLock
<1>13. CallInv(t)'
  <2>1. CASE Removable(t)
    <3>1. pc'[t] = "pruning" /\ idx'[t] = i - 1 /\ ok'[t] = TRUE
      BY <1>1, <2>1
    <3> QED BY <1>1, <1>2, <1>4, <1>6, <1>8, <2>1, <3>1 DEF CallInv, RemoveInv
  <2>2. CASE ~ Removable(t)
    <3>1. pc'[t] = "exiting" /\ ok'[t] = FALSE /\ tree' = committed
      BY <1>1, <1>3, <2>2
    <3>2. RemoveTopicNodes(committed, arg) = committed
      BY <1>2, <1>6, <2>2, PrunedEnds
    <3> QED BY <1>1, <1>2, <1>6, <2>2, <3>1, <3>2 DEF CallInv, RemoveInv
  <2> QED BY <2>1, <2>2
<1>14. \A u \in Threads \ {t} : CallInv(u)'
  BY <1>1, <1>7, OthersUndisturbed
<1> QED BY <1>1, <1>9, <1>10, <1>11, <1>12, <1>13, <1>14 DEF TreeInv, Directory!vars

LEMMA PruneTreeInv ==
    ASSUME TreeInv, NEW t \in Threads, Prune(t)
    PROVE  TreeInv' /\ UNCHANGED Directory!vars
<1> USE Types
<1>1. /\ pc[t] = "pruning"
      /\ \/ /\ idx[t] # 0
            /\ tree' = IF IsLeaf(tree, Node(t)) THEN tree \ {Node(t)} ELSE tree
            /\ idx' = [idx EXCEPT ![t] = @ - 1]
            /\ UNCHANGED pc
         \/ /\ idx[t] = 0
            /\ pc' = [pc EXCEPT ![t] = "exiting"]
            /\ UNCHANGED <<tree, idx>>
      /\ UNCHANGED <<writer, readers, call, found, ok, answer, committed, added, calls>>
  BY DEF Prune, AboveRoot, lockVars
<1> DEFINE arg == call[t].arg
           i == idx[t]
<1>2. arg \in Path /\ call[t] \in Calls
  BY <1>1, InCall
<1>3. /\ call[t].op = "remove"
      /\ i \in 0 .. Len(arg)
      /\ arg \in committed /\ IsLeaf(committed, arg)
      /\ tree = committed \ Dead(committed, arg, i)
      /\ ok[t] = TRUE
  BY <1>1 DEF TreeInv, CallInv, RemoveInv
<1>4. writer = t
  BY <1>1, <1>3 DEF TreeInv, LockInv, Writes
<1>5. i # 0 => /\ i \in 1 .. Len(arg) /\ i - 1 \in 0 .. Len(arg) /\ i - 1 \in Nat
               /\ tree' = committed \ Dead(committed, arg, i - 1)
  <2> SUFFICES ASSUME i # 0
               PROVE  /\ i \in 1 .. Len(arg) /\ i - 1 \in 0 .. Len(arg) /\ i - 1 \in Nat
                      /\ tree' = committed \ Dead(committed, arg, i - 1)
    OBVIOUS
  <2>1. i \in 1 .. Len(arg) /\ i - 1 \in 0 .. Len(arg) /\ i - 1 \in Nat
    BY <1>2, <1>3 DEF Path
  <2>2. Node(t) = SubSeq(arg, 1, i) BY DEF Node
  <2>3. (IF IsLeaf(tree, Node(t)) THEN tree \ {Node(t)} ELSE tree)
           = committed \ Dead(committed, arg, i - 1)
    <3>1. (IF IsLeaf(committed \ Dead(committed, arg, i), SubSeq(arg, 1, i))
           THEN (committed \ Dead(committed, arg, i)) \ {SubSeq(arg, 1, i)}
           ELSE committed \ Dead(committed, arg, i))
              = committed \ Dead(committed, arg, i - 1)
      BY <1>2, <2>1, PrunedLayer
    <3> QED BY <1>3, <2>2, <3>1
  <2> QED BY <1>1, <2>1, <2>3
<1>6. TypeOK'
  <2>1. idx' \in [Threads -> Nat] BY <1>1, <1>5
  <2>2. tree' \subseteq tree BY <1>1
  <2>3. pc' \in [Threads -> {"idle", "entering", "walking", "pruning", "exiting", "threw"}]
    BY <1>1
  <2> QED BY <1>1, <2>1, <2>2, <2>3 DEF TypeOK
<1>7. TreesClosed'
  <2>1. Closed(tree')
    <3>1. i # 0 => Closed(committed \ Dead(committed, arg, i - 1)) BY <1>2, <1>5, PrunedClosed
    <3> QED BY <1>1, <1>5, <3>1
  <2> QED BY <1>1, <2>1 DEF TreesClosed
<1>8. CommittedLeaves' BY <1>1 DEF TreeInv, CommittedLeaves
<1>9. LockInv'
  BY <1>1, <1>3, <1>4, WithinLock
<1>10. CallInv(t)'
  <2>1. CASE i # 0
    <3>1. pc'[t] = "pruning" /\ idx'[t] = i - 1 BY <1>1, <2>1
    <3> QED BY <1>1, <1>2, <1>3, <1>5, <2>1, <3>1 DEF CallInv, RemoveInv
  <2>2. CASE i = 0
    <3>1. pc'[t] = "exiting" /\ tree' = tree BY <1>1, <2>2
    <3>2. tree = RemoveTopicNodes(committed, arg)
      BY <1>2, <1>3, <2>2, PrunedEnds
    <3> QED BY <1>1, <1>2, <1>3, <3>1, <3>2 DEF CallInv, RemoveInv
  <2> QED BY <2>1, <2>2
<1>11. \A u \in Threads \ {t} : CallInv(u)'
  BY <1>1, <1>4, OthersUndisturbed
<1> QED BY <1>1, <1>6, <1>7, <1>8, <1>9, <1>10, <1>11 DEF TreeInv, Directory!vars

\* What one layer of a lookup leads to are nodes of the tree, or the root.
LEMMA NextNodesTyped ==
    ASSUME NEW nodes, NEW key
    PROVE  NextNodes(nodes, key) \subseteq tree \cup {Root}
BY DEF NextNodes, Children

LEMMA MatchLayerTreeInv ==
    ASSUME TreeInv, NEW t \in Threads, MatchLayer(t)
    PROVE  TreeInv' /\ UNCHANGED Directory!vars
<1> USE Types
<1> DEFINE arg == call[t].arg
           i == idx[t]
           nodes == NextNodes(found[t], arg[i])
<1>1. /\ pc[t] = "walking" /\ call[t].op = "get"
      /\ found' = [found EXCEPT ![t] = nodes]
      /\ \/ pc' = [pc EXCEPT ![t] = "threw"] /\ UNCHANGED idx
         \/ /\ IsLast(t) \/ arg[i] = AllSubsequentLayersPattern
            /\ pc' = [pc EXCEPT ![t] = "exiting"] /\ UNCHANGED idx
         \/ /\ ~ IsLast(t) /\ arg[i] # AllSubsequentLayersPattern
            /\ idx' = [idx EXCEPT ![t] = @ + 1] /\ UNCHANGED pc
      /\ UNCHANGED <<tree, writer, readers, call, ok, answer, committed, added, calls>>
  BY DEF MatchLayer, At, lockVars
<1>2. arg \in Path /\ call[t] \in Calls
  BY <1>1, InCall
<1>3. /\ i \in 1 .. Len(arg) /\ ok[t] = TRUE
      /\ \A j \in 1 .. i - 1 : arg[j] # AllSubsequentLayersPattern
      /\ found[t] = Reached(arg, i - 1)
  BY <1>1 DEF TreeInv, CallInv, GetInv
<1>4. /\ i \in Nat /\ i + 1 \in Nat /\ i <= Len(arg) /\ (i + 1) - 1 = i
      /\ IsLast(t) <=> i = Len(arg)
      /\ i # Len(arg) => i + 1 \in 1 .. Len(arg)
  BY <1>2, <1>3 DEF Path, IsLast
<1>5. nodes \subseteq Paths \cup {Root}
  BY NextNodesTyped
<1>6. arg[i] = AllSubsequentLayersPattern => nodes = GetTopicNodes(tree, arg)
  BY <1>2, <1>3, ReachedAll
<1>7. arg[i] # AllSubsequentLayersPattern =>
         /\ nodes = Reached(arg, i)
         /\ \A j \in 1 .. i : arg[j] # AllSubsequentLayersPattern
  <2>1. \A j \in 1 .. i : j \in 1 .. i - 1 \/ j = i BY <1>4
  <2> QED BY <1>2, <1>3, <2>1, ReachedLayer
<1>8. arg[i] # AllSubsequentLayersPattern /\ i = Len(arg) => nodes = GetTopicNodes(tree, arg)
  BY <1>2, <1>7, ReachedAtLast
<1> HIDE DEF nodes
<1>9. TypeOK'
  <2>1. idx' \in [Threads -> Nat] BY <1>1, <1>4
  <2>2. found' \in [Threads -> SUBSET (Paths \cup {Root})] BY <1>1, <1>5
  <2>3. pc' \in [Threads -> {"idle", "entering", "walking", "pruning", "exiting", "threw"}]
    <3>1. pc' = [pc EXCEPT ![t] = "threw"] \/ pc' = [pc EXCEPT ![t] = "exiting"] \/ pc' = pc
      BY <1>1
    <3> QED BY <3>1
  <2> QED BY <1>1, <2>1, <2>2, <2>3 DEF TypeOK
<1>10. TreesClosed' /\ CommittedLeaves'
  BY <1>1 DEF TreeInv, TreesClosed, CommittedLeaves
<1>11. LockInv'
  BY <1>1, WithinLock
<1>12. CallInv(t)'
  <2>1. found'[t] = nodes /\ ok'[t] = TRUE /\ call'[t] = call[t] /\ tree' = tree
    BY <1>1, <1>3
  <2>2. CASE pc' = [pc EXCEPT ![t] = "threw"]
    <3>1. pc'[t] = "threw" BY <2>2
    <3> QED BY <1>1, <1>2, <2>1, <3>1 DEF CallInv, GetInv
  <2>3. CASE /\ IsLast(t) \/ arg[i] = AllSubsequentLayersPattern
             /\ pc' = [pc EXCEPT ![t] = "exiting"]
    <3>1. pc'[t] = "exiting" BY <2>3
    <3>2. nodes = GetTopicNodes(tree, arg) BY <1>4, <1>6, <1>8, <2>3
    <3> QED BY <1>1, <1>2, <2>1, <3>1, <3>2 DEF CallInv, GetInv
  <2>4. CASE /\ ~ IsLast(t) /\ arg[i] # AllSubsequentLayersPattern
             /\ idx' = [idx EXCEPT ![t] = @ + 1] /\ UNCHANGED pc
    <3>1. pc'[t] = "walking" /\ idx'[t] = i + 1 BY <1>1, <2>4
    <3>2. /\ idx'[t] \in 1 .. Len(arg) /\ idx'[t] - 1 = i BY <1>4, <2>4, <3>1
    <3>3. nodes = {n \in tree' \cup {Root} : /\ Len(n) = idx'[t] - 1
                                             /\ LayersMatch(call'[t].arg, n, idx'[t] - 1)}
      BY <1>7, <2>1, <2>4, <3>2 DEF Reached
    <3>4. GetInv(t)'
      BY <1>7, <2>1, <2>4, <3>1, <3>2, <3>3 DEF GetInv, Reached
    <3> QED BY <1>1, <1>2, <2>1, <3>1, <3>4 DEF CallInv
  <2> QED BY <1>1, <2>2, <2>3, <2>4
<1>13. \A u \in Threads \ {t} : CallInv(u)'
  BY <1>1, OthersUndisturbed
<1> QED BY <1>1, <1>9, <1>10, <1>11, <1>12, <1>13 DEF TreeInv, Directory!vars

\* Every step keeps the invariant, and is a call's one instant or a stutter.
LEMMA NextTreeInv ==
    TreeInv /\ [Next]_vars => TreeInv' /\ [Directory!Next]_(Directory!vars)
<1> SUFFICES ASSUME TreeInv, [Next]_vars
             PROVE  TreeInv' /\ [Directory!Next]_(Directory!vars)
  OBVIOUS
<1>1. CASE UNCHANGED vars
  BY <1>1
  DEF vars, lockVars, threadVars, TreeInv, TypeOK, TreesClosed, CommittedLeaves, LockInv, CallInv,
      AddInv, RemoveInv, GetInv, Reached, Writes, Reads, Directory!vars
<1>2. ASSUME NEW t \in Threads, Invoke(t) PROVE TreeInv' /\ Directory!Next
  BY <1>2, InvokeTreeInv
<1>3. ASSUME NEW t \in Threads, Step(t)
      PROVE  TreeInv' /\ [Directory!Next]_(Directory!vars)
  <2>1. CASE EnterWriteLock(t) \/ EnterReadLock(t) BY <2>1, EnterTreeInv
  <2>2. CASE ExitLock(t) BY <2>2, ExitTreeInv
  <2>3. CASE AddNode(t) BY <2>3, AddNodeTreeInv
  <2>4. CASE RemoveDescend(t) BY <2>4, RemoveDescendTreeInv
  <2>5. CASE RemoveLeaf(t) BY <2>5, RemoveLeafTreeInv
  <2>6. CASE Prune(t) BY <2>6, PruneTreeInv
  <2>7. CASE MatchLayer(t) BY <2>7, MatchLayerTreeInv
  <2> QED BY <1>3, <2>1, <2>2, <2>3, <2>4, <2>5, <2>6, <2>7 DEF Step
<1> QED BY <1>1, <1>2, <1>3 DEF Next

LEMMA AlwaysTreeInv == Spec => []TreeInv
<1>1. TreeInv /\ [Next]_vars => TreeInv' BY NextTreeInv
<1> QED BY <1>1, InitTreeInv, PTL DEF Spec

-----------------------------------------------------------------------------
(* The theorems.                                                           *)

\* The tree, the lock and the threads stay within their types.
THEOREM TreeTyped == Spec => []TypeOK
<1>1. TreeInv => TypeOK BY DEF TreeInv
<1> QED BY <1>1, AlwaysTreeInv, PTL

\* Whatever keys there are and however the threads' walks interleave, no step
\* of TopicNode.cs leaves a node without its parent.
THEOREM TreeConnected == Spec => []PrefixClosed
<1>1. TreeInv => PrefixClosed
  <2> SUFFICES ASSUME TreeInv, NEW n \in tree, Len(n) > 1 PROVE Parent(n) \in tree
    BY DEF PrefixClosed
  <2>1. n \in Path /\ Prefixes(n) \subseteq tree BY DEF TreeInv, TreesClosed, Closed
  <2>2. Len(n) - 1 \in 1 .. Len(n) BY <2>1 DEF Path
  <2> QED BY <2>1, <2>2 DEF Parent, Prefixes
<1> QED BY <1>1, AlwaysTreeInv, PTL

\* No removal leaves a dead branch: when no writer is at work every leaf is a
\* key that was added.
THEOREM NoDeadBranch == Spec => []LeavesWereAdded
<1>1. TreeInv => LeavesWereAdded
  BY DEF TreeInv, LockInv, CommittedLeaves, LeavesWereAdded
<1> QED BY <1>1, AlwaysTreeInv, PTL

\* The lock of ConcurrentTopicNode keeps every reader from a half-done walk.
THEOREM ReadersUndisturbed == Spec => []ReadersSeeCommitted
<1>1. TreeInv => ReadersSeeCommitted
  <2> SUFFICES ASSUME TreeInv, readers # {} PROVE tree = committed
    BY DEF ReadersSeeCommitted
  <2>1. LockInv BY DEF TreeInv
  <2>2. writer = NoCall BY <2>1 DEF LockInv
  <2> QED BY <2>1, <2>2 DEF LockInv
<1> QED BY <1>1, AlwaysTreeInv, PTL

\* The calls of ConcurrentTopicNode are linearizable: layer by layer walks under
\* the lock implement the directory in which a call is one instant.
THEOREM CallsLinearizable == Spec => Linearizable
<1>1. Init => Directory!Init BY DEF Init, Directory!Init
<1>2. TreeInv /\ [Next]_vars => [Directory!Next]_(Directory!vars) BY NextTreeInv
<1> QED BY <1>1, <1>2, AlwaysTreeInv, PTL DEF Spec, Linearizable, Directory!Spec

=============================================================================
