------------------------- MODULE SearchTreesProofs --------------------------
(***************************************************************************)
(* Theorems about SearchTrees, for trees of any size and titles of any     *)
(* number: that both trees implement Catalog, and that insertions keep the *)
(* balanced one balanced.                                                  *)
(***************************************************************************)
EXTENDS SearchTrees, WellFoundedInduction, TLAPS

-----------------------------------------------------------------------------
(* Induction                                                                 *)

lt == OpToRel(<, Nat)

\* The order of the numbers, as a relation.
LEMMA LtIs == \A x, y \in Nat : <<x, y>> \in lt <=> x < y
BY DEF lt, OpToRel

\* Of numbers there is always a least one.
LEMMA Least ==
  ASSUME NEW T \in SUBSET Nat, T # {}
  PROVE  \E x \in T : \A y \in T : x <= y
<1>1. IsWellFoundedOn(lt, Nat)
  BY NatLessThanWellFounded DEF lt, OpToRel
<1>2. PICK x \in T : \A y \in T : ~(<<y, x>> \in lt)
  BY <1>1, WFMin
<1>3. \A y \in T : ~(y < x)
  BY <1>2, LtIs
<1> QED BY <1>3

\* Induction up to the bound, for a set of numbers.
LEMMA Upwards ==
  ASSUME NEW T, 0 \in T, \A n \in 0 .. MaxItems - 1 : n \in T => n + 1 \in T
  PROVE  0 .. MaxItems \subseteq T
<1> DEFINE U == (0 .. MaxItems) \ T
<1> SUFFICES ASSUME U # {} PROVE FALSE
  OBVIOUS
<1>1. MaxItems \in Nat /\ U \in SUBSET Nat
  BY TitlesAssumption
<1>2. PICK x \in U : \A y \in U : x <= y
  BY <1>1, Least
<1>3. x - 1 \in 0 .. MaxItems - 1 /\ x - 1 \notin U
  BY <1>1, <1>2
<1> QED BY <1>1, <1>3

-----------------------------------------------------------------------------
(* Trees                                                                     *)

IsLevels(g, m) == g = [n \in 0 .. m |-> {Null} \cup IF n = 0 THEN {} ELSE Nodes(g[n - 1])]

\* TreesUpTo is what its definition says.
LEMMA LevelsExist == IsLevels(TreesUpTo, MaxItems)
<1> DEFINE T == { m \in Nat : \E g : IsLevels(g, m) }
<1>1. MaxItems \in Nat
  BY TitlesAssumption
<1>2. 0 \in T
  <2>1. IsLevels([n \in 0 .. 0 |-> {Null}], 0)
    BY DEF IsLevels
  <2> QED BY <2>1
<1>3. ASSUME NEW m \in 0 .. MaxItems - 1, m \in T
      PROVE  m + 1 \in T
  <2>1. m \in Nat /\ m + 1 \in Nat
    BY <1>1
  <2>2. PICK g : IsLevels(g, m)
    BY <1>3
  <2> DEFINE level(f, n) == {Null} \cup IF n = 0 THEN {} ELSE Nodes(f[n - 1])
             h == [n \in 0 .. m + 1 |-> level(g, n)]
  <2>3. \A n \in 0 .. m : n \in 0 .. m + 1 /\ g[n] = level(g, n)
    <3>1. g = [n \in 0 .. m |-> level(g, n)]
      BY <2>2 DEF IsLevels
    <3>2. \A n \in 0 .. m : g[n] = level(g, n)
      <4> HIDE DEF level
      <4> QED BY <3>1
    <3> QED BY <2>1, <3>2
  <2>4. \A n \in 0 .. m + 1 : n # 0 => n - 1 \in 0 .. m
    BY <2>1
  <2>5. \A n \in 0 .. m : h[n] = g[n]
    <3> HIDE DEF level
    <3> QED BY <2>3
  <2>6. \A n \in 0 .. m + 1 : level(g, n) = level(h, n)
    <3> HIDE DEF h
    <3> QED BY <2>4, <2>5
  <2>7. h = [n \in 0 .. m + 1 |-> level(h, n)]
    <3>1. h = [n \in 0 .. m + 1 |-> level(g, n)]
      OBVIOUS
    <3> HIDE DEF level, h
    <3> QED BY <2>6, <3>1
  <2>8. IsLevels(h, m + 1)
    <3> HIDE DEF h
    <3> QED BY <2>7 DEF IsLevels
  <2> QED BY <2>1, <2>8
<1>4. MaxItems \in T
  <2> HIDE DEF T
  <2> QED BY <1>1, <1>2, <1>3, Upwards
<1>5. PICK g : IsLevels(g, MaxItems)
  BY <1>4
<1> QED
  BY <1>5 DEF IsLevels, TreesUpTo

\* Level by level.
LEMMA Levels ==
  /\ TreesUpTo[0] = {Null}
  /\ \A n \in 0 .. MaxItems - 1 : TreesUpTo[n + 1] = {Null} \cup Nodes(TreesUpTo[n])
<1>1. MaxItems \in Nat
  BY TitlesAssumption
<1>2. \A n \in 0 .. MaxItems :
        TreesUpTo[n] = {Null} \cup IF n = 0 THEN {} ELSE Nodes(TreesUpTo[n - 1])
  BY LevelsExist DEF IsLevels
<1>3. ASSUME NEW n \in 0 .. MaxItems - 1
      PROVE  TreesUpTo[n + 1] = {Null} \cup Nodes(TreesUpTo[n])
  <2>1. n + 1 \in 0 .. MaxItems /\ n + 1 # 0 /\ n + 1 - 1 = n
    BY <1>1
  <2> QED BY <1>2, <2>1
<1> QED
  BY <1>1, <1>2, <1>3

\* A node is not null.
LEMMA NodeIsNot ==
  ASSUME NEW S, NEW t \in Nodes(S)
  PROVE  t # Null
<1>1. t.height \in Nat
  BY DEF Nodes
<1>2. Null.height = -1
  BY DEF Null
<1> QED
  BY <1>1, <1>2

\* Trees of fewer levels are among those of more.
LEMMA LevelsGrow ==
  \A n \in 0 .. MaxItems : \A m \in 0 .. n : TreesUpTo[m] \subseteq TreesUpTo[n]
<1> DEFINE T == { n \in Nat : n < MaxItems => TreesUpTo[n] \subseteq TreesUpTo[n + 1] }
           U == { n \in Nat : \A m \in 0 .. n : TreesUpTo[m] \subseteq TreesUpTo[n] }
<1>1. MaxItems \in Nat
  BY TitlesAssumption
<1>2. 0 \in T
  BY <1>1, Levels
<1>3. ASSUME NEW n \in 0 .. MaxItems - 1, n \in T
      PROVE  n + 1 \in T
  <2>1. n \in Nat /\ n + 1 \in Nat /\ TreesUpTo[n] \subseteq TreesUpTo[n + 1]
    BY <1>1, <1>3
  <2>2. TreesUpTo[n + 1] = {Null} \cup Nodes(TreesUpTo[n])
    BY <2>1, Levels
  <2>3. ASSUME n + 1 < MaxItems
        PROVE  TreesUpTo[n + 1] \subseteq TreesUpTo[n + 1 + 1]
    <3>1. n + 1 \in 0 .. MaxItems - 1
      BY <1>1, <2>1, <2>3
    <3>2. TreesUpTo[n + 1 + 1] = {Null} \cup Nodes(TreesUpTo[n + 1])
      BY <3>1, Levels
    <3>3. Nodes(TreesUpTo[n]) \subseteq Nodes(TreesUpTo[n + 1])
      BY <2>1 DEF Nodes
    <3> QED
      BY <2>2, <3>2, <3>3
  <2> QED BY <2>1, <2>3
<1>4. 0 .. MaxItems \subseteq T
  <2> HIDE DEF T
  <2> QED BY <1>2, <1>3, Upwards
<1>5. 0 \in U
  BY <1>1
<1>6. ASSUME NEW n \in 0 .. MaxItems - 1, n \in U
      PROVE  n + 1 \in U
  <2>1. n \in Nat /\ n + 1 \in Nat /\ TreesUpTo[n] \subseteq TreesUpTo[n + 1]
    BY <1>1, <1>4
  <2>2. ASSUME NEW m \in 0 .. n + 1
        PROVE  TreesUpTo[m] \subseteq TreesUpTo[n + 1]
    BY <1>6, <2>1, <2>2
  <2> QED BY <2>1, <2>2
<1>7. 0 .. MaxItems \subseteq U
  <2> HIDE DEF U
  <2> QED BY <1>5, <1>6, Upwards
<1> QED BY <1>7

\* Every level's trees are Trees.
LEMMA LevelsAreTrees == \A n \in 0 .. MaxItems : TreesUpTo[n] \subseteq Trees
<1>1. MaxItems \in Nat
  BY TitlesAssumption
<1> QED
  BY <1>1, LevelsGrow DEF Trees

\* A record is what its fields say.
LEMMA NodeFields ==
  ASSUME NEW S, NEW t \in Nodes(S)
  PROVE  /\ t.left \in S /\ t.right \in S /\ t.data \in Titles /\ t.height \in Nat
         /\ t = Node(t.left, t.data, t.height, t.right)
<1>1. t = [left |-> t.left, data |-> t.data, height |-> t.height, right |-> t.right]
  BY DEF Nodes
<1> QED
  BY <1>1 DEF Nodes, Node

\* A node's subtrees have a level less.
LEMMA Subtrees ==
  ASSUME NEW n \in 0 .. MaxItems, NEW t \in TreesUpTo[n], t # Null
  PROVE  /\ n - 1 \in 0 .. MaxItems - 1
         /\ t.left \in TreesUpTo[n - 1] /\ t.right \in TreesUpTo[n - 1]
         /\ t.data \in Titles /\ t.data \in Int /\ t.height \in Nat
         /\ t = Node(t.left, t.data, t.height, t.right)
<1>1. MaxItems \in Nat
  BY TitlesAssumption
<1>2. n # 0
  BY Levels
<1>3. n - 1 \in 0 .. MaxItems - 1 /\ n - 1 + 1 = n
  BY <1>1, <1>2
<1>4. t \in Nodes(TreesUpTo[n - 1])
  BY <1>3, Levels
<1> QED
  BY <1>3, <1>4, NodeFields, TitlesAssumption

\* And a node has one more than they.
LEMMA NewNode ==
  ASSUME NEW n \in 0 .. MaxItems - 1, NEW l \in TreesUpTo[n], NEW r \in TreesUpTo[n],
         NEW x \in Titles, NEW h \in Nat
  PROVE  /\ Node(l, x, h, r) \in TreesUpTo[n + 1] /\ Node(l, x, h, r) \in Trees
         /\ Node(l, x, h, r) # Null
         /\ Node(l, x, h, r).left = l /\ Node(l, x, h, r).right = r
         /\ Node(l, x, h, r).data = x /\ Node(l, x, h, r).height = h
<1>1. MaxItems \in Nat /\ n + 1 \in 0 .. MaxItems
  BY TitlesAssumption
<1>2. TreesUpTo[n + 1] = {Null} \cup Nodes(TreesUpTo[n])
  BY Levels
<1>3. Node(l, x, h, r) \in Nodes(TreesUpTo[n])
  BY DEF Node, Nodes
<1>4. Node(l, x, h, r) \in Trees
  BY <1>1, <1>2, <1>3, LevelsAreTrees
<1> QED
  BY <1>2, <1>3, <1>4, NodeIsNot DEF Node

\* Null is a tree, and the parts of one are trees.
LEMMA Parts ==
  /\ Null \in Trees /\ Null.height = -1 /\ \A n \in 0 .. MaxItems : Null \in TreesUpTo[n]
  /\ \A t \in Trees \ {Null} :
       /\ t.left \in Trees /\ t.right \in Trees /\ t.height \in Nat
       /\ t.data \in Titles /\ t.data \in Int
  /\ \A t \in Trees : t.height \in Int /\ t.height >= -1
<1>1. MaxItems \in Nat /\ MaxItems \in 0 .. MaxItems /\ 0 \in 0 .. MaxItems
  BY TitlesAssumption
<1>2. \A n \in 0 .. MaxItems : Null \in TreesUpTo[n]
  BY <1>1, Levels, LevelsGrow
<1>3. ASSUME NEW t \in Trees \ {Null}
      PROVE  /\ t.left \in Trees /\ t.right \in Trees /\ t.height \in Nat
             /\ t.data \in Titles /\ t.data \in Int
  <2>1. t \in TreesUpTo[MaxItems] /\ t # Null
    BY DEF Trees
  <2>2. /\ MaxItems - 1 \in 0 .. MaxItems - 1
        /\ t.left \in TreesUpTo[MaxItems - 1] /\ t.right \in TreesUpTo[MaxItems - 1]
        /\ t.data \in Titles /\ t.data \in Int /\ t.height \in Nat
    BY <1>1, <2>1, Subtrees
  <2> QED
    BY <1>1, <2>2, LevelsAreTrees
<1>4. Null.height = -1
  BY DEF Null
<1>5. Null \in Trees
  BY <1>1, <1>2 DEF Trees
<1> QED
  BY <1>2, <1>3, <1>4, <1>5

\* Induction over trees: what holds of null, and of a node when it holds of its
\* subtrees, holds of all.
LEMMA TreeInduction ==
  ASSUME NEW S, Null \in S,
         \A t \in Trees \ {Null} : t.left \in S /\ t.right \in S => t \in S
  PROVE  Trees \subseteq S
<1> DEFINE T == { n \in Nat : n <= MaxItems => TreesUpTo[n] \subseteq S }
<1>1. MaxItems \in Nat
  BY TitlesAssumption
<1>2. 0 \in T
  BY Levels
<1>3. ASSUME NEW n \in 0 .. MaxItems - 1, n \in T
      PROVE  n + 1 \in T
  <2>1. n + 1 \in 0 .. MaxItems /\ n + 1 - 1 = n /\ TreesUpTo[n] \subseteq S
    BY <1>1, <1>3
  <2>2. ASSUME NEW t \in TreesUpTo[n + 1], t # Null
        PROVE  t \in S
    <3>1. t.left \in TreesUpTo[n] /\ t.right \in TreesUpTo[n]
      BY <2>1, <2>2, Subtrees
    <3>2. t \in Trees \ {Null}
      BY <2>1, <2>2, LevelsAreTrees
    <3> QED BY <2>1, <3>1, <3>2
  <2> QED BY <1>1, <2>2
<1>4. MaxItems \in T
  <2> HIDE DEF T
  <2> QED BY <1>1, <1>2, <1>3, Upwards
<1> QED BY <1>1, <1>4 DEF Trees

-----------------------------------------------------------------------------
(* The recursive functions are what their definitions say                    *)

\* No title on the left of a node comes after it, and none on the right before it.
Ordered[t \in Trees] ==
  \/ t = Null
  \/ /\ \A y \in Titles : Copies[t.left][y] > 0 => y <= t.data
     /\ \A y \in Titles : Copies[t.right][y] > 0 => y >= t.data
     /\ Ordered[t.left] /\ Ordered[t.right]

\* The number of nodes.
LEMMA SizeIs ==
  /\ Size[Null] = 0
  /\ \A t \in Trees \ {Null} : Size[t] = Size[t.left] + 1 + Size[t.right]
<1> DEFINE body(f, t) == IF t = Null THEN 0 ELSE f[t.left] + 1 + f[t.right]
           Is(k, S) == k = [t \in S |-> body(k, t)]
           T == { n \in Nat : n <= MaxItems => \E k : Is(k, TreesUpTo[n]) }
<1>1. MaxItems \in Nat /\ 0 \in 0 .. MaxItems
  BY TitlesAssumption
<1>2. 0 \in T
  <2>1. Is([t \in {Null} |-> 0], {Null})
    OBVIOUS
  <2> QED BY <2>1, Levels
<1>3. ASSUME NEW n \in 0 .. MaxItems - 1, n \in T
      PROVE  n + 1 \in T
  <2>1. n + 1 \in Nat /\ n + 1 \in 0 .. MaxItems /\ n + 1 - 1 = n /\ n <= MaxItems
    BY <1>1
  <2> DEFINE A == TreesUpTo[n]
             B == TreesUpTo[n + 1]
  <2>2. PICK g : Is(g, A)
    BY <1>3, <2>1
  <2> DEFINE h == [t \in B |-> body(g, t)]
  <2>3. A \subseteq B /\ \A t \in A : g[t] = body(g, t)
    <3>1. A \subseteq B
      BY <2>1, LevelsGrow
    <3>2. g = [t \in A |-> body(g, t)]
      BY <2>2
    <3> HIDE DEF body, A, B
    <3> QED BY <3>1, <3>2
  <2>4. \A t \in A : h[t] = g[t]
    <3> HIDE DEF body, A, B
    <3> QED BY <2>3
  <2>5. \A t \in B : t # Null => t.left \in TreesUpTo[n] /\ t.right \in TreesUpTo[n]
    BY <2>1, Subtrees
  <2>6. \A t \in B : body(g, t) = body(h, t)
    <3> HIDE DEF h
    <3> QED BY <2>4, <2>5
  <2>7. Is(h, B)
    <3>1. h = [t \in B |-> body(g, t)]
      OBVIOUS
    <3> HIDE DEF body, h, A, B
    <3> QED BY <2>6, <3>1
  <2> HIDE DEF Is
  <2> QED BY <2>1, <2>7
<1>4. MaxItems \in T
  <2> HIDE DEF T
  <2> QED BY <1>1, <1>2, <1>3, Upwards
<1>5. PICK g : Is(g, Trees)
  <2> HIDE DEF Is
  <2> QED BY <1>1, <1>4 DEF Trees
<1>6. Is(Size, Trees)
  <2>1. Size = CHOOSE k : Is(k, Trees)
    BY DEF Size
  <2> HIDE DEF Is
  <2> QED BY <1>5, <2>1
<1>7. \A t \in Trees : Size[t] = body(Size, t)
  <2> HIDE DEF body
  <2> QED BY <1>6
<1> QED BY <1>7, Parts

\* How often a title is in a tree.
LEMMA CopiesAre ==
  /\ \A t \in Trees : Copies[t] = [y \in Titles |-> Copies[t][y]]
  /\ \A y \in Titles :
       /\ Copies[Null][y] = 0
       /\ \A t \in Trees \ {Null} :
            Copies[t][y] = Copies[t.left][y] + (IF y = t.data THEN 1 ELSE 0) + Copies[t.right][y]
<1> DEFINE body(f, t) == [y \in Titles |-> IF t = Null THEN 0
                            ELSE f[t.left][y] + (IF y = t.data THEN 1 ELSE 0) + f[t.right][y]]
           Is(k, S) == k = [t \in S |-> body(k, t)]
           T == { n \in Nat : n <= MaxItems => \E k : Is(k, TreesUpTo[n]) }
<1>1. MaxItems \in Nat /\ 0 \in 0 .. MaxItems
  BY TitlesAssumption
<1>2. 0 \in T
  <2>1. Is([t \in {Null} |-> [y \in Titles |-> 0]], {Null})
    OBVIOUS
  <2> QED BY <2>1, Levels
<1>3. ASSUME NEW n \in 0 .. MaxItems - 1, n \in T
      PROVE  n + 1 \in T
  <2>1. n + 1 \in Nat /\ n + 1 \in 0 .. MaxItems /\ n + 1 - 1 = n /\ n <= MaxItems
    BY <1>1
  <2> DEFINE A == TreesUpTo[n]
             B == TreesUpTo[n + 1]
  <2>2. PICK g : Is(g, A)
    BY <1>3, <2>1
  <2> DEFINE h == [t \in B |-> body(g, t)]
  <2>3. A \subseteq B /\ \A t \in A : g[t] = body(g, t)
    <3>1. A \subseteq B
      BY <2>1, LevelsGrow
    <3>2. g = [t \in A |-> body(g, t)]
      BY <2>2
    <3> HIDE DEF body, A, B
    <3> QED BY <3>1, <3>2
  <2>4. \A t \in A : h[t] = g[t]
    <3> HIDE DEF body, A, B
    <3> QED BY <2>3
  <2>5. \A t \in B : t # Null => t.left \in TreesUpTo[n] /\ t.right \in TreesUpTo[n]
    BY <2>1, Subtrees
  <2>6. \A t \in B : body(g, t) = body(h, t)
    <3> HIDE DEF h
    <3> QED BY <2>4, <2>5
  <2>7. Is(h, B)
    <3>1. h = [t \in B |-> body(g, t)]
      OBVIOUS
    <3> HIDE DEF body, h, A, B
    <3> QED BY <2>6, <3>1
  <2> HIDE DEF Is
  <2> QED BY <2>1, <2>7
<1>4. MaxItems \in T
  <2> HIDE DEF T
  <2> QED BY <1>1, <1>2, <1>3, Upwards
<1>5. PICK g : Is(g, Trees)
  <2> HIDE DEF Is
  <2> QED BY <1>1, <1>4 DEF Trees
<1>6. Is(Copies, Trees)
  <2>1. Copies = CHOOSE k : Is(k, Trees)
    BY DEF Copies
  <2> HIDE DEF Is
  <2> QED BY <1>5, <2>1
<1>7. \A t \in Trees : Copies[t] = body(Copies, t)
  <2> HIDE DEF body
  <2> QED BY <1>6
<1>8. ASSUME NEW t \in Trees, NEW y \in Titles
      PROVE  Copies[t][y] = body(Copies, t)[y]
  BY <1>7
<1>9. \A t \in Trees : Copies[t] = [y \in Titles |-> Copies[t][y]]
  BY <1>7
<1> QED BY <1>8, <1>9, Parts

\* And its number, title by title.
LEMMA CopiesIs ==
  \A y \in Titles :
    /\ Copies[Null][y] = 0
    /\ \A t \in Trees \ {Null} :
         Copies[t][y] = Copies[t.left][y] + (IF y = t.data THEN 1 ELSE 0) + Copies[t.right][y]
BY CopiesAre

\* Order, node by node.
LEMMA OrderedIs ==
  /\ Ordered[Null]
  /\ \A t \in Trees \ {Null} :
       Ordered[t] <=> /\ \A y \in Titles : Copies[t.left][y] > 0 => y <= t.data
                      /\ \A y \in Titles : Copies[t.right][y] > 0 => y >= t.data
                      /\ Ordered[t.left] /\ Ordered[t.right]
<1> DEFINE body(f, t) == \/ t = Null
                         \/ /\ \A y \in Titles : Copies[t.left][y] > 0 => y <= t.data
                            /\ \A y \in Titles : Copies[t.right][y] > 0 => y >= t.data
                            /\ f[t.left] /\ f[t.right]
           Is(k, S) == k = [t \in S |-> body(k, t)]
           T == { n \in Nat : n <= MaxItems => \E k : Is(k, TreesUpTo[n]) }
<1>1. MaxItems \in Nat /\ 0 \in 0 .. MaxItems
  BY TitlesAssumption
<1>2. 0 \in T
  <2>1. Is([t \in {Null} |-> TRUE], {Null})
    OBVIOUS
  <2> QED BY <2>1, Levels
<1>3. ASSUME NEW n \in 0 .. MaxItems - 1, n \in T
      PROVE  n + 1 \in T
  <2>1. n + 1 \in Nat /\ n + 1 \in 0 .. MaxItems /\ n + 1 - 1 = n /\ n <= MaxItems
    BY <1>1
  <2> DEFINE A == TreesUpTo[n]
             B == TreesUpTo[n + 1]
  <2>2. PICK g : Is(g, A)
    BY <1>3, <2>1
  <2> DEFINE h == [t \in B |-> body(g, t)]
  <2>3. A \subseteq B /\ \A t \in A : g[t] = body(g, t)
    <3>1. A \subseteq B
      BY <2>1, LevelsGrow
    <3>2. g = [t \in A |-> body(g, t)]
      BY <2>2
    <3> HIDE DEF body, A, B
    <3> QED BY <3>1, <3>2
  <2>4. \A t \in A : h[t] = g[t]
    <3> HIDE DEF body, A, B
    <3> QED BY <2>3
  <2>5. \A t \in B : t # Null => t.left \in TreesUpTo[n] /\ t.right \in TreesUpTo[n]
    BY <2>1, Subtrees
  <2>6. \A t \in B : body(g, t) = body(h, t)
    <3> HIDE DEF h
    <3> QED BY <2>4, <2>5
  <2>7. Is(h, B)
    <3>1. h = [t \in B |-> body(g, t)]
      OBVIOUS
    <3> HIDE DEF body, h, A, B
    <3> QED BY <2>6, <3>1
  <2> HIDE DEF Is
  <2> QED BY <2>1, <2>7
<1>4. MaxItems \in T
  <2> HIDE DEF T
  <2> QED BY <1>1, <1>2, <1>3, Upwards
<1>5. PICK g : Is(g, Trees)
  <2> HIDE DEF Is
  <2> QED BY <1>1, <1>4 DEF Trees
<1>6. Is(Ordered, Trees)
  <2>1. Ordered = CHOOSE k : Is(k, Trees)
    BY DEF Ordered
  <2> HIDE DEF Is
  <2> QED BY <1>5, <2>1
<1>7. \A t \in Trees : Ordered[t] = body(Ordered, t)
  <2> HIDE DEF body
  <2> QED BY <1>6
<1> QED BY <1>7, Parts

\* The height, counted.
LEMMA DepthIs ==
  /\ Depth[Null] = -1
  /\ \A t \in Trees \ {Null} : Depth[t] = 1 + Larger(Depth[t.left], Depth[t.right])
<1> DEFINE body(f, t) == IF t = Null THEN -1 ELSE 1 + Larger(f[t.left], f[t.right])
           Is(k, S) == k = [t \in S |-> body(k, t)]
           T == { n \in Nat : n <= MaxItems => \E k : Is(k, TreesUpTo[n]) }
<1>1. MaxItems \in Nat /\ 0 \in 0 .. MaxItems
  BY TitlesAssumption
<1>2. 0 \in T
  <2>1. Is([t \in {Null} |-> -1], {Null})
    OBVIOUS
  <2> QED BY <2>1, Levels
<1>3. ASSUME NEW n \in 0 .. MaxItems - 1, n \in T
      PROVE  n + 1 \in T
  <2>1. n + 1 \in Nat /\ n + 1 \in 0 .. MaxItems /\ n + 1 - 1 = n /\ n <= MaxItems
    BY <1>1
  <2> DEFINE A == TreesUpTo[n]
             B == TreesUpTo[n + 1]
  <2>2. PICK g : Is(g, A)
    BY <1>3, <2>1
  <2> DEFINE h == [t \in B |-> body(g, t)]
  <2>3. A \subseteq B /\ \A t \in A : g[t] = body(g, t)
    <3>1. A \subseteq B
      BY <2>1, LevelsGrow
    <3>2. g = [t \in A |-> body(g, t)]
      BY <2>2
    <3> HIDE DEF body, A, B
    <3> QED BY <3>1, <3>2
  <2>4. \A t \in A : h[t] = g[t]
    <3> HIDE DEF body, A, B
    <3> QED BY <2>3
  <2>5. \A t \in B : t # Null => t.left \in TreesUpTo[n] /\ t.right \in TreesUpTo[n]
    BY <2>1, Subtrees
  <2>6. \A t \in B : body(g, t) = body(h, t)
    <3> HIDE DEF h
    <3> QED BY <2>4, <2>5
  <2>7. Is(h, B)
    <3>1. h = [t \in B |-> body(g, t)]
      OBVIOUS
    <3> HIDE DEF body, h, A, B
    <3> QED BY <2>6, <3>1
  <2> HIDE DEF Is
  <2> QED BY <2>1, <2>7
<1>4. MaxItems \in T
  <2> HIDE DEF T
  <2> QED BY <1>1, <1>2, <1>3, Upwards
<1>5. PICK g : Is(g, Trees)
  <2> HIDE DEF Is
  <2> QED BY <1>1, <1>4 DEF Trees
<1>6. Is(Depth, Trees)
  <2>1. Depth = CHOOSE k : Is(k, Trees)
    BY DEF Depth
  <2> HIDE DEF Is
  <2> QED BY <1>5, <2>1
<1>7. \A t \in Trees : Depth[t] = body(Depth, t)
  <2> HIDE DEF body
  <2> QED BY <1>6
<1> QED BY <1>7, Parts

\* Balance, node by node.
LEMMA IsBalancedIs ==
  /\ IsBalanced[Null]
  /\ \A t \in Trees \ {Null} :
       IsBalanced[t] <=> /\ Depth[t.left] - Depth[t.right] \in {-1, 0, 1}
                         /\ t.height = Depth[t]
                         /\ IsBalanced[t.left] /\ IsBalanced[t.right]
<1> DEFINE body(f, t) == \/ t = Null
                         \/ /\ Depth[t.left] - Depth[t.right] \in {-1, 0, 1}
                            /\ t.height = Depth[t]
                            /\ f[t.left] /\ f[t.right]
           Is(k, S) == k = [t \in S |-> body(k, t)]
           T == { n \in Nat : n <= MaxItems => \E k : Is(k, TreesUpTo[n]) }
<1>1. MaxItems \in Nat /\ 0 \in 0 .. MaxItems
  BY TitlesAssumption
<1>2. 0 \in T
  <2>1. Is([t \in {Null} |-> TRUE], {Null})
    OBVIOUS
  <2> QED BY <2>1, Levels
<1>3. ASSUME NEW n \in 0 .. MaxItems - 1, n \in T
      PROVE  n + 1 \in T
  <2>1. n + 1 \in Nat /\ n + 1 \in 0 .. MaxItems /\ n + 1 - 1 = n /\ n <= MaxItems
    BY <1>1
  <2> DEFINE A == TreesUpTo[n]
             B == TreesUpTo[n + 1]
  <2>2. PICK g : Is(g, A)
    BY <1>3, <2>1
  <2> DEFINE h == [t \in B |-> body(g, t)]
  <2>3. A \subseteq B /\ \A t \in A : g[t] = body(g, t)
    <3>1. A \subseteq B
      BY <2>1, LevelsGrow
    <3>2. g = [t \in A |-> body(g, t)]
      BY <2>2
    <3> HIDE DEF body, A, B
    <3> QED BY <3>1, <3>2
  <2>4. \A t \in A : h[t] = g[t]
    <3> HIDE DEF body, A, B
    <3> QED BY <2>3
  <2>5. \A t \in B : t # Null => t.left \in TreesUpTo[n] /\ t.right \in TreesUpTo[n]
    BY <2>1, Subtrees
  <2>6. \A t \in B : body(g, t) = body(h, t)
    <3> HIDE DEF h
    <3> QED BY <2>4, <2>5
  <2>7. Is(h, B)
    <3>1. h = [t \in B |-> body(g, t)]
      OBVIOUS
    <3> HIDE DEF body, h, A, B
    <3> QED BY <2>6, <3>1
  <2> HIDE DEF Is
  <2> QED BY <2>1, <2>7
<1>4. MaxItems \in T
  <2> HIDE DEF T
  <2> QED BY <1>1, <1>2, <1>3, Upwards
<1>5. PICK g : Is(g, Trees)
  <2> HIDE DEF Is
  <2> QED BY <1>1, <1>4 DEF Trees
<1>6. Is(IsBalanced, Trees)
  <2>1. IsBalanced = CHOOSE k : Is(k, Trees)
    BY DEF IsBalanced
  <2> HIDE DEF Is
  <2> QED BY <1>5, <2>1
<1>7. \A t \in Trees : IsBalanced[t] = body(IsBalanced, t)
  <2> HIDE DEF body
  <2> QED BY <1>6
<1> QED BY <1>7, Parts

\* A search goes down one side.
LEMMA SearchIs ==
  \A x \in Titles :
    /\ Search[Null][x] = FALSE
    /\ \A t \in Trees \ {Null} :
         Search[t][x] = \/ x = t.data
                        \/ x < t.data /\ Search[t.left][x]
                        \/ x > t.data /\ Search[t.right][x]
<1> DEFINE body(f, t) == [x \in Titles |->
                            /\ t # Null
                            /\ \/ x = t.data
                               \/ x < t.data /\ f[t.left][x]
                               \/ x > t.data /\ f[t.right][x]]
           Is(k, S) == k = [t \in S |-> body(k, t)]
           T == { n \in Nat : n <= MaxItems => \E k : Is(k, TreesUpTo[n]) }
<1>1. MaxItems \in Nat /\ 0 \in 0 .. MaxItems
  BY TitlesAssumption
<1>2. 0 \in T
  <2>1. Is([t \in {Null} |-> [x \in Titles |-> FALSE]], {Null})
    OBVIOUS
  <2> QED BY <2>1, Levels
<1>3. ASSUME NEW n \in 0 .. MaxItems - 1, n \in T
      PROVE  n + 1 \in T
  <2>1. n + 1 \in Nat /\ n + 1 \in 0 .. MaxItems /\ n + 1 - 1 = n /\ n <= MaxItems
    BY <1>1
  <2> DEFINE A == TreesUpTo[n]
             B == TreesUpTo[n + 1]
  <2>2. PICK g : Is(g, A)
    BY <1>3, <2>1
  <2> DEFINE h == [t \in B |-> body(g, t)]
  <2>3. A \subseteq B /\ \A t \in A : g[t] = body(g, t)
    <3>1. A \subseteq B
      BY <2>1, LevelsGrow
    <3>2. g = [t \in A |-> body(g, t)]
      BY <2>2
    <3> HIDE DEF body, A, B
    <3> QED BY <3>1, <3>2
  <2>4. \A t \in A : h[t] = g[t]
    <3> HIDE DEF body, A, B
    <3> QED BY <2>3
  <2>5. \A t \in B : t # Null => t.left \in TreesUpTo[n] /\ t.right \in TreesUpTo[n]
    BY <2>1, Subtrees
  <2>6. \A t \in B : body(g, t) = body(h, t)
    <3> HIDE DEF h
    <3> QED BY <2>4, <2>5
  <2>7. Is(h, B)
    <3>1. h = [t \in B |-> body(g, t)]
      OBVIOUS
    <3> HIDE DEF body, h, A, B
    <3> QED BY <2>6, <3>1
  <2> HIDE DEF Is
  <2> QED BY <2>1, <2>7
<1>4. MaxItems \in T
  <2> HIDE DEF T
  <2> QED BY <1>1, <1>2, <1>3, Upwards
<1>5. PICK g : Is(g, Trees)
  <2> HIDE DEF Is
  <2> QED BY <1>1, <1>4 DEF Trees
<1>6. Is(Search, Trees)
  <2>1. Search = CHOOSE k : Is(k, Trees)
    BY DEF Search
  <2> HIDE DEF Is
  <2> QED BY <1>5, <2>1
<1>7. \A t \in Trees : Search[t] = body(Search, t)
  <2> HIDE DEF body
  <2> QED BY <1>6
<1>8. ASSUME NEW t \in Trees, NEW x \in Titles
      PROVE  Search[t][x] = body(Search, t)[x]
  BY <1>7
<1>9. \A x \in Titles : Search[Null][x] = FALSE
  BY <1>8, Parts, ZenonT(40)
<1>10. ASSUME NEW x \in Titles, NEW t \in Trees \ {Null}
       PROVE  Search[t][x] = \/ x = t.data
                             \/ x < t.data /\ Search[t.left][x]
                             \/ x > t.data /\ Search[t.right][x]
  <2>1. Search[t][x] = body(Search, t)[x]
    BY <1>8
  <2> QED BY <2>1
<1> QED BY <1>9, <1>10

\* Insertion into the tree that rotates.
LEMMA InsertBalancedIs ==
  \A x \in Titles :
    /\ InsertBalanced[Null][x] = Leaf(x)
    /\ \A t \in Trees \ {Null} :
         InsertBalanced[t][x] =
           IF x <= t.data THEN RebalanceLeft([t EXCEPT !.left = InsertBalanced[t.left][x]], x)
                          ELSE RebalanceRight([t EXCEPT !.right = InsertBalanced[t.right][x]], x)
<1> DEFINE body(f, t) == [x \in Titles |->
             CASE t = Null -> Leaf(x)
               [] t # Null /\ x <= t.data -> RebalanceLeft([t EXCEPT !.left = f[t.left][x]], x)
               [] OTHER -> RebalanceRight([t EXCEPT !.right = f[t.right][x]], x)]
           Is(k, S) == k = [t \in S |-> body(k, t)]
           T == { n \in Nat : n <= MaxItems => \E k : Is(k, TreesUpTo[n]) }
<1>1. MaxItems \in Nat /\ 0 \in 0 .. MaxItems
  BY TitlesAssumption
<1>2. 0 \in T
  <2>1. Is([t \in {Null} |-> [x \in Titles |-> Leaf(x)]], {Null})
    OBVIOUS
  <2> QED BY <2>1, Levels
<1>3. ASSUME NEW n \in 0 .. MaxItems - 1, n \in T
      PROVE  n + 1 \in T
  <2>1. n + 1 \in Nat /\ n + 1 \in 0 .. MaxItems /\ n + 1 - 1 = n /\ n <= MaxItems
    BY <1>1
  <2> DEFINE A == TreesUpTo[n]
             B == TreesUpTo[n + 1]
  <2>2. PICK g : Is(g, A)
    BY <1>3, <2>1
  <2> DEFINE h == [t \in B |-> body(g, t)]
  <2>3. A \subseteq B /\ \A t \in A : g[t] = body(g, t)
    <3>1. A \subseteq B
      BY <2>1, LevelsGrow
    <3>2. g = [t \in A |-> body(g, t)]
      BY <2>2
    <3> HIDE DEF body, A, B
    <3> QED BY <3>1, <3>2
  <2>4. \A t \in A : h[t] = g[t]
    <3> HIDE DEF body, A, B
    <3> QED BY <2>3
  <2>5. \A t \in B : t # Null => t.left \in TreesUpTo[n] /\ t.right \in TreesUpTo[n]
    BY <2>1, Subtrees
  <2>6. \A t \in B : body(g, t) = body(h, t)
    <3> HIDE DEF h
    <3> QED BY <2>4, <2>5
  <2>7. Is(h, B)
    <3>1. h = [t \in B |-> body(g, t)]
      OBVIOUS
    <3> HIDE DEF body, h, A, B
    <3> QED BY <2>6, <3>1
  <2> HIDE DEF Is
  <2> QED BY <2>1, <2>7
<1>4. MaxItems \in T
  <2> HIDE DEF T
  <2> QED BY <1>1, <1>2, <1>3, Upwards
<1>5. PICK g : Is(g, Trees)
  <2> HIDE DEF Is
  <2> QED BY <1>1, <1>4 DEF Trees
<1>6. Is(InsertBalanced, Trees)
  <2>1. InsertBalanced = CHOOSE k : Is(k, Trees)
    BY DEF InsertBalanced
  <2> HIDE DEF Is
  <2> QED BY <1>5, <2>1
<1>7. \A t \in Trees : InsertBalanced[t] = body(InsertBalanced, t)
  <2> HIDE DEF body
  <2> QED BY <1>6
<1>8. ASSUME NEW t \in Trees, NEW x \in Titles
      PROVE  InsertBalanced[t][x] = body(InsertBalanced, t)[x]
  BY <1>7
<1> QED BY <1>8, Parts

\* Insertion into the plain tree.
LEMMA InsertPlainIs ==
  \A x \in Titles :
    /\ InsertPlain[Null][x] = Leaf(x)
    /\ \A t \in Trees \ {Null} :
         InsertPlain[t][x] = IF x <= t.data THEN [t EXCEPT !.left = InsertPlain[t.left][x]]
                                            ELSE [t EXCEPT !.right = InsertPlain[t.right][x]]
<1> DEFINE body(f, t) == [x \in Titles |->
             CASE t = Null -> Leaf(x)
               [] t # Null /\ x <= t.data -> [t EXCEPT !.left = f[t.left][x]]
               [] OTHER -> [t EXCEPT !.right = f[t.right][x]]]
           Is(k, S) == k = [t \in S |-> body(k, t)]
           T == { n \in Nat : n <= MaxItems => \E k : Is(k, TreesUpTo[n]) }
<1>1. MaxItems \in Nat /\ 0 \in 0 .. MaxItems
  BY TitlesAssumption
<1>2. 0 \in T
  <2>1. Is([t \in {Null} |-> [x \in Titles |-> Leaf(x)]], {Null})
    OBVIOUS
  <2> QED BY <2>1, Levels
<1>3. ASSUME NEW n \in 0 .. MaxItems - 1, n \in T
      PROVE  n + 1 \in T
  <2>1. n + 1 \in Nat /\ n + 1 \in 0 .. MaxItems /\ n + 1 - 1 = n /\ n <= MaxItems
    BY <1>1
  <2> DEFINE A == TreesUpTo[n]
             B == TreesUpTo[n + 1]
  <2>2. PICK g : Is(g, A)
    BY <1>3, <2>1
  <2> DEFINE h == [t \in B |-> body(g, t)]
  <2>3. A \subseteq B /\ \A t \in A : g[t] = body(g, t)
    <3>1. A \subseteq B
      BY <2>1, LevelsGrow
    <3>2. g = [t \in A |-> body(g, t)]
      BY <2>2
    <3> HIDE DEF body, A, B
    <3> QED BY <3>1, <3>2
  <2>4. \A t \in A : h[t] = g[t]
    <3> HIDE DEF body, A, B
    <3> QED BY <2>3
  <2>5. \A t \in B : t # Null => t.left \in TreesUpTo[n] /\ t.right \in TreesUpTo[n]
    BY <2>1, Subtrees
  <2>6. \A t \in B : body(g, t) = body(h, t)
    <3> HIDE DEF h
    <3> QED BY <2>4, <2>5
  <2>7. Is(h, B)
    <3>1. h = [t \in B |-> body(g, t)]
      OBVIOUS
    <3> HIDE DEF body, h, A, B
    <3> QED BY <2>6, <3>1
  <2> HIDE DEF Is
  <2> QED BY <2>1, <2>7
<1>4. MaxItems \in T
  <2> HIDE DEF T
  <2> QED BY <1>1, <1>2, <1>3, Upwards
<1>5. PICK g : Is(g, Trees)
  <2> HIDE DEF Is
  <2> QED BY <1>1, <1>4 DEF Trees
<1>6. Is(InsertPlain, Trees)
  <2>1. InsertPlain = CHOOSE k : Is(k, Trees)
    BY DEF InsertPlain
  <2> HIDE DEF Is
  <2> QED BY <1>5, <2>1
<1>7. \A t \in Trees : InsertPlain[t] = body(InsertPlain, t)
  <2> HIDE DEF body
  <2> QED BY <1>6
<1>8. ASSUME NEW t \in Trees, NEW x \in Titles
      PROVE  InsertPlain[t][x] = body(InsertPlain, t)[x]
  BY <1>7
<1> QED BY <1>8, Parts

\* Going to the leftmost node.
LEMMA HangLeftIs ==
  \A below \in Trees : \A t \in Trees \ {Null} :
    HangLeft[t][below] = IF t.left = Null THEN [t EXCEPT !.left = below]
                                          ELSE [t EXCEPT !.left = HangLeft[t.left][below]]
<1> DEFINE body(f, t) == [below \in Trees |->
             IF t.left = Null THEN [t EXCEPT !.left = below]
                              ELSE [t EXCEPT !.left = f[t.left][below]]]
           Is(k, S) == k = [t \in S |-> body(k, t)]
           T == { n \in Nat : n <= MaxItems => \E k : Is(k, (TreesUpTo[n] \ {Null})) }
<1>1. MaxItems \in Nat /\ 0 \in 0 .. MaxItems
  BY TitlesAssumption
<1>2. 0 \in T
  <2>1. Is([t \in ({Null} \ {Null}) |-> Null], ({Null} \ {Null}))
    OBVIOUS
  <2> QED BY <2>1, Levels
<1>3. ASSUME NEW n \in 0 .. MaxItems - 1, n \in T
      PROVE  n + 1 \in T
  <2>1. n + 1 \in Nat /\ n + 1 \in 0 .. MaxItems /\ n + 1 - 1 = n /\ n <= MaxItems
    BY <1>1
  <2> DEFINE A == (TreesUpTo[n] \ {Null})
             B == (TreesUpTo[n + 1] \ {Null})
  <2>2. PICK g : Is(g, A)
    BY <1>3, <2>1
  <2> DEFINE h == [t \in B |-> body(g, t)]
  <2>3. A \subseteq B /\ \A t \in A : g[t] = body(g, t)
    <3>1. A \subseteq B
      BY <2>1, LevelsGrow
    <3>2. g = [t \in A |-> body(g, t)]
      BY <2>2
    <3> HIDE DEF body, A, B
    <3> QED BY <3>1, <3>2
  <2>4. \A t \in A : h[t] = g[t]
    <3> HIDE DEF body, A, B
    <3> QED BY <2>3
  <2>5. \A t \in B : t # Null => t.left \in TreesUpTo[n] /\ t.right \in TreesUpTo[n]
    BY <2>1, Subtrees
  <2>6. \A t \in B : body(g, t) = body(h, t)
    <3> HIDE DEF h
    <3> QED BY <2>4, <2>5
  <2>7. Is(h, B)
    <3>1. h = [t \in B |-> body(g, t)]
      OBVIOUS
    <3> HIDE DEF body, h, A, B
    <3> QED BY <2>6, <3>1
  <2> HIDE DEF Is
  <2> QED BY <2>1, <2>7
<1>4. MaxItems \in T
  <2> HIDE DEF T
  <2> QED BY <1>1, <1>2, <1>3, Upwards
<1>5. PICK g : Is(g, (Trees \ {Null}))
  <2> HIDE DEF Is
  <2> QED BY <1>1, <1>4 DEF Trees
<1>6. Is(HangLeft, (Trees \ {Null}))
  <2>1. HangLeft = CHOOSE k : Is(k, (Trees \ {Null}))
    BY DEF HangLeft
  <2> HIDE DEF Is
  <2> QED BY <1>5, <2>1
<1>7. \A t \in (Trees \ {Null}) : HangLeft[t] = body(HangLeft, t)
  <2> HIDE DEF body
  <2> QED BY <1>6
<1>8. ASSUME NEW t \in (Trees \ {Null}), NEW below \in Trees
      PROVE  HangLeft[t][below] = body(HangLeft, t)[below]
  BY <1>7
<1> QED BY <1>8, Parts

\* Removal.
LEMMA RemoveFromIs ==
  \A x \in Titles : \A t \in Trees \ {Null} :
    RemoveFrom[t][x] =
      CASE x < t.data -> [t EXCEPT !.left = RemoveFrom[t.left][x]]
        [] x > t.data -> [t EXCEPT !.right = RemoveFrom[t.right][x]]
        [] OTHER -> Unlinked(t)
<1> DEFINE body(f, t) == [x \in Titles |->
             IF t = Null THEN Null
             ELSE CASE x < t.data -> [t EXCEPT !.left = f[t.left][x]]
                    [] x > t.data -> [t EXCEPT !.right = f[t.right][x]]
                    [] OTHER -> Unlinked(t)]
           Is(k, S) == k = [t \in S |-> body(k, t)]
           T == { n \in Nat : n <= MaxItems => \E k : Is(k, TreesUpTo[n]) }
<1>1. MaxItems \in Nat /\ 0 \in 0 .. MaxItems
  BY TitlesAssumption
<1>2. 0 \in T
  <2>1. Is([t \in {Null} |-> [x \in Titles |-> Null]], {Null})
    OBVIOUS
  <2> QED BY <2>1, Levels
<1>3. ASSUME NEW n \in 0 .. MaxItems - 1, n \in T
      PROVE  n + 1 \in T
  <2>1. n + 1 \in Nat /\ n + 1 \in 0 .. MaxItems /\ n + 1 - 1 = n /\ n <= MaxItems
    BY <1>1
  <2> DEFINE A == TreesUpTo[n]
             B == TreesUpTo[n + 1]
  <2>2. PICK g : Is(g, A)
    BY <1>3, <2>1
  <2> DEFINE h == [t \in B |-> body(g, t)]
  <2>3. A \subseteq B /\ \A t \in A : g[t] = body(g, t)
    <3>1. A \subseteq B
      BY <2>1, LevelsGrow
    <3>2. g = [t \in A |-> body(g, t)]
      BY <2>2
    <3> HIDE DEF body, A, B
    <3> QED BY <3>1, <3>2
  <2>4. \A t \in A : h[t] = g[t]
    <3> HIDE DEF body, A, B
    <3> QED BY <2>3
  <2>5. \A t \in B : t # Null => t.left \in TreesUpTo[n] /\ t.right \in TreesUpTo[n]
    BY <2>1, Subtrees
  <2>6. \A t \in B : body(g, t) = body(h, t)
    <3> HIDE DEF h
    <3> QED BY <2>4, <2>5
  <2>7. Is(h, B)
    <3>1. h = [t \in B |-> body(g, t)]
      OBVIOUS
    <3> HIDE DEF body, h, A, B
    <3> QED BY <2>6, <3>1
  <2> HIDE DEF Is
  <2> QED BY <2>1, <2>7
<1>4. MaxItems \in T
  <2> HIDE DEF T
  <2> QED BY <1>1, <1>2, <1>3, Upwards
<1>5. PICK g : Is(g, Trees)
  <2> HIDE DEF Is
  <2> QED BY <1>1, <1>4 DEF Trees
<1>6. Is(RemoveFrom, Trees)
  <2>1. RemoveFrom = CHOOSE k : Is(k, Trees)
    BY DEF RemoveFrom
  <2> HIDE DEF Is
  <2> QED BY <1>5, <2>1
<1>7. \A t \in Trees : RemoveFrom[t] = body(RemoveFrom, t)
  <2> HIDE DEF body
  <2> QED BY <1>6
<1>8. ASSUME NEW t \in Trees, NEW x \in Titles
      PROVE  RemoveFrom[t][x] = body(RemoveFrom, t)[x]
  BY <1>7
<1> QED BY <1>8, Parts

-----------------------------------------------------------------------------
(* Nodes                                                                     *)

\* What Measured makes of a node: its height is one more than the larger of its
\* subtrees'.
Made(l, x, r) == Node(l, x, Larger(l.height, r.height) + 1, r)

\* The larger of two numbers.
LEMMA LargerIs ==
  \A m, n \in Int : /\ Larger(m, n) \in Int /\ Larger(m, n) >= m /\ Larger(m, n) >= n
                    /\ Larger(m, n) \in {m, n}
BY DEF Larger

\* Sizes and numbers of copies are natural numbers.
LEMMA Counts ==
  \A t \in Trees : Size[t] \in Nat /\ \A y \in Titles : Copies[t][y] \in Nat
<1> DEFINE S == { t \in Trees : Size[t] \in Nat /\ \A y \in Titles : Copies[t][y] \in Nat }
<1>1. Null \in S
  BY Parts, SizeIs, CopiesIs
<1>2. ASSUME NEW t \in Trees \ {Null}, t.left \in S, t.right \in S
      PROVE  t \in S
  <2>1. Size[t] \in Nat
    BY <1>2, SizeIs
  <2>2. \A y \in Titles : Copies[t][y] \in Nat
    <3> SUFFICES ASSUME NEW y \in Titles PROVE Copies[t][y] \in Nat
      OBVIOUS
    <3> QED BY <1>2, CopiesIs
  <2> QED BY <2>1, <2>2
<1>3. Trees \subseteq S
  <2> HIDE DEF S
  <2> QED BY <1>1, <1>2, TreeInduction
<1> QED BY <1>3

\* What a tree t of a title x between l and r contains, and when it is in order.
Joins(t, l, x, r) ==
  /\ Size[t] = Size[l] + 1 + Size[r]
  /\ \A y \in Titles : Copies[t][y] = Copies[l][y] + (IF y = x THEN 1 ELSE 0) + Copies[r][y]
  /\ Ordered[t] <=> /\ \A y \in Titles : Copies[l][y] > 0 => y <= x
                    /\ \A y \in Titles : Copies[r][y] > 0 => y >= x
                    /\ Ordered[l] /\ Ordered[r]

\* What a tree contains, and when it is in order, as sets of titles.
LEMMA JoinsHave ==
  ASSUME NEW t, NEW l \in Trees, NEW x \in Titles, NEW r \in Trees, Joins(t, l, x, r)
  PROVE  { e \in Titles : Copies[t][e] > 0 }
           = { e \in Titles : Copies[l][e] > 0 } \cup {x} \cup { e \in Titles : Copies[r][e] > 0 }
<1>1. ASSUME NEW e \in Titles
      PROVE  Copies[t][e] > 0 <=> Copies[l][e] > 0 \/ e = x \/ Copies[r][e] > 0
  <2> DEFINE ex == IF e = x THEN 1 ELSE 0
  <2>1. ex \in Nat /\ (ex > 0 <=> e = x)
    OBVIOUS
  <2>2. Copies[t][e] = Copies[l][e] + ex + Copies[r][e]
    BY DEF Joins
  <2>3. Copies[l][e] \in Nat /\ Copies[r][e] \in Nat
    BY Counts
  <2> HIDE DEF ex
  <2> QED BY <2>1, <2>2, <2>3
<1> QED BY <1>1

\* Its order, said of those sets.
LEMMA JoinsOrder ==
  ASSUME NEW t, NEW l, NEW x \in Titles, NEW r, Joins(t, l, x, r)
  PROVE  Ordered[t] <=> /\ \A e \in { y \in Titles : Copies[l][y] > 0 } : e <= x
                        /\ \A e \in { y \in Titles : Copies[r][y] > 0 } : e >= x
                        /\ Ordered[l] /\ Ordered[r]
BY DEF Joins

\* Every node joins its subtrees.
LEMMA NodeJoins ==
  /\ \A t \in Trees \ {Null} : Joins(t, t.left, t.data, t.right)
  /\ \A n \in 0 .. MaxItems - 1 : \A l, r \in TreesUpTo[n], x \in Titles, h \in Nat :
       Joins(Node(l, x, h, r), l, x, r)
<1>1. \A t \in Trees \ {Null} : Joins(t, t.left, t.data, t.right)
  BY SizeIs, CopiesIs, OrderedIs DEF Joins
<1>2. \A n \in 0 .. MaxItems - 1 : \A l, r \in TreesUpTo[n], x \in Titles, h \in Nat :
        LET t == Node(l, x, h, r)
        IN  t \in Trees \ {Null} /\ t.left = l /\ t.right = r /\ t.data = x
  BY NewNode
<1> QED BY <1>1, <1>2

\* A tree of so many nodes has no more levels.
LEMMA NoMoreLevels ==
  \A t \in Trees : Size[t] <= MaxItems => t \in TreesUpTo[Size[t]]
<1> DEFINE S == { t \in Trees : Size[t] <= MaxItems => t \in TreesUpTo[Size[t]] }
<1>0. MaxItems \in Nat
  BY TitlesAssumption
<1>1. Null \in S
  BY <1>0, Parts, SizeIs
<1>2. ASSUME NEW t \in Trees \ {Null}, t.left \in S, t.right \in S
      PROVE  t \in S
  <2> SUFFICES ASSUME Size[t] <= MaxItems
               PROVE  t \in TreesUpTo[Size[t]]
    OBVIOUS
  <2> DEFINE n == Size[t.left] + Size[t.right]
  <2>1. t.left \in Trees /\ t.right \in Trees
    BY <1>2
  <2>2. /\ Size[t.left] \in Nat /\ Size[t.right] \in Nat /\ Size[t] = n + 1
        /\ n \in 0 .. MaxItems - 1 /\ n \in 0 .. MaxItems
        /\ Size[t.left] \in 0 .. n /\ Size[t.right] \in 0 .. n
    BY <1>0, <2>1, Counts, SizeIs
  <2>3. t.left \in TreesUpTo[Size[t.left]] /\ t.right \in TreesUpTo[Size[t.right]]
    BY <1>0, <1>2, <2>2
  <2>4. t.left \in TreesUpTo[n] /\ t.right \in TreesUpTo[n]
    <3> HIDE DEF n
    <3> QED BY <2>2, <2>3, LevelsGrow
  <2>5. t.data \in Titles /\ t.height \in Nat /\ t = Node(t.left, t.data, t.height, t.right)
    <3>1. t \in TreesUpTo[MaxItems] /\ MaxItems \in 0 .. MaxItems /\ t # Null
      BY <1>0 DEF Trees
    <3> QED BY <3>1, Subtrees
  <2>6. t \in TreesUpTo[n + 1]
    <3> HIDE DEF n
    <3> QED BY <2>2, <2>4, <2>5, NewNode
  <2> QED BY <2>2, <2>6
<1>3. Trees \subseteq S
  <2> HIDE DEF S
  <2> QED BY <1>1, <1>2, TreeInduction
<1> QED BY <1>3

\* Made(l, x, r) is a node of at most n + 1 levels.
IsMade(n, l, x, r) ==
  /\ Larger(l.height, r.height) + 1 \in Nat
  /\ Made(l, x, r) \in TreesUpTo[n + 1] /\ Made(l, x, r) \in Trees
  /\ Made(l, x, r) # Null
  /\ Made(l, x, r).left = l /\ Made(l, x, r).right = r /\ Made(l, x, r).data = x
  /\ Made(l, x, r).height = Larger(l.height, r.height) + 1

\* It is, above trees of at most n levels.
LEMMA MadeIs ==
  ASSUME NEW n \in 0 .. MaxItems - 1, NEW l \in TreesUpTo[n], NEW r \in TreesUpTo[n],
         NEW x \in Titles
  PROVE  IsMade(n, l, x, r)
<1>1. n \in 0 .. MaxItems
  BY TitlesAssumption
<1>2. l \in Trees /\ r \in Trees
  BY <1>1, LevelsAreTrees
<1>3. Larger(l.height, r.height) + 1 \in Nat
  BY <1>2, Parts, LargerIs
<1> QED BY <1>3, NewNode DEF Made, IsMade

\* Records.
LEMMA NodeUpdates ==
  ASSUME NEW l, NEW x, NEW h, NEW r, NEW s
  PROVE  /\ [Node(l, x, h, r) EXCEPT !.left = s] = Node(s, x, h, r)
         /\ [Node(l, x, h, r) EXCEPT !.right = s] = Node(l, x, h, s)
         /\ Measured(Node(l, x, h, r)) = Made(l, x, r)
         /\ Node(l, x, h, r).left = l /\ Node(l, x, h, r).right = r
         /\ Node(l, x, h, r).data = x /\ Node(l, x, h, r).height = h
<1>1. [Node(l, x, h, r) EXCEPT !.left = s] = Node(s, x, h, r)
  BY DEF Node
<1>2. [Node(l, x, h, r) EXCEPT !.right = s] = Node(l, x, h, s)
  BY DEF Node
<1>3. Measured(Node(l, x, h, r)) = Made(l, x, r)
  BY DEF Node, Measured, Made
<1> QED BY <1>1, <1>2, <1>3 DEF Node

\* The rotation with the left child.
LEMMA RotateLeftIs ==
  ASSUME NEW a, NEW b, NEW c, NEW x, NEW y, NEW g, NEW h
  PROVE  RotateLeft(Node(Node(a, x, g, b), y, h, c)) = Made(a, x, Made(b, y, c))
<1> DEFINE l == Node(a, x, g, b)
           t == Node(l, y, h, c)
<1>1. l.right = b /\ t.left = l
  BY NodeUpdates
<1>2. [t EXCEPT !.left = b] = Node(b, y, h, c) /\ Measured(Node(b, y, h, c)) = Made(b, y, c)
  BY NodeUpdates
<1> DEFINE s == Made(b, y, c)
<1>3. [l EXCEPT !.right = s] = Node(a, x, g, s) /\ Measured(Node(a, x, g, s)) = Made(a, x, s)
  BY NodeUpdates
<1> HIDE DEF l, t
<1>4. RotateLeft(t) = Made(a, x, Made(b, y, c))
  BY <1>1, <1>2, <1>3 DEF RotateLeft
<1> QED BY <1>4 DEF l, t

\* The rotation with the right child.
LEMMA RotateRightIs ==
  ASSUME NEW a, NEW b, NEW c, NEW x, NEW y, NEW g, NEW h
  PROVE  RotateRight(Node(a, x, h, Node(b, y, g, c))) = Made(Made(a, x, b), y, c)
<1> DEFINE r == Node(b, y, g, c)
           t == Node(a, x, h, r)
<1>1. r.left = b /\ t.right = r
  BY NodeUpdates
<1>2. [t EXCEPT !.right = b] = Node(a, x, h, b) /\ Measured(Node(a, x, h, b)) = Made(a, x, b)
  BY NodeUpdates
<1> DEFINE s == Made(a, x, b)
<1>3. [r EXCEPT !.left = s] = Node(s, y, g, c) /\ Measured(Node(s, y, g, c)) = Made(s, y, c)
  BY NodeUpdates
<1> HIDE DEF r, t
<1>4. RotateRight(t) = Made(Made(a, x, b), y, c)
  BY <1>1, <1>2, <1>3 DEF RotateRight
<1> QED BY <1>4 DEF r, t

\* The two double rotations: both bring the node in the middle to the top.
LEMMA DoubleRotateLeftIs ==
  ASSUME NEW a, NEW b, NEW c, NEW d, NEW x, NEW y, NEW z, NEW f, NEW g, NEW h
  PROVE  DoubleRotateLeft(Node(Node(a, x, g, Node(b, y, f, c)), z, h, d))
           = Made(Made(a, x, b), y, Made(c, z, d))
<1> DEFINE l == Node(a, x, g, Node(b, y, f, c))
           t == Node(l, z, h, d)
           s == Made(Made(a, x, b), y, c)
<1>1. t.left = l /\ [t EXCEPT !.left = s] = Node(s, z, h, d)
  BY NodeUpdates
<1>2. RotateRight(l) = s
  BY RotateRightIs
<1>3. RotateLeft(Node(s, z, h, d)) = Made(Made(a, x, b), y, Made(c, z, d))
  BY RotateLeftIs DEF Made
<1> HIDE DEF l, t, s
<1>4. DoubleRotateLeft(t) = Made(Made(a, x, b), y, Made(c, z, d))
  BY <1>1, <1>2, <1>3 DEF DoubleRotateLeft
<1> QED BY <1>4 DEF l, t

\* The same from the right.
LEMMA DoubleRotateRightIs ==
  ASSUME NEW a, NEW b, NEW c, NEW d, NEW x, NEW y, NEW z, NEW f, NEW g, NEW h
  PROVE  DoubleRotateRight(Node(a, x, h, Node(Node(b, y, f, c), z, g, d)))
           = Made(Made(a, x, b), y, Made(c, z, d))
<1> DEFINE r == Node(Node(b, y, f, c), z, g, d)
           t == Node(a, x, h, r)
           s == Made(b, y, Made(c, z, d))
<1>1. t.right = r /\ [t EXCEPT !.right = s] = Node(a, x, h, s)
  BY NodeUpdates
<1>2. RotateLeft(r) = s
  BY RotateLeftIs
<1>3. RotateRight(Node(a, x, h, s)) = Made(Made(a, x, b), y, Made(c, z, d))
  BY RotateRightIs DEF Made
<1> HIDE DEF r, t, s
<1>4. DoubleRotateRight(t) = Made(Made(a, x, b), y, Made(c, z, d))
  BY <1>1, <1>2, <1>3 DEF DoubleRotateRight
<1> QED BY <1>4 DEF r, t

-----------------------------------------------------------------------------
(* Rotations change neither contents nor order                               *)

\* Trees with the same titles, of which one is in order when the other is.
Alike(s, t) == /\ Size[s] = Size[t] /\ \A y \in Titles : Copies[s][y] = Copies[t][y]
               /\ Ordered[s] <=> Ordered[t]

\* Two nodes, one above the other, whichever is on top.
LEMMA RotatedAlike ==
  ASSUME NEW n \in 0 .. MaxItems - 2, NEW a \in TreesUpTo[n], NEW b \in TreesUpTo[n],
         NEW c \in TreesUpTo[n], NEW x \in Titles, NEW y \in Titles,
         NEW f \in Nat, NEW g \in Nat, NEW h \in Nat, NEW k \in Nat
  PROVE  Alike(Node(a, x, f, Node(b, y, g, c)), Node(Node(a, x, h, b), y, k, c))
<1> DEFINE r == Node(b, y, g, c)
           l == Node(a, x, h, b)
           s == Node(a, x, f, r)
           t == Node(l, y, k, c)
<1>1. /\ MaxItems \in Nat /\ n \in 0 .. MaxItems - 1 /\ n + 1 \in 0 .. MaxItems - 1
      /\ n + 1 \in 0 .. MaxItems /\ n \in 0 .. MaxItems /\ n \in 0 .. n + 1 /\ x \in Int /\ y \in Int
      /\ \A z \in Titles : z \in Int
  BY TitlesAssumption
<1>2. a \in TreesUpTo[n + 1] /\ c \in TreesUpTo[n + 1]
  BY <1>1, LevelsGrow
<1>3. r \in TreesUpTo[n + 1] /\ l \in TreesUpTo[n + 1]
  BY <1>1, NewNode
<1>4. Joins(r, b, y, c) /\ Joins(l, a, x, b)
  BY <1>1, NodeJoins
<1> HIDE DEF r, l
<1>5. Joins(s, a, x, r) /\ Joins(t, l, y, c)
  BY <1>1, <1>2, <1>3, NodeJoins
<1> HIDE DEF s, t
<1>6. a \in Trees /\ b \in Trees /\ c \in Trees
  BY <1>1, LevelsAreTrees
<1>7. /\ Size[a] \in Nat /\ Size[b] \in Nat /\ Size[c] \in Nat
      /\ \A z \in Titles : Copies[a][z] \in Nat /\ Copies[b][z] \in Nat /\ Copies[c][z] \in Nat
  BY <1>6, Counts
<1>8. Size[s] = Size[t]
  BY <1>4, <1>5, <1>7 DEF Joins
<1>9. \A z \in Titles : Copies[s][z] = Copies[t][z]
  <2> SUFFICES ASSUME NEW z \in Titles PROVE Copies[s][z] = Copies[t][z]
    OBVIOUS
  <2> QED BY <1>4, <1>5, <1>7 DEF Joins
<1>10. ASSUME Ordered[s] PROVE Ordered[t]
  <2>1. Copies[r][y] > 0
    BY <1>4, <1>5, <1>7 DEF Joins
  <2>2. x <= y
    BY <1>1, <1>4, <1>5, <1>10, <2>1 DEF Joins
  <2>3. \A z \in Titles : Copies[b][z] > 0 => z >= x
    BY <1>1, <1>4, <1>5, <1>7, <1>10 DEF Joins
  <2>4. \A z \in Titles : Copies[l][z] > 0 => z <= y
    BY <1>1, <1>4, <1>5, <1>7, <1>10, <2>2 DEF Joins
  <2> QED BY <1>4, <1>5, <1>10, <2>3, <2>4 DEF Joins
<1>11. ASSUME Ordered[t] PROVE Ordered[s]
  <2>1. Copies[l][x] > 0
    BY <1>4, <1>5, <1>7 DEF Joins
  <2>2. x <= y
    BY <1>1, <1>4, <1>5, <1>11, <2>1 DEF Joins
  <2>3. \A z \in Titles : Copies[b][z] > 0 => z <= y
    BY <1>1, <1>4, <1>5, <1>7, <1>11 DEF Joins
  <2>4. \A z \in Titles : Copies[r][z] > 0 => z >= x
    BY <1>1, <1>4, <1>5, <1>7, <1>11, <2>2 DEF Joins
  <2> QED BY <1>4, <1>5, <1>11, <2>3, <2>4 DEF Joins
<1> QED BY <1>8, <1>9, <1>10, <1>11 DEF Alike, s, t, r, l

\* Two trees alike below a node.
LEMMA AlikeBelow ==
  ASSUME NEW a, NEW b, NEW c, NEW x, NEW s, NEW t, Alike(a, b)
  PROVE  /\ Joins(s, a, x, c) /\ Joins(t, b, x, c) => Alike(s, t)
         /\ Joins(s, c, x, a) /\ Joins(t, c, x, b) => Alike(s, t)
<1>1. Joins(s, a, x, c) /\ Joins(t, b, x, c) => Alike(s, t)
  BY DEF Alike, Joins
<1>2. Joins(s, c, x, a) /\ Joins(t, c, x, b) => Alike(s, t)
  BY DEF Alike, Joins
<1> QED BY <1>1, <1>2

\* Three nodes, the middle one on top or at the bottom.
LEMMA DoubleRotatedAlike ==
  ASSUME NEW n \in 0 .. MaxItems - 3, NEW a \in TreesUpTo[n + 1], NEW b \in TreesUpTo[n],
         NEW c \in TreesUpTo[n], NEW d \in TreesUpTo[n + 1],
         NEW x \in Titles, NEW y \in Titles, NEW z \in Titles,
         NEW f \in Nat, NEW g \in Nat, NEW h \in Nat, NEW i \in Nat, NEW j \in Nat, NEW k \in Nat
  PROVE  Alike(Node(Node(a, x, f, b), y, h, Node(c, z, g, d)),
               Node(Node(a, x, j, Node(b, y, i, c)), z, k, d))
<1> DEFINE p == Node(a, x, f, b)
           q == Node(c, z, g, d)
           s == Node(p, y, h, q)
           m == Node(b, y, i, c)
           l == Node(a, x, j, m)
           t == Node(l, z, k, d)
<1>1. /\ MaxItems \in Nat /\ n \in 0 .. MaxItems - 1 /\ n + 1 \in 0 .. MaxItems - 1
      /\ n + 2 \in 0 .. MaxItems - 1 /\ n + 1 + 1 = n + 2
      /\ n + 1 \in 0 .. MaxItems /\ n \in 0 .. n + 1 /\ n + 2 \in 0 .. MaxItems
      /\ n + 1 \in 0 .. n + 2 /\ n \in 0 .. MaxItems
  BY TitlesAssumption
<1>2. x \in Int /\ y \in Int /\ z \in Int /\ \A e \in Titles : e \in Int
  BY TitlesAssumption
<1>3. b \in TreesUpTo[n + 1] /\ c \in TreesUpTo[n + 1] /\ d \in TreesUpTo[n + 2]
  BY <1>1, LevelsGrow
<1>4. m \in TreesUpTo[n + 1] /\ Joins(m, b, y, c)
  BY <1>1, NewNode, NodeJoins
<1>5. p \in TreesUpTo[n + 1 + 1] /\ Joins(p, a, x, b)
  BY <1>1, <1>3, NewNode, NodeJoins
<1>6. q \in TreesUpTo[n + 1 + 1] /\ Joins(q, c, z, d)
  BY <1>1, <1>3, NewNode, NodeJoins
<1> HIDE DEF p, q, m
<1>7. l \in TreesUpTo[n + 1 + 1] /\ Joins(l, a, x, m)
  BY <1>1, <1>4, NewNode, NodeJoins
<1> HIDE DEF l
<1>8. Joins(s, p, y, q) /\ Joins(t, l, z, d)
  <2>1. p \in TreesUpTo[n + 2] /\ q \in TreesUpTo[n + 2] /\ l \in TreesUpTo[n + 2]
    BY <1>1, <1>5, <1>6, <1>7
  <2>2. n + 2 \in 0 .. MaxItems - 1
    BY <1>1
  <2> QED BY <1>3, <2>1, <2>2, NodeJoins
<1> HIDE DEF s, t
<1> DEFINE J == /\ Joins(m, b, y, c) /\ Joins(p, a, x, b) /\ Joins(q, c, z, d)
                /\ Joins(l, a, x, m) /\ Joins(s, p, y, q) /\ Joins(t, l, z, d)
<1>9. J
  BY <1>4, <1>5, <1>6, <1>7, <1>8
<1>10. a \in Trees /\ b \in Trees /\ c \in Trees /\ d \in Trees
  BY <1>1, LevelsAreTrees
<1>11. /\ Size[a] \in Nat /\ Size[b] \in Nat /\ Size[c] \in Nat /\ Size[d] \in Nat
      /\ \A e \in Titles : /\ Copies[a][e] \in Nat /\ Copies[b][e] \in Nat
                           /\ Copies[c][e] \in Nat /\ Copies[d][e] \in Nat
  BY <1>10, Counts
<1>12. Size[s] = Size[t]
  BY <1>2, <1>9, <1>11 DEF Joins
<1>13. \A e \in Titles : Copies[s][e] = Copies[t][e]
  <2> SUFFICES ASSUME NEW e \in Titles PROVE Copies[s][e] = Copies[t][e]
    OBVIOUS
  <2> DEFINE ex == IF e = x THEN 1 ELSE 0
             ey == IF e = y THEN 1 ELSE 0
             ez == IF e = z THEN 1 ELSE 0
  <2>1. ex \in Nat /\ ey \in Nat /\ ez \in Nat
    OBVIOUS
  <2>2. /\ Copies[m][e] = Copies[b][e] + ey + Copies[c][e]
        /\ Copies[p][e] = Copies[a][e] + ex + Copies[b][e]
        /\ Copies[q][e] = Copies[c][e] + ez + Copies[d][e]
        /\ Copies[l][e] = Copies[a][e] + ex + Copies[m][e]
        /\ Copies[s][e] = Copies[p][e] + ey + Copies[q][e]
        /\ Copies[t][e] = Copies[l][e] + ez + Copies[d][e]
    BY <1>9 DEF Joins
  <2> HIDE DEF ex, ey, ez
  <2> QED BY <1>11, <2>1, <2>2
\* What is in each of the trees.
<1> DEFINE Has(u) == { e \in Titles : Copies[u][e] > 0 }
<1>16. /\ Has(m) = Has(b) \cup {y} \cup Has(c) /\ Has(p) = Has(a) \cup {x} \cup Has(b)
       /\ Has(q) = Has(c) \cup {z} \cup Has(d) /\ Has(l) = Has(a) \cup {x} \cup Has(m)
  <2>1. m \in Trees
    BY <1>1, <1>4, LevelsAreTrees
  <2>2. Has(m) = Has(b) \cup {y} \cup Has(c)
    BY <1>4, <1>10, JoinsHave
  <2>3. Has(p) = Has(a) \cup {x} \cup Has(b)
    BY <1>5, <1>10, JoinsHave
  <2>4. Has(q) = Has(c) \cup {z} \cup Has(d)
    BY <1>6, <1>10, JoinsHave
  <2>5. Has(l) = Has(a) \cup {x} \cup Has(m)
    BY <1>7, <1>10, <2>1, JoinsHave
  <2> QED BY <2>2, <2>3, <2>4, <2>5
<1>17. /\ Ordered[m] <=> /\ \A e \in Has(b) : e <= y
                         /\ \A e \in Has(c) : e >= y
                         /\ Ordered[b] /\ Ordered[c]
       /\ Ordered[p] <=> /\ \A e \in Has(a) : e <= x
                         /\ \A e \in Has(b) : e >= x
                         /\ Ordered[a] /\ Ordered[b]
       /\ Ordered[q] <=> /\ \A e \in Has(c) : e <= z
                         /\ \A e \in Has(d) : e >= z
                         /\ Ordered[c] /\ Ordered[d]
       /\ Ordered[l] <=> /\ \A e \in Has(a) : e <= x
                         /\ \A e \in Has(m) : e >= x
                         /\ Ordered[a] /\ Ordered[m]
       /\ Ordered[s] <=> /\ \A e \in Has(p) : e <= y
                         /\ \A e \in Has(q) : e >= y
                         /\ Ordered[p] /\ Ordered[q]
       /\ Ordered[t] <=> /\ \A e \in Has(l) : e <= z
                         /\ \A e \in Has(d) : e >= z
                         /\ Ordered[l] /\ Ordered[d]
  BY <1>9, JoinsOrder
<1>18. \A u : Has(u) \subseteq Int
  BY <1>2
<1> HIDE DEF Has, J
<1>14. ASSUME Ordered[s] PROVE Ordered[t]
  <2>1. x <= y /\ y <= z /\ Ordered[p] /\ Ordered[q]
    BY <1>14, <1>16, <1>17
  <2>2. \A e \in Has(a) : e <= x
    BY <1>17, <2>1
  <2>3. /\ \A e \in Has(b) : x <= e /\ e <= y
        /\ \A e \in Has(c) : y <= e /\ e <= z
    BY <1>14, <1>16, <1>17, <2>1
  <2>4. Ordered[m] /\ \A e \in Has(m) : x <= e /\ e <= z
    BY <1>2, <1>16, <1>17, <1>18, <2>1, <2>3
  <2>5. Ordered[l]
    BY <1>17, <2>1, <2>2, <2>4
  <2>6. \A e \in Has(l) : e <= z
    BY <1>2, <1>16, <1>18, <2>1, <2>2, <2>4
  <2> QED BY <1>17, <2>1, <2>5, <2>6
<1>15. ASSUME Ordered[t] PROVE Ordered[s]
  <2>1. /\ Ordered[l] /\ Ordered[m] /\ Ordered[a] /\ Ordered[d]
        /\ \A e \in Has(d) : e >= z
        /\ \A e \in Has(a) : e <= x
        /\ \A e \in Has(l) : e <= z
        /\ \A e \in Has(m) : e >= x
    BY <1>15, <1>17
  <2>2. x <= y /\ y <= z
    BY <1>16, <2>1
  <2>3. /\ \A e \in Has(b) : x <= e /\ e <= y
        /\ \A e \in Has(c) : y <= e /\ e <= z
        /\ Ordered[b] /\ Ordered[c]
    BY <1>16, <1>17, <2>1
  <2>4. Ordered[p] /\ Ordered[q]
    BY <1>17, <2>1, <2>3
  <2>5. \A e \in Has(p) : e <= y
    BY <1>2, <1>16, <1>18, <2>1, <2>2, <2>3
  <2>6. \A e \in Has(q) : e >= y
    BY <1>2, <1>16, <1>18, <2>1, <2>2, <2>3
  <2> QED BY <1>17, <2>4, <2>5, <2>6
<1> QED BY <1>12, <1>13, <1>14, <1>15 DEF Alike, s, t, p, q, l, m

-----------------------------------------------------------------------------
(* Insertion into the tree that rotates                                      *)

\* A node of title d between l and r, after x was inserted into l.
AfterLeft(l, d, r, x) ==
  IF l.height - r.height # 2 THEN Made(l, d, r)
  ELSE IF x <= l.data THEN Made(l.left, l.data, Made(l.right, d, r))
  ELSE Made(Made(l.left, l.data, l.right.left), l.right.data, Made(l.right.right, d, r))

\* The same, after x was inserted into r.
AfterRight(l, d, r, x) ==
  IF r.height - l.height # 2 THEN Made(l, d, r)
  ELSE IF x > r.data THEN Made(Made(l, d, r.left), r.data, r.right)
  ELSE Made(Made(l, d, r.left.left), r.left.data, Made(r.left.right, r.data, r.right))

\* What becomes of a node whose left subtree is now l.
LEMMA LeftShapes ==
  ASSUME NEW n \in 0 .. MaxItems - 1, NEW l \in TreesUpTo[n] \ {Null}, NEW s,
         NEW d \in Titles, NEW h, NEW r \in TreesUpTo[n], NEW x \in Titles,
         x > l.data => l.right # Null
  PROVE  RebalanceLeft([Node(s, d, h, r) EXCEPT !.left = l], x) = AfterLeft(l, d, r, x)
<1> DEFINE t == Node(l, d, h, r)
<1>1. [Node(s, d, h, r) EXCEPT !.left = l] = t /\ t.left = l /\ t.right = r
      /\ Measured(t) = Made(l, d, r)
  BY NodeUpdates
<1>0. Titles \subseteq Int /\ MaxItems \in Nat
  BY TitlesAssumption
<1>2. n \in 0 .. MaxItems /\ x \in Int
  BY <1>0
<1>3. /\ l = Node(l.left, l.data, l.height, l.right) /\ l.data \in Int
      /\ n - 1 \in 0 .. MaxItems /\ l.right \in TreesUpTo[n - 1]
  BY <1>0, <1>2, Subtrees
<1>4. RotateLeft(t) = Made(l.left, l.data, Made(l.right, d, r))
  BY <1>3, RotateLeftIs
<1>5. ASSUME l.right # Null
      PROVE  DoubleRotateLeft(t)
               = Made(Made(l.left, l.data, l.right.left), l.right.data, Made(l.right.right, d, r))
  <2>1. l.right = Node(l.right.left, l.right.data, l.right.height, l.right.right)
    BY <1>3, <1>5, Subtrees
  <2>2. t = Node(Node(l.left, l.data, l.height,
                      Node(l.right.left, l.right.data, l.right.height, l.right.right)), d, h, r)
    BY <1>3, <2>1
  <2> QED BY <2>2, DoubleRotateLeftIs
<1>6. \A u, v, w : Measured(Made(u, v, w)) = Made(u, v, w)
  BY NodeUpdates DEF Made
<1> HIDE DEF t
<1>7. RebalanceLeft(t, x) =
        IF l.height - r.height # 2 THEN Measured(t)
        ELSE IF x <= l.data THEN Measured(RotateLeft(t)) ELSE Measured(DoubleRotateLeft(t))
  BY <1>1 DEF RebalanceLeft
<1> QED
  BY <1>1, <1>2, <1>3, <1>4, <1>5, <1>6, <1>7 DEF AfterLeft

\* What becomes of a node whose right subtree is now r.
LEMMA RightShapes ==
  ASSUME NEW n \in 0 .. MaxItems - 1, NEW r \in TreesUpTo[n] \ {Null}, NEW s,
         NEW d \in Titles, NEW h, NEW l \in TreesUpTo[n], NEW x \in Titles,
         r.height - l.height = 2 /\ x <= r.data => r.left # Null
  PROVE  RebalanceRight([Node(l, d, h, s) EXCEPT !.right = r], x) = AfterRight(l, d, r, x)
<1> DEFINE t == Node(l, d, h, r)
<1>1. [Node(l, d, h, s) EXCEPT !.right = r] = t /\ t.left = l /\ t.right = r
      /\ Measured(t) = Made(l, d, r)
  BY NodeUpdates
<1>0. Titles \subseteq Int /\ MaxItems \in Nat
  BY TitlesAssumption
<1>2. n \in 0 .. MaxItems /\ x \in Int
  BY <1>0
<1>3. /\ r = Node(r.left, r.data, r.height, r.right) /\ r.data \in Int
      /\ n - 1 \in 0 .. MaxItems /\ r.left \in TreesUpTo[n - 1]
  BY <1>0, <1>2, Subtrees
<1>4. RotateRight(t) = Made(Made(l, d, r.left), r.data, r.right)
  BY <1>3, RotateRightIs
<1>5. ASSUME r.left # Null
      PROVE  DoubleRotateRight(t)
               = Made(Made(l, d, r.left.left), r.left.data, Made(r.left.right, r.data, r.right))
  <2>1. r.left = Node(r.left.left, r.left.data, r.left.height, r.left.right)
    BY <1>3, <1>5, Subtrees
  <2>2. t = Node(l, d, h, Node(Node(r.left.left, r.left.data, r.left.height, r.left.right),
                               r.data, r.height, r.right))
    BY <1>3, <2>1
  <2> QED BY <2>2, DoubleRotateRightIs
<1>6. \A u, v, w : Measured(Made(u, v, w)) = Made(u, v, w)
  BY NodeUpdates DEF Made
<1> HIDE DEF t
<1>7. RebalanceRight(t, x) =
        IF r.height - l.height # 2 THEN Measured(t)
        ELSE IF x > r.data THEN Measured(RotateRight(t)) ELSE Measured(DoubleRotateRight(t))
  BY <1>1 DEF RebalanceRight
<1> QED
  BY <1>1, <1>2, <1>3, <1>4, <1>5, <1>6, <1>7 DEF AfterRight

\* What the insertion of x into a tree of n levels returns: never null, and with a
\* subtree on the side x went to, so that a rotation finds the nodes it moves.
Fresh(n, r, x) ==
  /\ r \in TreesUpTo[n + 1] \ {Null}
  /\ x > r.data => r.right # Null
  /\ x <= r.data /\ r.height >= 1 => r.left # Null

\* The node whose left subtree has become l.
LEMMA AfterLeftIs ==
  ASSUME NEW n \in 0 .. MaxItems - 2, NEW l, NEW d \in Titles, NEW r \in TreesUpTo[n],
         NEW x \in Titles, Fresh(n, l, x), x <= d
  PROVE  /\ Fresh(n + 1, AfterLeft(l, d, r, x), x)
         /\ Alike(AfterLeft(l, d, r, x), Made(l, d, r))
<1>0. Titles \subseteq Int /\ MaxItems \in Nat
  BY TitlesAssumption
<1>1. /\ MaxItems \in Nat /\ n \in 0 .. MaxItems - 1 /\ n + 1 \in 0 .. MaxItems - 1
      /\ n + 1 \in 0 .. MaxItems /\ n \in 0 .. MaxItems /\ n + 1 - 1 = n /\ n \in 0 .. n + 1
      /\ x \in Int /\ d \in Int
  BY <1>0
<1>2. /\ l \in TreesUpTo[n + 1] /\ l # Null
      /\ l.left \in TreesUpTo[n] /\ l.right \in TreesUpTo[n]
      /\ l.data \in Titles /\ l.data \in Int /\ l.height \in Nat
      /\ l = Node(l.left, l.data, l.height, l.right)
  BY <1>1, Subtrees DEF Fresh
<1>3. r \in TreesUpTo[n + 1] /\ r.height \in Int /\ r.height >= -1
  BY <1>1, LevelsGrow, LevelsAreTrees, Parts
<1>4. /\ Made(l, d, r) \in TreesUpTo[n + 1 + 1] /\ Made(l, d, r) # Null
      /\ Made(l, d, r).left = l /\ Made(l, d, r).data = d
      /\ Larger(l.height, r.height) + 1 \in Nat
  <2>1. IsMade(n + 1, l, d, r)
    BY <1>1, <1>2, <1>3, MadeIs
  <2> QED BY <2>1 DEF IsMade
<1>5. CASE l.height - r.height # 2
  <2>1. AfterLeft(l, d, r, x) = Made(l, d, r)
    BY <1>5 DEF AfterLeft
  <2> QED BY <1>1, <1>2, <1>4, <2>1 DEF Fresh, Alike
<1>6. CASE l.height - r.height = 2 /\ x <= l.data
  <2> DEFINE m == Made(l.right, d, r)
             s == Made(l.left, l.data, m)
  <2>1. AfterLeft(l, d, r, x) = s
    BY <1>6 DEF AfterLeft
  <2>2. m \in TreesUpTo[n + 1] /\ Larger(l.right.height, r.height) + 1 \in Nat
    <3>1. IsMade(n, l.right, d, r)
      BY <1>1, <1>2, MadeIs
    <3> QED BY <3>1 DEF IsMade
  <2>3. l.left \in TreesUpTo[n + 1]
    BY <1>1, <1>2, LevelsGrow
  <2>4. /\ s \in TreesUpTo[n + 1 + 1] /\ s # Null /\ s.left = l.left /\ s.data = l.data
        /\ Larger(l.left.height, m.height) + 1 \in Nat
    <3> HIDE DEF m
    <3>1. IsMade(n + 1, l.left, l.data, m)
      BY <1>1, <1>2, <2>2, <2>3, MadeIs
    <3> QED BY <3>1 DEF IsMade
  <2>5. l.left # Null
    BY <1>2, <1>3, <1>6 DEF Fresh
  <2>6. Alike(s, Node(Node(l.left, l.data, l.height, l.right), d, Larger(l.height, r.height) + 1, r))
    BY <1>1, <1>2, <1>4, <2>2, <2>4, RotatedAlike DEF Made
  <2>7. Alike(s, Made(l, d, r))
    BY <1>2, <2>6 DEF Made
  <2>8. Fresh(n + 1, s, x)
    <3> HIDE DEF s
    <3> QED BY <1>1, <1>2, <1>6, <2>4, <2>5 DEF Fresh
  <2> QED BY <2>1, <2>7, <2>8
<1>7. CASE l.height - r.height = 2 /\ ~(x <= l.data)
  <2> DEFINE a == l.left
             b == l.right.left
             c == l.right.right
             p == Made(a, l.data, b)
             q == Made(c, d, r)
             s == Made(p, l.right.data, q)
  <2>1. AfterLeft(l, d, r, x) = s
    BY <1>7 DEF AfterLeft
  <2>2. l.right # Null
    BY <1>1, <1>2, <1>7 DEF Fresh
  <2>3. /\ n - 1 \in 0 .. MaxItems - 1
        /\ b \in TreesUpTo[n - 1] /\ c \in TreesUpTo[n - 1]
        /\ l.right.data \in Titles /\ l.right.height \in Nat
        /\ l.right = Node(b, l.right.data, l.right.height, c)
    BY <1>1, <1>2, <2>2, Subtrees
  <2>4. n - 1 \in 0 .. n /\ n - 1 \in 0 .. MaxItems - 3 /\ n - 1 + 1 = n
    BY <1>1, <2>3
  <2>5. b \in TreesUpTo[n] /\ c \in TreesUpTo[n]
    BY <1>1, <2>3, <2>4, LevelsGrow
  <2>6. /\ p \in TreesUpTo[n + 1] /\ p # Null /\ Larger(a.height, b.height) + 1 \in Nat
        /\ q \in TreesUpTo[n + 1] /\ q # Null /\ Larger(c.height, r.height) + 1 \in Nat
    <3>1. IsMade(n, a, l.data, b) /\ IsMade(n, c, d, r)
      BY <1>1, <1>2, <2>5, MadeIs
    <3> QED BY <3>1 DEF IsMade
  <2>7. /\ s \in TreesUpTo[n + 1 + 1] /\ s # Null /\ s.left = p /\ s.right = q
        /\ Larger(p.height, q.height) + 1 \in Nat
    <3> HIDE DEF p, q
    <3>1. IsMade(n + 1, p, l.right.data, q)
      BY <1>1, <2>3, <2>6, MadeIs
    <3> QED BY <3>1 DEF IsMade
  <2>8. Alike(s, Node(Node(a, l.data, l.height, Node(b, l.right.data, l.right.height, c)),
                      d, Larger(l.height, r.height) + 1, r))
    <3> HIDE DEF a, b, c
    <3>1. a \in TreesUpTo[n - 1 + 1] /\ r \in TreesUpTo[n - 1 + 1]
      BY <1>2, <2>4 DEF a
    <3> QED BY <1>2, <1>4, <2>3, <2>4, <2>6, <2>7, <3>1, DoubleRotatedAlike DEF Made
  <2>9. Alike(s, Made(l, d, r))
    BY <1>2, <2>3, <2>8 DEF Made
  <2>10. Fresh(n + 1, s, x)
    <3> HIDE DEF s, p, q
    <3> QED BY <2>6, <2>7 DEF Fresh
  <2> QED BY <2>1, <2>9, <2>10
<1> QED BY <1>1, <1>2, <1>5, <1>6, <1>7

\* The node whose right subtree has become r.
LEMMA AfterRightIs ==
  ASSUME NEW n \in 0 .. MaxItems - 2, NEW r, NEW d \in Titles, NEW l \in TreesUpTo[n],
         NEW x \in Titles, Fresh(n, r, x), x > d
  PROVE  /\ Fresh(n + 1, AfterRight(l, d, r, x), x)
         /\ Alike(AfterRight(l, d, r, x), Made(l, d, r))
<1>0. Titles \subseteq Int /\ MaxItems \in Nat
  BY TitlesAssumption
<1>1. /\ MaxItems \in Nat /\ n \in 0 .. MaxItems - 1 /\ n + 1 \in 0 .. MaxItems - 1
      /\ n + 1 \in 0 .. MaxItems /\ n \in 0 .. MaxItems /\ n + 1 - 1 = n /\ n \in 0 .. n + 1
      /\ x \in Int /\ d \in Int
  BY <1>0
<1>2. /\ r \in TreesUpTo[n + 1] /\ r # Null
      /\ r.left \in TreesUpTo[n] /\ r.right \in TreesUpTo[n]
      /\ r.data \in Titles /\ r.data \in Int /\ r.height \in Nat
      /\ r = Node(r.left, r.data, r.height, r.right)
  BY <1>1, Subtrees DEF Fresh
<1>3. l \in TreesUpTo[n + 1] /\ l.height \in Int /\ l.height >= -1
  BY <1>1, LevelsGrow, LevelsAreTrees, Parts
<1>4. /\ Made(l, d, r) \in TreesUpTo[n + 1 + 1] /\ Made(l, d, r) # Null
      /\ Made(l, d, r).right = r /\ Made(l, d, r).data = d
      /\ Larger(l.height, r.height) + 1 \in Nat
  <2>1. IsMade(n + 1, l, d, r)
    BY <1>1, <1>2, <1>3, MadeIs
  <2> QED BY <2>1 DEF IsMade
<1>5. CASE r.height - l.height # 2
  <2>1. AfterRight(l, d, r, x) = Made(l, d, r)
    BY <1>5 DEF AfterRight
  <2> QED BY <1>1, <1>2, <1>4, <2>1 DEF Fresh, Alike
<1>6. CASE r.height - l.height = 2 /\ x > r.data
  <2> DEFINE m == Made(l, d, r.left)
             s == Made(m, r.data, r.right)
  <2>1. AfterRight(l, d, r, x) = s
    BY <1>6 DEF AfterRight
  <2>2. m \in TreesUpTo[n + 1] /\ Larger(l.height, r.left.height) + 1 \in Nat
    <3>1. IsMade(n, l, d, r.left)
      BY <1>1, <1>2, MadeIs
    <3> QED BY <3>1 DEF IsMade
  <2>3. r.right \in TreesUpTo[n + 1]
    BY <1>1, <1>2, LevelsGrow
  <2>4. /\ s \in TreesUpTo[n + 1 + 1] /\ s # Null /\ s.right = r.right /\ s.data = r.data
        /\ Larger(m.height, r.right.height) + 1 \in Nat
    <3> HIDE DEF m
    <3>1. IsMade(n + 1, m, r.data, r.right)
      BY <1>1, <1>2, <2>2, <2>3, MadeIs
    <3> QED BY <3>1 DEF IsMade
  <2>5. r.right # Null
    BY <1>6 DEF Fresh
  <2>6. Alike(Node(l, d, Larger(l.height, r.height) + 1, Node(r.left, r.data, r.height, r.right)), s)
    BY <1>1, <1>2, <1>4, <2>2, <2>4, RotatedAlike DEF Made
  <2>7. Alike(s, Made(l, d, r))
    BY <1>2, <2>6 DEF Made, Alike
  <2>8. Fresh(n + 1, s, x)
    <3> HIDE DEF s
    <3> QED BY <1>1, <1>2, <1>6, <2>4, <2>5 DEF Fresh
  <2> QED BY <2>1, <2>7, <2>8
<1>7. CASE r.height - l.height = 2 /\ ~(x > r.data)
  <2> DEFINE b == r.left.left
             c == r.left.right
             e == r.right
             p == Made(l, d, b)
             q == Made(c, r.data, e)
             s == Made(p, r.left.data, q)
  <2>1. AfterRight(l, d, r, x) = s
    BY <1>7 DEF AfterRight
  <2>2. r.left # Null
    BY <1>1, <1>2, <1>3, <1>7 DEF Fresh
  <2>3. /\ n - 1 \in 0 .. MaxItems - 1
        /\ b \in TreesUpTo[n - 1] /\ c \in TreesUpTo[n - 1]
        /\ r.left.data \in Titles /\ r.left.height \in Nat
        /\ r.left = Node(b, r.left.data, r.left.height, c)
    BY <1>1, <1>2, <2>2, Subtrees
  <2>4. n - 1 \in 0 .. n /\ n - 1 \in 0 .. MaxItems - 3 /\ n - 1 + 1 = n
    BY <1>1, <2>3
  <2>5. b \in TreesUpTo[n] /\ c \in TreesUpTo[n]
    BY <1>1, <2>3, <2>4, LevelsGrow
  <2>6. /\ p \in TreesUpTo[n + 1] /\ p # Null /\ Larger(l.height, b.height) + 1 \in Nat
        /\ q \in TreesUpTo[n + 1] /\ q # Null /\ Larger(c.height, e.height) + 1 \in Nat
    <3>1. IsMade(n, l, d, b) /\ IsMade(n, c, r.data, e)
      BY <1>1, <1>2, <2>5, MadeIs
    <3> QED BY <3>1 DEF IsMade
  <2>7. /\ s \in TreesUpTo[n + 1 + 1] /\ s # Null /\ s.left = p /\ s.right = q
        /\ Larger(p.height, q.height) + 1 \in Nat
    <3> HIDE DEF p, q
    <3>1. IsMade(n + 1, p, r.left.data, q)
      BY <1>1, <2>3, <2>6, MadeIs
    <3> QED BY <3>1 DEF IsMade
  <2> DEFINE m == Node(b, r.left.data, r.left.height, c)
             k == Larger(l.height, r.height) + 1
  <2>8. Alike(s, Node(Node(l, d, k, m), r.data, k, e))
    <3> HIDE DEF b, c, e
    <3>1. l \in TreesUpTo[n - 1 + 1] /\ e \in TreesUpTo[n - 1 + 1]
      BY <1>2, <2>4 DEF e
    <3> QED BY <1>2, <1>4, <2>3, <2>4, <2>6, <2>7, <3>1, DoubleRotatedAlike DEF Made
  <2>9. Alike(Node(l, d, k, Node(m, r.data, r.height, e)), Node(Node(l, d, k, m), r.data, k, e))
    <3>1. m \in TreesUpTo[n] /\ e \in TreesUpTo[n] /\ k \in Nat
      BY <1>2, <1>4, <2>3
    <3> HIDE DEF m, e, k
    <3> QED BY <1>2, <3>1, RotatedAlike
  <2>10. Node(l, d, k, Node(m, r.data, r.height, e)) = Made(l, d, r)
    BY <1>2, <2>3 DEF Made
  <2>11. Alike(s, Made(l, d, r))
    <3> HIDE DEF s, m, e, k
    <3> QED BY <2>8, <2>9, <2>10 DEF Alike
  <2>12. Fresh(n + 1, s, x)
    <3> HIDE DEF s, p, q
    <3> QED BY <2>6, <2>7 DEF Fresh
  <2> QED BY <2>1, <2>11, <2>12
<1> QED BY <1>1, <1>2, <1>5, <1>6, <1>7

\* What an insertion of x into t must return: one more of x, in order if t was.
Added(r, t, x) ==
  /\ Size[r] = Size[t] + 1
  /\ \A y \in Titles : Copies[r][y] = Copies[t][y] + (IF y = x THEN 1 ELSE 0)
  /\ Ordered[t] => Ordered[r]

\* Insertion on the side where x belongs is insertion, and so is what is like it.
LEMMA AddedBelow ==
  ASSUME NEW l \in Trees, NEW r \in Trees, NEW d \in Titles, NEW x \in Titles, NEW s, NEW t,
         NEW u, Joins(t, l, d, r)
  PROVE  /\ u \in Trees /\ x <= d /\ Added(u, l, x) /\ Joins(s, u, d, r) => Added(s, t, x)
         /\ u \in Trees /\ x > d /\ Added(u, r, x) /\ Joins(s, l, d, u) => Added(s, t, x)
         /\ Alike(u, s) /\ Added(s, t, x) => Added(u, t, x)
<1>1. Titles \subseteq Int
  BY TitlesAssumption
<1>2. /\ Size[l] \in Nat /\ Size[r] \in Nat
      /\ \A y \in Titles : Copies[l][y] \in Nat /\ Copies[r][y] \in Nat
  BY Counts
<1>3. ASSUME x <= d, Added(u, l, x), Joins(s, u, d, r)
      PROVE  Added(s, t, x)
  <2>1. Size[s] = Size[t] + 1
    BY <1>2, <1>3 DEF Added, Joins
  <2>2. \A y \in Titles : Copies[s][y] = Copies[t][y] + (IF y = x THEN 1 ELSE 0)
    <3> SUFFICES ASSUME NEW y \in Titles PROVE Copies[s][y] = Copies[t][y] + (IF y = x THEN 1 ELSE 0)
      OBVIOUS
    <3> QED BY <1>2, <1>3 DEF Added, Joins
  <2>3. ASSUME Ordered[t] PROVE Ordered[s]
    <3>1. \A y \in Titles : Copies[u][y] > 0 => y <= d
      BY <1>1, <1>2, <1>3, <2>3 DEF Added, Joins
    <3> QED BY <1>3, <2>3, <3>1 DEF Added, Joins
  <2> QED BY <2>1, <2>2, <2>3 DEF Added
<1>4. ASSUME x > d, Added(u, r, x), Joins(s, l, d, u)
      PROVE  Added(s, t, x)
  <2>1. Size[s] = Size[t] + 1
    BY <1>2, <1>4 DEF Added, Joins
  <2>2. \A y \in Titles : Copies[s][y] = Copies[t][y] + (IF y = x THEN 1 ELSE 0)
    <3> SUFFICES ASSUME NEW y \in Titles PROVE Copies[s][y] = Copies[t][y] + (IF y = x THEN 1 ELSE 0)
      OBVIOUS
    <3> QED BY <1>2, <1>4 DEF Added, Joins
  <2>3. ASSUME Ordered[t] PROVE Ordered[s]
    <3>1. \A y \in Titles : Copies[u][y] > 0 => y >= d
      BY <1>1, <1>2, <1>4, <2>3 DEF Added, Joins
    <3> QED BY <1>4, <2>3, <3>1 DEF Added, Joins
  <2> QED BY <2>1, <2>2, <2>3 DEF Added
<1>5. Alike(u, s) /\ Added(s, t, x) => Added(u, t, x)
  BY DEF Alike, Added
<1> QED BY <1>3, <1>4, <1>5

\* The same, below a node s of which v differs in one subtree.
LEMMA AddedLeft ==
  ASSUME NEW s \in Trees \ {Null}, NEW u \in Trees, NEW v, NEW x \in Titles,
         x <= s.data, Added(u, s.left, x), Joins(v, u, s.data, s.right)
  PROVE  Added(v, s, x)
<1>1. s.left \in Trees /\ s.right \in Trees /\ s.data \in Titles /\ Joins(s, s.left, s.data, s.right)
  BY Parts, NodeJoins
<1> QED BY <1>1, AddedBelow

\* Likewise to its right.
LEMMA AddedRight ==
  ASSUME NEW s \in Trees \ {Null}, NEW u \in Trees, NEW v, NEW x \in Titles,
         x > s.data, Added(u, s.right, x), Joins(v, s.left, s.data, u)
  PROVE  Added(v, s, x)
<1>1. s.left \in Trees /\ s.right \in Trees /\ s.data \in Titles /\ Joins(s, s.left, s.data, s.right)
  BY Parts, NodeJoins
<1> QED BY <1>1, AddedBelow

\* The new leaf, where the search ended.
LEMMA LeafIs ==
  ASSUME NEW x \in Titles, MaxItems > 0
  PROVE  /\ Leaf(x) \in TreesUpTo[1] \ {Null} /\ Leaf(x) \in Trees
         /\ Leaf(x).left = Null /\ Leaf(x).right = Null
         /\ Leaf(x).data = x /\ Leaf(x).height = 0 /\ Added(Leaf(x), Null, x)
<1>1. MaxItems \in Nat /\ 0 \in 0 .. MaxItems - 1 /\ 0 \in 0 .. MaxItems
  BY TitlesAssumption
<1>2. Null \in TreesUpTo[0]
  BY Levels
<1>3. /\ Leaf(x) \in TreesUpTo[0 + 1] \ {Null} /\ Leaf(x) \in Trees
      /\ Leaf(x).left = Null /\ Leaf(x).right = Null /\ Leaf(x).data = x /\ Leaf(x).height = 0
  BY <1>1, <1>2, NewNode DEF Leaf
<1>4. Joins(Leaf(x), Null, x, Null)
  BY <1>3, NodeJoins
<1>5. /\ Size[Null] = 0 /\ Ordered[Null]
      /\ \A y \in Titles : Copies[Null][y] = 0
  BY SizeIs, CopiesIs, OrderedIs
<1>6. Added(Leaf(x), Null, x)
  BY <1>4, <1>5 DEF Joins, Added
<1> QED BY <1>3, <1>6

\* One level of an insertion into the tree that rotates.
LEMMA InsertStep ==
  ASSUME NEW n \in 0 .. MaxItems - 2, NEW t \in TreesUpTo[n + 1] \ {Null}, NEW x \in Titles
  PROVE  /\ x <= t.data /\ Fresh(n, InsertBalanced[t.left][x], x) =>
              InsertBalanced[t][x] = AfterLeft(InsertBalanced[t.left][x], t.data, t.right, x)
         /\ x > t.data /\ Fresh(n, InsertBalanced[t.right][x], x) =>
              InsertBalanced[t][x] = AfterRight(t.left, t.data, InsertBalanced[t.right][x], x)
<1>0. Titles \subseteq Int /\ MaxItems \in Nat
  BY TitlesAssumption
<1>1. /\ n \in 0 .. MaxItems /\ n + 1 \in 0 .. MaxItems - 1 /\ n + 1 \in 0 .. MaxItems
      /\ n \in 0 .. n + 1 /\ n + 1 - 1 = n /\ x \in Int
  BY <1>0
<1>2. /\ t.left \in TreesUpTo[n] /\ t.right \in TreesUpTo[n]
      /\ t.data \in Titles /\ t.data \in Int
      /\ t = Node(t.left, t.data, t.height, t.right)
  BY <1>1, Subtrees
<1>3. t.left \in TreesUpTo[n + 1] /\ t.right \in TreesUpTo[n + 1] /\ t \in Trees \ {Null}
  BY <1>1, <1>2, LevelsGrow, LevelsAreTrees
<1>4. ASSUME x <= t.data, Fresh(n, InsertBalanced[t.left][x], x)
      PROVE  InsertBalanced[t][x] = AfterLeft(InsertBalanced[t.left][x], t.data, t.right, x)
  <2> DEFINE l == InsertBalanced[t.left][x]
  <2>1. InsertBalanced[t][x] = RebalanceLeft([t EXCEPT !.left = l], x)
    BY <1>3, <1>4, InsertBalancedIs
  <2>2. l \in TreesUpTo[n + 1] \ {Null} /\ (x > l.data => l.right # Null)
    BY <1>4 DEF Fresh
  <2> HIDE DEF l
  <2>3. RebalanceLeft([Node(t.left, t.data, t.height, t.right) EXCEPT !.left = l], x)
          = AfterLeft(l, t.data, t.right, x)
    BY <1>1, <1>2, <1>3, <2>2, LeftShapes
  <2>4. InsertBalanced[t][x] = AfterLeft(l, t.data, t.right, x)
    BY <1>2, <2>1, <2>3
  <2> QED BY <2>4 DEF l
<1>5. ASSUME x > t.data, Fresh(n, InsertBalanced[t.right][x], x)
      PROVE  InsertBalanced[t][x] = AfterRight(t.left, t.data, InsertBalanced[t.right][x], x)
  <2> DEFINE r == InsertBalanced[t.right][x]
  <2>1. InsertBalanced[t][x] = RebalanceRight([t EXCEPT !.right = r], x)
    <3>1. ~(x <= t.data)
      BY <1>1, <1>2, <1>5
    <3> QED BY <1>3, <3>1, InsertBalancedIs
  <2>2. r \in TreesUpTo[n + 1] \ {Null} /\ (r.height - t.left.height = 2 /\ x <= r.data => r.left # Null)
    <3>1. t.left.height \in Int /\ t.left.height >= -1
      BY <1>1, <1>3, LevelsAreTrees, Parts
    <3>2. r \in TreesUpTo[n + 1] \ {Null} /\ (x <= r.data /\ r.height >= 1 => r.left # Null)
      BY <1>5 DEF Fresh
    <3>3. r.height \in Int
      BY <1>1, <3>2, LevelsAreTrees, Parts
    <3> HIDE DEF r
    <3> QED BY <3>1, <3>2, <3>3
  <2> HIDE DEF r
  <2>3. RebalanceRight([Node(t.left, t.data, t.height, t.right) EXCEPT !.right = r], x)
          = AfterRight(t.left, t.data, r, x)
    BY <1>1, <1>2, <1>3, <2>2, RightShapes
  <2>4. InsertBalanced[t][x] = AfterRight(t.left, t.data, r, x)
    BY <1>2, <2>1, <2>3
  <2> QED BY <2>4 DEF r
<1> QED BY <1>4, <1>5

\* Insertion into a tree of n levels: n + 1 levels are enough, the title is added, and
\* no rotation follows a null.
LEMMA InsertBalancedAdds ==
  ASSUME NEW n \in 0 .. MaxItems - 1, NEW t \in TreesUpTo[n], NEW x \in Titles
  PROVE  /\ Fresh(n, InsertBalanced[t][x], x)
         /\ Added(InsertBalanced[t][x], t, x)
<1> DEFINE S == { s \in Trees : \A m \in 0 .. MaxItems - 1 : s \in TreesUpTo[m] =>
                    /\ Fresh(m, InsertBalanced[s][x], x)
                    /\ Added(InsertBalanced[s][x], s, x) }
<1>1. Titles \subseteq Int /\ MaxItems \in Nat
  BY TitlesAssumption
<1>2. Null \in S
  <2> SUFFICES ASSUME NEW m \in 0 .. MaxItems - 1
               PROVE  Fresh(m, Leaf(x), x) /\ Added(Leaf(x), Null, x)
    BY Parts, InsertBalancedIs
  <2>1. Leaf(x) \in TreesUpTo[m + 1]
    <3>1. 1 \in 0 .. m + 1 /\ m + 1 \in 0 .. MaxItems /\ MaxItems > 0
      BY <1>1
    <3> QED BY <3>1, LeafIs, LevelsGrow
  <2> QED BY <1>1, <2>1, LeafIs DEF Fresh
<1>3. ASSUME NEW s \in Trees \ {Null}, s.left \in S, s.right \in S
      PROVE  s \in S
  <2> SUFFICES ASSUME NEW m \in 0 .. MaxItems - 1, s \in TreesUpTo[m]
               PROVE  /\ Fresh(m, InsertBalanced[s][x], x)
                      /\ Added(InsertBalanced[s][x], s, x)
    OBVIOUS
  <2> DEFINE k == m - 1
  <2>1. /\ s.left \in TreesUpTo[k] /\ s.right \in TreesUpTo[k] /\ s.data \in Titles
        /\ s.data \in Int
    <3>1. m \in 0 .. MaxItems
      BY <1>1
    <3> QED BY <3>1, Subtrees
  <2>2. k \in 0 .. MaxItems - 2 /\ k \in 0 .. MaxItems - 1 /\ k + 1 = m /\ x \in Int
        /\ k + 1 \in 0 .. MaxItems - 1 /\ k + 1 \in 0 .. MaxItems /\ k \in 0 .. k + 1
    <3>1. m # 0
      BY Levels
    <3> QED BY <1>1, <3>1
  <2> HIDE DEF k
  <2>3. s.left \in Trees /\ s.right \in Trees /\ Joins(s, s.left, s.data, s.right)
    BY Parts, NodeJoins
  <2>4. s.left \in TreesUpTo[k + 1] /\ s.right \in TreesUpTo[k + 1]
    BY <2>1, <2>2, LevelsGrow
  <2>5. CASE x <= s.data
    <3> DEFINE l == InsertBalanced[s.left][x]
               u == AfterLeft(l, s.data, s.right, x)
               v == Made(l, s.data, s.right)
    <3>1. Fresh(k, l, x) /\ Added(l, s.left, x)
      BY <1>3, <2>1, <2>2
    <3>2. InsertBalanced[s][x] = u
      BY <2>2, <2>5, <3>1, InsertStep
    <3> HIDE DEF l
    <3>3. Fresh(k + 1, u, x) /\ Alike(u, v)
      BY <2>1, <2>2, <2>5, <3>1, AfterLeftIs
    <3>4. l \in TreesUpTo[k + 1] /\ l \in Trees
      BY <2>2, <3>1, LevelsAreTrees DEF Fresh
    <3>5. Joins(v, l, s.data, s.right)
      <4>1. IsMade(k + 1, l, s.data, s.right)
        BY <2>1, <2>2, <2>4, <3>4, MadeIs
      <4>2. v \in Trees \ {Null} /\ v.left = l /\ v.right = s.right /\ v.data = s.data
        BY <4>1 DEF IsMade
      <4> HIDE DEF v
      <4> QED BY <4>2, NodeJoins
    <3>6. Added(v, s, x)
      <4> HIDE DEF v
      <4> QED BY <2>5, <3>1, <3>4, <3>5, AddedLeft
    <3>7. Added(u, s, x)
      <4> HIDE DEF u, v
      <4> QED BY <2>1, <2>3, <3>3, <3>6, AddedBelow
    <3> QED BY <2>2, <3>2, <3>3, <3>7
  <2>6. CASE x > s.data
    <3> DEFINE r == InsertBalanced[s.right][x]
               u == AfterRight(s.left, s.data, r, x)
               v == Made(s.left, s.data, r)
    <3>1. Fresh(k, r, x) /\ Added(r, s.right, x)
      BY <1>3, <2>1, <2>2
    <3>2. InsertBalanced[s][x] = u
      BY <2>2, <2>6, <3>1, InsertStep
    <3> HIDE DEF r
    <3>3. Fresh(k + 1, u, x) /\ Alike(u, v)
      BY <2>1, <2>2, <2>6, <3>1, AfterRightIs
    <3>4. r \in TreesUpTo[k + 1] /\ r \in Trees
      BY <2>2, <3>1, LevelsAreTrees DEF Fresh
    <3>5. Joins(v, s.left, s.data, r)
      <4>1. IsMade(k + 1, s.left, s.data, r)
        BY <2>1, <2>2, <2>4, <3>4, MadeIs
      <4>2. v \in Trees \ {Null} /\ v.left = s.left /\ v.right = r /\ v.data = s.data
        BY <4>1 DEF IsMade
      <4> HIDE DEF v
      <4> QED BY <4>2, NodeJoins
    <3>6. Added(v, s, x)
      <4> HIDE DEF v
      <4> QED BY <2>6, <3>1, <3>4, <3>5, AddedRight
    <3>7. Added(u, s, x)
      <4> HIDE DEF u, v
      <4> QED BY <2>1, <2>3, <3>3, <3>6, AddedBelow
    <3> QED BY <2>2, <3>2, <3>3, <3>7
  <2> QED BY <2>1, <2>2, <2>5, <2>6
<1>4. Trees \subseteq S
  <2> HIDE DEF S
  <2> QED BY <1>2, <1>3, TreeInduction
<1> QED BY <1>1, <1>4, LevelsAreTrees

-----------------------------------------------------------------------------
(* Balance                                                                   *)

\* A balanced tree's height is the one its root stores, and a balanced node's
\* subtrees differ by one at most.
LEMMA BalancedHeights ==
  /\ \A t \in Trees : IsBalanced[t] => Depth[t] = t.height
  /\ \A t \in Trees \ {Null} :
       IsBalanced[t] <=>
         /\ IsBalanced[t.left] /\ IsBalanced[t.right]
         /\ t.left.height - t.right.height \in {-1, 0, 1}
         /\ t.height = Larger(t.left.height, t.right.height) + 1
<1>1. ASSUME NEW t \in Trees, IsBalanced[t]
      PROVE  Depth[t] = t.height
  BY <1>1, Parts, DepthIs, IsBalancedIs
<1>2. ASSUME NEW t \in Trees \ {Null}
      PROVE  IsBalanced[t] <=>
               /\ IsBalanced[t.left] /\ IsBalanced[t.right]
               /\ t.left.height - t.right.height \in {-1, 0, 1}
               /\ t.height = Larger(t.left.height, t.right.height) + 1
  <2>1. t.left \in Trees /\ t.right \in Trees /\ t.left.height \in Int /\ t.right.height \in Int
    BY Parts
  <2>2. Larger(t.left.height, t.right.height) \in Int
    BY <2>1, LargerIs
  <2>3. IsBalanced[t.left] /\ IsBalanced[t.right] =>
          Depth[t.left] = t.left.height /\ Depth[t.right] = t.right.height
    BY <1>1, <2>1
  <2> QED BY <2>1, <2>2, <2>3, DepthIs, IsBalancedIs
<1> QED BY <1>1, <1>2

\* When a node of measured height is balanced.
LEMMA MadeBalanced ==
  ASSUME NEW n, NEW l, NEW x, NEW r, IsMade(n, l, x, r)
  PROVE  IsBalanced[Made(l, x, r)] <=> /\ IsBalanced[l] /\ IsBalanced[r]
                                       /\ l.height - r.height \in {-1, 0, 1}
<1> DEFINE t == Made(l, x, r)
<1>1. /\ t \in Trees \ {Null} /\ t.left = l /\ t.right = r
      /\ t.height = Larger(l.height, r.height) + 1
  BY DEF IsMade
<1> HIDE DEF t
<1>2. IsBalanced[t] <=> /\ IsBalanced[l] /\ IsBalanced[r] /\ l.height - r.height \in {-1, 0, 1}
  BY <1>1, BalancedHeights
<1> QED BY <1>2 DEF t

\* What insertion does to a balanced tree t: r is balanced, as high or one higher; and
\* when it is higher, the side x went to is.
Grown(r, t, x) ==
  /\ IsBalanced[r]
  /\ \/ r.height = t.height
     \/ /\ r.height = t.height + 1
        /\ \/ t = Null /\ r.height = 0
           \/ x <= r.data /\ r.left.height = r.right.height + 1
           \/ x > r.data /\ r.right.height = r.left.height + 1

\* The rotations restore balance above a left subtree that grew from k to l.
LEMMA BalancedAfterLeft ==
  ASSUME NEW n \in 0 .. MaxItems - 2, NEW t \in TreesUpTo[n + 1] \ {Null}, IsBalanced[t],
         NEW x \in Titles, NEW l, x <= t.data, Fresh(n, l, x), Grown(l, t.left, x)
  PROVE  Grown(AfterLeft(l, t.data, t.right, x), t, x)
<1> DEFINE k == t.left
           d == t.data
           r == t.right
<1>0. Titles \subseteq Int /\ MaxItems \in Nat
  BY TitlesAssumption
<1>1. /\ n \in 0 .. MaxItems - 1 /\ n + 1 \in 0 .. MaxItems - 1 /\ n + 1 \in 0 .. MaxItems
      /\ n \in 0 .. MaxItems /\ n + 1 - 1 = n /\ n \in 0 .. n + 1 /\ x \in Int
  BY <1>0
<1>2. k \in TreesUpTo[n] /\ r \in TreesUpTo[n] /\ d \in Titles /\ d \in Int /\ t \in Trees \ {Null}
  BY <1>1, Subtrees, LevelsAreTrees
<1>3. /\ IsBalanced[k] /\ IsBalanced[r] /\ k.height - r.height \in {-1, 0, 1}
      /\ t.height = Larger(k.height, r.height) + 1
  BY <1>2, BalancedHeights
<1>4. k.height \in Int /\ r.height \in Int /\ k.height >= -1 /\ r.height >= -1
  BY <1>1, <1>2, LevelsAreTrees, Parts
<1> HIDE DEF k, d, r
<1>5. r \in TreesUpTo[n + 1]
  BY <1>1, <1>2, LevelsGrow
<1>6. /\ l \in TreesUpTo[n + 1] /\ l \in Trees \ {Null} /\ l.height \in Int /\ l.data \in Titles
      /\ l.left \in TreesUpTo[n] /\ l.right \in TreesUpTo[n]
      /\ l.left.height \in Int /\ l.right.height \in Int
  BY <1>1, Subtrees, LevelsAreTrees, Parts DEF Fresh
<1>7. /\ IsBalanced[l] /\ IsBalanced[l.left] /\ IsBalanced[l.right]
      /\ l.left.height - l.right.height \in {-1, 0, 1}
      /\ l.height = Larger(l.left.height, l.right.height) + 1
  BY <1>6, BalancedHeights DEF Grown
<1>8. \/ l.height = k.height
      \/ /\ l.height = k.height + 1
         /\ \/ k = Null /\ l.height = 0
            \/ x <= l.data /\ l.left.height = l.right.height + 1
            \/ x > l.data /\ l.right.height = l.left.height + 1
  BY DEF Grown, k
<1>9. CASE l.height - r.height # 2
  <2> DEFINE s == Made(l, d, r)
  <2>1. IsMade(n + 1, l, d, r)
    BY <1>1, <1>2, <1>5, <1>6, MadeIs
  <2>2. /\ s.left = l /\ s.right = r /\ s.data = d
        /\ s.height = Larger(l.height, r.height) + 1
    BY <2>1 DEF IsMade
  <2>3. l.height - r.height \in {-1, 0, 1}
    BY <1>3, <1>4, <1>6, <1>8, <1>9
  <2>4. IsBalanced[s]
    BY <1>3, <1>7, <2>1, <2>3, MadeBalanced
  <2>5. \/ s.height = t.height
        \/ s.height = t.height + 1 /\ l.height = r.height + 1
    <3> HIDE DEF s
    <3> QED BY <1>3, <1>4, <1>6, <1>8, <2>2, <2>3 DEF Larger
  <2>6. AfterLeft(l, d, r, x) = s
    BY <1>9 DEF AfterLeft
  <2>7. x <= d
    BY DEF d
  <2>8. Grown(s, t, x)
    <3> HIDE DEF s
    <3> QED BY <2>2, <2>4, <2>5, <2>7 DEF Grown
  <2> QED BY <2>6, <2>8 DEF d, r
<1>10. ASSUME l.height - r.height = 2
       PROVE  /\ k.height = r.height + 1 /\ l.height = k.height + 1
              /\ t.height = r.height + 2
              /\ \/ x <= l.data /\ l.left.height = r.height + 1 /\ l.right.height = r.height
                 \/ x > l.data /\ l.right.height = r.height + 1 /\ l.left.height = r.height
  <2>1. k.height = r.height + 1 /\ l.height = k.height + 1
    BY <1>3, <1>4, <1>6, <1>8, <1>10
  <2>2. l.height # 0
    BY <1>4, <1>6, <2>1
  <2>3. t.height = r.height + 2
    BY <1>3, <1>4, <2>1 DEF Larger
  <2> QED BY <1>4, <1>6, <1>7, <1>8, <2>1, <2>2, <2>3 DEF Larger
<1>11. CASE l.height - r.height = 2 /\ x <= l.data
  <2> DEFINE m == Made(l.right, d, r)
             s == Made(l.left, l.data, m)
  <2>1. AfterLeft(l, d, r, x) = s
    BY <1>11 DEF AfterLeft
  <2>2. l.left.height = r.height + 1 /\ l.right.height = r.height /\ t.height = r.height + 2
    <3>1. l.data \in Int
      BY <1>0, <1>6
    <3> QED BY <1>1, <1>10, <1>11, <3>1
  <2>3. IsMade(n, l.right, d, r)
    BY <1>1, <1>2, <1>6, MadeIs
  <2>4. m \in TreesUpTo[n + 1] /\ m.height = r.height + 1
    BY <1>4, <2>2, <2>3 DEF IsMade, Larger
  <2>5. IsBalanced[m]
    BY <1>3, <1>4, <1>7, <2>2, <2>3, MadeBalanced
  <2> HIDE DEF m
  <2>6. IsMade(n + 1, l.left, l.data, m)
    <3>1. l.left \in TreesUpTo[n + 1]
      BY <1>1, <1>6, LevelsGrow
    <3> QED BY <1>1, <1>6, <2>4, <3>1, MadeIs
  <2>7. IsBalanced[s]
    BY <1>4, <1>7, <2>2, <2>4, <2>5, <2>6, MadeBalanced
  <2>8. s.height = t.height
    BY <1>4, <2>2, <2>4, <2>6 DEF IsMade, Larger
  <2>9. Grown(s, t, x)
    <3> HIDE DEF s
    <3> QED BY <2>7, <2>8 DEF Grown
  <2> QED BY <2>1, <2>9 DEF d, r
<1>12. CASE l.height - r.height = 2 /\ ~(x <= l.data)
  <2> DEFINE a == l.left
             b == l.right.left
             c == l.right.right
             p == Made(a, l.data, b)
             q == Made(c, d, r)
             s == Made(p, l.right.data, q)
  <2>1. AfterLeft(l, d, r, x) = s
    BY <1>12 DEF AfterLeft
  <2>2. l.right.height = r.height + 1 /\ a.height = r.height /\ t.height = r.height + 2
    BY <1>10, <1>12
  <2>3. l.right # Null
    BY <1>4, <2>2, Parts
  <2>4. /\ n - 1 \in 0 .. MaxItems - 1
        /\ b \in TreesUpTo[n - 1] /\ c \in TreesUpTo[n - 1] /\ l.right.data \in Titles
    BY <1>1, <1>6, <2>3, Subtrees
  <2>5. b \in TreesUpTo[n] /\ c \in TreesUpTo[n]
    <3>1. n - 1 \in 0 .. n
      BY <1>1, <2>4
    <3> QED BY <1>1, <2>4, <3>1, LevelsGrow
  <2>6. /\ IsBalanced[b] /\ IsBalanced[c] /\ b.height \in Int /\ c.height \in Int
        /\ b.height - r.height \in {-1, 0} /\ c.height - r.height \in {-1, 0}
    <3>1. b \in Trees /\ c \in Trees /\ l.right \in Trees \ {Null}
      BY <1>1, <1>6, <2>3, <2>5, LevelsAreTrees
    <3>2. b.height \in Int /\ c.height \in Int
      BY <3>1, Parts
    <3>3. /\ IsBalanced[b] /\ IsBalanced[c] /\ b.height - c.height \in {-1, 0, 1}
          /\ l.right.height = Larger(b.height, c.height) + 1
      BY <1>7, <3>1, BalancedHeights
    <3> QED BY <1>4, <2>2, <3>2, <3>3 DEF Larger
  <2>7. IsMade(n, a, l.data, b) /\ IsMade(n, c, d, r)
    BY <1>1, <1>2, <1>6, <2>5, MadeIs
  <2>8. p \in TreesUpTo[n + 1] /\ q \in TreesUpTo[n + 1]
        /\ p.height = r.height + 1 /\ q.height = r.height + 1
    BY <1>4, <2>2, <2>6, <2>7 DEF IsMade, Larger
  <2>9. IsBalanced[p] /\ IsBalanced[q]
    <3>1. a.height - b.height \in {-1, 0, 1} /\ c.height - r.height \in {-1, 0, 1}
      BY <1>4, <2>2, <2>6
    <3> QED BY <1>3, <1>7, <2>6, <2>7, <3>1, MadeBalanced
  <2> HIDE DEF p, q
  <2>10. IsMade(n + 1, p, l.right.data, q)
    BY <1>1, <2>4, <2>8, MadeIs
  <2>11. IsBalanced[s]
    BY <1>4, <2>8, <2>9, <2>10, MadeBalanced
  <2>12. s.height = t.height
    BY <1>4, <2>2, <2>8, <2>10 DEF IsMade, Larger
  <2>13. Grown(s, t, x)
    <3> HIDE DEF s
    <3> QED BY <2>11, <2>12 DEF Grown
  <2> QED BY <2>1, <2>13 DEF d, r
<1> QED BY <1>9, <1>11, <1>12

\* The rotations restore balance above a right subtree that grew from k to r.
LEMMA BalancedAfterRight ==
  ASSUME NEW n \in 0 .. MaxItems - 2, NEW t \in TreesUpTo[n + 1] \ {Null}, IsBalanced[t],
         NEW x \in Titles, NEW r, x > t.data, Fresh(n, r, x), Grown(r, t.right, x)
  PROVE  Grown(AfterRight(t.left, t.data, r, x), t, x)
<1> DEFINE k == t.right
           d == t.data
           l == t.left
<1>0. Titles \subseteq Int /\ MaxItems \in Nat
  BY TitlesAssumption
<1>1. /\ n \in 0 .. MaxItems - 1 /\ n + 1 \in 0 .. MaxItems - 1 /\ n + 1 \in 0 .. MaxItems
      /\ n \in 0 .. MaxItems /\ n + 1 - 1 = n /\ n \in 0 .. n + 1 /\ x \in Int
  BY <1>0
<1>2. k \in TreesUpTo[n] /\ l \in TreesUpTo[n] /\ d \in Titles /\ d \in Int /\ t \in Trees \ {Null}
  BY <1>1, Subtrees, LevelsAreTrees
<1>3. /\ IsBalanced[k] /\ IsBalanced[l] /\ l.height - k.height \in {-1, 0, 1}
      /\ t.height = Larger(l.height, k.height) + 1
  BY <1>2, BalancedHeights
<1>4. k.height \in Int /\ l.height \in Int /\ k.height >= -1 /\ l.height >= -1
  BY <1>1, <1>2, LevelsAreTrees, Parts
<1> HIDE DEF k, d, l
<1>5. l \in TreesUpTo[n + 1]
  BY <1>1, <1>2, LevelsGrow
<1>6. /\ r \in TreesUpTo[n + 1] /\ r \in Trees \ {Null} /\ r.height \in Int /\ r.data \in Titles
      /\ r.left \in TreesUpTo[n] /\ r.right \in TreesUpTo[n]
      /\ r.left.height \in Int /\ r.right.height \in Int
  BY <1>1, Subtrees, LevelsAreTrees, Parts DEF Fresh
<1>7. /\ IsBalanced[r] /\ IsBalanced[r.left] /\ IsBalanced[r.right]
      /\ r.left.height - r.right.height \in {-1, 0, 1}
      /\ r.height = Larger(r.left.height, r.right.height) + 1
  BY <1>6, BalancedHeights DEF Grown
<1>8. \/ r.height = k.height
      \/ /\ r.height = k.height + 1
         /\ \/ k = Null /\ r.height = 0
            \/ x <= r.data /\ r.left.height = r.right.height + 1
            \/ x > r.data /\ r.right.height = r.left.height + 1
  BY DEF Grown, k
<1>9. CASE r.height - l.height # 2
  <2> DEFINE s == Made(l, d, r)
  <2>1. IsMade(n + 1, l, d, r)
    BY <1>1, <1>2, <1>5, <1>6, MadeIs
  <2>2. /\ s.left = l /\ s.right = r /\ s.data = d
        /\ s.height = Larger(l.height, r.height) + 1
    BY <2>1 DEF IsMade
  <2>3. l.height - r.height \in {-1, 0, 1}
    BY <1>3, <1>4, <1>6, <1>8, <1>9
  <2>4. IsBalanced[s]
    BY <1>3, <1>7, <2>1, <2>3, MadeBalanced
  <2>5. \/ s.height = t.height
        \/ s.height = t.height + 1 /\ r.height = l.height + 1
    <3> HIDE DEF s
    <3> QED BY <1>3, <1>4, <1>6, <1>8, <2>2, <2>3 DEF Larger
  <2>6. AfterRight(l, d, r, x) = s
    BY <1>9 DEF AfterRight
  <2>7. x > d
    BY DEF d
  <2>8. Grown(s, t, x)
    <3> HIDE DEF s
    <3> QED BY <2>2, <2>4, <2>5, <2>7 DEF Grown
  <2> QED BY <2>6, <2>8 DEF d, l
<1>10. ASSUME r.height - l.height = 2
       PROVE  /\ k.height = l.height + 1 /\ r.height = k.height + 1
              /\ t.height = l.height + 2
              /\ \/ x > r.data /\ r.right.height = l.height + 1 /\ r.left.height = l.height
                 \/ x <= r.data /\ r.left.height = l.height + 1 /\ r.right.height = l.height
  <2>1. k.height = l.height + 1 /\ r.height = k.height + 1
    BY <1>3, <1>4, <1>6, <1>8, <1>10
  <2>2. r.height # 0
    BY <1>4, <1>6, <2>1
  <2>3. t.height = l.height + 2
    BY <1>3, <1>4, <2>1 DEF Larger
  <2> QED BY <1>4, <1>6, <1>7, <1>8, <2>1, <2>2, <2>3 DEF Larger
<1>11. CASE r.height - l.height = 2 /\ x > r.data
  <2> DEFINE m == Made(l, d, r.left)
             s == Made(m, r.data, r.right)
  <2>1. AfterRight(l, d, r, x) = s
    BY <1>11 DEF AfterRight
  <2>2. r.right.height = l.height + 1 /\ r.left.height = l.height /\ t.height = l.height + 2
    <3>1. r.data \in Int
      BY <1>0, <1>6
    <3> QED BY <1>1, <1>10, <1>11, <3>1
  <2>3. IsMade(n, l, d, r.left)
    BY <1>1, <1>2, <1>6, MadeIs
  <2>4. m \in TreesUpTo[n + 1] /\ m.height = l.height + 1
    BY <1>4, <2>2, <2>3 DEF IsMade, Larger
  <2>5. IsBalanced[m]
    BY <1>3, <1>4, <1>7, <2>2, <2>3, MadeBalanced
  <2> HIDE DEF m
  <2>6. IsMade(n + 1, m, r.data, r.right)
    <3>1. r.right \in TreesUpTo[n + 1]
      BY <1>1, <1>6, LevelsGrow
    <3> QED BY <1>1, <1>6, <2>4, <3>1, MadeIs
  <2>7. IsBalanced[s]
    BY <1>4, <1>7, <2>2, <2>4, <2>5, <2>6, MadeBalanced
  <2>8. s.height = t.height
    BY <1>4, <2>2, <2>4, <2>6 DEF IsMade, Larger
  <2>9. Grown(s, t, x)
    <3> HIDE DEF s
    <3> QED BY <2>7, <2>8 DEF Grown
  <2> QED BY <2>1, <2>9 DEF d, l
<1>12. CASE r.height - l.height = 2 /\ ~(x > r.data)
  <2> DEFINE a == r.right
             b == r.left.left
             c == r.left.right
             p == Made(l, d, b)
             q == Made(c, r.data, a)
             s == Made(p, r.left.data, q)
  <2>1. AfterRight(l, d, r, x) = s
    BY <1>12 DEF AfterRight
  <2>2. r.left.height = l.height + 1 /\ a.height = l.height /\ t.height = l.height + 2
    BY <1>10, <1>12
  <2>3. r.left # Null
    BY <1>4, <2>2, Parts
  <2>4. /\ n - 1 \in 0 .. MaxItems - 1
        /\ b \in TreesUpTo[n - 1] /\ c \in TreesUpTo[n - 1] /\ r.left.data \in Titles
    BY <1>1, <1>6, <2>3, Subtrees
  <2>5. b \in TreesUpTo[n] /\ c \in TreesUpTo[n]
    <3>1. n - 1 \in 0 .. n
      BY <1>1, <2>4
    <3> QED BY <1>1, <2>4, <3>1, LevelsGrow
  <2>6. /\ IsBalanced[b] /\ IsBalanced[c] /\ b.height \in Int /\ c.height \in Int
        /\ b.height - l.height \in {-1, 0} /\ c.height - l.height \in {-1, 0}
    <3>1. b \in Trees /\ c \in Trees /\ r.left \in Trees \ {Null}
      BY <1>1, <1>6, <2>3, <2>5, LevelsAreTrees
    <3>2. b.height \in Int /\ c.height \in Int
      BY <3>1, Parts
    <3>3. /\ IsBalanced[b] /\ IsBalanced[c] /\ b.height - c.height \in {-1, 0, 1}
          /\ r.left.height = Larger(b.height, c.height) + 1
      BY <1>7, <3>1, BalancedHeights
    <3> QED BY <1>4, <2>2, <3>2, <3>3 DEF Larger
  <2>7. IsMade(n, l, d, b) /\ IsMade(n, c, r.data, a)
    BY <1>1, <1>2, <1>6, <2>5, MadeIs
  <2>8. p \in TreesUpTo[n + 1] /\ q \in TreesUpTo[n + 1]
        /\ p.height = l.height + 1 /\ q.height = l.height + 1
    BY <1>4, <2>2, <2>6, <2>7 DEF IsMade, Larger
  <2>9. IsBalanced[p] /\ IsBalanced[q]
    <3>1. l.height - b.height \in {-1, 0, 1} /\ c.height - a.height \in {-1, 0, 1}
      BY <1>4, <2>2, <2>6
    <3> QED BY <1>3, <1>7, <2>6, <2>7, <3>1, MadeBalanced
  <2> HIDE DEF p, q
  <2>10. IsMade(n + 1, p, r.left.data, q)
    BY <1>1, <2>4, <2>8, MadeIs
  <2>11. IsBalanced[s]
    BY <1>4, <2>8, <2>9, <2>10, MadeBalanced
  <2>12. s.height = t.height
    BY <1>4, <2>2, <2>8, <2>10 DEF IsMade, Larger
  <2>13. Grown(s, t, x)
    <3> HIDE DEF s
    <3> QED BY <2>11, <2>12 DEF Grown
  <2> QED BY <2>1, <2>13 DEF d, l
<1> QED BY <1>9, <1>11, <1>12

\* Insertion keeps a balanced tree balanced.
LEMMA InsertBalancedGrows ==
  ASSUME NEW n \in 0 .. MaxItems - 1, NEW t \in TreesUpTo[n], IsBalanced[t], NEW x \in Titles
  PROVE  Grown(InsertBalanced[t][x], t, x)
<1> DEFINE S == { s \in Trees : \A m \in 0 .. MaxItems - 1 : s \in TreesUpTo[m] /\ IsBalanced[s] =>
                    Grown(InsertBalanced[s][x], s, x) }
<1>1. Titles \subseteq Int /\ MaxItems \in Nat
  BY TitlesAssumption
<1>2. Null \in S
  <2> SUFFICES ASSUME NEW m \in 0 .. MaxItems - 1
               PROVE  Grown(Leaf(x), Null, x)
    BY Parts, InsertBalancedIs
  <2>1. /\ Leaf(x) \in Trees \ {Null} /\ Leaf(x).height = 0
        /\ Leaf(x).left = Null /\ Leaf(x).right = Null
    BY <1>1, LeafIs
  <2>2. IsBalanced[Leaf(x)]
    BY <2>1, BalancedHeights, IsBalancedIs, Parts DEF Larger
  <2> QED BY <2>1, <2>2, Parts DEF Grown
<1>3. ASSUME NEW s \in Trees \ {Null}, s.left \in S, s.right \in S
      PROVE  s \in S
  <2> SUFFICES ASSUME NEW m \in 0 .. MaxItems - 1, s \in TreesUpTo[m], IsBalanced[s]
               PROVE  Grown(InsertBalanced[s][x], s, x)
    OBVIOUS
  <2> DEFINE k == m - 1
  <2>1. /\ s.left \in TreesUpTo[k] /\ s.right \in TreesUpTo[k] /\ s.data \in Int
    <3>1. m \in 0 .. MaxItems
      BY <1>1
    <3> QED BY <3>1, Subtrees
  <2>2. k \in 0 .. MaxItems - 2 /\ k \in 0 .. MaxItems - 1 /\ k + 1 = m /\ x \in Int
    <3>1. m # 0
      BY Levels
    <3> QED BY <1>1, <3>1
  <2> HIDE DEF k
  <2>3. s \in TreesUpTo[k + 1] \ {Null} /\ IsBalanced[s.left] /\ IsBalanced[s.right]
    BY <2>2, BalancedHeights
  <2>4. CASE x <= s.data
    <3> DEFINE l == InsertBalanced[s.left][x]
    <3>1. Fresh(k, l, x)
      BY <2>1, <2>2, InsertBalancedAdds
    <3>2. Grown(l, s.left, x)
      BY <1>3, <2>1, <2>2, <2>3
    <3>3. InsertBalanced[s][x] = AfterLeft(l, s.data, s.right, x)
      BY <2>2, <2>3, <2>4, <3>1, InsertStep
    <3> HIDE DEF l
    <3> QED BY <2>2, <2>3, <2>4, <3>1, <3>2, <3>3, BalancedAfterLeft
  <2>5. CASE x > s.data
    <3> DEFINE r == InsertBalanced[s.right][x]
    <3>1. Fresh(k, r, x)
      BY <2>1, <2>2, InsertBalancedAdds
    <3>2. Grown(r, s.right, x)
      BY <1>3, <2>1, <2>2, <2>3
    <3>3. InsertBalanced[s][x] = AfterRight(s.left, s.data, r, x)
      BY <2>2, <2>3, <2>5, <3>1, InsertStep
    <3> HIDE DEF r
    <3> QED BY <2>2, <2>3, <2>5, <3>1, <3>2, <3>3, BalancedAfterRight
  <2> QED BY <2>1, <2>2, <2>4, <2>5
<1>4. Trees \subseteq S
  <2> HIDE DEF S
  <2> QED BY <1>2, <1>3, TreeInduction
<1> QED
  <2>1. t \in Trees
    BY <1>1, LevelsAreTrees
  <2> QED BY <1>4, <2>1

-----------------------------------------------------------------------------
(* The plain tree's insertion, and removal and search in both                *)

\* A node of which one subtree was replaced.
LEMMA Replaced ==
  ASSUME NEW n \in 0 .. MaxItems - 1, NEW t \in Trees \ {Null}, NEW s \in TreesUpTo[n]
  PROVE  /\ t.right \in TreesUpTo[n] =>
              /\ [t EXCEPT !.left = s] \in TreesUpTo[n + 1] \ {Null}
              /\ [t EXCEPT !.left = s] \in Trees \ {Null}
              /\ Joins([t EXCEPT !.left = s], s, t.data, t.right)
         /\ t.left \in TreesUpTo[n] =>
              /\ [t EXCEPT !.right = s] \in TreesUpTo[n + 1] \ {Null}
              /\ [t EXCEPT !.right = s] \in Trees \ {Null}
              /\ Joins([t EXCEPT !.right = s], t.left, t.data, s)
<1>1. MaxItems \in 0 .. MaxItems
  BY TitlesAssumption
<1>2. t.data \in Titles /\ t.height \in Nat /\ t = Node(t.left, t.data, t.height, t.right)
  BY <1>1, Subtrees DEF Trees
<1>3. /\ [t EXCEPT !.left = s] = Node(s, t.data, t.height, t.right)
      /\ [t EXCEPT !.right = s] = Node(t.left, t.data, t.height, s)
  <2>1. /\ [Node(t.left, t.data, t.height, t.right) EXCEPT !.left = s]
             = Node(s, t.data, t.height, t.right)
        /\ [Node(t.left, t.data, t.height, t.right) EXCEPT !.right = s]
             = Node(t.left, t.data, t.height, s)
    BY NodeUpdates
  <2> QED BY <1>2, <2>1
<1>4. t.right \in TreesUpTo[n] =>
        /\ Node(s, t.data, t.height, t.right) \in TreesUpTo[n + 1] \ {Null}
        /\ Node(s, t.data, t.height, t.right) \in Trees \ {Null}
        /\ Joins(Node(s, t.data, t.height, t.right), s, t.data, t.right)
  BY <1>2, NewNode, NodeJoins
<1>5. t.left \in TreesUpTo[n] =>
        /\ Node(t.left, t.data, t.height, s) \in TreesUpTo[n + 1] \ {Null}
        /\ Node(t.left, t.data, t.height, s) \in Trees \ {Null}
        /\ Joins(Node(t.left, t.data, t.height, s), t.left, t.data, s)
  BY <1>2, NewNode, NodeJoins
<1> QED BY <1>3, <1>4, <1>5

\* Insertion into a plain tree of n levels: n + 1 levels are enough, and the title is
\* added.
LEMMA InsertPlainAdds ==
  ASSUME NEW n \in 0 .. MaxItems - 1, NEW t \in TreesUpTo[n], NEW x \in Titles
  PROVE  InsertPlain[t][x] \in TreesUpTo[n + 1] /\ Added(InsertPlain[t][x], t, x)
<1> DEFINE S == { s \in Trees : \A m \in 0 .. MaxItems - 1 : s \in TreesUpTo[m] =>
                    InsertPlain[s][x] \in TreesUpTo[m + 1] /\ Added(InsertPlain[s][x], s, x) }
<1>1. Titles \subseteq Int /\ MaxItems \in Nat
  BY TitlesAssumption
<1>2. Null \in S
  <2> SUFFICES ASSUME NEW m \in 0 .. MaxItems - 1
               PROVE  Leaf(x) \in TreesUpTo[m + 1] /\ Added(Leaf(x), Null, x)
    BY Parts, InsertPlainIs
  <2>1. 1 \in 0 .. m + 1 /\ m + 1 \in 0 .. MaxItems /\ MaxItems > 0
    BY <1>1
  <2> QED BY <2>1, LeafIs, LevelsGrow
<1>3. ASSUME NEW s \in Trees \ {Null}, s.left \in S, s.right \in S
      PROVE  s \in S
  <2> SUFFICES ASSUME NEW m \in 0 .. MaxItems - 1, s \in TreesUpTo[m]
               PROVE  InsertPlain[s][x] \in TreesUpTo[m + 1] /\ Added(InsertPlain[s][x], s, x)
    OBVIOUS
  <2> DEFINE k == m - 1
  <2>1. /\ s.left \in TreesUpTo[k] /\ s.right \in TreesUpTo[k] /\ s.data \in Titles
        /\ s.data \in Int
    <3>1. m \in 0 .. MaxItems
      BY <1>1
    <3> QED BY <3>1, Subtrees
  <2>2. k \in 0 .. MaxItems - 1 /\ k + 1 = m /\ x \in Int /\ m \in 0 .. MaxItems /\ k \in 0 .. m
    <3>1. m # 0
      BY Levels
    <3> QED BY <1>1, <3>1
  <2> HIDE DEF k
  <2>3. /\ s.left \in Trees /\ s.right \in Trees /\ Joins(s, s.left, s.data, s.right)
        /\ s.left \in TreesUpTo[m] /\ s.right \in TreesUpTo[m]
    BY <2>1, <2>2, Parts, NodeJoins, LevelsGrow
  <2>4. CASE x <= s.data
    <3> DEFINE l == InsertPlain[s.left][x]
               v == [s EXCEPT !.left = l]
    <3>1. l \in TreesUpTo[m] /\ Added(l, s.left, x)
      BY <1>3, <2>1, <2>2
    <3>2. InsertPlain[s][x] = v
      BY <2>4, InsertPlainIs
    <3> HIDE DEF l
    <3>3. v \in TreesUpTo[m + 1] /\ Joins(v, l, s.data, s.right) /\ l \in Trees
      BY <2>2, <2>3, <3>1, Replaced, LevelsAreTrees
    <3> HIDE DEF v
    <3>4. Added(v, s, x)
      BY <2>4, <3>1, <3>3, AddedLeft
    <3> QED BY <3>2, <3>3, <3>4
  <2>5. CASE x > s.data
    <3> DEFINE r == InsertPlain[s.right][x]
               v == [s EXCEPT !.right = r]
    <3>1. r \in TreesUpTo[m] /\ Added(r, s.right, x)
      BY <1>3, <2>1, <2>2
    <3>2. InsertPlain[s][x] = v
      <4>1. ~(x <= s.data)
        BY <2>1, <2>2, <2>5
      <4> QED BY <4>1, InsertPlainIs
    <3> HIDE DEF r
    <3>3. v \in TreesUpTo[m + 1] /\ Joins(v, s.left, s.data, r) /\ r \in Trees
      BY <2>2, <2>3, <3>1, Replaced, LevelsAreTrees
    <3> HIDE DEF v
    <3>4. Added(v, s, x)
      BY <2>5, <3>1, <3>3, AddedRight
    <3> QED BY <3>2, <3>3, <3>4
  <2> QED BY <2>1, <2>2, <2>4, <2>5
<1>4. Trees \subseteq S
  <2> HIDE DEF S
  <2> QED BY <1>2, <1>3, TreeInduction
<1> QED
  <2>1. t \in Trees
    BY <1>1, LevelsAreTrees
  <2> QED BY <1>4, <2>1

\* Where search goes, a title is if it is in the tree at all.
LEMMA Sides ==
  ASSUME NEW t \in Trees \ {Null}, Ordered[t], NEW x \in Titles
  PROVE  /\ x < t.data => Copies[t][x] = Copies[t.left][x] /\ Copies[t.right][x] = 0
         /\ x > t.data => Copies[t][x] = Copies[t.right][x] /\ Copies[t.left][x] = 0
         /\ x = t.data => Copies[t][x] > 0
<1>1. x \in Int
  BY TitlesAssumption
<1>2. Joins(t, t.left, t.data, t.right) /\ t.left \in Trees /\ t.right \in Trees /\ t.data \in Int
  BY NodeJoins, Parts
<1>3. Copies[t.left][x] \in Nat /\ Copies[t.right][x] \in Nat
  BY <1>2, Counts
<1>4. /\ Copies[t][x] = Copies[t.left][x] + (IF x = t.data THEN 1 ELSE 0) + Copies[t.right][x]
      /\ Copies[t.left][x] > 0 => x <= t.data
      /\ Copies[t.right][x] > 0 => x >= t.data
  BY <1>2 DEF Joins
<1> QED BY <1>1, <1>2, <1>3, <1>4

\* A search finds what is in the tree.
LEMMA SearchFinds ==
  \A t \in Trees : Ordered[t] => \A x \in Titles : Search[t][x] <=> Copies[t][x] > 0
<1> DEFINE S == { t \in Trees : Ordered[t] => \A x \in Titles : Search[t][x] <=> Copies[t][x] > 0 }
<1>1. Null \in S
  <2>1. \A x \in Titles : ~Search[Null][x] /\ Copies[Null][x] = 0
    BY SearchIs, CopiesIs
  <2> QED BY <2>1, Parts
<1>2. ASSUME NEW t \in Trees \ {Null}, t.left \in S, t.right \in S
      PROVE  t \in S
  <2> SUFFICES ASSUME Ordered[t], NEW x \in Titles
               PROVE  Search[t][x] <=> Copies[t][x] > 0
    OBVIOUS
  <2>1. Ordered[t.left] /\ Ordered[t.right]
    BY OrderedIs
  <2>2. /\ Search[t.left][x] <=> Copies[t.left][x] > 0
        /\ Search[t.right][x] <=> Copies[t.right][x] > 0
    BY <1>2, <2>1
  <2>3. x \in Int /\ t.data \in Int
    BY Parts, TitlesAssumption
  <2>4. Search[t][x] <=> \/ x = t.data
                         \/ x < t.data /\ Search[t.left][x]
                         \/ x > t.data /\ Search[t.right][x]
    BY SearchIs
  <2>5. CASE x < t.data
    BY <2>2, <2>3, <2>4, <2>5, Sides
  <2>6. CASE x > t.data
    BY <2>2, <2>3, <2>4, <2>6, Sides
  <2>7. CASE x = t.data
    BY <2>4, <2>7, Sides
  <2> QED BY <2>3, <2>5, <2>6, <2>7
<1>3. Trees \subseteq S
  <2> HIDE DEF S
  <2> QED BY <1>1, <1>2, TreeInduction
<1> QED BY <1>3

\* What is in the tree r when below was hung into t.
Hung(r, t, below) ==
  /\ r \in TreesUpTo[Size[t] + Size[below]]
  /\ Size[r] = Size[t] + Size[below]
  /\ \A y \in Titles : Copies[r][y] = Copies[t][y] + Copies[below][y]
  /\ /\ Ordered[t] /\ Ordered[below]
     /\ \A y, z \in Titles : Copies[below][y] > 0 /\ Copies[t][z] > 0 => y <= z
     => Ordered[r]

\* Hanging a tree below the leftmost node of another joins the two.
LEMMA HangLeftHangs ==
  ASSUME NEW below \in Trees, NEW t \in Trees \ {Null}, Size[t] + Size[below] <= MaxItems
  PROVE  Hung(HangLeft[t][below], t, below)
<1> DEFINE S == { s \in Trees : s # Null /\ Size[s] + Size[below] <= MaxItems =>
                    Hung(HangLeft[s][below], s, below) }
<1>1. Titles \subseteq Int /\ MaxItems \in Nat
  BY TitlesAssumption
<1>2. Null \in S
  BY Parts
<1>3. ASSUME NEW s \in Trees \ {Null}, s.left \in S, s.right \in S
      PROVE  s \in S
  <2> SUFFICES ASSUME Size[s] + Size[below] <= MaxItems
               PROVE  Hung(HangLeft[s][below], s, below)
    OBVIOUS
  <2>1. s.left \in Trees /\ s.right \in Trees /\ s.data \in Titles /\ s.data \in Int
        /\ Joins(s, s.left, s.data, s.right)
    BY Parts, NodeJoins
  <2>2. /\ Size[below] \in Nat /\ Size[s.left] \in Nat /\ Size[s.right] \in Nat
        /\ \A y \in Titles : /\ Copies[below][y] \in Nat /\ Copies[s.left][y] \in Nat
                             /\ Copies[s.right][y] \in Nat
    BY <2>1, Counts
  <2> DEFINE n == Size[s.left] + Size[s.right] + Size[below]
  <2>3. /\ Size[s] = Size[s.left] + 1 + Size[s.right] /\ Size[s] + Size[below] = n + 1
        /\ n \in 0 .. MaxItems - 1 /\ n \in 0 .. MaxItems
        /\ Size[below] \in 0 .. n /\ Size[s.right] \in 0 .. n
        /\ Size[s.left] + Size[below] \in 0 .. n
        /\ Size[s.right] <= MaxItems /\ Size[below] <= MaxItems
        /\ Size[s.left] + Size[below] <= MaxItems
    BY <1>1, <2>1, <2>2 DEF Joins
  <2> HIDE DEF n
  <2>4. below \in TreesUpTo[n] /\ s.right \in TreesUpTo[n]
    <3>1. below \in TreesUpTo[Size[below]] /\ s.right \in TreesUpTo[Size[s.right]]
      BY <2>1, <2>3, NoMoreLevels
    <3> QED BY <2>3, <3>1, LevelsGrow
  <2> DEFINE l == IF s.left = Null THEN below ELSE HangLeft[s.left][below]
             r == [s EXCEPT !.left = l]
  <2>5. HangLeft[s][below] = r
    BY HangLeftIs
  <2>6. /\ l \in TreesUpTo[n]
        /\ Size[l] = Size[s.left] + Size[below]
        /\ \A y \in Titles : Copies[l][y] = Copies[s.left][y] + Copies[below][y]
        /\ /\ Ordered[s.left] /\ Ordered[below]
           /\ \A y, z \in Titles : Copies[below][y] > 0 /\ Copies[s.left][z] > 0 => y <= z
           => Ordered[l]
    <3>1. CASE s.left = Null
      BY <2>2, <2>4, <3>1, SizeIs, CopiesIs
    <3>2. CASE s.left # Null
      <4>1. Hung(l, s.left, below)
        BY <1>3, <2>3, <3>2
      <4> HIDE DEF l
      <4> QED BY <2>3, <4>1, LevelsGrow DEF Hung
    <3> QED BY <3>1, <3>2
  <2> HIDE DEF l
  <2>7. r \in TreesUpTo[n + 1] /\ Joins(r, l, s.data, s.right)
    BY <2>3, <2>4, <2>6, Replaced
  <2> HIDE DEF r
  <2>8. Size[r] = Size[s] + Size[below]
    BY <2>1, <2>2, <2>6, <2>7 DEF Joins
  <2>9. \A y \in Titles : Copies[r][y] = Copies[s][y] + Copies[below][y]
    <3> SUFFICES ASSUME NEW y \in Titles PROVE Copies[r][y] = Copies[s][y] + Copies[below][y]
      OBVIOUS
    <3> QED BY <2>1, <2>2, <2>6, <2>7 DEF Joins
  <2>10. ASSUME Ordered[s], Ordered[below],
                \A y, z \in Titles : Copies[below][y] > 0 /\ Copies[s][z] > 0 => y <= z
         PROVE  Ordered[r]
    <3>1. \A y \in Titles : Copies[below][y] > 0 => y <= s.data
      <4>1. Copies[s][s.data] > 0
        BY <2>1, <2>2 DEF Joins
      <4> QED BY <2>1, <2>10, <4>1
    <3>2. \A z \in Titles : Copies[s.left][z] > 0 => Copies[s][z] > 0
      BY <2>1, <2>2 DEF Joins
    <3>3. Ordered[l]
      BY <2>1, <2>6, <2>10, <3>2 DEF Joins
    <3>4. \A y \in Titles : Copies[l][y] > 0 => y <= s.data
      BY <2>1, <2>2, <2>6, <2>10, <3>1 DEF Joins
    <3> QED BY <2>1, <2>7, <2>10, <3>3, <3>4 DEF Joins
  <2> QED BY <2>3, <2>5, <2>7, <2>8, <2>9, <2>10 DEF Hung
<1>4. Trees \subseteq S
  <2> HIDE DEF S
  <2> QED BY <1>2, <1>3, TreeInduction
<1> QED BY <1>4

\* What a removal of x from t must leave.
Dropped(r, t, x) ==
  /\ r \in TreesUpTo[Size[t]]
  /\ Size[r] + 1 = Size[t]
  /\ \A y \in Titles : Copies[r][y] + (IF y = x THEN 1 ELSE 0) = Copies[t][y]
  /\ Ordered[r]

\* Removal takes one copy out, and keeps the order, equal titles included.
LEMMA RemoveDrops ==
  ASSUME NEW t \in Trees, Size[t] <= MaxItems, Ordered[t], NEW x \in Titles, Copies[t][x] > 0
  PROVE  Dropped(RemoveFrom[t][x], t, x)
<1> DEFINE S == { s \in Trees : Size[s] <= MaxItems /\ Ordered[s] /\ Copies[s][x] > 0 =>
                    Dropped(RemoveFrom[s][x], s, x) }
<1>1. Titles \subseteq Int /\ MaxItems \in Nat
  BY TitlesAssumption
<1>2. Null \in S
  BY Parts, CopiesIs
<1>3. ASSUME NEW s \in Trees \ {Null}, s.left \in S, s.right \in S
      PROVE  s \in S
  <2> SUFFICES ASSUME Size[s] <= MaxItems, Ordered[s], Copies[s][x] > 0
               PROVE  Dropped(RemoveFrom[s][x], s, x)
    OBVIOUS
  <2>1. /\ s.left \in Trees /\ s.right \in Trees /\ s.data \in Titles /\ s.data \in Int
        /\ x \in Int /\ Joins(s, s.left, s.data, s.right)
    BY <1>1, Parts, NodeJoins
  <2>2. /\ Size[s.left] \in Nat /\ Size[s.right] \in Nat
        /\ \A y \in Titles : Copies[s.left][y] \in Nat /\ Copies[s.right][y] \in Nat
    BY <2>1, Counts
  <2> DEFINE n == Size[s.left] + Size[s.right]
  <2>3. /\ Size[s] = n + 1 /\ n \in 0 .. MaxItems - 1 /\ n \in 0 .. MaxItems
        /\ n \in 0 .. n + 1 /\ n + 1 \in 0 .. MaxItems
        /\ Size[s.left] \in 0 .. n /\ Size[s.right] \in 0 .. n
        /\ Size[s.left] <= MaxItems /\ Size[s.right] <= MaxItems
        /\ Size[s.right] + Size[s.left] = n /\ Size[s.right] + Size[s.left] <= MaxItems
    BY <1>1, <2>1, <2>2 DEF Joins
  <2> HIDE DEF n
  <2>4. s.left \in TreesUpTo[n] /\ s.right \in TreesUpTo[n]
    <3>1. s.left \in TreesUpTo[Size[s.left]] /\ s.right \in TreesUpTo[Size[s.right]]
      BY <2>1, <2>3, NoMoreLevels
    <3> QED BY <2>3, <3>1, LevelsGrow
  <2>5. /\ Ordered[s.left] /\ Ordered[s.right]
        /\ \A y \in Titles : Copies[s.left][y] > 0 => y <= s.data
        /\ \A y \in Titles : Copies[s.right][y] > 0 => y >= s.data
    BY <2>1 DEF Joins
  <2>6. CASE x < s.data
    <3> DEFINE l == RemoveFrom[s.left][x]
               r == [s EXCEPT !.left = l]
    <3>1. Dropped(l, s.left, x)
      BY <1>3, <2>3, <2>5, <2>6, Sides
    <3>2. RemoveFrom[s][x] = r
      <4>1. ~(x > s.data)
        BY <2>1, <2>6
      <4> QED BY <2>6, <4>1, RemoveFromIs
    <3> HIDE DEF l
    <3>3. l \in TreesUpTo[n] /\ l \in Trees
      BY <2>3, <3>1, LevelsGrow, LevelsAreTrees DEF Dropped
    <3>4. r \in TreesUpTo[n + 1] /\ Joins(r, l, s.data, s.right)
      BY <2>3, <2>4, <3>3, Replaced
    <3>5. Size[l] \in Nat /\ \A y \in Titles : Copies[l][y] \in Nat
      BY <3>3, Counts
    <3> HIDE DEF r
    <3>6. Size[r] + 1 = Size[s]
      BY <2>1, <2>2, <3>1, <3>4, <3>5 DEF Joins, Dropped
    <3>7. \A y \in Titles : Copies[r][y] + (IF y = x THEN 1 ELSE 0) = Copies[s][y]
      <4> SUFFICES ASSUME NEW y \in Titles PROVE Copies[r][y] + (IF y = x THEN 1 ELSE 0) = Copies[s][y]
        OBVIOUS
      <4> QED BY <2>1, <2>2, <3>1, <3>4, <3>5 DEF Joins, Dropped
    <3>8. \A y \in Titles : Copies[l][y] > 0 => y <= s.data
      BY <2>2, <2>5, <3>1, <3>5 DEF Dropped
    <3>9. Ordered[r]
      BY <2>5, <3>1, <3>4, <3>8 DEF Joins, Dropped
    <3> QED BY <2>3, <3>2, <3>4, <3>6, <3>7, <3>9 DEF Dropped
  <2>7. CASE x > s.data
    <3> DEFINE u == RemoveFrom[s.right][x]
               r == [s EXCEPT !.right = u]
    <3>1. Dropped(u, s.right, x)
      BY <1>3, <2>3, <2>5, <2>7, Sides
    <3>2. RemoveFrom[s][x] = r
      <4>1. ~(x < s.data)
        BY <2>1, <2>7
      <4> QED BY <2>7, <4>1, RemoveFromIs
    <3> HIDE DEF u
    <3>3. u \in TreesUpTo[n] /\ u \in Trees
      BY <2>3, <3>1, LevelsGrow, LevelsAreTrees DEF Dropped
    <3>4. r \in TreesUpTo[n + 1] /\ Joins(r, s.left, s.data, u)
      BY <2>3, <2>4, <3>3, Replaced
    <3>5. Size[u] \in Nat /\ \A y \in Titles : Copies[u][y] \in Nat
      BY <3>3, Counts
    <3> HIDE DEF r
    <3>6. Size[r] + 1 = Size[s]
      BY <2>1, <2>2, <3>1, <3>4, <3>5 DEF Joins, Dropped
    <3>7. \A y \in Titles : Copies[r][y] + (IF y = x THEN 1 ELSE 0) = Copies[s][y]
      <4> SUFFICES ASSUME NEW y \in Titles PROVE Copies[r][y] + (IF y = x THEN 1 ELSE 0) = Copies[s][y]
        OBVIOUS
      <4> QED BY <2>1, <2>2, <3>1, <3>4, <3>5 DEF Joins, Dropped
    <3>8. \A y \in Titles : Copies[u][y] > 0 => y >= s.data
      BY <2>2, <2>5, <3>1, <3>5 DEF Dropped
    <3>9. Ordered[r]
      BY <2>5, <3>1, <3>4, <3>8 DEF Joins, Dropped
    <3> QED BY <2>3, <3>2, <3>4, <3>6, <3>7, <3>9 DEF Dropped
  <2>8. CASE x = s.data
    <3> DEFINE r == Unlinked(s)
    <3>1. RemoveFrom[s][x] = r
      <4>1. ~(x < s.data) /\ ~(x > s.data)
        BY <2>1, <2>8
      <4> QED BY <4>1, RemoveFromIs
    <3>2. /\ r \in TreesUpTo[n] /\ Size[r] = n /\ Ordered[r]
          /\ \A y \in Titles : Copies[r][y] = Copies[s.left][y] + Copies[s.right][y]
      <4>1. CASE s.left = Null
        <5>1. r = s.right
          BY <4>1 DEF Unlinked
        <5>2. Size[Null] = 0 /\ \A y \in Titles : Copies[Null][y] = 0
          BY SizeIs, CopiesIs
        <5> QED BY <2>2, <2>4, <2>5, <4>1, <5>1, <5>2 DEF n
      <4>2. CASE s.left # Null /\ s.right = Null
        <5>1. r = s.left
          BY <4>2 DEF Unlinked
        <5>2. Size[Null] = 0 /\ \A y \in Titles : Copies[Null][y] = 0
          BY SizeIs, CopiesIs
        <5> QED BY <2>2, <2>4, <2>5, <4>2, <5>1, <5>2 DEF n
      <4>3. CASE s.left # Null /\ s.right # Null
        <5>1. r = HangLeft[s.right][s.left]
          BY <4>3 DEF Unlinked
        <5>2. Hung(r, s.right, s.left)
          BY <2>1, <2>3, <4>3, <5>1, HangLeftHangs
        <5> HIDE DEF r
        <5>3. ASSUME NEW y \in Titles, NEW z \in Titles, Copies[s.left][y] > 0, Copies[s.right][z] > 0
              PROVE  y <= z
          <6>1. y <= s.data /\ z >= s.data /\ y \in Int /\ z \in Int
            BY <1>1, <2>5, <5>3
          <6> QED BY <2>1, <6>1
        <5>4. Ordered[r]
          BY <2>5, <5>2, <5>3 DEF Hung
        <5> QED BY <2>2, <2>3, <5>2, <5>4 DEF Hung
      <4> QED BY <4>1, <4>2, <4>3
    <3> HIDE DEF r
    <3>3. r \in TreesUpTo[n + 1]
      BY <2>3, <3>2, LevelsGrow
    <3>4. \A y \in Titles : Copies[r][y] + (IF y = x THEN 1 ELSE 0) = Copies[s][y]
      <4> SUFFICES ASSUME NEW y \in Titles PROVE Copies[r][y] + (IF y = x THEN 1 ELSE 0) = Copies[s][y]
        OBVIOUS
      <4> QED BY <2>1, <2>2, <2>8, <3>2 DEF Joins
    <3> QED BY <2>3, <3>1, <3>2, <3>3, <3>4 DEF Dropped
  <2> QED BY <2>1, <2>6, <2>7, <2>8
<1>4. Trees \subseteq S
  <2> HIDE DEF S
  <2> QED BY <1>2, <1>3, TreeInduction
<1> QED BY <1>4

-----------------------------------------------------------------------------
(* The specification                                                         *)

\* What is true of both trees whatever was called before.
TreeInv ==
  /\ class \in {"plain", "balanced"} /\ answer \in BOOLEAN /\ removed \in BOOLEAN
  /\ root \in Trees /\ Size[root] <= MaxItems
  /\ Ordered[root]

\* What an insertion returns, whichever the tree.
LEMMA InsertIs ==
  ASSUME TreeInv, NEW x \in Titles, Insert(x)
  PROVE  /\ root' \in Trees /\ Size[root]' <= MaxItems /\ Added(root', root, x)
         /\ class = "balanced" /\ IsBalanced[root] => IsBalanced[root]'
<1>1. MaxItems \in Nat /\ Size[root] \in Nat /\ root \in Trees /\ Size[root] < MaxItems
  BY TitlesAssumption, Counts DEF TreeInv, Insert
<1> DEFINE n == Size[root]
<1>2. root \in TreesUpTo[n] /\ n \in 0 .. MaxItems - 1 /\ n + 1 \in 0 .. MaxItems
  BY <1>1, NoMoreLevels
<1>3. CASE class = "plain"
  <2>1. root' = InsertPlain[root][x]
    BY <1>3 DEF Insert
  <2>2. root' \in TreesUpTo[n + 1] /\ Added(root', root, x)
    <3> HIDE DEF n
    <3> QED BY <1>2, <2>1, InsertPlainAdds
  <2> QED BY <1>1, <1>2, <1>3, <2>2, LevelsAreTrees DEF Added
<1>4. CASE class = "balanced"
  <2>1. root' = InsertBalanced[root][x]
    BY <1>4 DEF Insert
  <2>2. root' \in TreesUpTo[n + 1] /\ Added(root', root, x)
    <3> HIDE DEF n
    <3> QED BY <1>2, <2>1, InsertBalancedAdds DEF Fresh
  <2>3. IsBalanced[root] => IsBalanced[root']
    <3> HIDE DEF n
    <3> QED BY <1>2, <2>1, InsertBalancedGrows DEF Grown
  <2> QED BY <1>1, <1>2, <2>2, <2>3, LevelsAreTrees DEF Added
<1> QED BY <1>3, <1>4 DEF TreeInv

\* What a removal leaves.
LEMMA RemoveIs ==
  ASSUME TreeInv, NEW x \in Titles, Remove(x)
  PROVE  /\ root' \in Trees /\ Size[root]' <= MaxItems
         /\ IF Copies[root][x] > 0 THEN Dropped(root', root, x) /\ answer' = TRUE /\ removed' = TRUE
                                   ELSE root' = root /\ answer' = FALSE /\ removed' = removed
<1>1. /\ MaxItems \in Nat /\ Size[root] \in Nat /\ root \in Trees /\ Size[root] <= MaxItems
      /\ Ordered[root]
  BY TitlesAssumption, Counts DEF TreeInv
<1>2. Search[root][x] <=> Copies[root][x] > 0
  BY <1>1, SearchFinds
<1>3. CASE Copies[root][x] > 0
  <2>1. root' = RemoveFrom[root][x] /\ answer' = TRUE /\ removed' = TRUE
    BY <1>2, <1>3, SearchIs DEF Remove
  <2>2. Dropped(root', root, x)
    BY <1>1, <1>3, <2>1, RemoveDrops
  <2>3. root' \in Trees /\ Size[root'] \in Nat
    BY <1>1, <2>2, LevelsAreTrees, Counts DEF Dropped
  <2> QED BY <1>1, <1>3, <2>1, <2>2, <2>3 DEF Dropped
<1>4. CASE ~(Copies[root][x] > 0)
  BY <1>1, <1>2, <1>4 DEF Remove, TreeInv
<1> QED BY <1>3, <1>4

\* Both trees stay trees of at most MaxItems nodes in search order.
THEOREM SearchOrder == Spec => []TreeInv
<1>1. Init => TreeInv
  <2>1. MaxItems \in Nat /\ Null \in Trees /\ Size[Null] = 0 /\ Ordered[Null]
    BY Parts, SizeIs, OrderedIs, TitlesAssumption
  <2>2. Size[Null] <= MaxItems
    BY <2>1
  <2> QED BY <2>1, <2>2 DEF Init, TreeInv
<1>2. ASSUME TreeInv, [Next]_vars
      PROVE  TreeInv'
  <2>1. ASSUME NEW x \in Titles, Insert(x) PROVE TreeInv'
    <3>1. Ordered[root]'
      BY <1>2, <2>1, InsertIs DEF Added, TreeInv
    <3> QED BY <1>2, <2>1, <3>1, InsertIs DEF TreeInv, Insert
  <2>2. ASSUME NEW x \in Titles, Remove(x) PROVE TreeInv'
    <3>1. Ordered[root]'
      BY <1>2, <2>2, RemoveIs DEF Dropped, TreeInv
    <3>2. answer' \in BOOLEAN /\ removed' \in BOOLEAN
      BY <1>2, <2>2, RemoveIs DEF TreeInv
    <3> QED BY <1>2, <2>2, <3>1, <3>2, RemoveIs DEF TreeInv, Remove
  <2>3. ASSUME NEW x \in Titles, Find(x) PROVE TreeInv'
    <3>1. answer' \in BOOLEAN
      <4>1. root \in Trees /\ answer' = Search[root][x]
        BY <1>2, <2>3 DEF TreeInv, Find
      <4> QED BY <4>1, SearchIs
    <3> QED BY <1>2, <2>3, <3>1 DEF TreeInv, Find
  <2>4. ASSUME UNCHANGED vars PROVE TreeInv'
    BY <1>2, <2>4 DEF TreeInv, vars
  <2> QED BY <1>2, <2>1, <2>2, <2>3, <2>4 DEF Next
<1> QED BY <1>1, <1>2, PTL DEF Spec

\* Insertions keep the tree that rotates balanced, with true heights in its nodes, until
\* something is removed.
THEOREM InsertionsBalance == Spec => []BalancedUntilRemoval
<1>1. Init => BalancedUntilRemoval
  BY IsBalancedIs DEF Init, BalancedUntilRemoval
<1>2. ASSUME TreeInv, BalancedUntilRemoval, [Next]_vars
      PROVE  BalancedUntilRemoval'
  <2>1. ASSUME NEW x \in Titles, Insert(x) PROVE BalancedUntilRemoval'
    BY <1>2, <2>1, InsertIs DEF BalancedUntilRemoval, Insert
  <2>2. ASSUME NEW x \in Titles, Remove(x) PROVE BalancedUntilRemoval'
    BY <1>2, <2>2, RemoveIs DEF BalancedUntilRemoval, Remove
  <2>3. ASSUME NEW x \in Titles, Find(x) PROVE BalancedUntilRemoval'
    BY <1>2, <2>3 DEF BalancedUntilRemoval, Find
  <2>4. ASSUME UNCHANGED vars PROVE BalancedUntilRemoval'
    BY <1>2, <2>4 DEF BalancedUntilRemoval, vars
  <2> QED BY <1>2, <2>1, <2>2, <2>3, <2>4 DEF Next
<1> QED BY <1>1, <1>2, SearchOrder, PTL DEF Spec

-----------------------------------------------------------------------------
(* Refinement                                                                *)

\* A function of which one value changed.
LEMMA Changed ==
  ASSUME NEW S, NEW c, NEW d, NEW x \in S, NEW v,
         c = [y \in S |-> c[y]], d = [y \in S |-> d[y]],
         \A y \in S : d[y] = IF y = x THEN v ELSE c[y]
  PROVE  d = [c EXCEPT ![x] = v]
OBVIOUS

\* Both trees are bags of titles, whatever was inserted, rotated and removed before: a
\* title inserted again is a further copy, not a duplicate that is ignored.
THEOREM TreesAreCatalogs == Spec => ImplementsCatalog
<1>0. \A t \in Trees : /\ Copies[t] = [y \in Titles |-> Copies[t][y]]
                       /\ \A y \in Titles : Copies[t][y] \in Nat
  BY CopiesAre, Counts
<1>1. Init => Bag!Init
  <2>1. Copies[Null] = [y \in Titles |-> 0]
    BY <1>0, CopiesIs, Parts
  <2> QED BY <2>1 DEF Init, Bag!Init
<1>2. ASSUME TreeInv, [Next]_vars
      PROVE  [Bag!Next]_(Bag!vars)
  <2>0. root \in Trees /\ Ordered[root]
    BY <1>2 DEF TreeInv
  <2>1. ASSUME NEW x \in Titles, Insert(x) PROVE Bag!Next
    <3>1. root' \in Trees /\ Added(root', root, x) /\ answer' = TRUE
      BY <1>2, <2>1, InsertIs DEF Insert
    <3>2. Copies[root'] = [Copies[root] EXCEPT ![x] = @ + 1]
      <4>1. \A y \in Titles : Copies[root'][y] = IF y = x THEN Copies[root][x] + 1 ELSE Copies[root][y]
        <5>1. \A y \in Titles : Copies[root][y] \in Nat
          BY <1>0, <2>0
        <5> QED BY <3>1, <5>1 DEF Added
      <4>2. /\ Copies[root] = [y \in Titles |-> Copies[root][y]]
            /\ Copies[root'] = [y \in Titles |-> Copies[root'][y]]
        BY <1>0, <2>0, <3>1
      <4> QED BY <4>1, <4>2, Changed
    <3> QED BY <3>1, <3>2 DEF Bag!Next, Bag!Insert
  <2>2. ASSUME NEW x \in Titles, Remove(x) PROVE Bag!Next
    <3>1. /\ root' \in Trees
          /\ IF Copies[root][x] > 0 THEN Dropped(root', root, x) /\ answer' = TRUE
                                    ELSE root' = root /\ answer' = FALSE
      BY <1>2, <2>2, RemoveIs
    <3>2. CASE Copies[root][x] > 0
      <4>1. Copies[root'] = [Copies[root] EXCEPT ![x] = @ - 1]
        <5>1. \A y \in Titles : Copies[root'][y] = IF y = x THEN Copies[root][x] - 1 ELSE Copies[root][y]
          <6>1. \A y \in Titles : Copies[root][y] \in Nat /\ Copies[root'][y] \in Nat
            BY <1>0, <2>0, <3>1
          <6> QED BY <3>1, <3>2, <6>1 DEF Dropped
        <5>2. /\ Copies[root] = [y \in Titles |-> Copies[root][y]]
              /\ Copies[root'] = [y \in Titles |-> Copies[root'][y]]
          BY <1>0, <2>0, <3>1
        <5> QED BY <5>1, <5>2, Changed
      <4> QED BY <3>1, <3>2, <4>1 DEF Bag!Next, Bag!Remove
    <3>3. CASE ~(Copies[root][x] > 0)
      <4>1. root' = root /\ answer' = FALSE
        BY <3>1, <3>3
      <4>2. (Copies[root][x] > 0) = FALSE
        <5>1. Copies[root][x] \in Nat
          BY <1>0, <2>0
        <5> QED BY <3>3, <5>1
      <4>3. answer' = (Copies[root][x] > 0)
        BY <4>1, <4>2
      <4>4. Copies[root]' = IF Copies[root][x] > 0 THEN [Copies[root] EXCEPT ![x] = @ - 1] ELSE Copies[root]
        BY <3>3, <4>1
      <4> QED BY <4>3, <4>4 DEF Bag!Next, Bag!Remove
    <3> QED BY <3>2, <3>3
  <2>3. ASSUME NEW x \in Titles, Find(x) PROVE Bag!Next
    <3>1. answer' = Search[root][x] /\ Search[root][x] \in BOOLEAN /\ root' = root
      BY <2>0, <2>3, SearchIs DEF Find
    <3>2. Search[root][x] <=> Copies[root][x] > 0
      BY <2>0, SearchFinds
    <3>3. answer' = (Copies[root][x] > 0)
      BY <3>1, <3>2
    <3> QED BY <3>1, <3>3 DEF Bag!Next, Bag!Find
  <2>4. ASSUME UNCHANGED vars PROVE UNCHANGED Bag!vars
    BY <2>4 DEF vars, Bag!vars
  <2> QED BY <1>2, <2>1, <2>2, <2>3, <2>4 DEF Next
<1> QED BY <1>1, <1>2, SearchOrder, PTL DEF Spec, ImplementsCatalog, Bag!Spec
=============================================================================
