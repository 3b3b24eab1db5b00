---------------------------- MODULE SearchTrees -----------------------------
(***************************************************************************)
(* The two search trees of the course on data structures: the plain one of *)
(* "CIS313/Assignment2/BST.java", and the one of "CIS313/Assignment3/      *)
(* BST.java" that rotates when a title is inserted and does not when one   *)
(* is removed.  One step is one call of insert, remove or find.            *)
(***************************************************************************)
EXTENDS Integers

CONSTANTS
  Titles,   \* titles, as numbers in the order of compareTo
  MaxItems  \* no more titles are inserted into a tree of this size

ASSUME TitlesAssumption == Titles \subseteq Int /\ MaxItems \in Nat

VARIABLES
  class,    \* which of the two trees this is: "plain" or "balanced"
  root,     \* the tree
  answer,   \* what the last call returned
  removed   \* (history) has anything been removed?

vars == <<class, root, answer, removed>>

\* Nodes are records; the null reference has the height the code gives it, and no
\* other field.
Null == [height |-> -1]
Node(left, x, h, right) == [left |-> left, data |-> x, height |-> h, right |-> right]
Leaf(x) == Node(Null, x, 0, Null)

\* The trees of at most n levels, whatever heights they store.
Nodes(S) == [left : S, data : Titles, height : Nat, right : S]
TreesUpTo[n \in 0 .. MaxItems] ==
  {Null} \cup IF n = 0 THEN {} ELSE Nodes(TreesUpTo[n - 1])

\* No tree of MaxItems nodes has more levels.
Trees == TreesUpTo[MaxItems]

Size[t \in Trees] == IF t = Null THEN 0 ELSE Size[t.left] + 1 + Size[t.right]

Larger(m, n) == IF m > n THEN m ELSE n

\* The assignment to height at the end of each operation on a node.
Measured(t) == [t EXCEPT !.height = Larger(t.left.height, t.right.height) + 1]

-----------------------------------------------------------------------------
(* Rotations                                                                 *)

\* Fault: the subtree between the two nodes is dropped.
DropMiddle(b) ==
  Measured([b.left EXCEPT !.right = Measured([b EXCEPT !.left = Null])])
RotateLeft(b) ==
  Measured([b.left EXCEPT !.right = Measured([b EXCEPT !.left = b.left.right])])
RotateRight(a) ==
  Measured([a.right EXCEPT !.left = Measured([a EXCEPT !.right = a.right.left])])

\* Fault: the second of the two rotations only.
SingleRotateLeft(c) == RotateLeft(c)
DoubleRotateLeft(c)  == RotateLeft([c EXCEPT !.left = RotateRight(c.left)])
DoubleRotateRight(a) == RotateRight([a EXCEPT !.right = RotateLeft(a.right)])

-----------------------------------------------------------------------------
(* insert, remove, find                                                      *)

\* What insert does with a node when it comes back from its left, or right, subtree.
RebalanceLeft(n, x) ==
  Measured(CASE n.left.height - n.right.height # 2 -> n
             [] n.left.height - n.right.height = 2 /\ x <= n.left.data -> RotateLeft(n)
             [] OTHER -> DoubleRotateLeft(n))
RebalanceRight(n, x) ==
  Measured(CASE n.right.height - n.left.height # 2 -> n
             [] n.right.height - n.left.height = 2 /\ x > n.right.data -> RotateRight(n)
             [] OTHER -> DoubleRotateRight(n))

InsertBalanced[t \in Trees] == [x \in Titles |->
  CASE t = Null -> Leaf(x)
    [] t # Null /\ x <= t.data -> RebalanceLeft([t EXCEPT !.left = InsertBalanced[t.left][x]], x)
    [] OTHER -> RebalanceRight([t EXCEPT !.right = InsertBalanced[t.right][x]], x)]

InsertPlain[t \in Trees] == [x \in Titles |->
  CASE t = Null -> Leaf(x)
    [] t # Null /\ x <= t.data -> [t EXCEPT !.left = InsertPlain[t.left][x]]
    [] OTHER -> [t EXCEPT !.right = InsertPlain[t.right][x]]]

\* The loop that goes to the leftmost node of a tree, and hangs another below it.
HangLeft[t \in Trees \ {Null}] == [below \in Trees |->
  IF t.left = Null THEN [t EXCEPT !.left = below]
                   ELSE [t EXCEPT !.left = HangLeft[t.left][below]]]

\* The tree without its topmost node.
Unlinked(t) == CASE t.left = Null  -> t.right
                 [] t.left # Null /\ t.right = Null -> t.left
                 [] OTHER -> HangLeft[t.right][t.left]

\* (Remove calls it for what find has found: the null case is never reached.)
RemoveFrom[t \in Trees] == [x \in Titles |->
  IF t = Null THEN Null
  ELSE CASE x < t.data -> [t EXCEPT !.left = RemoveFrom[t.left][x]]
         [] x > t.data -> [t EXCEPT !.right = RemoveFrom[t.right][x]]
         [] OTHER -> Unlinked(t)]

Search[t \in Trees] == [x \in Titles |->
  /\ t # Null
  /\ \/ x = t.data
     \/ x < t.data /\ Search[t.left][x]
     \/ x > t.data /\ Search[t.right][x]]

-----------------------------------------------------------------------------
\* How often y is in tree t.
Copies[t \in Trees] == [y \in Titles |->
  IF t = Null THEN 0
              ELSE Copies[t.left][y] + (IF y = t.data THEN 1 ELSE 0) + Copies[t.right][y]]

Init ==
  /\ class \in {"plain", "balanced"}
  /\ root = Null
  /\ answer = TRUE
  /\ removed = FALSE

Insert(x) ==
  /\ Size[root] < MaxItems
  /\ root' = IF class = "plain" THEN InsertPlain[root][x] ELSE InsertBalanced[root][x]
  /\ answer' = TRUE
  /\ UNCHANGED <<class, removed>>

Remove(x) ==
  /\ answer' = Search[root][x]
  /\ root' = IF Search[root][x] THEN RemoveFrom[root][x] ELSE root
  /\ removed' = (removed \/ Search[root][x])
  /\ UNCHANGED class

Find(x) ==
  /\ answer' = Search[root][x]
  /\ UNCHANGED <<class, root, removed>>

Next == \E x \in Titles : Insert(x) \/ Remove(x) \/ Find(x)

Spec == Init /\ [][Next]_vars

-----------------------------------------------------------------------------
\* Both trees are catalogs: whatever was inserted, rotated and removed before, equal
\* titles included, a call answers as it would for a bag of titles and changes the
\* contents as it would the bag.  (Not for a set: a title inserted again is kept again.)
Bag == INSTANCE Catalog WITH copies <- Copies[root]
ImplementsCatalog == Bag!Spec

\* The height below a node, counted.
Depth[t \in Trees] == IF t = Null THEN -1 ELSE 1 + Larger(Depth[t.left], Depth[t.right])

IsBalanced[t \in Trees] ==
  \/ t = Null
  \/ /\ Depth[t.left] - Depth[t.right] \in {-1, 0, 1}
     /\ t.height = Depth[t]
     /\ IsBalanced[t.left] /\ IsBalanced[t.right]

\* Insertions alone keep the balanced tree balanced, and the heights its nodes store
\* the true ones.
BalancedUntilRemoval == class = "balanced" /\ ~removed => IsBalanced[root]
=============================================================================
