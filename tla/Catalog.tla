------------------------------ MODULE Catalog -------------------------------
(***************************************************************************)
(* A bag of titles: what the search trees of SearchTrees are, seen from    *)
(* outside.  That a title inserted twice is kept twice is what insert      *)
(* does, since it takes equal titles for smaller ones; the comment of the  *)
(* branch it never reaches ("BST.java" of Assignment3, line 44) says that  *)
(* a duplicate is ignored.                                                 *)
(***************************************************************************)
EXTENDS Naturals

CONSTANT Titles

VARIABLES
  copies,  \* how often each title is in the catalog
  answer   \* what the last call returned (TRUE for a call that returns nothing)

vars == <<copies, answer>>

Init == copies = [x \in Titles |-> 0] /\ answer = TRUE

Insert(x) == copies' = [copies EXCEPT ![x] = @ + 1] /\ answer' = TRUE

\* One copy goes, if there is one.
Remove(x) ==
  /\ answer' = (copies[x] > 0)
  /\ copies' = IF copies[x] > 0 THEN [copies EXCEPT ![x] = @ - 1] ELSE copies

Find(x) == answer' = (copies[x] > 0) /\ UNCHANGED copies

Next == \E x \in Titles : Insert(x) \/ Remove(x) \/ Find(x)

Spec == Init /\ [][Next]_vars
=============================================================================
