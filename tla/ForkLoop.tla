------------------------------ MODULE ForkLoop ------------------------------
(***************************************************************************)
(* Processes of a program that forks one child in each round of a loop,    *)
(* and some of whose children fall through into the next round and fork    *)
(* in their turn.  A process is named by the rounds that led to it: {} is  *)
(* the first one, and p \cup {k} the child that p forks in round k.        *)
(***************************************************************************)
EXTENDS Naturals

CONSTANT Rounds  \* the number of rounds

ASSUME RoundsAssumption == Rounds \in Nat

Slots     == 1..Rounds
Processes == SUBSET Slots
First     == {}

Child(p, k) == p \cup {k}
=============================================================================
