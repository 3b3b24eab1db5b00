------------------------------ MODULE MCRelay -------------------------------
(***************************************************************************)
(* Instances of DuckRelay for TLC, cut off after MaxAccepted says.         *)
(***************************************************************************)
EXTENDS DuckRelay, MCDuckServer

CONSTANT MaxAccepted  \* how many says a server accepts

MCHistoryNext ==
  /\ MCNext
  /\ RecordAccepted
  /\ \A s \in Servers : Len(accepted'[s]) <= MaxAccepted

MCHistorySpec == HistoryInit /\ [][MCHistoryNext]_historyVars
=============================================================================
