------------------------------ MODULE DuckRelay -----------------------------
(***************************************************************************)
(* What DuckServer promises about the says that servers relay to each      *)
(* other: a history of the says each server accepted, in order, and the    *)
(* steps in which identifiers do what they are for.                        *)
(***************************************************************************)
EXTENDS DuckServer

VARIABLE accepted  \* accepted[s]: the uids of the says s has handed to its clients

historyVars == <<vars, accepted>>

HistoryInit == Init /\ accepted = [s \in Servers |-> <<>>]

\* A running server accepts a say exactly when uids changes: its last element is the
\* new uid.  The history goes with the process.
RecordAccepted ==
  accepted' = [s \in Servers |->
    IF ~up'[s] THEN <<>>
    ELSE IF uids'[s] # uids[s] THEN Append(accepted[s], uids'[s][Len(uids'[s])])
    ELSE accepted[s]]

HistoryNext == Next /\ RecordAccepted
HistorySpec == HistoryInit /\ [][HistoryNext]_historyVars

\* A server hands a say on twice only when at least UidLimit - 1 others came in
\* between: the window of handle_say_S2S keeps out the copies that UDP makes.
RepeatsAreFarApart ==
  \A s \in Servers : \A i, j \in DOMAIN accepted[s] :
    i < j /\ accepted[s][i] = accepted[s][j] => j - i >= UidLimit

-----------------------------------------------------------------------------
\* The steps in which no datagram is copied and every say has an identifier of its
\* own: generating_unique_id returns 0 once the descriptors run out.
NextOnce ==
  \/ /\ \E c \in Clients : Request(Home[c], c)
     /\ \A m \in DOMAIN net' : m.type = "S2S_S" => m.uid # 0
  \/ \E m \in InFlight : Delivery(m) \/ Drop(m) \/ Lose(m)
  \/ \E s \in Servers : Timer(s) \/ Kill(s) \/ Start(s)

SpecOnce == Init /\ [][NextOnce]_vars
=============================================================================
