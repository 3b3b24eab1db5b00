---------------------------- MODULE MCDuckServer ----------------------------
(***************************************************************************)
(* Small instances of DuckServer for TLC.  The bounds MaxNet, MaxUid and   *)
(* the set of allowed events only cut behaviours off.                      *)
(***************************************************************************)
EXTENDS DuckRoom, BagsExt, TLC

CONSTANTS
  MaxNet,    \* client requests and timers wait while this many datagrams fly
  MaxUid,    \* how many says are relayed
  World      \* the events outside the handlers that happen in this instance

-----------------------------------------------------------------------------
(* Topologies and clients.  Servers and clients share one host; server ports *)
(* are those of start_servers.sh.                                            *)

CONSTANTS s1, s2, s3, c1, c2, c3, ann, amy, bob, red

OneHost  == [a \in Addresses |-> "localhost"]
Numbered == s1 :> 4000 @@ s2 :> 4001 @@ s3 :> 4002 @@ c1 :> 50001 @@ c2 :> 50002 @@ c3 :> 50003
SomePorts == [a \in Addresses |-> Numbered[a]]

Alone    == [s \in Servers |-> <<>>]
Pair     == s1 :> <<s2>> @@ s2 :> <<s1>>
Line     == s1 :> <<s2>> @@ s2 :> <<s1, s3>> @@ s3 :> <<s2>>

SameHome  == [c \in Clients |-> s1]
TwoHomes  == c1 :> s1 @@ c2 :> s2
TwoAndOne == c1 :> s1 @@ c2 :> s1 @@ c3 :> s2

TwoNames  == c1 :> {ann, amy} @@ c2 :> {bob}
OwnName   == c1 :> {ann} @@ c2 :> {bob}
ThreeUsers == c1 :> {ann} @@ c2 :> {bob} @@ c3 :> {ann}
OneClient == c1 :> {ann}

-----------------------------------------------------------------------------
MCNext ==
  \/ /\ BagCardinality(net) < MaxNet
     /\ \E c \in Clients : Request(Home[c], c)
     /\ lastUid' <= MaxUid
  \/ \E m \in InFlight : Delivery(m) \/ Drop(m)
  \/ "timer" \in World /\ BagCardinality(net) < MaxNet /\ \E s \in Servers : Timer(s)
  \/ "duplicate" \in World /\ BagCardinality(net) < MaxNet /\ \E m \in InFlight : Duplicate(m)
  \/ "lose" \in World /\ \E m \in InFlight : Lose(m)
  \/ "kill" \in World /\ \E s \in Servers : Kill(s)
  \/ "start" \in World /\ \E s \in Servers : Start(s)

MCSpec == Init /\ [][MCNext]_vars

=============================================================================
