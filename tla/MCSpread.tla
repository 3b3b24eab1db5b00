------------------------------ MODULE MCSpread ------------------------------
(***************************************************************************)
(* What must happen: the flood of a join reaches every server, and the     *)
(* renewals make up for datagrams that are lost.                           *)
(***************************************************************************)
EXTENDS MCDuckServer

\* A running server reads its socket: each datagram that stays there is handled.
Handled(s, n, ch) == JoinS2S(S2SJoin(s, n, ch))

SpreadSpec ==
  MCSpec /\ \A s, n \in Servers, ch \in Channels : WF_vars(Handled(s, n, ch))

\* In a network that loses nothing, once a client is in a channel every server
\* comes to link it, however far it is.
JoinReachesEveryone ==
  \A c \in Clients, ch \in Channels :
    c \in InRoom(Home[c], ch) ~> \A s \in Servers : Linked(s, ch)

\* The timer of a running server keeps expiring (strong fairness, since MaxNet
\* holds it back at times), and a datagram that is sent again and again gets
\* through once in a while.
RenewSpec ==
  /\ MCSpec
  /\ \A s \in Servers : SF_vars(Timeout(s) /\ BagCardinality(net) < MaxNet)
  /\ \A s, n \in Servers, ch \in Channels : SF_vars(Handled(s, n, ch))

\* A link that is not taken up at the other end, since the join was lost, is
\* taken up in the end, as long as both servers live.
RenewalsHeal ==
  \A s, n \in Servers, ch \in Channels :
    n \in OtherLinks(s, ch, s) ~> Linked(n, ch) \/ ~up[s] \/ ~up[n]
=============================================================================
