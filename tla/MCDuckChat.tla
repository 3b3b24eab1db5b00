----------------------------- MODULE MCDuckChat -----------------------------
(***************************************************************************)
(* Small instances of DuckChat.                                            *)
(***************************************************************************)
EXTENDS DuckChat, TLC

CONSTANTS
  MaxRequests,  \* a line of c has an effect only while fewer than MaxRequests[c] requests are queued
  MaxTexts,     \* and fewer texts than this wait in every client's socket
  MaxNet,       \* and fewer datagrams than this are on their way between servers
  World,        \* the faults and server steps of this instance
  Pausing,      \* the clients whose users may pause in the middle of a line
  s1, s2, c1, c2, ann, bob, red

OneHost   == [a \in Addresses |-> "localhost"]
Numbered  == s1 :> 4000 @@ s2 :> 4001 @@ c1 :> 50001 @@ c2 :> 50002
SomePorts == [a \in Addresses |-> Numbered[a]]
Alone     == [s \in Servers |-> <<>>]
Pair      == s1 :> <<s2>> @@ s2 :> <<s1>>
SameHome  == [c \in Clients |-> s1]
TwoHomes  == c1 :> s1 @@ c2 :> s2
OwnName   == c1 :> {ann} @@ c2 :> {bob}

Shallow     == [c \in Clients |-> 1]
OneIsDeeper == c1 :> 2 @@ c2 :> 1

MayType(c) ==
  /\ Len(requests[c]) < MaxRequests[c]
  /\ \A d \in Clients : Len(texts[d]) < MaxTexts
  /\ BagCardinality(net) < MaxNet

Client(c) ==
  /\ \/ MayType(c) /\ \E u \in NamesOf[c] : Launch(c, u)
     \/ MayType(c) /\ HandleUserInput(c)
     \/ c \in Pausing /\ (BeginLine(c) \/ IgnoredLine(c))
     \/ HandleServerInput(c)
  /\ UNCHANGED vars

MCReliable ==
  \/ \E c \in Clients : Client(c)
  \/ \E c \in Clients : ServeRequest(c)
  \/ \E m \in InFlight : ReceiveDatagram(m)

MCChatSpec == ChatInit /\ [][MCReliable]_chatVars

\* A server's loop handles every request and every datagram that waits: it selects on one
\* socket, and never skips it.  A client's loop may wait for the end of a line, for ever if
\* its user does not type it, but whenever it comes back to select and finds a text there,
\* it reads one in the same iteration, after the next line if one has begun.  So it gets to
\* recvfrom again and again as long as lines end again and again: strong fairness.
MCFairChatSpec ==
  /\ MCChatSpec
  /\ \A c \in Clients :
       /\ WF_chatVars(ServeRequest(c))
       /\ SF_chatVars(HandleServerInput(c) /\ UNCHANGED vars)
  /\ \A s \in Servers :
       WF_chatVars(\E m \in InFlight : m.to = s /\ m.type = "S2S_S" /\ ReceiveDatagram(m))
=============================================================================
