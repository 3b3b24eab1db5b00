------------------------------ MODULE DuckChat ------------------------------
(***************************************************************************)
(* The clients of DuckClient and the servers of DuckServer.  A client's    *)
(* requests reach its server in the order they were sent, or not at all;   *)
(* the server answers each in one iteration of its loop.                   *)
(***************************************************************************)
EXTENDS DuckServer

CONSTANTS
  NoChannel,  \* the empty active_channel
  Unsent      \* the request types for which a client's sendto may fail

ASSUME NoChannelAssumption == NoChannel \notin Channels

VARIABLES cont, typing, active_channel, subscribed_channels, server, requests, texts, shown

INSTANCE DuckClient

client   == <<cont, typing, active_channel, subscribed_channels, server>>
wire     == <<requests, texts, shown>>
chatVars == <<vars, client, wire>>

\* The branch of handle_socket_input a request ends up in.
Handle(s, c, r) ==
  \/ r.type = "login" /\ Login(s, c, r.user)
  \/ r.type = "logout" /\ Logout(s, c)
  \/ r.type = "join" /\ Join(s, c, r.channel)
  \/ r.type = "leave" /\ Leave(s, c, r.channel)
  \/ r.type = "say" /\ Say(s, c, r.channel, r.text)
  \/ r.type = "list" /\ List(s, c)
  \/ r.type = "who" /\ Who(s, c, r.channel)

\* What the step of server s sends to clients goes into their sockets; an address
\* without a process gets nothing.
Deliver(s) ==
  /\ texts' = [c \in Clients |->
       IF cont[c]
       THEN texts[c] \o SetToSeq({ [from |-> s, text |-> t] : t \in { x \in out' : x.to = c } })
       ELSE texts[c]]
  /\ shown' = {}

PopRequest(c) == requests' = [requests EXCEPT ![c] = Tail(@)]

ServeRequest(c) ==
  /\ requests[c] # <<>>
  /\ Handle(Head(requests[c]).to, c, Head(requests[c]))
  /\ PopRequest(c)
  /\ Deliver(Head(requests[c]).to)
  /\ UNCHANGED client

LoseRequest(c) ==
  /\ requests[c] # <<>>
  /\ PopRequest(c)
  /\ shown' = {}
  /\ UNCHANGED <<vars, client, texts>>

\* A request for a server that is not running.
DropRequest(c) == requests[c] # <<>> /\ ~up[Head(requests[c]).to] /\ LoseRequest(c)

\* The steps of the servers that no client asked for.
ReceiveDatagram(m) ==
  /\ Delivery(m) \/ Drop(m)
  /\ Deliver(m.to)
  /\ UNCHANGED <<client, requests>>

ServerTimer(s) ==
  /\ Timer(s)
  /\ Deliver(s)
  /\ UNCHANGED <<client, requests>>

ServerFault(s) ==
  /\ Kill(s) \/ Start(s)
  /\ shown' = {}
  /\ UNCHANGED <<client, requests, texts>>

ChatInit == Init /\ ClientInit

ChatReliable ==
  \/ \E c \in Clients : ClientStep(c) /\ UNCHANGED vars
  \/ \E c \in Clients : ServeRequest(c)
  \/ \E m \in InFlight : ReceiveDatagram(m)
  \/ \E s \in Servers : ServerTimer(s)

ChatNext ==
  \/ ChatReliable
  \/ \E c \in Clients : LoseRequest(c)
  \/ \E s \in Servers : ServerFault(s)

ChatSpec == ChatInit /\ [][ChatNext]_chatVars

-----------------------------------------------------------------------------
\* The channels client c is a member of at server s, under its present name.
MemberOf(s, c) ==
  { ch \in DOMAIN channels[s] : LoggedIn(s, c) /\ rev_usernames[s][c] \in DOMAIN channels[s][ch] }

\* Who says something sees it: the server sends the say to its speaker too, and the
\* client prints it, unless the client exits first or its user begins a line and never
\* ends it.  Lines that are begun while the text waits, and ended at any time, only
\* delay it.
SaysAreShown ==
  \A c \in Clients : \A ch \in Channels :
    (\E i \in DOMAIN requests[c] : requests[c][i].type = "say" /\ requests[c][i].channel = ch)
      ~> \/ ~cont[c] \/ []typing[c]
         \/ \E t \in shown : t.type = "say" /\ t.to = c /\ t.channel = ch /\ t.user \in NamesOf[c]

\* A line said on one server is seen on the other: when a server is about to relay
\* a say along a link that no leave is about to cut, each member of the channel at
\* the other end sees it printed, unless the member leaves or exits first or never
\* ends a line it has begun, or the server runs out of descriptors for identifiers.
SaysAreRelayed ==
  \A c, d \in Clients : \A ch \in Channels :
    LET s == Home[c]
        n == Home[d] IN
    s # n =>
      (/\ requests[c] # <<>>
       /\ Head(requests[c]).type = "say" /\ Head(requests[c]).channel = ch
       /\ LoggedIn(s, c) /\ fds[s] < FdLimit
       /\ Linked(s, ch) /\ n \in linkingCtoS[s][ch]
       /\ S2SLeave(n, s, ch) \notin InFlight
       /\ ch \in MemberOf(n, d))
      ~> (\/ ch \notin MemberOf(n, d) \/ ~cont[d] \/ []typing[d]
          \/ \E t \in shown : t.type = "say" /\ t.to = d /\ t.channel = ch /\ t.user \in NamesOf[c])
=============================================================================
