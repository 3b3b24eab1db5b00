----------------------------- MODULE DuckServer -----------------------------
(***************************************************************************)
(* The DuckChat server, "CIS432/Project 2/server.c": any number of server  *)
(* processes that serve clients over UDP and relay joins and says to each  *)
(* other.  One step is one iteration of main's select loop: one datagram   *)
(* handled to the end, or one expiry of the timer.  The rest of the world  *)
(* (lost and duplicated datagrams, processes that die and are started      *)
(* again) has actions of its own.                                          *)
(***************************************************************************)
EXTENDS Integers, Sequences, FiniteSets, Bags, Functions

CONSTANTS
  Servers,      \* the server processes, named by the address each is bound to
  Clients,      \* the client addresses
  Names,        \* user names
  Channels,     \* channel names
  Texts,        \* what users say
  Common,       \* the channel every server creates in main
  Home,         \* Home[c]: the server client c sends its requests to
  NamesOf,      \* NamesOf[c]: the names c logs in under
  Neighbours,   \* Neighbours[s]: the servers on the command line of s, in order
  Ip, Port,     \* the IP address and the UDP port (host order) of an address
  UidLimit,     \* the length uids is kept under, 64 in the code
  FdLimit       \* how many descriptors a server can open besides its socket

Addresses == Servers \cup Clients

\* The processes have different addresses, and no server is given its own
\* address or the same neighbour twice (start_servers.sh never does).
ASSUME AddressAssumption ==
  /\ Servers \cap Clients = {}
  /\ Port \in [Addresses -> 0 .. 65535]
  /\ DOMAIN Ip = Addresses
  /\ \A a, b \in Addresses : Ip[a] = Ip[b] /\ Port[a] = Port[b] => a = b

ASSUME ConfigAssumption ==
  /\ Common \in Channels
  /\ Home \in [Clients -> Servers]
  /\ NamesOf \in [Clients -> SUBSET Names]
  /\ Neighbours \in [Servers -> Seq(Servers)]
  /\ \A s \in Servers : IsInjective(Neighbours[s]) /\ s \notin Range(Neighbours[s])

ASSUME LimitAssumption == UidLimit \in Nat \ {0, 1} /\ FdLimit \in Nat

VARIABLES
  \* the globals of each server
  usernames,         \* user name -> address it logged in from
  active_usernames,  \* the names flagged 1 (no code flags a name 0)
  rev_usernames,     \* address -> user name
  channels,          \* channel -> (member name -> address)
  linkingCtoS,       \* channel -> the servers its says are sent to
  serverAddrs,       \* the neighbours joins are sent to
  hardstateAddrs,    \* the servers an S2S join was ever received from
  uids,              \* the identifiers of the last says received, oldest first
  hardstate,         \* timer expiries since the last sweep
  fds,               \* descriptors opened by generating_unique_id, never closed
  \* the world around them
  up,                \* is the server process running?
  lastUid,           \* the last identifier read from /dev/urandom
  net,               \* the S2S datagrams in flight, a bag
  out                \* the texts the last step sent to clients

users     == <<usernames, active_usernames, rev_usernames>>
rooms     == <<users, channels>>
routing   == <<linkingCtoS, serverAddrs, hardstateAddrs, hardstate>>
relay     == <<uids, fds, lastUid>>
vars      == <<rooms, routing, relay, up, net, out>>

-----------------------------------------------------------------------------
(* std::map, as a function on the keys it holds                              *)

Map(K, V) == UNION { [D -> V] : D \in SUBSET K }
EmptyMap  == [k \in {} |-> k]
Put(m, k, v) == [x \in DOMAIN m \cup {k} |-> IF x = k THEN v ELSE m[x]]
Erase(m, k)  == Restrict(m, DOMAIN m \ {k})

-----------------------------------------------------------------------------
(* Datagrams between servers                                                 *)

S2SJoin(s, n, ch)  == [type |-> "S2S_J",   from |-> s, to |-> n, channel |-> ch]
S2SLeave(s, n, ch) == [type |-> "S2S_lev", from |-> s, to |-> n, channel |-> ch]
S2SSay(s, n, ch, u, t, id) ==
  [type |-> "S2S_S", from |-> s, to |-> n, channel |-> ch,
   user |-> u, text |-> t, uid |-> id]

\* What handle_say_S2S sends on: the bytes from the variable s_s, a pointer into
\* the stack, instead of the request it points to.  Their first word, taken as a
\* request type, is a stack address: outside 0..10.
Garbage(s, n) == [type |-> "garbage", from |-> s, to |-> n]

JoinDatagrams   == [type : {"S2S_J"},   from : Servers, to : Servers, channel : Channels]
LeaveDatagrams  == [type : {"S2S_lev"}, from : Servers, to : Servers, channel : Channels]
SayDatagrams    == [type : {"S2S_S"},   from : Servers, to : Servers, channel : Channels,
                    user : Names, text : Texts, uid : Nat]
GarbageDatagrams == [type : {"garbage"}, from : Servers, to : Servers]
Datagrams == JoinDatagrams \cup LeaveDatagrams \cup SayDatagrams \cup GarbageDatagrams

InFlight == DOMAIN net

Transmit(sent)   == net' = net (+) SetToBag(sent)
Answer(m, sent)  == net' = (net (-) SetToBag({m})) (+) SetToBag(sent)

-----------------------------------------------------------------------------
(* Datagrams to clients.  A say is sent once per entry of the channel's map, *)
(* to the address the entry holds.                                           *)

Error(c, why)        == [type |-> "error", to |-> c, why |-> why]
ListReply(c, chs)    == [type |-> "list", to |-> c, channels |-> chs]
WhoReply(c, ch, us)  == [type |-> "who", to |-> c, channel |-> ch, users |-> us]
SayText(member, c, ch, u, t) ==
  [type |-> "say", to |-> c, entry |-> member, channel |-> ch, user |-> u, text |-> t]

SayToOthers(s, ch, u, t) ==  \* fault: the speaker is left out
  { SayText(n, channels[s][ch][n], ch, u, t) : n \in DOMAIN channels[s][ch] \ {u} }
SayToMembers(s, ch, u, t) ==
  { SayText(n, channels[s][ch][n], ch, u, t) : n \in DOMAIN channels[s][ch] }

-----------------------------------------------------------------------------
(* What the code computes                                                    *)

LoggedIn(s, c) == c \in DOMAIN rev_usernames[s]
HasChannel(s, ch) == ch \in DOMAIN channels[s]
Linked(s, ch) == ch \in DOMAIN linkingCtoS[s]

\* sin_port as an int on a little-endian machine: the two bytes swapped.
htons(p) == (p % 256) * 256 + p \div 256
SinPort(a) == htons(Port[a])

\* handle_join_message skips every neighbour when the client looks like this
\* server: the same IP, and a port equal to this_Port, where one of the two is
\* in network order and the other in host order.
TakenForServer(s, c) == Ip[c] = Ip[s] /\ SinPort(c) = Port[s]

\* The neighbours handle_join_S2S does not send to.  The sender is meant, but its
\* port is compared in host order with the neighbour's in network order.
TakenForSender(from, n) == Ip[from] = Ip[n] /\ Port[from] = SinPort(n)
OthersThanSender(s, from) == serverAddrs[s] \ {from}  \* fault: as it is meant
ForwardList(s, from) == { n \in serverAddrs[s] : ~TakenForSender(from, n) }

\* handle_leave_S2S erases the first server of the list that has the sender's
\* port: it copies each entry's IP over the sender's before comparing the two.
Rank(s, n) == CHOOSE i \in DOMAIN Neighbours[s] : Neighbours[s][i] = n
Matches(list, from) == { n \in list : Port[n] = Port[from] }
CutFirst(s, list, from) ==  \* fault: only the hosts are compared
  { n \in list : \E k \in list : Rank(s, k) < Rank(s, n) }
Unlink(s, list, from) ==
  { n \in list : ~ /\ n \in Matches(list, from)
                   /\ \A k \in Matches(list, from) : Rank(s, n) <= Rank(s, k) }

\* uids after pop_front while its size is at least the limit.  Two faults: the
\* loop stops one too late, or one too early.
TrimLate(q) == IF Len(q) <= UidLimit THEN q
                                     ELSE SubSeq(q, Len(q) - UidLimit + 1, Len(q))
TrimEarly(q) == IF Len(q) < UidLimit - 1 THEN q
                                         ELSE SubSeq(q, Len(q) - UidLimit + 3, Len(q))
Trim(q) == IF Len(q) < UidLimit THEN q
                                ELSE SubSeq(q, Len(q) - UidLimit + 2, Len(q))

\* open("/dev/urandom") fails once the descriptors run out, and 0 is returned;
\* otherwise 64 random bits, taken here to be new every time.
UniqueId(s) == IF fds[s] < FdLimit THEN lastUid + 1 ELSE 0
DrawUniqueId(s) ==
  /\ fds' = [fds EXCEPT ![s] = IF @ < FdLimit THEN @ + 1 ELSE @]
  /\ lastUid' = IF fds[s] < FdLimit THEN lastUid + 1 ELSE lastUid

\* The neighbours remove_Addr erases.
Known(s) == serverAddrs[s] \cap hardstateAddrs[s]  \* fault: the test is inverted
Stale(s) == serverAddrs[s] \ hardstateAddrs[s]

-----------------------------------------------------------------------------
(* A process starts with empty globals, the neighbours of its command line   *)
(* and the default channel.  A process that has died keeps these values.     *)

NoMembers      == EmptyMap
DefaultChannel == Put(EmptyMap, Common, NoMembers)

Init ==
  /\ usernames = [s \in Servers |-> EmptyMap]
  /\ active_usernames = [s \in Servers |-> {}]
  /\ rev_usernames = [s \in Servers |-> EmptyMap]
  /\ channels = [s \in Servers |-> DefaultChannel]
  /\ linkingCtoS = [s \in Servers |-> EmptyMap]
  /\ serverAddrs = [s \in Servers |-> Range(Neighbours[s])]
  /\ hardstateAddrs = [s \in Servers |-> {}]
  /\ uids = [s \in Servers |-> <<>>]
  /\ hardstate = [s \in Servers |-> 0]
  /\ fds = [s \in Servers |-> 0]
  /\ up = [s \in Servers |-> TRUE]
  /\ lastUid = 0
  /\ net = EmptyBag
  /\ out = {}

Forget(s) ==
  /\ usernames' = [usernames EXCEPT ![s] = EmptyMap]
  /\ active_usernames' = [active_usernames EXCEPT ![s] = {}]
  /\ rev_usernames' = [rev_usernames EXCEPT ![s] = EmptyMap]
  /\ channels' = [channels EXCEPT ![s] = DefaultChannel]
  /\ linkingCtoS' = [linkingCtoS EXCEPT ![s] = EmptyMap]
  /\ serverAddrs' = [serverAddrs EXCEPT ![s] = Range(Neighbours[s])]
  /\ hardstateAddrs' = [hardstateAddrs EXCEPT ![s] = {}]
  /\ uids' = [uids EXCEPT ![s] = <<>>]
  /\ hardstate' = [hardstate EXCEPT ![s] = 0]
  /\ fds' = [fds EXCEPT ![s] = 0]

Die(s) ==
  /\ up' = [up EXCEPT ![s] = FALSE]
  /\ Forget(s)
  /\ out' = {}
  /\ UNCHANGED <<lastUid, net>>

-----------------------------------------------------------------------------
(* Requests of clients                                                       *)

Login(s, c, u) ==
  /\ up[s]
  /\ usernames' = [usernames EXCEPT ![s] = Put(@, u, c)]
  /\ active_usernames' = [active_usernames EXCEPT ![s] = @ \cup {u}]
  /\ rev_usernames' = [rev_usernames EXCEPT ![s] = Put(@, c, u)]
  /\ out' = {}
  /\ UNCHANGED <<channels, routing, relay, up, net>>

\* The early return every other handler starts with.
Refuse(s, c) ==
  /\ up[s]
  /\ ~LoggedIn(s, c)
  /\ out' = {Error(c, "not logged in")}
  /\ UNCHANGED <<rooms, routing, relay, up, net>>

Serve(s, c) == up[s] /\ LoggedIn(s, c)

SetActive(s, c) ==
  active_usernames' = [active_usernames EXCEPT ![s] = @ \cup {rev_usernames[s][c]}]

\* Two faults: the loop over the channels stops at the first one the user is in, or
\* leaves the default channel out.
RemoveFromOneRoom(s, u) ==
  channels' = [channels EXCEPT ![s] =
    LET in == { ch \in DOMAIN @ : u \in DOMAIN @[ch] } IN
      IF in = {} THEN @ ELSE Put(@, CHOOSE ch \in in : TRUE,
                                 Erase(@[CHOOSE ch \in in : TRUE], u))]
RemoveFromOthers(s, u) ==
  channels' = [channels EXCEPT ![s] =
    [ch \in DOMAIN @ |-> IF ch = Common THEN @[ch] ELSE Erase(@[ch], u)]]
RemoveFromRooms(s, u) ==
  channels' = [channels EXCEPT ![s] = [ch \in DOMAIN @ |-> Erase(@[ch], u)]]

KeepSession(s, c) == UNCHANGED rev_usernames  \* fault: rev_usernames.erase left out
EraseSession(s, c) == rev_usernames' = [rev_usernames EXCEPT ![s] = Erase(@, c)]

\* usernames.erase(usernames.find(username)) is undefined when the name is gone,
\* which happens after a second login under the same name: the server dies of it,
\* or, when no name is left, never leaves the search for the node to unlink.
LogoutCrash(s, c) ==
  /\ Serve(s, c)
  /\ rev_usernames[s][c] \notin DOMAIN usernames[s]
  /\ Die(s)

Logout(s, c) ==
  \/ Refuse(s, c)
  \/ LogoutCrash(s, c)
  \/ /\ Serve(s, c)
     /\ LET u == rev_usernames[s][c] IN
          /\ u \in DOMAIN usernames[s]
          /\ usernames' = [usernames EXCEPT ![s] = Erase(@, u)]
          /\ active_usernames' = [active_usernames EXCEPT ![s] = @ \ {u}]
          /\ RemoveFromRooms(s, u)
     /\ EraseSession(s, c)
     /\ out' = {}
     /\ UNCHANGED <<routing, relay, up, net>>

\* The S2S joins a client's join sends: none for a channel that is linked
\* already.  The channel is not linked here: that is left to the echo.
FloodNewChannel(s, c, ch) ==  \* fault: for a channel that exists already
  IF HasChannel(s, ch) THEN {} ELSE { S2SJoin(s, n, ch) : n \in serverAddrs[s] }
JoinFlood(s, c, ch) ==
  IF Linked(s, ch) \/ TakenForServer(s, c)
  THEN {}
  ELSE { S2SJoin(s, n, ch) : n \in serverAddrs[s] }

StartChannel(s, c, ch) ==  \* fault: an existing channel is replaced
  channels' = [channels EXCEPT ![s] =
    Put(@, ch, Put(NoMembers, rev_usernames[s][c], c))]
AddMember(s, c, ch) ==
  channels' = [channels EXCEPT ![s] =
    Put(@, ch, Put(IF HasChannel(s, ch) THEN @[ch] ELSE NoMembers,
                   rev_usernames[s][c], c))]

Join(s, c, ch) ==
  \/ Refuse(s, c)
  \/ /\ Serve(s, c)
     /\ SetActive(s, c)
     /\ Transmit(JoinFlood(s, c, ch))
     /\ AddMember(s, c, ch)
     /\ out' = {}
     /\ UNCHANGED <<usernames, rev_usernames, routing, relay, up>>

\* What leave and say check before they act, in this order.
Complaint(s, c, ch) ==
  IF ~HasChannel(s, ch) THEN {Error(c, "no such channel")}
  ELSE IF rev_usernames[s][c] \notin DOMAIN channels[s][ch]
  THEN {Error(c, "not in channel")}
  ELSE {}

\* A channel but the default one goes away with its last member.  Two faults: the
\* default channel goes too, or a channel goes with its last but one member.
RemoveAnyChannel(s, u, ch) ==
  LET rest == Erase(channels[s][ch], u) IN
  channels' = [channels EXCEPT ![s] =
    IF DOMAIN rest = {} THEN Erase(@, ch) ELSE Put(@, ch, rest)]
RemoveSmallChannel(s, u, ch) ==
  LET rest == Erase(channels[s][ch], u) IN
  channels' = [channels EXCEPT ![s] =
    IF Cardinality(DOMAIN rest) <= 1 /\ ch # Common THEN Erase(@, ch) ELSE Put(@, ch, rest)]
RemoveMember(s, u, ch) ==
  LET rest == Erase(channels[s][ch], u) IN
  channels' = [channels EXCEPT ![s] =
    IF DOMAIN rest = {} /\ ch # Common THEN Erase(@, ch) ELSE Put(@, ch, rest)]

Leave(s, c, ch) ==
  \/ Refuse(s, c)
  \/ /\ Serve(s, c)
     /\ SetActive(s, c)
     /\ out' = Complaint(s, c, ch)
     /\ IF Complaint(s, c, ch) = {}
        THEN RemoveMember(s, rev_usernames[s][c], ch)
        ELSE UNCHANGED channels
     /\ UNCHANGED <<usernames, rev_usernames, routing, relay, up, net>>

\* The linked servers are sent the say before any check of the channel.
SayToServers(s, u, ch, t) ==
  IF Linked(s, ch)
  THEN /\ DrawUniqueId(s)
       /\ Transmit({ S2SSay(s, n, ch, u, t, UniqueId(s)) : n \in linkingCtoS[s][ch] })
  ELSE UNCHANGED <<fds, lastUid, net>>

Say(s, c, ch, t) ==
  \/ Refuse(s, c)
  \/ /\ Serve(s, c)
     /\ SetActive(s, c)
     /\ SayToServers(s, rev_usernames[s][c], ch, t)
     /\ out' = IF Complaint(s, c, ch) = {}
               THEN SayToMembers(s, ch, rev_usernames[s][c], t)
               ELSE Complaint(s, c, ch)
     /\ UNCHANGED <<usernames, rev_usernames, channels, routing, uids, up>>

List(s, c) ==
  \/ Refuse(s, c)
  \/ /\ Serve(s, c)
     /\ SetActive(s, c)
     /\ out' = {ListReply(c, DOMAIN channels[s])}
     /\ UNCHANGED <<usernames, rev_usernames, channels, routing, relay, up, net>>

Who(s, c, ch) ==
  \/ Refuse(s, c)
  \/ /\ Serve(s, c)
     /\ SetActive(s, c)
     /\ out' = IF HasChannel(s, ch)
               THEN {WhoReply(c, ch, DOMAIN channels[s][ch])}
               ELSE {Error(c, "no such channel")}
     /\ UNCHANGED <<usernames, rev_usernames, channels, routing, relay, up, net>>

\* REQ_KEEP_ALIVE, the one request type in 0..10 without a handler.
UnknownCommand(s, c) ==
  /\ up[s]
  /\ out' = {Error(c, "unknown command")}
  /\ UNCHANGED <<rooms, routing, relay, up, net>>

-----------------------------------------------------------------------------
(* Datagrams of other servers                                                *)

Receive(m, type) == m \in InFlight /\ m.type = type /\ up[m.to]

\* The sender is in the list too, since TakenForSender hardly ever holds: this echo
\* is what makes the server of the client that joined link the channel itself.
Echoless(s, from, ch) == { S2SJoin(s, n, ch) : n \in ForwardList(s, from) \ {from} }  \* fault
ForwardedJoins(s, from, ch) == { S2SJoin(s, n, ch) : n \in ForwardList(s, from) }

JoinS2S(m) ==
  /\ Receive(m, "S2S_J")
  /\ LET s == m.to
         ch == m.channel IN
     /\ hardstateAddrs' = [hardstateAddrs EXCEPT ![s] = @ \cup {m.from}]
     /\ \/ /\ Linked(s, ch)
           /\ Answer(m, {})
           /\ UNCHANGED linkingCtoS
        \/ /\ ~Linked(s, ch)
           /\ Answer(m, ForwardedJoins(s, m.from, ch))
           /\ linkingCtoS' = [linkingCtoS EXCEPT ![s] = Put(@, ch, ForwardList(s, m.from))]
  /\ out' = {}
  /\ UNCHANGED <<rooms, serverAddrs, hardstate, relay, up>>

LeaveS2S(m) ==
  /\ Receive(m, "S2S_lev")
  /\ Answer(m, {})
  /\ LET s == m.to
         ch == m.channel IN
     \/ /\ Linked(s, ch)
        /\ linkingCtoS' = [linkingCtoS EXCEPT
             ![s] = Put(@, ch, Unlink(s, @[ch], m.from))]
     \/ /\ ~Linked(s, ch)
        /\ UNCHANGED linkingCtoS
  /\ out' = {}
  /\ UNCHANGED <<rooms, serverAddrs, hardstateAddrs, hardstate, relay, up>>

\* A server with one link or none for the channel and no user at all has nobody
\* to hand the say to.
OneLinkOrNone(s, ch) ==  \* fault: the users are not counted
  Linked(s, ch) /\ Cardinality(linkingCtoS[s][ch]) <= 1
NobodyInChannel(s, ch) ==  \* fault: the users of the channel are counted
  /\ Linked(s, ch)
  /\ Cardinality(linkingCtoS[s][ch]) <= 1
  /\ HasChannel(s, ch) => DOMAIN channels[s][ch] = {}
NobodyHere(s, ch) ==
  /\ Linked(s, ch)
  /\ Cardinality(linkingCtoS[s][ch]) <= 1
  /\ DOMAIN usernames[s] = {}

Rejects(s, m) == NobodyHere(s, m.channel) \/ m.uid \in Range(uids[s])

OtherLinks(s, ch, from) == IF Linked(s, ch) THEN linkingCtoS[s][ch] \ {from} ELSE {}

SayS2S(m) ==
  /\ Receive(m, "S2S_S")
  /\ LET s == m.to
         ch == m.channel IN
     \/ /\ Rejects(s, m)
        /\ Answer(m, {S2SLeave(s, m.from, ch)})
        /\ out' = {}
        /\ UNCHANGED uids
     \/ /\ ~Rejects(s, m)
        /\ uids' = [uids EXCEPT ![s] = Trim(Append(@, m.uid))]
        /\ out' = IF HasChannel(s, ch) THEN SayToMembers(s, ch, m.user, m.text) ELSE {}
        /\ Answer(m, { Garbage(s, n) : n \in OtherLinks(s, ch, m.from) })
  /\ UNCHANGED <<rooms, routing, fds, lastUid, up>>

\* A request type outside 0..10 is ignored.
BadType(m) ==
  /\ Receive(m, "garbage")
  /\ Answer(m, {})
  /\ out' = {}
  /\ UNCHANGED <<rooms, routing, relay, up>>

-----------------------------------------------------------------------------
(* The timer                                                                 *)

\* The joins that renew the links of every linked channel.
RenewalsWithUsers(s) ==  \* fault: only the channels with a user here are renewed
  UNION { { S2SJoin(s, n, ch) : n \in linkingCtoS[s][ch] } :
            ch \in { x \in DOMAIN linkingCtoS[s] :
                       HasChannel(s, x) /\ DOMAIN channels[s][x] # {} } }
Renewals(s) ==
  UNION { { S2SJoin(s, n, ch) : n \in linkingCtoS[s][ch] } : ch \in DOMAIN linkingCtoS[s] }

Timeout(s) ==
  /\ up[s]
  /\ \/ /\ hardstate[s] = 0
        /\ hardstate' = [hardstate EXCEPT ![s] = 1]
        /\ UNCHANGED serverAddrs
     \/ /\ hardstate[s] = 1
        /\ hardstate' = [hardstate EXCEPT ![s] = 0]
        /\ serverAddrs' = [serverAddrs EXCEPT ![s] = @ \ Stale(s)]
  /\ Transmit(Renewals(s))
  /\ out' = {}
  /\ UNCHANGED <<rooms, linkingCtoS, hardstateAddrs, relay, up>>

\* remove_Addr advances the iterator of the entry it has just erased, which is
\* undefined: the loop goes on, as in Timeout, or the server dies.
SweepCrash(s) ==
  /\ up[s]
  /\ hardstate[s] = 1
  /\ Stale(s) # {}
  /\ Die(s)

-----------------------------------------------------------------------------
(* The world                                                                 *)

Lose(m) ==
  /\ m \in InFlight
  /\ Answer(m, {})
  /\ out' = {}
  /\ UNCHANGED <<rooms, routing, relay, up>>

\* Nobody is bound to the address of a server that is down.
Drop(m) == m \in InFlight /\ ~up[m.to] /\ Lose(m)

Duplicate(m) ==
  /\ m \in InFlight
  /\ Transmit({m})
  /\ out' = {}
  /\ UNCHANGED <<rooms, routing, relay, up>>

Kill(s) == up[s] /\ Die(s)

Start(s) ==
  /\ ~up[s]
  /\ up' = [up EXCEPT ![s] = TRUE]
  /\ out' = {}
  /\ UNCHANGED <<rooms, routing, relay, net>>

-----------------------------------------------------------------------------
Request(s, c) ==
  \/ \E u \in NamesOf[c] : Login(s, c, u)
  \/ Logout(s, c)
  \/ \E ch \in Channels :
       \/ Join(s, c, ch)
       \/ Leave(s, c, ch)
       \/ \E t \in Texts : Say(s, c, ch, t)
       \/ Who(s, c, ch)
  \/ List(s, c)
  \/ UnknownCommand(s, c)

Delivery(m) == JoinS2S(m) \/ LeaveS2S(m) \/ SayS2S(m) \/ BadType(m)

Timer(s) == Timeout(s) \/ SweepCrash(s)

\* Every step but those that lose a datagram a running server would have got, or
\* that start a server again.
NextReliable ==
  \/ \E c \in Clients : Request(Home[c], c)
  \/ \E m \in InFlight : Delivery(m) \/ Drop(m) \/ Duplicate(m)
  \/ \E s \in Servers : Timer(s) \/ Kill(s)

Next ==
  \/ NextReliable
  \/ \E m \in InFlight : Lose(m)
  \/ \E s \in Servers : Start(s)

Spec         == Init /\ [][Next]_vars
SpecReliable == Init /\ [][NextReliable]_vars

-----------------------------------------------------------------------------
(* Properties                                                                *)

TextTypes == {"error", "list", "who", "say"}

UsersOK ==
  /\ usernames \in [Servers -> Map(Names, Clients)]
  /\ active_usernames \in [Servers -> SUBSET Names]
  /\ rev_usernames \in [Servers -> Map(Clients, Names)]
  /\ channels \in [Servers -> Map(Channels, Map(Names, Clients))]

RoutingOK ==
  /\ linkingCtoS \in [Servers -> Map(Channels, SUBSET Servers)]
  /\ serverAddrs \in [Servers -> SUBSET Servers]
  /\ hardstateAddrs \in [Servers -> SUBSET Servers]
  /\ hardstate \in [Servers -> {0, 1}]
  /\ \A s \in Servers :
       /\ serverAddrs[s] \subseteq Range(Neighbours[s])
       /\ \A ch \in DOMAIN linkingCtoS[s] : linkingCtoS[s][ch] \subseteq Range(Neighbours[s])

RelayOK ==
  /\ uids \in [Servers -> Seq(Nat)]
  /\ fds \in [Servers -> Nat]
  /\ lastUid \in Nat
  /\ \A s \in Servers : Len(uids[s]) < UidLimit /\ fds[s] <= FdLimit

WorldOK ==
  /\ up \in [Servers -> BOOLEAN]
  /\ IsABag(net) /\ InFlight \subseteq Datagrams
  /\ \A t \in out : t.to \in Clients /\ t.type \in TextTypes

\* Every variable holds values of its C++ type, taken over the finite sets of
\* names; in particular uids stays below its limit, and no list of servers a
\* server sends to holds an address that is not on its command line.
TypeOK == UsersOK /\ RoutingOK /\ RelayOK /\ WorldOK

\* No two clients of a server ever use the same name, which nothing in
\* handle_login_message enforces.
SeparateNames ==
  \A c, d \in Clients : c # d /\ Home[c] = Home[d] => NamesOf[c] \cap NamesOf[d] = {}

\* rev_usernames and usernames agree: the name an address is logged in under is
\* registered to that address and flagged active, so handle_logout_message finds
\* the entry it erases and the server does not die of it.
SessionsAreRegistered ==
  \A s \in Servers : \A c \in DOMAIN rev_usernames[s] :
    LET u == rev_usernames[s][c] IN
      /\ u \in DOMAIN usernames[s]
      /\ usernames[s][u] = c
      /\ u \in active_usernames[s]

\* channels and usernames agree: whoever is in a channel is registered, and a say
\* is sent to the address the name is registered to, however often the client
\* logged in, changed its name, joined, left and logged out.
MembersAreRegistered ==
  \A s \in Servers : \A ch \in DOMAIN channels[s] :
    \A u \in DOMAIN channels[s][ch] :
      u \in DOMAIN usernames[s] /\ channels[s][ch][u] = usernames[s][u]

\* The default channel survives everything its users do.
CommonIsThere == \A s \in Servers : Common \in DOMAIN channels[s]

\* What the three above rest on: the clients a server knows are its own and use
\* their own names, in both tables.
OwnNames ==
  \A s \in Servers :
    /\ \A c \in DOMAIN rev_usernames[s] : Home[c] = s /\ rev_usernames[s][c] \in NamesOf[c]
    /\ \A u \in DOMAIN usernames[s] :
         LET c == usernames[s][u] IN Home[c] = s /\ u \in NamesOf[c]

Registry == OwnNames /\ SessionsAreRegistered /\ MembersAreRegistered /\ CommonIsThere

\* A running server never drops a channel in which a second user is a member,
\* and never drops the default one: only the last member's leave deletes.
OnlyEmptyChannelsVanish ==
  [][\A s \in Servers : up'[s] =>
       \A ch \in DOMAIN channels[s] \ DOMAIN channels'[s] :
         ch # Common /\ Cardinality(DOMAIN channels[s][ch]) = 1]_vars

\* A say only ever reaches clients that are logged in at that moment, when every
\* client keeps to one name.
SaysReachSessions ==
  \A t \in out : t.type = "say" => LoggedIn(Home[t.to], t.to)

\* Every link of a channel is being set up or is known at the other end: the
\* server linked to is down, or a join from this server is on its way to it, or
\* it has linked the channel and has recorded this server as alive.
LinksAreKnown ==
  \A s \in Servers : \A ch \in DOMAIN linkingCtoS[s] : \A n \in linkingCtoS[s][ch] :
    \/ ~up[n]
    \/ S2SJoin(s, n, ch) \in InFlight
    \/ Linked(n, ch) /\ s \in hardstateAddrs[n]

\* The join of a client spreads: while it is in the channel, either its server
\* has linked the channel (then LinksAreKnown takes over) or each neighbour is
\* down, has linked it, or has a join on its way.
JoinsSpread ==
  \A s \in Servers : \A ch \in DOMAIN channels[s] : \A u \in DOMAIN channels[s][ch] :
    \/ TakenForServer(s, channels[s][ch][u])
    \/ Linked(s, ch)
    \/ \A n \in serverAddrs[s] : ~up[n] \/ Linked(n, ch) \/ S2SJoin(s, n, ch) \in InFlight

\* Only a server that serves nobody asks to be left out, as long as no say is
\* received twice: the uids that make a server answer with a leave are never
\* those of another say.
OnlyIdleServersLeave ==
  [][\A m \in DOMAIN net' : m.type = "S2S_lev" /\ m \notin InFlight
        => DOMAIN usernames[m.from] = {}]_vars

\* A running server's links are cut by the servers at their other ends and nobody else:
\* on one host, the port alone finds the entry of the server that leaves.
OnlyLeaversAreCut ==
  [][\A s \in Servers : up'[s] =>
       \A ch \in DOMAIN linkingCtoS[s] : \A n \in linkingCtoS[s][ch] :
         \/ ch \in DOMAIN linkingCtoS'[s] /\ n \in linkingCtoS'[s][ch]
         \/ S2SLeave(n, s, ch) \in InFlight]_vars

\* The sweep erases no neighbour that counts on this server: a running one that has
\* linked a channel to it has at least a join still on its way here.
OnlyStrangersArePruned ==
  [][\A s \in Servers : up'[s] =>
       \A n \in serverAddrs[s] \ serverAddrs'[s] :
         up[n] => \A ch \in DOMAIN linkingCtoS[n] :
                    s \in linkingCtoS[n][ch] => S2SJoin(n, s, ch) \in InFlight]_vars
=============================================================================
