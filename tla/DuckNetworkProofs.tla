-------------------------- MODULE DuckNetworkProofs -------------------------
(***************************************************************************)
(* Theorems about what servers tell one another, for every topology and    *)
(* every value of the limits.  The flood of joins, in a network that loses *)
(* no datagram of a running server and restarts none: with duplicates,     *)
(* deaths, prunes and sweeps.  And the identifiers of says: what the       *)
(* window of handle_say_S2S keeps out, and whom it makes a server leave.   *)
(***************************************************************************)
EXTENDS DuckRelay, DuckServerProofs

-----------------------------------------------------------------------------
(* What one step does to the links, the members and the joins                *)

\* Steps that touch neither the channels nor the links, and keep every join.
Calm == /\ UNCHANGED <<channels, linkingCtoS, serverAddrs, hardstateAddrs, up>>
        /\ \A m \in InFlight : m.type = "S2S_J" => m \in DOMAIN net'

\* The facts about a step that the two invariants rest on.
Orderly ==
  /\ \A n \in Servers : up'[n] => up[n]
  \* a dead server has forgotten its members; any other keeps its links and lists
  /\ \A n \in Servers :
       \/ /\ ~up'[n]
          /\ \A ch \in DOMAIN channels'[n] : DOMAIN channels'[n][ch] = {}
       \/ /\ DOMAIN linkingCtoS[n] \subseteq DOMAIN linkingCtoS'[n]
          /\ hardstateAddrs[n] \subseteq hardstateAddrs'[n]
          /\ serverAddrs'[n] \subseteq serverAddrs[n]
  \* a link is new only with its join
  /\ \A s \in Servers : \A ch \in DOMAIN linkingCtoS'[s] : \A n \in linkingCtoS'[s][ch] :
       \/ ch \in DOMAIN linkingCtoS[s] /\ n \in linkingCtoS[s][ch]
       \/ S2SJoin(s, n, ch) \in DOMAIN net'
  \* a member is new only with the joins to all neighbours
  /\ \A s \in Servers : \A ch \in DOMAIN channels'[s] : \A u \in DOMAIN channels'[s][ch] :
       \/ /\ ch \in DOMAIN channels[s] /\ u \in DOMAIN channels[s][ch]
          /\ channels'[s][ch][u] = channels[s][ch][u]
       \/ TakenForServer(s, channels'[s][ch][u])
       \/ Linked(s, ch)
       \/ \A n \in serverAddrs[s] : S2SJoin(s, n, ch) \in DOMAIN net'
  \* a join in flight stays, is taken up, or was for a dead server
  /\ \A s, n \in Servers, ch \in Channels : S2SJoin(s, n, ch) \in InFlight =>
       \/ S2SJoin(s, n, ch) \in DOMAIN net'
       \/ ~up'[n]
       \/ ch \in DOMAIN linkingCtoS'[n] /\ s \in hardstateAddrs'[n]

\* What a join datagram carries.
LEMMA JoinFields ==
  ASSUME NEW s, NEW n, NEW ch
  PROVE  /\ S2SJoin(s, n, ch).type = "S2S_J" /\ S2SJoin(s, n, ch).from = s
         /\ S2SJoin(s, n, ch).to = n /\ S2SJoin(s, n, ch).channel = ch
BY DEF S2SJoin

\* A step that leaves channels and links alone is orderly.
LEMMA CalmIsOrderly == Calm => Orderly
BY JoinFields DEF Calm, Orderly

\* Orderly steps keep every link known at its other end.
LEMMA OrderlyKeepsLinks ==
  ASSUME TypeOK, TypeOK', LinksAreKnown, Orderly
  PROVE  LinksAreKnown'
<1> SUFFICES ASSUME NEW s \in Servers, NEW ch \in DOMAIN linkingCtoS'[s],
                    NEW n \in linkingCtoS'[s][ch],
                    S2SJoin(s, n, ch) \notin DOMAIN net', up'[n]
             PROVE  ch \in DOMAIN linkingCtoS'[n] /\ s \in hardstateAddrs'[n]
  BY DEF LinksAreKnown, Linked, InFlight
<1>1. ch \in Channels /\ n \in Servers
  <2>1. linkingCtoS'[s] \in Map(Channels, SUBSET Servers)
    BY DEF TypeOK, RoutingOK
  <2> QED
    BY <2>1, MapElim
<1>2. ch \in DOMAIN linkingCtoS[s] /\ n \in linkingCtoS[s][ch] /\ up[n]
  BY <1>1 DEF Orderly
<1>3. \/ S2SJoin(s, n, ch) \in InFlight
      \/ ch \in DOMAIN linkingCtoS[n] /\ s \in hardstateAddrs[n]
  BY <1>2 DEF LinksAreKnown, Linked
<1>4. CASE S2SJoin(s, n, ch) \in InFlight
  BY <1>1, <1>4 DEF Orderly
<1>5. CASE ch \in DOMAIN linkingCtoS[n] /\ s \in hardstateAddrs[n]
  BY <1>1, <1>5 DEF Orderly
<1> QED
  BY <1>3, <1>4, <1>5

\* Orderly steps keep every client's join spread or under way.
LEMMA OrderlySpreadsJoins ==
  ASSUME TypeOK, TypeOK', JoinsSpread, Orderly
  PROVE  JoinsSpread'
<1> SUFFICES ASSUME NEW s \in Servers, NEW ch \in DOMAIN channels'[s],
                    NEW u \in DOMAIN channels'[s][ch],
                    ~TakenForServer(s, channels'[s][ch][u]),
                    ch \notin DOMAIN linkingCtoS'[s],
                    NEW n \in serverAddrs'[s], up'[n],
                    S2SJoin(s, n, ch) \notin DOMAIN net'
             PROVE  ch \in DOMAIN linkingCtoS'[n]
  BY DEF JoinsSpread, Linked, InFlight, TakenForServer
<1>1. ch \in Channels /\ n \in Servers
  <2>1. channels'[s] \in Map(Channels, Map(Names, Clients)) /\ serverAddrs'[s] \subseteq Servers
    BY DEF TypeOK, UsersOK, RoutingOK
  <2> QED
    BY <2>1, MapElim
<1>2. /\ DOMAIN linkingCtoS[s] \subseteq DOMAIN linkingCtoS'[s]
      /\ serverAddrs'[s] \subseteq serverAddrs[s]
  BY DEF Orderly
<1>3. /\ ch \in DOMAIN channels[s] /\ u \in DOMAIN channels[s][ch]
      /\ channels'[s][ch][u] = channels[s][ch][u]
  BY <1>2 DEF Orderly, Linked
<1>4. \/ ch \in DOMAIN linkingCtoS[n]
      \/ S2SJoin(s, n, ch) \in InFlight
  BY <1>1, <1>2, <1>3 DEF JoinsSpread, Linked, Orderly
<1>5. up[n] /\ (ch \in DOMAIN linkingCtoS[n] => ch \in DOMAIN linkingCtoS'[n])
  BY <1>1 DEF Orderly
<1> QED
  BY <1>1, <1>4, <1>5 DEF Orderly

-----------------------------------------------------------------------------
(* Every step of NextReliable is orderly                                     *)

\* A send adds datagrams to the network and takes none away.
LEMMA TransmitKeeps ==
  ASSUME TypeOK, NEW S, Transmit(S)
  PROVE  DOMAIN net' = InFlight \cup S
BY TransmitNet DEF TypeOK, WorldOK

\* A handler takes the datagram it answers from the network, and no other one.
LEMMA AnswerKeeps ==
  ASSUME TypeOK, NEW S, NEW m, Answer(m, S)
  PROVE  (InFlight \ {m}) \cup S \subseteq DOMAIN net'
BY AnswerNet DEF TypeOK, WorldOK

\* A server that stops forgets its members and takes up nothing.
LEMMA DieIsOrderly ==
  ASSUME TypeOK, NEW s \in Servers, up[s], Die(s)
  PROVE  Orderly
<1>1. /\ ~up'[s]
      /\ DOMAIN linkingCtoS'[s] = {}
      /\ \A ch \in DOMAIN channels'[s] : DOMAIN channels'[s][ch] = {}
      /\ net' = net
  BY DEF Die, Forget, DefaultChannel, NoMembers, EmptyMap, Put, TypeOK, UsersOK, RoutingOK, WorldOK
<1>2. \A x \in Servers \ {s} :
        /\ up'[x] = up[x] /\ linkingCtoS'[x] = linkingCtoS[x] /\ channels'[x] = channels[x]
        /\ hardstateAddrs'[x] = hardstateAddrs[x] /\ serverAddrs'[x] = serverAddrs[x]
  BY DEF Die, Forget, TypeOK, UsersOK, RoutingOK, WorldOK
<1> QED
  BY <1>1, <1>2 DEF Orderly, InFlight

\* A step of a client that changes the channels of its server.
LEMMA ChannelsAreOrderly ==
  ASSUME TypeOK, NEW s \in Servers, UNCHANGED <<routing, up>>,
         InFlight \subseteq DOMAIN net',
         \A x \in Servers \ {s} : channels'[x] = channels[x],
         \A ch \in DOMAIN channels'[s] : \A u \in DOMAIN channels'[s][ch] :
           \/ /\ ch \in DOMAIN channels[s] /\ u \in DOMAIN channels[s][ch]
              /\ channels'[s][ch][u] = channels[s][ch][u]
           \/ TakenForServer(s, channels'[s][ch][u])
           \/ Linked(s, ch)
           \/ \A n \in serverAddrs[s] : S2SJoin(s, n, ch) \in DOMAIN net'
  PROVE  Orderly
BY DEF Orderly, routing

\* A logout only removes members.
LEMMA LogoutIsOrderly ==
  ASSUME TypeOK, NEW s \in Servers, NEW c \in Clients, Logout(s, c)
  PROVE  Orderly
<1> DEFINE u == rev_usernames[s][c]
<1>1. CASE Refuse(s, c)
  BY <1>1, CalmIsOrderly DEF Refuse, Calm, rooms, routing, InFlight
<1>2. CASE LogoutCrash(s, c)
  BY <1>2, DieIsOrderly DEF LogoutCrash, Serve
<1>3. CASE ~Refuse(s, c) /\ ~LogoutCrash(s, c)
  <2>1. RemoveFromRooms(s, u) /\ UNCHANGED <<routing, up, net>>
    BY <1>3 DEF Logout
  <2>2. /\ DOMAIN channels'[s] = DOMAIN channels[s]
        /\ \A ch \in DOMAIN channels[s] :
             /\ DOMAIN channels'[s][ch] = DOMAIN channels[s][ch] \ {u}
             /\ \A y \in DOMAIN channels'[s][ch] : channels'[s][ch][y] = channels[s][ch][y]
    BY <2>1 DEF RemoveFromRooms, Erase, Restrict, TypeOK, UsersOK
  <2>3. \A x \in Servers \ {s} : channels'[x] = channels[x]
    BY <2>1 DEF RemoveFromRooms, TypeOK, UsersOK
  <2> QED
    BY <2>1, <2>2, <2>3, ChannelsAreOrderly DEF InFlight
<1> QED
  BY <1>1, <1>2, <1>3

\* A client's join links the server only while the joins to all neighbours go out.
LEMMA JoinIsOrderly ==
  ASSUME TypeOK, NEW s \in Servers, NEW c \in Clients, NEW ch \in Channels, Join(s, c, ch)
  PROVE  Orderly
<1> DEFINE u == rev_usernames[s][c]
           old == IF HasChannel(s, ch) THEN channels[s][ch] ELSE NoMembers
<1>1. CASE Refuse(s, c)
  BY <1>1, CalmIsOrderly DEF Refuse, Calm, rooms, routing, InFlight
<1>2. CASE ~Refuse(s, c)
  <2>1. Transmit(JoinFlood(s, c, ch)) /\ AddMember(s, c, ch) /\ UNCHANGED <<routing, up>>
    BY <1>2 DEF Join
  <2>2. InFlight \subseteq DOMAIN net' /\ JoinFlood(s, c, ch) \subseteq DOMAIN net'
    BY <2>1, TransmitKeeps
  <2>3. /\ channels'[s] = Put(channels[s], ch, Put(old, u, c))
        /\ \A x \in Servers \ {s} : channels'[x] = channels[x]
    BY <2>1 DEF AddMember, TypeOK, UsersOK
  <2>4. \/ TakenForServer(s, c) \/ Linked(s, ch)
        \/ \A n \in serverAddrs[s] : S2SJoin(s, n, ch) \in DOMAIN net'
    BY <2>2 DEF JoinFlood
  <2>5. DOMAIN old # {} => ch \in DOMAIN channels[s] /\ old = channels[s][ch]
    BY DEF HasChannel, NoMembers, EmptyMap
  <2> HIDE DEF old, u
  <2>6. ASSUME NEW x \in DOMAIN channels'[s], NEW y \in DOMAIN channels'[s][x]
        PROVE  \/ /\ x \in DOMAIN channels[s] /\ y \in DOMAIN channels[s][x]
                  /\ channels'[s][x][y] = channels[s][x][y]
               \/ TakenForServer(s, channels'[s][x][y])
               \/ Linked(s, x)
               \/ \A n \in serverAddrs[s] : S2SJoin(s, n, x) \in DOMAIN net'
    <3>1. CASE x # ch
      BY <2>3, <2>6, <3>1 DEF Put
    <3>2. CASE x = ch
      <4>1. channels'[s][x] = Put(old, u, c)
        BY <2>3, <3>2 DEF Put
      <4>2. \/ channels'[s][x][y] = c
            \/ y \in DOMAIN old /\ channels'[s][x][y] = old[y]
        BY <2>6, <4>1 DEF Put
      <4> QED
        BY <2>4, <2>5, <3>2, <4>2
    <3> QED
      BY <3>1, <3>2
  <2> QED
    BY <2>1, <2>2, <2>3, <2>6, ChannelsAreOrderly
<1> QED
  BY <1>1, <1>2

\* A client's leave removes one member and keeps the links.
LEMMA LeaveIsOrderly ==
  ASSUME TypeOK, NEW s \in Servers, NEW c \in Clients, NEW ch \in Channels, Leave(s, c, ch)
  PROVE  Orderly
<1> DEFINE rest == Erase(channels[s][ch], rev_usernames[s][c])
<1>1. CASE Refuse(s, c)
  BY <1>1, CalmIsOrderly DEF Refuse, Calm, rooms, routing, InFlight
<1>2. CASE ~Refuse(s, c) /\ Complaint(s, c, ch) # {}
  BY <1>2, CalmIsOrderly DEF Leave, Calm, routing, InFlight
<1>3. CASE ~Refuse(s, c) /\ Complaint(s, c, ch) = {}
  <2>1. RemoveMember(s, rev_usernames[s][c], ch) /\ UNCHANGED <<routing, up, net>>
    BY <1>3 DEF Leave
  <2>2. ch \in DOMAIN channels[s]
    BY <1>3 DEF Complaint, HasChannel
  <2>3. /\ channels'[s] = Erase(channels[s], ch) \/ channels'[s] = Put(channels[s], ch, rest)
        /\ \A x \in Servers \ {s} : channels'[x] = channels[x]
    BY <2>1 DEF RemoveMember, TypeOK, UsersOK
  <2>4. \A y \in DOMAIN rest : y \in DOMAIN channels[s][ch] /\ rest[y] = channels[s][ch][y]
    BY DEF Erase, Restrict
  <2> HIDE DEF rest
  <2>5. ASSUME NEW x \in DOMAIN channels'[s], NEW y \in DOMAIN channels'[s][x]
        PROVE  /\ x \in DOMAIN channels[s] /\ y \in DOMAIN channels[s][x]
               /\ channels'[s][x][y] = channels[s][x][y]
    <3>1. \/ x = ch /\ channels'[s][x] = rest
          \/ x \in DOMAIN channels[s] /\ channels'[s][x] = channels[s][x]
      BY <2>3, <2>5 DEF Erase, Restrict, Put
    <3> QED
      BY <2>2, <2>4, <2>5, <3>1
  <2> QED
    BY <2>1, <2>3, <2>5, ChannelsAreOrderly DEF InFlight
<1> QED
  BY <1>1, <1>2, <1>3

\* A client's say changes neither members nor links.
LEMMA SayIsOrderly ==
  ASSUME TypeOK, NEW s \in Servers, NEW c \in Clients, NEW ch \in Channels, NEW t \in Texts,
         Say(s, c, ch, t)
  PROVE  Orderly
<1>1. CASE Refuse(s, c)
  BY <1>1, CalmIsOrderly DEF Refuse, Calm, rooms, routing, InFlight
<1>2. CASE ~Refuse(s, c)
  <2>1. InFlight \subseteq DOMAIN net'
    BY <1>2, TransmitKeeps DEF Say, SayToServers, InFlight
  <2> QED
    BY <1>2, <2>1, CalmIsOrderly DEF Say, Calm, routing
<1> QED
  BY <1>1, <1>2

\* A join from a server is taken up, and each new link gets its forwarded join.
LEMMA JoinS2SIsOrderly ==
  ASSUME TypeOK, NEW m \in InFlight, JoinS2S(m)
  PROVE  Orderly
<1> DEFINE s == m.to
           ch == m.channel
           L == ForwardList(s, m.from)
<1>1. /\ s \in Servers /\ m.from \in Servers /\ ch \in Channels
      /\ hardstateAddrs' = [hardstateAddrs EXCEPT ![s] = @ \cup {m.from}]
      /\ UNCHANGED <<channels, serverAddrs, up>>
  BY ReceivedType DEF JoinS2S, Receive, rooms
<1>2. /\ m.from \in hardstateAddrs'[s]
      /\ \A n \in Servers : hardstateAddrs[n] \subseteq hardstateAddrs'[n]
  BY <1>1 DEF TypeOK, RoutingOK
<1>3. /\ \A n \in Servers : DOMAIN linkingCtoS[n] \subseteq DOMAIN linkingCtoS'[n]
      /\ ch \in DOMAIN linkingCtoS'[s]
      /\ \A n \in Servers : \A x \in DOMAIN linkingCtoS'[n] :
           \/ x \in DOMAIN linkingCtoS[n] /\ linkingCtoS'[n][x] = linkingCtoS[n][x]
           \/ n = s /\ x = ch /\ linkingCtoS'[n][x] = L /\ Answer(m, ForwardedJoins(s, m.from, ch))
  <2>1. CASE Linked(s, ch)
    BY <2>1 DEF JoinS2S, Linked
  <2>2. CASE ~Linked(s, ch)
    <3>1. /\ Answer(m, ForwardedJoins(s, m.from, ch))
          /\ linkingCtoS' = [linkingCtoS EXCEPT ![s] = Put(@, ch, L)]
      BY <2>2 DEF JoinS2S
    <3>2. /\ linkingCtoS'[s] = Put(linkingCtoS[s], ch, L)
          /\ \A n \in Servers \ {s} : linkingCtoS'[n] = linkingCtoS[n]
      BY <1>1, <3>1 DEF TypeOK, RoutingOK
    <3> HIDE DEF s, ch, L
    <3> QED
      BY <3>1, <3>2 DEF Put
  <2> QED
    BY <2>1, <2>2
<1>4. \A n \in L : Answer(m, ForwardedJoins(s, m.from, ch)) => S2SJoin(s, n, ch) \in DOMAIN net'
  BY AnswerKeeps DEF ForwardedJoins
<1>5. \A x \in InFlight : x = m \/ x \in DOMAIN net'
  BY AnswerKeeps DEF JoinS2S
<1>6. ASSUME NEW a \in Servers, NEW b \in Servers, NEW x \in Channels,
             S2SJoin(a, b, x) \in InFlight, S2SJoin(a, b, x) \notin DOMAIN net'
      PROVE  x \in DOMAIN linkingCtoS'[b] /\ a \in hardstateAddrs'[b]
  <2>1. m.from = a /\ m.to = b /\ m.channel = x
    BY <1>5, <1>6, JoinFields
  <2> QED
    BY <1>2, <1>3, <2>1
<1>7. \A n \in Servers : \A x \in DOMAIN linkingCtoS'[n] : \A k \in linkingCtoS'[n][x] :
        \/ x \in DOMAIN linkingCtoS[n] /\ k \in linkingCtoS[n][x]
        \/ S2SJoin(n, k, x) \in DOMAIN net'
  BY <1>3, <1>4
<1> HIDE DEF s, ch, L
<1> QED
  BY <1>1, <1>2, <1>3, <1>6, <1>7 DEF Orderly

\* A leave from a server costs no channel its entry in the routing table.
LEMMA LeaveS2SIsOrderly ==
  ASSUME TypeOK, NEW m \in InFlight, LeaveS2S(m)
  PROVE  Orderly
<1> DEFINE s == m.to
           ch == m.channel
           L == Unlink(s, linkingCtoS[s][ch], m.from)
<1>1. /\ s \in Servers /\ ch \in Channels /\ Answer(m, {}) /\ m.type = "S2S_lev"
      /\ UNCHANGED <<channels, serverAddrs, hardstateAddrs, up>>
  BY ReceivedType DEF LeaveS2S, Receive, rooms
<1>2. \A x \in InFlight : x.type = "S2S_J" => x \in DOMAIN net'
  BY <1>1, AnswerKeeps
<1>3. CASE ~Linked(s, ch)
  BY <1>1, <1>2, <1>3, CalmIsOrderly DEF LeaveS2S, Calm
<1>4. CASE Linked(s, ch)
  <2>1. linkingCtoS' = [linkingCtoS EXCEPT ![s] = Put(@, ch, L)]
    BY <1>4 DEF LeaveS2S
  <2>2. /\ linkingCtoS'[s] = Put(linkingCtoS[s], ch, L)
        /\ \A n \in Servers \ {s} : linkingCtoS'[n] = linkingCtoS[n]
    BY <1>1, <2>1 DEF TypeOK, RoutingOK
  <2>3. L \subseteq linkingCtoS[s][ch]
    BY DEF Unlink
  <2> HIDE DEF L
  <2>4. \A n \in Servers : DOMAIN linkingCtoS'[n] = DOMAIN linkingCtoS[n]
    BY <1>4, <2>2 DEF Put, Linked
  <2>5. ASSUME NEW n \in Servers, NEW x \in DOMAIN linkingCtoS'[n]
        PROVE  linkingCtoS'[n][x] \subseteq linkingCtoS[n][x]
    <3>1. CASE n = s /\ x = ch
      BY <2>2, <2>3, <3>1 DEF Put
    <3>2. CASE ~(n = s /\ x = ch)
      BY <2>2, <2>4, <2>5, <3>2 DEF Put
    <3> QED
      BY <3>1, <3>2
  <2> QED
    BY <1>1, <1>2, <2>4, <2>5, JoinFields DEF Orderly
<1> QED
  BY <1>3, <1>4

\* A relayed say, an unknown type, a drop at a dead server and a duplicate are orderly.
LEMMA NetworkIsOrderly ==
  ASSUME TypeOK, NEW m \in InFlight, SayS2S(m) \/ BadType(m) \/ Drop(m) \/ Duplicate(m)
  PROVE  Orderly
<1>1. CASE SayS2S(m) \/ BadType(m)
  <2>1. m.type # "S2S_J" /\ UNCHANGED <<channels, routing, up>>
    BY <1>1 DEF SayS2S, BadType, Receive, rooms
  <2>2. \E S : Answer(m, S)
    BY <1>1 DEF SayS2S, BadType
  <2>3. \A x \in InFlight : x = m \/ x \in DOMAIN net'
    BY <2>2, AnswerKeeps
  <2> QED
    BY <2>1, <2>3, CalmIsOrderly DEF Calm, routing
<1>2. CASE Duplicate(m)
  BY <1>2, TransmitKeeps, CalmIsOrderly DEF Duplicate, Calm, rooms, routing
<1>3. CASE Drop(m)
  <2>1. ~up'[m.to] /\ Answer(m, {}) /\ UNCHANGED <<channels, routing, up>>
    BY <1>3 DEF Drop, Lose, rooms
  <2>2. \A x \in InFlight : x = m \/ x \in DOMAIN net'
    BY <2>1, AnswerKeeps
  <2> QED
    BY <2>1, <2>2, JoinFields DEF Orderly, routing
<1> QED
  BY <1>1, <1>2, <1>3

\* A wake-up of the select loop and a kill are orderly.
LEMMA TimerIsOrderly ==
  ASSUME TypeOK, NEW s \in Servers, Timer(s) \/ Kill(s)
  PROVE  Orderly
<1>1. CASE Timeout(s)
  <2>1. InFlight \subseteq DOMAIN net'
    BY <1>1, TransmitKeeps DEF Timeout
  <2>2. /\ UNCHANGED <<channels, linkingCtoS, hardstateAddrs, up>>
        /\ \A x \in Servers : serverAddrs'[x] \subseteq serverAddrs[x]
    BY <1>1 DEF Timeout, rooms, TypeOK, RoutingOK
  <2> QED
    BY <2>1, <2>2 DEF Orderly
<1>2. CASE SweepCrash(s) \/ Kill(s)
  BY <1>2, DieIsOrderly DEF SweepCrash, Kill
<1> QED
  BY <1>1, <1>2 DEF Timer

\* Every step is orderly when no datagram of a running server is lost.
LEMMA StepIsOrderly == TypeOK /\ [NextReliable]_vars => Orderly
<1> SUFFICES ASSUME TypeOK, [NextReliable]_vars PROVE Orderly
  OBVIOUS
<1>1. ASSUME NEW c \in Clients, Request(Home[c], c)
      PROVE  Orderly
  <2> DEFINE s == Home[c]
  <2>1. s \in Servers /\ NamesOf[c] \subseteq Names
    BY ConfigAssumption
  <2>2. CASE Refuse(s, c)
    BY <2>2, CalmIsOrderly DEF Refuse, Calm, rooms, routing, InFlight
  <2>3. CASE \/ \E u \in NamesOf[c] : Login(s, c, u)
             \/ List(s, c) \/ \E ch \in Channels : Who(s, c, ch)
             \/ UnknownCommand(s, c)
    BY <2>2, <2>3, CalmIsOrderly
    DEF Login, List, Who, UnknownCommand, Calm, rooms, routing, InFlight
  <2> QED
    BY <1>1, <2>1, <2>3, LogoutIsOrderly, JoinIsOrderly, LeaveIsOrderly, SayIsOrderly
    DEF Request
<1>2. ASSUME NEW m \in InFlight, Delivery(m) \/ Drop(m) \/ Duplicate(m)
      PROVE  Orderly
  BY <1>2, JoinS2SIsOrderly, LeaveS2SIsOrderly, NetworkIsOrderly DEF Delivery
<1>3. ASSUME NEW s \in Servers, Timer(s) \/ Kill(s)
      PROVE  Orderly
  BY <1>3, TimerIsOrderly
<1>4. CASE UNCHANGED vars
  BY <1>4, CalmIsOrderly DEF Calm, vars, rooms, routing, InFlight
<1> QED
  BY <1>1, <1>2, <1>3, <1>4 DEF NextReliable

-----------------------------------------------------------------------------

\* The flood is complete at every moment: a link that a server counts on is taken
\* up at the other end or its join is still under way, and so is the join of every
\* client that is in a channel.
THEOREM FloodIsComplete == SpecReliable => [](LinksAreKnown /\ JoinsSpread)
<1>1. Init => TypeOK /\ LinksAreKnown /\ JoinsSpread
  <2>1. Init => LinksAreKnown
    BY DEF Init, LinksAreKnown, EmptyMap
  <2>2. Init => JoinsSpread
    BY DEF Init, JoinsSpread, DefaultChannel, NoMembers, EmptyMap, Put
  <2> QED
    BY <2>1, <2>2, InitTypeOK
<1>2. TypeOK /\ LinksAreKnown /\ JoinsSpread /\ [NextReliable]_vars
        => TypeOK' /\ LinksAreKnown' /\ JoinsSpread'
  <2> SUFFICES ASSUME TypeOK, LinksAreKnown, JoinsSpread, [NextReliable]_vars
               PROVE  TypeOK' /\ LinksAreKnown' /\ JoinsSpread'
    OBVIOUS
  <2>1. TypeOK'
    BY NextTypeOK DEF Next
  <2>2. Orderly
    BY StepIsOrderly
  <2> QED
    BY <2>1, <2>2, OrderlyKeepsLinks, OrderlySpreadsJoins
<1> QED
  BY <1>1, <1>2, PTL DEF SpecReliable

\* The half of it that is about clients: while somebody is in a channel, every
\* neighbour of its server has heard of the channel, is down or is about to hear.
THEOREM JoinsReach == SpecReliable => []JoinsSpread
BY FloodIsComplete, PTL

-----------------------------------------------------------------------------
(* Who is erased from the lists, and why                                     *)

\* Only the sweep erases neighbours of a server that goes on running.
LEMMA PrunedIsStale ==
  ASSUME TypeOK, [Next]_vars, NEW s \in Servers, up'[s],
         NEW n \in serverAddrs[s], n \notin serverAddrs'[s]
  PROVE  up[s] /\ n \notin hardstateAddrs[s]
<1>1. ASSUME NEW t \in Servers, Die(t)
      PROVE  FALSE
  BY <1>1 DEF Die, Forget, TypeOK, RoutingOK, WorldOK
<1>2. ASSUME NEW c \in Clients, Request(Home[c], c)
      PROVE  FALSE
  <2>1. Home[c] \in Servers /\ ~LogoutCrash(Home[c], c)
    BY <1>1, ConfigAssumption DEF LogoutCrash
  <2>2. UNCHANGED serverAddrs
    BY <1>2, <2>1
    DEF Request, Login, Refuse, Logout, Join, Leave, Say, Who, List, UnknownCommand, routing
  <2> QED
    BY <2>2
<1>3. ASSUME NEW m \in InFlight, Delivery(m) \/ Drop(m) \/ Duplicate(m) \/ Lose(m)
      PROVE  FALSE
  BY <1>3
  DEF Delivery, JoinS2S, LeaveS2S, SayS2S, BadType, Drop, Duplicate, Lose, routing
<1>4. ASSUME NEW t \in Servers, Timer(t) \/ Kill(t) \/ Start(t)
      PROVE  up[s] /\ n \notin hardstateAddrs[s]
  <2>1. CASE Timeout(t)
    BY <2>1 DEF Timeout, Stale, TypeOK, RoutingOK, WorldOK
  <2>2. CASE Start(t)
    BY <2>2 DEF Start, routing
  <2> QED
    BY <1>1, <1>4, <2>1, <2>2 DEF Timer, SweepCrash, Kill
<1>5. CASE UNCHANGED vars
  BY <1>5 DEF vars, routing
<1> QED
  BY <1>2, <1>3, <1>4, <1>5 DEF Next, NextReliable

\* In a network that loses nothing, the sweep erases no neighbour that counts on this
\* server: by LinksAreKnown each such neighbour has been heard of, or is about to be.
THEOREM PruningIsSafe == SpecReliable => OnlyStrangersArePruned
<1> DEFINE Safe ==
      \A s \in Servers : up'[s] =>
        \A n \in serverAddrs[s] \ serverAddrs'[s] :
          up[n] => \A ch \in DOMAIN linkingCtoS[n] :
                     s \in linkingCtoS[n][ch] => S2SJoin(n, s, ch) \in InFlight
<1>1. ASSUME TypeOK, LinksAreKnown, [NextReliable]_vars
      PROVE  Safe
  <2> SUFFICES ASSUME NEW s \in Servers, up'[s],
                      NEW n \in serverAddrs[s], n \notin serverAddrs'[s],
                      NEW ch \in DOMAIN linkingCtoS[n], s \in linkingCtoS[n][ch]
               PROVE  S2SJoin(n, s, ch) \in InFlight
    OBVIOUS
  <2>1. up[s] /\ n \notin hardstateAddrs[s]
    BY <1>1, PrunedIsStale DEF Next
  <2>2. n \in Servers
    BY <1>1 DEF TypeOK, RoutingOK
  <2> QED
    BY <1>1, <2>1, <2>2 DEF LinksAreKnown
<1>2. SpecReliable => []TypeOK
  BY InitTypeOK, NextTypeOK, PTL DEF SpecReliable, Next
<1> QED
  BY <1>1, <1>2, FloodIsComplete, PTL DEF SpecReliable, OnlyStrangersArePruned

\* Ports that are different even without the hosts, as on the one host of
\* start_servers.sh.
DistinctPorts == \A s, n \in Servers : Port[s] = Port[n] => s = n

\* A link that disappears from a running server was cut by the handler of a leave.
LEMMA CutByLeave ==
  ASSUME TypeOK, [Next]_vars, NEW s \in Servers, up'[s],
         NEW ch \in DOMAIN linkingCtoS[s], NEW n \in linkingCtoS[s][ch],
         ~(ch \in DOMAIN linkingCtoS'[s] /\ n \in linkingCtoS'[s][ch])
  PROVE  \E m \in InFlight :
           /\ m.type = "S2S_lev" /\ m.to = s /\ m.channel = ch
           /\ n \in Matches(linkingCtoS[s][ch], m.from)
<1> SUFFICES ASSUME ~ \E m \in InFlight :
             /\ m.type = "S2S_lev" /\ m.to = s /\ m.channel = ch
             /\ n \in Matches(linkingCtoS[s][ch], m.from)
             PROVE  FALSE
  OBVIOUS
<1>1. ASSUME NEW t \in Servers, Die(t)
      PROVE  FALSE
  BY <1>1 DEF Die, Forget, TypeOK, RoutingOK, WorldOK
<1>2. ASSUME NEW m \in InFlight, LeaveS2S(m)
      PROVE  FALSE
  <2>1. m.type = "S2S_lev"
    BY <1>2 DEF LeaveS2S, Receive
  <2>2. /\ Linked(m.to, m.channel)
        /\ linkingCtoS' = [linkingCtoS EXCEPT ![m.to] =
             Put(@, m.channel, Unlink(m.to, @[m.channel], m.from))]
    BY <1>2 DEF LeaveS2S
  <2>3. m.to = s /\ linkingCtoS'[s] = Put(linkingCtoS[s], m.channel,
                                         Unlink(s, linkingCtoS[s][m.channel], m.from))
    BY <2>2 DEF TypeOK, RoutingOK
  <2>4. m.channel = ch /\ n \notin Unlink(s, linkingCtoS[s][ch], m.from)
    BY <2>3 DEF Put
  <2> QED
    BY <2>1, <2>3, <2>4 DEF Unlink
<1>3. ASSUME NEW m \in InFlight, JoinS2S(m)
      PROVE  FALSE
  <2>1. /\ ~Linked(m.to, m.channel)
        /\ linkingCtoS' = [linkingCtoS EXCEPT ![m.to] =
             Put(@, m.channel, ForwardList(m.to, m.from))]
    BY <1>3 DEF JoinS2S
  <2>2. m.to = s
    BY <2>1 DEF TypeOK, RoutingOK
  <2>3. linkingCtoS'[s] = Put(linkingCtoS[s], m.channel, ForwardList(s, m.from))
    BY <2>1, <2>2 DEF TypeOK, RoutingOK
  <2> QED
    BY <2>1, <2>2, <2>3 DEF Put, Linked
<1>4. ASSUME NEW c \in Clients, Request(Home[c], c)
      PROVE  FALSE
  <2>1. Home[c] \in Servers /\ ~LogoutCrash(Home[c], c)
    BY <1>1, ConfigAssumption DEF LogoutCrash
  <2>2. UNCHANGED linkingCtoS
    BY <1>4, <2>1
    DEF Request, Login, Refuse, Logout, Join, Leave, Say, Who, List, UnknownCommand, routing
  <2> QED
    BY <2>2
<1>5. ASSUME NEW m \in InFlight, Delivery(m) \/ Drop(m) \/ Duplicate(m) \/ Lose(m)
      PROVE  FALSE
  <2>1. CASE SayS2S(m) \/ BadType(m) \/ Drop(m) \/ Duplicate(m) \/ Lose(m)
    BY <2>1 DEF SayS2S, BadType, Drop, Duplicate, Lose, routing
  <2> QED
    BY <1>2, <1>3, <1>5, <2>1 DEF Delivery
<1>6. ASSUME NEW t \in Servers, Timer(t) \/ Kill(t) \/ Start(t)
      PROVE  FALSE
  <2>1. CASE Start(t) \/ Timeout(t)
    BY <2>1 DEF Start, Timeout, routing
  <2> QED
    BY <1>1, <1>6, <2>1 DEF Timer, SweepCrash, Kill
<1>7. CASE UNCHANGED vars
  BY <1>7 DEF vars, routing
<1> QED
  BY <1>4, <1>5, <1>6, <1>7 DEF Next, NextReliable

\* With distinct ports a link is only ever cut for the server that left, in any
\* network: comparing the ports alone does no harm then.
THEOREM CutsAreRight ==
  ASSUME DistinctPorts
  PROVE  Spec => OnlyLeaversAreCut
<1> DEFINE Right ==
      \A s \in Servers : up'[s] =>
        \A ch \in DOMAIN linkingCtoS[s] : \A n \in linkingCtoS[s][ch] :
          \/ ch \in DOMAIN linkingCtoS'[s] /\ n \in linkingCtoS'[s][ch]
          \/ S2SLeave(n, s, ch) \in InFlight
<1>1. ASSUME TypeOK, [Next]_vars
      PROVE  Right
  <2> SUFFICES ASSUME NEW s \in Servers, up'[s],
                      NEW ch \in DOMAIN linkingCtoS[s], NEW n \in linkingCtoS[s][ch],
                      ~(ch \in DOMAIN linkingCtoS'[s] /\ n \in linkingCtoS'[s][ch])
               PROVE  S2SLeave(n, s, ch) \in InFlight
    OBVIOUS
  <2>1. PICK m \in InFlight :
          /\ m.type = "S2S_lev" /\ m.to = s /\ m.channel = ch
          /\ n \in Matches(linkingCtoS[s][ch], m.from)
    BY <1>1, CutByLeave
  <2>2. n \in Servers
    <3>1. linkingCtoS[s] \in Map(Channels, SUBSET Servers)
      BY <1>1 DEF TypeOK, RoutingOK
    <3> QED
      BY <3>1, MapElim
  <2>3. m.from = n
    BY <1>1, <2>1, <2>2, ReceivedType DEF Matches, DistinctPorts
  <2>4. m \in LeaveDatagrams
    BY <1>1, <2>1
    DEF TypeOK, WorldOK, Datagrams, JoinDatagrams, SayDatagrams, GarbageDatagrams
  <2>5. m = S2SLeave(n, s, ch)
    BY <2>1, <2>3, <2>4 DEF LeaveDatagrams, S2SLeave
  <2> QED
    BY <2>1, <2>5
<1> QED
  BY <1>1, TypeCorrect, PTL DEF Spec, OnlyLeaversAreCut

-----------------------------------------------------------------------------
(* The window                                                                *)

\* The window after a say: its identifier, and before it as many of the others as
\* there is room for, in order.
LEMMA TrimKeepsEnd ==
  ASSUME NEW q \in Seq(Nat), Len(q) < UidLimit, NEW u \in Nat
  PROVE  LET r == Trim(Append(q, u)) IN
         /\ r \in Seq(Nat)
         /\ Len(r) = IF Len(q) + 1 < UidLimit THEN Len(q) + 1 ELSE UidLimit - 1
         /\ \A k \in 1 .. Len(r) : r[k] = Append(q, u)[Len(q) + 1 - Len(r) + k]
         /\ Len(r) >= 1
         /\ r[Len(r)] = u
<1> DEFINE a == Append(q, u)
           r == Trim(a)
<1>1. UidLimit \in Nat /\ UidLimit >= 2 /\ Len(q) \in Nat
  BY LimitAssumption
<1>2. a \in Seq(Nat) /\ Len(a) = Len(q) + 1 /\ a[Len(q) + 1] = u
  OBVIOUS
<1> HIDE DEF a
<1>3. CASE Len(a) < UidLimit
  <2>1. r = a
    BY <1>3 DEF Trim
  <2> QED
    BY <1>1, <1>2, <1>3, <2>1 DEF a
<1>4. CASE ~(Len(a) < UidLimit)
  <2>1. Len(a) = UidLimit /\ r = SubSeq(a, 2, Len(a))
    BY <1>1, <1>2, <1>4 DEF Trim
  <2>2. r \in Seq(Nat) /\ Len(r) = Len(a) - 1
    BY <1>1, <1>2, <2>1
  <2>3. \A k \in 1 .. Len(r) : r[k] = a[k + 1]
    BY <1>1, <1>2, <2>1, <2>2
  <2>4. Len(r) = UidLimit - 1 /\ Len(q) + 1 = UidLimit
    BY <1>1, <1>2, <2>1, <2>2
  <2>5. r[Len(r)] = a[Len(q) + 1]
    BY <1>1, <2>3, <2>4
  <2>6. \A k \in 1 .. Len(r) : r[k] = a[Len(q) + 1 - Len(r) + k]
    BY <1>1, <2>3, <2>4
  <2>7. Len(r) = IF Len(q) + 1 < UidLimit THEN Len(q) + 1 ELSE UidLimit - 1
    BY <1>1, <2>4
  <2>8. Len(r) >= 1
    BY <1>1, <2>4
  <2> HIDE DEF r
  <2>9. Len(q) + 1 = Len(a) /\ r[Len(r)] = u
    BY <1>2, <2>5
  <2> QED
    BY <2>2, <2>6, <2>7, <2>8, <2>9 DEF a, r
<1> QED
  BY <1>3, <1>4

\* Nothing else gets into the window.
LEMMA TrimTakesOne ==
  ASSUME NEW q \in Seq(Nat), Len(q) < UidLimit, NEW u \in Nat,
         NEW x \in Range(Trim(Append(q, u)))
  PROVE  x \in Range(q) \/ x = u
<1> DEFINE r == Trim(Append(q, u))
<1>1. UidLimit \in Nat /\ UidLimit >= 2 /\ Len(q) \in Nat
  BY LimitAssumption
<1>2. /\ r \in Seq(Nat)
      /\ Len(r) = IF Len(q) + 1 < UidLimit THEN Len(q) + 1 ELSE UidLimit - 1
      /\ \A k \in 1 .. Len(r) : r[k] = Append(q, u)[Len(q) + 1 - Len(r) + k]
  BY TrimKeepsEnd
<1>3. \A i \in 1 .. Len(q) + 1 : Append(q, u)[i] = u \/ Append(q, u)[i] \in Range(q)
  BY DEF Range
<1> HIDE DEF r
<1>4. Len(r) \in 1 .. Len(q) + 1
  BY <1>2, <1>1
<1>5. PICK k \in 1 .. Len(r) : x = r[k]
  BY <1>2, <1>4 DEF Range, r
<1>6. Len(q) + 1 - Len(r) + k \in 1 .. Len(q) + 1
  BY <1>1, <1>4
<1> QED
  BY <1>2, <1>3, <1>5, <1>6

\* A server that does not run has received nothing.
DeadAreEmpty == \A s \in Servers : ~up[s] => uids[s] = <<>>

\* What a step may do to the window of a server: it dies with the server, it stays,
\* or it takes in an identifier that is not in it.
Takes(s, u) == u \notin Range(uids[s]) /\ uids'[s] = Trim(Append(uids[s], u))
WindowStep ==
  \A s \in Servers :
    \/ ~up'[s] /\ uids'[s] = <<>>
    \/ up'[s] /\ uids'[s] = uids[s]
    \/ up'[s] /\ \E u \in Nat : Takes(s, u)

\* A step that leaves the windows alone and stops no server.
LEMMA WindowFrame ==
  ASSUME TypeOK, DeadAreEmpty, UNCHANGED <<uids, up>>
  PROVE  WindowStep
BY DEF WindowStep, DeadAreEmpty, TypeOK, RelayOK, WorldOK

\* A server that stops.
LEMMA DieWindow ==
  ASSUME TypeOK, DeadAreEmpty, NEW s \in Servers, Die(s)
  PROVE  WindowStep
<1>1. ~up'[s] /\ uids'[s] = <<>>
  BY DEF Die, Forget, TypeOK, RelayOK, WorldOK
<1>2. \A x \in Servers \ {s} : up'[x] = up[x] /\ uids'[x] = uids[x]
  BY DEF Die, Forget, TypeOK, RelayOK, WorldOK
<1> QED
  BY <1>1, <1>2 DEF WindowStep, DeadAreEmpty, TypeOK, WorldOK

\* A server that starts.
LEMMA StartWindow ==
  ASSUME TypeOK, DeadAreEmpty, NEW s \in Servers, Start(s)
  PROVE  WindowStep
<1>1. uids' = uids /\ up' = [up EXCEPT ![s] = TRUE] /\ up \in [Servers -> BOOLEAN]
  BY DEF Start, relay, TypeOK, WorldOK
<1> QED
  BY <1>1 DEF WindowStep, DeadAreEmpty

\* A say that a server receives is accepted with a new identifier, or rejected.
LEMMA SayWindow ==
  ASSUME TypeOK, DeadAreEmpty, NEW m \in InFlight, SayS2S(m)
  PROVE  WindowStep
<1>1. m.to \in Servers /\ m.uid \in Nat /\ up[m.to] /\ UNCHANGED up
  BY ReceivedType DEF SayS2S, Receive
<1>2. CASE Rejects(m.to, m)
  BY <1>1, <1>2, WindowFrame DEF SayS2S
<1>3. CASE ~Rejects(m.to, m)
  <2>1. uids' = [uids EXCEPT ![m.to] = Trim(Append(@, m.uid))]
    BY <1>3 DEF SayS2S
  <2>2. Takes(m.to, m.uid)
    BY <1>1, <1>3, <2>1 DEF Takes, Rejects, TypeOK, RelayOK
  <2>3. \A x \in Servers \ {m.to} : uids'[x] = uids[x]
    BY <2>1 DEF TypeOK, RelayOK
  <2> QED
    BY <1>1, <2>2, <2>3 DEF WindowStep, DeadAreEmpty, TypeOK, WorldOK
<1> QED
  BY <1>2, <1>3

\* What a request leaves alone, unless the server dies of it.
LEMMA RequestWindow ==
  ASSUME NEW c \in Clients, Request(Home[c], c)
  PROVE  Die(Home[c]) \/ UNCHANGED <<uids, up>>
<1> DEFINE s == Home[c]
<1>1. ASSUME Refuse(s, c) \/ UnknownCommand(s, c)
      PROVE  UNCHANGED <<uids, up>>
  BY <1>1 DEF Refuse, UnknownCommand, relay
<1>2. CASE Logout(s, c)
  BY <1>1, <1>2 DEF Logout, LogoutCrash, relay
<1>3. CASE \E u \in NamesOf[c] : Login(s, c, u)
  BY <1>3 DEF Login, relay
<1>4. ASSUME NEW ch \in Channels, Join(s, c, ch) \/ Leave(s, c, ch) \/ Who(s, c, ch)
      PROVE  UNCHANGED <<uids, up>>
  BY <1>1, <1>4 DEF Join, Leave, Who, relay
<1>5. ASSUME NEW ch \in Channels, NEW t \in Texts, Say(s, c, ch, t)
      PROVE  UNCHANGED <<uids, up>>
  BY <1>1, <1>5 DEF Say
<1>6. CASE List(s, c)
  BY <1>1, <1>6 DEF List, relay
<1> QED
  BY <1>1, <1>2, <1>3, <1>4, <1>5, <1>6 DEF Request

\* Every step.
LEMMA NextWindow == TypeOK /\ DeadAreEmpty /\ [Next]_vars => WindowStep
<1> SUFFICES ASSUME TypeOK, DeadAreEmpty, [Next]_vars PROVE WindowStep
  OBVIOUS
<1>1. ASSUME NEW c \in Clients, Request(Home[c], c)
      PROVE  WindowStep
  <2>1. Home[c] \in Servers
    BY ConfigAssumption
  <2> QED
    BY <1>1, <2>1, RequestWindow, DieWindow, WindowFrame
<1>2. ASSUME NEW m \in InFlight, Delivery(m) \/ Drop(m) \/ Duplicate(m) \/ Lose(m)
      PROVE  WindowStep
  <2>1. SayS2S(m) \/ UNCHANGED <<uids, up>>
    BY <1>2 DEF Delivery, JoinS2S, LeaveS2S, BadType, Drop, Duplicate, Lose, relay
  <2> QED
    BY <2>1, SayWindow, WindowFrame
<1>3. ASSUME NEW s \in Servers, Timer(s) \/ Kill(s) \/ Start(s)
      PROVE  WindowStep
  <2>1. CASE Timeout(s)
    BY <2>1, WindowFrame DEF Timeout, relay
  <2> QED
    BY <1>3, <2>1, DieWindow, StartWindow DEF Timer, SweepCrash, Kill
<1>4. CASE UNCHANGED vars
  BY <1>4, WindowFrame DEF vars, relay
<1> QED
  BY <1>1, <1>2, <1>3, <1>4 DEF Next, NextReliable

-----------------------------------------------------------------------------
(* The history                                                               *)

\* The window is the end of the history, and shorter only while the history is.
Window(q, h) ==
  /\ Len(q) = IF Len(h) < UidLimit THEN Len(h) ELSE UidLimit - 1
  /\ \A k \in 1 .. Len(q) : q[k] = h[Len(h) - Len(q) + k]

FarApart(h) == \A i, j \in DOMAIN h : i < j /\ h[i] = h[j] => j - i >= UidLimit

\* The inductive invariant.
HistoryOK ==
  /\ DeadAreEmpty
  /\ accepted \in [Servers -> Seq(Nat)]
  /\ \A s \in Servers : Window(uids[s], accepted[s]) /\ FarApart(accepted[s])

\* What the window does not hold was accepted long ago, if ever; and what is taken
\* in makes another end.
LEMMA TakeKeepsWindow ==
  ASSUME NEW q \in Seq(Nat), Len(q) < UidLimit, NEW h \in Seq(Nat), Window(q, h), FarApart(h),
         NEW u \in Nat, u \notin Range(q)
  PROVE  /\ Window(Trim(Append(q, u)), Append(h, u))
         /\ FarApart(Append(h, u))
         /\ Trim(Append(q, u)) # q
<1> DEFINE r == Trim(Append(q, u))
           g == Append(h, u)
<1>1. UidLimit \in Nat /\ UidLimit >= 2 /\ Len(q) \in Nat /\ Len(h) \in Nat
  BY LimitAssumption
<1>2. /\ r \in Seq(Nat)
      /\ Len(r) = IF Len(q) + 1 < UidLimit THEN Len(q) + 1 ELSE UidLimit - 1
      /\ \A k \in 1 .. Len(r) : r[k] = Append(q, u)[Len(q) + 1 - Len(r) + k]
      /\ Len(r) >= 1
      /\ r[Len(r)] = u
  BY TrimKeepsEnd
<1>3. /\ g \in Seq(Nat) /\ Len(g) = Len(h) + 1 /\ g[Len(h) + 1] = u
      /\ \A k \in 1 .. Len(h) : g[k] = h[k]
  OBVIOUS
<1>4. /\ Len(Append(q, u)) = Len(q) + 1 /\ Append(q, u)[Len(q) + 1] = u
      /\ \A k \in 1 .. Len(q) : Append(q, u)[k] = q[k]
  OBVIOUS
<1>5. \A k \in 1 .. Len(q) : q[k] # u
  BY DEF Range
<1>6. /\ \A k \in 1 .. Len(q) : q[k] = h[Len(h) - Len(q) + k]
      /\ Len(q) <= Len(h)
      /\ Len(h) - Len(q) > 0 => Len(q) = UidLimit - 1
  <2>1. Len(q) = IF Len(h) < UidLimit THEN Len(h) ELSE UidLimit - 1
    BY DEF Window
  <2>2. Len(q) <= Len(h) /\ (Len(h) - Len(q) > 0 => Len(q) = UidLimit - 1)
    BY <1>1, <2>1
  <2> QED
    BY <2>2 DEF Window
<1> HIDE DEF r, g
<1>7. Len(r) \in Nat /\ Len(r) <= Len(q) + 1
  BY <1>1, <1>2
<1>8. r # q
  BY <1>1, <1>2, <1>5
<1>9. Len(r) = IF Len(g) < UidLimit THEN Len(g) ELSE UidLimit - 1
  BY <1>1, <1>2, <1>3 DEF Window
<1>10. ASSUME NEW k \in 1 .. Len(r)
      PROVE  r[k] = g[Len(g) - Len(r) + k]
  <2> DEFINE i == Len(q) + 1 - Len(r) + k
  <2>0. i \in 1 .. Len(q) + 1
    BY <1>1, <1>7
  <2>1. r[k] = Append(q, u)[i]
    BY <1>2
  <2> HIDE DEF i
  <2>2. CASE i = Len(q) + 1
    <3>0. k = Len(r)
      BY <1>1, <1>7, <2>2 DEF i
    <3>1. Len(g) - Len(r) + k = Len(h) + 1
      BY <1>1, <1>3, <1>7, <3>0
    <3>2. r[k] = u
      BY <1>4, <2>1, <2>2
    <3> QED
      BY <1>3, <3>1, <3>2
  <2>3. CASE i # Len(q) + 1
    <3>1. i \in 1 .. Len(q)
      BY <1>1, <2>0, <2>3
    <3>2. r[k] = q[i]
      BY <1>4, <2>1, <3>1
    <3>3. q[i] = h[Len(h) - Len(q) + i]
      BY <1>6, <3>1
    <3>4. Len(q) <= Len(h)
      BY <1>6
    <3>5. Len(h) - Len(q) + i \in 1 .. Len(h)
      BY <1>1, <3>1, <3>4
    <3>6. Len(h) - Len(q) + i = Len(g) - Len(r) + k
      BY <1>1, <1>3, <1>7 DEF i
    <3> QED
      BY <1>3, <3>2, <3>3, <3>5, <3>6
  <2> QED
    BY <2>2, <2>3
<1>11. FarApart(g)
  <2> SUFFICES ASSUME NEW i \in 1 .. Len(h) + 1, NEW j \in 1 .. Len(h) + 1, i < j, g[i] = g[j]
               PROVE  j - i >= UidLimit
    BY <1>3 DEF FarApart
  <2>1. CASE j # Len(h) + 1
    <3>1. i \in 1 .. Len(h) /\ j \in 1 .. Len(h)
      BY <1>1, <2>1
    <3>2. h[i] = h[j] /\ DOMAIN h = 1 .. Len(h)
      BY <1>3, <3>1
    <3> QED
      BY <3>1, <3>2 DEF FarApart
  <2>2. CASE j = Len(h) + 1
    <3>1. i \in 1 .. Len(h) /\ h[i] = u
      BY <1>1, <1>3, <2>2
    <3>2. SUFFICES ASSUME ~(j - i >= UidLimit) PROVE FALSE
      OBVIOUS
    <3> DEFINE k == i - (Len(h) - Len(q))
    <3>3. k \in 1 .. Len(q) /\ Len(h) - Len(q) + k = i
      BY <1>1, <1>6, <2>2, <3>1, <3>2
    <3> HIDE DEF k
    <3> QED
      BY <1>5, <1>6, <3>1, <3>3
  <2> QED
    BY <2>1, <2>2
<1> QED
  BY <1>8, <1>9, <1>10, <1>11 DEF Window, r, g

\* No say is handed on twice unless UidLimit - 1 others were in between, whatever is
\* lost, copied or reordered and whichever servers die.
THEOREM WindowsKeepCopiesOut == HistorySpec => []RepeatsAreFarApart
<1>1. HistoryInit => TypeOK /\ HistoryOK
  <2> SUFFICES ASSUME HistoryInit PROVE TypeOK /\ HistoryOK
    OBVIOUS
  <2>1. /\ TypeOK /\ \A s \in Servers : uids[s] = <<>> /\ accepted[s] = <<>>
        /\ accepted \in [Servers -> Seq(Nat)]
    BY InitTypeOK DEF HistoryInit, Init
  <2>2. Window(<<>>, <<>>) /\ FarApart(<<>>)
    BY LimitAssumption DEF Window, FarApart
  <2> QED
    BY <2>1, <2>2 DEF HistoryOK, DeadAreEmpty
<1>2. TypeOK /\ HistoryOK /\ [HistoryNext]_historyVars => TypeOK' /\ HistoryOK'
  <2> SUFFICES ASSUME TypeOK, HistoryOK, [HistoryNext]_historyVars
               PROVE  TypeOK' /\ HistoryOK'
    OBVIOUS
  <2>1. [Next]_vars /\ TypeOK'
    BY NextTypeOK DEF HistoryNext, historyVars
  <2>2. WindowStep
    BY <2>1, NextWindow DEF HistoryOK
  <2>3. CASE UNCHANGED historyVars
    BY <2>1, <2>3 DEF historyVars, vars, relay, HistoryOK, DeadAreEmpty
  <2>4. CASE RecordAccepted
    <3>1. DeadAreEmpty'
      BY <2>2 DEF WindowStep, DeadAreEmpty
    <3>2. ASSUME NEW s \in Servers
          PROVE  /\ accepted'[s] \in Seq(Nat)
                 /\ Window(uids'[s], accepted'[s]) /\ FarApart(accepted'[s])
      <4>1. /\ uids[s] \in Seq(Nat) /\ Len(uids[s]) < UidLimit /\ accepted[s] \in Seq(Nat)
            /\ Window(uids[s], accepted[s]) /\ FarApart(accepted[s])
        BY DEF TypeOK, RelayOK, HistoryOK
      <4>2. accepted'[s] = IF ~up'[s] THEN <<>>
                           ELSE IF uids'[s] # uids[s]
                           THEN Append(accepted[s], uids'[s][Len(uids'[s])])
                           ELSE accepted[s]
        BY <2>4 DEF RecordAccepted
      <4>3. CASE ~up'[s] /\ uids'[s] = <<>>
        BY <4>2, <4>3, LimitAssumption DEF Window, FarApart
      <4>4. CASE up'[s] /\ uids'[s] = uids[s]
        BY <4>1, <4>2, <4>4
      <4>5. ASSUME NEW u \in Nat, up'[s], Takes(s, u)
            PROVE  /\ accepted'[s] \in Seq(Nat)
                   /\ Window(uids'[s], accepted'[s]) /\ FarApart(accepted'[s])
        <5>1. u \notin Range(uids[s]) /\ uids'[s] = Trim(Append(uids[s], u))
          BY <4>5 DEF Takes
        <5>2. /\ Window(uids'[s], Append(accepted[s], u))
              /\ FarApart(Append(accepted[s], u))
              /\ uids'[s] # uids[s]
          BY <4>1, <5>1, TakeKeepsWindow
        <5>3. uids'[s][Len(uids'[s])] = u
          BY <4>1, <5>1, TrimKeepsEnd
        <5> QED
          BY <4>1, <4>2, <4>5, <5>2, <5>3
      <4> QED
        BY <2>2, <4>3, <4>4, <4>5 DEF WindowStep
    <3>3. accepted' \in [Servers -> Seq(Nat)]
      BY <2>4, <3>2 DEF RecordAccepted
    <3> QED
      BY <2>1, <3>1, <3>2, <3>3 DEF HistoryOK
  <2> QED
    BY <2>3, <2>4 DEF HistoryNext
<1>3. HistoryOK => RepeatsAreFarApart
  BY DEF HistoryOK, FarApart, RepeatsAreFarApart
<1> QED
  BY <1>1, <1>2, <1>3, PTL DEF HistorySpec

-----------------------------------------------------------------------------
(* Copies in the network                                                     *)

\* What is sent adds a copy of itself and none of anything else.
LEMMA TransmitCopies ==
  ASSUME TypeOK, NEW S, Transmit(S), NEW x \in DOMAIN net'
  PROVE  /\ x \notin S => x \in InFlight /\ net'[x] = net[x]
         /\ x \notin InFlight => net'[x] = 1
BY DEF TypeOK, WorldOK, Transmit, InFlight, IsABag, SetToBag, (+)

\* What is answered loses a copy, its last one included; the answers are added.
LEMMA AnswerCopies ==
  ASSUME TypeOK, NEW m, NEW S, Answer(m, S), NEW x \in DOMAIN net', x \notin S
  PROVE  /\ x \in InFlight
         /\ x # m => net'[x] = net[x]
         /\ net[m] = 1 => x # m
<1> DEFINE rest == net (-) SetToBag({m})
<1>1. /\ DOMAIN rest \subseteq InFlight
      /\ \A y \in DOMAIN rest : y # m => rest[y] = net[y]
      /\ net[m] = 1 => m \notin DOMAIN rest
      /\ \A y \in DOMAIN rest : rest[y] \in Nat
  BY DEF TypeOK, WorldOK, InFlight, IsABag, SetToBag, (-)
<1>2. net' = rest (+) SetToBag(S)
  BY DEF Answer
<1> HIDE DEF rest
<1>3. x \in DOMAIN rest /\ net'[x] = rest[x]
  BY <1>1, <1>2 DEF SetToBag, (+)
<1> QED
  BY <1>1, <1>3

-----------------------------------------------------------------------------
(* Says that are received once                                               *)

IsSay(m) == m.type = "S2S_S"

\* The inductive invariant: a say in flight is there once, no other one carries its
\* identifier to the same server, and that server has not seen it.
SaysAreOnce ==
  /\ \A m \in InFlight : IsSay(m) =>
       net[m] = 1 /\ m.uid <= lastUid /\ m.uid \notin Range(uids[m.to])
  /\ \A m, n \in InFlight : IsSay(m) /\ IsSay(n) /\ m.uid = n.uid /\ m.to = n.to => m = n
  /\ \A s \in Servers : \A u \in Range(uids[s]) : u <= lastUid

\* Nobody is asked to be left out by a step.
NoLeave == \A m \in DOMAIN net' \ InFlight : m.type # "S2S_lev"

\* A step that sends no say and takes none in.
Quiet ==
  /\ \A m \in DOMAIN net' : IsSay(m) => m \in InFlight /\ net'[m] = net[m]
  /\ lastUid' \in Nat /\ lastUid <= lastUid'
  /\ \A s \in Servers : Range(uids'[s]) \subseteq Range(uids[s])

\* It keeps the invariant.
LEMMA QuietKeepsOnce ==
  ASSUME TypeOK, SaysAreOnce, Quiet
  PROVE  SaysAreOnce'
<1>1. /\ lastUid \in Nat
      /\ \A m \in InFlight : IsSay(m) => m.uid \in Nat /\ m.to \in Servers
      /\ \A s \in Servers : \A u \in Range(uids[s]) : u \in Nat
  BY ReceivedType DEF TypeOK, RelayOK, IsSay, Range
<1>2. \A m \in DOMAIN net' : IsSay(m) =>
        net'[m] = 1 /\ m.uid <= lastUid' /\ m.uid \notin Range(uids'[m.to])
  BY <1>1 DEF Quiet, SaysAreOnce
<1>3. \A m, n \in DOMAIN net' :
        IsSay(m) /\ IsSay(n) /\ m.uid = n.uid /\ m.to = n.to => m = n
  BY DEF Quiet, SaysAreOnce
<1>4. \A s \in Servers : \A u \in Range(uids'[s]) : u <= lastUid'
  BY <1>1 DEF Quiet, SaysAreOnce
<1> QED
  BY <1>2, <1>3, <1>4 DEF SaysAreOnce, InFlight, IsSay

\* A step that leaves the windows and the network alone.
LEMMA StillIsQuiet ==
  ASSUME TypeOK, UNCHANGED <<uids, lastUid, net>>
  PROVE  Quiet /\ NoLeave
BY DEF Quiet, NoLeave, InFlight, TypeOK, RelayOK

\* A step that sends datagrams but neither says nor leaves.
LEMMA SendIsQuiet ==
  ASSUME TypeOK, NEW S, Transmit(S), UNCHANGED <<uids, lastUid>>,
         \A m \in S : m.type \notin {"S2S_S", "S2S_lev"}
  PROVE  Quiet /\ NoLeave
<1>1. \A m \in DOMAIN net' : m \notin S => m \in InFlight /\ net'[m] = net[m]
  BY TransmitCopies
<1> QED
  BY <1>1 DEF Quiet, NoLeave, IsSay, TypeOK, RelayOK

\* A handler that answers with neither says nor leaves.
LEMMA AnswerIsQuiet ==
  ASSUME TypeOK, SaysAreOnce, NEW m \in InFlight, NEW S, Answer(m, S),
         UNCHANGED <<uids, lastUid>>, \A x \in S : x.type \notin {"S2S_S", "S2S_lev"}
  PROVE  Quiet /\ NoLeave
<1>1. \A x \in DOMAIN net' : x \notin S =>
        /\ x \in InFlight
        /\ x # m => net'[x] = net[x]
        /\ net[m] = 1 => x # m
  BY AnswerCopies
<1>2. IsSay(m) => net[m] = 1
  BY DEF SaysAreOnce
<1> QED
  BY <1>1, <1>2 DEF Quiet, NoLeave, IsSay, TypeOK, RelayOK

\* A server that stops forgets what it has seen, and only that.
LEMMA DieIsQuiet ==
  ASSUME TypeOK, NEW s \in Servers, Die(s)
  PROVE  Quiet /\ NoLeave
<1>1. \A x \in Servers : uids'[x] = uids[x] \/ uids'[x] = <<>>
  BY DEF Die, Forget, TypeOK, RelayOK
<1>2. \A x \in Servers : Range(uids'[x]) \subseteq Range(uids[x])
  BY <1>1 DEF Range
<1> QED
  BY <1>2 DEF Die, Quiet, NoLeave, InFlight, TypeOK, RelayOK

-----------------------------------------------------------------------------
(* The two steps that are not quiet                                          *)

\* The says a server sends carry an identifier nobody has seen, one to each server.
LEMMA SayKeepsOnce ==
  ASSUME TypeOK, SaysAreOnce, NEW s \in Servers, NEW ch \in Channels,
         NEW u \in Names, NEW t \in Texts, SayToServers(s, u, ch, t), UNCHANGED uids,
         \A m \in DOMAIN net' : IsSay(m) => m.uid # 0
  PROVE  SaysAreOnce' /\ NoLeave
<1> DEFINE S == { S2SSay(s, n, ch, u, t, UniqueId(s)) : n \in linkingCtoS[s][ch] }
<1>0. /\ lastUid \in Nat
      /\ \A x \in Servers : \A y \in Range(uids[x]) : y \in Nat /\ y <= lastUid
      /\ \A m \in InFlight : IsSay(m) => m.uid \in Nat /\ m.to \in Servers /\ m.uid <= lastUid
  BY ReceivedType DEF TypeOK, RelayOK, IsSay, Range, SaysAreOnce
<1>1. CASE ~Linked(s, ch)
  BY <1>1, StillIsQuiet, QuietKeepsOnce DEF SayToServers
<1>2. CASE Linked(s, ch) /\ fds[s] < FdLimit
  <2>1. Transmit(S) /\ lastUid' = lastUid + 1 /\ UniqueId(s) = lastUid + 1
    BY <1>2 DEF SayToServers, DrawUniqueId, UniqueId
  <2>2. linkingCtoS[s][ch] \subseteq Servers
    BY <1>2, MapElim DEF Linked, TypeOK, RoutingOK
  <2>3. \A m \in S : IsSay(m) /\ m.uid = lastUid + 1 /\ m.to \in Servers
    BY <2>1, <2>2 DEF S2SSay, IsSay
  <2>4. \A m, n \in S : m.to = n.to => m = n
    BY DEF S2SSay
  <2>5. S \cap InFlight = {}
    BY <1>0, <2>3
  <2> HIDE DEF S
  <2>6. \A m \in DOMAIN net' : m \in S \/ (m \in InFlight /\ net'[m] = net[m])
    BY <2>1, TransmitCopies
  <2>7. \A m \in S : net'[m] = 1
    <3>1. S \subseteq DOMAIN net'
      BY <2>1, TransmitNet DEF TypeOK, WorldOK
    <3> QED
      BY <2>1, <2>5, <3>1, TransmitCopies
  <2>8. \A m \in DOMAIN net' : IsSay(m) =>
          net'[m] = 1 /\ m.uid <= lastUid' /\ m.uid \notin Range(uids'[m.to])
    <3>1. \A m \in S : m.uid <= lastUid' /\ m.uid \notin Range(uids'[m.to])
      BY <1>0, <2>1, <2>3
    <3>2. \A m \in InFlight : IsSay(m) =>
            net[m] = 1 /\ m.uid <= lastUid' /\ m.uid \notin Range(uids'[m.to])
      BY <1>0, <2>1 DEF SaysAreOnce
    <3> QED
      BY <2>6, <2>7, <3>1, <3>2
  <2>9. \A m, n \in DOMAIN net' :
          IsSay(m) /\ IsSay(n) /\ m.uid = n.uid /\ m.to = n.to => m = n
    <3>1. \A m \in S, n \in InFlight : IsSay(n) => m.uid # n.uid
      BY <1>0, <2>3
    <3> QED
      BY <2>4, <2>6, <3>1 DEF SaysAreOnce
  <2>10. \A x \in Servers : \A y \in Range(uids'[x]) : y <= lastUid'
    BY <1>0, <2>1
  <2>11. NoLeave
    BY <2>3, <2>6 DEF NoLeave, IsSay
  <2> QED
    BY <2>8, <2>9, <2>10, <2>11 DEF SaysAreOnce, InFlight, IsSay
<1>3. CASE Linked(s, ch) /\ ~(fds[s] < FdLimit)
  <2>1. Transmit(S) /\ lastUid' = lastUid /\ UniqueId(s) = 0
    BY <1>3 DEF SayToServers, DrawUniqueId, UniqueId
  <2>2. \A m \in S : IsSay(m) /\ m.uid = 0
    BY <2>1 DEF S2SSay, IsSay
  <2> HIDE DEF S
  <2>3. S \subseteq DOMAIN net'
    BY <2>1, TransmitNet DEF TypeOK, WorldOK
  <2>4. S = {}
    BY <2>2, <2>3
  <2> QED
    BY <2>1, <2>4, SendIsQuiet, QuietKeepsOnce
<1> QED
  BY <1>1, <1>2, <1>3

\* A say that is received is new here, and only a server that serves nobody says so.
LEMMA ReceiptKeepsOnce ==
  ASSUME TypeOK, SaysAreOnce, NEW m \in InFlight, SayS2S(m)
  PROVE  /\ SaysAreOnce'
         /\ \A x \in DOMAIN net' \ InFlight :
              x.type = "S2S_lev" => DOMAIN usernames[x.from] = {}
<1>1. /\ m.to \in Servers /\ m.uid \in Nat /\ IsSay(m)
      /\ net[m] = 1 /\ m.uid <= lastUid /\ m.uid \notin Range(uids[m.to])
      /\ UNCHANGED lastUid /\ lastUid \in Nat
  BY ReceivedType DEF SayS2S, Receive, SaysAreOnce, IsSay, TypeOK, RelayOK
<1>2. CASE Rejects(m.to, m)
  <2> DEFINE S == {S2SLeave(m.to, m.from, m.channel)}
  <2>1. Answer(m, S) /\ UNCHANGED uids
    BY <1>2 DEF SayS2S
  <2>2. \A x \in S : x.type = "S2S_lev" /\ x.from = m.to
    BY DEF S2SLeave
  <2> HIDE DEF S
  <2>3. \A x \in DOMAIN net' : x \notin S =>
          x \in InFlight /\ (x # m => net'[x] = net[x]) /\ x # m
    BY <1>1, <2>1, AnswerCopies
  <2>4. Quiet
    BY <1>1, <2>1, <2>2, <2>3 DEF Quiet, IsSay
  <2>5. DOMAIN usernames[m.to] = {}
    BY <1>1, <1>2 DEF Rejects, NobodyHere
  <2> QED
    BY <2>2, <2>3, <2>4, <2>5, QuietKeepsOnce
<1>3. CASE ~Rejects(m.to, m)
  <2> DEFINE S == { Garbage(m.to, n) : n \in OtherLinks(m.to, m.channel, m.from) }
  <2>1. Answer(m, S) /\ uids' = [uids EXCEPT ![m.to] = Trim(Append(@, m.uid))]
    BY <1>3 DEF SayS2S
  <2>2. \A x \in S : x.type = "garbage"
    BY DEF Garbage
  <2> HIDE DEF S
  <2>3. \A x \in DOMAIN net' : x \notin S => x \in InFlight /\ net'[x] = net[x] /\ x # m
    BY <1>1, <2>1, AnswerCopies
  <2>4. \A s \in Servers : \A u \in Range(uids'[s]) :
          u \in Range(uids[s]) \/ (s = m.to /\ u = m.uid)
    <3>1. uids[m.to] \in Seq(Nat) /\ Len(uids[m.to]) < UidLimit
      BY <1>1 DEF TypeOK, RelayOK
    <3>2. \A u \in Range(Trim(Append(uids[m.to], m.uid))) :
            u \in Range(uids[m.to]) \/ u = m.uid
      BY <1>1, <3>1, TrimTakesOne
    <3> QED
      BY <1>1, <2>1, <3>2 DEF TypeOK, RelayOK
  <2>5. \A x \in DOMAIN net' : IsSay(x) =>
          x \in InFlight /\ net'[x] = 1 /\ x.uid <= lastUid /\ x.uid \notin Range(uids'[x.to])
    <3> SUFFICES ASSUME NEW x \in DOMAIN net', IsSay(x)
                 PROVE  x \in InFlight /\ net'[x] = 1 /\ x.uid <= lastUid
                        /\ x.uid \notin Range(uids'[x.to])
      OBVIOUS
    <3>1. x \in InFlight /\ net'[x] = net[x] /\ x # m
      BY <2>2, <2>3 DEF IsSay
    <3>2. x.to \in Servers /\ net[x] = 1 /\ x.uid <= lastUid /\ x.uid \notin Range(uids[x.to])
      BY <3>1, ReceivedType DEF SaysAreOnce
    <3>3. ~(x.to = m.to /\ x.uid = m.uid)
      BY <1>1, <3>1 DEF SaysAreOnce
    <3> QED
      BY <2>4, <3>1, <3>2, <3>3
  <2>6. \A s \in Servers : \A u \in Range(uids'[s]) : u <= lastUid
    BY <1>1, <2>4 DEF SaysAreOnce
  <2>7. \A x, y \in DOMAIN net' :
          IsSay(x) /\ IsSay(y) /\ x.uid = y.uid /\ x.to = y.to => x = y
    BY <2>5 DEF SaysAreOnce
  <2>8. SaysAreOnce'
    BY <1>1, <2>5, <2>6, <2>7 DEF SaysAreOnce, InFlight, IsSay
  <2> QED
    BY <2>2, <2>3, <2>8
<1> QED
  BY <1>2, <1>3

-----------------------------------------------------------------------------
(* Every step                                                                *)

\* A client's request.
LEMMA RequestKeepsOnce ==
  ASSUME TypeOK, SaysAreOnce, NEW c \in Clients, Request(Home[c], c),
         \A m \in DOMAIN net' : IsSay(m) => m.uid # 0
  PROVE  SaysAreOnce' /\ NoLeave
<1> DEFINE s == Home[c]
<1>0. s \in Servers
  BY ConfigAssumption
<1>1. ASSUME Refuse(s, c) \/ UnknownCommand(s, c) \/ List(s, c)
      PROVE  Quiet /\ NoLeave
  BY <1>1, StillIsQuiet DEF Refuse, UnknownCommand, List, relay
<1>2. CASE \E u \in NamesOf[c] : Login(s, c, u)
  BY <1>2, StillIsQuiet, QuietKeepsOnce DEF Login, relay
<1>3. CASE Logout(s, c)
  <2>1. CASE Refuse(s, c) \/ Die(s)
    BY <1>0, <1>1, <2>1, DieIsQuiet, QuietKeepsOnce
  <2>2. CASE UNCHANGED <<relay, net>>
    BY <2>2, StillIsQuiet, QuietKeepsOnce DEF relay
  <2> QED
    BY <1>3, <2>1, <2>2 DEF Logout, LogoutCrash
<1>4. ASSUME NEW ch \in Channels, Join(s, c, ch)
      PROVE  Quiet /\ NoLeave
  <2>1. CASE Refuse(s, c)
    BY <1>1, <2>1
  <2>2. CASE ~Refuse(s, c)
    <3>1. Transmit(JoinFlood(s, c, ch)) /\ UNCHANGED relay
      BY <1>4, <2>2 DEF Join
    <3>2. \A m \in JoinFlood(s, c, ch) : m.type = "S2S_J"
      BY DEF JoinFlood, S2SJoin
    <3> QED
      BY <3>1, <3>2, SendIsQuiet DEF relay
  <2> QED
    BY <2>1, <2>2
<1>5. ASSUME NEW ch \in Channels, Leave(s, c, ch) \/ Who(s, c, ch)
      PROVE  Quiet /\ NoLeave
  BY <1>1, <1>5, StillIsQuiet DEF Leave, Who, relay
<1>6. ASSUME NEW ch \in Channels, NEW t \in Texts, Say(s, c, ch, t)
      PROVE  SaysAreOnce' /\ NoLeave
  <2>1. CASE Refuse(s, c)
    BY <1>1, <2>1, QuietKeepsOnce
  <2>2. CASE ~Refuse(s, c)
    <3>1. Serve(s, c) /\ SayToServers(s, rev_usernames[s][c], ch, t) /\ UNCHANGED uids
      BY <1>6, <2>2 DEF Say
    <3>2. rev_usernames[s][c] \in Names
      BY <1>0, <3>1, ServedName
    <3> QED
      BY <1>0, <3>1, <3>2, SayKeepsOnce
  <2> QED
    BY <2>1, <2>2
<1> QED
  BY <1>1, <1>2, <1>3, <1>4, <1>5, <1>6, QuietKeepsOnce DEF Request

\* Every step of a network that makes no copies keeps the invariant, and asks only
\* for an idle server to be left out.
LEMMA StepKeepsOnce ==
  ASSUME TypeOK, SaysAreOnce, [NextOnce]_vars
  PROVE  /\ SaysAreOnce'
         /\ \A m \in DOMAIN net' : m.type = "S2S_lev" /\ m \notin InFlight
              => DOMAIN usernames[m.from] = {}
<1>1. ASSUME NEW c \in Clients, Request(Home[c], c),
             \A m \in DOMAIN net' : m.type = "S2S_S" => m.uid # 0
      PROVE  SaysAreOnce' /\ NoLeave
  BY <1>1, RequestKeepsOnce DEF IsSay
<1>2. ASSUME NEW m \in InFlight, JoinS2S(m)
      PROVE  SaysAreOnce' /\ NoLeave
  <2>1. UNCHANGED <<uids, lastUid>>
        /\ (Answer(m, {}) \/ Answer(m, ForwardedJoins(m.to, m.from, m.channel)))
    BY <1>2 DEF JoinS2S, relay
  <2>2. \A x \in ForwardedJoins(m.to, m.from, m.channel) : x.type = "S2S_J"
    BY DEF ForwardedJoins, S2SJoin
  <2> QED
    BY <2>1, <2>2, AnswerIsQuiet, QuietKeepsOnce
<1>3. ASSUME NEW m \in InFlight, LeaveS2S(m) \/ BadType(m) \/ Drop(m) \/ Lose(m)
      PROVE  SaysAreOnce' /\ NoLeave
  <2>1. UNCHANGED <<uids, lastUid>> /\ Answer(m, {})
    BY <1>3 DEF LeaveS2S, BadType, Drop, Lose, relay
  <2> QED
    BY <2>1, AnswerIsQuiet, QuietKeepsOnce
<1>4. ASSUME NEW s \in Servers, Timeout(s)
      PROVE  SaysAreOnce' /\ NoLeave
  <2>1. Transmit(Renewals(s)) /\ UNCHANGED <<uids, lastUid>>
    BY <1>4 DEF Timeout, relay
  <2>2. \A x \in Renewals(s) : x.type = "S2S_J"
    BY DEF Renewals, S2SJoin
  <2> QED
    BY <2>1, <2>2, SendIsQuiet, QuietKeepsOnce
<1>5. ASSUME NEW s \in Servers, SweepCrash(s) \/ Kill(s)
      PROVE  SaysAreOnce' /\ NoLeave
  BY <1>5, DieIsQuiet, QuietKeepsOnce DEF SweepCrash, Kill
<1>6. ASSUME (\E s \in Servers : Start(s)) \/ UNCHANGED vars
      PROVE  SaysAreOnce' /\ NoLeave
  BY <1>6, StillIsQuiet, QuietKeepsOnce DEF Start, vars, relay
<1>7. CASE \E m \in InFlight : SayS2S(m)
  BY <1>7, ReceiptKeepsOnce
<1>8. CASE SaysAreOnce' /\ NoLeave
  BY <1>8 DEF NoLeave
<1> QED
  BY <1>1, <1>2, <1>3, <1>4, <1>5, <1>6, <1>7, <1>8 DEF NextOnce, Delivery, Timer

\* While no datagram is copied and every say has an identifier, a server asks to be
\* left out of a channel only when it has no user at all.
THEOREM LeaversAreIdle == SpecOnce => OnlyIdleServersLeave
<1> DEFINE Idle == \A m \in DOMAIN net' : m.type = "S2S_lev" /\ m \notin InFlight
                     => DOMAIN usernames[m.from] = {}
<1>1. Init => TypeOK /\ SaysAreOnce
  <2>1. Init => SaysAreOnce
    BY DEF Init, SaysAreOnce, InFlight, EmptyBag, SetToBag, Range
  <2> QED
    BY <2>1, InitTypeOK
<1>2. [NextOnce]_vars => [Next]_vars
  BY DEF NextOnce, Next, NextReliable
<1>3. TypeOK /\ SaysAreOnce /\ [NextOnce]_vars => TypeOK' /\ SaysAreOnce' /\ Idle
  BY <1>2, NextTypeOK, StepKeepsOnce
<1>4. SpecOnce => [](TypeOK /\ SaysAreOnce)
  BY <1>1, <1>3, PTL DEF SpecOnce
<1> QED
  BY <1>3, <1>4, PTL DEF SpecOnce, OnlyIdleServersLeave
=============================================================================
