-------------------------- MODULE DuckServerProofs --------------------------
(***************************************************************************)
(* Theorems about DuckServer, for every set of servers, clients, names and *)
(* channels, every topology and every value of the limits.                 *)
(***************************************************************************)
EXTENDS DuckServer, TLAPS

-----------------------------------------------------------------------------
(* Maps                                                                      *)

\* What is known of a map: its domain, its values, and that it is a function.
LEMMA MapElim ==
  ASSUME NEW K, NEW V, NEW f \in Map(K, V)
  PROVE  /\ DOMAIN f \subseteq K
         /\ \A k \in DOMAIN f : f[k] \in V
         /\ f = [k \in DOMAIN f |-> f[k]]
BY DEF Map

\* A function on a subset of the keys is a map.
LEMMA FunctionIsMap ==
  ASSUME NEW K, NEW V, NEW D \in SUBSET K, NEW f \in [D -> V]
  PROVE  f \in Map(K, V)
BY DEF Map

\* A new hash map is empty.
LEMMA EmptyMapIsMap ==
  ASSUME NEW K, NEW V
  PROVE  EmptyMap \in Map(K, V) /\ DOMAIN EmptyMap = {}
<1>1. {} \in SUBSET K /\ EmptyMap \in [{} -> V]
  BY DEF EmptyMap
<1> QED
  BY <1>1 DEF Map, EmptyMap

\* Putting a key and a value of the right kinds gives a map.
LEMMA PutIsMap ==
  ASSUME NEW K, NEW V, NEW f \in Map(K, V), NEW k \in K, NEW v \in V
  PROVE  Put(f, k, v) \in Map(K, V)
<1>1. DOMAIN f \cup {k} \in SUBSET K
  BY MapElim
<1>2. Put(f, k, v) \in [DOMAIN f \cup {k} -> V]
  BY MapElim DEF Put
<1> QED
  BY <1>1, <1>2 DEF Map

\* Erasing any key gives a map.
LEMMA EraseIsMap ==
  ASSUME NEW K, NEW V, NEW f \in Map(K, V), NEW k
  PROVE  Erase(f, k) \in Map(K, V)
<1>1. DOMAIN f \ {k} \in SUBSET K
  BY MapElim
<1>2. Erase(f, k) \in [DOMAIN f \ {k} -> V]
  BY MapElim DEF Erase, Restrict
<1> QED
  BY <1>1, <1>2 DEF Map

-----------------------------------------------------------------------------
(* Datagrams in flight                                                       *)

\* Sending adds the datagrams sent and keeps the others.
LEMMA AddToBag ==
  ASSUME NEW B, IsABag(B), NEW S
  PROVE  /\ IsABag(B (+) SetToBag(S))
         /\ DOMAIN (B (+) SetToBag(S)) = DOMAIN B \cup S
BY DEF IsABag, SetToBag, (+)

\* Receiving takes away at most the datagram received.
LEMMA RemoveFromBag ==
  ASSUME NEW B, IsABag(B), NEW m
  PROVE  /\ IsABag(B (-) SetToBag({m}))
         /\ DOMAIN (B (-) SetToBag({m})) \subseteq DOMAIN B
         /\ DOMAIN B \ {m} \subseteq DOMAIN (B (-) SetToBag({m}))
BY DEF IsABag, SetToBag, (-)

\* The network after a send.
LEMMA TransmitNet ==
  ASSUME NEW S, IsABag(net), Transmit(S)
  PROVE  IsABag(net') /\ DOMAIN net' = InFlight \cup S
BY AddToBag DEF Transmit, InFlight

\* The network after a datagram is received and answered.
LEMMA AnswerNet ==
  ASSUME NEW S, NEW m, IsABag(net), Answer(m, S)
  PROVE  /\ IsABag(net')
         /\ DOMAIN net' \subseteq InFlight \cup S
         /\ (InFlight \ {m}) \cup S \subseteq DOMAIN net'
<1> DEFINE rest == net (-) SetToBag({m})
<1>1. /\ IsABag(rest)
      /\ DOMAIN rest \subseteq InFlight
      /\ InFlight \ {m} \subseteq DOMAIN rest
  BY RemoveFromBag DEF InFlight
<1>2. net' = rest (+) SetToBag(S)
  BY DEF Answer
<1> HIDE DEF rest
<1> QED
  BY <1>1, <1>2, AddToBag

-----------------------------------------------------------------------------
(* Type correctness                                                          *)

\* The window of recent identifiers stays below its limit.
LEMMA TrimIsShort ==
  ASSUME NEW q \in Seq(Nat)
  PROVE  Trim(q) \in Seq(Nat) /\ Len(Trim(q)) < UidLimit
<1>1. CASE Len(q) < UidLimit
  BY <1>1 DEF Trim
<1>2. CASE ~(Len(q) < UidLimit)
  <2>1. Len(q) \in Nat /\ UidLimit \in Nat /\ UidLimit >= 2 /\ Len(q) >= UidLimit
    BY <1>2, LimitAssumption
  <2>2. Len(q) - UidLimit + 2 \in 1 .. Len(q)
    BY <2>1
  <2>3. SubSeq(q, Len(q) - UidLimit + 2, Len(q)) \in Seq(Nat)
    BY <2>1, <2>2
  <2>4. Len(SubSeq(q, Len(q) - UidLimit + 2, Len(q))) = UidLimit - 1
    BY <2>1, <2>2
  <2> QED
    BY <1>2, <2>1, <2>3, <2>4 DEF Trim
<1> QED
  BY <1>1, <1>2

\* A server that has just started is type correct.
LEMMA InitTypeOK == Init => TypeOK
<1> SUFFICES ASSUME Init PROVE TypeOK
  OBVIOUS
<1>1. DefaultChannel \in Map(Channels, Map(Names, Clients))
  BY EmptyMapIsMap, PutIsMap, ConfigAssumption DEF DefaultChannel, NoMembers
<1>2. UsersOK
  BY <1>1, EmptyMapIsMap DEF Init, UsersOK
<1>3. RoutingOK
  <2>1. \A s \in Servers : Range(Neighbours[s]) \subseteq Servers
    BY ConfigAssumption DEF Range
  <2> QED
    BY <2>1, EmptyMapIsMap DEF Init, RoutingOK
<1>4. RelayOK
  BY LimitAssumption DEF Init, RelayOK
<1>5. WorldOK
  BY DEF Init, WorldOK, InFlight, EmptyBag, IsABag, SetToBag
<1> QED
  BY <1>2, <1>3, <1>4, <1>5 DEF TypeOK

\* A server that stops stays type correct.
LEMMA DieTypeOK ==
  ASSUME TypeOK, NEW s \in Servers, Die(s)
  PROVE  TypeOK'
<1>1. DefaultChannel \in Map(Channels, Map(Names, Clients))
  BY EmptyMapIsMap, PutIsMap, ConfigAssumption DEF DefaultChannel, NoMembers
<1>2. UsersOK'
  BY <1>1, EmptyMapIsMap DEF Die, Forget, TypeOK, UsersOK
<1>3. RoutingOK'
  <2>1. Range(Neighbours[s]) \subseteq Servers
    BY ConfigAssumption DEF Range
  <2> QED
    BY <2>1, EmptyMapIsMap DEF Die, Forget, TypeOK, RoutingOK
<1>4. RelayOK'
  BY LimitAssumption DEF Die, Forget, TypeOK, RelayOK
<1>5. WorldOK'
  BY DEF Die, TypeOK, WorldOK, InFlight
<1> QED
  BY <1>2, <1>3, <1>4, <1>5 DEF TypeOK

\* What a step leaves alone stays correct.
LEMMA Frame ==
  ASSUME TypeOK
  PROVE  /\ UNCHANGED rooms => UsersOK'
         /\ UNCHANGED routing => RoutingOK'
         /\ UNCHANGED relay => RelayOK'
BY DEF TypeOK, UsersOK, RoutingOK, RelayOK, rooms, users, routing, relay

\* A step that only sends well-formed texts and datagrams keeps the world correct.
LEMMA WorldFrame ==
  ASSUME TypeOK, UNCHANGED up,
         \A t \in out' : t.to \in Clients /\ t.type \in TextTypes,
         \/ UNCHANGED net
         \/ \E S \in SUBSET Datagrams :
              Transmit(S) \/ \E m \in InFlight : Answer(m, S)
  PROVE  WorldOK'
<1>1. IsABag(net) /\ InFlight \subseteq Datagrams /\ up \in [Servers -> BOOLEAN]
  BY DEF TypeOK, WorldOK
<1>2. IsABag(net') /\ DOMAIN net' \subseteq Datagrams
  <2>1. CASE UNCHANGED net
    BY <1>1, <2>1 DEF InFlight
  <2>2. CASE \E S \in SUBSET Datagrams :
               Transmit(S) \/ \E m \in InFlight : Answer(m, S)
    <3>1. PICK S \in SUBSET Datagrams :
            Transmit(S) \/ \E m \in InFlight : Answer(m, S)
      BY <2>2
    <3>2. CASE Transmit(S)
      BY <1>1, <3>2, TransmitNet
    <3>3. CASE \E m \in InFlight : Answer(m, S)
      BY <1>1, <3>3, AnswerNet
    <3> QED
      BY <3>1, <3>2, <3>3
  <2> QED
    BY <2>1, <2>2
<1> QED
  BY <1>1, <1>2 DEF WorldOK, InFlight

\* A request is served only for a client whose session has a name.
LEMMA ServedName ==
  ASSUME TypeOK, NEW s \in Servers, NEW c \in Clients, Serve(s, c)
  PROVE  /\ up[s]
         /\ c \in DOMAIN rev_usernames[s]
         /\ rev_usernames[s][c] \in Names
BY MapElim DEF Serve, LoggedIn, TypeOK, UsersOK

\* Flagging a user active flags a name.
LEMMA SetActiveType ==
  ASSUME TypeOK, NEW s \in Servers, NEW c \in Clients, Serve(s, c), SetActive(s, c)
  PROVE  active_usernames' \in [Servers -> SUBSET Names]
BY ServedName DEF SetActive, TypeOK, UsersOK

\* The texts of a say go to clients.
LEMMA SayTextsType ==
  ASSUME TypeOK, NEW s \in Servers, NEW ch \in DOMAIN channels[s], NEW u, NEW t
  PROVE  \A x \in SayToMembers(s, ch, u, t) : x.to \in Clients /\ x.type \in TextTypes
<1>1. channels[s] \in Map(Channels, Map(Names, Clients))
  BY DEF TypeOK, UsersOK
<1>2. channels[s][ch] \in Map(Names, Clients)
  BY <1>1, MapElim
<1>3. \A n \in DOMAIN channels[s][ch] : channels[s][ch][n] \in Clients
  BY <1>2, MapElim
<1> QED
  BY <1>3 DEF SayToMembers, SayText, TextTypes

\* An error goes to the client that made it.
LEMMA ErrorType ==
  ASSUME NEW c \in Clients, NEW why
  PROVE  Error(c, why).to \in Clients /\ Error(c, why).type \in TextTypes
BY DEF Error, TextTypes

\* A complaint about a channel goes to the client that named it.
LEMMA ComplaintType ==
  ASSUME NEW s, NEW c \in Clients, NEW ch
  PROVE  \A x \in Complaint(s, c, ch) : x.to \in Clients /\ x.type \in TextTypes
<1>1. \/ Complaint(s, c, ch) = {}
      \/ Complaint(s, c, ch) = {Error(c, "no such channel")}
      \/ Complaint(s, c, ch) = {Error(c, "not in channel")}
  BY DEF Complaint
<1> QED
  BY <1>1, ErrorType

-----------------------------------------------------------------------------
(* One lemma for each handler of a client's request                          *)

\* A login.
LEMMA LoginTypeOK ==
  ASSUME TypeOK, NEW s \in Servers, NEW c \in Clients, NEW u \in Names, Login(s, c, u)
  PROVE  TypeOK'
<1>1. UsersOK'
  <2>1. Put(usernames[s], u, c) \in Map(Names, Clients)
    BY PutIsMap DEF TypeOK, UsersOK
  <2>2. Put(rev_usernames[s], c, u) \in Map(Clients, Names)
    BY PutIsMap DEF TypeOK, UsersOK
  <2> QED
    BY <2>1, <2>2 DEF Login, TypeOK, UsersOK
<1>2. RoutingOK' /\ RelayOK'
  BY Frame DEF Login
<1>3. WorldOK'
  BY WorldFrame DEF Login
<1> QED
  BY <1>1, <1>2, <1>3 DEF TypeOK

\* A request from a client that is not logged in.
LEMMA RefuseTypeOK ==
  ASSUME TypeOK, NEW s \in Servers, NEW c \in Clients, Refuse(s, c)
  PROVE  TypeOK'
<1>1. \A t \in out' : t.to \in Clients /\ t.type \in TextTypes
  BY ErrorType DEF Refuse
<1>2. WorldOK'
  BY <1>1, WorldFrame DEF Refuse
<1> QED
  BY <1>2, Frame DEF Refuse, TypeOK

\* A logout, which removes the user from every channel.
LEMMA LogoutTypeOK ==
  ASSUME TypeOK, NEW s \in Servers, NEW c \in Clients, Logout(s, c)
  PROVE  TypeOK'
<1>1. CASE Refuse(s, c)
  BY <1>1, RefuseTypeOK
<1>2. CASE LogoutCrash(s, c)
  BY <1>2, DieTypeOK DEF LogoutCrash
<1>3. CASE ~Refuse(s, c) /\ ~LogoutCrash(s, c)
  <2> DEFINE u == rev_usernames[s][c]
  <2>1. /\ usernames' = [usernames EXCEPT ![s] = Erase(@, u)]
        /\ active_usernames' = [active_usernames EXCEPT ![s] = @ \ {u}]
        /\ RemoveFromRooms(s, u)
        /\ EraseSession(s, c)
        /\ out' = {}
        /\ UNCHANGED <<routing, relay, up, net>>
    BY <1>3 DEF Logout
  <2>2. /\ usernames[s] \in Map(Names, Clients)
        /\ rev_usernames[s] \in Map(Clients, Names)
        /\ channels[s] \in Map(Channels, Map(Names, Clients))
    BY DEF TypeOK, UsersOK
  <2>3. [ch \in DOMAIN channels[s] |-> Erase(channels[s][ch], u)]
           \in Map(Channels, Map(Names, Clients))
    <3>1. \A ch \in DOMAIN channels[s] : Erase(channels[s][ch], u) \in Map(Names, Clients)
      BY <2>2, MapElim, EraseIsMap
    <3>2. DOMAIN channels[s] \in SUBSET Channels
      BY <2>2, MapElim
    <3>3. [ch \in DOMAIN channels[s] |-> Erase(channels[s][ch], u)]
             \in [DOMAIN channels[s] -> Map(Names, Clients)]
      BY <3>1
    <3> QED
      BY <3>2, <3>3, FunctionIsMap
  <2>4. UsersOK'
    BY <2>1, <2>2, <2>3, EraseIsMap DEF RemoveFromRooms, EraseSession, TypeOK, UsersOK
  <2>5. WorldOK'
    BY <2>1, WorldFrame
  <2> QED
    BY <2>1, <2>4, <2>5, Frame DEF TypeOK
<1> QED
  BY <1>1, <1>2, <1>3

\* The joins that a client's join sends to the neighbours are datagrams.
LEMMA JoinFloodType ==
  ASSUME TypeOK, NEW s \in Servers, NEW c \in Clients, NEW ch \in Channels
  PROVE  JoinFlood(s, c, ch) \in SUBSET Datagrams
<1>1. serverAddrs[s] \subseteq Servers
  BY DEF TypeOK, RoutingOK
<1> QED
  BY <1>1 DEF JoinFlood, S2SJoin, Datagrams, JoinDatagrams

\* A client's join.
LEMMA JoinTypeOK ==
  ASSUME TypeOK, NEW s \in Servers, NEW c \in Clients, NEW ch \in Channels, Join(s, c, ch)
  PROVE  TypeOK'
<1>1. CASE Refuse(s, c)
  BY <1>1, RefuseTypeOK
<1>2. CASE ~Refuse(s, c)
  <2> DEFINE u == rev_usernames[s][c]
             old == IF HasChannel(s, ch) THEN channels[s][ch] ELSE NoMembers
  <2>1. /\ Serve(s, c) /\ SetActive(s, c) /\ Transmit(JoinFlood(s, c, ch))
        /\ AddMember(s, c, ch)
        /\ out' = {}
        /\ UNCHANGED <<usernames, rev_usernames, routing, relay, up>>
    BY <1>2 DEF Join
  <2>2. channels[s] \in Map(Channels, Map(Names, Clients)) /\ u \in Names
    BY <2>1, ServedName DEF TypeOK, UsersOK
  <2>3. old \in Map(Names, Clients)
    BY <2>2, MapElim, EmptyMapIsMap DEF HasChannel, NoMembers
  <2>4. Put(old, u, c) \in Map(Names, Clients)
    BY <2>2, <2>3, PutIsMap
  <2>5. Put(channels[s], ch, Put(old, u, c)) \in Map(Channels, Map(Names, Clients))
    BY <2>2, <2>4, PutIsMap
  <2>6. channels' = [channels EXCEPT ![s] = Put(channels[s], ch, Put(old, u, c))]
    BY <2>1 DEF AddMember
  <2>7. UsersOK'
    BY <2>1, <2>5, <2>6, SetActiveType DEF TypeOK, UsersOK
  <2>8. WorldOK'
    BY <2>1, JoinFloodType, WorldFrame
  <2> QED
    BY <2>1, <2>7, <2>8, Frame DEF TypeOK
<1> QED
  BY <1>1, <1>2

\* Removing a member, and the channel it leaves empty, keeps the table of channels.
LEMMA RemoveMemberType ==
  ASSUME TypeOK, NEW s \in Servers, NEW u, NEW ch \in Channels, HasChannel(s, ch),
         RemoveMember(s, u, ch)
  PROVE  channels' \in [Servers -> Map(Channels, Map(Names, Clients))]
<1> DEFINE rest == Erase(channels[s][ch], u)
<1>1. channels[s] \in Map(Channels, Map(Names, Clients))
  BY DEF TypeOK, UsersOK
<1>2. rest \in Map(Names, Clients)
  BY <1>1, MapElim, EraseIsMap DEF HasChannel
<1>3. /\ Erase(channels[s], ch) \in Map(Channels, Map(Names, Clients))
      /\ Put(channels[s], ch, rest) \in Map(Channels, Map(Names, Clients))
  BY <1>1, <1>2, EraseIsMap, PutIsMap
<1>4. \/ channels' = [channels EXCEPT ![s] = Erase(channels[s], ch)]
      \/ channels' = [channels EXCEPT ![s] = Put(channels[s], ch, rest)]
  BY DEF RemoveMember
<1> QED
  BY <1>3, <1>4 DEF TypeOK, UsersOK

\* A client's leave.
LEMMA LeaveTypeOK ==
  ASSUME TypeOK, NEW s \in Servers, NEW c \in Clients, NEW ch \in Channels, Leave(s, c, ch)
  PROVE  TypeOK'
<1>1. CASE Refuse(s, c)
  BY <1>1, RefuseTypeOK
<1>2. CASE ~Refuse(s, c)
  <2>1. /\ Serve(s, c) /\ SetActive(s, c)
        /\ out' = Complaint(s, c, ch)
        /\ IF Complaint(s, c, ch) = {}
           THEN RemoveMember(s, rev_usernames[s][c], ch)
           ELSE UNCHANGED channels
        /\ UNCHANGED <<usernames, rev_usernames, routing, relay, up, net>>
    BY <1>2 DEF Leave
  <2>2. Complaint(s, c, ch) = {} => HasChannel(s, ch)
    BY DEF Complaint
  <2>3. channels' \in [Servers -> Map(Channels, Map(Names, Clients))]
    BY <2>1, <2>2, RemoveMemberType DEF TypeOK, UsersOK
  <2>4. UsersOK'
    BY <2>1, <2>3, SetActiveType DEF TypeOK, UsersOK
  <2>5. WorldOK'
    BY <2>1, ComplaintType, WorldFrame
  <2> QED
    BY <2>1, <2>4, <2>5, Frame DEF TypeOK
<1> QED
  BY <1>1, <1>2

\* Relaying a say keeps the window of identifiers and sends datagrams.
LEMMA SayToServersType ==
  ASSUME TypeOK, NEW s \in Servers, NEW u \in Names, NEW ch \in Channels, NEW t \in Texts,
         SayToServers(s, u, ch, t), UNCHANGED uids
  PROVE  /\ RelayOK'
         /\ \/ UNCHANGED net
            \/ \E S \in SUBSET Datagrams : Transmit(S)
<1>1. CASE Linked(s, ch)
  <2> DEFINE S == { S2SSay(s, n, ch, u, t, UniqueId(s)) : n \in linkingCtoS[s][ch] }
  <2>1. DrawUniqueId(s) /\ Transmit(S)
    BY <1>1 DEF SayToServers
  <2>2. fds[s] \in Nat /\ fds[s] <= FdLimit /\ FdLimit \in Nat /\ lastUid \in Nat
    BY LimitAssumption DEF TypeOK, RelayOK
  <2>3. UniqueId(s) \in Nat
    BY <2>2 DEF UniqueId
  <2>4. linkingCtoS[s][ch] \subseteq Servers
    BY <1>1, MapElim DEF Linked, TypeOK, RoutingOK
  <2>5. S \in SUBSET Datagrams
    BY <2>3, <2>4 DEF S2SSay, Datagrams, SayDatagrams
  <2>6. RelayOK'
    BY <2>1, <2>2 DEF DrawUniqueId, TypeOK, RelayOK
  <2> QED
    BY <2>1, <2>5, <2>6
<1>2. CASE ~Linked(s, ch)
  BY <1>2, Frame DEF SayToServers, relay
<1> QED
  BY <1>1, <1>2

\* A client's say.
LEMMA SayTypeOK ==
  ASSUME TypeOK, NEW s \in Servers, NEW c \in Clients, NEW ch \in Channels,
         NEW t \in Texts, Say(s, c, ch, t)
  PROVE  TypeOK'
<1>1. CASE Refuse(s, c)
  BY <1>1, RefuseTypeOK
<1>2. CASE ~Refuse(s, c)
  <2> DEFINE u == rev_usernames[s][c]
  <2>1. /\ Serve(s, c) /\ SetActive(s, c) /\ SayToServers(s, u, ch, t)
        /\ out' = IF Complaint(s, c, ch) = {} THEN SayToMembers(s, ch, u, t)
                                              ELSE Complaint(s, c, ch)
        /\ UNCHANGED <<usernames, rev_usernames, channels, routing, uids, up>>
    BY <1>2 DEF Say
  <2>2. u \in Names
    BY <2>1, ServedName
  <2>3. UsersOK'
    BY <2>1, SetActiveType DEF TypeOK, UsersOK
  <2>4. /\ RelayOK'
        /\ UNCHANGED net \/ \E S \in SUBSET Datagrams : Transmit(S)
    BY <2>1, <2>2, SayToServersType
  <2>5. Complaint(s, c, ch) = {} => ch \in DOMAIN channels[s]
    BY DEF Complaint, HasChannel
  <2>6. \A x \in out' : x.to \in Clients /\ x.type \in TextTypes
    BY <2>1, <2>5, SayTextsType, ComplaintType
  <2>7. WorldOK'
    BY <2>1, <2>4, <2>6, WorldFrame
  <2> QED
    BY <2>1, <2>3, <2>4, <2>7, Frame DEF TypeOK
<1> QED
  BY <1>1, <1>2

\* The requests that only ask, and the unknown one.
LEMMA QueryTypeOK ==
  ASSUME TypeOK, NEW s \in Servers, NEW c \in Clients,
         \/ List(s, c)
         \/ \E ch \in Channels : Who(s, c, ch)
         \/ UnknownCommand(s, c)
  PROVE  TypeOK'
<1>1. CASE Refuse(s, c)
  BY <1>1, RefuseTypeOK
<1>2. CASE ~Refuse(s, c)
  <2>1. \A x \in out' : x.to \in Clients /\ x.type \in TextTypes
    <3>1. CASE UnknownCommand(s, c)
      BY <3>1, ErrorType DEF UnknownCommand
    <3>2. CASE List(s, c)
      <4>1. out' = {ListReply(c, DOMAIN channels[s])}
        BY <1>2, <3>2 DEF List
      <4> QED
        BY <4>1 DEF ListReply, TextTypes
    <3>3. ASSUME NEW ch \in Channels, Who(s, c, ch)
          PROVE  \A x \in out' : x.to \in Clients /\ x.type \in TextTypes
      <4>1. \/ out' = {WhoReply(c, ch, DOMAIN channels[s][ch])}
            \/ out' = {Error(c, "no such channel")}
        BY <1>2, <3>3 DEF Who
      <4>2. CASE out' = {WhoReply(c, ch, DOMAIN channels[s][ch])}
        BY <4>2 DEF WhoReply, TextTypes
      <4> QED
        BY <4>1, <4>2, ErrorType
    <3> QED
      BY <3>1, <3>2, <3>3
  <2>2. WorldOK'
    BY <1>2, <2>1, WorldFrame DEF List, Who, UnknownCommand
  <2>3. UsersOK'
    <3>1. CASE UnknownCommand(s, c)
      BY <3>1, Frame DEF UnknownCommand
    <3>2. CASE List(s, c) \/ \E ch \in Channels : Who(s, c, ch)
      <4>1. /\ Serve(s, c) /\ SetActive(s, c)
            /\ UNCHANGED <<usernames, rev_usernames, channels>>
        BY <1>2, <3>2 DEF List, Who
      <4> QED
        BY <4>1, SetActiveType DEF TypeOK, UsersOK
    <3> QED
      BY <3>1, <3>2
  <2> QED
    BY <1>2, <2>2, <2>3, Frame DEF List, Who, UnknownCommand, TypeOK
<1> QED
  BY <1>1, <1>2

-----------------------------------------------------------------------------
(* One lemma for each handler of a server's datagram, for the timer and for  *)
(* the world                                                                 *)

\* A datagram in flight has the fields of its type.
LEMMA ReceivedType ==
  ASSUME TypeOK, NEW m \in InFlight
  PROVE  /\ m.from \in Servers /\ m.to \in Servers
         /\ m.type \in {"S2S_J", "S2S_lev", "S2S_S"} => m.channel \in Channels
         /\ m.type = "S2S_S" => m.uid \in Nat /\ m.user \in Names /\ m.text \in Texts
<1>1. m \in Datagrams
  BY DEF TypeOK, WorldOK
<1>2. CASE m \in JoinDatagrams
  BY <1>2 DEF JoinDatagrams
<1>3. CASE m \in LeaveDatagrams
  BY <1>3 DEF LeaveDatagrams
<1>4. CASE m \in SayDatagrams
  BY <1>4 DEF SayDatagrams
<1>5. CASE m \in GarbageDatagrams
  BY <1>5 DEF GarbageDatagrams
<1> QED
  BY <1>1, <1>2, <1>3, <1>4, <1>5 DEF Datagrams

\* A join is forwarded to neighbours only.
LEMMA ForwardListType ==
  ASSUME TypeOK, NEW s \in Servers, NEW from \in Servers, NEW ch \in Channels
  PROVE  /\ ForwardList(s, from) \in SUBSET Servers
         /\ ForwardList(s, from) \subseteq Range(Neighbours[s])
         /\ ForwardedJoins(s, from, ch) \in SUBSET Datagrams
<1>1. serverAddrs[s] \subseteq Servers /\ serverAddrs[s] \subseteq Range(Neighbours[s])
  BY DEF TypeOK, RoutingOK
<1>2. /\ ForwardList(s, from) \in SUBSET Servers
      /\ ForwardList(s, from) \subseteq Range(Neighbours[s])
  BY <1>1 DEF ForwardList
<1>3. ForwardedJoins(s, from, ch) \in SUBSET Datagrams
  BY <1>2 DEF ForwardedJoins, S2SJoin, Datagrams, JoinDatagrams
<1> QED
  BY <1>2, <1>3

\* Linking a channel to neighbours keeps the routing tables correct.
LEMMA NewLinksType ==
  ASSUME TypeOK, NEW s \in Servers, NEW ch \in Channels,
         NEW L \in SUBSET Servers, L \subseteq Range(Neighbours[s]),
         linkingCtoS' = [linkingCtoS EXCEPT ![s] = Put(@, ch, L)],
         UNCHANGED <<serverAddrs, hardstate>>,
         hardstateAddrs' \in [Servers -> SUBSET Servers]
  PROVE  RoutingOK'
<1>1. linkingCtoS[s] \in Map(Channels, SUBSET Servers)
  BY DEF TypeOK, RoutingOK
<1>2. /\ Put(linkingCtoS[s], ch, L) \in Map(Channels, SUBSET Servers)
      /\ \A x \in DOMAIN Put(linkingCtoS[s], ch, L) :
           Put(linkingCtoS[s], ch, L)[x] \subseteq Range(Neighbours[s])
  <2>1. \A x \in DOMAIN linkingCtoS[s] : linkingCtoS[s][x] \subseteq Range(Neighbours[s])
    BY DEF TypeOK, RoutingOK
  <2>2. ASSUME NEW x \in DOMAIN Put(linkingCtoS[s], ch, L)
        PROVE  Put(linkingCtoS[s], ch, L)[x] \subseteq Range(Neighbours[s])
    <3>1. CASE x = ch
      BY <3>1 DEF Put
    <3>2. CASE x # ch
      BY <2>1, <3>2 DEF Put
    <3> QED
      BY <3>1, <3>2
  <2>3. Put(linkingCtoS[s], ch, L) \in Map(Channels, SUBSET Servers)
    BY <1>1, PutIsMap
  <2> QED
    BY <2>2, <2>3
<1>3. linkingCtoS' \in [Servers -> Map(Channels, SUBSET Servers)]
  BY <1>2 DEF TypeOK, RoutingOK
<1>4. ASSUME NEW x \in Servers, NEW y \in DOMAIN linkingCtoS'[x]
      PROVE  linkingCtoS'[x][y] \subseteq Range(Neighbours[x])
  <2>1. CASE x = s
    BY <1>2, <2>1 DEF TypeOK, RoutingOK
  <2>2. CASE x # s
    BY <1>4, <2>2 DEF TypeOK, RoutingOK
  <2> QED
    BY <2>1, <2>2
<1> QED
  BY <1>3, <1>4 DEF TypeOK, RoutingOK

\* A join from a server.
LEMMA JoinS2STypeOK ==
  ASSUME TypeOK, NEW m \in InFlight, JoinS2S(m)
  PROVE  TypeOK'
<1> DEFINE s == m.to
           ch == m.channel
<1>1. /\ s \in Servers /\ m.from \in Servers /\ ch \in Channels
      /\ out' = {}
      /\ UNCHANGED <<rooms, serverAddrs, hardstate, relay, up>>
  BY ReceivedType DEF JoinS2S, Receive
<1>2. hardstateAddrs' \in [Servers -> SUBSET Servers]
  BY <1>1 DEF JoinS2S, TypeOK, RoutingOK
<1>3. CASE Linked(s, ch)
  <2>1. Answer(m, {}) /\ UNCHANGED linkingCtoS
    BY <1>3 DEF JoinS2S
  <2>2. RoutingOK'
    BY <1>1, <1>2, <2>1 DEF TypeOK, RoutingOK
  <2>3. WorldOK'
    BY <1>1, <2>1, WorldFrame
  <2> QED
    BY <1>1, <2>2, <2>3, Frame DEF TypeOK
<1>4. CASE ~Linked(s, ch)
  <2>1. /\ Answer(m, ForwardedJoins(s, m.from, ch))
        /\ linkingCtoS' = [linkingCtoS EXCEPT ![s] = Put(@, ch, ForwardList(s, m.from))]
    BY <1>4 DEF JoinS2S
  <2>2. RoutingOK'
    BY <1>1, <1>2, <2>1, ForwardListType, NewLinksType
  <2>3. WorldOK'
    BY <1>1, <2>1, ForwardListType, WorldFrame
  <2> QED
    BY <1>1, <2>2, <2>3, Frame DEF TypeOK
<1> QED
  BY <1>3, <1>4

\* A leave from a server.
LEMMA LeaveS2STypeOK ==
  ASSUME TypeOK, NEW m \in InFlight, LeaveS2S(m)
  PROVE  TypeOK'
<1> DEFINE s == m.to
           ch == m.channel
<1>1. /\ s \in Servers /\ m.from \in Servers /\ ch \in Channels
      /\ Answer(m, {}) /\ out' = {}
      /\ UNCHANGED <<rooms, serverAddrs, hardstateAddrs, hardstate, relay, up>>
  BY ReceivedType DEF LeaveS2S, Receive
<1>2. RoutingOK'
  <2>1. CASE ~Linked(s, ch)
    BY <1>1, <2>1 DEF LeaveS2S, TypeOK, RoutingOK
  <2>2. CASE Linked(s, ch)
    <3> DEFINE L == Unlink(s, linkingCtoS[s][ch], m.from)
    <3>1. linkingCtoS' = [linkingCtoS EXCEPT ![s] = Put(@, ch, L)]
      BY <2>2 DEF LeaveS2S
    <3>2. /\ linkingCtoS[s][ch] \subseteq Servers
          /\ linkingCtoS[s][ch] \subseteq Range(Neighbours[s])
      BY <1>1, <2>2, MapElim DEF Linked, TypeOK, RoutingOK
    <3>3. L \in SUBSET Servers /\ L \subseteq Range(Neighbours[s])
      BY <3>2 DEF Unlink
    <3>4. hardstateAddrs' \in [Servers -> SUBSET Servers]
      BY <1>1 DEF TypeOK, RoutingOK
    <3> HIDE DEF L
    <3> QED
      BY <1>1, <3>1, <3>3, <3>4, NewLinksType
  <2> QED
    BY <2>1, <2>2
<1>3. WorldOK'
  BY <1>1, WorldFrame
<1> QED
  BY <1>1, <1>2, <1>3, Frame DEF TypeOK

\* A say from a server.
LEMMA SayS2STypeOK ==
  ASSUME TypeOK, NEW m \in InFlight, SayS2S(m)
  PROVE  TypeOK'
<1> DEFINE s == m.to
           ch == m.channel
<1>1. /\ s \in Servers /\ m.from \in Servers /\ ch \in Channels /\ m.uid \in Nat
      /\ UNCHANGED <<rooms, routing, fds, lastUid, up>>
  BY ReceivedType DEF SayS2S, Receive
<1>2. CASE Rejects(s, m)
  <2>1. /\ Answer(m, {S2SLeave(s, m.from, ch)})
        /\ out' = {}
        /\ UNCHANGED uids
    BY <1>2 DEF SayS2S
  <2>2. {S2SLeave(s, m.from, ch)} \in SUBSET Datagrams
    BY <1>1 DEF S2SLeave, Datagrams, LeaveDatagrams
  <2>3. WorldOK'
    BY <1>1, <2>1, <2>2, WorldFrame
  <2> QED
    BY <1>1, <2>1, <2>3, Frame DEF TypeOK, relay
<1>3. CASE ~Rejects(s, m)
  <2> DEFINE S == { Garbage(s, n) : n \in OtherLinks(s, ch, m.from) }
  <2>1. /\ uids' = [uids EXCEPT ![s] = Trim(Append(@, m.uid))]
        /\ out' = IF HasChannel(s, ch) THEN SayToMembers(s, ch, m.user, m.text) ELSE {}
        /\ Answer(m, S)
    BY <1>3 DEF SayS2S
  <2>2. OtherLinks(s, ch, m.from) \subseteq Servers
    BY <1>1, MapElim DEF OtherLinks, Linked, TypeOK, RoutingOK
  <2>3. S \in SUBSET Datagrams
    BY <1>1, <2>2 DEF Garbage, Datagrams, GarbageDatagrams
  <2>4. \A x \in out' : x.to \in Clients /\ x.type \in TextTypes
    BY <1>1, <2>1, SayTextsType DEF HasChannel
  <2>5. WorldOK'
    BY <1>1, <2>1, <2>3, <2>4, WorldFrame
  <2>6. uids[s] \in Seq(Nat)
    BY <1>1 DEF TypeOK, RelayOK
  <2>7. Append(uids[s], m.uid) \in Seq(Nat)
    BY <1>1, <2>6
  <2>8. RelayOK'
    BY <1>1, <2>1, <2>7, TrimIsShort DEF TypeOK, RelayOK
  <2> QED
    BY <1>1, <2>5, <2>8, Frame DEF TypeOK
<1> QED
  BY <1>2, <1>3

\* An unknown type, and what the network does by itself.
LEMMA NetworkTypeOK ==
  ASSUME TypeOK, NEW m \in InFlight, BadType(m) \/ Lose(m) \/ Drop(m) \/ Duplicate(m)
  PROVE  TypeOK'
<1>1. /\ out' = {} /\ UNCHANGED <<rooms, routing, relay, up>>
      /\ Answer(m, {}) \/ Transmit({m})
  BY DEF BadType, Lose, Drop, Duplicate
<1>2. {m} \in SUBSET Datagrams
  BY DEF TypeOK, WorldOK
<1>3. WorldOK'
  BY <1>1, <1>2, WorldFrame
<1> QED
  BY <1>1, <1>3, Frame DEF TypeOK

\* A wake-up of the select loop.
LEMMA TimeoutTypeOK ==
  ASSUME TypeOK, NEW s \in Servers, Timeout(s)
  PROVE  TypeOK'
<1>1. /\ Transmit(Renewals(s)) /\ out' = {}
      /\ UNCHANGED <<rooms, linkingCtoS, hardstateAddrs, relay, up>>
  BY DEF Timeout
<1>2. Renewals(s) \in SUBSET Datagrams
  <2>1. /\ DOMAIN linkingCtoS[s] \subseteq Channels
        /\ \A ch \in DOMAIN linkingCtoS[s] : linkingCtoS[s][ch] \subseteq Servers
    BY MapElim DEF TypeOK, RoutingOK
  <2> QED
    BY <2>1 DEF Renewals, S2SJoin, Datagrams, JoinDatagrams
<1>3. RoutingOK'
  <2>1. hardstate' \in [Servers -> {0, 1}]
    BY DEF Timeout, TypeOK, RoutingOK
  <2>2. /\ serverAddrs' \in [Servers -> SUBSET Servers]
        /\ \A x \in Servers : serverAddrs'[x] \subseteq serverAddrs[x]
    BY DEF Timeout, TypeOK, RoutingOK
  <2>3. UNCHANGED <<linkingCtoS, hardstateAddrs>>
    BY <1>1
  <2> QED
    BY <2>1, <2>2, <2>3 DEF TypeOK, RoutingOK
<1>4. WorldOK'
  BY <1>1, <1>2, WorldFrame
<1> QED
  BY <1>1, <1>3, <1>4, Frame DEF TypeOK

\* A restart.
LEMMA StartTypeOK ==
  ASSUME TypeOK, NEW s \in Servers, Start(s)
  PROVE  TypeOK'
<1>1. WorldOK'
  BY DEF Start, TypeOK, WorldOK, InFlight
<1> QED
  BY <1>1, Frame DEF Start, TypeOK

\* The steps of Next, one by one.
LEMMA NextTypeOK == TypeOK /\ [Next]_vars => TypeOK'
<1> SUFFICES ASSUME TypeOK, [Next]_vars PROVE TypeOK'
  OBVIOUS
<1>1. ASSUME NEW c \in Clients, Request(Home[c], c)
      PROVE  TypeOK'
  <2>1. Home[c] \in Servers /\ NamesOf[c] \subseteq Names
    BY ConfigAssumption
  <2> QED
    BY <1>1, <2>1, LoginTypeOK, LogoutTypeOK, JoinTypeOK, LeaveTypeOK, SayTypeOK, QueryTypeOK
    DEF Request
<1>2. ASSUME NEW m \in InFlight, Delivery(m) \/ Drop(m) \/ Duplicate(m) \/ Lose(m)
      PROVE  TypeOK'
  BY <1>2, JoinS2STypeOK, LeaveS2STypeOK, SayS2STypeOK, NetworkTypeOK DEF Delivery
<1>3. ASSUME NEW s \in Servers, Timer(s) \/ Kill(s) \/ Start(s)
      PROVE  TypeOK'
  BY <1>3, TimeoutTypeOK, DieTypeOK, StartTypeOK DEF Timer, SweepCrash, Kill
<1>4. CASE UNCHANGED vars
  BY <1>4 DEF vars, rooms, users, routing, relay, TypeOK, UsersOK, RoutingOK, RelayOK,
              WorldOK, InFlight
<1> QED
  BY <1>1, <1>2, <1>3, <1>4 DEF Next, NextReliable

\* Every reachable state of every instance is well typed: in particular uids never
\* reaches its limit and a server only ever sends to its neighbours.
THEOREM TypeCorrect == Spec => []TypeOK
<1>1. Init => TypeOK
  BY InitTypeOK
<1>2. TypeOK /\ [Next]_vars => TypeOK'
  BY NextTypeOK
<1> QED
  BY <1>1, <1>2, PTL DEF Spec

-----------------------------------------------------------------------------
(* The tables of users and channels agree                                    *)

\* Steps that leave the tables alone, or only flag a user active.
LEMMA RegistryFrame ==
  ASSUME Registry, UNCHANGED <<usernames, rev_usernames, channels>>,
         \A s \in Servers : active_usernames[s] \subseteq active_usernames'[s]
  PROVE  Registry'
BY DEF Registry, OwnNames, SessionsAreRegistered, MembersAreRegistered, CommonIsThere

\* Flagging a user active clears no flag.
LEMMA SetActiveGrows ==
  ASSUME TypeOK, NEW s \in Servers, NEW c, SetActive(s, c)
  PROVE  \A x \in Servers : active_usernames[x] \subseteq active_usernames'[x]
BY DEF SetActive, TypeOK, UsersOK

\* The tables agree in a server that has just started.
LEMMA InitRegistry == Init => Registry
<1> SUFFICES ASSUME Init PROVE Registry
  OBVIOUS
<1>1. \A s \in Servers : /\ DOMAIN usernames[s] = {} /\ DOMAIN rev_usernames[s] = {}
                         /\ DOMAIN channels[s] = {Common}
                         /\ DOMAIN channels[s][Common] = {}
  BY DEF Init, DefaultChannel, NoMembers, EmptyMap, Put
<1> QED
  BY <1>1 DEF Registry, OwnNames, SessionsAreRegistered, MembersAreRegistered, CommonIsThere

\* The tables agree in a server that has stopped: it forgets its users and their channels.
LEMMA DieRegistry ==
  ASSUME TypeOK, Registry, NEW s \in Servers, Die(s)
  PROVE  Registry'
<1>1. /\ DOMAIN usernames'[s] = {} /\ DOMAIN rev_usernames'[s] = {}
      /\ DOMAIN channels'[s] = {Common}
      /\ DOMAIN channels'[s][Common] = {}
  BY DEF Die, Forget, DefaultChannel, NoMembers, EmptyMap, Put, TypeOK, UsersOK
<1>2. \A x \in Servers \ {s} :
        /\ usernames'[x] = usernames[x] /\ rev_usernames'[x] = rev_usernames[x]
        /\ active_usernames'[x] = active_usernames[x] /\ channels'[x] = channels[x]
  BY DEF Die, Forget, TypeOK, UsersOK
<1> QED
  BY <1>1, <1>2 DEF Registry, OwnNames, SessionsAreRegistered, MembersAreRegistered, CommonIsThere

\* A login overwrites the entry of a name only if the same client had it.
LEMMA LoginRegistry ==
  ASSUME SeparateNames, TypeOK, Registry,
         NEW c \in Clients, NEW u \in NamesOf[c], Login(Home[c], c, u)
  PROVE  Registry'
<1> DEFINE s == Home[c]
<1>1. s \in Servers
  BY ConfigAssumption
<1>2. /\ DOMAIN usernames'[s] = DOMAIN usernames[s] \cup {u}
      /\ usernames'[s][u] = c
      /\ \A x \in DOMAIN usernames[s] : x # u => usernames'[s][x] = usernames[s][x]
  <2>1. usernames'[s] = Put(usernames[s], u, c)
    BY <1>1 DEF Login, TypeOK, UsersOK
  <2> QED
    BY <2>1 DEF Put
<1>3. /\ DOMAIN rev_usernames'[s] = DOMAIN rev_usernames[s] \cup {c}
      /\ rev_usernames'[s][c] = u
      /\ \A d \in DOMAIN rev_usernames[s] : d # c => rev_usernames'[s][d] = rev_usernames[s][d]
  <2>1. rev_usernames'[s] = Put(rev_usernames[s], c, u)
    BY <1>1 DEF Login, TypeOK, UsersOK
  <2> QED
    BY <2>1 DEF Put
<1>4. active_usernames'[s] = active_usernames[s] \cup {u} /\ channels' = channels
  BY <1>1 DEF Login, TypeOK, UsersOK
<1>5. \A x \in Servers \ {s} :
        /\ usernames'[x] = usernames[x] /\ rev_usernames'[x] = rev_usernames[x]
        /\ active_usernames'[x] = active_usernames[x]
  BY <1>1 DEF Login, TypeOK, UsersOK
<1>6. \A d \in DOMAIN rev_usernames[s] : d # c => rev_usernames[s][d] # u
  <2>1. DOMAIN rev_usernames[s] \subseteq Clients
    BY <1>1, MapElim DEF TypeOK, UsersOK
  <2> QED
    BY <1>1, <2>1 DEF SeparateNames, Registry, OwnNames
<1>7. u \in DOMAIN usernames[s] => usernames[s][u] = c
  <2>1. u \in DOMAIN usernames[s] => usernames[s][u] \in Clients
    BY <1>1, MapElim DEF TypeOK, UsersOK
  <2> QED
    BY <1>1, <2>1 DEF SeparateNames, Registry, OwnNames
<1>8. OwnNames'
  BY <1>2, <1>3, <1>5 DEF Registry, OwnNames
<1>9. SessionsAreRegistered'
  <2>1. ASSUME NEW x \in Servers, NEW d \in DOMAIN rev_usernames'[x]
        PROVE  /\ rev_usernames'[x][d] \in DOMAIN usernames'[x]
               /\ usernames'[x][rev_usernames'[x][d]] = d
               /\ rev_usernames'[x][d] \in active_usernames'[x]
    <3>1. CASE x # s
      BY <1>5, <2>1, <3>1 DEF Registry, SessionsAreRegistered
    <3>2. CASE x = s /\ d = c
      BY <1>2, <1>3, <1>4, <3>2
    <3>3. CASE x = s /\ d # c
      BY <1>2, <1>3, <1>4, <1>6, <2>1, <3>3 DEF Registry, SessionsAreRegistered
    <3> QED
      BY <3>1, <3>2, <3>3
  <2> QED
    BY <2>1 DEF SessionsAreRegistered
<1>10. MembersAreRegistered'
  <2>1. ASSUME NEW x \in Servers, NEW ch \in DOMAIN channels[x], NEW y \in DOMAIN channels[x][ch]
        PROVE  y \in DOMAIN usernames'[x] /\ channels[x][ch][y] = usernames'[x][y]
    <3>1. y \in DOMAIN usernames[x] /\ channels[x][ch][y] = usernames[x][y]
      BY DEF Registry, MembersAreRegistered
    <3>2. CASE x # s
      BY <1>5, <3>1, <3>2
    <3>3. CASE x = s
      BY <1>2, <1>7, <3>1, <3>3
    <3> QED
      BY <3>2, <3>3
  <2> QED
    BY <1>4, <2>1 DEF MembersAreRegistered
<1>11. CommonIsThere'
  BY <1>4 DEF Registry, CommonIsThere
<1> QED
  BY <1>8, <1>9, <1>10, <1>11 DEF Registry

\* A logout takes the name out of every table it is in.
LEMMA LogoutRegistry ==
  ASSUME SeparateNames, TypeOK, Registry, NEW c \in Clients, Logout(Home[c], c)
  PROVE  Registry'
<1> DEFINE s == Home[c]
           u == rev_usernames[s][c]
<1>1. s \in Servers
  BY ConfigAssumption
<1>2. CASE Refuse(s, c)
  BY <1>2, RegistryFrame DEF Refuse, rooms, users
<1>3. CASE LogoutCrash(s, c)
  BY <1>1, <1>3, DieRegistry DEF LogoutCrash
<1>4. CASE ~Refuse(s, c) /\ ~LogoutCrash(s, c)
  <2>1. /\ usernames' = [usernames EXCEPT ![s] = Erase(@, u)]
        /\ active_usernames' = [active_usernames EXCEPT ![s] = @ \ {u}]
        /\ RemoveFromRooms(s, u)
        /\ EraseSession(s, c)
        /\ c \in DOMAIN rev_usernames[s]
    BY <1>4 DEF Logout, Serve, LoggedIn
  <2>2. /\ DOMAIN usernames'[s] = DOMAIN usernames[s] \ {u}
        /\ \A x \in DOMAIN usernames'[s] : usernames'[s][x] = usernames[s][x]
    BY <1>1, <2>1 DEF Erase, Restrict, TypeOK, UsersOK
  <2>3. /\ DOMAIN rev_usernames'[s] = DOMAIN rev_usernames[s] \ {c}
        /\ \A d \in DOMAIN rev_usernames'[s] : rev_usernames'[s][d] = rev_usernames[s][d]
    BY <1>1, <2>1 DEF EraseSession, Erase, Restrict, TypeOK, UsersOK
  <2>4. /\ DOMAIN channels'[s] = DOMAIN channels[s]
        /\ \A ch \in DOMAIN channels[s] :
             /\ DOMAIN channels'[s][ch] = DOMAIN channels[s][ch] \ {u}
             /\ \A y \in DOMAIN channels'[s][ch] : channels'[s][ch][y] = channels[s][ch][y]
    BY <1>1, <2>1 DEF RemoveFromRooms, Erase, Restrict, TypeOK, UsersOK
  <2>5. active_usernames'[s] = active_usernames[s] \ {u}
    BY <1>1, <2>1 DEF TypeOK, UsersOK
  <2>6. \A x \in Servers \ {s} :
          /\ usernames'[x] = usernames[x] /\ rev_usernames'[x] = rev_usernames[x]
          /\ active_usernames'[x] = active_usernames[x] /\ channels'[x] = channels[x]
    BY <1>1, <2>1 DEF RemoveFromRooms, EraseSession, TypeOK, UsersOK
  <2>7. \A d \in DOMAIN rev_usernames[s] : d # c => rev_usernames[s][d] # u
    <3>1. DOMAIN rev_usernames[s] \subseteq Clients
      BY <1>1, MapElim DEF TypeOK, UsersOK
    <3> QED
      BY <1>1, <2>1, <3>1 DEF SeparateNames, Registry, OwnNames
  <2>8. OwnNames'
    BY <1>1, <2>2, <2>3, <2>6 DEF Registry, OwnNames
  <2>9. SessionsAreRegistered'
    <3>1. ASSUME NEW x \in Servers, NEW d \in DOMAIN rev_usernames'[x]
          PROVE  /\ rev_usernames'[x][d] \in DOMAIN usernames'[x]
                 /\ usernames'[x][rev_usernames'[x][d]] = d
                 /\ rev_usernames'[x][d] \in active_usernames'[x]
      <4>1. CASE x # s
        BY <2>6, <3>1, <4>1 DEF Registry, SessionsAreRegistered
      <4>2. CASE x = s
        BY <2>2, <2>3, <2>5, <2>7, <3>1, <4>2 DEF Registry, SessionsAreRegistered
      <4> QED
        BY <4>1, <4>2
    <3> QED
      BY <3>1 DEF SessionsAreRegistered
  <2>10. MembersAreRegistered'
    <3>1. ASSUME NEW x \in Servers, NEW ch \in DOMAIN channels'[x],
                 NEW y \in DOMAIN channels'[x][ch]
          PROVE  y \in DOMAIN usernames'[x] /\ channels'[x][ch][y] = usernames'[x][y]
      <4>1. CASE x # s
        BY <2>6, <3>1, <4>1 DEF Registry, MembersAreRegistered
      <4>2. CASE x = s
        <5>1. /\ ch \in DOMAIN channels[s]
              /\ y \in DOMAIN channels[s][ch] /\ y # u
              /\ channels'[s][ch][y] = channels[s][ch][y]
          BY <2>4, <3>1, <4>2
        <5>2. y \in DOMAIN usernames[s] /\ channels[s][ch][y] = usernames[s][y]
          BY <1>1, <5>1 DEF Registry, MembersAreRegistered
        <5> QED
          BY <2>2, <4>2, <5>1, <5>2
      <4> QED
        BY <4>1, <4>2
    <3> QED
      BY <3>1 DEF MembersAreRegistered
  <2>11. CommonIsThere'
    BY <2>4, <2>6 DEF Registry, CommonIsThere
  <2> QED
    BY <2>8, <2>9, <2>10, <2>11 DEF Registry
<1> QED
  BY <1>2, <1>3, <1>4

\* Steps that change the channels of one server and no user's name.
LEMMA ChannelsRegistry ==
  ASSUME TypeOK, Registry, NEW s \in Servers,
         UNCHANGED <<usernames, rev_usernames>>,
         \A x \in Servers : active_usernames[x] \subseteq active_usernames'[x],
         \A x \in Servers \ {s} : channels'[x] = channels[x],
         Common \in DOMAIN channels'[s],
         \A ch \in DOMAIN channels'[s] : \A y \in DOMAIN channels'[s][ch] :
           y \in DOMAIN usernames[s] /\ channels'[s][ch][y] = usernames[s][y]
  PROVE  Registry'
<1>1. MembersAreRegistered'
  BY DEF Registry, MembersAreRegistered
<1>2. OwnNames' /\ SessionsAreRegistered' /\ CommonIsThere'
  BY DEF Registry, OwnNames, SessionsAreRegistered, CommonIsThere
<1> QED
  BY <1>1, <1>2 DEF Registry

\* A join enters the user under the address of its session.
LEMMA JoinRegistry ==
  ASSUME TypeOK, Registry, NEW s \in Servers, NEW c \in Clients, NEW ch \in Channels,
         Join(s, c, ch)
  PROVE  Registry'
<1> DEFINE u == rev_usernames[s][c]
           old == IF HasChannel(s, ch) THEN channels[s][ch] ELSE NoMembers
<1>1. CASE Refuse(s, c)
  BY <1>1, RegistryFrame DEF Refuse, rooms, users
<1>2. CASE ~Refuse(s, c)
  <2>1. /\ Serve(s, c) /\ SetActive(s, c) /\ AddMember(s, c, ch)
        /\ UNCHANGED <<usernames, rev_usernames>>
    BY <1>2 DEF Join
  <2>2. u \in DOMAIN usernames[s] /\ usernames[s][u] = c
    BY <2>1 DEF Serve, LoggedIn, Registry, SessionsAreRegistered
  <2>3. channels' = [channels EXCEPT ![s] = Put(channels[s], ch, Put(old, u, c))]
    BY <2>1 DEF AddMember
  <2>4. channels'[s] = Put(channels[s], ch, Put(old, u, c))
    BY <2>3 DEF TypeOK, UsersOK
  <2>5. \A x \in Servers \ {s} : channels'[x] = channels[x]
    BY <2>3 DEF TypeOK, UsersOK
  <2>6. Common \in DOMAIN channels'[s]
    BY <2>4 DEF Put, Registry, CommonIsThere
  <2>7. \A y \in DOMAIN old : y \in DOMAIN usernames[s] /\ old[y] = usernames[s][y]
    BY DEF NoMembers, EmptyMap, HasChannel, Registry, MembersAreRegistered
  <2> HIDE DEF old, u
  <2>8. ASSUME NEW x \in DOMAIN channels'[s], NEW y \in DOMAIN channels'[s][x]
        PROVE  y \in DOMAIN usernames[s] /\ channels'[s][x][y] = usernames[s][y]
    <3>1. CASE x = ch
      <4>1. channels'[s][x] = Put(old, u, c)
        BY <2>4, <3>1 DEF Put
      <4> QED
        BY <2>2, <2>7, <2>8, <4>1 DEF Put
    <3>2. CASE x # ch
      <4>1. x \in DOMAIN channels[s] /\ channels'[s][x] = channels[s][x]
        BY <2>4, <2>8, <3>2 DEF Put
      <4> QED
        BY <2>8, <4>1 DEF Registry, MembersAreRegistered
    <3> QED
      BY <3>1, <3>2
  <2> QED
    BY <2>1, <2>5, <2>6, <2>8, SetActiveGrows, ChannelsRegistry
<1> QED
  BY <1>1, <1>2

\* A leave removes one member and never the default channel.
LEMMA LeaveRegistry ==
  ASSUME TypeOK, Registry, NEW s \in Servers, NEW c \in Clients, NEW ch \in Channels,
         Leave(s, c, ch)
  PROVE  Registry'
<1> DEFINE u == rev_usernames[s][c]
           rest == Erase(channels[s][ch], u)
<1>1. CASE Refuse(s, c)
  BY <1>1, RegistryFrame DEF Refuse, rooms, users
<1>2. CASE ~Refuse(s, c) /\ Complaint(s, c, ch) # {}
  BY <1>2, RegistryFrame, SetActiveGrows DEF Leave
<1>3. CASE ~Refuse(s, c) /\ Complaint(s, c, ch) = {}
  <2>1. /\ SetActive(s, c) /\ RemoveMember(s, u, ch)
        /\ UNCHANGED <<usernames, rev_usernames>>
    BY <1>3 DEF Leave
  <2>2. ch \in DOMAIN channels[s]
    BY <1>3 DEF Complaint, HasChannel
  <2>3. \/ channels' = [channels EXCEPT ![s] = Erase(channels[s], ch)] /\ ch # Common
        \/ channels' = [channels EXCEPT ![s] = Put(channels[s], ch, rest)]
    BY <2>1 DEF RemoveMember
  <2>4. \A x \in Servers \ {s} : channels'[x] = channels[x]
    BY <2>3 DEF TypeOK, UsersOK
  <2>5. \/ channels'[s] = Erase(channels[s], ch) /\ ch # Common
        \/ channels'[s] = Put(channels[s], ch, rest)
    BY <2>3 DEF TypeOK, UsersOK
  <2>6. \A y \in DOMAIN rest : y \in DOMAIN usernames[s] /\ rest[y] = usernames[s][y]
    BY <2>2 DEF Erase, Restrict, Registry, MembersAreRegistered
  <2>7. Common \in DOMAIN channels[s]
    BY DEF Registry, CommonIsThere
  <2> HIDE DEF rest
  <2>8. Common \in DOMAIN channels'[s]
    BY <2>5, <2>7 DEF Erase, Restrict, Put
  <2>9. ASSUME NEW x \in DOMAIN channels'[s], NEW y \in DOMAIN channels'[s][x]
        PROVE  y \in DOMAIN usernames[s] /\ channels'[s][x][y] = usernames[s][y]
    <3>1. \/ x = ch /\ channels'[s][x] = rest
          \/ x \in DOMAIN channels[s] /\ channels'[s][x] = channels[s][x]
      BY <2>5, <2>9 DEF Erase, Restrict, Put
    <3>2. CASE channels'[s][x] = rest
      BY <2>6, <2>9, <3>2
    <3>3. CASE x \in DOMAIN channels[s] /\ channels'[s][x] = channels[s][x]
      BY <2>9, <3>3 DEF Registry, MembersAreRegistered
    <3> QED
      BY <3>1, <3>2, <3>3
  <2> QED
    BY <2>1, <2>4, <2>8, <2>9, SetActiveGrows, ChannelsRegistry
<1> QED
  BY <1>1, <1>2, <1>3

\* Every step keeps the tables in agreement.
LEMMA NextRegistry == SeparateNames /\ TypeOK /\ Registry /\ [Next]_vars => Registry'
<1> SUFFICES ASSUME SeparateNames, TypeOK, Registry, [Next]_vars PROVE Registry'
  OBVIOUS
<1>1. ASSUME NEW c \in Clients, Request(Home[c], c)
      PROVE  Registry'
  <2> DEFINE s == Home[c]
  <2>1. s \in Servers
    BY ConfigAssumption
  <2>2. CASE Refuse(s, c)
    BY <2>2, RegistryFrame DEF Refuse, rooms, users
  <2>3. CASE \E ch \in Channels, t \in Texts : Say(s, c, ch, t)
    BY <2>1, <2>2, <2>3, RegistryFrame, SetActiveGrows DEF Say
  <2>4. CASE List(s, c) \/ \E ch \in Channels : Who(s, c, ch)
    BY <2>1, <2>2, <2>4, RegistryFrame, SetActiveGrows DEF List, Who
  <2>5. CASE UnknownCommand(s, c)
    BY <2>5, RegistryFrame DEF UnknownCommand, rooms, users
  <2> QED
    BY <1>1, <2>1, <2>3, <2>4, <2>5, LoginRegistry, LogoutRegistry, JoinRegistry, LeaveRegistry
    DEF Request
<1>2. ASSUME NEW m \in InFlight, Delivery(m) \/ Drop(m) \/ Duplicate(m) \/ Lose(m)
      PROVE  Registry'
  BY <1>2, RegistryFrame
  DEF Delivery, JoinS2S, LeaveS2S, SayS2S, BadType, Drop, Duplicate, Lose, rooms, users
<1>3. ASSUME NEW s \in Servers, Timer(s) \/ Kill(s) \/ Start(s)
      PROVE  Registry'
  <2>1. CASE Timeout(s) \/ Start(s)
    BY <2>1, RegistryFrame DEF Timeout, Start, rooms, users
  <2> QED
    BY <1>3, <2>1, DieRegistry DEF Timer, SweepCrash, Kill
<1>4. CASE UNCHANGED vars
  BY <1>4, RegistryFrame DEF vars, rooms, users
<1> QED
  BY <1>1, <1>2, <1>3, <1>4 DEF Next, NextReliable

\* As long as no two clients of a server use one name, the three tables of every
\* server agree at all times, whatever its clients send and in whatever order.
THEOREM TablesAgree ==
  ASSUME SeparateNames
  PROVE  Spec => [](SessionsAreRegistered /\ MembersAreRegistered /\ CommonIsThere)
<1>1. Init => Registry
  BY InitRegistry
<1>2. TypeOK /\ Registry /\ [Next]_vars => Registry'
  BY NextRegistry
<1>3. Registry => SessionsAreRegistered /\ MembersAreRegistered /\ CommonIsThere
  BY DEF Registry
<1> QED
  BY <1>1, <1>2, <1>3, TypeCorrect, PTL DEF Spec

\* In particular a session is always one that usernames knows by the same name, and
\* that is flagged active.
THEOREM SessionsStayRegistered ==
  ASSUME SeparateNames
  PROVE  Spec => []SessionsAreRegistered
BY TablesAgree, PTL

\* And the channel main creates outlives every leave, logout and restart.
THEOREM CommonStays ==
  ASSUME SeparateNames
  PROVE  Spec => []CommonIsThere
BY TablesAgree, PTL

\* And so no logout ever makes a server erase an entry that is not there.
THEOREM LogoutsAreSafe ==
  ASSUME SeparateNames
  PROVE  Spec => [][\A c \in Clients : ~LogoutCrash(Home[c], c)]_vars
<1>1. SessionsAreRegistered => \A c \in Clients : ~LogoutCrash(Home[c], c)
  BY ConfigAssumption DEF SessionsAreRegistered, LogoutCrash, Serve, LoggedIn
<1> QED
  BY <1>1, TablesAgree, PTL DEF Spec
=============================================================================
