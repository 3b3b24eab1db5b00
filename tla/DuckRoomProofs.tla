--------------------------- MODULE DuckRoomProofs ---------------------------
(***************************************************************************)
(* Theorems about what the clients of a server see of it: that DuckServer  *)
(* implements ChatRoom, for every number of servers, clients and channels. *)
(***************************************************************************)
EXTENDS DuckRoom, DuckServerProofs, FiniteSetTheorems

\* Every client logs in under one name, however often it does.
OneNameEach == \A c \in Clients : \A u, v \in NamesOf[c] : u = v

\* Whoever is registered has a session.
RegisteredArePresent ==
  \A s \in Servers : \A u \in DOMAIN usernames[s] : LoggedIn(s, usernames[s][u])

RoomInv == TypeOK /\ Registry /\ RegisteredArePresent

-----------------------------------------------------------------------------
(* The tables, seen from one client                                          *)

\* A client is in a channel under the name of its session, and under no other.
LEMMA OneEntry ==
  ASSUME OneNameEach, RoomInv, NEW s \in Servers, NEW c \in Clients, LoggedIn(s, c),
         NEW ch \in DOMAIN channels[s], NEW y \in DOMAIN channels[s][ch]
  PROVE  channels[s][ch][y] = c <=> y = rev_usernames[s][c]
<1>1. y \in DOMAIN usernames[s] /\ channels[s][ch][y] = usernames[s][y]
  BY DEF RoomInv, Registry, MembersAreRegistered
<1>2. /\ usernames[s][rev_usernames[s][c]] = c
      /\ rev_usernames[s][c] \in NamesOf[c]
  BY DEF LoggedIn, RoomInv, Registry, SessionsAreRegistered, OwnNames
<1>3. y \in NamesOf[usernames[s][y]]
  BY <1>1 DEF RoomInv, Registry, OwnNames
<1> QED
  BY <1>1, <1>2, <1>3 DEF OneNameEach

\* The addresses of a channel's entries are of clients that are logged in.
LEMMA MembersArePresent ==
  ASSUME RoomInv, NEW s \in Servers, NEW ch \in DOMAIN channels[s],
         NEW y \in DOMAIN channels[s][ch]
  PROVE  /\ channels[s][ch][y] \in Clients
         /\ Home[channels[s][ch][y]] = s
         /\ LoggedIn(s, channels[s][ch][y])
<1>1. y \in DOMAIN usernames[s] /\ channels[s][ch][y] = usernames[s][y]
  BY DEF RoomInv, Registry, MembersAreRegistered
<1>2. usernames[s][y] \in Clients
  BY <1>1, MapElim DEF RoomInv, TypeOK, UsersOK
<1> QED
  BY <1>1, <1>2 DEF RoomInv, Registry, OwnNames, RegisteredArePresent

\* What a login does to the sessions.
LEMMA LoginEffect ==
  ASSUME TypeOK, NEW s \in Servers, NEW c \in Clients, NEW u, Login(s, c, u)
  PROVE  /\ DOMAIN rev_usernames'[s] = DOMAIN rev_usernames[s] \cup {c}
         /\ DOMAIN usernames'[s] = DOMAIN usernames[s] \cup {u}
         /\ usernames'[s][u] = c
         /\ \A x \in DOMAIN usernames[s] \ {u} : usernames'[s][x] = usernames[s][x]
         /\ \A x \in Servers \ {s} : /\ usernames'[x] = usernames[x]
                                     /\ rev_usernames'[x] = rev_usernames[x]
         /\ channels' = channels /\ out' = {}
<1>1. /\ rev_usernames'[s] = Put(rev_usernames[s], c, u)
      /\ usernames'[s] = Put(usernames[s], u, c)
      /\ \A x \in Servers \ {s} : /\ usernames'[x] = usernames[x]
                                  /\ rev_usernames'[x] = rev_usernames[x]
      /\ channels' = channels /\ out' = {}
  BY DEF Login, TypeOK, UsersOK
<1> QED
  BY <1>1 DEF Put

\* What a logout does to the tables.
LEMMA LogoutEffect ==
  ASSUME TypeOK, NEW s \in Servers, NEW c \in Clients, Logout(s, c),
         ~Refuse(s, c), ~LogoutCrash(s, c)
  PROVE  LET u == rev_usernames[s][c] IN
         /\ LoggedIn(s, c)
         /\ DOMAIN rev_usernames'[s] = DOMAIN rev_usernames[s] \ {c}
         /\ DOMAIN usernames'[s] = DOMAIN usernames[s] \ {u}
         /\ \A x \in DOMAIN usernames'[s] : usernames'[s][x] = usernames[s][x]
         /\ DOMAIN channels'[s] = DOMAIN channels[s]
         /\ \A ch \in DOMAIN channels[s] :
              /\ DOMAIN channels'[s][ch] = DOMAIN channels[s][ch] \ {u}
              /\ \A y \in DOMAIN channels'[s][ch] : channels'[s][ch][y] = channels[s][ch][y]
         /\ \A x \in Servers \ {s} :
              /\ usernames'[x] = usernames[x] /\ rev_usernames'[x] = rev_usernames[x]
              /\ channels'[x] = channels[x]
         /\ out' = {}
<1> DEFINE u == rev_usernames[s][c]
<1>1. /\ usernames' = [usernames EXCEPT ![s] = Erase(@, u)]
      /\ RemoveFromRooms(s, u)
      /\ EraseSession(s, c)
      /\ LoggedIn(s, c) /\ out' = {}
  BY DEF Logout, Serve
<1>2. /\ DOMAIN usernames'[s] = DOMAIN usernames[s] \ {u}
      /\ \A x \in DOMAIN usernames'[s] : usernames'[s][x] = usernames[s][x]
  BY <1>1 DEF Erase, Restrict, TypeOK, UsersOK
<1>3. DOMAIN rev_usernames'[s] = DOMAIN rev_usernames[s] \ {c}
  BY <1>1 DEF EraseSession, Erase, Restrict, TypeOK, UsersOK
<1>4. /\ DOMAIN channels'[s] = DOMAIN channels[s]
      /\ \A ch \in DOMAIN channels[s] :
           /\ DOMAIN channels'[s][ch] = DOMAIN channels[s][ch] \ {u}
           /\ \A y \in DOMAIN channels'[s][ch] : channels'[s][ch][y] = channels[s][ch][y]
  BY <1>1 DEF RemoveFromRooms, Erase, Restrict, TypeOK, UsersOK
<1>5. \A x \in Servers \ {s} :
        /\ usernames'[x] = usernames[x] /\ rev_usernames'[x] = rev_usernames[x]
        /\ channels'[x] = channels[x]
  BY <1>1 DEF RemoveFromRooms, EraseSession, TypeOK, UsersOK
<1> QED
  BY <1>1, <1>2, <1>3, <1>4, <1>5

\* What the death of a server does to them.
LEMMA DieEffect ==
  ASSUME TypeOK, NEW s \in Servers, Die(s)
  PROVE  /\ DOMAIN usernames'[s] = {} /\ DOMAIN rev_usernames'[s] = {}
         /\ DOMAIN channels'[s] = {Common} /\ DOMAIN channels'[s][Common] = {}
         /\ \A x \in Servers \ {s} :
              /\ usernames'[x] = usernames[x] /\ rev_usernames'[x] = rev_usernames[x]
              /\ channels'[x] = channels[x] /\ up'[x] = up[x]
         /\ up'[s] = FALSE /\ out' = {}
BY DEF Die, Forget, DefaultChannel, NoMembers, EmptyMap, Put, TypeOK, UsersOK, WorldOK

\* What a join does to the channels.
LEMMA JoinEffect ==
  ASSUME TypeOK, NEW s \in Servers, NEW c \in Clients, NEW ch \in Channels,
         Join(s, c, ch), ~Refuse(s, c)
  PROVE  LET u == rev_usernames[s][c] IN
         /\ LoggedIn(s, c)
         /\ DOMAIN channels'[s] = DOMAIN channels[s] \cup {ch}
         /\ DOMAIN channels'[s][ch] =
              (IF HasChannel(s, ch) THEN DOMAIN channels[s][ch] ELSE {}) \cup {u}
         /\ channels'[s][ch][u] = c
         /\ HasChannel(s, ch) =>
              \A y \in DOMAIN channels[s][ch] \ {u} : channels'[s][ch][y] = channels[s][ch][y]
         /\ \A x \in DOMAIN channels[s] \ {ch} : channels'[s][x] = channels[s][x]
         /\ \A x \in Servers \ {s} : channels'[x] = channels[x]
         /\ UNCHANGED <<usernames, rev_usernames>> /\ out' = {}
<1> DEFINE u == rev_usernames[s][c]
           old == IF HasChannel(s, ch) THEN channels[s][ch] ELSE NoMembers
<1>1. /\ Serve(s, c) /\ AddMember(s, c, ch) /\ out' = {}
      /\ UNCHANGED <<usernames, rev_usernames>>
  BY DEF Join
<1>2. /\ channels'[s] = Put(channels[s], ch, Put(old, u, c))
      /\ \A x \in Servers \ {s} : channels'[x] = channels[x]
  BY <1>1 DEF AddMember, TypeOK, UsersOK
<1> HIDE DEF old, u
<1>3. /\ DOMAIN channels'[s] = DOMAIN channels[s] \cup {ch}
      /\ channels'[s][ch] = Put(old, u, c)
      /\ \A x \in DOMAIN channels[s] \ {ch} : channels'[s][x] = channels[s][x]
  BY <1>2 DEF Put
<1>4. /\ DOMAIN channels'[s][ch] = DOMAIN old \cup {u}
      /\ channels'[s][ch][u] = c
      /\ \A y \in DOMAIN old \ {u} : channels'[s][ch][y] = old[y]
  BY <1>3 DEF Put
<1>5. DOMAIN NoMembers = {}
  BY DEF NoMembers, EmptyMap
<1> QED
  BY <1>1, <1>2, <1>3, <1>4, <1>5 DEF old, u, Serve

\* What a leave that is not refused does to the channels.
LEMMA LeaveEffect ==
  ASSUME TypeOK, NEW s \in Servers, NEW c \in Clients, NEW ch \in Channels,
         Leave(s, c, ch), ~Refuse(s, c), Complaint(s, c, ch) = {}
  PROVE  LET u == rev_usernames[s][c] IN
         /\ LoggedIn(s, c) /\ HasChannel(s, ch) /\ u \in DOMAIN channels[s][ch]
         /\ \/ /\ DOMAIN channels'[s] = DOMAIN channels[s] \ {ch}
               /\ DOMAIN channels[s][ch] = {u} /\ ch # Common
            \/ /\ DOMAIN channels'[s] = DOMAIN channels[s]
               /\ DOMAIN channels'[s][ch] = DOMAIN channels[s][ch] \ {u}
               /\ \A y \in DOMAIN channels'[s][ch] : channels'[s][ch][y] = channels[s][ch][y]
         /\ \A x \in DOMAIN channels[s] \ {ch} : channels'[s][x] = channels[s][x]
         /\ \A x \in Servers \ {s} : channels'[x] = channels[x]
         /\ UNCHANGED <<usernames, rev_usernames, up>> /\ out' = {}
<1> DEFINE u == rev_usernames[s][c]
           rest == Erase(channels[s][ch], u)
<1>1. /\ Serve(s, c) /\ RemoveMember(s, u, ch) /\ out' = {}
      /\ UNCHANGED <<usernames, rev_usernames, up>>
  BY DEF Leave
<1>2. HasChannel(s, ch) /\ u \in DOMAIN channels[s][ch]
  BY DEF Complaint
<1>3. /\ DOMAIN rest = DOMAIN channels[s][ch] \ {u}
      /\ \A y \in DOMAIN rest : rest[y] = channels[s][ch][y]
  BY DEF Erase, Restrict
<1>4. \/ /\ channels' = [channels EXCEPT ![s] = Erase(channels[s], ch)]
         /\ DOMAIN rest = {} /\ ch # Common
      \/ channels' = [channels EXCEPT ![s] = Put(channels[s], ch, rest)]
  BY <1>1 DEF RemoveMember
<1> HIDE DEF rest
<1>5. /\ \A x \in Servers \ {s} : channels'[x] = channels[x]
      /\ \/ channels'[s] = Erase(channels[s], ch) /\ DOMAIN rest = {} /\ ch # Common
         \/ channels'[s] = Put(channels[s], ch, rest)
  BY <1>4 DEF TypeOK, UsersOK
<1>6. \A x \in DOMAIN channels[s] \ {ch} : channels'[s][x] = channels[s][x]
  BY <1>5 DEF Erase, Restrict, Put
<1>7. CASE channels'[s] = Erase(channels[s], ch) /\ DOMAIN rest = {} /\ ch # Common
  <2>1. DOMAIN channels'[s] = DOMAIN channels[s] \ {ch} /\ DOMAIN channels[s][ch] = {u}
    BY <1>2, <1>3, <1>7 DEF Erase, Restrict
  <2> QED
    BY <1>1, <1>2, <1>5, <1>6, <1>7, <2>1 DEF Serve
<1>8. CASE channels'[s] = Put(channels[s], ch, rest)
  <2>1. DOMAIN channels'[s] = DOMAIN channels[s] /\ channels'[s][ch] = rest
    BY <1>2, <1>8 DEF Put, HasChannel
  <2> QED
    BY <1>1, <1>2, <1>3, <1>5, <1>6, <2>1 DEF Serve
<1> QED
  BY <1>5, <1>7, <1>8

-----------------------------------------------------------------------------
(* The invariant                                                             *)

\* Steps that leave the users alone, or refuse one.
LEMMA PresentFrame ==
  ASSUME RegisteredArePresent, UNCHANGED <<usernames, rev_usernames>>
  PROVE  RegisteredArePresent'
BY DEF RegisteredArePresent, LoggedIn

LEMMA DiePresent ==
  ASSUME TypeOK, RegisteredArePresent, NEW s \in Servers, Die(s)
  PROVE  RegisteredArePresent'
<1>1. /\ DOMAIN usernames'[s] = {}
      /\ \A x \in Servers \ {s} :
           usernames'[x] = usernames[x] /\ rev_usernames'[x] = rev_usernames[x]
  BY DieEffect
<1> QED
  BY <1>1 DEF RegisteredArePresent, LoggedIn

\* Only the name of the client that goes loses its session.
LEMMA LogoutPresent ==
  ASSUME OneNameEach, RoomInv, NEW c \in Clients, Logout(Home[c], c)
  PROVE  RegisteredArePresent'
<1> DEFINE s == Home[c]
           u == rev_usernames[s][c]
<1>1. s \in Servers
  BY ConfigAssumption
<1>2. CASE Refuse(s, c)
  BY <1>2, PresentFrame DEF Refuse, rooms, users, RoomInv
<1>3. CASE LogoutCrash(s, c)
  BY <1>1, <1>3, DiePresent DEF LogoutCrash, RoomInv
<1>4. CASE ~Refuse(s, c) /\ ~LogoutCrash(s, c)
  <2>1. /\ LoggedIn(s, c)
        /\ DOMAIN rev_usernames'[s] = DOMAIN rev_usernames[s] \ {c}
        /\ DOMAIN usernames'[s] = DOMAIN usernames[s] \ {u}
        /\ \A x \in DOMAIN usernames'[s] : usernames'[s][x] = usernames[s][x]
        /\ \A x \in Servers \ {s} :
             usernames'[x] = usernames[x] /\ rev_usernames'[x] = rev_usernames[x]
    BY <1>1, <1>4, LogoutEffect DEF RoomInv
  <2>2. ASSUME NEW y \in DOMAIN usernames[s], usernames[s][y] = c
        PROVE  y = u
    <3>1. y \in NamesOf[c] /\ u \in NamesOf[c]
      BY <1>1, <2>1, <2>2 DEF RoomInv, Registry, OwnNames, LoggedIn
    <3> QED
      BY <3>1 DEF OneNameEach
  <2> QED
    BY <1>1, <2>1, <2>2 DEF RegisteredArePresent, RoomInv, LoggedIn
<1> QED
  BY <1>2, <1>3, <1>4

\* Every step keeps a session for every name.
LEMMA NextPresent ==
  ASSUME OneNameEach, RoomInv, [Next]_vars
  PROVE  RegisteredArePresent'
<1>0. TypeOK /\ RegisteredArePresent
  BY DEF RoomInv
<1>1. ASSUME NEW c \in Clients, Request(Home[c], c)
      PROVE  RegisteredArePresent'
  <2> DEFINE s == Home[c]
  <2>1. s \in Servers
    BY ConfigAssumption
  <2>2. CASE Refuse(s, c) \/ UnknownCommand(s, c)
    BY <1>0, <2>2, PresentFrame DEF Refuse, UnknownCommand, rooms, users
  <2>3. ASSUME NEW u \in NamesOf[c], Login(s, c, u)
        PROVE  RegisteredArePresent'
    BY <1>0, <2>1, <2>3, LoginEffect DEF RegisteredArePresent, LoggedIn
  <2>4. CASE \E ch \in Channels : Join(s, c, ch) \/ Leave(s, c, ch) \/ Who(s, c, ch)
    BY <1>0, <2>2, <2>4, PresentFrame DEF Join, Leave, Who
  <2>5. CASE List(s, c) \/ \E ch \in Channels, t \in Texts : Say(s, c, ch, t)
    BY <1>0, <2>2, <2>5, PresentFrame DEF List, Say
  <2> QED
    BY <1>1, <2>2, <2>3, <2>4, <2>5, LogoutPresent DEF Request
<1>2. ASSUME NEW m \in InFlight, Delivery(m) \/ Drop(m) \/ Duplicate(m) \/ Lose(m)
      PROVE  RegisteredArePresent'
  BY <1>0, <1>2, PresentFrame
  DEF Delivery, JoinS2S, LeaveS2S, SayS2S, BadType, Drop, Duplicate, Lose, rooms, users
<1>3. ASSUME NEW s \in Servers, Timer(s) \/ Kill(s) \/ Start(s)
      PROVE  RegisteredArePresent'
  <2>1. CASE Timeout(s) \/ Start(s)
    BY <1>0, <2>1, PresentFrame DEF Timeout, Start, rooms, users
  <2> QED
    BY <1>0, <1>3, <2>1, DiePresent DEF Timer, SweepCrash, Kill
<1>4. CASE UNCHANGED vars
  BY <1>0, <1>4, PresentFrame DEF vars, rooms, users
<1> QED
  BY <1>1, <1>2, <1>3, <1>4 DEF Next, NextReliable

\* The invariant holds throughout.
LEMMA RoomInvHolds ==
  ASSUME SeparateNames, OneNameEach
  PROVE  Spec => []RoomInv
<1>1. Init => RoomInv
  <2>1. Init => RegisteredArePresent
    BY DEF Init, RegisteredArePresent, EmptyMap
  <2> QED
    BY <2>1, InitTypeOK, InitRegistry DEF RoomInv
<1>2. RoomInv /\ [Next]_vars => RoomInv'
  BY NextTypeOK, NextRegistry, NextPresent DEF RoomInv
<1> QED
  BY <1>1, <1>2, PTL DEF Spec

-----------------------------------------------------------------------------
(* Who hears what                                                            *)

\* The texts of a say go to clients of the server that are logged in.
LEMMA SayGoesToSessions ==
  ASSUME RoomInv, NEW s \in Servers, NEW ch \in DOMAIN channels[s], NEW u, NEW t,
         NEW x \in SayToMembers(s, ch, u, t)
  PROVE  Home[x.to] = s /\ LoggedIn(s, x.to)
<1>1. PICK y \in DOMAIN channels[s][ch] : x = SayText(y, channels[s][ch][y], ch, u, t)
  BY DEF SayToMembers
<1>2. x.to = channels[s][ch][y]
  BY <1>1 DEF SayText
<1> QED
  BY <1>2, MembersArePresent

\* No other handler says anything to a client.
Hushed == \A x \in out : x.type # "say"

LEMMA RepliesAreHushed ==
  /\ \A c, why : Error(c, why).type # "say"
  /\ \A c, chs : ListReply(c, chs).type # "say"
  /\ \A c, ch, us : WhoReply(c, ch, us).type # "say"
BY DEF Error, ListReply, WhoReply

LEMMA ComplaintIsHushed ==
  ASSUME NEW s, NEW c, NEW ch, NEW x \in Complaint(s, c, ch)
  PROVE  x.type # "say"
<1>1. x \in {Error(c, "no such channel"), Error(c, "not in channel")}
  BY DEF Complaint
<1> QED
  BY <1>1, RepliesAreHushed

\* A step is silent, or it is a say handled by a server, for a channel it has: of a
\* client, or passed on by another server.
LEMMA WhoSpeaks ==
  ASSUME TypeOK, Next
  PROVE  \/ Hushed'
         \/ /\ UNCHANGED <<usernames, rev_usernames, channels>>
            /\ \E s \in Servers : \E ch \in DOMAIN channels[s], u \in Names, t \in Texts :
                 out' = SayToMembers(s, ch, u, t)
<1>1. ASSUME NEW c \in Clients, Request(Home[c], c)
      PROVE  \/ Hushed'
             \/ /\ UNCHANGED <<usernames, rev_usernames, channels>>
                /\ \E ch \in DOMAIN channels[Home[c]], u \in Names, t \in Texts :
                     out' = SayToMembers(Home[c], ch, u, t)
  <2> DEFINE s == Home[c]
  <2>1. s \in Servers
    BY ConfigAssumption
  <2>2. CASE Refuse(s, c) \/ UnknownCommand(s, c)
    BY <2>2, RepliesAreHushed DEF Refuse, UnknownCommand, Hushed
  <2>3. CASE \E u \in NamesOf[c] : Login(s, c, u)
    BY <2>3 DEF Login, Hushed
  <2>4. CASE Logout(s, c)
    BY <2>2, <2>4 DEF Logout, LogoutCrash, Die, Hushed
  <2>5. CASE \E ch \in Channels : Join(s, c, ch)
    BY <2>2, <2>5 DEF Join, Hushed
  <2>6. CASE \E ch \in Channels : Leave(s, c, ch)
    BY <2>2, <2>6, ComplaintIsHushed DEF Leave, Hushed
  <2>7. CASE List(s, c) \/ \E ch \in Channels : Who(s, c, ch)
    <3>1. CASE List(s, c)
      BY <2>2, <3>1, RepliesAreHushed DEF List, Hushed
    <3>2. ASSUME NEW ch \in Channels, Who(s, c, ch), ~Refuse(s, c)
          PROVE  Hushed'
      <4>1. CASE HasChannel(s, ch)
        <5>1. out' = {WhoReply(c, ch, DOMAIN channels[s][ch])}
          BY <3>2, <4>1 DEF Who
        <5> QED
          BY <5>1, RepliesAreHushed DEF Hushed
      <4>2. CASE ~HasChannel(s, ch)
        <5>1. out' = {Error(c, "no such channel")}
          BY <3>2, <4>2 DEF Who
        <5> QED
          BY <5>1, RepliesAreHushed DEF Hushed
      <4> QED
        BY <4>1, <4>2
    <3> QED
      BY <2>2, <2>7, <3>1, <3>2
  <2>8. ASSUME NEW ch \in Channels, NEW t \in Texts, Say(s, c, ch, t), ~Refuse(s, c)
        PROVE  \/ Hushed'
               \/ /\ UNCHANGED <<usernames, rev_usernames, channels>>
                  /\ ch \in DOMAIN channels[s] /\ rev_usernames[s][c] \in Names
                  /\ out' = SayToMembers(s, ch, rev_usernames[s][c], t)
    <3>1. /\ Serve(s, c)
          /\ out' = IF Complaint(s, c, ch) = {}
                    THEN SayToMembers(s, ch, rev_usernames[s][c], t)
                    ELSE Complaint(s, c, ch)
          /\ UNCHANGED <<usernames, rev_usernames, channels>>
      BY <2>8 DEF Say
    <3>2. CASE Complaint(s, c, ch) = {}
      <4>1. ch \in DOMAIN channels[s]
        BY <3>2 DEF Complaint, HasChannel
      <4> QED
        BY <2>1, <3>1, <3>2, <4>1, ServedName
    <3>3. CASE Complaint(s, c, ch) # {}
      BY <3>1, <3>3, ComplaintIsHushed DEF Hushed
    <3> QED
      BY <3>2, <3>3
  <2> QED
    BY <1>1, <2>2, <2>3, <2>4, <2>5, <2>6, <2>7, <2>8 DEF Request
<1>2. ASSUME NEW m \in InFlight, Delivery(m) \/ Drop(m) \/ Duplicate(m) \/ Lose(m)
      PROVE  \/ Hushed'
             \/ /\ UNCHANGED <<usernames, rev_usernames, channels>>
                /\ m.to \in Servers
                /\ \E ch \in DOMAIN channels[m.to], u \in Names, t \in Texts :
                     out' = SayToMembers(m.to, ch, u, t)
  <2>1. CASE SayS2S(m)
    <3>1. m.to \in Servers /\ m.user \in Names /\ m.text \in Texts
      BY <2>1, ReceivedType DEF SayS2S, Receive
    <3> QED
      BY <2>1, <3>1 DEF SayS2S, HasChannel, Hushed, rooms, users
  <2>2. CASE JoinS2S(m) \/ LeaveS2S(m) \/ BadType(m) \/ Drop(m) \/ Duplicate(m) \/ Lose(m)
    BY <2>2 DEF JoinS2S, LeaveS2S, BadType, Drop, Duplicate, Lose, Hushed
  <2> QED
    BY <1>2, <2>1, <2>2 DEF Delivery
<1>3. ASSUME NEW s \in Servers, Timer(s) \/ Kill(s) \/ Start(s)
      PROVE  Hushed'
  BY <1>3 DEF Timer, Timeout, SweepCrash, Kill, Die, Start, Hushed
<1> QED
  BY <1>1, <1>2, <1>3, ConfigAssumption DEF Next, NextReliable

\* A say reaches nobody but clients of this server that are logged in at that moment:
\* when every client keeps to a name of its own, no entry outlives its session.
THEOREM SaysGoToSessions ==
  ASSUME SeparateNames, OneNameEach
  PROVE  Spec => []SaysReachSessions
<1>1. Init => SaysReachSessions
  BY DEF Init, SaysReachSessions
<1>2. ASSUME RoomInv, SaysReachSessions, [Next]_vars
      PROVE  SaysReachSessions'
  <2>1. CASE Hushed'
    BY <2>1 DEF Hushed, SaysReachSessions
  <2>2. ASSUME NEW s \in Servers, NEW ch \in DOMAIN channels[s], NEW u \in Names, NEW t \in Texts,
               out' = SayToMembers(s, ch, u, t), UNCHANGED <<usernames, rev_usernames, channels>>
        PROVE  SaysReachSessions'
    BY <1>2, <2>2, SayGoesToSessions DEF SaysReachSessions, LoggedIn
  <2>3. CASE UNCHANGED vars
    BY <1>2, <2>3 DEF vars, rooms, users, SaysReachSessions, LoggedIn
  <2> QED
    BY <1>2, <2>1, <2>2, <2>3, WhoSpeaks DEF RoomInv
<1> QED
  BY <1>1, <1>2, RoomInvHolds, PTL DEF Spec

-----------------------------------------------------------------------------
(* Channels that go                                                          *)

\* Only the leave of its last member deletes a channel of a running server, and no leave
\* the default one: neither a second login nor a logout, a relayed join or a timer does.
THEOREM ChannelsGoWhenEmpty == Spec => OnlyEmptyChannelsVanish
<1> DEFINE Kept(s) ==
      \A ch \in DOMAIN channels[s] \ DOMAIN channels'[s] :
        ch # Common /\ Cardinality(DOMAIN channels[s][ch]) = 1
<1>1. ASSUME TypeOK, [Next]_vars, NEW s \in Servers, up'[s]
      PROVE  Kept(s)
  <2>0. UNCHANGED channels => Kept(s)
    OBVIOUS
  <2>1. ASSUME NEW x \in Servers, Die(x)
        PROVE  Kept(s)
    BY <1>1, <2>1, DieEffect
  <2>2. ASSUME NEW c \in Clients, Request(Home[c], c)
        PROVE  Kept(s)
    <3> DEFINE h == Home[c]
    <3>1. h \in Servers
      BY ConfigAssumption
    <3>2. CASE Refuse(h, c) \/ UnknownCommand(h, c)
      BY <2>0, <3>2 DEF Refuse, UnknownCommand, rooms
    <3>3. CASE \E u \in NamesOf[c] : Login(h, c, u)
      BY <2>0, <3>3 DEF Login
    <3>4. CASE Logout(h, c)
      <4>1. CASE LogoutCrash(h, c)
        BY <2>1, <3>1, <4>1 DEF LogoutCrash
      <4>2. CASE ~Refuse(h, c) /\ ~LogoutCrash(h, c)
        BY <1>1, <3>1, <3>4, <4>2, LogoutEffect
      <4> QED
        BY <3>2, <4>1, <4>2
    <3>5. ASSUME NEW ch \in Channels, Join(h, c, ch), ~Refuse(h, c)
          PROVE  Kept(s)
      <4>1. /\ DOMAIN channels'[h] = DOMAIN channels[h] \cup {ch}
            /\ \A x \in Servers \ {h} : channels'[x] = channels[x]
        BY <1>1, <3>1, <3>5, JoinEffect
      <4> QED
        BY <4>1
    <3>6. ASSUME NEW ch \in Channels, Leave(h, c, ch), ~Refuse(h, c)
          PROVE  Kept(s)
      <4>1. CASE Complaint(h, c, ch) # {}
        BY <2>0, <3>6, <4>1 DEF Leave
      <4>2. CASE Complaint(h, c, ch) = {}
        <5> DEFINE u == rev_usernames[h][c]
        <5>1. /\ \/ /\ DOMAIN channels'[h] = DOMAIN channels[h] \ {ch}
                    /\ DOMAIN channels[h][ch] = {u} /\ ch # Common
                 \/ DOMAIN channels'[h] = DOMAIN channels[h]
              /\ \A x \in Servers \ {h} : channels'[x] = channels[x]
          BY <1>1, <3>1, <3>6, <4>2, LeaveEffect
        <5>2. Cardinality({u}) = 1
          BY FS_Singleton
        <5> QED
          BY <5>1, <5>2
      <4> QED
        BY <4>1, <4>2
    <3>7. CASE \/ List(h, c)
               \/ \E ch \in Channels : Who(h, c, ch) \/ \E t \in Texts : Say(h, c, ch, t)
      BY <2>0, <3>2, <3>7 DEF List, Who, Say
    <3> QED
      BY <2>2, <3>2, <3>3, <3>4, <3>5, <3>6, <3>7 DEF Request
  <2>3. CASE \E m \in InFlight : Delivery(m) \/ Drop(m) \/ Duplicate(m) \/ Lose(m)
    BY <2>0, <2>3
    DEF Delivery, JoinS2S, LeaveS2S, SayS2S, BadType, Drop, Duplicate, Lose, rooms
  <2>4. ASSUME NEW x \in Servers, Timer(x) \/ Kill(x) \/ Start(x)
        PROVE  Kept(s)
    <3>1. CASE Timeout(x) \/ Start(x)
      BY <2>0, <3>1 DEF Timeout, Start, rooms
    <3> QED
      BY <2>1, <2>4, <3>1 DEF Timer, SweepCrash, Kill
  <2>5. CASE UNCHANGED vars
    BY <2>0, <2>5 DEF vars, rooms
  <2> HIDE DEF Kept
  <2> QED
    BY <1>1, <2>2, <2>3, <2>4, <2>5 DEF Next, NextReliable
<1> DEFINE AllKept == \A s \in Servers : up'[s] => Kept(s)
<1>2. TypeOK /\ [Next]_vars => [AllKept]_vars
  BY <1>1
<1> QED
  BY <1>2, TypeCorrect, PTL DEF Spec, OnlyEmptyChannelsVanish

-----------------------------------------------------------------------------
(* The refinement of ChatRoom: one lemma for each of its steps               *)

\* Nothing is heard in a step that says nothing.
LEMMA Unheard ==
  ASSUME Hushed'
  PROVE  Hears' = {}
BY DEF Hushed, Hears

\* A step that changes neither the sessions nor the channels.
LEMMA Standstill ==
  ASSUME UNCHANGED <<rev_usernames, channels>>
  PROVE  UNCHANGED <<Present, Members>>
BY DEF Present, Members, InRoom, HasChannel

\* A channel that stays as it is.
LEMMA SameRoom ==
  ASSUME NEW s, NEW ch, HasChannel(s, ch)' <=> HasChannel(s, ch),
         HasChannel(s, ch) => channels'[s][ch] = channels[s][ch]
  PROVE  InRoom(s, ch)' = InRoom(s, ch)
BY DEF InRoom

LEMMA StepIsSilence ==
  ASSUME UNCHANGED <<rev_usernames, channels>>, Hushed'
  PROVE  Room!Silence
BY Unheard, Standstill DEF Room!Silence

\* A login, a second one included.
LEMMA LoginEnters ==
  ASSUME TypeOK, NEW s \in Servers, NEW c \in Clients, NEW u, Login(s, c, u)
  PROVE  Room!Enter(s, c)
<1>1. /\ DOMAIN rev_usernames'[s] = DOMAIN rev_usernames[s] \cup {c}
      /\ \A x \in Servers \ {s} : rev_usernames'[x] = rev_usernames[x]
      /\ channels' = channels /\ out' = {}
  BY LoginEffect
<1>2. Present' = [Present EXCEPT ![s] = @ \cup {c}]
  BY <1>1 DEF Present
<1>3. Members' = Members
  BY <1>1 DEF Members, InRoom, HasChannel
<1>4. Hears' = {}
  BY <1>1, Unheard DEF Hushed
<1> QED
  BY <1>2, <1>3, <1>4 DEF Room!Enter

\* A logout: the client is out of every channel, since it was there under its one name.
LEMMA LogoutExits ==
  ASSUME OneNameEach, RoomInv, NEW s \in Servers, NEW c \in Clients, Logout(s, c),
         ~Refuse(s, c), ~LogoutCrash(s, c)
  PROVE  Room!Exit(s, c)
<1> DEFINE u == rev_usernames[s][c]
<1>1. /\ LoggedIn(s, c)
      /\ DOMAIN rev_usernames'[s] = DOMAIN rev_usernames[s] \ {c}
      /\ DOMAIN channels'[s] = DOMAIN channels[s]
      /\ \A ch \in DOMAIN channels[s] :
           /\ DOMAIN channels'[s][ch] = DOMAIN channels[s][ch] \ {u}
           /\ \A y \in DOMAIN channels'[s][ch] : channels'[s][ch][y] = channels[s][ch][y]
      /\ \A x \in Servers \ {s} :
           rev_usernames'[x] = rev_usernames[x] /\ channels'[x] = channels[x]
      /\ out' = {}
  BY LogoutEffect DEF RoomInv
<1>2. Present' = [Present EXCEPT ![s] = @ \ {c}] /\ c \in Present[s]
  BY <1>1 DEF Present, LoggedIn
<1>3. ASSUME NEW ch \in Channels
      PROVE  InRoom(s, ch)' = InRoom(s, ch) \ {c}
  <2>1. CASE ~HasChannel(s, ch)
    BY <1>1, <2>1 DEF InRoom, HasChannel
  <2>2. CASE HasChannel(s, ch)
    <3>1. \A y \in DOMAIN channels[s][ch] : channels[s][ch][y] = c <=> y = u
      BY <1>1, <2>2, OneEntry DEF HasChannel
    <3>2. ch \in DOMAIN channels[s]
      BY <2>2 DEF HasChannel
    <3>3. InRoom(s, ch) = { channels[s][ch][y] : y \in DOMAIN channels[s][ch] }
      BY <3>2 DEF InRoom, HasChannel
    <3>4. InRoom(s, ch)' = { channels'[s][ch][y] : y \in DOMAIN channels'[s][ch] }
      BY <1>1, <3>2 DEF InRoom, HasChannel
    <3> QED
      BY <1>1, <3>1, <3>2, <3>3, <3>4
  <2> QED
    BY <2>1, <2>2
<1>4. \A x \in Servers \ {s} : \A ch \in Channels : InRoom(x, ch)' = InRoom(x, ch)
  BY <1>1, SameRoom DEF HasChannel
<1>5. Members' = [Members EXCEPT ![s] = [ch \in Channels |-> @[ch] \ {c}]]
  BY <1>3, <1>4 DEF Members
<1>6. Hears' = {}
  BY <1>1, Unheard DEF Hushed
<1> QED
  BY <1>2, <1>5, <1>6 DEF Room!Exit

\* The death of a server.
LEMMA DieCollapses ==
  ASSUME TypeOK, NEW s \in Servers, Die(s)
  PROVE  Room!Collapse(s)
<1>0. /\ DOMAIN rev_usernames'[s] = {}
      /\ DOMAIN channels'[s] = {Common} /\ DOMAIN channels'[s][Common] = {}
      /\ \A x \in Servers \ {s} :
           rev_usernames'[x] = rev_usernames[x] /\ channels'[x] = channels[x]
      /\ out' = {}
  BY DieEffect
<1>1. Present' = [Present EXCEPT ![s] = {}]
  BY <1>0 DEF Present
<1>2. \A ch \in Channels : InRoom(s, ch)' = {}
  BY <1>0 DEF InRoom, HasChannel
<1>3. \A x \in Servers \ {s} : \A ch \in Channels : InRoom(x, ch)' = InRoom(x, ch)
  BY <1>0, SameRoom DEF HasChannel
<1>4. Members' = [Members EXCEPT ![s] = [ch \in Channels |-> {}]]
  BY <1>2, <1>3 DEF Members
<1>5. Hears' = {}
  BY <1>0, Unheard DEF Hushed
<1> QED
  BY <1>1, <1>4, <1>5 DEF Room!Collapse

\* A join: the entry that is put is the client's, and replaces no other's.
LEMMA JoinJoins ==
  ASSUME OneNameEach, RoomInv, NEW s \in Servers, NEW c \in Clients, NEW ch \in Channels,
         Join(s, c, ch), ~Refuse(s, c)
  PROVE  Room!JoinRoom(s, c, ch)
<1> DEFINE u == rev_usernames[s][c]
<1>1. /\ LoggedIn(s, c)
      /\ DOMAIN channels'[s] = DOMAIN channels[s] \cup {ch}
      /\ DOMAIN channels'[s][ch] =
           (IF HasChannel(s, ch) THEN DOMAIN channels[s][ch] ELSE {}) \cup {u}
      /\ channels'[s][ch][u] = c
      /\ HasChannel(s, ch) =>
           \A y \in DOMAIN channels[s][ch] \ {u} : channels'[s][ch][y] = channels[s][ch][y]
      /\ \A x \in DOMAIN channels[s] \ {ch} : channels'[s][x] = channels[s][x]
      /\ \A x \in Servers \ {s} : channels'[x] = channels[x]
      /\ UNCHANGED rev_usernames /\ out' = {}
  BY JoinEffect DEF RoomInv
<1>2. Present' = Present /\ c \in Present[s]
  BY <1>1 DEF Present, LoggedIn
<1>3. InRoom(s, ch)' = InRoom(s, ch) \cup {c}
  <2>1. InRoom(s, ch)' = { channels'[s][ch][y] : y \in DOMAIN channels'[s][ch] }
    BY <1>1 DEF InRoom, HasChannel
  <2>2. CASE ~HasChannel(s, ch)
    BY <1>1, <2>1, <2>2 DEF InRoom
  <2>3. CASE HasChannel(s, ch)
    <3>1. \A y \in DOMAIN channels[s][ch] : channels[s][ch][y] = c <=> y = u
      BY <1>1, <2>3, OneEntry DEF HasChannel
    <3>2. InRoom(s, ch) = { channels[s][ch][y] : y \in DOMAIN channels[s][ch] }
      BY <2>3 DEF InRoom
    <3> QED
      BY <1>1, <2>1, <2>3, <3>1, <3>2
  <2> QED
    BY <2>2, <2>3
<1>4. \A x \in Servers : \A k \in Channels : x # s \/ k # ch => InRoom(x, k)' = InRoom(x, k)
  BY <1>1, SameRoom DEF HasChannel
<1>5. Members' = [Members EXCEPT ![s][ch] = @ \cup {c}]
  BY <1>3, <1>4 DEF Members
<1>6. Hears' = {}
  BY <1>1, Unheard DEF Hushed
<1> QED
  BY <1>2, <1>5, <1>6 DEF Room!JoinRoom

\* A leave, whether the channel stays or goes.
LEMMA LeaveLeaves ==
  ASSUME OneNameEach, RoomInv, NEW s \in Servers, NEW c \in Clients, NEW ch \in Channels,
         Leave(s, c, ch), ~Refuse(s, c), Complaint(s, c, ch) = {}
  PROVE  Room!LeaveRoom(s, c, ch)
<1> DEFINE u == rev_usernames[s][c]
<1>1. /\ LoggedIn(s, c) /\ HasChannel(s, ch) /\ u \in DOMAIN channels[s][ch]
      /\ \/ /\ DOMAIN channels'[s] = DOMAIN channels[s] \ {ch}
            /\ DOMAIN channels[s][ch] = {u}
         \/ /\ DOMAIN channels'[s] = DOMAIN channels[s]
            /\ DOMAIN channels'[s][ch] = DOMAIN channels[s][ch] \ {u}
            /\ \A y \in DOMAIN channels'[s][ch] : channels'[s][ch][y] = channels[s][ch][y]
      /\ \A x \in DOMAIN channels[s] \ {ch} : channels'[s][x] = channels[s][x]
      /\ \A x \in Servers \ {s} : channels'[x] = channels[x]
      /\ UNCHANGED rev_usernames /\ out' = {}
  BY LeaveEffect DEF RoomInv
<1>2. \A y \in DOMAIN channels[s][ch] : channels[s][ch][y] = c <=> y = u
  BY <1>1, OneEntry DEF HasChannel
<1>3. InRoom(s, ch) = { channels[s][ch][y] : y \in DOMAIN channels[s][ch] }
  BY <1>1 DEF InRoom
<1>4. InRoom(s, ch)' = InRoom(s, ch) \ {c}
  <2>1. CASE /\ DOMAIN channels'[s] = DOMAIN channels[s] \ {ch}
             /\ DOMAIN channels[s][ch] = {u}
    BY <1>2, <1>3, <2>1 DEF InRoom, HasChannel
  <2>2. CASE /\ DOMAIN channels'[s] = DOMAIN channels[s]
             /\ DOMAIN channels'[s][ch] = DOMAIN channels[s][ch] \ {u}
             /\ \A y \in DOMAIN channels'[s][ch] : channels'[s][ch][y] = channels[s][ch][y]
    <3>1. InRoom(s, ch)' = { channels'[s][ch][y] : y \in DOMAIN channels'[s][ch] }
      BY <1>1, <2>2 DEF InRoom, HasChannel
    <3> QED
      BY <1>2, <1>3, <2>2, <3>1
  <2> QED
    BY <1>1, <2>1, <2>2
<1>5. \A x \in Servers : \A k \in Channels : x # s \/ k # ch => InRoom(x, k)' = InRoom(x, k)
  BY <1>1, SameRoom DEF HasChannel
<1>6. Members' = [Members EXCEPT ![s][ch] = @ \ {c}]
  BY <1>4, <1>5 DEF Members
<1>7. Present' = Present /\ Hears' = {} /\ c \in Members[s][ch]
  BY <1>1, <1>2, <1>3, Unheard DEF Hushed, Present, Members
<1> QED
  BY <1>6, <1>7 DEF Room!LeaveRoom

\* A say, of a client or of another server: every member of the channel is sent it, once.
LEMMA SaySpeaks ==
  ASSUME RoomInv, NEW s \in Servers, NEW ch \in DOMAIN channels[s], NEW u, NEW t \in Texts,
         out' = SayToMembers(s, ch, u, t), UNCHANGED <<rev_usernames, channels>>
  PROVE  ch \in Channels /\ Room!Speak(s, ch, t)
<1>1. ch \in Channels
  BY MapElim DEF RoomInv, TypeOK, UsersOK
<1>2. Members[s][ch] = { channels[s][ch][y] : y \in DOMAIN channels[s][ch] }
  BY <1>1 DEF Members, InRoom, HasChannel
<1>3. \A y : /\ SayText(y, channels[s][ch][y], ch, u, t).type = "say"
             /\ SayText(y, channels[s][ch][y], ch, u, t).to = channels[s][ch][y]
             /\ SayText(y, channels[s][ch][y], ch, u, t).channel = ch
             /\ SayText(y, channels[s][ch][y], ch, u, t).text = t
  BY DEF SayText
<1>4. Hears' = { Room!Heard(c, ch, t) : c \in Members[s][ch] }
  BY <1>2, <1>3 DEF Hears, SayToMembers, Room!Heard
<1> QED
  BY <1>1, <1>4, Standstill DEF Room!Speak

\* A step that speaks is a say handled by a server, and every other one is silent: each
\* is a step of ChatRoom.
LEMMA StepIsRoomStep ==
  ASSUME SeparateNames, OneNameEach, RoomInv, [Next]_vars
  PROVE  [Room!Next]_Room!vars
<1>0. TypeOK
  BY DEF RoomInv
<1> DEFINE RoomStep == Room!Next
<1>1. ASSUME UNCHANGED <<rev_usernames, channels>>, Hushed'
      PROVE  RoomStep
  BY <1>1, StepIsSilence DEF Room!Next
<1>2. ASSUME NEW s \in Servers, Die(s)
      PROVE  RoomStep
  BY <1>0, <1>2, DieCollapses DEF Room!Next
<1>3. ASSUME Next, UNCHANGED <<rev_usernames, channels>>
      PROVE  RoomStep
  <2>1. ASSUME NEW s \in Servers, NEW ch \in DOMAIN channels[s], NEW u \in Names, NEW t \in Texts,
               out' = SayToMembers(s, ch, u, t)
        PROVE  RoomStep
    <3>1. ch \in Channels /\ Room!Speak(s, ch, t)
      BY <1>3, <2>1, SaySpeaks
    <3> QED
      BY <3>1 DEF Room!Next
  <2> HIDE DEF RoomStep
  <2> QED
    BY <1>0, <1>1, <1>3, <2>1, WhoSpeaks
<1>4. ASSUME NEW c \in Clients, Request(Home[c], c), Next
      PROVE  RoomStep
  <2> DEFINE s == Home[c]
  <2>1. s \in Servers
    BY ConfigAssumption
  <2>2. CASE Refuse(s, c) \/ UnknownCommand(s, c)
    BY <1>3, <1>4, <2>2 DEF Refuse, UnknownCommand, rooms, users
  <2>3. ASSUME NEW u \in NamesOf[c], Login(s, c, u)
        PROVE  RoomStep
    <3>1. Room!Enter(s, c)
      BY <1>0, <2>1, <2>3, LoginEnters
    <3> QED
      BY <3>1 DEF Room!Next
  <2>4. CASE Logout(s, c)
    <3>1. CASE LogoutCrash(s, c)
      BY <1>2, <2>1, <3>1 DEF LogoutCrash
    <3>2. CASE ~Refuse(s, c) /\ ~LogoutCrash(s, c)
      <4>1. Room!Exit(s, c)
        BY <2>1, <2>4, <3>2, LogoutExits
      <4> QED
        BY <4>1 DEF Room!Next
    <3> QED
      BY <2>2, <3>1, <3>2
  <2>5. ASSUME NEW ch \in Channels, Join(s, c, ch), ~Refuse(s, c)
        PROVE  RoomStep
    <3>1. Room!JoinRoom(s, c, ch)
      BY <2>1, <2>5, JoinJoins
    <3> QED
      BY <3>1 DEF Room!Next
  <2>6. ASSUME NEW ch \in Channels, Leave(s, c, ch), ~Refuse(s, c)
        PROVE  RoomStep
    <3>1. CASE Complaint(s, c, ch) = {}
      <4>1. Room!LeaveRoom(s, c, ch)
        BY <2>1, <2>6, <3>1, LeaveLeaves
      <4> QED
        BY <4>1 DEF Room!Next
    <3>2. CASE Complaint(s, c, ch) # {}
      BY <1>3, <1>4, <2>6, <3>2 DEF Leave
    <3> QED
      BY <3>1, <3>2
  <2>7. CASE \/ List(s, c)
             \/ \E ch \in Channels : Who(s, c, ch) \/ \E t \in Texts : Say(s, c, ch, t)
    <3> HIDE DEF RoomStep
    <3> QED
      BY <1>3, <1>4, <2>2, <2>7 DEF List, Who, Say
  <2> HIDE DEF RoomStep
  <2> QED
    BY <1>4, <2>2, <2>3, <2>4, <2>5, <2>6, <2>7 DEF Request
<1>5. ASSUME NEW m \in InFlight, Delivery(m) \/ Drop(m) \/ Duplicate(m) \/ Lose(m), Next
      PROVE  RoomStep
  <2>1. UNCHANGED <<rev_usernames, channels>>
    BY <1>5
    DEF Delivery, JoinS2S, LeaveS2S, SayS2S, BadType, Drop, Duplicate, Lose, rooms, users
  <2> QED
    BY <1>3, <1>5, <2>1
<1>6. ASSUME NEW s \in Servers, Timer(s) \/ Kill(s) \/ Start(s), Next
      PROVE  RoomStep
  <2>1. CASE Timeout(s) \/ Start(s)
    BY <1>3, <1>6, <2>1 DEF Timeout, Start, rooms, users
  <2> QED
    BY <1>2, <1>6, <2>1 DEF Timer, SweepCrash, Kill
<1>7. CASE UNCHANGED vars
  <2>1. UNCHANGED <<rev_usernames, channels, out>>
    BY <1>7 DEF vars, rooms, users
  <2>2. UNCHANGED Hears
    BY <2>1 DEF Hears
  <2> QED
    BY <2>1, <2>2, Standstill DEF Room!vars
<1> HIDE DEF RoomStep
<1>8. Next => RoomStep
  BY <1>4, <1>5, <1>6 DEF Next, NextReliable
<1> QED
  BY <1>7, <1>8 DEF RoomStep

\* When every client keeps to a name of its own, a server is a ChatRoom to its clients,
\* with any number of servers behind it: who has logged in and not out is present, the
\* tables hold exactly those who joined and did not leave, and what is said in a channel
\* is heard by exactly those, whichever handlers, timers, restarts and lost, duplicated
\* or reordered datagrams come in between.
THEOREM ServersAreRooms ==
  ASSUME SeparateNames, OneNameEach
  PROVE  Spec => ImplementsRoom
<1>1. Init => Room!Init
  <2>1. ASSUME Init, NEW s \in Servers, NEW ch \in Channels
        PROVE  InRoom(s, ch) = {}
    BY <2>1 DEF Init, InRoom, HasChannel, DefaultChannel, NoMembers, EmptyMap, Put
  <2>2. Init => Present = [s \in Servers |-> {}] /\ Hears = {}
    BY DEF Init, Present, Hears, EmptyMap
  <2> QED
    BY <2>1, <2>2 DEF Room!Init, Members
<1>2. RoomInv /\ [Next]_vars => [Room!Next]_Room!vars
  BY StepIsRoomStep
<1> QED
  BY <1>1, <1>2, RoomInvHolds, PTL DEF Spec, Room!Spec, ImplementsRoom
=============================================================================
