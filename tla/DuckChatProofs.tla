--------------------------- MODULE DuckChatProofs ---------------------------
(***************************************************************************)
(* What a client believes of its channels, and what its server has it in,  *)
(* in a system with any number of clients, servers and channels, whichever *)
(* of the sends fail and whichever requests and servers are lost.          *)
(***************************************************************************)
EXTENDS DuckDoubt, DuckRoomProofs, SequenceTheorems

\* What a client's process knows about itself.
BeliefsOK ==
  /\ cont \in [Clients -> BOOLEAN]
  /\ active_channel \in [Clients -> Channels \cup {NoChannel}]
  /\ subscribed_channels \in [Clients -> SUBSET Channels]

beliefs == <<active_channel, subscribed_channels>>

\* What main leaves behind when it could not send its join.
Unsure(c) == active_channel[c] = Common /\ subscribed_channels[c] = {}

\* The inductive invariant: there is no other way to be out of step.
Beliefs == BeliefsOK /\ \A c \in Clients : Consistent(c) \/ Unsure(c)

\* One step, as ActiveIsSubscribed wants it.
InStep(c) ==
  /\ cont[c] /\ Consistent(c) => Consistent(c)'
  /\ Consistent(c)' \/ Unsure(c)'

-----------------------------------------------------------------------------
(* The client that moves                                                     *)

\* main: out of step only when the join was not sent.
LEMMA LaunchInStep ==
  ASSUME BeliefsOK, NEW c \in Clients, NEW u, Launch(c, u)
  PROVE  BeliefsOK' /\ InStep(c)
<1>1. ~cont[c] /\ cont' \in [Clients -> BOOLEAN]
  BY DEF Launch, BeliefsOK
<1>2. /\ active_channel' \in [Clients -> Channels \cup {NoChannel}]
      /\ active_channel'[c] = Common
  BY ConfigAssumption DEF Launch, BeliefsOK
<1>3. PICK S \in {{}, {Common}} :
        subscribed_channels' = [subscribed_channels EXCEPT ![c] = S]
  BY DEF Launch
<1>4. subscribed_channels' \in [Clients -> SUBSET Channels] /\ subscribed_channels'[c] = S
  BY <1>3, ConfigAssumption DEF BeliefsOK
<1> QED
  BY <1>1, <1>2, <1>3, <1>4 DEF BeliefsOK, InStep, Consistent, Unsure

\* A join adds the channel it makes the active one.
LEMMA JoinInStep ==
  ASSUME Beliefs, NEW c \in Clients, NEW ch \in Channels, JoinCommand(c, ch)
  PROVE  BeliefsOK' /\ InStep(c)
<1>1. UNCHANGED cont /\ \E sent : Subscribe(c, ch, sent)
  BY DEF JoinCommand
<1> QED
  BY <1>1 DEF Subscribe, Beliefs, BeliefsOK, InStep, Consistent, Unsure

\* A leave takes the channel away, and the active one if it is this one.
LEMMA LeaveInStep ==
  ASSUME Beliefs, NEW c \in Clients, NEW ch \in Channels, LeaveCommand(c, ch)
  PROVE  BeliefsOK' /\ InStep(c)
<1>1. UNCHANGED cont /\ \E sent : Unsubscribe(c, ch, sent)
  BY DEF LeaveCommand
<1> QED
  BY <1>1 DEF Unsubscribe, Beliefs, BeliefsOK, InStep, Consistent, Unsure

\* Only a channel that was joined can be switched to.
LEMMA SwitchInStep ==
  ASSUME Beliefs, NEW c \in Clients, NEW ch \in Channels, SwitchCommand(c, ch)
  PROVE  BeliefsOK' /\ InStep(c)
BY DEF SwitchCommand, Typed, Beliefs, BeliefsOK, InStep, Consistent, Unsure

\* The end of the process takes both away.
LEMMA ExitInStep ==
  ASSUME Beliefs, NEW c \in Clients, ExitCommand(c)
  PROVE  BeliefsOK' /\ InStep(c)
BY DEF ExitCommand, Beliefs, BeliefsOK, InStep, Consistent, Unsure

\* Everything else a client does changes no channel.
LEMMA OtherInStep ==
  ASSUME Beliefs, NEW c \in Clients, UNCHANGED <<cont, beliefs>>
  PROVE  BeliefsOK' /\ InStep(c)
BY DEF beliefs, Beliefs, BeliefsOK, InStep, Consistent, Unsure

\* Any step of a client.
LEMMA ClientInStep ==
  ASSUME Beliefs, NEW c \in Clients, ClientStep(c)
  PROVE  BeliefsOK' /\ InStep(c)
<1>1. CASE \E u \in NamesOf[c] : Launch(c, u)
  BY <1>1, LaunchInStep DEF Beliefs
<1>2. ASSUME NEW ch \in Channels, WhoCommand(c, ch)
      PROVE  UNCHANGED <<cont, beliefs>>
  BY <1>2 DEF WhoCommand, beliefs
<1>3. ASSUME NEW t \in Texts, SayLine(c, t)
      PROVE  UNCHANGED <<cont, beliefs>>
  BY <1>3 DEF SayLine, beliefs
<1>4. CASE ListCommand(c) \/ HandleServerInput(c)
  BY <1>4, OtherInStep DEF ListCommand, HandleServerInput, beliefs
<1>5. CASE BeginLine(c) \/ IgnoredLine(c)
  BY <1>5, OtherInStep DEF BeginLine, IgnoredLine, beliefs
<1> QED
  BY <1>1, <1>2, <1>3, <1>4, <1>5, JoinInStep, LeaveInStep, SwitchInStep, ExitInStep, OtherInStep
  DEF ClientStep, HandleUserInput

\* What a client does leaves the others' beliefs alone.
LEMMA ClientMovesAlone ==
  ASSUME Beliefs, NEW c \in Clients, ClientStep(c), NEW d \in Clients, d # c
  PROVE  /\ cont'[d] = cont[d] /\ active_channel'[d] = active_channel[d]
         /\ subscribed_channels'[d] = subscribed_channels[d]
<1>1. ASSUME NEW u, Launch(c, u)
      PROVE  /\ cont'[d] = cont[d] /\ active_channel'[d] = active_channel[d]
             /\ subscribed_channels'[d] = subscribed_channels[d]
  BY <1>1 DEF Launch, Beliefs, BeliefsOK
<1>2. ASSUME NEW ch \in Channels, JoinCommand(c, ch) \/ LeaveCommand(c, ch)
      PROVE  /\ cont'[d] = cont[d] /\ active_channel'[d] = active_channel[d]
             /\ subscribed_channels'[d] = subscribed_channels[d]
  <2>1. UNCHANGED cont /\ \E sent : Subscribe(c, ch, sent) \/ Unsubscribe(c, ch, sent)
    BY <1>2 DEF JoinCommand, LeaveCommand
  <2> QED
    BY <2>1 DEF Subscribe, Unsubscribe, Beliefs, BeliefsOK
<1>3. ASSUME NEW ch \in Channels, SwitchCommand(c, ch) \/ WhoCommand(c, ch)
      PROVE  /\ cont'[d] = cont[d] /\ active_channel'[d] = active_channel[d]
             /\ subscribed_channels'[d] = subscribed_channels[d]
  BY <1>3 DEF SwitchCommand, WhoCommand, Beliefs, BeliefsOK
<1>4. ASSUME NEW t \in Texts, SayLine(c, t)
      PROVE  UNCHANGED <<cont, beliefs>>
  BY <1>4 DEF SayLine, beliefs
<1>5. CASE ListCommand(c) \/ HandleServerInput(c)
  BY <1>5 DEF ListCommand, HandleServerInput
<1>6. CASE ExitCommand(c)
  BY <1>6 DEF ExitCommand, Beliefs, BeliefsOK
<1>7. CASE BeginLine(c) \/ IgnoredLine(c)
  BY <1>7 DEF BeginLine, IgnoredLine
<1> QED
  BY <1>1, <1>2, <1>3, <1>4, <1>5, <1>6, <1>7 DEF ClientStep, HandleUserInput, beliefs

-----------------------------------------------------------------------------
(* The steps of the system                                                   *)

\* Before any process is started nothing is active and nothing subscribed.
LEMMA InitBeliefs == ChatInit => Beliefs
BY DEF ChatInit, ClientInit, Beliefs, BeliefsOK, Consistent

\* Any step of the system: one client moves, or none.
LEMMA NextInStep ==
  ASSUME Beliefs, [ChatNext]_chatVars
  PROVE  BeliefsOK' /\ \A c \in Clients : InStep(c)
<1>1. ASSUME NEW c \in Clients, ClientStep(c)
      PROVE  BeliefsOK' /\ \A d \in Clients : InStep(d)
  <2>1. BeliefsOK' /\ InStep(c)
    BY <1>1, ClientInStep
  <2>2. ASSUME NEW d \in Clients, d # c
        PROVE  InStep(d)
    BY <1>1, <2>2, ClientMovesAlone DEF Beliefs, InStep, Consistent, Unsure
  <2> QED
    BY <2>1, <2>2
<1>2. ASSUME UNCHANGED client
      PROVE  BeliefsOK' /\ \A d \in Clients : InStep(d)
  BY <1>2, OtherInStep DEF client, beliefs, Beliefs, BeliefsOK
<1>3. ASSUME NEW c \in Clients, ServeRequest(c) \/ LoseRequest(c)
      PROVE  UNCHANGED client
  BY <1>3 DEF ServeRequest, LoseRequest
<1>4. ASSUME NEW m \in InFlight, ReceiveDatagram(m)
      PROVE  UNCHANGED client
  BY <1>4 DEF ReceiveDatagram
<1>5. ASSUME NEW s \in Servers, ServerTimer(s) \/ ServerFault(s)
      PROVE  UNCHANGED client
  BY <1>5 DEF ServerTimer, ServerFault
<1>6. CASE UNCHANGED chatVars
  BY <1>2, <1>6 DEF chatVars
<1> QED
  BY <1>1, <1>2, <1>3, <1>4, <1>5, <1>6 DEF ChatNext, ChatReliable

\* A running client whose active channel is one it has joined keeps it so through
\* everything it does, and only main's own failed join puts the two out of step.
THEOREM BeliefsAgree == ChatSpec => ActiveIsSubscribed
<1> DEFINE Good ==
      \A c \in Clients :
        /\ cont[c] /\ Consistent(c) => Consistent(c)'
        /\ ~Consistent(c)' => active_channel'[c] = Common /\ subscribed_channels'[c] = {}
<1>1. Beliefs /\ [ChatNext]_chatVars => Beliefs'
  BY NextInStep DEF Beliefs, InStep
<1>2. Beliefs /\ [ChatNext]_chatVars => Good
  BY NextInStep DEF InStep, Unsure
<1>3. ChatSpec => []Beliefs
  BY <1>1, InitBeliefs, PTL DEF ChatSpec
<1> QED
  BY <1>2, <1>3, PTL DEF ChatSpec, ActiveIsSubscribed

-----------------------------------------------------------------------------
(* A client's queue                                                          *)

Opens(r, ch)   == r.type = "join" /\ r.channel = ch
Closes(r, ch)  == r.type = "logout" \/ (r.type = "leave" /\ r.channel = ch)
Touches(r, ch) == Opens(r, ch) \/ Closes(r, ch)

\* What the requests before place k do to channel ch: nothing, or the last of them
\* that does something joins it, or leaves it; it is a logout, with no leave since.
Untouched(q, k, ch) == \A j \in 1 .. k - 1 : ~Touches(q[j], ch)
JoinedBy(q, k, ch) ==
  \E j \in 1 .. k - 1 : Opens(q[j], ch) /\ \A i \in j + 1 .. k - 1 : ~Closes(q[i], ch)
LeftBy(q, k, ch) ==
  \E j \in 1 .. k - 1 : Closes(q[j], ch) /\ \A i \in j + 1 .. k - 1 : ~Opens(q[i], ch)
LoggedOutBy(q, k, ch) ==
  \E j \in 1 .. k - 1 :
    q[j].type = "logout" /\ \A i \in j + 1 .. k - 1 : Touches(q[i], ch) => q[i].type = "logout"

\* And to the session: the last of them that does something is a login, or none does.
LoggedInBy(q, k) ==
  \E j \in 1 .. k - 1 : q[j].type = "login" /\ \A i \in j + 1 .. k - 1 : q[i].type # "logout"
SameSession(q, k) == \A j \in 1 .. k - 1 : q[j].type \notin {"login", "logout"}

\* q2 is q with r behind it.
Extends(q2, q, r) ==
  /\ Len(q2) = Len(q) + 1
  /\ q2[Len(q) + 1] = r
  /\ \A i \in 1 .. Len(q) : q2[i] = q[i]

-----------------------------------------------------------------------------
(* The invariant of one client: its queue q, its process (on, a and S), its  *)
(* doubts (p and D), and where its server has it (in the channels I, with a  *)
(* session or not).                                                          *)

\* The channels subscribed are those the server will have the client in when it
\* has handled the queue.
Follows(q, S, D, I) ==
  \A ch \in Channels :
    \/ ch \in S /\ JoinedBy(q, Len(q) + 1, ch)
    \/ ch \notin S /\ LeftBy(q, Len(q) + 1, ch)
    \/ Untouched(q, Len(q) + 1, ch) /\ (ch \in D \/ (ch \in S <=> ch \in I))

\* A say of ch in place k finds the client in the channel.
MaySay(q, k, ch, p, D, I) ==
  \/ JoinedBy(q, k, ch)
  \/ Untouched(q, k, ch) /\ (ch \in D \/ ch \in I \/ (p /\ ch = Common))
  \/ p /\ ch = Common /\ LoggedOutBy(q, k, ch)

SaysFit(q, on, a, p, D, I) ==
  /\ \A k \in 1 .. Len(q) : q[k].type = "say" => MaySay(q, k, q[k].channel, p, D, I)
  /\ on /\ a # NoChannel => MaySay(q, Len(q) + 1, a, p, D, I)

\* A join in place k finds the client logged in.
MayJoin(q, k, D, lg) ==
  \/ LoggedInBy(q, k)
  \/ SameSession(q, k) /\ (lg \/ D = Channels)

JoinsFit(q, on, D, lg) ==
  /\ \A k \in 1 .. Len(q) : q[k].type = "join" => MayJoin(q, k, D, lg)
  /\ on => MayJoin(q, Len(q) + 1, D, lg)

\* A process that has ended has taken leave.
Gone(q, on, S) == ~on => S = {} /\ (Len(q) > 0 => q[Len(q)].type = "logout")

Agree(q, on, a, S, p, D, I, lg) ==
  /\ Follows(q, S, D, I)
  /\ SaysFit(q, on, a, p, D, I)
  /\ JoinsFit(q, on, D, lg)
  /\ Gone(q, on, S)
  /\ lg \/ I = {}

-----------------------------------------------------------------------------
(* A request more                                                            *)

\* What the requests in front of place k do does not depend on those behind.
LEMMA Longer ==
  ASSUME NEW R, NEW q \in Seq(R), NEW q2 \in Seq(R), NEW r, Extends(q2, q, r),
         NEW k \in 1 .. Len(q) + 1
  PROVE  /\ \A ch : /\ Untouched(q2, k, ch) <=> Untouched(q, k, ch)
                    /\ JoinedBy(q2, k, ch) <=> JoinedBy(q, k, ch)
                    /\ LeftBy(q2, k, ch) <=> LeftBy(q, k, ch)
                    /\ LoggedOutBy(q2, k, ch) <=> LoggedOutBy(q, k, ch)
         /\ LoggedInBy(q2, k) <=> LoggedInBy(q, k)
         /\ SameSession(q2, k) <=> SameSession(q, k)
<1>1. Len(q) \in Nat /\ k - 1 <= Len(q)
  OBVIOUS
<1>2. \A j \in 1 .. k - 1 : q2[j] = q[j]
  BY <1>1 DEF Extends
<1>3. \A j \in 1 .. k - 1 : \A i \in j + 1 .. k - 1 : q2[i] = q[i]
  BY <1>1 DEF Extends
<1>4. \A ch : Untouched(q2, k, ch) <=> Untouched(q, k, ch)
  BY <1>2 DEF Untouched
<1>5. \A ch : JoinedBy(q2, k, ch) <=> JoinedBy(q, k, ch)
  BY <1>2, <1>3 DEF JoinedBy
<1>6. \A ch : LeftBy(q2, k, ch) <=> LeftBy(q, k, ch)
  BY <1>2, <1>3 DEF LeftBy
<1>7. \A ch : LoggedOutBy(q2, k, ch) <=> LoggedOutBy(q, k, ch)
  BY <1>2, <1>3 DEF LoggedOutBy
<1>8. LoggedInBy(q2, k) <=> LoggedInBy(q, k)
  BY <1>2, <1>3, ZenonT(40) DEF LoggedInBy
<1>9. SameSession(q2, k) <=> SameSession(q, k)
  BY <1>2 DEF SameSession
<1> QED
  BY <1>4, <1>5, <1>6, <1>7, <1>8, <1>9

\* A request that does nothing to ch can be passed over.
LEMMA Further ==
  ASSUME NEW R, NEW q \in Seq(R), NEW q2 \in Seq(R), NEW r, Extends(q2, q, r), NEW ch,
         ~Touches(r, ch)
  PROVE  LET n == Len(q) + 1 IN
         /\ Untouched(q, n, ch) => Untouched(q2, n + 1, ch)
         /\ JoinedBy(q, n, ch) => JoinedBy(q2, n + 1, ch)
         /\ LeftBy(q, n, ch) => LeftBy(q2, n + 1, ch)
         /\ LoggedOutBy(q, n, ch) => LoggedOutBy(q2, n + 1, ch)
<1> DEFINE n == Len(q) + 1
<1>1. n \in Nat /\ n - 1 = Len(q) /\ n + 1 - 1 = n
  OBVIOUS
<1>2. \A j \in 1 .. n : (j \in 1 .. n - 1 /\ q2[j] = q[j]) \/ (j = n /\ q2[j] = r)
  BY <1>1 DEF Extends
<1>3. \A j \in 1 .. n - 1 : j \in 1 .. n /\ q2[j] = q[j] /\ \A i \in j + 1 .. n : i \in 1 .. n
                              /\ (i \in j + 1 .. n - 1 \/ i = n)
  BY <1>1 DEF Extends
<1> HIDE DEF n
<1>4. ~Opens(r, ch) /\ ~Closes(r, ch)
  BY DEF Touches
<1>5. Untouched(q, n, ch) => Untouched(q2, n + 1, ch)
  BY <1>1, <1>2 DEF Untouched
<1>6. JoinedBy(q, n, ch) => JoinedBy(q2, n + 1, ch)
  BY <1>1, <1>2, <1>3, <1>4 DEF JoinedBy
<1>7. LeftBy(q, n, ch) => LeftBy(q2, n + 1, ch)
  BY <1>1, <1>2, <1>3, <1>4 DEF LeftBy
<1>8. LoggedOutBy(q, n, ch) => LoggedOutBy(q2, n + 1, ch)
  <2>1. ASSUME NEW j \in 1 .. n - 1, q[j].type = "logout",
               \A i \in j + 1 .. n - 1 : Touches(q[i], ch) => q[i].type = "logout"
        PROVE  /\ q2[j].type = "logout"
               /\ \A i \in j + 1 .. n : Touches(q2[i], ch) => q2[i].type = "logout"
    BY <1>2, <1>3, <2>1
  <2> QED
    BY <1>1, <1>3, <2>1 DEF LoggedOutBy
<1> QED
  BY <1>5, <1>6, <1>7, <1>8 DEF n

\* And one that is no login and no logout.
LEMMA FurtherIn ==
  ASSUME NEW R, NEW q \in Seq(R), NEW q2 \in Seq(R), NEW r, Extends(q2, q, r),
         r.type \notin {"login", "logout"}
  PROVE  LET n == Len(q) + 1 IN
         /\ LoggedInBy(q, n) => LoggedInBy(q2, n + 1)
         /\ SameSession(q, n) => SameSession(q2, n + 1)
<1> DEFINE n == Len(q) + 1
<1>1. n \in Nat /\ n - 1 = Len(q) /\ n + 1 - 1 = n
  OBVIOUS
<1>2. \A j \in 1 .. n : (j \in 1 .. n - 1 /\ q2[j] = q[j]) \/ (j = n /\ q2[j] = r)
  BY <1>1 DEF Extends
<1>3. \A j \in 1 .. n - 1 : j \in 1 .. n /\ q2[j] = q[j] /\ \A i \in j + 1 .. n : i \in 1 .. n
                              /\ (i \in j + 1 .. n - 1 \/ i = n)
  BY <1>1 DEF Extends
<1> HIDE DEF n
<1>4. SameSession(q, n) => SameSession(q2, n + 1)
  BY <1>1, <1>2 DEF SameSession
<1>5. LoggedInBy(q, n) => LoggedInBy(q2, n + 1)
  BY <1>1, <1>2, <1>3 DEF LoggedInBy
<1> QED
  BY <1>4, <1>5 DEF n

\* What the request at the end does by itself.
LEMMA AtTheEnd ==
  ASSUME NEW R, NEW q \in Seq(R), NEW q2 \in Seq(R), NEW r, Extends(q2, q, r)
  PROVE  LET n == Len(q) + 2 IN
         /\ \A ch : /\ Opens(r, ch) => JoinedBy(q2, n, ch)
                    /\ Closes(r, ch) => LeftBy(q2, n, ch)
         /\ r.type = "login" => LoggedInBy(q2, n)
<1> DEFINE n == Len(q) + 2
<1>1. Len(q) + 1 \in 1 .. n - 1 /\ (Len(q) + 1) + 1 .. n - 1 = {} /\ q2[Len(q) + 1] = r
  BY DEF Extends
<1> QED
  BY <1>1 DEF JoinedBy, LeftBy, LoggedInBy

-----------------------------------------------------------------------------
(* What a client sends                                                       *)

\* The places in front of the new request stay as they are.
LEMMA OldPlaces ==
  ASSUME NEW R, NEW q \in Seq(R), NEW q2 \in Seq(R), NEW r, Extends(q2, q, r),
         NEW on, NEW a, NEW p, NEW D, NEW I, NEW lg,
         SaysFit(q, on, a, p, D, I), JoinsFit(q, on, D, lg)
  PROVE  /\ \A k \in 1 .. Len(q) :
              /\ q2[k] = q[k]
              /\ q2[k].type = "say" => MaySay(q2, k, q2[k].channel, p, D, I)
              /\ q2[k].type = "join" => MayJoin(q2, k, D, lg)
         /\ \A ch : MaySay(q, Len(q) + 1, ch, p, D, I) => MaySay(q2, Len(q) + 1, ch, p, D, I)
         /\ MayJoin(q, Len(q) + 1, D, lg) => MayJoin(q2, Len(q) + 1, D, lg)
<1>1. \A k \in 1 .. Len(q) + 1 :
        /\ \A ch : MaySay(q, k, ch, p, D, I) => MaySay(q2, k, ch, p, D, I)
        /\ MayJoin(q, k, D, lg) => MayJoin(q2, k, D, lg)
  BY Longer DEF MaySay, MayJoin
<1>2. \A k \in 1 .. Len(q) : k \in 1 .. Len(q) + 1 /\ q2[k] = q[k]
  BY DEF Extends
<1>3. Len(q) + 1 \in 1 .. Len(q) + 1
  OBVIOUS
<1> QED
  BY <1>1, <1>2, <1>3 DEF SaysFit, JoinsFit

\* A channel the new request does not touch.
LEMMA OtherChannel ==
  ASSUME NEW R, NEW q \in Seq(R), NEW q2 \in Seq(R), NEW r, Extends(q2, q, r),
         NEW ch, ~Touches(r, ch), NEW p, NEW D, NEW I, NEW S
  PROVE  LET m == Len(q) + 1
             n == Len(q2) + 1 IN
         /\ MaySay(q, m, ch, p, D, I) => MaySay(q2, n, ch, p, D, I)
         /\ (\/ ch \in S /\ JoinedBy(q, m, ch)
             \/ ch \notin S /\ LeftBy(q, m, ch)
             \/ Untouched(q, m, ch) /\ (ch \in D \/ (ch \in S <=> ch \in I)))
            => (\/ ch \in S /\ JoinedBy(q2, n, ch)
                \/ ch \notin S /\ LeftBy(q2, n, ch)
                \/ Untouched(q2, n, ch) /\ (ch \in D \/ (ch \in S <=> ch \in I)))
<1>1. Len(q2) + 1 = (Len(q) + 1) + 1
  BY DEF Extends
<1> QED
  BY <1>1, Further DEF MaySay

\* A client that may join still may after such a request.
LEMMA SessionGoesOn ==
  ASSUME NEW R, NEW q \in Seq(R), NEW q2 \in Seq(R), NEW r, Extends(q2, q, r),
         r.type \notin {"login", "logout"}, NEW D, NEW lg, MayJoin(q, Len(q) + 1, D, lg)
  PROVE  MayJoin(q2, Len(q2) + 1, D, lg)
<1>1. Len(q2) + 1 = (Len(q) + 1) + 1
  BY DEF Extends
<1> QED
  BY <1>1, FurtherIn DEF MayJoin

\* A join.
LEMMA PushJoin ==
  ASSUME NEW R, NEW q \in Seq(R), NEW q2 \in Seq(R), NEW r, Extends(q2, q, r),
         NEW ch \in Channels, r.type = "join", r.channel = ch,
         NEW a, NEW S, NEW p, NEW D, NEW I, NEW lg, Agree(q, TRUE, a, S, p, D, I, lg)
  PROVE  Agree(q2, TRUE, ch, S \cup {ch}, p, D, I, lg)
<1>1. \A x \in Channels \ {ch} : ~Touches(r, x)
  BY DEF Touches, Opens, Closes
<1>2. JoinedBy(q2, Len(q2) + 1, ch)
  <2>1. Len(q2) + 1 = Len(q) + 2
    BY DEF Extends
  <2>2. Opens(r, ch)
    BY DEF Opens
  <2> QED
    BY <2>1, <2>2, AtTheEnd
<1>3. Follows(q2, S \cup {ch}, D, I)
  <2>1. ASSUME NEW x \in Channels, x # ch
        PROVE  \/ x \in S /\ JoinedBy(q2, Len(q2) + 1, x)
               \/ x \notin S /\ LeftBy(q2, Len(q2) + 1, x)
               \/ Untouched(q2, Len(q2) + 1, x) /\ (x \in D \/ (x \in S <=> x \in I))
    BY <1>1, <2>1, OtherChannel, ZenonT(40) DEF Agree, Follows
  <2> QED
    BY <1>2, <2>1 DEF Follows
<1>4. /\ \A k \in 1 .. Len(q) :
           /\ q2[k].type = "say" => MaySay(q2, k, q2[k].channel, p, D, I)
           /\ q2[k].type = "join" => MayJoin(q2, k, D, lg)
      /\ MayJoin(q2, Len(q) + 1, D, lg)
  BY OldPlaces DEF Agree, JoinsFit
<1>5. \A k \in 1 .. Len(q2) : k \in 1 .. Len(q) \/ (k = Len(q) + 1 /\ q2[k] = r)
  BY DEF Extends
<1>6. SaysFit(q2, TRUE, ch, p, D, I)
  <2>1. MaySay(q2, Len(q2) + 1, ch, p, D, I)
    BY <1>2 DEF MaySay
  <2> QED
    BY <1>4, <1>5, <2>1 DEF SaysFit
<1>7. JoinsFit(q2, TRUE, D, lg)
  <2>1. MayJoin(q2, Len(q2) + 1, D, lg)
    BY SessionGoesOn DEF Agree, JoinsFit
  <2> QED
    BY <1>4, <1>5, <2>1 DEF JoinsFit
<1> QED
  BY <1>3, <1>6, <1>7 DEF Agree, Gone

\* A leave: the channel is active no more.
LEMMA PushLeave ==
  ASSUME NEW R, NEW q \in Seq(R), NEW q2 \in Seq(R), NEW r, Extends(q2, q, r),
         NEW ch \in Channels, r.type = "leave", r.channel = ch,
         NEW a \in Channels \cup {NoChannel}, NEW b, (a = ch /\ b = NoChannel) \/ (a # ch /\ b = a),
         NEW S, NEW p, NEW D, NEW I, NEW lg, Agree(q, TRUE, a, S, p, D, I, lg)
  PROVE  Agree(q2, TRUE, b, S \ {ch}, p, D, I, lg)
<1>1. \A x \in Channels \ {ch} : ~Touches(r, x)
  BY DEF Touches, Opens, Closes
<1>2. LeftBy(q2, Len(q2) + 1, ch)
  <2>1. Len(q2) + 1 = Len(q) + 2
    BY DEF Extends
  <2>2. Closes(r, ch)
    BY DEF Closes
  <2> QED
    BY <2>1, <2>2, AtTheEnd
<1>3. Follows(q2, S \ {ch}, D, I)
  <2>1. ASSUME NEW x \in Channels, x # ch
        PROVE  \/ x \in S /\ JoinedBy(q2, Len(q2) + 1, x)
               \/ x \notin S /\ LeftBy(q2, Len(q2) + 1, x)
               \/ Untouched(q2, Len(q2) + 1, x) /\ (x \in D \/ (x \in S <=> x \in I))
    BY <1>1, <2>1, OtherChannel DEF Agree, Follows
  <2> QED
    BY <1>2, <2>1 DEF Follows
<1>4. /\ \A k \in 1 .. Len(q) :
           /\ q2[k].type = "say" => MaySay(q2, k, q2[k].channel, p, D, I)
           /\ q2[k].type = "join" => MayJoin(q2, k, D, lg)
      /\ MayJoin(q2, Len(q) + 1, D, lg)
  BY OldPlaces DEF Agree, JoinsFit
<1>5. \A k \in 1 .. Len(q2) : k \in 1 .. Len(q) \/ (k = Len(q) + 1 /\ q2[k] = r)
  BY DEF Extends
<1>6. SaysFit(q2, TRUE, b, p, D, I)
  <2>1. ASSUME b # NoChannel
        PROVE  MaySay(q2, Len(q2) + 1, b, p, D, I)
    <3>1. b \in Channels \ {ch} /\ MaySay(q, Len(q) + 1, b, p, D, I)
      BY <2>1 DEF Agree, SaysFit
    <3> QED
      BY <1>1, <3>1, OtherChannel
  <2> QED
    BY <1>4, <1>5, <2>1 DEF SaysFit
<1>7. JoinsFit(q2, TRUE, D, lg)
  <2>1. MayJoin(q2, Len(q2) + 1, D, lg)
    BY SessionGoesOn DEF Agree, JoinsFit
  <2> QED
    BY <1>4, <1>5, <2>1 DEF JoinsFit
<1> QED
  BY <1>3, <1>6, <1>7 DEF Agree, Gone

\* The leave of the active channel.
LEMMA PushLeaveActive ==
  ASSUME NEW R, NEW q \in Seq(R), NEW q2 \in Seq(R), NEW r, Extends(q2, q, r),
         NEW ch \in Channels, r.type = "leave", r.channel = ch,
         NEW S, NEW p, NEW D, NEW I, NEW lg, Agree(q, TRUE, ch, S, p, D, I, lg)
  PROVE  Agree(q2, TRUE, NoChannel, S \ {ch}, p, D, I, lg)
BY PushLeave

\* A say in the active channel, a who or a list.
LEMMA PushOther ==
  ASSUME NEW R, NEW q \in Seq(R), NEW q2 \in Seq(R), NEW r, Extends(q2, q, r),
         r.type \in {"say", "who", "list"},
         NEW a \in Channels \cup {NoChannel}, NEW S, NEW p, NEW D, NEW I, NEW lg,
         r.type = "say" => a # NoChannel /\ r.channel = a,
         Agree(q, TRUE, a, S, p, D, I, lg)
  PROVE  Agree(q2, TRUE, a, S, p, D, I, lg)
<1>1. \A x : ~Touches(r, x)
  BY DEF Touches, Opens, Closes
<1>2. Follows(q2, S, D, I)
  BY <1>1, OtherChannel, ZenonT(40) DEF Agree, Follows
<1>3. /\ \A k \in 1 .. Len(q) :
           /\ q2[k].type = "say" => MaySay(q2, k, q2[k].channel, p, D, I)
           /\ q2[k].type = "join" => MayJoin(q2, k, D, lg)
      /\ MayJoin(q2, Len(q) + 1, D, lg)
      /\ a # NoChannel => MaySay(q2, Len(q) + 1, a, p, D, I)
  BY OldPlaces, ZenonT(40) DEF Agree, JoinsFit, SaysFit
<1>4. \A k \in 1 .. Len(q2) : k \in 1 .. Len(q) \/ (k = Len(q) + 1 /\ q2[k] = r)
  BY DEF Extends
<1>5. SaysFit(q2, TRUE, a, p, D, I)
  <2>1. a # NoChannel => MaySay(q2, Len(q2) + 1, a, p, D, I)
    BY <1>1, OtherChannel DEF Agree, SaysFit
  <2> QED
    BY <1>3, <1>4, <2>1 DEF SaysFit
<1>6. JoinsFit(q2, TRUE, D, lg)
  <2>1. MayJoin(q2, Len(q2) + 1, D, lg)
    BY SessionGoesOn DEF Agree, JoinsFit
  <2> QED
    BY <1>3, <1>4, <2>1 DEF JoinsFit
<1> QED
  BY <1>2, <1>5, <1>6 DEF Agree, Gone

\* A logout: the process ends.
LEMMA PushLogout ==
  ASSUME NEW R, NEW q \in Seq(R), NEW q2 \in Seq(R), NEW r, Extends(q2, q, r),
         r.type = "logout",
         NEW a, NEW S, NEW p, NEW D, NEW I, NEW lg, Agree(q, TRUE, a, S, p, D, I, lg)
  PROVE  Agree(q2, FALSE, NoChannel, {}, p, D, I, lg)
<1>1. Len(q2) = Len(q) + 1 /\ q2[Len(q2)] = r /\ Len(q2) + 1 = Len(q) + 2
  BY DEF Extends
<1>2. Follows(q2, {}, D, I)
  <2>1. \A ch : Closes(r, ch)
    BY DEF Closes
  <2> QED
    BY <1>1, <2>1, AtTheEnd DEF Follows
<1>3. \A k \in 1 .. Len(q) :
        /\ q2[k].type = "say" => MaySay(q2, k, q2[k].channel, p, D, I)
        /\ q2[k].type = "join" => MayJoin(q2, k, D, lg)
  BY OldPlaces DEF Agree
<1>4. \A k \in 1 .. Len(q2) : k \in 1 .. Len(q) \/ (k = Len(q) + 1 /\ q2[k] = r)
  BY DEF Extends
<1> QED
  BY <1>1, <1>2, <1>3, <1>4 DEF Agree, SaysFit, JoinsFit, Gone

\* A login: a process begins, with no channel yet.
LEMMA PushLogin ==
  ASSUME NEW R, NEW q \in Seq(R), NEW q2 \in Seq(R), NEW r, Extends(q2, q, r),
         r.type = "login",
         NEW a, NEW S, NEW p, NEW D, NEW I, NEW lg, Agree(q, FALSE, a, S, p, D, I, lg)
  PROVE  Agree(q2, TRUE, NoChannel, {}, p, D, I, lg)
<1>1. \A x : ~Touches(r, x)
  BY DEF Touches, Opens, Closes
<1>2. Follows(q2, {}, D, I)
  <2>1. Follows(q, {}, D, I)
    BY DEF Agree, Gone
  <2>2. ASSUME NEW x \in Channels
        PROVE  LeftBy(q2, Len(q2) + 1, x) \/ (Untouched(q2, Len(q2) + 1, x) /\ (x \in D \/ x \notin I))
    <3>1. LeftBy(q, Len(q) + 1, x) \/ (Untouched(q, Len(q) + 1, x) /\ (x \in D \/ x \notin I))
      BY <2>1 DEF Follows
    <3>2. Len(q2) + 1 = (Len(q) + 1) + 1
      BY DEF Extends
    <3> QED
      BY <1>1, <3>1, <3>2, Further
  <2> QED
    BY <2>2 DEF Follows
<1>3. \A k \in 1 .. Len(q) :
        /\ q2[k].type = "say" => MaySay(q2, k, q2[k].channel, p, D, I)
        /\ q2[k].type = "join" => MayJoin(q2, k, D, lg)
  BY OldPlaces DEF Agree
<1>4. \A k \in 1 .. Len(q2) : k \in 1 .. Len(q) \/ (k = Len(q) + 1 /\ q2[k] = r)
  BY DEF Extends
<1>5. MayJoin(q2, Len(q2) + 1, D, lg)
  <2>1. Len(q2) + 1 = Len(q) + 2
    BY DEF Extends
  <2> QED
    BY <2>1, AtTheEnd DEF MayJoin
<1> QED
  BY <1>2, <1>3, <1>4, <1>5 DEF Agree, SaysFit, JoinsFit, Gone

\* main's join is not sent: the client takes itself to be in Common.
LEMMA Presume ==
  ASSUME NEW R, NEW q \in Seq(R), NEW q2 \in Seq(R), NEW r, Extends(q2, q, r),
         r.type = "login",
         NEW a, NEW S, NEW p, NEW D, NEW I, NEW lg, Agree(q, FALSE, a, S, p, D, I, lg)
  PROVE  Agree(q2, TRUE, Common, {}, TRUE, D, I, lg)
<1>1. Agree(q2, TRUE, NoChannel, {}, p, D, I, lg)
  BY PushLogin
<1>2. MaySay(q2, Len(q2) + 1, Common, TRUE, D, I)
  <2>1. Len(q2) + 1 = Len(q) + 1 + 1 /\ ~Touches(r, Common)
    BY DEF Extends, Touches, Opens, Closes
  <2>2. CASE Len(q) = 0
    <3>1. Untouched(q, Len(q) + 1, Common)
      BY <2>2 DEF Untouched
    <3> QED
      BY <2>1, <3>1, Further DEF MaySay
  <2>3. CASE Len(q) > 0
    <3>1. q[Len(q)].type = "logout" /\ Len(q) \in 1 .. Len(q) + 1 - 1
          /\ Len(q) + 1 .. Len(q) + 1 - 1 = {}
      BY <2>3 DEF Agree, Gone
    <3>2. LoggedOutBy(q, Len(q) + 1, Common)
      BY <3>1 DEF LoggedOutBy
    <3> QED
      BY <2>1, <3>2, Further DEF MaySay
  <2>4. Len(q) = 0 \/ Len(q) > 0
    OBVIOUS
  <2> QED
    BY <2>2, <2>3, <2>4
<1>3. \A k, ch : MaySay(q2, k, ch, p, D, I) => MaySay(q2, k, ch, TRUE, D, I)
  BY DEF MaySay
<1> QED
  BY <1>1, <1>2, <1>3 DEF Agree, SaysFit

\* A switch to a channel that is subscribed.
LEMMA SwitchTo ==
  ASSUME NEW q, NEW a, NEW S, NEW p, NEW D, NEW I, NEW lg, NEW ch \in Channels \cap S,
         Agree(q, TRUE, a, S, p, D, I, lg)
  PROVE  Agree(q, TRUE, ch, S, p, D, I, lg)
<1>1. MaySay(q, Len(q) + 1, ch, p, D, I)
  BY DEF Agree, Follows, MaySay
<1> QED
  BY <1>1 DEF Agree, SaysFit

\* The death of the server.
LEMMA Forgotten ==
  ASSUME NEW q, NEW on, NEW a \in Channels \cup {NoChannel}, NEW S, NEW p, NEW D, NEW I, NEW lg,
         \A k \in 1 .. Len(q) : q[k].type = "say" => q[k].channel \in Channels,
         Agree(q, on, a, S, p, D, I, lg)
  PROVE  Agree(q, on, a, S, p, Channels, {}, FALSE)
<1>1. Follows(q, S, Channels, {})
  BY DEF Agree, Follows
<1>2. \A k : \A ch \in Channels : MaySay(q, k, ch, p, D, I) => MaySay(q, k, ch, p, Channels, {})
  BY DEF MaySay
<1>3. \A k : MayJoin(q, k, D, lg) => MayJoin(q, k, Channels, FALSE)
  BY DEF MayJoin
<1>4. SaysFit(q, on, a, p, Channels, {})
  BY <1>2 DEF Agree, SaysFit
<1>5. JoinsFit(q, on, Channels, FALSE)
  BY <1>3 DEF Agree, JoinsFit
<1> QED
  BY <1>1, <1>4, <1>5 DEF Agree

-----------------------------------------------------------------------------
(* A request less                                                            *)

\* q2 is q without the request in front.
Shortens(q2, q) ==
  /\ Len(q) = Len(q2) + 1
  /\ \A i \in 1 .. Len(q2) : q2[i] = q[i + 1]

\* What the request in front was the last to do is done.
LEMMA Shorter ==
  ASSUME NEW R, NEW q \in Seq(R), NEW q2 \in Seq(R), Shortens(q2, q),
         NEW k \in 1 .. Len(q2) + 1
  PROVE  /\ \A ch :
              /\ Untouched(q, k + 1, ch) => Untouched(q2, k, ch) /\ ~Touches(q[1], ch)
              /\ JoinedBy(q, k + 1, ch) =>
                   JoinedBy(q2, k, ch) \/ (Opens(q[1], ch) /\ Untouched(q2, k, ch))
              /\ LeftBy(q, k + 1, ch) =>
                   LeftBy(q2, k, ch) \/ (Closes(q[1], ch) /\ Untouched(q2, k, ch))
              /\ LoggedOutBy(q, k + 1, ch) =>
                   LoggedOutBy(q2, k, ch) \/ (q[1].type = "logout" /\ Untouched(q2, k, ch))
         /\ LoggedInBy(q, k + 1) =>
              LoggedInBy(q2, k) \/ (q[1].type = "login" /\ SameSession(q2, k))
         /\ SameSession(q, k + 1) => SameSession(q2, k) /\ q[1].type \notin {"login", "logout"}
<1>1. /\ Len(q2) \in Nat /\ k \in Nat /\ k >= 1 /\ k + 1 - 1 = k /\ 1 \in 1 .. k
      /\ \A i \in 1 .. k - 1 : i + 1 \in 1 .. k /\ i + 1 \in 1 + 1 .. k /\ q2[i] = q[i + 1]
      /\ \A j \in 1 .. k \ {1} : j - 1 \in 1 .. k - 1 /\ q2[j - 1] = q[j]
      /\ \A j \in 1 .. k \ {1} : \A i \in (j - 1) + 1 .. k - 1 : i + 1 \in j + 1 .. k /\ q2[i] = q[i + 1]
      /\ \A i \in 1 .. k - 1 : \A j \in i + 1 .. k - 1 : j + 1 \in 1 + 1 .. k /\ q2[j] = q[j + 1]
  BY DEF Shortens
<1>2. \A ch : Untouched(q, k + 1, ch) => Untouched(q2, k, ch) /\ ~Touches(q[1], ch)
  BY <1>1 DEF Untouched
<1>3. SameSession(q, k + 1) => SameSession(q2, k) /\ q[1].type \notin {"login", "logout"}
  BY <1>1 DEF SameSession
<1>4. ASSUME NEW ch, JoinedBy(q, k + 1, ch)
      PROVE  JoinedBy(q2, k, ch) \/ (Opens(q[1], ch) /\ Untouched(q2, k, ch))
  <2>1. PICK j \in 1 .. k : Opens(q[j], ch) /\ \A i \in j + 1 .. k : ~Closes(q[i], ch)
    BY <1>1, <1>4 DEF JoinedBy
  <2>2. CASE j # 1
    BY <1>1, <2>1, <2>2 DEF JoinedBy
  <2>3. CASE j = 1
    <3>1. \A i \in 1 .. k - 1 : ~Closes(q2[i], ch)
      BY <1>1, <2>1, <2>3
    <3>2. CASE \E i \in 1 .. k - 1 : Opens(q2[i], ch)
      <4>1. PICK i \in 1 .. k - 1 : Opens(q2[i], ch)
        BY <3>2
      <4>2. \A x \in i + 1 .. k - 1 : x \in 1 .. k - 1
        BY <1>1
      <4> QED
        BY <3>1, <4>1, <4>2 DEF JoinedBy
    <3>3. CASE ~\E i \in 1 .. k - 1 : Opens(q2[i], ch)
      BY <2>1, <2>3, <3>1, <3>3 DEF Untouched, Touches
    <3> QED
      BY <3>2, <3>3
  <2> QED
    BY <2>2, <2>3
<1>5. ASSUME NEW ch, LeftBy(q, k + 1, ch)
      PROVE  LeftBy(q2, k, ch) \/ (Closes(q[1], ch) /\ Untouched(q2, k, ch))
  <2>1. PICK j \in 1 .. k : Closes(q[j], ch) /\ \A i \in j + 1 .. k : ~Opens(q[i], ch)
    BY <1>1, <1>5 DEF LeftBy
  <2>2. CASE j # 1
    BY <1>1, <2>1, <2>2 DEF LeftBy
  <2>3. CASE j = 1
    <3>1. \A i \in 1 .. k - 1 : ~Opens(q2[i], ch)
      BY <1>1, <2>1, <2>3
    <3>2. CASE \E i \in 1 .. k - 1 : Closes(q2[i], ch)
      <4>1. PICK i \in 1 .. k - 1 : Closes(q2[i], ch)
        BY <3>2
      <4>2. \A x \in i + 1 .. k - 1 : x \in 1 .. k - 1
        BY <1>1
      <4> QED
        BY <3>1, <4>1, <4>2 DEF LeftBy
    <3>3. CASE ~\E i \in 1 .. k - 1 : Closes(q2[i], ch)
      BY <2>1, <2>3, <3>1, <3>3 DEF Untouched, Touches
    <3> QED
      BY <3>2, <3>3
  <2> QED
    BY <2>2, <2>3
<1>6. ASSUME NEW ch, LoggedOutBy(q, k + 1, ch)
      PROVE  LoggedOutBy(q2, k, ch) \/ (q[1].type = "logout" /\ Untouched(q2, k, ch))
  <2>1. PICK j \in 1 .. k :
          q[j].type = "logout" /\ \A i \in j + 1 .. k : Touches(q[i], ch) => q[i].type = "logout"
    BY <1>1, <1>6 DEF LoggedOutBy
  <2>2. CASE j # 1
    <3>1. j - 1 \in 1 .. k - 1 /\ q2[j - 1].type = "logout"
      BY <1>1, <2>1, <2>2
    <3>2. ASSUME NEW i \in (j - 1) + 1 .. k - 1
          PROVE  Touches(q2[i], ch) => q2[i].type = "logout"
      <4>1. i + 1 \in j + 1 .. k /\ q2[i] = q[i + 1]
        BY <1>1, <2>2
      <4> QED
        BY <2>1, <4>1
    <3> QED
      BY <3>1, <3>2 DEF LoggedOutBy
  <2>3. CASE j = 1
    <3>1. ASSUME NEW i \in 1 .. k - 1
          PROVE  Touches(q2[i], ch) => q2[i].type = "logout"
      <4>1. i + 1 \in j + 1 .. k /\ q2[i] = q[i + 1]
        BY <1>1, <2>3
      <4> QED
        BY <2>1, <4>1
    <3>2. CASE \E i \in 1 .. k - 1 : q2[i].type = "logout"
      <4>1. PICK i \in 1 .. k - 1 : q2[i].type = "logout"
        BY <3>2
      <4>2. \A x \in i + 1 .. k - 1 : x \in 1 .. k - 1
        BY <1>1
      <4> QED
        BY <3>1, <4>1, <4>2 DEF LoggedOutBy
    <3>3. CASE ~\E i \in 1 .. k - 1 : q2[i].type = "logout"
      BY <2>1, <2>3, <3>1, <3>3 DEF Untouched
    <3> QED
      BY <3>2, <3>3
  <2> QED
    BY <2>2, <2>3
<1>7. ASSUME LoggedInBy(q, k + 1)
      PROVE  LoggedInBy(q2, k) \/ (q[1].type = "login" /\ SameSession(q2, k))
  <2>1. PICK j \in 1 .. k : q[j].type = "login" /\ \A i \in j + 1 .. k : q[i].type # "logout"
    BY <1>1, <1>7 DEF LoggedInBy
  <2>2. CASE j # 1
    <3>1. j - 1 \in 1 .. k - 1 /\ q2[j - 1].type = "login"
      BY <1>1, <2>1, <2>2
    <3>2. ASSUME NEW i \in (j - 1) + 1 .. k - 1
          PROVE  q2[i].type # "logout"
      <4>1. i + 1 \in j + 1 .. k /\ q2[i] = q[i + 1]
        BY <1>1, <2>2
      <4> QED
        BY <2>1, <4>1
    <3> QED
      BY <3>1, <3>2 DEF LoggedInBy
  <2>3. CASE j = 1
    <3>1. \A i \in 1 .. k - 1 : q2[i].type # "logout"
      BY <1>1, <2>1, <2>3
    <3>2. CASE \E i \in 1 .. k - 1 : q2[i].type = "login"
      <4>1. PICK i \in 1 .. k - 1 : q2[i].type = "login"
        BY <3>2
      <4>2. \A x \in i + 1 .. k - 1 : x \in 1 .. k - 1
        BY <1>1
      <4> QED
        BY <3>1, <4>1, <4>2 DEF LoggedInBy
    <3>3. CASE ~\E i \in 1 .. k - 1 : q2[i].type = "login"
      BY <2>1, <2>3, <3>1, <3>3 DEF SameSession
    <3> QED
      BY <3>2, <3>3
  <2> QED
    BY <2>2, <2>3
<1> QED
  BY <1>2, <1>3, <1>4, <1>5, <1>6, <1>7

\* What serving or losing the request r may do to the doubts and to the tables.
Settles(r, D, I, lg, D2, I2, lg2) ==
  /\ \A ch \in Channels :
       /\ ~Touches(r, ch) => (ch \in D => ch \in D2) /\ (ch \in I2 <=> ch \in I)
       /\ Opens(r, ch) => ch \in D2 \/ ch \in I2
       /\ Closes(r, ch) => ch \in D2 \/ ch \notin I2
  /\ r.type \notin {"login", "logout"} /\ (lg \/ D = Channels) => lg2 \/ D2 = Channels
  /\ r.type = "login" => lg2 \/ D2 = Channels
  /\ lg2 \/ I2 = {}

\* A client stays presumed in Common until its join is served and no logout is behind.
StaysPresumed(q, p, p2) ==
  \/ p => p2
  \/ Opens(q[1], Common) /\ \A i \in 2 .. Len(q) : q[i].type # "logout"

\* A say that fits fits still when the request in front has gone.
LEMMA PopSay ==
  ASSUME NEW R, NEW q \in Seq(R), NEW q2 \in Seq(R), Shortens(q2, q),
         NEW p, NEW p2, NEW D, NEW D2, NEW I, NEW I2, NEW lg, NEW lg2,
         Settles(q[1], D, I, lg, D2, I2, lg2), StaysPresumed(q, p, p2),
         NEW k \in 1 .. Len(q2) + 1, NEW ch \in Channels, MaySay(q, k + 1, ch, p, D, I)
  PROVE  MaySay(q2, k, ch, p2, D2, I2)
<1>1. CASE JoinedBy(q, k + 1, ch)
  <2>1. JoinedBy(q2, k, ch) \/ (Opens(q[1], ch) /\ Untouched(q2, k, ch))
    BY <1>1, Shorter
  <2> QED
    BY <2>1 DEF MaySay, Settles
<1>2. CASE Untouched(q, k + 1, ch) /\ (ch \in D \/ ch \in I \/ (p /\ ch = Common))
  <2>1. Untouched(q2, k, ch) /\ ~Touches(q[1], ch)
    BY <1>2, Shorter
  <2>2. p /\ ch = Common => p2
    BY <2>1 DEF StaysPresumed, Touches
  <2> QED
    BY <1>2, <2>1, <2>2 DEF MaySay, Settles
<1>3. CASE p /\ ch = Common /\ LoggedOutBy(q, k + 1, ch)
  <2>1. CASE p2
    BY <1>3, <2>1, Shorter DEF MaySay
  <2>2. CASE ~p2
    <3>1. q[1].type = "join" /\ \A i \in 2 .. Len(q) : q[i].type # "logout"
      BY <1>3, <2>2 DEF StaysPresumed, Opens
    <3>2. \A j \in 1 .. k + 1 - 1 : q[j].type # "logout"
      BY <3>1 DEF Shortens
    <3> QED
      BY <1>3, <3>2 DEF LoggedOutBy
  <2> QED
    BY <2>1, <2>2
<1> QED
  BY <1>1, <1>2, <1>3 DEF MaySay

\* So does a join.
LEMMA PopJoin ==
  ASSUME NEW R, NEW q \in Seq(R), NEW q2 \in Seq(R), Shortens(q2, q),
         NEW D, NEW D2, NEW I, NEW I2, NEW lg, NEW lg2,
         Settles(q[1], D, I, lg, D2, I2, lg2),
         NEW k \in 1 .. Len(q2) + 1, MayJoin(q, k + 1, D, lg)
  PROVE  MayJoin(q2, k, D2, lg2)
BY Shorter DEF MayJoin, Settles

\* The client agrees with its server again after the request in front has gone.
LEMMA Pop ==
  ASSUME NEW R, NEW q \in Seq(R), NEW q2 \in Seq(R), Shortens(q2, q),
         NEW on, NEW a \in Channels \cup {NoChannel}, NEW S,
         NEW p, NEW p2, NEW D, NEW D2, NEW I, NEW I2, NEW lg, NEW lg2,
         Settles(q[1], D, I, lg, D2, I2, lg2), StaysPresumed(q, p, p2),
         \A k \in 1 .. Len(q) : q[k].type = "say" => q[k].channel \in Channels,
         Agree(q, on, a, S, p, D, I, lg)
  PROVE  Agree(q2, on, a, S, p2, D2, I2, lg2)
<1>1. /\ Len(q) = Len(q2) + 1 /\ Len(q2) \in Nat
      /\ \A k \in 1 .. Len(q2) : /\ k + 1 \in 1 .. Len(q) /\ k \in 1 .. Len(q2) + 1
                                 /\ q2[k] = q[k + 1]
      /\ Len(q2) + 1 \in 1 .. Len(q2) + 1
  BY DEF Shortens
<1>2. Follows(q2, S, D2, I2)
  <2>1. ASSUME NEW ch \in Channels
        PROVE  \/ ch \in S /\ JoinedBy(q2, Len(q2) + 1, ch)
               \/ ch \notin S /\ LeftBy(q2, Len(q2) + 1, ch)
               \/ Untouched(q2, Len(q2) + 1, ch) /\ (ch \in D2 \/ (ch \in S <=> ch \in I2))
    <3>1. \/ ch \in S /\ JoinedBy(q, Len(q) + 1, ch)
          \/ ch \notin S /\ LeftBy(q, Len(q) + 1, ch)
          \/ Untouched(q, Len(q) + 1, ch) /\ (ch \in D \/ (ch \in S <=> ch \in I))
      BY DEF Agree, Follows
    <3> QED
      BY <1>1, <3>1, Shorter DEF Settles
  <2> QED
    BY <2>1 DEF Follows
<1>3. SaysFit(q2, on, a, p2, D2, I2)
  <2>0. \A k \in 1 .. Len(q2) + 1 : \A ch \in Channels :
          MaySay(q, k + 1, ch, p, D, I) => MaySay(q2, k, ch, p2, D2, I2)
    BY PopSay
  <2>1. ASSUME NEW k \in 1 .. Len(q2), q2[k].type = "say"
        PROVE  MaySay(q2, k, q2[k].channel, p2, D2, I2)
    <3>1. q2[k].channel \in Channels /\ MaySay(q, k + 1, q2[k].channel, p, D, I)
      BY <1>1, <2>1 DEF Agree, SaysFit
    <3> QED
      BY <1>1, <2>0, <3>1
  <2>2. ASSUME on, a # NoChannel
        PROVE  MaySay(q2, Len(q2) + 1, a, p2, D2, I2)
    <3>1. a \in Channels /\ MaySay(q, Len(q2) + 1 + 1, a, p, D, I)
      BY <1>1, <2>2 DEF Agree, SaysFit
    <3> QED
      BY <1>1, <2>0, <3>1
  <2> QED
    BY <2>1, <2>2 DEF SaysFit
<1>4. JoinsFit(q2, on, D2, lg2)
  <2>1. \A k \in 1 .. Len(q2) : q2[k].type = "join" => MayJoin(q, k + 1, D, lg)
    BY <1>1 DEF Agree, JoinsFit
  <2>2. on => MayJoin(q, Len(q2) + 1 + 1, D, lg)
    BY <1>1 DEF Agree, JoinsFit
  <2> QED
    BY <1>1, <2>1, <2>2, PopJoin DEF JoinsFit
<1>5. Gone(q2, on, S)
  <2>1. Len(q2) > 0 => q2[Len(q2)] = q[Len(q)]
    BY <1>1
  <2> QED
    BY <1>1, <2>1 DEF Agree, Gone
<1>6. lg2 \/ I2 = {}
  BY DEF Settles
<1> QED
  BY <1>2, <1>3, <1>4, <1>5, <1>6 DEF Agree

-----------------------------------------------------------------------------
(* The wire                                                                  *)

RequestsOf(c) ==
  { LoginRequest(Home[c], u) : u \in NamesOf[c] }
  \cup { LogoutRequest(Home[c]), ListRequest(Home[c]) }
  \cup { JoinRequest(Home[c], ch) : ch \in Channels }
  \cup { LeaveRequest(Home[c], ch) : ch \in Channels }
  \cup { WhoRequest(Home[c], ch) : ch \in Channels }
  \cup { SayRequest(Home[c], ch, t) : ch \in Channels, t \in Texts }

Letters(c, T) == { [from |-> Home[c], text |-> t] : t \in T }

\* All that a client sends goes to its own server, and all it gets comes from there:
\* so the address that recvfrom overwrites keeps its value.
RequestsOK ==
  /\ requests = [c \in Clients |-> requests[c]]
  /\ \A c \in Clients : requests[c] \in Seq(RequestsOf(c))
TextsOK ==
  /\ texts = [c \in Clients |-> texts[c]]
  /\ \A c \in Clients : \E T : texts[c] \in Seq(Letters(c, T))
WireOK == RequestsOK /\ TextsOK /\ server = Home

\* The fields of a request.
LEMMA RequestFields ==
  ASSUME NEW c, NEW r \in RequestsOf(c)
  PROVE  /\ r.to = Home[c]
         /\ r.type \in {"login", "logout", "join", "leave", "who", "list", "say"}
         /\ r.type = "login" => r.user \in NamesOf[c]
         /\ r.type \in {"join", "leave", "who", "say"} => r.channel \in Channels
         /\ r.type = "say" => r.text \in Texts
<1>1. CASE \E u \in NamesOf[c] : r = LoginRequest(Home[c], u)
  BY <1>1 DEF LoginRequest
<1>2. CASE r = LogoutRequest(Home[c]) \/ r = ListRequest(Home[c])
  BY <1>2 DEF LogoutRequest, ListRequest
<1>3. CASE \E ch \in Channels : \/ r = JoinRequest(Home[c], ch)
                                \/ r = LeaveRequest(Home[c], ch)
                                \/ r = WhoRequest(Home[c], ch)
  BY <1>3 DEF JoinRequest, LeaveRequest, WhoRequest
<1>4. CASE \E ch \in Channels, t \in Texts : r = SayRequest(Home[c], ch, t)
  BY <1>4 DEF SayRequest
<1> QED
  BY <1>1, <1>2, <1>3, <1>4 DEF RequestsOf

\* One more, one less.
LEMMA SendOne ==
  ASSUME NEW R, NEW q \in Seq(R), NEW r \in R
  PROVE  /\ q \o <<r>> \in Seq(R)
         /\ Extends(q \o <<r>>, q, r)
<1>1. <<r>> \in Seq(R) /\ Len(<<r>>) = 1 /\ <<r>>[1] = r
  OBVIOUS
<1> QED
  BY <1>1, ConcatProperties DEF Extends

\* A request that sendto refused.
LEMMA SendNone ==
  ASSUME NEW R, NEW q \in Seq(R)
  PROVE  q \o <<>> = q /\ <<>> \o q = q
BY ConcatEmptySeq

\* main's login and join.
LEMMA SendTwo ==
  ASSUME NEW R, NEW q \in Seq(R), NEW r \in R, NEW x \in R
  PROVE  /\ q \o (<<r>> \o <<x>>) \in Seq(R)
         /\ Extends(q \o (<<r>> \o <<x>>), q \o <<r>>, x)
<1>1. <<r>> \in Seq(R) /\ <<x>> \in Seq(R)
  OBVIOUS
<1>2. q \o (<<r>> \o <<x>>) = (q \o <<r>>) \o <<x>>
  BY <1>1, ConcatAssociative
<1> QED
  BY <1>2, SendOne

\* The request in front, taken.
LEMMA TakeOne ==
  ASSUME NEW R, NEW q \in Seq(R), q # <<>>
  PROVE  /\ Tail(q) \in Seq(R) /\ Shortens(Tail(q), q)
         /\ Head(q) = q[1] /\ Head(q) \in R
<1>1. /\ Head(q) \in R /\ Tail(q) \in Seq(R) /\ Len(Tail(q)) = Len(q) - 1
      /\ \A i \in 1 .. Len(Tail(q)) : Tail(q)[i] = q[i + 1]
  BY HeadTailProperties
<1>2. Head(q) = q[1]
  OBVIOUS
<1> QED
  BY <1>1, <1>2 DEF Shortens

-----------------------------------------------------------------------------
(* What servers send to clients                                              *)

\* The image of a finite set is finite.
LEMMA ImageIsFinite ==
  ASSUME NEW S, IsFiniteSet(S), NEW T, NEW f, f \in [S -> T], \A t \in T : \E x \in S : f[x] = t
  PROVE  IsFiniteSet(T)
<1>1. f \in Surjection(S, T)
  BY DEF Surjection
<1> QED
  BY <1>1, FS_Surjection

\* A finite set can be put in order, so SetToSeq does.
LEMMA ListOfSet ==
  ASSUME NEW S, IsFiniteSet(S)
  PROVE  SetToSeq(S) \in Seq(S)
<1>1. /\ Cardinality(S) \in Nat
      /\ \E f \in [1 .. Cardinality(S) -> S] : IsInjective(f)
  BY FS_CardinalityType DEF ExistsBijection, Bijection, Injection
<1>2. SetToSeq(S) \in [1 .. Cardinality(S) -> S]
  BY <1>1 DEF SetToSeq
<1> QED
  BY <1>1, <1>2

\* The texts of this step go to clients of server s.
Local(s) == IsFiniteSet(out') /\ \A x \in out' : Home[x.to] = s

\* Texts for clients of s come from s.
LEMMA DeliverKeeps ==
  ASSUME TextsOK, NEW s, Deliver(s), Local(s)
  PROVE  TextsOK'
<1> DEFINE new(c) == { [from |-> s, text |-> t] : t \in { x \in out' : x.to = c } }
           all(c) == IF cont[c] THEN texts[c] \o SetToSeq(new(c)) ELSE texts[c]
<1>1. texts' = [c \in Clients |-> all(c)]
  BY DEF Deliver
<1>2. ASSUME NEW c \in Clients
      PROVE  \E T : all(c) \in Seq(Letters(c, T))
  <2>1. PICK T : texts[c] \in Seq(Letters(c, T))
    BY DEF TextsOK
  <2> DEFINE U == T \cup out'
             mine == { x \in out' : x.to = c }
             f == [t \in mine |-> [from |-> s, text |-> t]]
  <2>2. IsFiniteSet(new(c))
    <3>1. IsFiniteSet(mine)
      BY FS_Subset DEF Local
    <3>2. f \in [mine -> new(c)] /\ \A t \in new(c) : \E x \in mine : f[x] = t
      OBVIOUS
    <3> HIDE DEF f, mine
    <3> QED
      BY <3>1, <3>2, ImageIsFinite
  <2>3. new(c) \subseteq Letters(c, U)
    BY DEF Local, Letters
  <2>4. Letters(c, T) \subseteq Letters(c, U)
    BY DEF Letters
  <2> HIDE DEF new, U
  <2>5. SetToSeq(new(c)) \in Seq(Letters(c, U)) /\ texts[c] \in Seq(Letters(c, U))
    BY <2>1, <2>2, <2>3, <2>4, ListOfSet, SeqMonotonic
  <2>6. texts[c] \o SetToSeq(new(c)) \in Seq(Letters(c, U))
    BY <2>5, ConcatProperties
  <2> QED
    BY <2>5, <2>6
<1> HIDE DEF all
<1> QED
  BY <1>1, <1>2 DEF TextsOK

\* The members of a server's channels are its own clients.
AtHome ==
  \A s \in Servers : \A ch \in DOMAIN channels[s] :
    \A u \in DOMAIN channels[s][ch] : Home[channels[s][ch][u]] = s

\* Whoever is registered is at home, and so is every member.
LEMMA RoomsAreHomes ==
  ASSUME RoomInv
  PROVE  TypeOK /\ AtHome
BY MembersArePresent DEF AtHome, RoomInv

\* A say goes to the members of a channel, an answer to the client that asked.
LEMMA SayIsLocal ==
  ASSUME TypeOK, AtHome, IsFiniteSet(Names), NEW s \in Servers, NEW ch \in DOMAIN channels[s],
         NEW u, NEW t, out' = SayToMembers(s, ch, u, t)
  PROVE  Local(s)
<1> DEFINE N == DOMAIN channels[s][ch]
           f == [n \in N |-> SayText(n, channels[s][ch][n], ch, u, t)]
<1>1. IsFiniteSet(N)
  <2>1. N \subseteq Names
    BY MapElim DEF TypeOK, UsersOK
  <2> QED
    BY <2>1, FS_Subset
<1>2. f \in [N -> out'] /\ \A x \in out' : \E n \in N : f[n] = x
  BY DEF SayToMembers
<1>3. IsFiniteSet(out')
  <2> HIDE DEF f, N
  <2> QED
    BY <1>1, <1>2, ImageIsFinite
<1>4. \A x \in out' : Home[x.to] = s
  BY DEF SayToMembers, SayText, AtHome
<1> QED
  BY <1>3, <1>4 DEF Local

\* An answer.
LEMMA AnswerIsLocal ==
  ASSUME NEW c, NEW x, x.to = c, out' = {x}
  PROVE  Local(Home[c])
BY FS_Singleton DEF Local

\* Nothing.
LEMMA SilenceIsLocal ==
  ASSUME NEW s, out' = {}
  PROVE  Local(s)
BY FS_EmptySet DEF Local

\* A request handled, a datagram received: whoever is sent something is at home here.
LEMMA HandleIsLocal ==
  ASSUME TypeOK, AtHome, IsFiniteSet(Names), NEW c \in Clients, NEW r \in RequestsOf(c),
         Handle(Home[c], c, r)
  PROVE  Local(Home[c])
<1> DEFINE s == Home[c]
<1>0. s \in Servers
  BY ConfigAssumption
<1>1. CASE Refuse(s, c)
  <2>1. Error(c, "not logged in").to = c
    BY DEF Error
  <2> QED
    BY <1>1, <2>1, AnswerIsLocal DEF Refuse
<1>2. ASSUME NEW ch, NEW x \in Complaint(s, c, ch), out' = Complaint(s, c, ch)
      PROVE  Local(s)
  <2>1. out' = {Error(c, "no such channel")} \/ out' = {Error(c, "not in channel")}
    BY <1>2 DEF Complaint
  <2>2. \A why : Error(c, why).to = c
    BY DEF Error
  <2> QED
    BY <2>1, <2>2, AnswerIsLocal
<1>3. CASE \E u : Login(s, c, u)
  BY <1>3, SilenceIsLocal DEF Login
<1>4. CASE Logout(s, c) \/ \E ch : Join(s, c, ch)
  BY <1>1, <1>4, SilenceIsLocal DEF Logout, LogoutCrash, Die, Join
<1>5. CASE \E ch : Leave(s, c, ch)
  BY <1>1, <1>2, <1>5, SilenceIsLocal DEF Leave
<1>6. ASSUME NEW ch, NEW t, Say(s, c, ch, t), ~Refuse(s, c)
      PROVE  Local(s)
  <2>1. CASE Complaint(s, c, ch) = {}
    <3>1. ch \in DOMAIN channels[s] /\ out' = SayToMembers(s, ch, rev_usernames[s][c], t)
      BY <1>6, <2>1 DEF Say, Complaint, HasChannel
    <3> QED
      BY <1>0, <3>1, SayIsLocal
  <2>2. CASE Complaint(s, c, ch) # {}
    BY <1>2, <1>6, <2>2 DEF Say
  <2> QED
    BY <2>1, <2>2
<1>7. CASE List(s, c)
  <2>1. ListReply(c, DOMAIN channels[s]).to = c
    BY DEF ListReply
  <2> QED
    BY <1>1, <1>7, <2>1, AnswerIsLocal DEF List
<1>8. ASSUME NEW ch, Who(s, c, ch), ~Refuse(s, c)
      PROVE  Local(s)
  <2>1. \/ out' = {WhoReply(c, ch, DOMAIN channels[s][ch])}
        \/ out' = {Error(c, "no such channel")}
    BY <1>8 DEF Who
  <2>2. WhoReply(c, ch, DOMAIN channels[s][ch]).to = c /\ Error(c, "no such channel").to = c
    BY DEF WhoReply, Error
  <2> QED
    BY <2>1, <2>2, AnswerIsLocal
<1> QED
  BY <1>1, <1>3, <1>4, <1>5, <1>6, <1>7, <1>8 DEF Handle

\* What a datagram makes a server send goes to its own clients.
LEMMA ReceiveIsLocal ==
  ASSUME TypeOK, AtHome, IsFiniteSet(Names), NEW m \in InFlight, Delivery(m) \/ Drop(m)
  PROVE  Local(m.to)
<1>1. CASE JoinS2S(m) \/ LeaveS2S(m) \/ BadType(m) \/ Drop(m)
  BY <1>1, SilenceIsLocal DEF JoinS2S, LeaveS2S, BadType, Drop, Lose
<1>2. CASE SayS2S(m)
  <2>1. m.to \in Servers
    BY <1>2, ReceivedType DEF SayS2S, Receive
  <2>2. out' = {} \/ (/\ m.channel \in DOMAIN channels[m.to]
                      /\ out' = SayToMembers(m.to, m.channel, m.user, m.text))
    BY <1>2 DEF SayS2S, HasChannel
  <2> QED
    BY <2>1, <2>2, SilenceIsLocal, SayIsLocal
<1> QED
  BY <1>1, <1>2 DEF Delivery

-----------------------------------------------------------------------------
(* Where the server has a client                                             *)

In(c) == { ch \in Channels : c \in Members[Home[c]][ch] }
Session(c) == LoggedIn(Home[c], c)

Unmoved(c) == In(c)' = In(c) /\ (Session(c)' <=> Session(c))

\* In and MemberOf are the same, and nobody is in a channel without a session.
LEMMA InIsMember ==
  ASSUME OneNameEach, RoomInv, NEW c \in Clients
  PROVE  /\ In(c) = MemberOf(Home[c], c)
         /\ Session(c) \/ In(c) = {}
         /\ \A ch \in In(c) : /\ HasChannel(Home[c], ch)
                              /\ rev_usernames[Home[c]][c] \in DOMAIN channels[Home[c]][ch]
<1> DEFINE s == Home[c]
<1>1. s \in Servers /\ DOMAIN channels[s] \subseteq Channels
  BY ConfigAssumption, MapElim DEF RoomInv, TypeOK, UsersOK
<1>2. ASSUME NEW ch \in In(c)
      PROVE  /\ Session(c) /\ ch \in DOMAIN channels[s]
             /\ rev_usernames[s][c] \in DOMAIN channels[s][ch]
  <2>1. ch \in DOMAIN channels[s] /\ \E y \in DOMAIN channels[s][ch] : channels[s][ch][y] = c
    BY <1>1, <1>2 DEF In, Members, InRoom, HasChannel
  <2>2. PICK y \in DOMAIN channels[s][ch] : channels[s][ch][y] = c
    BY <2>1
  <2>3. LoggedIn(s, c)
    BY <1>1, <2>1, <2>2, MembersArePresent
  <2>4. y = rev_usernames[s][c]
    BY <1>1, <2>1, <2>2, <2>3, OneEntry
  <2> QED
    BY <2>1, <2>2, <2>3, <2>4 DEF Session
<1>3. ASSUME NEW ch \in MemberOf(s, c)
      PROVE  ch \in In(c)
  <2>1. ch \in DOMAIN channels[s] /\ LoggedIn(s, c) /\ rev_usernames[s][c] \in DOMAIN channels[s][ch]
    BY <1>3 DEF MemberOf
  <2>2. channels[s][ch][rev_usernames[s][c]] = c
    BY <1>1, <2>1, OneEntry
  <2> QED
    BY <1>1, <2>1, <2>2 DEF In, Members, InRoom, HasChannel
<1>4. \A ch \in In(c) : ch \in MemberOf(s, c)
  BY <1>2 DEF MemberOf, Session
<1> QED
  BY <1>2, <1>3, <1>4 DEF HasChannel

\* A step that leaves the two tables alone moves nobody.
LEMMA NobodyMoves ==
  ASSUME UNCHANGED <<rev_usernames, channels>>
  PROVE  \A c : Unmoved(c)
BY Standstill DEF Unmoved, In, Session, LoggedIn

\* A server that dies puts all its clients out, and no others.
LEMMA DieMoves ==
  ASSUME TypeOK, NEW s \in Servers, Die(s), NEW c \in Clients
  PROVE  /\ Home[c] # s => Unmoved(c)
         /\ Home[c] = s => In(c)' = {} /\ ~Session(c)'
<1>1. Home[c] \in Servers
  BY ConfigAssumption
<1>2. /\ Present' = [Present EXCEPT ![s] = {}]
      /\ Members' = [Members EXCEPT ![s] = [ch \in Channels |-> {}]]
  BY DieCollapses DEF Room!Collapse
<1>3. Members'[Home[c]] = IF Home[c] = s THEN [ch \in Channels |-> {}] ELSE Members[Home[c]]
  BY <1>1, <1>2 DEF Members
<1>4. Present'[Home[c]] = IF Home[c] = s THEN {} ELSE Present[Home[c]]
  BY <1>1, <1>2 DEF Present
<1>5. /\ Session(c) <=> c \in Present[Home[c]]
      /\ Session(c)' <=> c \in Present'[Home[c]]
  BY <1>1 DEF Session, Present, LoggedIn
<1> QED
  BY <1>3, <1>4, <1>5 DEF Unmoved, In

\* What a request does to its client.
Moved(c, r) ==
  /\ r.type = "login" => Session(c)' /\ In(c)' = In(c)
  /\ r.type = "logout" => ~Session(c)' /\ In(c)' = {}
  /\ r.type = "join" => (Session(c)' <=> Session(c))
                        /\ In(c)' = IF Session(c) THEN In(c) \cup {r.channel} ELSE In(c)
  /\ r.type = "leave" => (Session(c)' <=> Session(c)) /\ In(c)' = In(c) \ {r.channel}
  /\ r.type \in {"who", "list", "say"} => Unmoved(c)

\* The rooms of other clients are the same rooms.
LEMMA RoomMoves ==
  ASSUME NEW c \in Clients,
         \A x \in Servers \ {Home[c]} : Present'[x] = Present[x] /\ Members'[x] = Members[x],
         \A d \in Clients \ {c} :
           /\ d \in Present'[Home[c]] <=> d \in Present[Home[c]]
           /\ \A ch \in Channels : d \in Members'[Home[c]][ch] <=> d \in Members[Home[c]][ch]
  PROVE  /\ \A d \in Clients \ {c} : Unmoved(d)
         /\ Session(c) <=> c \in Present[Home[c]]
         /\ Session(c)' <=> c \in Present'[Home[c]]
<1>1. \A d \in Clients : /\ Home[d] \in Servers
                         /\ Session(d) <=> d \in Present[Home[d]]
                         /\ Session(d)' <=> d \in Present'[Home[d]]
  BY ConfigAssumption DEF Session, Present, LoggedIn
<1>2. ASSUME NEW d \in Clients \ {c}
      PROVE  Unmoved(d)
  <2>1. CASE Home[d] = Home[c]
    BY <1>1, <2>1 DEF Unmoved, In
  <2>2. CASE Home[d] # Home[c]
    BY <1>1, <2>2 DEF Unmoved, In
  <2> QED
    BY <2>1, <2>2
<1> QED
  BY <1>1, <1>2

\* A request that is refused moves nobody: its client is in no channel.
LEMMA RefusalMoves ==
  ASSUME OneNameEach, RoomInv, NEW c \in Clients, NEW r, Refuse(Home[c], c), r.type # "login"
  PROVE  Moved(c, r) /\ \A d \in Clients \ {c} : Unmoved(d)
<1>1. UNCHANGED <<rev_usernames, channels>> /\ ~Session(c)
  BY DEF Refuse, rooms, users, Session
<1>2. \A d : Unmoved(d)
  BY <1>1, NobodyMoves
<1>3. In(c) = {}
  BY <1>1, InIsMember
<1> QED
  BY <1>1, <1>2, <1>3 DEF Moved, Unmoved

\* A login gives its client a session, and leaves it where it was.
LEMMA LoginMoves ==
  ASSUME OneNameEach, RoomInv, NEW c \in Clients, NEW r, NEW u, Login(Home[c], c, u),
         r.type = "login"
  PROVE  Moved(c, r) /\ \A d \in Clients \ {c} : Unmoved(d)
<1> DEFINE s == Home[c]
<1>1. s \in Servers
  BY ConfigAssumption
<1>2. Present' = [Present EXCEPT ![s] = Present[s] \cup {c}] /\ Members' = Members
  BY <1>1, LoginEnters DEF Room!Enter, RoomInv
<1>3. /\ \A x \in Servers \ {s} : Present'[x] = Present[x]
      /\ Present'[s] = Present[s] \cup {c}
  BY <1>1, <1>2 DEF Present
<1>4. (\A d \in Clients \ {c} : Unmoved(d)) /\ Session(c)'
  BY <1>2, <1>3, RoomMoves
<1> QED
  BY <1>2, <1>4 DEF Moved, In

\* A logout takes the session, and every channel.
LEMMA LogoutMoves ==
  ASSUME OneNameEach, RoomInv, NEW c \in Clients, NEW r, Logout(Home[c], c),
         r.type = "logout"
  PROVE  Moved(c, r) /\ \A d \in Clients \ {c} : Unmoved(d)
<1> DEFINE s == Home[c]
<1>1. s \in Servers
  BY ConfigAssumption
<1>2. CASE Refuse(s, c)
  BY <1>2, RefusalMoves
<1>3. ~LogoutCrash(s, c)
  BY <1>1 DEF LogoutCrash, Serve, LoggedIn, RoomInv, Registry, SessionsAreRegistered
<1>4. CASE ~Refuse(s, c)
  <2>1. /\ Present' = [Present EXCEPT ![s] = Present[s] \ {c}]
        /\ Members' = [Members EXCEPT ![s] = [ch \in Channels |-> Members[s][ch] \ {c}]]
    BY <1>1, <1>3, <1>4, LogoutExits DEF Room!Exit
  <2>2. /\ \A x \in Servers \ {s} : Present'[x] = Present[x]
        /\ Present'[s] = Present[s] \ {c}
    BY <1>1, <2>1 DEF Present
  <2>3. /\ \A x \in Servers \ {s} : Members'[x] = Members[x]
        /\ Members'[s] = [ch \in Channels |-> Members[s][ch] \ {c}]
    BY <1>1, <2>1 DEF Members
  <2>4. \A ch \in Channels : Members'[s][ch] = Members[s][ch] \ {c}
    BY <2>3
  <2>5. (\A d \in Clients \ {c} : Unmoved(d)) /\ ~Session(c)'
    BY <2>2, <2>3, <2>4, RoomMoves
  <2> QED
    BY <2>4, <2>5 DEF Moved, In
<1> QED
  BY <1>2, <1>4

\* A join puts its client in the channel.
LEMMA JoinMoves ==
  ASSUME OneNameEach, RoomInv, NEW c \in Clients, NEW r, NEW ch \in Channels,
         Join(Home[c], c, ch), r.type = "join", r.channel = ch
  PROVE  Moved(c, r) /\ \A d \in Clients \ {c} : Unmoved(d)
<1> DEFINE s == Home[c]
<1>1. s \in Servers
  BY ConfigAssumption
<1>2. CASE Refuse(s, c)
  BY <1>2, RefusalMoves
<1>3. CASE ~Refuse(s, c)
  <2>1. /\ Present' = Present /\ c \in Present[s]
        /\ Members' = [Members EXCEPT ![s][ch] = @ \cup {c}]
    BY <1>1, <1>3, JoinJoins DEF Room!JoinRoom
  <2>2. /\ \A x \in Servers \ {s} : Members'[x] = Members[x]
        /\ \A x \in Channels : Members'[s][x] =
             IF x = ch THEN Members[s][x] \cup {c} ELSE Members[s][x]
    <3>1. DOMAIN Members = Servers /\ DOMAIN Members[s] = Channels
      BY <1>1 DEF Members
    <3> QED
      BY <1>1, <2>1, <3>1
  <2>3. /\ \A d \in Clients \ {c} : Unmoved(d)
        /\ Session(c) <=> c \in Present[s]
        /\ Session(c)' <=> c \in Present'[s]
    BY <2>1, <2>2, RoomMoves
  <2>4. In(c)' = In(c) \cup {ch}
    BY <2>2 DEF In
  <2> QED
    BY <2>1, <2>3, <2>4 DEF Moved
<1> QED
  BY <1>2, <1>3

\* A leave takes it out, if it was in.
LEMMA LeaveMoves ==
  ASSUME OneNameEach, RoomInv, NEW c \in Clients, NEW r, NEW ch \in Channels,
         Leave(Home[c], c, ch), r.type = "leave", r.channel = ch
  PROVE  Moved(c, r) /\ \A d \in Clients \ {c} : Unmoved(d)
<1> DEFINE s == Home[c]
<1>1. s \in Servers
  BY ConfigAssumption
<1>2. CASE Refuse(s, c)
  BY <1>2, RefusalMoves
<1>3. CASE ~Refuse(s, c) /\ Complaint(s, c, ch) # {}
  <2>1. UNCHANGED <<rev_usernames, channels>>
    BY <1>3 DEF Leave
  <2>2. ch \notin In(c)
    BY <1>3, InIsMember DEF Complaint
  <2> QED
    BY <2>1, <2>2, NobodyMoves DEF Moved, Unmoved
<1>4. CASE ~Refuse(s, c) /\ Complaint(s, c, ch) = {}
  <2>1. /\ Present' = Present
        /\ Members' = [Members EXCEPT ![s][ch] = @ \ {c}]
    BY <1>1, <1>4, LeaveLeaves DEF Room!LeaveRoom
  <2>2. /\ \A x \in Servers \ {s} : Members'[x] = Members[x]
        /\ \A x \in Channels : Members'[s][x] =
             IF x = ch THEN Members[s][x] \ {c} ELSE Members[s][x]
    <3>1. DOMAIN Members = Servers /\ DOMAIN Members[s] = Channels
      BY <1>1 DEF Members
    <3> QED
      BY <1>1, <2>1, <3>1
  <2>3. /\ \A d \in Clients \ {c} : Unmoved(d)
        /\ Session(c) <=> c \in Present[s]
        /\ Session(c)' <=> c \in Present'[s]
    BY <2>1, <2>2, RoomMoves
  <2>4. In(c)' = In(c) \ {ch}
    BY <2>2 DEF In
  <2> QED
    BY <2>1, <2>3, <2>4 DEF Moved
<1> QED
  BY <1>2, <1>3, <1>4

\* Any request moves its own client, as Moved says, and no other.
LEMMA HandleMoves ==
  ASSUME OneNameEach, RoomInv, NEW c \in Clients, NEW r \in RequestsOf(c),
         Handle(Home[c], c, r)
  PROVE  Moved(c, r) /\ \A d \in Clients \ {c} : Unmoved(d)
<1> DEFINE s == Home[c]
<1>1. r.type \in {"join", "leave", "who", "say"} => r.channel \in Channels
  BY RequestFields
<1>2. CASE r.type = "login" /\ Login(s, c, r.user)
  BY <1>2, LoginMoves
<1>3. CASE r.type = "logout" /\ Logout(s, c)
  BY <1>3, LogoutMoves
<1>4. CASE r.type = "join" /\ Join(s, c, r.channel)
  BY <1>1, <1>4, JoinMoves
<1>5. CASE r.type = "leave" /\ Leave(s, c, r.channel)
  BY <1>1, <1>5, LeaveMoves
<1>6. CASE \/ r.type = "say" /\ Say(s, c, r.channel, r.text)
           \/ r.type = "list" /\ List(s, c)
           \/ r.type = "who" /\ Who(s, c, r.channel)
  <2>1. UNCHANGED <<rev_usernames, channels>>
    BY <1>6 DEF Say, List, Who, Refuse, rooms, users
  <2>2. \A d : Unmoved(d)
    BY <2>1, NobodyMoves
  <2> QED
    BY <1>6, <2>2 DEF Moved
<1> QED
  BY <1>2, <1>3, <1>4, <1>5, <1>6 DEF Handle

-----------------------------------------------------------------------------
(* The invariant                                                             *)

\* A client's first and last request get through to its socket.
LoginsAreSent == Unsent \cap {"login", "logout"} = {}

Peace(c) ==
  Agree(requests[c], cont[c], active_channel[c], subscribed_channels[c],
        c \in presumed, doubt[c], In(c), Session(c))

DoubtInv ==
  /\ RoomInv /\ Beliefs /\ WireOK
  /\ doubt \in [Clients -> SUBSET Channels]
  /\ \A c \in Clients : Peace(c)

\* Agree is about truth values, whichever way they are written.
LEMMA AgreeSame ==
  ASSUME NEW q, NEW on, NEW a, NEW S, NEW p, NEW p2, NEW D, NEW I, NEW lg, NEW lg2,
         p <=> p2, lg <=> lg2, Agree(q, on, a, S, p, D, I, lg)
  PROVE  Agree(q, on, a, S, p2, D, I, lg2)
BY DEF Agree, SaysFit, MaySay, JoinsFit, MayJoin

\* A client nothing happens to.
LEMMA StillPeace ==
  ASSUME NEW c, Peace(c), Unmoved(c),
         requests'[c] = requests[c], cont'[c] = cont[c],
         active_channel'[c] = active_channel[c],
         subscribed_channels'[c] = subscribed_channels[c],
         c \in presumed' <=> c \in presumed, doubt'[c] = doubt[c]
  PROVE  Peace(c)'
<1>1. In(c)' = In(c) /\ (Session(c)' <=> Session(c))
  BY DEF Unmoved
<1>2. Agree(requests[c], cont[c], active_channel[c], subscribed_channels[c],
            c \in presumed', doubt[c], In(c), Session(c)')
  BY <1>1, AgreeSame DEF Peace
<1> QED
  BY <1>1, <1>2 DEF Peace

\* The queue of the client that sends, and those of the others.
LEMMA QueueKeeps ==
  ASSUME RequestsOK, NEW c \in Clients, NEW sent, requests[c] \o sent \in Seq(RequestsOf(c)),
         Queue(c, sent)
  PROVE  /\ RequestsOK'
         /\ requests'[c] = requests[c] \o sent
         /\ \A d \in Clients \ {c} : requests'[d] = requests[d]
<1>1. requests' = [requests EXCEPT ![c] = requests[c] \o sent]
  BY DEF Queue
<1>2. /\ requests' = [d \in Clients |-> requests'[d]]
      /\ requests'[c] = requests[c] \o sent
      /\ \A d \in Clients \ {c} : requests'[d] = requests[d]
  BY <1>1 DEF RequestsOK
<1> QED
  BY <1>2 DEF RequestsOK

\* What is sent, if it is sent.
LEMMA OutcomesAre ==
  ASSUME NEW r, NEW sent \in Outcomes(r)
  PROVE  sent = <<r>> \/ (sent = <<>> /\ r.type \in Unsent)
BY DEF Outcomes

\* All that client.c can send is a request of RequestsOf.
LEMMA RequestIsOwn ==
  ASSUME NEW c
  PROVE  /\ \A u \in NamesOf[c] : LoginRequest(Home[c], u) \in RequestsOf(c)
         /\ LogoutRequest(Home[c]) \in RequestsOf(c)
         /\ ListRequest(Home[c]) \in RequestsOf(c)
         /\ \A ch \in Channels : /\ JoinRequest(Home[c], ch) \in RequestsOf(c)
                                 /\ LeaveRequest(Home[c], ch) \in RequestsOf(c)
                                 /\ WhoRequest(Home[c], ch) \in RequestsOf(c)
                                 /\ \A t \in Texts : SayRequest(Home[c], ch, t) \in RequestsOf(c)
BY DEF RequestsOf

\* A running client's queue after what it sent: the request is behind it, or it is as it was.
LEMMA SentOrNot ==
  ASSUME RequestsOK, NEW c \in Clients, NEW r \in RequestsOf(c), NEW sent \in Outcomes(r),
         Queue(c, sent)
  PROVE  /\ RequestsOK'
         /\ \A d \in Clients \ {c} : requests'[d] = requests[d]
         /\ \/ sent = <<r>> /\ Extends(requests'[c], requests[c], r)
            \/ sent = <<>> /\ requests'[c] = requests[c] /\ r.type \in Unsent
         /\ requests[c] \in Seq(RequestsOf(c)) /\ requests'[c] \in Seq(RequestsOf(c))
<1>1. requests[c] \in Seq(RequestsOf(c))
  BY DEF RequestsOK
<1>2. CASE sent = <<r>>
  <2>1. /\ requests[c] \o <<r>> \in Seq(RequestsOf(c))
        /\ Extends(requests[c] \o <<r>>, requests[c], r)
    BY <1>1, SendOne
  <2> QED
    BY <1>1, <1>2, <2>1, QueueKeeps
<1>3. CASE sent = <<>> /\ r.type \in Unsent
  <2>1. requests[c] \o sent = requests[c]
    BY <1>1, <1>3, SendNone
  <2> QED
    BY <1>1, <1>3, <2>1, QueueKeeps
<1> QED
  BY <1>2, <1>3, OutcomesAre

-----------------------------------------------------------------------------
(* The steps of a client                                                     *)

\* One step of client c, as Peace wants it: it changes its own queue.
Sends(c) ==
  /\ WireOK'
  /\ \A d \in Clients \ {c} : requests'[d] = requests[d]
  /\ Agree(requests'[c], cont'[c], active_channel'[c], subscribed_channels'[c],
           c \in presumed', doubt[c], In(c), Session(c))

\* main: a login, and a join that may not get out.
LEMMA LaunchSends ==
  ASSUME LoginsAreSent, DoubtInv, NEW c \in Clients, NEW u \in NamesOf[c], Launch(c, u),
         NoteLaunch(c)
  PROVE  Sends(c)
<1> DEFINE q == requests[c]
           R == RequestsOf(c)
           l == LoginRequest(Home[c], u)
           j == JoinRequest(Home[c], Common)
           agree(Q, A, S, p) == Agree(Q, TRUE, A, S, p, doubt[c], In(c), Session(c))
<1>1. /\ ~cont[c] /\ cont'[c] = TRUE /\ active_channel'[c] = Common
      /\ server' = Home /\ TextsOK'
  <2>1. ~cont[c] /\ cont'[c] = TRUE /\ active_channel'[c] = Common
    BY DEF Launch, DoubtInv, Beliefs, BeliefsOK
  <2>2. server' = Home
    BY ConfigAssumption DEF Launch, DoubtInv, WireOK
  <2>3. TextsOK'
    BY DEF Launch, DoubtInv, WireOK, TextsOK
  <2> QED
    BY <2>1, <2>2, <2>3
<1>2. PICK login \in Outcomes(l), join \in Outcomes(j) :
        /\ Queue(c, login \o join)
        /\ subscribed_channels'[c] = IF join = <<>> THEN {} ELSE {Common}
  BY DEF Launch, DoubtInv, Beliefs, BeliefsOK
<1>3. login = <<l>>
  <2>1. l.type = "login"
    BY DEF LoginRequest
  <2> QED
    BY <2>1, OutcomesAre DEF LoginsAreSent
<1>4. /\ l \in R /\ j \in R /\ q \in Seq(R) /\ RequestsOK
      /\ l.type = "login" /\ j.type = "join" /\ j.channel = Common
  BY ConfigAssumption, RequestIsOwn
  DEF DoubtInv, WireOK, RequestsOK, LoginRequest, JoinRequest
<1>5. Agree(q, FALSE, active_channel[c], subscribed_channels[c], c \in presumed,
            doubt[c], In(c), Session(c))
  <2>1. cont[c] = FALSE
    BY <1>1 DEF DoubtInv, Beliefs, BeliefsOK
  <2> QED
    BY <2>1 DEF DoubtInv, Peace
<1> HIDE DEF l, j, R
<1>6. q \o <<l>> \in Seq(R) /\ Extends(q \o <<l>>, q, l)
  BY <1>4, SendOne
<1>7. CASE join = <<>>
  <2>1. login \o join = <<l>>
    BY <1>3, <1>7
  <2>2. /\ RequestsOK' /\ requests'[c] = q \o <<l>>
        /\ \A d \in Clients \ {c} : requests'[d] = requests[d]
    BY <1>2, <1>4, <1>6, <2>1, QueueKeeps DEF R
  <2>3. agree(requests'[c], Common, {}, TRUE)
    BY <1>4, <1>5, <1>6, <2>2, Presume
  <2>4. c \in presumed' /\ subscribed_channels'[c] = {}
    BY <1>1, <1>2, <1>7 DEF NoteLaunch
  <2>5. agree(requests'[c], Common, {}, c \in presumed')
    BY <2>3, <2>4, AgreeSame
  <2> QED
    BY <1>1, <2>2, <2>4, <2>5 DEF Sends, WireOK
<1>8. CASE join = <<j>>
  <2>1. login \o join = <<l>> \o <<j>> /\ join # <<>>
    BY <1>3, <1>8
  <2>2. /\ q \o (<<l>> \o <<j>>) \in Seq(R)
        /\ Extends(q \o (<<l>> \o <<j>>), q \o <<l>>, j)
    BY <1>4, SendTwo
  <2>3. /\ RequestsOK' /\ requests'[c] = q \o (<<l>> \o <<j>>)
        /\ \A d \in Clients \ {c} : requests'[d] = requests[d]
    BY <1>2, <1>4, <2>1, <2>2, QueueKeeps DEF R
  <2>4. agree(q \o <<l>>, NoChannel, {}, c \in presumed)
    BY <1>4, <1>5, <1>6, PushLogin
  <2>5. agree(requests'[c], Common, {} \cup {Common}, c \in presumed)
    BY <1>4, <1>6, <2>2, <2>3, <2>4, PushJoin, ConfigAssumption
  <2>6. presumed' = presumed /\ subscribed_channels'[c] = {} \cup {Common}
    BY <1>1, <1>2, <2>1 DEF NoteLaunch
  <2> QED
    BY <1>1, <2>3, <2>5, <2>6 DEF Sends, WireOK
<1> QED
  BY <1>7, <1>8, OutcomesAre

\* A running client is presumed to be where it was.
LEMMA RunningPeace ==
  ASSUME DoubtInv, NEW c \in Clients, cont[c], NoteLaunch(c)
  PROVE  /\ presumed' = presumed
         /\ Agree(requests[c], TRUE, active_channel[c], subscribed_channels[c],
                  c \in presumed, doubt[c], In(c), Session(c))
         /\ active_channel[c] \in Channels \cup {NoChannel}
         /\ server[c] = Home[c]
<1>1. cont[c] = TRUE
  BY DEF DoubtInv, Beliefs, BeliefsOK
<1> QED
  BY <1>1 DEF NoteLaunch, DoubtInv, Beliefs, BeliefsOK, Peace, WireOK

\* A join, sent or not.
LEMMA JoinSends ==
  ASSUME DoubtInv, NEW c \in Clients, NEW ch \in Channels, JoinCommand(c, ch), NoteLaunch(c)
  PROVE  Sends(c)
<1> DEFINE r == JoinRequest(Home[c], ch)
<1>1. cont[c] /\ cont' = cont /\ UNCHANGED <<server, texts>>
  BY DEF JoinCommand, Typed
<1>2. /\ presumed' = presumed
      /\ Agree(requests[c], TRUE, active_channel[c], subscribed_channels[c],
               c \in presumed, doubt[c], In(c), Session(c))
      /\ server[c] = Home[c] /\ cont'[c] = TRUE
  BY <1>1, RunningPeace DEF DoubtInv, Beliefs, BeliefsOK
<1>3. PICK sent \in Outcomes(r) : Queue(c, sent) /\ Subscribe(c, ch, sent)
  BY <1>2 DEF JoinCommand
<1>4. /\ r \in RequestsOf(c) /\ r.type = "join" /\ r.channel = ch
      /\ RequestsOK /\ WireOK
  BY RequestIsOwn DEF JoinRequest, DoubtInv, WireOK
<1> HIDE DEF r
<1>5. /\ RequestsOK'
      /\ \A d \in Clients \ {c} : requests'[d] = requests[d]
      /\ \/ sent = <<r>> /\ Extends(requests'[c], requests[c], r)
         \/ sent = <<>> /\ requests'[c] = requests[c]
      /\ requests[c] \in Seq(RequestsOf(c)) /\ requests'[c] \in Seq(RequestsOf(c))
  BY <1>3, <1>4, SentOrNot
<1>6. WireOK'
  BY <1>1, <1>4, <1>5 DEF WireOK, TextsOK
<1>7. CASE sent = <<>> /\ requests'[c] = requests[c]
  BY <1>2, <1>3, <1>5, <1>6, <1>7 DEF Sends, Subscribe
<1>8. CASE sent = <<r>> /\ Extends(requests'[c], requests[c], r)
  <2>1. Agree(requests'[c], TRUE, ch, subscribed_channels[c] \cup {ch},
              c \in presumed, doubt[c], In(c), Session(c))
    <3>1. Agree(requests[c], TRUE, active_channel[c], subscribed_channels[c],
                c \in presumed, doubt[c], In(c), Session(c))
      BY <1>2
    <3>2. /\ requests[c] \in Seq(RequestsOf(c)) /\ requests'[c] \in Seq(RequestsOf(c))
          /\ r.type = "join" /\ r.channel = ch
      BY <1>4, <1>5
    <3> QED
      BY <1>8, <3>1, <3>2, PushJoin
  <2>2. active_channel'[c] = ch /\ subscribed_channels'[c] = subscribed_channels[c] \cup {ch}
    <3>1. sent # <<>>
      BY <1>8
    <3> QED
      BY <1>3, <3>1 DEF Subscribe, DoubtInv, Beliefs, BeliefsOK
  <2> QED
    BY <1>2, <1>5, <1>6, <2>1, <2>2 DEF Sends
<1> QED
  BY <1>5, <1>7, <1>8

\* A leave, sent or not.
LEMMA LeaveSends ==
  ASSUME DoubtInv, NEW c \in Clients, NEW ch \in Channels, LeaveCommand(c, ch), NoteLaunch(c)
  PROVE  Sends(c)
<1> DEFINE r == LeaveRequest(Home[c], ch)
<1>1. cont[c] /\ cont' = cont /\ UNCHANGED <<server, texts>>
  BY DEF LeaveCommand, Typed
<1>2. /\ presumed' = presumed
      /\ Agree(requests[c], TRUE, active_channel[c], subscribed_channels[c],
               c \in presumed, doubt[c], In(c), Session(c))
      /\ active_channel[c] \in Channels \cup {NoChannel}
      /\ server[c] = Home[c] /\ cont'[c] = TRUE
  BY <1>1, RunningPeace DEF DoubtInv, Beliefs, BeliefsOK
<1>3. PICK sent \in Outcomes(r) : Queue(c, sent) /\ Unsubscribe(c, ch, sent)
  BY <1>2 DEF LeaveCommand
<1>4. /\ r \in RequestsOf(c) /\ r.type = "leave" /\ r.channel = ch
      /\ RequestsOK /\ WireOK
  BY RequestIsOwn DEF LeaveRequest, DoubtInv, WireOK
<1> HIDE DEF r
<1>5. /\ RequestsOK'
      /\ \A d \in Clients \ {c} : requests'[d] = requests[d]
      /\ \/ sent = <<r>> /\ Extends(requests'[c], requests[c], r)
         \/ sent = <<>> /\ requests'[c] = requests[c]
      /\ requests[c] \in Seq(RequestsOf(c)) /\ requests'[c] \in Seq(RequestsOf(c))
  BY <1>3, <1>4, SentOrNot
<1>6. WireOK'
  BY <1>1, <1>4, <1>5 DEF WireOK, TextsOK
<1>7. CASE sent = <<>> /\ requests'[c] = requests[c]
  BY <1>2, <1>3, <1>5, <1>6, <1>7 DEF Sends, Unsubscribe
<1>8. CASE sent = <<r>> /\ Extends(requests'[c], requests[c], r)
  <2>1. /\ active_channel'[c] = IF active_channel[c] = ch THEN NoChannel ELSE active_channel[c]
        /\ subscribed_channels'[c] = subscribed_channels[c] \ {ch}
    <3>1. sent # <<>>
      BY <1>8
    <3> QED
      BY <1>3, <3>1 DEF Unsubscribe, DoubtInv, Beliefs, BeliefsOK
  <2>2. CASE active_channel[c] = ch
    <3>1. Agree(requests'[c], TRUE, NoChannel, subscribed_channels[c] \ {ch},
                c \in presumed, doubt[c], In(c), Session(c))
      <4>1. Agree(requests[c], TRUE, ch, subscribed_channels[c],
                  c \in presumed, doubt[c], In(c), Session(c))
        BY <1>2, <2>2
      <4> QED
        BY <1>4, <1>5, <1>8, <4>1, PushLeaveActive
    <3> QED
      BY <1>2, <1>5, <1>6, <2>1, <2>2, <3>1 DEF Sends
  <2>3. CASE active_channel[c] # ch
    <3>1. Agree(requests'[c], TRUE, active_channel[c], subscribed_channels[c] \ {ch},
                c \in presumed, doubt[c], In(c), Session(c))
      BY <1>2, <1>4, <1>5, <1>8, <2>3, PushLeave, ZenonT(40)
    <3> QED
      BY <1>2, <1>5, <1>6, <2>1, <2>3, <3>1 DEF Sends
  <2> QED
    BY <2>2, <2>3
<1> QED
  BY <1>5, <1>7, <1>8

\* A say in the active channel, a who or a list.
LEMMA OtherSends ==
  ASSUME DoubtInv, NEW c \in Clients, Typed(c), NoteLaunch(c),
         UNCHANGED <<cont, active_channel, subscribed_channels>>,
         NEW r \in RequestsOf(c), r.type \in {"say", "who", "list"},
         r.type = "say" => active_channel[c] # NoChannel /\ r.channel = active_channel[c],
         NEW sent \in Outcomes(r), Queue(c, sent)
  PROVE  Sends(c)
<1>1. cont[c] /\ UNCHANGED <<server, texts>>
  BY DEF Typed
<1>2. /\ presumed' = presumed
      /\ Agree(requests[c], TRUE, active_channel[c], subscribed_channels[c],
               c \in presumed, doubt[c], In(c), Session(c))
      /\ active_channel[c] \in Channels \cup {NoChannel}
      /\ cont'[c] = TRUE /\ RequestsOK /\ WireOK
  BY <1>1, RunningPeace DEF DoubtInv, Beliefs, BeliefsOK, WireOK
<1>3. /\ RequestsOK'
      /\ \A d \in Clients \ {c} : requests'[d] = requests[d]
      /\ Extends(requests'[c], requests[c], r) \/ requests'[c] = requests[c]
      /\ requests[c] \in Seq(RequestsOf(c)) /\ requests'[c] \in Seq(RequestsOf(c))
  BY <1>2, SentOrNot
<1>4. WireOK'
  BY <1>1, <1>2, <1>3 DEF WireOK, TextsOK
<1>5. Agree(requests'[c], TRUE, active_channel[c], subscribed_channels[c],
            c \in presumed, doubt[c], In(c), Session(c))
  BY <1>2, <1>3, PushOther, ZenonT(40)
<1> QED
  BY <1>2, <1>3, <1>4, <1>5 DEF Sends

\* A switch sends nothing.
LEMMA SwitchSends ==
  ASSUME DoubtInv, NEW c \in Clients, NEW ch \in Channels, SwitchCommand(c, ch), NoteLaunch(c)
  PROVE  Sends(c)
<1>1. /\ cont[c] /\ UNCHANGED <<server, texts, cont, subscribed_channels, requests>>
      /\ ch \in subscribed_channels[c]
      /\ active_channel' = [active_channel EXCEPT ![c] = ch]
  BY DEF SwitchCommand, Typed
<1>2. /\ presumed' = presumed
      /\ Agree(requests[c], TRUE, active_channel[c], subscribed_channels[c],
               c \in presumed, doubt[c], In(c), Session(c))
      /\ cont'[c] = TRUE /\ active_channel'[c] = ch
  BY <1>1, RunningPeace DEF DoubtInv, Beliefs, BeliefsOK
<1>3. Agree(requests[c], TRUE, ch, subscribed_channels[c],
            c \in presumed, doubt[c], In(c), Session(c))
  BY <1>1, <1>2, SwitchTo
<1>4. WireOK'
  BY <1>1 DEF DoubtInv, WireOK, RequestsOK, TextsOK
<1> QED
  BY <1>1, <1>2, <1>3, <1>4 DEF Sends

\* The end of the process: its logout is sent.
LEMMA ExitSends ==
  ASSUME LoginsAreSent, DoubtInv, NEW c \in Clients, ExitCommand(c), NoteLaunch(c)
  PROVE  Sends(c)
<1> DEFINE r == LogoutRequest(Home[c])
<1>1. cont[c] /\ UNCHANGED server
  BY DEF ExitCommand
<1>2. /\ presumed' = presumed
      /\ Agree(requests[c], TRUE, active_channel[c], subscribed_channels[c],
               c \in presumed, doubt[c], In(c), Session(c))
      /\ server[c] = Home[c]
  BY <1>1, RunningPeace
<1>3. PICK sent \in Outcomes(r) : Queue(c, sent)
  BY <1>2 DEF ExitCommand
<1>4. /\ r \in RequestsOf(c) /\ r.type = "logout"
      /\ RequestsOK /\ WireOK
  BY RequestIsOwn DEF LogoutRequest, DoubtInv, WireOK
<1>5. r.type \notin Unsent
  BY <1>4 DEF LoginsAreSent
<1> HIDE DEF r
<1>6. /\ RequestsOK'
      /\ \A d \in Clients \ {c} : requests'[d] = requests[d]
      /\ Extends(requests'[c], requests[c], r)
      /\ requests[c] \in Seq(RequestsOf(c)) /\ requests'[c] \in Seq(RequestsOf(c))
  BY <1>3, <1>4, <1>5, SentOrNot
<1>7. WireOK'
  <2>1. texts' = [texts EXCEPT ![c] = <<>>]
    BY DEF ExitCommand
  <2>2. \A T : <<>> \in Seq(Letters(c, T))
    BY EmptySeq
  <2>3. TextsOK'
    BY <1>4, <2>1, <2>2 DEF WireOK, TextsOK
  <2> QED
    BY <1>1, <1>4, <1>6, <2>3 DEF WireOK
<1>8. Agree(requests'[c], FALSE, NoChannel, {}, c \in presumed, doubt[c], In(c), Session(c))
  BY <1>2, <1>4, <1>6, PushLogout
<1>9. cont'[c] = FALSE /\ active_channel'[c] = NoChannel /\ subscribed_channels'[c] = {}
  BY DEF ExitCommand, DoubtInv, Beliefs, BeliefsOK
<1> QED
  BY <1>2, <1>6, <1>7, <1>8, <1>9 DEF Sends

\* A text read: it comes from the client's own server.
LEMMA InputSends ==
  ASSUME DoubtInv, NEW c \in Clients, HandleServerInput(c), NoteLaunch(c)
  PROVE  Sends(c)
<1>1. /\ cont[c] /\ texts[c] # <<>>
      /\ server' = [server EXCEPT ![c] = Head(texts[c]).from]
      /\ texts' = [texts EXCEPT ![c] = Tail(texts[c])]
      /\ UNCHANGED <<cont, active_channel, subscribed_channels, requests>>
  BY DEF HandleServerInput
<1>2. /\ presumed' = presumed
      /\ Agree(requests[c], TRUE, active_channel[c], subscribed_channels[c],
               c \in presumed, doubt[c], In(c), Session(c))
      /\ cont'[c] = TRUE /\ WireOK
  BY <1>1, RunningPeace DEF DoubtInv, Beliefs, BeliefsOK
<1>3. PICK T : texts[c] \in Seq(Letters(c, T))
  BY <1>2 DEF WireOK, TextsOK
<1>4. Tail(texts[c]) \in Seq(Letters(c, T)) /\ Head(texts[c]) \in Letters(c, T)
  BY <1>1, <1>3, HeadTailProperties
<1>5. Head(texts[c]).from = Home[c]
  BY <1>4 DEF Letters
<1>6. server' = Home
  BY <1>1, <1>2, <1>5, ConfigAssumption DEF WireOK
<1>7. TextsOK'
  BY <1>1, <1>2, <1>4 DEF WireOK, TextsOK
<1>8. WireOK'
  BY <1>1, <1>2, <1>6, <1>7 DEF WireOK, RequestsOK
<1> QED
  BY <1>1, <1>2, <1>8 DEF Sends

\* Neither does a line that is begun or ignored.
LEMMA QuietSends ==
  ASSUME DoubtInv, NEW c \in Clients, BeginLine(c) \/ IgnoredLine(c), NoteLaunch(c)
  PROVE  Sends(c)
<1>1. /\ cont[c]
      /\ UNCHANGED <<cont, active_channel, subscribed_channels, server, requests, texts>>
  BY DEF BeginLine, IgnoredLine, Typed
<1>2. /\ presumed' = presumed
      /\ Agree(requests[c], TRUE, active_channel[c], subscribed_channels[c],
               c \in presumed, doubt[c], In(c), Session(c))
      /\ cont'[c] = TRUE /\ WireOK
  BY <1>1, RunningPeace DEF DoubtInv, Beliefs, BeliefsOK
<1>3. WireOK'
  BY <1>1, <1>2 DEF WireOK, RequestsOK, TextsOK
<1> QED
  BY <1>1, <1>2, <1>3 DEF Sends

\* Any step of a client.
LEMMA ClientSends ==
  ASSUME LoginsAreSent, DoubtInv, NEW c \in Clients, ClientStep(c), NoteLaunch(c)
  PROVE  Sends(c)
<1>1. CASE \E u \in NamesOf[c] : Launch(c, u)
  BY <1>1, LaunchSends
<1>2. CASE \E ch \in Channels : JoinCommand(c, ch) \/ LeaveCommand(c, ch) \/ SwitchCommand(c, ch)
  BY <1>2, JoinSends, LeaveSends, SwitchSends
<1>3. server[c] = Home[c] /\ active_channel[c] \in Channels \cup {NoChannel}
  BY DEF DoubtInv, WireOK, Beliefs, BeliefsOK
<1>4. ASSUME NEW ch \in Channels, WhoCommand(c, ch)
      PROVE  Sends(c)
  <2>1. PICK sent \in Outcomes(WhoRequest(Home[c], ch)) : Queue(c, sent)
    BY <1>3, <1>4 DEF WhoCommand
  <2>2. WhoRequest(Home[c], ch) \in RequestsOf(c) /\ WhoRequest(Home[c], ch).type = "who"
    BY RequestIsOwn DEF WhoRequest
  <2>3. Typed(c) /\ UNCHANGED <<cont, active_channel, subscribed_channels>>
    BY <1>4 DEF WhoCommand
  <2> QED
    BY <2>1, <2>2, <2>3, OtherSends
<1>5. ASSUME NEW t \in Texts, SayLine(c, t)
      PROVE  Sends(c)
  <2> DEFINE r == SayRequest(Home[c], active_channel[c], t)
  <2>1. /\ active_channel[c] # NoChannel /\ Typed(c)
        /\ UNCHANGED <<cont, active_channel, subscribed_channels>>
    BY <1>5 DEF SayLine
  <2>2. PICK sent \in Outcomes(r) : Queue(c, sent)
    BY <1>3, <1>5 DEF SayLine
  <2>3. r \in RequestsOf(c) /\ r.type = "say" /\ r.channel = active_channel[c]
    BY <1>3, <2>1, RequestIsOwn DEF SayRequest
  <2> HIDE DEF r
  <2> QED
    BY <2>1, <2>2, <2>3, OtherSends
<1>6. ASSUME ListCommand(c)
      PROVE  Sends(c)
  <2>1. PICK sent \in Outcomes(ListRequest(Home[c])) : Queue(c, sent)
    BY <1>3, <1>6 DEF ListCommand
  <2>2. ListRequest(Home[c]) \in RequestsOf(c) /\ ListRequest(Home[c]).type = "list"
    BY RequestIsOwn DEF ListRequest
  <2>3. Typed(c) /\ UNCHANGED <<cont, active_channel, subscribed_channels>>
    BY <1>6 DEF ListCommand
  <2> QED
    BY <2>1, <2>2, <2>3, OtherSends
<1> QED
  BY <1>1, <1>2, <1>4, <1>5, <1>6, ExitSends, InputSends, QuietSends DEF ClientStep, HandleUserInput

-----------------------------------------------------------------------------
(* The request in front                                                      *)

\* It is the client's own, for its own server.
LEMMA FrontIsOwn ==
  ASSUME RequestsOK, NEW c \in Clients, requests[c] # <<>>
  PROVE  LET r == Head(requests[c]) IN
         /\ r \in RequestsOf(c) /\ r.to = Home[c] /\ r = requests[c][1]
         /\ requests[c] \in Seq(RequestsOf(c)) /\ Tail(requests[c]) \in Seq(RequestsOf(c))
         /\ Shortens(Tail(requests[c]), requests[c])
         /\ \A k \in 1 .. Len(requests[c]) :
              requests[c][k].type = "say" => requests[c][k].channel \in Channels
<1>1. requests[c] \in Seq(RequestsOf(c))
  BY DEF RequestsOK
<1>2. \A k \in 1 .. Len(requests[c]) : requests[c][k] \in RequestsOf(c)
  BY <1>1, ElementOfSeq
<1> QED
  BY <1>1, <1>2, TakeOne, RequestFields

\* The queue of the client that was served, and those of the others.
LEMMA PopIsOwn ==
  ASSUME RequestsOK, NEW c \in Clients, requests[c] # <<>>, PopRequest(c)
  PROVE  /\ RequestsOK'
         /\ requests'[c] = Tail(requests[c])
         /\ \A d \in Clients \ {c} : requests'[d] = requests[d]
<1>1. Tail(requests[c]) \in Seq(RequestsOf(c))
  BY FrontIsOwn
<1>2. requests' = [requests EXCEPT ![c] = Tail(requests[c])]
  BY DEF PopRequest
<1> QED
  BY <1>1, <1>2 DEF RequestsOK

\* The same, from the invariant.
LEMMA FrontRequest ==
  ASSUME DoubtInv, NEW c \in Clients, requests[c] # <<>>
  PROVE  LET r == Head(requests[c]) IN
         /\ r \in RequestsOf(c) /\ r.to = Home[c] /\ r = requests[c][1]
         /\ requests[c] \in Seq(RequestsOf(c)) /\ Tail(requests[c]) \in Seq(RequestsOf(c))
         /\ Shortens(Tail(requests[c]), requests[c])
         /\ \A k \in 1 .. Len(requests[c]) :
              requests[c][k].type = "say" => requests[c][k].channel \in Channels
BY FrontIsOwn DEF DoubtInv, WireOK

\* The queues, from the invariant.
LEMMA PopKeeps ==
  ASSUME DoubtInv, NEW c \in Clients, requests[c] # <<>>, PopRequest(c)
  PROVE  /\ RequestsOK'
         /\ requests'[c] = Tail(requests[c])
         /\ \A d \in Clients \ {c} : requests'[d] = requests[d]
BY PopIsOwn DEF DoubtInv, WireOK

\* Peace in the parts that Pop wants.
LEMMA PopPeace ==
  ASSUME DoubtInv, NEW c \in Clients, requests[c] # <<>>, PopRequest(c), UNCHANGED client,
         Settles(Head(requests[c]), doubt[c], In(c), Session(c), doubt'[c], In(c)', Session(c)'),
         StaysPresumed(requests[c], c \in presumed, c \in presumed')
  PROVE  Peace(c)'
<1> DEFINE q == requests[c]
<1>1. /\ q \in Seq(RequestsOf(c)) /\ Tail(q) \in Seq(RequestsOf(c)) /\ Shortens(Tail(q), q)
      /\ \A k \in 1 .. Len(q) : q[k].type = "say" => q[k].channel \in Channels
      /\ Head(q) = q[1]
  BY FrontRequest
<1>2. /\ active_channel[c] \in Channels \cup {NoChannel}
      /\ Agree(q, cont[c], active_channel[c], subscribed_channels[c],
               c \in presumed, doubt[c], In(c), Session(c))
  BY DEF DoubtInv, Beliefs, BeliefsOK, Peace
<1>3. /\ requests'[c] = Tail(q) /\ cont' = cont /\ active_channel' = active_channel
      /\ subscribed_channels' = subscribed_channels
  BY PopKeeps DEF client
<1> HIDE DEF q
<1>4. ASSUME NEW p2, NEW D2, NEW I2, NEW lg2,
             Settles(q[1], doubt[c], In(c), Session(c), D2, I2, lg2),
             StaysPresumed(q, c \in presumed, p2)
      PROVE  Agree(Tail(q), cont[c], active_channel[c], subscribed_channels[c], p2, D2, I2, lg2)
  BY <1>1, <1>2, <1>4, Pop
<1>5. Agree(Tail(q), cont[c], active_channel[c], subscribed_channels[c],
            c \in presumed', doubt'[c], In(c)', Session(c)')
  BY <1>1, <1>4 DEF q
<1> QED
  BY <1>3, <1>5 DEF Peace

\* A join in front finds the client logged in, unless everything is in doubt.
LEMMA FrontJoin ==
  ASSUME DoubtInv, NEW c \in Clients, requests[c] # <<>>, Head(requests[c]).type = "join"
  PROVE  Session(c) \/ doubt[c] = Channels
<1>1. Head(requests[c]) = requests[c][1] /\ 1 \in 1 .. Len(requests[c])
  BY FrontRequest DEF Shortens
<1>2. MayJoin(requests[c], 1, doubt[c], Session(c))
  BY <1>1 DEF DoubtInv, Peace, Agree, JoinsFit
<1>3. ~LoggedInBy(requests[c], 1)
  BY DEF LoggedInBy
<1> QED
  BY <1>2, <1>3 DEF MayJoin

\* A request handled: what it did, and what NoteServed makes of the doubts.
LEMMA ServedSettles ==
  ASSUME OneNameEach, DoubtInv, NEW c \in Clients, requests[c] # <<>>,
         Moved(c, Head(requests[c])), NoteServed(c)
  PROVE  /\ Settles(Head(requests[c]), doubt[c], In(c), Session(c),
                    doubt'[c], In(c)', Session(c)')
         /\ StaysPresumed(requests[c], c \in presumed, c \in presumed')
<1> DEFINE r == Head(requests[c])
<1>1. /\ r \in RequestsOf(c) /\ r.to = Home[c] /\ r = requests[c][1]
      /\ doubt'[c] = doubt[c] \ Cure(c, r) /\ doubt[c] \subseteq Channels
  BY FrontRequest DEF NoteServed, DoubtInv
<1>2. r.type \in {"login", "logout", "join", "leave", "who", "list", "say"}
  BY <1>1, RequestFields
<1>3. Session(c) \/ In(c) = {}
  BY DEF DoubtInv, Peace, Agree
<1>4. Cure(c, r) = IF r.type \in {"join", "leave"} /\ Session(c) THEN {r.channel}
                   ELSE IF r.type = "logout" THEN Channels ELSE {}
  BY <1>1 DEF Cure, Session
<1>5. r.type = "join" => Session(c) \/ doubt[c] = Channels
  BY FrontJoin
<1>6. StaysPresumed(requests[c], c \in presumed, c \in presumed')
  BY <1>1 DEF NoteServed, SetsRight, StaysPresumed, Opens
<1> HIDE DEF r
<1>7. Settles(r, doubt[c], In(c), Session(c), doubt'[c], In(c)', Session(c)')
  <2>1. CASE r.type = "login"
    BY <1>1, <1>4, <2>1 DEF Moved, Settles, Touches, Opens, Closes, r
  <2>2. CASE r.type = "logout"
    BY <1>1, <1>4, <2>2 DEF Moved, Settles, Touches, Opens, Closes, r
  <2>3. CASE r.type = "join"
    BY <1>1, <1>3, <1>4, <1>5, <2>3 DEF Moved, Settles, Touches, Opens, Closes, r
  <2>4. CASE r.type = "leave"
    BY <1>1, <1>3, <1>4, <2>4 DEF Moved, Settles, Touches, Opens, Closes, r
  <2>5. CASE r.type \in {"who", "list", "say"}
    BY <1>1, <1>3, <1>4, <2>5 DEF Moved, Unmoved, Settles, Touches, Opens, Closes, r
  <2> QED
    BY <1>2, <2>1, <2>2, <2>3, <2>4, <2>5
<1> QED
  BY <1>6, <1>7 DEF r

\* A request lost: nothing moved, and NoteLost puts what it was about in doubt.
LEMMA LostSettles ==
  ASSUME DoubtInv, NEW c \in Clients, requests[c] # <<>>, Unmoved(c), NoteLost(c)
  PROVE  /\ Settles(Head(requests[c]), doubt[c], In(c), Session(c),
                    doubt'[c], In(c)', Session(c)')
         /\ StaysPresumed(requests[c], c \in presumed, c \in presumed')
<1> DEFINE r == Head(requests[c])
<1>1. doubt'[c] = doubt[c] \cup Harm(r) /\ doubt[c] \subseteq Channels /\ presumed' = presumed
  BY DEF NoteLost, DoubtInv
<1>2. Session(c) \/ In(c) = {}
  BY DEF DoubtInv, Peace, Agree
<1>3. r \in RequestsOf(c)
  BY FrontRequest
<1>4. r.type \in {"join", "leave"} => r.channel \in Channels
  BY <1>3, RequestFields
<1> HIDE DEF r
<1>5. Settles(r, doubt[c], In(c), Session(c), doubt'[c], In(c)', Session(c)')
  BY <1>1, <1>2, <1>4 DEF Unmoved, Harm, Settles, Touches, Opens, Closes
<1> QED
  BY <1>1, <1>5 DEF r, StaysPresumed

-----------------------------------------------------------------------------
(* The steps of the system                                                   *)

\* To handle a request is a step of the server.
LEMMA HandleIsRequest ==
  ASSUME NEW c \in Clients, NEW r \in RequestsOf(c), Handle(Home[c], c, r)
  PROVE  Next
<1>1. Request(Home[c], c)
  BY RequestFields DEF Handle, Request
<1> QED
  BY <1>1 DEF Next, NextReliable

\* A request handled keeps every part of the invariant.
LEMMA ServeKeeps ==
  ASSUME OneNameEach, SeparateNames, IsFiniteSet(Names), DoubtInv, NEW c \in Clients,
         ServeRequest(c), NoteServed(c)
  PROVE  RoomInv' /\ WireOK' /\ doubt' \in [Clients -> SUBSET Channels]
         /\ \A d \in Clients : Peace(d)'
<1> DEFINE r == Head(requests[c])
<1>1. /\ requests[c] # <<>> /\ PopRequest(c) /\ UNCHANGED client
      /\ Handle(Home[c], c, r) /\ Deliver(Home[c]) /\ r \in RequestsOf(c)
  BY FrontRequest DEF ServeRequest
<1>2. RoomInv'
  BY <1>1, HandleIsRequest, NextTypeOK, NextRegistry, NextPresent DEF RoomInv, DoubtInv
<1>3. Moved(c, r) /\ \A d \in Clients \ {c} : Unmoved(d)
  BY <1>1, HandleMoves DEF DoubtInv
<1>4. WireOK'
  <2>1. Local(Home[c])
    BY <1>1, HandleIsLocal, RoomsAreHomes DEF DoubtInv
  <2>2. TextsOK'
    BY <1>1, <2>1, DeliverKeeps DEF DoubtInv, WireOK
  <2> QED
    BY <1>1, <2>2, PopKeeps DEF DoubtInv, WireOK, client
<1>5. /\ doubt' \in [Clients -> SUBSET Channels]
      /\ \A d \in Clients \ {c} : doubt'[d] = doubt[d] /\ (d \in presumed' <=> d \in presumed)
  BY DEF NoteServed, DoubtInv
<1>6. Peace(c)'
  BY <1>1, <1>3, ServedSettles, PopPeace
<1>7. ASSUME NEW d \in Clients \ {c}
      PROVE  Peace(d)'
  BY <1>1, <1>3, <1>5, PopKeeps, StillPeace DEF client, DoubtInv
<1> QED
  BY <1>2, <1>4, <1>5, <1>6, <1>7

\* So does a request lost.
LEMMA LoseKeeps ==
  ASSUME DoubtInv, NEW c \in Clients, LoseRequest(c), NoteLost(c)
  PROVE  RoomInv' /\ WireOK' /\ doubt' \in [Clients -> SUBSET Channels]
         /\ \A d \in Clients : Peace(d)'
<1> DEFINE r == Head(requests[c])
<1>1. /\ requests[c] # <<>> /\ PopRequest(c) /\ UNCHANGED <<vars, client, texts>>
      /\ r \in RequestsOf(c)
  BY FrontRequest DEF LoseRequest
<1>2. UNCHANGED <<usernames, active_usernames, rev_usernames, channels>> /\ RoomInv'
  <2>1. UNCHANGED vars
    BY <1>1
  <2> QED
    BY <2>1, NextTypeOK, RegistryFrame, PresentFrame
    DEF vars, rooms, users, DoubtInv, RoomInv
<1>3. \A d : Unmoved(d)
  BY <1>2, NobodyMoves
<1>4. WireOK'
  BY <1>1, PopKeeps DEF DoubtInv, WireOK, TextsOK, client
<1>5. /\ doubt' \in [Clients -> SUBSET Channels]
      /\ \A d \in Clients \ {c} : doubt'[d] = doubt[d]
      /\ presumed' = presumed
  <2>1. Harm(r) \subseteq Channels
    BY <1>1, RequestFields DEF Harm
  <2> QED
    BY <2>1 DEF NoteLost, DoubtInv
<1>6. Peace(c)'
  BY <1>1, <1>3, LostSettles, PopPeace
<1>7. ASSUME NEW d \in Clients \ {c}
      PROVE  Peace(d)'
  BY <1>1, <1>3, <1>5, PopKeeps, StillPeace DEF client, DoubtInv
<1> QED
  BY <1>2, <1>4, <1>5, <1>6, <1>7

\* The servers do nothing.
LEMMA ServersRest ==
  ASSUME RoomInv, UNCHANGED vars
  PROVE  RoomInv' /\ \A d : Unmoved(d)
<1>1. UNCHANGED <<usernames, active_usernames, rev_usernames, channels>>
  BY DEF vars, rooms, users
<1>2. RoomInv'
  BY <1>1, NextTypeOK, RegistryFrame, PresentFrame DEF RoomInv
<1> QED
  BY <1>1, <1>2, NobodyMoves

\* So does a step of a client.
LEMMA ClientKeeps ==
  ASSUME LoginsAreSent, DoubtInv, NEW c \in Clients, ClientStep(c), UNCHANGED vars,
         NoteLaunch(c)
  PROVE  RoomInv' /\ WireOK' /\ doubt' \in [Clients -> SUBSET Channels]
         /\ \A d \in Clients : Peace(d)'
<1>1. RoomInv' /\ \A d : Unmoved(d)
  BY ServersRest DEF DoubtInv
<1>2. Sends(c)
  BY ClientSends
<1>3. /\ doubt' = doubt /\ doubt' \in [Clients -> SUBSET Channels]
      /\ \A d \in Clients \ {c} : d \in presumed' <=> d \in presumed
  BY DEF NoteLaunch, DoubtInv
<1>4. Peace(c)'
  <2>1. /\ doubt'[c] = doubt[c] /\ In(c)' = In(c) /\ (Session(c)' <=> Session(c))
    BY <1>1, <1>3 DEF Unmoved
  <2>2. Agree(requests'[c], cont'[c], active_channel'[c], subscribed_channels'[c],
              c \in presumed', doubt[c], In(c), Session(c)')
    BY <1>2, <2>1, AgreeSame DEF Sends
  <2> QED
    BY <2>1, <2>2 DEF Peace
<1>5. ASSUME NEW d \in Clients \ {c}
      PROVE  Peace(d)'
  <2>1. /\ cont'[d] = cont[d] /\ active_channel'[d] = active_channel[d]
        /\ subscribed_channels'[d] = subscribed_channels[d]
    BY ClientMovesAlone DEF DoubtInv
  <2>2. requests'[d] = requests[d] /\ Peace(d) /\ Unmoved(d) /\ doubt'[d] = doubt[d]
    BY <1>1, <1>2, <1>3 DEF Sends, DoubtInv
  <2> QED
    BY <1>3, <2>1, <2>2, StillPeace
<1> QED
  BY <1>1, <1>2, <1>3, <1>4, <1>5 DEF Sends

\* So does a datagram from another server.
LEMMA ReceiveKeeps ==
  ASSUME OneNameEach, SeparateNames, IsFiniteSet(Names), DoubtInv, NEW m \in InFlight,
         ReceiveDatagram(m), UNCHANGED <<doubt, presumed>>
  PROVE  RoomInv' /\ WireOK' /\ doubt' \in [Clients -> SUBSET Channels]
         /\ \A d \in Clients : Peace(d)'
<1>1. /\ Delivery(m) \/ Drop(m)
      /\ Deliver(m.to) /\ UNCHANGED <<client, requests>>
  BY DEF ReceiveDatagram
<1>2. RoomInv'
  <2>1. Next
    BY <1>1 DEF Next, NextReliable
  <2> QED
    BY <2>1, NextTypeOK, NextRegistry, NextPresent DEF RoomInv, DoubtInv
<1>3. \A d : Unmoved(d)
  <2>1. UNCHANGED <<rev_usernames, channels>>
    BY <1>1 DEF Delivery, JoinS2S, LeaveS2S, SayS2S, BadType, Drop, Lose, rooms, users
  <2> QED
    BY <2>1, NobodyMoves
<1>4. TextsOK'
  BY <1>1, ReceiveIsLocal, RoomsAreHomes, DeliverKeeps DEF DoubtInv, WireOK
<1>5. WireOK'
  BY <1>1, <1>4 DEF DoubtInv, WireOK, RequestsOK, client
<1>6. ASSUME NEW d \in Clients
      PROVE  Peace(d)'
  BY <1>1, <1>3, StillPeace DEF client, DoubtInv
<1> QED
  BY <1>2, <1>5, <1>6 DEF DoubtInv

\* The server dies: whatever its clients believed is in doubt.
LEMMA DeathKeeps ==
  ASSUME DoubtInv, NEW s \in Servers, Die(s), NoteServer(s), UNCHANGED <<client, requests>>,
         NEW c \in Clients
  PROVE  Peace(c)'
<1>1. ~up'[s]
  BY DieEffect DEF DoubtInv, RoomInv
<1>2. doubt'[c] = (IF Home[c] = s THEN Channels ELSE doubt[c]) /\ presumed' = presumed
  BY <1>1 DEF NoteServer
<1>3. /\ Home[c] # s => Unmoved(c)
      /\ Home[c] = s => In(c)' = {} /\ ~Session(c)'
  BY DieMoves DEF DoubtInv, RoomInv
<1>4. /\ requests' = requests /\ cont' = cont /\ active_channel' = active_channel
      /\ subscribed_channels' = subscribed_channels
  BY DEF client
<1>5. Peace(c) /\ active_channel[c] \in Channels \cup {NoChannel}
  BY DEF DoubtInv, Beliefs, BeliefsOK
<1>6. CASE Home[c] # s
  BY <1>2, <1>3, <1>4, <1>5, <1>6, StillPeace
<1>7. CASE Home[c] = s
  <2>1. \A k \in 1 .. Len(requests[c]) :
          requests[c][k].type = "say" => requests[c][k].channel \in Channels
    BY ElementOfSeq, RequestFields DEF DoubtInv, WireOK, RequestsOK
  <2>2. Agree(requests[c], cont[c], active_channel[c], subscribed_channels[c],
              c \in presumed, Channels, {}, FALSE)
    BY <1>5, <2>1, Forgotten DEF Peace
  <2>3. doubt'[c] = Channels /\ In(c)' = {} /\ (Session(c)' <=> FALSE)
    BY <1>2, <1>3, <1>7
  <2>4. Agree(requests[c], cont[c], active_channel[c], subscribed_channels[c],
              c \in presumed', Channels, {}, Session(c)')
    <3>1. (c \in presumed <=> c \in presumed') /\ (FALSE <=> Session(c)')
      BY <1>2, <2>3
    <3> QED
      BY <2>2, <3>1 DEF Agree, SaysFit, MaySay, JoinsFit, MayJoin
  <2> QED
    BY <1>4, <2>3, <2>4 DEF Peace
<1> QED
  BY <1>6, <1>7

\* So does a server's timer, its death and its restart.
LEMMA ServerKeeps ==
  ASSUME OneNameEach, SeparateNames, DoubtInv, NEW s \in Servers,
         ServerTimer(s) \/ ServerFault(s), NoteServer(s)
  PROVE  RoomInv' /\ WireOK' /\ doubt' \in [Clients -> SUBSET Channels]
         /\ \A d \in Clients : Peace(d)'
<1>1. /\ UNCHANGED <<client, requests>>
      /\ Timer(s) \/ Kill(s) \/ Start(s)
      /\ (Timer(s) /\ Deliver(s)) \/ UNCHANGED texts
  BY DEF ServerTimer, ServerFault
<1>2. RoomInv'
  <2>1. Next
    BY <1>1 DEF Next, NextReliable
  <2> QED
    BY <2>1, NextTypeOK, NextRegistry, NextPresent DEF RoomInv, DoubtInv
<1>3. WireOK'
  <2>1. CASE UNCHANGED texts
    BY <1>1, <2>1 DEF DoubtInv, WireOK, RequestsOK, TextsOK, client
  <2>2. CASE Timer(s) /\ Deliver(s)
    <3>1. out' = {}
      BY <2>2 DEF Timer, Timeout, SweepCrash, Die
    <3>2. TextsOK'
      BY <2>2, <3>1, SilenceIsLocal, DeliverKeeps DEF DoubtInv, WireOK
    <3> QED
      BY <1>1, <3>2 DEF DoubtInv, WireOK, RequestsOK, client
  <2> QED
    BY <1>1, <2>1, <2>2
<1>4. doubt' \in [Clients -> SUBSET Channels]
  BY DEF NoteServer, DoubtInv
<1>5. ASSUME NEW d \in Clients
      PROVE  Peace(d)'
  <2>1. CASE Die(s)
    BY <1>1, <2>1, DeathKeeps
  <2>2. CASE Timeout(s) \/ Start(s)
    <3>1. up'[s] /\ UNCHANGED <<rev_usernames, channels>>
      BY <2>2 DEF Timeout, Start, rooms, users, DoubtInv, RoomInv, TypeOK, WorldOK
    <3>2. Unmoved(d) /\ doubt'[d] = doubt[d] /\ presumed' = presumed
      BY <3>1, NobodyMoves DEF NoteServer
    <3> QED
      BY <1>1, <3>2, StillPeace DEF client, DoubtInv
  <2> QED
    BY <1>1, <2>1, <2>2 DEF Timer, SweepCrash, Kill
<1> QED
  BY <1>2, <1>3, <1>4, <1>5

\* Nothing is known, sent or believed at first.
LEMMA InitDoubt == DoubtInit => DoubtInv
<1> SUFFICES ASSUME DoubtInit PROVE DoubtInv
  OBVIOUS
<1>1. Init /\ ClientInit /\ doubt = [c \in Clients |-> {}] /\ presumed = {}
  BY DEF DoubtInit, ChatInit
<1>2. RoomInv
  <2>1. RegisteredArePresent
    BY <1>1 DEF Init, RegisteredArePresent, EmptyMap
  <2> QED
    BY <1>1, <2>1, InitTypeOK, InitRegistry DEF RoomInv
<1>3. Beliefs
  BY <1>1, InitBeliefs DEF ChatInit
<1>4. WireOK
  <2>1. server = Home
    BY <1>1 DEF ClientInit
  <2>2. RequestsOK
    BY <1>1, EmptySeq DEF ClientInit, RequestsOK
  <2>3. TextsOK
    BY <1>1, EmptySeq DEF ClientInit, TextsOK
  <2> QED
    BY <2>1, <2>2, <2>3 DEF WireOK
<1>5. ASSUME NEW c \in Clients
      PROVE  Peace(c)
  <2>1. /\ requests[c] = <<>> /\ cont[c] = FALSE /\ active_channel[c] = NoChannel
        /\ subscribed_channels[c] = {} /\ doubt[c] = {}
    BY <1>1 DEF ClientInit
  <2>2. In(c) = {} /\ ~Session(c)
    <3>1. Home[c] \in Servers
      BY ConfigAssumption
    <3>2. DOMAIN rev_usernames[Home[c]] = {}
          /\ \A ch \in Channels : HasChannel(Home[c], ch) => DOMAIN channels[Home[c]][ch] = {}
      BY <1>1, <3>1 DEF Init, EmptyMap, DefaultChannel, NoMembers, Put, HasChannel
    <3> QED
      BY <3>1, <3>2 DEF In, Members, InRoom, Session, LoggedIn
  <2>3. \A ch : Untouched(<<>>, Len(<<>>) + 1, ch)
    BY DEF Untouched
  <2>4. Agree(<<>>, FALSE, NoChannel, {}, c \in presumed, {}, {}, Session(c))
    BY <2>3 DEF Agree, Follows, SaysFit, JoinsFit, Gone
  <2> QED
    BY <2>1, <2>2, <2>4 DEF Peace
<1> QED
  BY <1>1, <1>2, <1>3, <1>4, <1>5 DEF DoubtInv

\* The history variables add no step.
LEMMA DoubtIsChat == [DoubtNext]_doubtVars => [ChatNext]_chatVars
BY DEF DoubtNext, ChatNext, ChatReliable, doubtVars

\* So does every step.
LEMMA NextDoubt ==
  ASSUME LoginsAreSent, OneNameEach, SeparateNames, IsFiniteSet(Names), DoubtInv,
         [DoubtNext]_doubtVars
  PROVE  DoubtInv'
<1>1. Beliefs'
  BY DoubtIsChat, NextInStep DEF DoubtInv, Beliefs, InStep
<1>2. CASE UNCHANGED doubtVars
  <2>1. UNCHANGED <<vars, client, requests, texts, doubt, presumed>>
    BY <1>2 DEF doubtVars, chatVars, wire
  <2>2. RoomInv' /\ \A d : Unmoved(d)
    BY <2>1, ServersRest DEF DoubtInv
  <2>3. WireOK'
    BY <2>1 DEF DoubtInv, WireOK, RequestsOK, TextsOK, client
  <2>4. \A d \in Clients : Peace(d)'
    BY <2>1, <2>2, StillPeace DEF client, DoubtInv
  <2> QED
    BY <1>1, <2>1, <2>2, <2>3, <2>4 DEF DoubtInv
<1>3. CASE \E c \in Clients : ClientStep(c) /\ UNCHANGED vars /\ NoteLaunch(c)
  BY <1>1, <1>3, ClientKeeps DEF DoubtInv
<1>4. CASE \E c \in Clients : ServeRequest(c) /\ NoteServed(c)
  BY <1>1, <1>4, ServeKeeps DEF DoubtInv
<1>5. CASE \E c \in Clients : LoseRequest(c) /\ NoteLost(c)
  BY <1>1, <1>5, LoseKeeps DEF DoubtInv
<1>6. CASE \E m \in InFlight : ReceiveDatagram(m) /\ UNCHANGED <<doubt, presumed>>
  BY <1>1, <1>6, ReceiveKeeps DEF DoubtInv
<1>7. CASE \E s \in Servers : (ServerTimer(s) \/ ServerFault(s)) /\ NoteServer(s)
  BY <1>1, <1>7, ServerKeeps DEF DoubtInv
<1> QED
  BY <1>2, <1>3, <1>4, <1>5, <1>6, <1>7 DEF DoubtNext

-----------------------------------------------------------------------------
(* What the invariant says of an empty queue, and of a say in front          *)

\* With an empty queue the two sides agree on every channel not in doubt.
LEMMA QuietAgrees ==
  ASSUME OneNameEach, DoubtInv
  PROVE  ViewsAgree
<1> SUFFICES ASSUME NEW c \in Clients, requests[c] = <<>>, NEW ch \in Channels \ doubt[c]
             PROVE  ch \in subscribed_channels[c] <=> ch \in MemberOf(Home[c], c)
  BY DEF ViewsAgree
<1>1. Follows(<<>>, subscribed_channels[c], doubt[c], In(c))
  BY DEF DoubtInv, Peace, Agree
<1>2. ~JoinedBy(<<>>, Len(<<>>) + 1, ch) /\ ~LeftBy(<<>>, Len(<<>>) + 1, ch)
  BY DEF JoinedBy, LeftBy
<1>3. ch \in subscribed_channels[c] <=> ch \in In(c)
  BY <1>1, <1>2 DEF Follows
<1> QED
  BY <1>3, InIsMember DEF DoubtInv

\* A say in front finds its client in the channel, so the server complains of nothing.
LEMMA SayIsTaken ==
  ASSUME OneNameEach, DoubtInv, NEW c \in Clients, ServeRequest(c),
         Head(requests[c]).type = "say", Head(requests[c]).channel \notin doubt[c],
         ~(c \in presumed /\ Head(requests[c]).channel = Common)
  PROVE  \A t \in out' : t.type # "error"
<1> DEFINE r == Head(requests[c])
           s == Home[c]
<1>1. /\ requests[c] # <<>> /\ Handle(s, c, r) /\ r = requests[c][1] /\ r.channel \in Channels
  BY FrontRequest, RequestFields DEF ServeRequest
<1>2. r.channel \in In(c)
  <2>1. 1 \in 1 .. Len(requests[c])
    BY <1>1, FrontRequest DEF Shortens
  <2>2. MaySay(requests[c], 1, r.channel, c \in presumed, doubt[c], In(c))
    BY <1>1, <2>1 DEF DoubtInv, Peace, Agree, SaysFit
  <2>3. ~JoinedBy(requests[c], 1, r.channel) /\ ~LoggedOutBy(requests[c], 1, r.channel)
    BY DEF JoinedBy, LoggedOutBy
  <2> QED
    BY <2>2, <2>3 DEF MaySay
<1>3. /\ LoggedIn(s, c) /\ HasChannel(s, r.channel)
      /\ rev_usernames[s][c] \in DOMAIN channels[s][r.channel]
  BY <1>2, InIsMember DEF DoubtInv, Session
<1>4. Say(s, c, r.channel, r.text) /\ ~Refuse(s, c) /\ Complaint(s, c, r.channel) = {}
  BY <1>1, <1>3 DEF Handle, Refuse, Complaint
<1> HIDE DEF r, s
<1>5. out' = SayToMembers(s, r.channel, rev_usernames[s][c], r.text)
  BY <1>4 DEF Say
<1> QED
  BY <1>5 DEF SayToMembers, SayText

\* So it is with every client's.
LEMMA SaysTaken ==
  ASSUME OneNameEach, DoubtInv
  PROVE  \A c \in Clients :
           LET say == Head(requests[c]) IN
             /\ ServeRequest(c)
             /\ say.type = "say"
             /\ say.channel \notin doubt[c]
             /\ ~(c \in presumed /\ say.channel = Common)
             => \A t \in out' : t.type # "error"
BY SayIsTaken

\* The invariant holds throughout.
LEMMA DoubtInvHolds ==
  ASSUME LoginsAreSent, OneNameEach, SeparateNames, IsFiniteSet(Names)
  PROVE  DoubtSpec => []DoubtInv
<1>1. DoubtInv /\ [DoubtNext]_doubtVars => DoubtInv'
  BY NextDoubt
<1> QED
  BY <1>1, InitDoubt, PTL DEF DoubtSpec

\* Once its requests are in, a client has subscribed to the channels its server has it
\* in, but for those that lost requests and dead servers left in doubt.
THEOREM ViewsStayTogether ==
  ASSUME LoginsAreSent, OneNameEach, SeparateNames, IsFiniteSet(Names)
  PROVE  DoubtSpec => []ViewsAgree
<1>1. DoubtInv => ViewsAgree
  BY QuietAgrees
<1> QED
  BY <1>1, DoubtInvHolds, PTL

\* The server takes every say of a channel that is not in doubt, whatever its client
\* has joined, left and switched to since it said it.
THEOREM SaysAreTaken ==
  ASSUME LoginsAreSent, OneNameEach, SeparateNames, IsFiniteSet(Names)
  PROVE  DoubtSpec => SaysAreAccepted
<1> DEFINE Taken ==
      \A c \in Clients :
        LET say == Head(requests[c]) IN
          /\ ServeRequest(c)
          /\ say.type = "say"
          /\ say.channel \notin doubt[c]
          /\ ~(c \in presumed /\ say.channel = Common)
          => \A t \in out' : t.type # "error"
<1>1. DoubtInv => Taken
  BY SaysTaken
<1> QED
  BY <1>1, DoubtInvHolds, PTL DEF SaysAreAccepted
-----------------------------------------------------------------------------
(* The chat runs the servers, whatever its clients are called                *)

\* Members leave and servers die, and only a join adds one: the client that asked.
LEMMA NextAtHome ==
  ASSUME TypeOK, AtHome, [Next]_vars
  PROVE  AtHome'
<1>1. ASSUME UNCHANGED channels
      PROVE  AtHome'
  BY <1>1 DEF AtHome
<1>2. ASSUME NEW s \in Servers, Die(s)
      PROVE  AtHome'
  <2>1. /\ DOMAIN channels'[s] = {Common} /\ DOMAIN channels'[s][Common] = {}
        /\ \A x \in Servers \ {s} : channels'[x] = channels[x]
    BY <1>2, DieEffect
  <2> QED
    BY <2>1 DEF AtHome
<1>3. ASSUME NEW c \in Clients, Request(Home[c], c)
      PROVE  AtHome'
  <2> DEFINE s == Home[c]
  <2>1. s \in Servers
    BY ConfigAssumption
  <2>2. CASE Refuse(s, c) \/ UnknownCommand(s, c) \/ List(s, c)
    BY <1>1, <2>2 DEF Refuse, UnknownCommand, List, rooms
  <2>3. CASE \E u \in NamesOf[c] : Login(s, c, u)
    BY <1>1, <2>3 DEF Login
  <2>4. CASE Logout(s, c) /\ ~Refuse(s, c)
    <3>1. CASE LogoutCrash(s, c)
      BY <1>2, <2>1, <3>1 DEF LogoutCrash
    <3>2. CASE ~LogoutCrash(s, c)
      BY <2>1, <2>4, <3>2, LogoutEffect DEF AtHome
    <3> QED
      BY <3>1, <3>2
  <2>5. ASSUME NEW ch \in Channels, Join(s, c, ch), ~Refuse(s, c)
        PROVE  AtHome'
    <3> DEFINE u == rev_usernames[s][c]
    <3>1. /\ DOMAIN channels'[s] = DOMAIN channels[s] \cup {ch}
          /\ DOMAIN channels'[s][ch] =
               (IF HasChannel(s, ch) THEN DOMAIN channels[s][ch] ELSE {}) \cup {u}
          /\ channels'[s][ch][u] = c
          /\ HasChannel(s, ch) =>
               \A y \in DOMAIN channels[s][ch] \ {u} : channels'[s][ch][y] = channels[s][ch][y]
          /\ \A x \in DOMAIN channels[s] \ {ch} : channels'[s][x] = channels[s][x]
          /\ \A x \in Servers \ {s} : channels'[x] = channels[x]
      BY <2>1, <2>5, JoinEffect
    <3> HIDE DEF u
    <3>2. \A y \in DOMAIN channels'[s][ch] : Home[channels'[s][ch][y]] = s
      BY <2>1, <3>1 DEF AtHome, HasChannel
    <3> QED
      BY <2>1, <3>1, <3>2 DEF AtHome
  <2>6. ASSUME NEW ch \in Channels, Leave(s, c, ch), ~Refuse(s, c)
        PROVE  AtHome'
    <3>1. CASE Complaint(s, c, ch) = {}
      BY <2>1, <2>6, <3>1, LeaveEffect DEF AtHome
    <3>2. CASE Complaint(s, c, ch) # {}
      BY <1>1, <2>6, <3>2 DEF Leave
    <3> QED
      BY <3>1, <3>2
  <2>7. CASE \E ch \in Channels : Who(s, c, ch) \/ \E t \in Texts : Say(s, c, ch, t)
    BY <1>1, <2>2, <2>7 DEF Who, Say
  <2> QED
    BY <1>3, <2>2, <2>3, <2>4, <2>5, <2>6, <2>7 DEF Request
<1>4. ASSUME NEW m \in InFlight, Delivery(m) \/ Drop(m) \/ Duplicate(m) \/ Lose(m)
      PROVE  AtHome'
  BY <1>1, <1>4
  DEF Delivery, JoinS2S, LeaveS2S, SayS2S, BadType, Drop, Duplicate, Lose, rooms
<1>5. ASSUME NEW s \in Servers, Timer(s) \/ Kill(s) \/ Start(s)
      PROVE  AtHome'
  BY <1>1, <1>2, <1>5 DEF Timer, Timeout, SweepCrash, Kill, Start, rooms
<1>6. CASE UNCHANGED vars
  BY <1>1, <1>6 DEF vars, rooms
<1> QED
  BY <1>3, <1>4, <1>5, <1>6 DEF Next, NextReliable

\* The inductive invariant: it needs nothing of the names.
ChatInv == TypeOK /\ AtHome /\ Beliefs /\ WireOK

\* What a client does keeps its queue in order, and its server's address.
LEMMA ClientWire ==
  ASSUME Beliefs, WireOK, NEW c \in Clients, ClientStep(c)
  PROVE  WireOK'
<1> DEFINE R == RequestsOf(c)
<1>1. /\ RequestsOK /\ TextsOK /\ server = Home /\ requests[c] \in Seq(R)
      /\ active_channel[c] \in Channels \cup {NoChannel} /\ Common \in Channels
      /\ \A u \in NamesOf[c] : LoginRequest(Home[c], u) \in R
      /\ LogoutRequest(Home[c]) \in R /\ ListRequest(Home[c]) \in R
      /\ \A ch \in Channels : /\ JoinRequest(Home[c], ch) \in R
                              /\ LeaveRequest(Home[c], ch) \in R
                              /\ WhoRequest(Home[c], ch) \in R
                              /\ \A t \in Texts : SayRequest(Home[c], ch, t) \in R
  BY ConfigAssumption, RequestIsOwn DEF WireOK, RequestsOK, Beliefs, BeliefsOK
<1>2. ASSUME NEW r \in R, NEW sent \in Outcomes(r), Queue(c, sent)
      PROVE  RequestsOK'
  BY <1>1, <1>2, SentOrNot
<1>3. ASSUME UNCHANGED <<server, texts>>, RequestsOK'
      PROVE  WireOK'
  BY <1>1, <1>3 DEF WireOK, TextsOK
<1>4. ASSUME NEW u \in NamesOf[c], Launch(c, u)
      PROVE  WireOK'
  <2>1. PICK login \in Outcomes(LoginRequest(Home[c], u)),
             join \in Outcomes(JoinRequest(Home[c], Common)) : Queue(c, login \o join)
    BY <1>4 DEF Launch
  <2>2. login \in Seq(R) /\ join \in Seq(R)
    <3>1. \A r \in R : <<r>> \in Seq(R)
      OBVIOUS
    <3>2. <<>> \in Seq(R)
      BY EmptySeq
    <3> HIDE DEF R
    <3> QED
      BY <1>1, <3>1, <3>2, OutcomesAre
  <2>3. requests[c] \o (login \o join) \in Seq(R)
    BY <1>1, <2>2, ConcatProperties
  <2>4. RequestsOK'
    BY <1>1, <2>1, <2>3, QueueKeeps
  <2>5. server' = server /\ texts' = texts
    BY <1>1, <1>4, ConfigAssumption DEF Launch
  <2> QED
    BY <1>3, <2>4, <2>5
<1>5. ASSUME NEW ch \in Channels,
             JoinCommand(c, ch) \/ LeaveCommand(c, ch) \/ SwitchCommand(c, ch) \/ WhoCommand(c, ch)
      PROVE  WireOK'
  <2>1. UNCHANGED <<server, texts>>
    BY <1>5 DEF JoinCommand, LeaveCommand, SwitchCommand, WhoCommand, Typed
  <2>2. \/ UNCHANGED requests
        \/ \E r \in R : \E sent \in Outcomes(r) : Queue(c, sent)
    <3> HIDE DEF R
    <3> QED
      BY <1>1, <1>5 DEF JoinCommand, LeaveCommand, SwitchCommand, WhoCommand
  <2> QED
    BY <1>1, <1>2, <1>3, <2>1, <2>2 DEF RequestsOK
<1>6. ASSUME NEW t \in Texts, SayLine(c, t)
      PROVE  WireOK'
  <2>1. UNCHANGED <<server, texts>> /\ active_channel[c] \in Channels
    BY <1>1, <1>6 DEF SayLine, Typed
  <2>2. PICK sent \in Outcomes(SayRequest(Home[c], active_channel[c], t)) : Queue(c, sent)
    BY <1>1, <1>6 DEF SayLine
  <2>3. SayRequest(Home[c], active_channel[c], t) \in R
    BY <1>1, <2>1
  <2> HIDE DEF R
  <2> QED
    BY <1>2, <1>3, <2>1, <2>2, <2>3
<1>7. CASE ListCommand(c)
  <2>1. UNCHANGED <<server, texts>>
    BY <1>7 DEF ListCommand, Typed
  <2>2. PICK sent \in Outcomes(ListRequest(Home[c])) : Queue(c, sent)
    BY <1>1, <1>7 DEF ListCommand
  <2> HIDE DEF R
  <2> QED
    BY <1>1, <1>2, <1>3, <2>1, <2>2
<1>8. CASE ExitCommand(c)
  <2>1. texts' = [texts EXCEPT ![c] = <<>>] /\ server' = server
    BY <1>8 DEF ExitCommand
  <2>2. PICK sent \in Outcomes(LogoutRequest(Home[c])) : Queue(c, sent)
    BY <1>1, <1>8 DEF ExitCommand
  <2>3. RequestsOK'
    <3> HIDE DEF R
    <3> QED
      BY <1>1, <1>2, <2>2
  <2>4. \A T : <<>> \in Seq(Letters(c, T))
    BY EmptySeq
  <2>5. TextsOK'
    BY <1>1, <2>1, <2>4 DEF TextsOK
  <2> QED
    BY <1>1, <2>1, <2>3, <2>5 DEF WireOK
<1>9. CASE HandleServerInput(c)
  <2>1. /\ texts[c] # <<>> /\ UNCHANGED requests
        /\ server' = [server EXCEPT ![c] = Head(texts[c]).from]
        /\ texts' = [texts EXCEPT ![c] = Tail(texts[c])]
    BY <1>9 DEF HandleServerInput
  <2>2. PICK T : texts[c] \in Seq(Letters(c, T))
    BY <1>1 DEF TextsOK
  <2>3. Tail(texts[c]) \in Seq(Letters(c, T)) /\ Head(texts[c]) \in Letters(c, T)
    BY <2>1, <2>2, HeadTailProperties
  <2>4. Head(texts[c]).from = Home[c]
    BY <2>3 DEF Letters
  <2>5. server' = Home
    BY <1>1, <2>1, <2>4, ConfigAssumption
  <2>6. TextsOK'
    BY <1>1, <2>1, <2>3 DEF TextsOK
  <2> QED
    BY <1>1, <2>1, <2>5, <2>6 DEF WireOK, RequestsOK
<1>10. CASE BeginLine(c) \/ IgnoredLine(c)
  <2>1. UNCHANGED <<server, texts, requests>>
    BY <1>10 DEF BeginLine, IgnoredLine, Typed
  <2> QED
    BY <1>1, <1>3, <2>1 DEF RequestsOK
<1> HIDE DEF R
<1> QED
  BY <1>4, <1>5, <1>6, <1>7, <1>8, <1>9, <1>10 DEF ClientStep, HandleUserInput

\* A request that is handled is one of its client, handled by the client's own server.
LEMMA ServeIsStep ==
  ASSUME ChatInv, NEW c \in Clients, ServeRequest(c)
  PROVE  Next /\ Head(requests[c]).to = Home[c]
<1>1. requests[c] # <<>> /\ RequestsOK /\ Handle(Head(requests[c]).to, c, Head(requests[c]))
  BY DEF ServeRequest, ChatInv, WireOK
<1>2. Head(requests[c]) \in RequestsOf(c) /\ Head(requests[c]).to = Home[c]
  BY <1>1, FrontIsOwn
<1> QED
  BY <1>1, <1>2, HandleIsRequest

\* Every step of the chat is a step of its servers, or none of them moves.
LEMMA ChatStepIsServerStep ==
  ASSUME ChatInv, [ChatNext]_chatVars
  PROVE  [Next]_vars
<1>1. ASSUME NEW m \in InFlight, ReceiveDatagram(m)
      PROVE  Next
  BY <1>1 DEF ReceiveDatagram, Next, NextReliable
<1>2. ASSUME NEW s \in Servers, ServerTimer(s) \/ ServerFault(s)
      PROVE  Next
  BY <1>2 DEF ServerTimer, ServerFault, Next, NextReliable
<1>3. ASSUME NEW c \in Clients, LoseRequest(c)
      PROVE  UNCHANGED vars
  BY <1>3 DEF LoseRequest
<1>4. CASE UNCHANGED chatVars
  BY <1>4 DEF chatVars
<1> QED
  BY <1>1, <1>2, <1>3, <1>4, ServeIsStep DEF ChatNext, ChatReliable

\* Every step keeps the wire in order.
LEMMA ChatWire ==
  ASSUME IsFiniteSet(Names), ChatInv, [ChatNext]_chatVars
  PROVE  WireOK'
<1>1. RequestsOK /\ TextsOK /\ server = Home /\ TypeOK /\ AtHome
  BY DEF ChatInv, WireOK
<1>2. CASE \E c \in Clients : ClientStep(c)
  BY <1>2, ClientWire DEF ChatInv
<1>3. ASSUME NEW c \in Clients, ServeRequest(c)
      PROVE  WireOK'
  <2> DEFINE r == Head(requests[c])
  <2>1. /\ requests[c] # <<>> /\ PopRequest(c) /\ UNCHANGED client
        /\ Handle(Home[c], c, r) /\ Deliver(Home[c])
    BY <1>3, ServeIsStep DEF ServeRequest
  <2>2. r \in RequestsOf(c) /\ RequestsOK'
    BY <1>1, <2>1, FrontIsOwn, PopIsOwn
  <2> HIDE DEF r
  <2>3. TextsOK'
    BY <1>1, <2>1, <2>2, HandleIsLocal, DeliverKeeps
  <2> QED
    BY <1>1, <2>1, <2>2, <2>3 DEF WireOK, client
<1>4. ASSUME NEW c \in Clients, LoseRequest(c)
      PROVE  WireOK'
  BY <1>1, <1>4, PopIsOwn DEF LoseRequest, WireOK, TextsOK, client
<1>5. ASSUME NEW m \in InFlight, ReceiveDatagram(m)
      PROVE  WireOK'
  <2>1. TextsOK'
    BY <1>1, <1>5, ReceiveIsLocal, DeliverKeeps DEF ReceiveDatagram
  <2> QED
    BY <1>1, <1>5, <2>1 DEF ReceiveDatagram, WireOK, RequestsOK, client
<1>6. ASSUME NEW s \in Servers, ServerTimer(s)
      PROVE  WireOK'
  <2>1. out' = {} /\ Deliver(s) /\ UNCHANGED <<client, requests>>
    BY <1>6 DEF ServerTimer, Timer, Timeout, SweepCrash, Die
  <2>2. TextsOK'
    BY <1>1, <2>1, SilenceIsLocal, DeliverKeeps
  <2> QED
    BY <1>1, <2>1, <2>2 DEF WireOK, RequestsOK, client
<1>7. CASE UNCHANGED chatVars \/ \E s \in Servers : ServerFault(s)
  BY <1>1, <1>7 DEF ServerFault, WireOK, RequestsOK, TextsOK, chatVars, client, wire
<1> QED
  BY <1>2, <1>3, <1>4, <1>5, <1>6, <1>7 DEF ChatNext, ChatReliable

\* The invariant holds at first.
LEMMA InitChatInv == ChatInit => ChatInv
<1> SUFFICES ASSUME ChatInit PROVE ChatInv
  OBVIOUS
<1>1. TypeOK /\ Beliefs
  BY InitTypeOK, InitBeliefs DEF ChatInit
<1>2. AtHome
  BY DEF ChatInit, Init, AtHome, DefaultChannel, NoMembers, EmptyMap, Put
<1>3. RequestsOK /\ TextsOK /\ server = Home
  BY EmptySeq DEF ChatInit, ClientInit, RequestsOK, TextsOK
<1> QED
  BY <1>1, <1>2, <1>3 DEF ChatInv, WireOK

\* And throughout.
LEMMA ChatInvHolds ==
  ASSUME IsFiniteSet(Names)
  PROVE  ChatSpec => []ChatInv
<1>1. ChatInv /\ [ChatNext]_chatVars => ChatInv'
  <2> SUFFICES ASSUME ChatInv, [ChatNext]_chatVars PROVE ChatInv'
    OBVIOUS
  <2>1. [Next]_vars
    BY ChatStepIsServerStep
  <2>2. TypeOK' /\ AtHome'
    BY <2>1, NextTypeOK, NextAtHome DEF ChatInv
  <2>3. Beliefs'
    BY NextInStep DEF ChatInv, Beliefs, InStep
  <2> QED
    BY <2>2, <2>3, ChatWire DEF ChatInv
<1> QED
  BY <1>1, InitChatInv, PTL DEF ChatSpec

\* The servers of a chat behave as DuckServer says, on the requests its clients send
\* them: all that is proved of DuckServer holds with real clients in front of it.
THEOREM ChatRunsServers ==
  ASSUME IsFiniteSet(Names)
  PROVE  ChatSpec => Spec
<1>1. ChatInv /\ [ChatNext]_chatVars => [Next]_vars
  BY ChatStepIsServerStep
<1>2. ChatInit => Init
  BY DEF ChatInit
<1> QED
  BY <1>1, <1>2, ChatInvHolds, PTL DEF ChatSpec, Spec

\* A client talks to the server of its command line for as long as it runs: whoever's
\* address recvfrom has written over that of the server, it was this server's.
THEOREM AddressStays ==
  ASSUME IsFiniteSet(Names)
  PROVE  ChatSpec => [](server = Home)
<1>1. ChatInv => server = Home
  BY DEF ChatInv, WireOK
<1> QED
  BY <1>1, ChatInvHolds, PTL

\* What the clients of each server see is a ChatRoom, with client processes, their
\* queues and everything that is lost on the way.
THEOREM ChatsAreRooms ==
  ASSUME OneNameEach, SeparateNames, IsFiniteSet(Names)
  PROVE  ChatSpec => ImplementsRoom
BY ChatRunsServers, ServersAreRooms, PTL
=============================================================================
