----------------------------- MODULE DuckClient -----------------------------
(***************************************************************************)
(* The DuckChat client, "CIS432/Project 2/client.c": processes that turn   *)
(* the lines their user types into requests, and print the texts they get. *)
(* One step is one call of handle_user_input or handle_server_input; the   *)
(* first is two when its user stops typing in the middle of a line.        *)
(***************************************************************************)
EXTENDS Sequences, SequencesExt

CONSTANTS
  Clients,    \* the addresses of the client sockets
  Channels,   \* channel names
  Texts,      \* the lines that are no commands
  Common,     \* the channel main joins
  Home,       \* Home[c]: the server on the command line of the clients at c
  NamesOf,    \* NamesOf[c]: the user names on the command lines of these clients
  NoChannel,  \* the empty active_channel
  Unsent      \* the request types for which sendto may fail

VARIABLES
  cont,                 \* is the client's process in its loop?
  typing,               \* is it in getchar, with a line that has begun and not ended?
  active_channel,       \* where a say goes
  subscribed_channels,  \* the channels joined, as the client sees it
  server,               \* the address requests are sent to
  requests,             \* the requests on their way to a server, in order
  texts,                \* the texts waiting in the client's socket, in order
  shown                 \* the texts the last step printed

LoginRequest(s, u)  == [type |-> "login", to |-> s, user |-> u]
LogoutRequest(s)    == [type |-> "logout", to |-> s]
JoinRequest(s, ch)  == [type |-> "join", to |-> s, channel |-> ch]
LeaveRequest(s, ch) == [type |-> "leave", to |-> s, channel |-> ch]
WhoRequest(s, ch)   == [type |-> "who", to |-> s, channel |-> ch]
ListRequest(s)      == [type |-> "list", to |-> s]
SayRequest(s, ch, t) == [type |-> "say", to |-> s, channel |-> ch, text |-> t]

\* What a send_* function may put on the wire: its request, or nothing when
\* sendto fails.
Outcomes(r) == {<<r>>} \cup (IF r.type \in Unsent THEN {<<>>} ELSE {})

Queue(c, sent) == requests' = [requests EXCEPT ![c] = @ \o sent]

ClientInit ==
  /\ cont = [c \in Clients |-> FALSE]
  /\ typing = [c \in Clients |-> FALSE]
  /\ active_channel = [c \in Clients |-> NoChannel]
  /\ subscribed_channels = [c \in Clients |-> {}]
  /\ server = Home
  /\ requests = [c \in Clients |-> <<>>]
  /\ texts = [c \in Clients |-> <<>>]
  /\ shown = {}

\* main up to its loop.  active_channel is set before the join is sent.
Launch(c, u) ==
  /\ ~cont[c]
  /\ cont' = [cont EXCEPT ![c] = TRUE]
  /\ server' = [server EXCEPT ![c] = Home[c]]
  /\ active_channel' = [active_channel EXCEPT ![c] = Common]
  /\ \E login \in Outcomes(LoginRequest(Home[c], u)),
        join \in Outcomes(JoinRequest(Home[c], Common)) :
       /\ Queue(c, login \o join)
       /\ subscribed_channels' = [subscribed_channels EXCEPT
            ![c] = IF join = <<>> THEN {} ELSE {Common}]
  /\ shown' = {}
  /\ UNCHANGED <<typing, texts>>

\* A key that ends no line: getchar waits for the next one, and the loop with it.  It
\* waits for ever if none comes, or if the input has ended.
BeginLine(c) ==
  /\ cont[c] /\ ~typing[c]
  /\ typing' = [typing EXCEPT ![c] = TRUE]
  /\ shown' = {}
  /\ UNCHANGED <<cont, active_channel, subscribed_channels, server, requests, texts>>

\* The line that is read, at once or after a wait, belongs to a client in its loop, and
\* prints no text.
Typed(c) ==
  /\ cont[c]
  /\ typing' = [typing EXCEPT ![c] = FALSE]
  /\ shown' = {}
  /\ UNCHANGED <<server, texts>>

\* An unknown command, a switch to a channel that was not joined, or a line to say and
\* no active channel.
IgnoredLine(c) ==
  /\ typing[c]
  /\ Typed(c)
  /\ UNCHANGED <<cont, active_channel, subscribed_channels, requests>>

\* send_join_message: what it remembers of a channel when the request was sent.
SubscribeAnyway(c, ch, sent) ==  \* fault: also when the send failed
  /\ active_channel' = [active_channel EXCEPT ![c] = ch]
  /\ subscribed_channels' = [subscribed_channels EXCEPT ![c] = @ \cup {ch}]
Subscribe(c, ch, sent) ==
  IF sent = <<>>
  THEN UNCHANGED <<active_channel, subscribed_channels>>
  ELSE /\ active_channel' = [active_channel EXCEPT ![c] = ch]
       /\ subscribed_channels' = [subscribed_channels EXCEPT ![c] = @ \cup {ch}]

JoinCommand(c, ch) ==
  /\ Typed(c)
  /\ \E sent \in Outcomes(JoinRequest(server[c], ch)) :
       Queue(c, sent) /\ Subscribe(c, ch, sent)
  /\ UNCHANGED cont

\* send_leave_message: what it forgets of a channel when the request was sent.
StayActive(c, ch, sent) ==  \* fault: active_channel is not emptied
  /\ subscribed_channels' = [subscribed_channels EXCEPT
       ![c] = IF sent = <<>> THEN @ ELSE @ \ {ch}]
  /\ UNCHANGED active_channel
Unsubscribe(c, ch, sent) ==
  IF sent = <<>>
  THEN UNCHANGED <<active_channel, subscribed_channels>>
  ELSE /\ active_channel' = [active_channel EXCEPT ![c] = IF @ = ch THEN NoChannel ELSE @]
       /\ subscribed_channels' = [subscribed_channels EXCEPT ![c] = @ \ {ch}]

LeaveCommand(c, ch) ==
  /\ Typed(c)
  /\ \E sent \in Outcomes(LeaveRequest(server[c], ch)) :
       Queue(c, sent) /\ Unsubscribe(c, ch, sent)
  /\ UNCHANGED cont

SwitchAnywhere(c, ch) ==  \* fault: to a channel that was not joined
  /\ Typed(c)
  /\ active_channel' = [active_channel EXCEPT ![c] = ch]
  /\ UNCHANGED <<cont, subscribed_channels, requests>>
SwitchCommand(c, ch) ==
  /\ Typed(c)
  /\ ch \in subscribed_channels[c]
  /\ active_channel' = [active_channel EXCEPT ![c] = ch]
  /\ UNCHANGED <<cont, subscribed_channels, requests>>

\* Without an active channel the line is thrown away.
SayLine(c, t) ==
  /\ Typed(c)
  /\ active_channel[c] # NoChannel
  /\ \E sent \in Outcomes(SayRequest(server[c], active_channel[c], t)) : Queue(c, sent)
  /\ UNCHANGED <<cont, active_channel, subscribed_channels>>

WhoCommand(c, ch) ==
  /\ Typed(c)
  /\ \E sent \in Outcomes(WhoRequest(server[c], ch)) : Queue(c, sent)
  /\ UNCHANGED <<cont, active_channel, subscribed_channels>>

ListCommand(c) ==
  /\ Typed(c)
  /\ \E sent \in Outcomes(ListRequest(server[c])) : Queue(c, sent)
  /\ UNCHANGED <<cont, active_channel, subscribed_channels>>

\* The process ends whether or not the logout was sent, and its socket with it.
ExitCommand(c) ==
  /\ cont[c]
  /\ cont' = [cont EXCEPT ![c] = FALSE]
  /\ typing' = [typing EXCEPT ![c] = FALSE]
  /\ \E sent \in Outcomes(LogoutRequest(server[c])) : Queue(c, sent)
  /\ active_channel' = [active_channel EXCEPT ![c] = NoChannel]
  /\ subscribed_channels' = [subscribed_channels EXCEPT ![c] = {}]
  /\ texts' = [texts EXCEPT ![c] = <<>>]
  /\ shown' = {}
  /\ UNCHANGED server

\* recvfrom writes the sender's address over the one requests are sent to.  The loop gets
\* there only between two lines.
HandleServerInput(c) ==
  /\ cont[c] /\ ~typing[c]
  /\ texts[c] # <<>>
  /\ shown' = {Head(texts[c]).text}
  /\ server' = [server EXCEPT ![c] = Head(texts[c]).from]
  /\ texts' = [texts EXCEPT ![c] = Tail(@)]
  /\ UNCHANGED <<cont, typing, active_channel, subscribed_channels, requests>>

HandleUserInput(c) ==
  \/ \E ch \in Channels :
       JoinCommand(c, ch) \/ LeaveCommand(c, ch) \/ SwitchCommand(c, ch) \/ WhoCommand(c, ch)
  \/ \E t \in Texts : SayLine(c, t)
  \/ ListCommand(c)
  \/ ExitCommand(c)
  \/ IgnoredLine(c)

ClientStep(c) ==
  \/ \E u \in NamesOf[c] : Launch(c, u)
  \/ BeginLine(c)
  \/ HandleUserInput(c)
  \/ HandleServerInput(c)

-----------------------------------------------------------------------------
Consistent(c) == active_channel[c] \in subscribed_channels[c] \cup {NoChannel}

\* A line that is said goes to a channel the client has joined and not left, whatever
\* it joins, leaves and switches to, and whichever sends fail: once a running client
\* has the two in step, it keeps them so.  Only main can start with Common active and
\* nothing subscribed, when it could not send its join.
ActiveIsSubscribed ==
  [][\A c \in Clients :
       /\ cont[c] /\ Consistent(c) => Consistent(c)'
       /\ ~Consistent(c)' => active_channel'[c] = Common /\ subscribed_channels'[c] = {}
     ]_<<active_channel, subscribed_channels>>
=============================================================================
