------------------------------ MODULE DuckDoubt -----------------------------
(***************************************************************************)
(* DuckChat with a history of what lost requests, failed sends and servers *)
(* that die may have set a client and its server at odds about.            *)
(***************************************************************************)
EXTENDS DuckChat

\* The channels a fault has left the two sides in doubt about: all of them once a
\* login or a logout was lost or the server died, one when a join or a leave was.
\* And the clients whose main could not send its join, but took Common for the
\* active channel; a join that the server gets sets them right, unless the process
\* that sent it has logged out since.
VARIABLES doubt, presumed

doubtVars == <<chatVars, doubt, presumed>>

Harm(r) == IF r.type \in {"join", "leave"} THEN {r.channel}
           ELSE IF r.type \in {"login", "logout"} THEN Channels ELSE {}

\* What a request heals when the server gets it.
Cure(c, r) == IF r.type \in {"join", "leave"} /\ LoggedIn(r.to, c) THEN {r.channel}
              ELSE IF r.type = "logout" THEN Channels ELSE {}

SetsRight(c) ==
  /\ Head(requests[c]).type = "join" /\ Head(requests[c]).channel = Common
  /\ LoggedIn(Head(requests[c]).to, c)
  /\ \A i \in 2 .. Len(requests[c]) : requests[c][i].type # "logout"

DoubtInit == ChatInit /\ doubt = [c \in Clients |-> {}] /\ presumed = {}

NoteLaunch(c) ==
  /\ presumed' = IF ~cont[c] /\ subscribed_channels'[c] = {} THEN presumed \cup {c} ELSE presumed
  /\ UNCHANGED doubt

NoteServed(c) ==
  /\ doubt' = [doubt EXCEPT ![c] = @ \ Cure(c, Head(requests[c]))]
  /\ presumed' = IF SetsRight(c) THEN presumed \ {c} ELSE presumed

NoteLost(c) ==
  /\ doubt' = [doubt EXCEPT ![c] = @ \cup Harm(Head(requests[c]))]
  /\ UNCHANGED presumed

NoteServer(s) ==
  /\ doubt' = [c \in Clients |-> IF Home[c] = s /\ ~up'[s] THEN Channels ELSE doubt[c]]
  /\ UNCHANGED presumed

DoubtNext ==
  \/ \E c \in Clients : ClientStep(c) /\ UNCHANGED vars /\ NoteLaunch(c)
  \/ \E c \in Clients : ServeRequest(c) /\ NoteServed(c)
  \/ \E c \in Clients : LoseRequest(c) /\ NoteLost(c)
  \/ \E m \in InFlight : ReceiveDatagram(m) /\ UNCHANGED <<doubt, presumed>>
  \/ \E s \in Servers : (ServerTimer(s) \/ ServerFault(s)) /\ NoteServer(s)

DoubtSpec == DoubtInit /\ [][DoubtNext]_doubtVars

-----------------------------------------------------------------------------
\* Client and server agree once all requests are in: a client has subscribed to
\* the channels its server has it in, but for those a lost request or a dead
\* server left in doubt.  A failed send harms nothing, a lost join or leave its
\* own channel until the next join or leave of it, a lost login or logout every
\* channel, until the client is joined again or logs out.
ViewsAgree ==
  \A c \in Clients : requests[c] = <<>> =>
    \A ch \in Channels \ doubt[c] :
      ch \in subscribed_channels[c] <=> ch \in MemberOf(Home[c], c)

\* A line that is said is never answered with an error: the channel the client took
\* for its active one when it sent the say has it as a member when the say is handled,
\* whatever requests are on their way in between, unless a fault has put the channel
\* in doubt or it is the default one and main's own join was not sent.
SaysAreAccepted ==
  [][\A c \in Clients :
       LET say == Head(requests[c]) IN
         /\ ServeRequest(c)
         /\ say.type = "say"
         /\ say.channel \notin doubt[c]
         /\ ~(c \in presumed /\ say.channel = Common)
         => \A t \in out' : t.type # "error"]_doubtVars
=============================================================================
