------------------------------ MODULE ChatRoom ------------------------------
(***************************************************************************)
(* What a DuckChat server promises its clients, whatever the servers say   *)
(* to each other: who is present, who is in which room, and that a text    *)
(* spoken in a room is heard by exactly those who are in it.               *)
(***************************************************************************)
CONSTANTS Servers, Clients, Channels, Texts, Home

VARIABLES
  present,  \* present[s]: the clients of server s that are logged in
  room,     \* room[s][ch]: the clients in channel ch of server s
  heard     \* the texts heard in the last step

vars == <<present, room, heard>>

Heard(c, ch, t) == [to |-> c, channel |-> ch, text |-> t]

Init ==
  /\ present = [s \in Servers |-> {}]
  /\ room = [s \in Servers |-> [ch \in Channels |-> {}]]
  /\ heard = {}

Enter(s, c) ==
  /\ present' = [present EXCEPT ![s] = @ \cup {c}]
  /\ heard' = {}
  /\ UNCHANGED room

\* Whoever goes leaves every room in the same step.
Exit(s, c) ==
  /\ c \in present[s]
  /\ present' = [present EXCEPT ![s] = @ \ {c}]
  /\ room' = [room EXCEPT ![s] = [ch \in Channels |-> @[ch] \ {c}]]
  /\ heard' = {}

JoinRoom(s, c, ch) ==
  /\ c \in present[s]
  /\ room' = [room EXCEPT ![s][ch] = @ \cup {c}]
  /\ heard' = {}
  /\ UNCHANGED present

LeaveRoom(s, c, ch) ==
  /\ c \in room[s][ch]
  /\ room' = [room EXCEPT ![s][ch] = @ \ {c}]
  /\ heard' = {}
  /\ UNCHANGED present

\* A text of a member, or of a user of another server, reaches the whole room and
\* nobody else.
Speak(s, ch, t) ==
  /\ heard' = { Heard(c, ch, t) : c \in room[s][ch] }
  /\ UNCHANGED <<present, room>>

Silence == heard' = {} /\ UNCHANGED <<present, room>>

Collapse(s) ==
  /\ present' = [present EXCEPT ![s] = {}]
  /\ room' = [room EXCEPT ![s] = [ch \in Channels |-> {}]]
  /\ heard' = {}

Next ==
  \/ \E c \in Clients :
       \/ Enter(Home[c], c)
       \/ Exit(Home[c], c)
       \/ \E ch \in Channels : JoinRoom(Home[c], c, ch) \/ LeaveRoom(Home[c], c, ch)
  \/ \E s \in Servers :
       \/ \E ch \in Channels, t \in Texts : Speak(s, ch, t)
       \/ Collapse(s)
  \/ Silence

Spec == Init /\ [][Next]_vars
=============================================================================
