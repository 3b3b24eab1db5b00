------------------------------ MODULE DuckRoom ------------------------------
(***************************************************************************)
(* Each server of DuckServer as a ChatRoom, when every client keeps to one *)
(* name and no two clients of a server share one.                          *)
(***************************************************************************)
EXTENDS DuckServer

InRoom(s, ch) ==
  IF HasChannel(s, ch) THEN { channels[s][ch][u] : u \in DOMAIN channels[s][ch] } ELSE {}

Present == [s \in Servers |-> DOMAIN rev_usernames[s]]
Members == [s \in Servers |-> [ch \in Channels |-> InRoom(s, ch)]]
Hears   == { [to |-> t.to, channel |-> t.channel, text |-> t.text]
               : t \in { x \in out : x.type = "say" } }

Room == INSTANCE ChatRoom WITH present <- Present, room <- Members, heard <- Hears

\* What the clients of each server see is a ChatRoom: whatever the handlers, the relay,
\* the timer and restarts do is one of its steps or none.
ImplementsRoom == Room!Spec
=============================================================================
