------------------------------ MODULE MCDoubt -------------------------------
(***************************************************************************)
(* Small instances of DuckDoubt.                                           *)
(***************************************************************************)
EXTENDS DuckDoubt, MCDuckChat

\* What happens in this behaviour besides the requests: nothing, or the events of
\* World, and then one client is alone.
VARIABLE world
worldVars == <<doubtVars, world>>

FaultyStep ==
  \/ \E c \in Clients : (world = {} \/ c = c1) /\ Client(c) /\ NoteLaunch(c)
  \/ \E c \in Clients : ServeRequest(c) /\ NoteServed(c)
  \/ \E c \in Clients : DropRequest(c) /\ NoteLost(c)
  \/ "lose" \in world /\ \E c \in Clients : LoseRequest(c) /\ NoteLost(c)
  \/ "timer" \in world /\ \E s \in Servers : ServerTimer(s) /\ NoteServer(s)
  \/ "kill" \in world /\ \E s \in Servers : ServerFault(s) /\ NoteServer(s)

FaultyNext == FaultyStep /\ UNCHANGED world

FaultyInit == DoubtInit /\ world \in {{}, World}
FaultySpec == FaultyInit /\ [][FaultyNext]_worldVars
=============================================================================
