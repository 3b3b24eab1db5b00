------------------------------ MODULE Launcher ------------------------------
(***************************************************************************)
(* The program launcher "CIS415/Assignment1/MCP.c": a process that forks   *)
(* a child for each line of a file and waits for them.  A child sleeps     *)
(* until an alarm, reports on itself and executes the program of its line. *)
(* When that fails it goes on in the loop it was forked in, and forks      *)
(* children of its own for the lines that follow.  One step is one system  *)
(* call or one signal.                                                     *)
(***************************************************************************)
EXTENDS ForkLoop, FiniteSets

CONSTANTS
  Broken,    \* the lines whose program cannot be executed
  MayFail    \* what may go wrong: "fork", "report", and "stop" (a program is stopped)

ASSUME BrokenAssumption == Broken \subseteq Slots

VARIABLES
  pc,       \* where each process is
  round,    \* its loop counter i
  pid,      \* its array pid[]: the processes waitpid takes each element for
  pending,  \* is SIGUSR1, which all processes block, pending?
  alarm,    \* is its alarm set?
  news,     \* has it been stopped or continued, and its parent not been told?
  stopped   \* (history) the processes that have ever been stopped

signals == <<pending, alarm>>
jobs    == <<news, stopped>>
vars    == <<pc, round, pid, signals, jobs>>

\* The pids 0 and -1: waitpid takes any child of the caller for it, the first since
\* all are in one process group.
AnyChild == Processes

Alive(p) == pc[p] \notin {"unborn", "zombie", "gone"}
Later(p)    == { k \in Slots : \A n \in p : n < k }
Children(p) == { c \in { Child(p, k) : k \in Later(p) } : pc[c] # "unborn" }

Init ==
  /\ pc = [p \in Processes |-> IF p = First THEN "loop" ELSE "unborn"]
  /\ round = [p \in Processes |-> 1]
  /\ pid = [p \in Processes |-> [k \in Slots |-> AnyChild]]
  /\ pending = [p \in Processes |-> FALSE]
  /\ alarm = [p \in Processes |-> FALSE]
  /\ news = [p \in Processes |-> FALSE]
  /\ stopped = {}

-----------------------------------------------------------------------------
(* The loop of forks                                                         *)

Fork(p) ==
  /\ pc[p] = "loop"
  /\ round[p] \in Slots
  /\ LET c == Child(p, round[p]) IN
       /\ pc' = [pc EXCEPT ![c] = "born"]
       /\ pid' = [pid EXCEPT ![p][round[p]] = {c},
                             ![c] = [pid[p] EXCEPT ![round[p]] = AnyChild]]
       /\ round' = [round EXCEPT ![p] = @ + 1, ![c] = round[p]]
  /\ UNCHANGED <<signals, jobs>>

ForkFails(p) ==
  /\ "fork" \in MayFail
  /\ pc[p] = "loop"
  /\ round[p] \in Slots
  /\ pid' = [pid EXCEPT ![p][round[p]] = AnyChild]
  /\ round' = [round EXCEPT ![p] = @ + 1]
  /\ UNCHANGED <<pc, signals, jobs>>

-----------------------------------------------------------------------------
(* A child                                                                   *)

\* kill(0, SIGUSR1) goes to the whole process group, the sender included.  Fault: to
\* the others only.
AllOthers(c) == { p \in Processes \ {c} : Alive(p) }
Signalled(c) == { p \in Processes : Alive(p) }

Kill(c) ==
  /\ pc[c] = "born"
  /\ pending' = [p \in Processes |-> pending[p] \/ p \in Signalled(c)]
  /\ pc' = [pc EXCEPT ![c] = "sigwait"]
  /\ UNCHANGED <<round, pid, alarm, jobs>>

SigWait(c) ==
  /\ pc[c] = "sigwait"
  /\ pending[c]
  /\ pending' = [pending EXCEPT ![c] = FALSE]
  /\ alarm' = [alarm EXCEPT ![c] = TRUE]
  /\ pc' = [pc EXCEPT ![c] = "armed"]
  /\ UNCHANGED <<round, pid, jobs>>

Pause(c) ==
  /\ pc[c] = "armed"
  /\ pc' = [pc EXCEPT ![c] = "paused"]
  /\ UNCHANGED <<round, pid, signals, jobs>>

\* The alarm wakes a child that has paused.  Nothing keeps it from ringing before.
Ring(c) ==
  /\ alarm[c]
  /\ alarm' = [alarm EXCEPT ![c] = FALSE]
  /\ pc' = [pc EXCEPT ![c] = IF @ = "paused" THEN "report" ELSE @]
  /\ UNCHANGED <<round, pid, pending, jobs>>

\* Printing what /proc tells.  The names of its files are longer than the buffers they
\* are written to, which is undefined: the child goes on, or dies.
Report(c) ==
  /\ pc[c] = "report"
  /\ \/ pc' = [pc EXCEPT ![c] = "exec"]
     \/ "report" \in MayFail /\ pc' = [pc EXCEPT ![c] = "zombie"]
  /\ UNCHANGED <<round, pid, signals, jobs>>

\* Fault: it is the next line's program that is executed.
NextLine(c) == round[c] + 1
Line(c) == round[c]

Exec(c) ==
  /\ pc[c] = "exec"
  /\ \/ /\ Line(c) \notin Broken
        /\ pc' = [pc EXCEPT ![c] = "program"]
        /\ UNCHANGED round
     \/ /\ Line(c) \in Broken
        /\ pc' = [pc EXCEPT ![c] = "loop"]
        /\ round' = [round EXCEPT ![c] = @ + 1]
  /\ UNCHANGED <<pid, signals, jobs>>

\* What programs do, and others do to them.
Exit(c) ==
  /\ pc[c] = "program"
  /\ pc' = [pc EXCEPT ![c] = "zombie"]
  /\ UNCHANGED <<round, pid, signals, jobs>>

StopOrContinue(c) ==
  /\ "stop" \in MayFail
  /\ \/ pc[c] = "program" /\ pc' = [pc EXCEPT ![c] = "stopped"]
     \/ pc[c] = "stopped" /\ pc' = [pc EXCEPT ![c] = "program"]
  /\ news' = [news EXCEPT ![c] = TRUE]
  /\ stopped' = stopped \cup {c}
  /\ UNCHANGED <<round, pid, signals>>

-----------------------------------------------------------------------------
(* The loop of waits                                                         *)

StartWaiting(p) ==
  /\ pc[p] = "loop"
  /\ round[p] \notin Slots
  /\ pc' = [pc EXCEPT ![p] = "wait"]
  /\ round' = [round EXCEPT ![p] = 1]
  /\ UNCHANGED <<pid, signals, jobs>>

\* The children waitpid is asked about.  An inherited pid is that of a sibling: none.
Candidates(p) ==
  { c \in Children(p) : pc[c] # "gone" /\ c \in pid[p][round[p]] }

\* waitpid returns for a child that has ended, and, asked to, for one that was stopped
\* or continued, which is not waited for again.
Reap(c) ==
  /\ pc[c] = "zombie"
  /\ pc' = [pc EXCEPT ![c] = "gone"]
  /\ UNCHANGED jobs

TakeNews(c) ==
  /\ news[c]
  /\ pc[c] # "zombie"
  /\ news' = [news EXCEPT ![c] = FALSE]
  /\ UNCHANGED <<pc, stopped>>

\* Fault: the loop ends when waitpid finds no child.
UntilNoChild(p) ==
  /\ pc[p] = "wait"
  /\ round[p] \in Slots
  /\ \/ \E c \in Candidates(p) : Reap(c) \/ TakeNews(c)
     \/ Candidates(p) = {} /\ UNCHANGED <<pc, jobs>>
  /\ round' = [round EXCEPT ![p] = IF Candidates(p) = {} THEN Rounds + 1 ELSE @ + 1]
  /\ UNCHANGED <<pid, signals>>
WaitNext(p) ==
  /\ pc[p] = "wait"
  /\ round[p] \in Slots
  /\ \/ \E c \in Candidates(p) : Reap(c) \/ TakeNews(c)
     \/ Candidates(p) = {} /\ UNCHANGED <<pc, jobs>>
  /\ round' = [round EXCEPT ![p] = @ + 1]
  /\ UNCHANGED <<pid, signals>>

\* The first process has nobody here who waits for it.
Finish(p) ==
  /\ pc[p] = "wait"
  /\ round[p] \notin Slots
  /\ pc' = [pc EXCEPT ![p] = "zombie"]
  /\ UNCHANGED <<round, pid, signals, jobs>>

-----------------------------------------------------------------------------
Step(p) ==
  \/ Fork(p) \/ ForkFails(p) \/ StartWaiting(p) \/ WaitNext(p) \/ Finish(p)
  \/ Kill(p) \/ SigWait(p) \/ Pause(p) \/ Report(p) \/ Exec(p) \/ Exit(p)

Next == \E p \in Processes : Step(p) \/ Ring(p) \/ StopOrContinue(p)

Spec == Init /\ [][Next]_vars

\* Every process runs, programs end unless they are stopped, and alarms ring.
FairSpec == Spec /\ \A p \in Processes : WF_vars(Step(p)) /\ WF_vars(Ring(p))

-----------------------------------------------------------------------------
\* A process ends after all its children have, in whichever order they do: waiting
\* for pids that are inherited, failed or already gone skips none.  Only a child that
\* was stopped can outlive its parent.
NobodyIsOrphaned ==
  \A p \in Processes : ~Alive(p) =>
    \A c \in Children(p) \ stopped : ~Alive(c)

\* A line gets one child for each set of lines before it that could not be executed,
\* and no more: only the children of a failed exec fork in their turn.
RepeatsComeFromFailures ==
  \A k \in Slots :
    Cardinality({ p \in Processes : pc[p] # "unborn" /\ k \in p /\ \A n \in p : n <= k })
      <= 2 ^ Cardinality({ n \in Broken : n < k })

\* The launcher ends, unless the alarm of some child rang before its pause: then it
\* and the child sleep for ever.  A program that is stopped for good can keep it too.
EndsUnlessMissed ==
  \/ <>(pc[First] = "zombie" \/ \E p \in Processes : pc[p] = "paused" /\ ~alarm[p])
  \/ []<>(\E p \in Processes : pc[p] = "stopped")
=============================================================================
