---------------------------- MODULE JobScheduler ----------------------------
(***************************************************************************)
(* The time-slicing scheduler "CIS415/Lab6/mcp.c": it forks a process for  *)
(* each line of a script, keeps them in a ring, and lets the alarm decide  *)
(* which of them runs.  One step is one call of wait or kill, one signal,  *)
(* or one exit of a program.                                               *)
(***************************************************************************)
EXTENDS Naturals, FiniteSets

CONSTANT Lines  \* the number of lines of the script

ASSUME LinesAssumption == Lines \in Nat

Jobs  == 1..Lines     \* a job is named by its line
NoJob == Lines + 1    \* a null pointer

VARIABLES
  pc,        \* where mcp is
  line,      \* the next line of the script
  schedule,  \* the flag set by sigalrm_handler
  count, active,      \* struct jobs
  next, prev, signo,  \* the struct pcb of each job
  job        \* (kernel) the state of each job's process

ring == <<count, active, next, prev>>
vars == <<pc, line, schedule, ring, signo, job>>

In(state) == { j \in Jobs : job[j] = state }

\* The child sleeps until SIGUSR1 sets go, and then executes its program, in which
\* SIGUSR1 is deadly again.
Effect(sig, state) ==
  CASE sig = "USR1" /\ state = "waiting" -> "running"
    [] sig = "USR1" /\ state = "running" -> "zombie"
    [] sig = "STOP" /\ state = "running" -> "stopped"
    [] sig = "CONT" /\ state = "stopped" -> "running"
    [] OTHER -> state

Init ==
  /\ pc = "launch"
  /\ line = 1
  /\ schedule = FALSE
  /\ count = 0
  /\ active = NoJob
  /\ next = [j \in Jobs |-> j]
  /\ prev = [j \in Jobs |-> j]
  /\ signo = [j \in Jobs |-> "USR1"]
  /\ job = [j \in Jobs |-> "none"]

-----------------------------------------------------------------------------
(* launch_programs                                                           *)

\* jobs_add: behind all the others, that is, in front of the active one.
Add(j) ==
  /\ count' = count + 1
  /\ \/ /\ active = NoJob
        /\ active' = j
        /\ next' = [next EXCEPT ![j] = j]
        /\ prev' = [prev EXCEPT ![j] = j]
     \/ /\ active # NoJob
        /\ next' = [next EXCEPT ![prev[active]] = j, ![j] = active]
        /\ prev' = [prev EXCEPT ![active] = j, ![j] = prev[active]]
        /\ UNCHANGED active

NextLine == pc = "launch" /\ line \in Jobs /\ line' = line + 1

LaunchProgram ==
  /\ NextLine
  /\ Add(line)
  /\ job' = [job EXCEPT ![line] = "waiting"]
  /\ signo' = [signo EXCEPT ![line] = "USR1"]
  /\ UNCHANGED <<pc, schedule>>

\* A line wordexp refuses.
SkipLine == NextLine /\ UNCHANGED <<pc, schedule, ring, signo, job>>

\* The end of the script: the first alarm is set.
SetAlarm ==
  /\ pc = "launch"
  /\ line \notin Jobs
  /\ pc' = "start"
  /\ UNCHANGED <<line, schedule, ring, signo, job>>

-----------------------------------------------------------------------------
(* main and scheduler                                                        *)

\* kill(jobs->active->pid, jobs->active->signo), and the signal the job gets next time.
Kill(following) ==
  /\ job' = [job EXCEPT ![active] = Effect(signo[active], @)]
  /\ signo' = [signo EXCEPT ![active] = following]

Start ==
  /\ pc = "start"
  /\ active # NoJob
  /\ Kill("STOP")
  /\ pc' = "loop"
  /\ UNCHANGED <<line, schedule, ring>>

\* A script without a program: jobs->active is null.
StartCrash ==
  /\ pc = "start"
  /\ active = NoJob
  /\ pc' = "crashed"
  /\ UNCHANGED <<line, schedule, ring, signo, job>>

Wait ==
  /\ pc = "loop"
  /\ count > 0
  /\ pc' = "wait"
  /\ UNCHANGED <<line, schedule, ring, signo, job>>

\* sigalrm_handler, at any moment: it sets the next alarm too.  A wait that has no
\* child to return is interrupted; in all other places the flag waits for the next
\* interruption.
Alarm ==
  /\ pc \in {"start", "loop", "wait", "resume"}
  /\ schedule' = TRUE
  /\ pc' = IF pc = "wait" /\ In("zombie") = {} THEN "stop" ELSE pc
  /\ UNCHANGED <<line, ring, signo, job>>

\* The place a job has in jobs_del_pid's walk around the ring.
At[i \in Nat] == IF i = 0 THEN active ELSE next[At[i - 1]]
Found(j) == \E i \in 0..Lines : i < count /\ At[i] = j

\* jobs_del.  Fault: the predecessor keeps its pointer to the job.
HalfUnlinked(j) ==
  /\ count' = count - 1
  /\ active' = CASE prev[j] = j -> NoJob
                 [] prev[j] # j /\ active = j -> next[j]
                 [] OTHER -> active
  /\ prev' = [prev EXCEPT ![next[j]] = prev[j]]
  /\ UNCHANGED next
Delete(j) ==
  /\ count' = count - 1
  /\ active' = CASE prev[j] = j -> NoJob
                 [] prev[j] # j /\ active = j -> next[j]
                 [] OTHER -> active
  /\ next' = [next EXCEPT ![prev[j]] = next[j]]
  /\ prev' = [prev EXCEPT ![next[j]] = prev[j]]

\* wait returns the pid of a child that has ended.
Reap(j) ==
  /\ pc = "wait"
  /\ job[j] = "zombie"
  /\ job' = [job EXCEPT ![j] = "reaped"]
  /\ IF Found(j) THEN Delete(j) ELSE UNCHANGED ring
  /\ pc' = "loop"
  /\ UNCHANGED <<line, schedule, signo>>

\* scheduler, first half.  When the job that was running has ended, the active one is
\* not running: then this starts it instead.  Fault: it gets the same signal again.
StopAgain ==
  /\ pc = "stop"
  /\ schedule' = FALSE
  /\ Kill(signo[active])
  /\ pc' = "resume"
  /\ UNCHANGED <<line, ring>>
StopActive ==
  /\ pc = "stop"
  /\ schedule' = FALSE
  /\ Kill("CONT")
  /\ pc' = "resume"
  /\ UNCHANGED <<line, ring>>

\* scheduler, second half.  Two faults: the one resumed is not to be stopped, or
\* active stays where it is.
Turn(following) ==
  /\ pc = "resume"
  /\ active' = next[active]
  /\ job' = [job EXCEPT ![next[active]] = Effect(signo[next[active]], @)]
  /\ signo' = [signo EXCEPT ![next[active]] = following]
  /\ pc' = "loop"
  /\ UNCHANGED <<line, schedule, count, next, prev>>
ResumeForGood == Turn("CONT")
ResumeActive ==
  /\ pc = "resume"
  /\ Kill("STOP")
  /\ pc' = "loop"
  /\ UNCHANGED <<line, schedule, ring>>
ResumeNext == Turn("STOP")

\* Fault: the loop ends with one job left.
FinishEarly ==
  /\ pc = "loop"
  /\ count <= 1
  /\ pc' = "finished"
  /\ UNCHANGED <<line, schedule, ring, signo, job>>
Finish ==
  /\ pc = "loop"
  /\ count = 0
  /\ pc' = "finished"
  /\ UNCHANGED <<line, schedule, ring, signo, job>>

\* A program ends, of itself.
JobExits(j) ==
  /\ job[j] = "running"
  /\ job' = [job EXCEPT ![j] = "zombie"]
  /\ UNCHANGED <<pc, line, schedule, ring, signo>>

-----------------------------------------------------------------------------
McpStep ==
  \/ LaunchProgram \/ SkipLine \/ SetAlarm
  \/ Start \/ StartCrash \/ Wait \/ StopActive \/ ResumeNext \/ Finish
  \/ \E j \in Jobs : Reap(j)

Next == McpStep \/ Alarm \/ \E j \in Jobs : JobExits(j)

Spec == Init /\ [][Next]_vars

\* mcp runs, and each alarm sets the next.  No program has to end.
FairSpec == Spec /\ WF_vars(McpStep) /\ WF_vars(Alarm)

-----------------------------------------------------------------------------
TypeOK ==
  /\ pc \in {"launch", "start", "loop", "wait", "stop", "resume", "finished", "crashed"}
  /\ line \in 1..(Lines + 1)
  /\ schedule \in BOOLEAN
  /\ count \in Nat
  /\ active \in Jobs \cup {NoJob}
  /\ next \in [Jobs -> Jobs]
  /\ prev \in [Jobs -> Jobs]
  /\ signo \in [Jobs -> {"USR1", "STOP", "CONT"}]
  /\ job \in [Jobs -> {"none", "waiting", "running", "stopped", "zombie", "reaped"}]

Children == { j \in Jobs : job[j] \notin {"none", "reaped"} }

\* The ring holds the children that have not been waited for, all of them, each once,
\* and can be followed in both directions: so no pid is searched for in vain, the
\* scheduler never follows a null pointer, and the last child's end is noticed.
RingIsWhole ==
  /\ count = Cardinality(Children)
  /\ active = NoJob <=> Children = {}
  /\ { At[i] : i \in 0..(count - 1) } = Children
  /\ \A j \in Children : prev[next[j]] = j /\ next[prev[j]] = j

\* More than one program runs only after others have ended: an exit leaves an active
\* job that is not running, and the scheduler starts it and its neighbour at once.
OverrunsArePaidFor == Cardinality(In("running")) <= 1 + Cardinality(In("reaped"))

\* While every fork succeeds, what the scheduler sends ends nobody: SIGUSR1 only goes
\* to a child that sleeps.  (A fork that fails puts -1 into the ring, and the signals
\* for it go to every process there is: that is left out of this model.)
ProgramsEndThemselves ==
  [][pc' # pc => \A j \in Jobs : job'[j] = "zombie" => job[j] = "zombie"]_vars

\* No program is starved, whichever others end and whichever alarms are late.
EveryJobRuns ==
  \A j \in Jobs : job[j] \in {"waiting", "stopped"} ~> job[j] = "running"

\* The jobs that run too many get stopped: in the end there is one at a time.
OverrunsEnd == <>[](Cardinality(In("running")) <= 1)

\* When all programs have ended mcp ends, but not before it has waited for each.
McpEndsLast ==
  (pc = "loop" /\ \A j \in Children : job[j] = "zombie") ~> (pc = "finished" /\ Children = {})
=============================================================================
