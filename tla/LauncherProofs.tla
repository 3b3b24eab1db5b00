---------------------------- MODULE LauncherProofs ---------------------------
(***************************************************************************)
(* Theorems about Launcher,  for files of any length, any lines that       *)
(* cannot be executed and anything that may go wrong.                      *)
(***************************************************************************)
EXTENDS Launcher, FiniteSetTheorems, FunctionTheorems, TLAPS

-----------------------------------------------------------------------------
(* The invariant                                                             *)

Born(p) == pc[p] # "unborn"
Dead(p) == pc[p] \in {"zombie", "gone"}

\* A process before its exec, and its program.
Young   == {"born", "sigwait", "armed", "paused", "report", "exec"}
Program == {"program", "stopped"}

Shape ==
  /\ pc \in [Processes -> {"unborn", "loop", "wait", "zombie", "gone"} \cup Young \cup Program]
  /\ round \in [Processes -> Nat \ {0}]
  /\ DOMAIN pid = Processes /\ \A p \in Processes : DOMAIN pid[p] = Slots
  /\ DOMAIN news = Processes

\* A child is at the line it was forked for until it is in the loop again, one further.
LinesOK ==
  \A p \in Processes :
    /\ pc[p] = "loop" => \A n \in p : n < round[p]
    /\ pc[p] \in Young => \A n \in p : n <= round[p]

\* Only the loop forks, and it has not come to the lines whose child is unborn.
BirthsOK ==
  \A p \in Processes : \A k \in Later(p) : Born(Child(p, k)) =>
    \/ pc[p] = "loop" /\ k < round[p]
    \/ pc[p] = "wait" \/ Dead(p)

\* The parent's array has the child's pid at the child's line.
PidsOK ==
  \A p \in Processes : \A k \in Later(p) : Born(Child(p, k)) => pid[p][k] = {Child(p, k)}

\* The children of the lines that were waited for have ended, or were stopped once.
WaitsOK ==
  \A p \in Processes : \A k \in Later(p) :
    /\ Born(Child(p, k))
    /\ Dead(p) \/ (pc[p] = "wait" /\ k < round[p])
    => Dead(Child(p, k)) \/ Child(p, k) \in stopped

NewsOK == \A c \in Processes : news[c] => c \in stopped

IInv == Shape /\ LinesOK /\ BirthsOK /\ PidsOK /\ WaitsOK /\ NewsOK

-----------------------------------------------------------------------------
(* The names of the processes                                                *)

\* A child's name is a process, and not its parent's.
LEMMA ChildNames ==
  ASSUME NEW p \in Processes, NEW k \in Later(p)
  PROVE  /\ k \in Slots /\ k \in Nat /\ Child(p, k) \in Processes
         /\ k \notin p /\ Child(p, k) # p
<1>1. k \in Slots /\ k \in Nat /\ \A n \in p : n < k
  BY RoundsAssumption DEF Later, Slots
<1>2. k \notin p
  BY <1>1
<1> QED
  BY <1>1, <1>2 DEF Child, Processes

\* A name tells the parent and the line.
LEMMA OneParent ==
  ASSUME NEW p \in Processes, NEW q \in Processes, NEW k \in Later(p), NEW j \in Later(q),
         Child(p, k) = Child(q, j)
  PROVE  p = q /\ k = j
<1>1. k \in Nat /\ j \in Nat /\ (\A n \in p : n < k) /\ (\A n \in q : n < j)
  BY ChildNames DEF Later
<1>2. k \in q \cup {j} /\ j \in p \cup {k}
  BY DEF Child
<1>3. k = j
  BY <1>1, <1>2
<1>4. k \notin p /\ k \notin q
  BY <1>1, <1>3
<1> QED
  BY <1>3, <1>4 DEF Child

\* The first process starts in its loop, without children.
LEMMA InitIInv == Init => IInv
<1> SUFFICES ASSUME Init
             PROVE  IInv
  OBVIOUS
<1>1. First \in Processes
  BY DEF First, Processes
<1>2. Shape
  BY <1>1 DEF Init, Shape, Young, Program
<1>3. \A p \in Processes : \A k \in Later(p) : ~Born(Child(p, k))
  <2> SUFFICES ASSUME NEW p \in Processes, NEW k \in Later(p)
               PROVE  ~Born(Child(p, k))
    OBVIOUS
  <2>1. Child(p, k) \in Processes /\ Child(p, k) # First
    BY ChildNames DEF Child, First
  <2> QED
    BY <2>1 DEF Init, Born
<1>4. LinesOK
  BY DEF Init, LinesOK, First, Young
<1> QED
  BY <1>2, <1>3, <1>4 DEF Init, IInv, BirthsOK, PidsOK, WaitsOK, NewsOK

-----------------------------------------------------------------------------
(* One process moves                                                         *)

\* A step that bears nobody and leaves the pids of the children alone keeps the
\* invariant when it moves its process on in a way that fits.
Moves(p) ==
  /\ \A q \in Processes \ {p} :
       /\ Born(q)' <=> Born(q)
       /\ Dead(q) => Dead(q)'
       /\ Dead(q)' => Dead(q)
       /\ ~Dead(q) => pc'[q] = pc[q]
       /\ round'[q] = round[q]
  /\ Born(p)' <=> Born(p)
  /\ stopped \subseteq stopped'

LEMMA MoveKeeps ==
  ASSUME IInv, NEW p \in Processes, Moves(p), ~Dead(p),
         \A k \in Later(p) : Born(Child(p, k)) =>
           /\ pid'[p][k] = pid[p][k]
           /\ (pc'[p] = "loop" /\ k < round'[p]) \/ pc'[p] = "wait" \/ Dead(p)'
           /\ (Dead(p)' \/ (pc'[p] = "wait" /\ k < round'[p])) =>
                (Dead(Child(p, k))' \/ Child(p, k) \in stopped'),
         \A q \in Processes \ {p} : pid'[q] = pid[q]
  PROVE  BirthsOK' /\ PidsOK' /\ WaitsOK'
<1>1. \A q \in Processes : \A k \in Later(q) :
        /\ Child(q, k) \in Processes
        /\ Born(Child(q, k))' => Born(Child(q, k))
        /\ Dead(Child(q, k)) => Dead(Child(q, k))'
  BY ChildNames DEF Moves
<1>2. BirthsOK'
  BY <1>1 DEF BirthsOK, IInv, Moves, Later
<1>3. PidsOK'
  BY <1>1 DEF PidsOK, IInv, Moves, Later
<1>4. WaitsOK'
  BY <1>1 DEF WaitsOK, IInv, Moves, Later
<1> QED
  BY <1>2, <1>3, <1>4

\* A process that is not in a loop has no children, and may move to any other point
\* of the program.
LEMMA ChildlessKeeps ==
  ASSUME IInv, NEW p \in Processes, pc[p] \in Young \cup Program, Moves(p),
         UNCHANGED pid
  PROVE  BirthsOK' /\ PidsOK' /\ WaitsOK'
<1>1. ~Dead(p) /\ \A k \in Later(p) : ~Born(Child(p, k))
  BY DEF IInv, BirthsOK, Young, Program, Dead
<1> QED
  BY <1>1, MoveKeeps

-----------------------------------------------------------------------------
(* The loop of forks                                                         *)

\* The child that is forked is a new one: its line was not come to before.
LEMMA ForkKeeps == ASSUME IInv, NEW p \in Processes, Fork(p) PROVE IInv'
<1> DEFINE r == round[p]
           c == Child(p, r)
<1>1. r \in Later(p) /\ r \in Nat /\ c \in Processes /\ c # p
  BY ChildNames DEF Fork, IInv, LinesOK, Later, Shape
<1>2. ~Born(c)
  BY <1>1 DEF Fork, IInv, BirthsOK, Dead
<1>3. /\ pc' = [pc EXCEPT ![c] = "born"]
      /\ pid' = [pid EXCEPT ![p][r] = {c}, ![c] = [pid[p] EXCEPT ![r] = AnyChild]]
      /\ round' = [round EXCEPT ![p] = @ + 1, ![c] = r]
      /\ UNCHANGED <<news, stopped>>
      /\ pc[p] = "loop"
  BY DEF Fork, jobs
<1>4. Shape'
  BY <1>1, <1>3 DEF Shape, IInv, Young
<1>5. /\ pc'[c] = "born" /\ pc'[p] = "loop"
      /\ round'[p] = r + 1 /\ round'[c] = r
      /\ pid'[p] = [pid[p] EXCEPT ![r] = {c}]
      /\ \A q \in Processes \ {p, c} :
           pc'[q] = pc[q] /\ round'[q] = round[q] /\ pid'[q] = pid[q]
  BY <1>1, <1>3 DEF Shape, IInv
<1>6. pid'[p][r] = {c} /\ \A k \in Slots \ {r} : pid'[p][k] = pid[p][k]
  BY <1>1, <1>5 DEF Shape, IInv, Later
<1>7. \A n \in p : n \in Nat /\ n < r
  BY <1>1, RoundsAssumption DEF Later, Processes, Slots
<1>8. LinesOK'
  <2>1. \A n \in c : n <= r
    BY <1>1, <1>7 DEF Child
  <2>2. \A n \in p : n < r + 1
    BY <1>1, <1>7
  <2> QED
    BY <1>5, <2>1, <2>2 DEF LinesOK, IInv, Young
\* What is born was before, or is this child of this process.
<1>9. ASSUME NEW q \in Processes, NEW k \in Later(q), Born(Child(q, k))'
      PROVE  \/ q = p /\ k = r
             \/ q = p /\ k # r /\ k < r /\ Born(Child(q, k)) /\ Child(q, k) # c
             \/ q \notin {p, c} /\ Born(Child(q, k)) /\ Child(q, k) # c
  <2>1. Child(q, k) \in Processes /\ k \in Nat
    BY ChildNames
  <2>2. CASE Child(q, k) = c
    BY <1>1, <2>2, OneParent
  <2>3. CASE Child(q, k) # c
    <3>1. Born(Child(q, k))
      BY <1>3, <1>9, <2>1, <2>3 DEF Born, Shape, IInv
    <3>2. q # c
      BY <1>2, <3>1 DEF IInv, BirthsOK, Born, Dead
    <3>3. q = p => k < r
      BY <1>3, <3>1 DEF IInv, BirthsOK, Dead
    <3> QED
      BY <1>1, <2>1, <2>3, <3>1, <3>2, <3>3
  <2> QED
    BY <2>2, <2>3
<1>10. BirthsOK'
  <2> SUFFICES ASSUME NEW q \in Processes, NEW k \in Later(q), Born(Child(q, k))'
               PROVE  \/ pc'[q] = "loop" /\ k < round'[q]
                      \/ pc'[q] = "wait" \/ Dead(q)'
    BY DEF BirthsOK, Later
  <2>1. CASE q = p
    <3>1. k <= r /\ k \in Nat
      BY <1>1, <1>9, <2>1, ChildNames
    <3> QED
      BY <1>1, <1>5, <2>1, <3>1
  <2>2. CASE q # p
    BY <1>5, <1>9, <2>2 DEF IInv, BirthsOK, Dead
  <2> QED
    BY <2>1, <2>2
<1>11. PidsOK'
  <2> SUFFICES ASSUME NEW q \in Processes, NEW k \in Later(q), Born(Child(q, k))'
               PROVE  pid'[q][k] = {Child(q, k)}
    BY DEF PidsOK, Later
  <2>1. k \in Slots
    BY ChildNames
  <2>2. CASE q = p /\ k = r
    BY <1>6, <2>2
  <2>3. CASE ~(q = p /\ k = r)
    <3>1. Born(Child(q, k)) /\ q # c /\ (q = p => k # r)
      BY <1>1, <1>9, <2>3
    <3>2. pid[q][k] = {Child(q, k)}
      BY <3>1 DEF IInv, PidsOK
    <3>3. pid'[q][k] = pid[q][k]
      BY <1>5, <1>6, <2>1, <3>1
    <3> QED
      BY <3>2, <3>3
  <2> QED
    BY <2>2, <2>3
<1>12. WaitsOK'
  <2> SUFFICES ASSUME NEW q \in Processes, NEW k \in Later(q), Born(Child(q, k))',
                      Dead(q)' \/ (pc'[q] = "wait" /\ k < round'[q])
               PROVE  Dead(Child(q, k))' \/ Child(q, k) \in stopped'
    BY DEF WaitsOK, Later
  <2>1. q \notin {p, c} /\ Born(Child(q, k)) /\ Child(q, k) # c
    BY <1>5, <1>9 DEF Dead
  <2>2. Child(q, k) \in Processes /\ Child(q, k) # q
    BY ChildNames
  <2>3. Dead(Child(q, k)) \/ Child(q, k) \in stopped
    BY <1>5, <2>1 DEF IInv, WaitsOK, Dead
  <2>4. CASE Child(q, k) = p
    BY <1>3, <2>3, <2>4 DEF Dead
  <2>5. CASE Child(q, k) # p
    BY <1>3, <1>5, <2>1, <2>2, <2>3, <2>5 DEF Dead
  <2> QED
    BY <2>4, <2>5
<1>13. NewsOK'
  BY <1>3 DEF NewsOK, IInv
<1> QED
  BY <1>4, <1>8, <1>10, <1>11, <1>12, <1>13 DEF IInv

LEMMA ForkFailsKeeps == ASSUME IInv, NEW p \in Processes, ForkFails(p) PROVE IInv'
<1> DEFINE r == round[p]
<1>1. /\ pc[p] = "loop" /\ r \in Slots /\ r \in Nat /\ r + 1 \in Nat \ {0}
      /\ pid' = [pid EXCEPT ![p][r] = AnyChild]
      /\ round' = [round EXCEPT ![p] = r + 1]
      /\ UNCHANGED <<pc, news, stopped>>
  BY RoundsAssumption DEF ForkFails, jobs, Slots
<1>2. Shape' /\ NewsOK'
  BY <1>1 DEF Shape, IInv, NewsOK
<1>3. round'[p] = r + 1 /\ \A q \in Processes \ {p} : round'[q] = round[q] /\ pid'[q] = pid[q]
  BY <1>1 DEF Shape, IInv
<1>4. \A n \in p : n \in Nat /\ n < r
  BY <1>1, RoundsAssumption DEF IInv, LinesOK, Processes, Slots
<1>5. LinesOK'
  BY <1>1, <1>3, <1>4 DEF LinesOK, IInv, Young
<1>6. Moves(p) /\ ~Dead(p) /\ ~Dead(p)' /\ pc'[p] = "loop"
  BY <1>1, <1>3 DEF Moves, Born, Dead
<1>7. ASSUME NEW k \in Later(p), Born(Child(p, k))
      PROVE  pid'[p][k] = pid[p][k] /\ k < round'[p]
  <2>1. k < r /\ k \in Nat /\ k \in Slots
    BY <1>1, <1>7, ChildNames DEF IInv, BirthsOK, Dead
  <2>2. k # r
    BY <1>1, <2>1
  <2> QED
    BY <1>1, <1>3, <2>1, <2>2 DEF Shape, IInv
<1>8. BirthsOK' /\ PidsOK' /\ WaitsOK'
  BY <1>3, <1>6, <1>7, MoveKeeps
<1> QED
  BY <1>2, <1>5, <1>8 DEF IInv

-----------------------------------------------------------------------------
(* The child, and its program                                                *)

\* The step of a process that is not in a loop, to anywhere its line allows.
LEMMA SimpleStep ==
  ASSUME IInv, NEW p \in Processes, pc[p] \in Young \cup Program,
         NEW x \in Young \cup Program \cup {"zombie", "loop"},
         pc' = [pc EXCEPT ![p] = x],
         \/ round' = round /\ x \in Program \cup {"zombie"}
         \/ round' = round /\ pc[p] \in Young /\ x \in Young
         \/ pc[p] \in Young /\ x = "loop" /\ round' = [round EXCEPT ![p] = @ + 1],
         pid' = pid,
         DOMAIN news' = Processes, NewsOK', stopped \subseteq stopped'
  PROVE  IInv'
<1>1. /\ pc'[p] = x /\ \A q \in Processes \ {p} : pc'[q] = pc[q] /\ round'[q] = round[q]
      /\ round[p] \in Nat /\ round'[p] \in {round[p], round[p] + 1}
  BY DEF Shape, IInv
<1>2. Shape'
  BY DEF Shape, IInv
<1>3. Moves(p)
  BY <1>1 DEF Moves, Born, Dead, Young, Program
<1>4. \A n \in p : n \in Nat
  BY RoundsAssumption DEF Processes, Slots
<1>5. LinesOK'
  <2>1. x = "loop" => \A n \in p : n < round'[p]
    BY <1>1, <1>4 DEF LinesOK, IInv, Young, Program, Shape
  <2>2. x \in Young => \A n \in p : n <= round'[p]
    BY <1>1 DEF LinesOK, IInv, Young, Program
  <2> QED
    BY <1>1, <2>1, <2>2 DEF LinesOK, IInv
<1>6. BirthsOK' /\ PidsOK' /\ WaitsOK'
  BY <1>3, ChildlessKeeps
<1> QED
  BY <1>2, <1>5, <1>6 DEF IInv

LEMMA ChildKeeps ==
  ASSUME IInv, NEW p \in Processes,
         Kill(p) \/ SigWait(p) \/ Pause(p) \/ Report(p) \/ Exec(p) \/ Exit(p)
  PROVE  IInv'
<1> USE DEF Young, Program
<1>0. DOMAIN news = Processes /\ NewsOK
  BY DEF IInv, Shape
<1>a. UNCHANGED jobs => DOMAIN news' = Processes /\ NewsOK' /\ stopped \subseteq stopped'
  BY <1>0 DEF jobs, NewsOK
<1>1. CASE Kill(p)
  BY <1>1, <1>a, SimpleStep DEF Kill
<1>2. CASE SigWait(p)
  BY <1>2, <1>a, SimpleStep DEF SigWait
<1>3. CASE Pause(p)
  BY <1>3, <1>a, SimpleStep DEF Pause
<1>4. CASE Report(p)
  BY <1>4, <1>a, SimpleStep DEF Report
<1>5. CASE Exec(p)
  BY <1>5, <1>a, SimpleStep DEF Exec
<1>6. CASE Exit(p)
  BY <1>6, <1>a, SimpleStep DEF Exit
<1> QED
  BY <1>1, <1>2, <1>3, <1>4, <1>5, <1>6

LEMMA StopKeeps == ASSUME IInv, NEW p \in Processes, StopOrContinue(p) PROVE IInv'
<1>1. DOMAIN news' = Processes /\ NewsOK' /\ stopped \subseteq stopped'
  BY DEF StopOrContinue, IInv, Shape, NewsOK
<1> QED
  BY <1>1, SimpleStep DEF StopOrContinue, Young, Program

LEMMA RingKeeps == ASSUME IInv, NEW p \in Processes, Ring(p) PROVE IInv'
<1>1. CASE pc[p] = "paused"
  <2>1. DOMAIN news' = Processes /\ NewsOK' /\ stopped \subseteq stopped'
    BY DEF Ring, IInv, Shape, NewsOK, jobs
  <2> QED
    BY <1>1, <2>1, SimpleStep DEF Ring, Young, Program
<1>2. CASE pc[p] # "paused"
  <2>1. UNCHANGED <<pc, round, pid, news, stopped>>
    BY <1>2 DEF Ring, IInv, Shape, jobs
  <2> QED
    BY <2>1 DEF IInv, Shape, LinesOK, BirthsOK, PidsOK, WaitsOK, NewsOK, Born, Dead, Later
<1> QED
  BY <1>1, <1>2

-----------------------------------------------------------------------------
(* The loop of waits                                                         *)

LEMMA StartWaitingKeeps == ASSUME IInv, NEW p \in Processes, StartWaiting(p) PROVE IInv'
<1>1. /\ pc[p] = "loop"
      /\ pc' = [pc EXCEPT ![p] = "wait"] /\ round' = [round EXCEPT ![p] = 1]
      /\ UNCHANGED <<pid, news, stopped>>
  BY DEF StartWaiting, jobs
<1>2. Shape' /\ NewsOK'
  BY <1>1 DEF Shape, IInv, NewsOK
<1>3. /\ pc'[p] = "wait" /\ round'[p] = 1
      /\ \A q \in Processes \ {p} : pc'[q] = pc[q] /\ round'[q] = round[q]
  BY <1>1 DEF Shape, IInv
<1>4. LinesOK'
  BY <1>3 DEF LinesOK, IInv, Young
<1>5. Moves(p) /\ ~Dead(p) /\ ~Dead(p)'
  BY <1>1, <1>3 DEF Moves, Born, Dead
<1>6. \A k \in Later(p) : ~(k < round'[p])
  BY <1>3, RoundsAssumption DEF Later, Slots
<1>7. BirthsOK' /\ PidsOK' /\ WaitsOK'
  BY <1>1, <1>3, <1>5, <1>6, MoveKeeps
<1> QED
  BY <1>2, <1>4, <1>7 DEF IInv

\* The element of the array at the child's line is the child: waitpid returns for it, or
\* says that there is no such child when it was taken before.
LEMMA WaitNextKeeps == ASSUME IInv, NEW p \in Processes, WaitNext(p) PROVE IInv'
<1> DEFINE r == round[p]
<1>1. /\ pc[p] = "wait" /\ r \in Slots /\ r \in Nat
      /\ round' = [round EXCEPT ![p] = r + 1]
      /\ pid' = pid
  BY RoundsAssumption DEF WaitNext, Slots
<1>2. \A c \in Candidates(p) : c \in Processes /\ c # p
  BY ChildNames DEF Candidates, Children
\* All that happens to other processes: a zombie goes.
<1> DEFINE Effect ==
             /\ \A q \in Processes :
                  pc'[q] = pc[q] \/ (pc[q] = "zombie" /\ pc'[q] = "gone")
             /\ pc'[p] = "wait"
             /\ Shape' /\ NewsOK' /\ stopped' = stopped
<1>3. Effect
  <2>1. r + 1 \in Nat \ {0}
    BY <1>1
  <2>2. ASSUME NEW c \in Candidates(p), Reap(c) PROVE Effect
    BY <1>1, <1>2, <2>1, <2>2 DEF Reap, jobs, IInv, Shape, NewsOK
  <2>3. ASSUME NEW c \in Candidates(p), TakeNews(c) PROVE Effect
    BY <1>1, <1>2, <2>1, <2>3 DEF TakeNews, IInv, Shape, NewsOK
  <2>4. ASSUME UNCHANGED <<pc, jobs>> PROVE Effect
    BY <1>1, <2>1, <2>4 DEF jobs, IInv, Shape, NewsOK
  <2> QED
    BY <2>2, <2>3, <2>4 DEF WaitNext
<1>4. round'[p] = r + 1 /\ \A q \in Processes \ {p} : round'[q] = round[q]
  BY <1>1 DEF Shape, IInv
<1>5. LinesOK'
  BY <1>3, <1>4 DEF LinesOK, IInv, Young
<1>6. Moves(p) /\ ~Dead(p) /\ ~Dead(p)'
  BY <1>1, <1>3, <1>4 DEF Moves, Born, Dead
<1>7. ASSUME NEW k \in Later(p), Born(Child(p, k)), k < round'[p]
      PROVE  Dead(Child(p, k))' \/ Child(p, k) \in stopped'
  <2> DEFINE c == Child(p, k)
  <2>1. c \in Processes /\ k \in Nat /\ k \in Slots
    BY ChildNames
  <2>2. CASE k < r
    <3>1. Dead(c) \/ c \in stopped
      BY <1>1, <1>7, <2>2 DEF IInv, WaitsOK
    <3> QED
      BY <1>3, <2>1, <3>1 DEF Dead
  <2>3. CASE k = r
    <3>1. pid[p][r] = {c} /\ c \in Children(p)
      BY <1>7, <2>3 DEF IInv, PidsOK, Children, Born
    <3>2. CASE pc[c] = "gone"
      BY <1>3, <2>1, <3>2 DEF Dead
    <3>3. CASE pc[c] # "gone"
      <4>1. Candidates(p) = {c}
        BY <3>1, <3>3 DEF Candidates
      <4>2. Reap(c) \/ TakeNews(c)
        BY <4>1 DEF WaitNext
      <4>3. CASE Reap(c)
        BY <2>1, <4>3 DEF Reap, IInv, Shape, Dead
      <4>4. CASE TakeNews(c)
        BY <1>3, <2>1, <4>4 DEF TakeNews, IInv, NewsOK
      <4> QED
        BY <4>2, <4>3, <4>4
    <3> QED
      BY <3>2, <3>3
  <2> QED
    BY <1>1, <1>4, <1>7, <2>1, <2>2, <2>3
<1>8. BirthsOK' /\ PidsOK' /\ WaitsOK'
  BY <1>1, <1>3, <1>6, <1>7, MoveKeeps
<1> QED
  BY <1>3, <1>5, <1>8 DEF IInv

LEMMA FinishKeeps == ASSUME IInv, NEW p \in Processes, Finish(p) PROVE IInv'
<1>1. /\ pc[p] = "wait" /\ pc' = [pc EXCEPT ![p] = "zombie"]
      /\ UNCHANGED <<round, pid, news, stopped>>
  BY DEF Finish, jobs
<1>2. Shape' /\ NewsOK'
  BY <1>1 DEF Shape, IInv, NewsOK
<1>3. pc'[p] = "zombie" /\ \A q \in Processes \ {p} : pc'[q] = pc[q]
  BY <1>1 DEF Shape, IInv
<1>4. LinesOK'
  BY <1>1, <1>3 DEF LinesOK, IInv, Young
<1>5. Moves(p) /\ ~Dead(p) /\ Dead(p)'
  BY <1>1, <1>3 DEF Moves, Born, Dead
<1>6. \A k \in Later(p) : k < round[p]
  <2>1. round[p] \in Nat \ {0} /\ round[p] \notin 1 .. Rounds
    BY DEF Finish, IInv, Shape, Slots
  <2> QED
    BY <2>1, RoundsAssumption DEF Later, Slots
<1>7. ASSUME NEW k \in Later(p), Born(Child(p, k))
      PROVE  Dead(Child(p, k))' \/ Child(p, k) \in stopped'
  <2>1. Dead(Child(p, k)) \/ Child(p, k) \in stopped
    BY <1>1, <1>6, <1>7 DEF IInv, WaitsOK
  <2> QED
    BY <1>1, <1>3, <2>1, ChildNames DEF Dead
<1>8. BirthsOK' /\ PidsOK' /\ WaitsOK'
  BY <1>1, <1>5, <1>7, MoveKeeps
<1> QED
  BY <1>2, <1>4, <1>8 DEF IInv

-----------------------------------------------------------------------------
(* The theorems                                                              *)

\* The invariant holds in every state of every behaviour of the launcher.
THEOREM InvariantHolds == Spec => []IInv
<1>1. Init => IInv
  BY InitIInv
<1>2. IInv /\ [Next]_vars => IInv'
  <2> SUFFICES ASSUME IInv, [Next]_vars
               PROVE  IInv'
    OBVIOUS
  <2>1. ASSUME NEW p \in Processes, Step(p) PROVE IInv'
    BY <2>1, ForkKeeps, ForkFailsKeeps, StartWaitingKeeps, WaitNextKeeps, FinishKeeps,
       ChildKeeps DEF Step
  <2>2. CASE UNCHANGED vars
    BY <2>2 DEF vars, signals, jobs, IInv, Shape, LinesOK, BirthsOK, PidsOK, WaitsOK,
       NewsOK, Born, Dead, Later
  <2> QED
    BY <2>1, <2>2, RingKeeps, StopKeeps DEF Next
<1> QED
  BY <1>1, <1>2, PTL DEF Spec

\* No process ends before its children, but for those that were stopped: whatever the
\* file, whatever fails, and in whatever order the children end.
THEOREM ChildrenEndFirst == Spec => []NobodyIsOrphaned
<1>1. IInv => NobodyIsOrphaned
  <2> SUFFICES ASSUME IInv, NEW p \in Processes, ~Alive(p),
                      NEW c \in Children(p) \ stopped
               PROVE  ~Alive(c)
    BY DEF NobodyIsOrphaned
  <2>1. PICK k \in Later(p) : c = Child(p, k) /\ Born(c)
    BY DEF Children, Born
  <2>2. Dead(p)
    BY <2>1 DEF IInv, BirthsOK, Alive, Dead
  <2>3. Dead(c)
    BY <2>1, <2>2 DEF IInv, WaitsOK
  <2> QED
    BY <2>3 DEF Alive, Dead
<1> QED
  BY <1>1, InvariantHolds, PTL

-----------------------------------------------------------------------------
(* How often a line is repeated                                              *)

\* The lines a process was forked for, the last one excepted, could not be executed; nor
\* could the last one when the process is in the loop.
FailuresOK ==
  \A p \in Processes : Born(p) =>
    /\ \A n \in p : (\E m \in p : n < m) => n \in Broken
    /\ pc[p] = "loop" => p \subseteq Broken
    /\ pc[p] \in Young => round[p] \in p

\* A step that forks no one and fails to execute nothing.
LEMMA OthersKeepFailures ==
  ASSUME FailuresOK,
         \A q \in Processes :
           /\ Born(q)' => Born(q)
           /\ pc'[q] = "loop" => pc[q] = "loop"
           /\ pc'[q] \in Young => pc[q] \in Young /\ round'[q] = round[q]
  PROVE  FailuresOK'
BY DEF FailuresOK

\* The child of a process in the loop.
LEMMA ForkKeepsFailures ==
  ASSUME IInv, FailuresOK, NEW p \in Processes, Fork(p)
  PROVE  FailuresOK'
<1> DEFINE r == round[p]
           c == Child(p, r)
<1>1. r \in Later(p) /\ r \in Nat /\ c \in Processes /\ c # p
  BY ChildNames DEF Fork, IInv, LinesOK, Later, Shape
<1>2. /\ pc[p] = "loop" /\ p \subseteq Broken
      /\ pc' = [pc EXCEPT ![c] = "born"]
      /\ round' = [round EXCEPT ![p] = @ + 1, ![c] = r]
  BY DEF Fork, FailuresOK, Born
<1>3. /\ pc'[c] = "born" /\ round'[c] = r /\ pc'[p] = "loop"
      /\ \A q \in Processes \ {p, c} : pc'[q] = pc[q] /\ round'[q] = round[q]
  BY <1>1, <1>2 DEF Shape, IInv
<1>4. \A n \in p : n \in Nat /\ n < r
  BY <1>1, RoundsAssumption DEF Later, Processes, Slots
<1>5. r \in c /\ \A n \in c : (\E m \in c : n < m) => n \in Broken
  BY <1>1, <1>2, <1>4 DEF Child
<1> HIDE DEF c, r
<1> SUFFICES ASSUME NEW q \in Processes, Born(q)'
             PROVE  /\ \A n \in q : (\E m \in q : n < m) => n \in Broken
                    /\ pc'[q] = "loop" => q \subseteq Broken
                    /\ pc'[q] \in Young => round'[q] \in q
  BY DEF FailuresOK, Young
<1>6. CASE q = c
  BY <1>3, <1>5, <1>6
<1>7. CASE q = p
  BY <1>2, <1>3, <1>7 DEF Young
<1>8. CASE q \notin {p, c}
  BY <1>3, <1>8 DEF FailuresOK, Born
<1> QED
  BY <1>6, <1>7, <1>8

\* The line of a child is the last of its lines.
LEMMA ExecKeepsFailures ==
  ASSUME IInv, FailuresOK, NEW p \in Processes, Exec(p)
  PROVE  FailuresOK'
<1>1. /\ pc[p] = "exec" /\ Born(p) /\ round[p] \in p /\ \A n \in p : n <= round[p]
      /\ \A n \in p : (\E m \in p : n < m) => n \in Broken
  BY DEF Exec, IInv, LinesOK, FailuresOK, Young, Born
<1>2. \A n \in p : n \in Nat
  BY RoundsAssumption DEF Processes, Slots
<1>3. CASE Line(p) \notin Broken
  BY <1>1, <1>3, OthersKeepFailures DEF Exec, IInv, Shape, Born, Young
<1>4. CASE Line(p) \in Broken
  <2>1. p \subseteq Broken
    BY <1>1, <1>2, <1>4 DEF Line
  <2>2. /\ pc'[p] = "loop"
        /\ \A q \in Processes \ {p} : pc'[q] = pc[q] /\ round'[q] = round[q]
    BY <1>4 DEF Exec, IInv, Shape
  <2> QED
    BY <1>1, <2>1, <2>2 DEF FailuresOK, Born, Young
<1> QED
  BY <1>3, <1>4

LEMMA NextFailures ==
  ASSUME IInv, FailuresOK, [Next]_vars
  PROVE  FailuresOK'
<1> USE DEF Born, Young
<1>1. /\ \A q \in Processes : pc[q] = pc[q] /\ round[q] = round[q]
      /\ pc = [q \in Processes |-> pc[q]] /\ round = [q \in Processes |-> round[q]]
  BY DEF IInv, Shape
<1>2. ASSUME NEW p \in Processes, Step(p)
      PROVE  FailuresOK'
  <2>1. CASE Fork(p)
    BY <2>1, ForkKeepsFailures
  <2>2. CASE ForkFails(p)
    BY <1>1, <2>2, OthersKeepFailures DEF ForkFails
  <2>3. CASE StartWaiting(p) \/ Finish(p)
    BY <1>1, <2>3, OthersKeepFailures DEF StartWaiting, Finish
  <2>4. CASE WaitNext(p)
    <3>1. \A q \in Processes :
            /\ pc'[q] = pc[q] \/ pc'[q] = "gone"
            /\ round'[q] = round[q] \/ pc'[q] = "wait" \/ pc'[q] = "gone"
            /\ pc'[q] = "gone" => pc[q] \in {"zombie", "gone"}
      BY <1>1, <2>4 DEF WaitNext, Reap, TakeNews, jobs
    <3> QED
      BY <3>1, OthersKeepFailures
  <2>5. CASE Kill(p) \/ SigWait(p) \/ Pause(p)
    BY <1>1, <2>5, OthersKeepFailures DEF Kill, SigWait, Pause
  <2>6. CASE Report(p) \/ Exit(p)
    BY <1>1, <2>6, OthersKeepFailures DEF Report, Exit
  <2>7. CASE Exec(p)
    BY <2>7, ExecKeepsFailures
  <2> QED
    BY <1>2, <2>1, <2>2, <2>3, <2>4, <2>5, <2>6, <2>7 DEF Step
<1>3. ASSUME NEW p \in Processes, Ring(p) \/ StopOrContinue(p)
      PROVE  FailuresOK'
  BY <1>1, <1>3, OthersKeepFailures DEF Ring, StopOrContinue
<1>4. CASE UNCHANGED vars
  BY <1>4, OthersKeepFailures DEF vars
<1> QED
  BY <1>2, <1>3, <1>4 DEF Next

\* A child of a line is told by its other lines, a set of earlier ones that all failed.
LEMMA FailuresCount ==
  ASSUME FailuresOK, NEW k \in Slots
  PROVE  Cardinality({ p \in Processes : pc[p] # "unborn" /\ k \in p /\ \A n \in p : n <= k })
           <= 2 ^ Cardinality({ n \in Broken : n < k })
<1> DEFINE S == { p \in Processes : pc[p] # "unborn" /\ k \in p /\ \A n \in p : n <= k }
           B == { n \in Broken : n < k }
           f == [p \in S |-> p \ {k}]
<1>1. IsFiniteSet(B)
  <2>1. IsFiniteSet(Slots)
    BY RoundsAssumption, FS_Interval DEF Slots
  <2>2. B \in SUBSET Slots
    BY BrokenAssumption
  <2> QED
    BY <2>1, <2>2, FS_Subset
<1>2. \A p \in S : f[p] \in SUBSET B
  <2> SUFFICES ASSUME NEW p \in S, NEW n \in p \ {k}
               PROVE  n \in Broken /\ n < k
    OBVIOUS
  <2>1. n \in Nat /\ k \in Nat /\ n <= k /\ n # k /\ k \in p
    BY RoundsAssumption DEF Processes, Slots
  <2>2. n < k
    BY <2>1
  <2> QED
    BY <2>1, <2>2 DEF FailuresOK, Born
<1>3. \A p, q \in S : f[p] = f[q] => p = q
  <2>1. \A p \in S : p = f[p] \cup {k}
    OBVIOUS
  <2> HIDE DEF S, f
  <2> QED
    BY <2>1
<1>4. f \in Injection(S, SUBSET B)
  <2>1. f \in [S -> SUBSET B]
    BY <1>2
  <2> QED
    BY <1>3, <2>1, Fun_IsInj
<1> HIDE DEF S, B, f
<1>5. IsFiniteSet(SUBSET B) /\ Cardinality(SUBSET B) = 2 ^ Cardinality(B)
  BY <1>1, FS_SUBSET
<1>6. Cardinality(S) <= Cardinality(SUBSET B)
  BY <1>4, <1>5, FS_Injection
<1>7. Cardinality(S) <= 2 ^ Cardinality(B)
  BY <1>5, <1>6
<1> QED
  BY <1>7 DEF S, B

\* A line is repeated once for each set of earlier lines whose programs could not be
\* executed: only a failed exec brings a child back into the loop it was forked in.
THEOREM RepeatsAreBounded == Spec => []RepeatsComeFromFailures
<1>1. Init => FailuresOK
  BY DEF Init, FailuresOK, Born, Young, First
<1>2. FailuresOK => RepeatsComeFromFailures
  BY FailuresCount DEF RepeatsComeFromFailures
<1> QED
  BY <1>1, <1>2, NextFailures, InvariantHolds, PTL DEF Spec
=============================================================================
