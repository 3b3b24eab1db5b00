-------------------------- MODULE JobSchedulerProofs -------------------------
(***************************************************************************)
(* Theorems about JobScheduler, for scripts of any length.                 *)
(***************************************************************************)
EXTENDS JobScheduler, FiniteSetTheorems, WellFoundedInduction, TLAPS

-----------------------------------------------------------------------------
(* One ring                                                                  *)

\* nx and pv lead around the jobs of R, in one circle: a part of R that is not left
\* by following nx is all of R.
Circle(R, nx, pv) ==
  /\ \A j \in R : nx[j] \in R /\ pv[j] \in R /\ pv[nx[j]] = j /\ nx[pv[j]] = j
  /\ \A S \in SUBSET R : S # {} /\ (\A j \in S : nx[j] \in S) => S = R

\* jobs_del closes the circle behind the job it takes out.
LEMMA DeleteKeepsCircle ==
  ASSUME NEW R \in SUBSET Jobs, NEW nx \in [Jobs -> Jobs], NEW pv \in [Jobs -> Jobs],
         Circle(R, nx, pv), NEW j \in R
  PROVE  /\ pv[j] = j => R = {j}
         /\ Circle(R \ {j}, [nx EXCEPT ![pv[j]] = nx[j]], [pv EXCEPT ![nx[j]] = pv[j]])
<1> DEFINE p  == pv[j]
           n  == nx[j]
           Q  == R \ {j}
           nx1 == [nx EXCEPT ![p] = n]
           pv1 == [pv EXCEPT ![n] = p]
<1>1. \A x \in R : nx[x] \in R /\ pv[x] \in R /\ pv[nx[x]] = x /\ nx[pv[x]] = x
  BY DEF Circle
<1>2. ASSUME NEW S \in SUBSET R, S # {}, \A x \in S : nx[x] \in S
      PROVE  S = R
  BY <1>2 DEF Circle
<1>3. ASSUME p = j
      PROVE  R = {j}
  <2>1. nx[j] = j
    BY <1>1, <1>3
  <2>2. {j} \in SUBSET R /\ {j} # {} /\ \A x \in {j} : nx[x] \in {j}
    BY <2>1
  <2> QED
    BY <1>2, <2>2
<1>4. CASE p = j
  BY <1>3, <1>4 DEF Circle
<1>5. CASE p # j
  <2>1. p \in Q /\ n \in Q
    BY <1>1, <1>5
  <2>2. \A x \in Q : nx1[x] \in Q /\ pv1[x] \in Q /\ pv1[nx1[x]] = x /\ nx1[pv1[x]] = x
    <3> SUFFICES ASSUME NEW x \in Q
                 PROVE  nx1[x] \in Q /\ pv1[x] \in Q /\ pv1[nx1[x]] = x /\ nx1[pv1[x]] = x
      OBVIOUS
    <3>1. x \in R /\ x \in Jobs /\ p \in Jobs /\ n \in Jobs
      BY <2>1
    <3>2. nx1[x] = (IF x = p THEN n ELSE nx[x]) /\ pv1[x] = (IF x = n THEN p ELSE pv[x])
      BY <3>1
    <3>3. x # p => nx[x] \in Q /\ nx[x] # n
      BY <1>1, <3>1
    <3>4. x # n => pv[x] \in Q /\ pv[x] # p
      BY <1>1, <3>1
    <3>5. pv1[nx1[x]] = x
      BY <1>1, <2>1, <3>1, <3>2, <3>3
    <3>6. nx1[pv1[x]] = x
      BY <1>1, <2>1, <3>1, <3>2, <3>4
    <3> QED
      BY <2>1, <3>2, <3>3, <3>4, <3>5, <3>6
  <2>3. ASSUME NEW S \in SUBSET Q, S # {}, \A x \in S : nx1[x] \in S
        PROVE  S = Q
    <3>1. \A x \in S : x # p => nx[x] \in S
      BY <2>3
    <3>2. CASE p \in S
      <4>1. nx1[p] = n
        BY <2>1
      <4>2. n \in S
        BY <2>3, <3>2, <4>1
      <4>3. nx[p] = j
        BY <1>1
      <4>4. \A x \in S \cup {j} : nx[x] \in S \cup {j}
        BY <3>1, <4>2, <4>3
      <4>5. S \cup {j} \in SUBSET R /\ S \cup {j} # {}
        OBVIOUS
      <4>6. S \cup {j} = R
        BY <1>2, <4>4, <4>5
      <4> QED
        BY <4>6
    <3>3. CASE p \notin S
      BY <1>2, <2>3, <3>1, <3>3
    <3> QED
      BY <3>2, <3>3
  <2> QED
    BY <1>5, <2>2, <2>3 DEF Circle
<1> QED
  BY <1>3, <1>4, <1>5

\* jobs_add opens the circle in front of the active job.
LEMMA AddKeepsCircle ==
  ASSUME NEW R \in SUBSET Jobs, NEW nx \in [Jobs -> Jobs], NEW pv \in [Jobs -> Jobs],
         Circle(R, nx, pv), NEW a \in R, NEW j \in Jobs \ R
  PROVE  Circle(R \cup {j}, [nx EXCEPT ![pv[a]] = j, ![j] = a],
                            [pv EXCEPT ![a] = j, ![j] = pv[a]])
<1> DEFINE p == pv[a]
           Q == R \cup {j}
           nx1 == [nx EXCEPT ![p] = j, ![j] = a]
           pv1 == [pv EXCEPT ![a] = j, ![j] = p]
<1>1. \A x \in R : nx[x] \in R /\ pv[x] \in R /\ pv[nx[x]] = x /\ nx[pv[x]] = x
  BY DEF Circle
<1>2. ASSUME NEW S \in SUBSET R, S # {}, \A x \in S : nx[x] \in S
      PROVE  S = R
  BY <1>2 DEF Circle
<1>3. p \in R /\ p # j /\ a # j /\ nx[p] = a
  BY <1>1
<1>4. \A x \in Q : /\ nx1[x] = (IF x = j THEN a ELSE IF x = p THEN j ELSE nx[x])
                   /\ pv1[x] = (IF x = j THEN p ELSE IF x = a THEN j ELSE pv[x])
  BY <1>3
<1>5. \A x \in Q : nx1[x] \in Q /\ pv1[x] \in Q /\ pv1[nx1[x]] = x /\ nx1[pv1[x]] = x
  <2> SUFFICES ASSUME NEW x \in Q
               PROVE  nx1[x] \in Q /\ pv1[x] \in Q /\ pv1[nx1[x]] = x /\ nx1[pv1[x]] = x
    OBVIOUS
  <2> HIDE DEF nx1, pv1
  <2>1. nx1[x] \in Q /\ pv1[x] \in Q
    BY <1>1, <1>3, <1>4
  <2>2. pv1[nx1[x]] = x
    <3>1. x \in R /\ x # p => nx[x] # a /\ nx[x] \in R /\ nx[x] # j
      BY <1>1
    <3> QED
      BY <1>1, <1>3, <1>4, <3>1
  <2>3. nx1[pv1[x]] = x
    <3>1. x \in R /\ x # a => pv[x] # p /\ pv[x] \in R /\ pv[x] # j
      BY <1>1
    <3> QED
      BY <1>1, <1>3, <1>4, <3>1
  <2> QED
    BY <2>1, <2>2, <2>3
<1>6. ASSUME NEW S \in SUBSET Q, S # {}, \A x \in S : nx1[x] \in S
      PROVE  S = Q
  <2> HIDE DEF nx1, pv1
  <2>1. CASE j \in S
    <3>1. a \in S
      BY <1>4, <1>6, <2>1
    <3>2. \A x \in S \ {j} : nx[x] \in S \ {j}
      BY <1>1, <1>3, <1>4, <1>6, <3>1
    <3>3. S \ {j} = R
      BY <1>2, <1>3, <3>1, <3>2
    <3> QED
      BY <2>1, <3>3
  <2>2. CASE j \notin S
    <3>1. p \notin S
      BY <1>3, <1>4, <1>6, <2>2
    <3>2. \A x \in S : nx[x] \in S
      BY <1>4, <1>6, <2>2, <3>1
    <3>3. S = R
      BY <1>2, <1>6, <2>2, <3>2
    <3> QED
      BY <1>3, <3>1, <3>3
  <2> QED
    BY <2>1, <2>2
<1> QED
  BY <1>5, <1>6 DEF Circle

-----------------------------------------------------------------------------
(* The invariant                                                             *)

\* The jobs of the ring are the children that have not been waited for.
RingOK ==
  /\ Circle(Children, next, prev)
  /\ count = Cardinality(Children)
  /\ active = NoJob => Children = {}
  /\ active # NoJob => active \in Children

\* Who is sent SIGUSR1 sleeps, and nothing runs before the start.
SignalsOK ==
  /\ \A j \in Jobs : signo[j] = "USR1" => job[j] \in {"none", "waiting"}
  /\ pc \in {"launch", "start"} => \A j \in Jobs : job[j] \in {"none", "waiting"}
  /\ \A j \in Jobs : j >= line => job[j] = "none"
  /\ pc \in {"wait", "stop", "resume"} => active # NoJob

Running == In("running")
Reaped  == In("reaped")

\* Every job that runs, except for one that is about to be stopped, is paid for by one
\* that was reaped; and so is the one that is started in place of being stopped.
Settled ==
  \/ /\ active \in Jobs
     /\ signo[active] = "STOP"
     /\ Cardinality(Running \ {active}) <= Cardinality(Reaped)
  \/ Cardinality(Running) + 1 <= Cardinality(Reaped)

DebtOK ==
  /\ pc \in {"loop", "wait", "stop"} => Settled
  /\ pc = "resume" => Cardinality(Running) <= Cardinality(Reaped)
  /\ pc \in {"finished", "crashed"} => Cardinality(Running) <= 1 + Cardinality(Reaped)

IInv == TypeOK /\ RingOK /\ SignalsOK /\ DebtOK

-----------------------------------------------------------------------------
(* Counting                                                                  *)

\* A script has so many lines and no more.
LEMMA JobsAreFinite == IsFiniteSet(Jobs)
BY LinesAssumption, FS_Interval DEF Jobs

\* The null pointer points to no job.
LEMMA NoJobIsNone == NoJob \notin Jobs
BY LinesAssumption DEF Jobs, NoJob

\* A smaller set of jobs has fewer elements.
LEMMA CountMonotone ==
  ASSUME NEW S \in SUBSET Jobs, NEW T \in SUBSET S
  PROVE  /\ Cardinality(S) \in Nat /\ Cardinality(T) \in Nat
         /\ Cardinality(T) <= Cardinality(S)
BY JobsAreFinite, FS_Subset, FS_CardinalityType

\* One more job counts one more.
LEMMA CountAdd ==
  ASSUME NEW S \in SUBSET Jobs, NEW j \in Jobs
  PROVE  /\ Cardinality(S) \in Nat
         /\ Cardinality(S \cup {j}) = IF j \in S THEN Cardinality(S) ELSE Cardinality(S) + 1
<1>1. IsFiniteSet(S)
  BY JobsAreFinite, FS_Subset
<1> QED
  BY <1>1, FS_AddElement, FS_CardinalityType

\* One job less counts one less.
LEMMA CountRemove ==
  ASSUME NEW S \in SUBSET Jobs, NEW j \in S
  PROVE  /\ Cardinality(S) \in Nat
         /\ Cardinality(S \ {j}) = Cardinality(S) - 1
<1>1. IsFiniteSet(S)
  BY JobsAreFinite, FS_Subset
<1> QED
  BY <1>1, FS_RemoveElement, FS_CardinalityType

\* No job counts nothing.
LEMMA NoneCounted == Cardinality({}) = 0
BY FS_EmptySet

-----------------------------------------------------------------------------
(* The walk around the ring                                                  *)

lt == OpToRel(<, Nat)

\* The order of the numbers, as a relation, is well-founded.
LEMMA LtIs == \A x, y \in Nat : <<x, y>> \in lt <=> x < y
BY DEF lt, OpToRel

\* Of numbers there is always a least one.
LEMMA Least ==
  ASSUME NEW T \in SUBSET Nat, T # {}
  PROVE  \E x \in T : \A y \in T : x <= y
<1>1. IsWellFoundedOn(lt, Nat)
  BY NatLessThanWellFounded DEF lt, OpToRel
<1>2. PICK x \in T : \A y \in T : ~(<<y, x>> \in lt)
  BY <1>1, WFMin
<1>3. \A y \in T : ~(y < x)
  BY <1>2, LtIs
<1> QED BY <1>3

\* Induction, for a set of numbers.
LEMMA SetInduction ==
  ASSUME NEW T, 0 \in T, \A n \in Nat : n \in T => n + 1 \in T
  PROVE  Nat \subseteq T
<1> DEFINE U == Nat \ T
<1> SUFFICES ASSUME U # {} PROVE FALSE
  OBVIOUS
<1>1. PICK x \in U : \A y \in U : x <= y
  BY Least
<1>2. x - 1 \in Nat /\ x - 1 \notin U
  BY <1>1
<1> QED BY <1>1, <1>2

\* g follows nx from a.
IsWalk(g, a, nx) == g = [i \in Nat |-> IF i = 0 THEN a ELSE nx[g[i - 1]]]

\* The walks of n steps.
Starts(n, a, nx) == { h \in [0..n -> Jobs] : h[0] = a /\ \A i \in 1..n : h[i] = nx[h[i - 1]] }

\* There is such a walk: the definition of At defines something.
LEMMA WalkExists ==
  ASSUME NEW a \in Jobs, NEW nx \in [Jobs -> Jobs]
  PROVE  \E g \in [Nat -> Jobs] : IsWalk(g, a, nx)
<1> DEFINE W(n) == Starts(n, a, nx)
<1>1. \A n \in Nat : W(n) # {}
  <2> DEFINE T == { n \in Nat : W(n) # {} }
  <2>1. 0 \in T
    <3>1. [i \in 0..0 |-> a] \in W(0)
      BY DEF Starts
    <3> QED BY <3>1
  <2>2. ASSUME NEW n \in Nat, n \in T
        PROVE  n + 1 \in T
    <3>1. PICK h \in W(n) : TRUE
      BY <2>2
    <3>2. h \in [0..n -> Jobs] /\ h[0] = a /\ \A i \in 1..n : h[i] = nx[h[i - 1]]
      BY <3>1 DEF Starts
    <3> DEFINE k == [i \in 0..(n + 1) |-> IF i = n + 1 THEN nx[h[n]] ELSE h[i]]
    <3>3. k \in [0..(n + 1) -> Jobs] /\ k[0] = a
      BY <3>2
    <3>4. ASSUME NEW i \in 1..(n + 1)
          PROVE  k[i] = nx[k[i - 1]]
      BY <3>2
    <3>5. k \in W(n + 1)
      BY <3>3, <3>4 DEF Starts
    <3> QED BY <3>5
  <2> HIDE DEF T
  <2>3. Nat \subseteq T
    BY <2>1, <2>2, SetInduction
  <2> QED BY <2>3 DEF T
<1>2. \A i \in Nat : \A m, n \in Nat : i <= m /\ i <= n =>
        \A h \in W(m), k \in W(n) : h[i] = k[i]
  <2> DEFINE Agree(i) == \A m, n \in Nat : i <= m /\ i <= n =>
                           \A h \in W(m), k \in W(n) : h[i] = k[i]
             T == { i \in Nat : Agree(i) }
  <2>1. 0 \in T
    BY DEF Starts
  <2>2. ASSUME NEW i \in Nat, i \in T
        PROVE  i + 1 \in T
    <3> SUFFICES ASSUME NEW m \in Nat, NEW n \in Nat, i + 1 <= m, i + 1 <= n,
                        NEW h \in W(m), NEW k \in W(n)
                 PROVE  h[i + 1] = k[i + 1]
      OBVIOUS
    <3>1. h[i] = k[i]
      BY <2>2
    <3>2. h[i + 1] = nx[h[(i + 1) - 1]] /\ k[i + 1] = nx[k[(i + 1) - 1]]
      BY DEF Starts
    <3> QED BY <3>1, <3>2
  <2> HIDE DEF T
  <2>3. Nat \subseteq T
    BY <2>1, <2>2, SetInduction
  <2> QED BY <2>3 DEF T
<1> DEFINE start[n \in Nat] == CHOOSE h \in W(n) : TRUE
           g == [n \in Nat |-> start[n][n]]
<1>3. \A n \in Nat : start[n] \in W(n)
  BY <1>1
<1> HIDE DEF start
<1>4. \A n \in Nat : g[n] \in Jobs
  BY <1>3 DEF Starts
<1>5. g[0] = a
  BY <1>3 DEF Starts
<1>6. ASSUME NEW n \in Nat, n # 0
      PROVE  g[n] = nx[g[n - 1]]
  <2>1. n - 1 \in Nat /\ n - 1 <= n /\ n \in 1..n
    BY <1>6
  <2>2. start[n][n] = nx[start[n][n - 1]]
    BY <1>3, <2>1 DEF Starts
  <2>3. start[n][n - 1] = start[n - 1][n - 1]
    BY <1>2, <1>3, <2>1
  <2> QED BY <2>1, <2>2, <2>3
<1>7. g = [i \in Nat |-> IF i = 0 THEN a ELSE nx[g[i - 1]]]
  BY <1>5, <1>6
<1> QED
  BY <1>4, <1>7 DEF IsWalk

\* A walk around a circle is back at its start only when it has met every job.
LEMMA WalkMeetsAll ==
  ASSUME NEW R \in SUBSET Jobs, NEW nx \in [Jobs -> Jobs], NEW pv \in [Jobs -> Jobs],
         Circle(R, nx, pv), NEW a \in R, NEW g, IsWalk(g, a, nx)
  PROVE  { g[i] : i \in 0..(Cardinality(R) - 1) } = R
<1> DEFINE Met(n) == { g[i] : i \in 0..(n - 1) }
           T == { n \in Nat : /\ g[n] \in R /\ Met(n) \subseteq R
                              /\ Met(n) = R \/ Cardinality(Met(n)) = n }
<1>1. g[0] = a /\ \A n \in Nat : g[n + 1] = nx[g[n]]
  <2>1. \A i \in Nat : g[i] = IF i = 0 THEN a ELSE nx[g[i - 1]]
    BY DEF IsWalk
  <2> QED BY <2>1
<1>2. 0 \in T
  <2>1. Met(0) = {}
    OBVIOUS
  <2> QED BY <1>1, <2>1, NoneCounted
<1>3. ASSUME NEW n \in Nat, n \in T
      PROVE  n + 1 \in T
  <2>1. g[n] \in R /\ Met(n) \subseteq R /\ (Met(n) = R \/ Cardinality(Met(n)) = n)
    BY <1>3
  <2>2. Met(n + 1) = Met(n) \cup {g[n]}
    OBVIOUS
  <2>3. g[n + 1] \in R
    BY <1>1, <2>1 DEF Circle
  <2>4. Met(n + 1) = R \/ Cardinality(Met(n + 1)) = n + 1
    <3>1. CASE Met(n) = R
      BY <2>1, <2>2, <3>1
    <3>2. CASE Met(n) # R /\ g[n] \in Met(n)
      <4>1. ASSUME NEW x \in Met(n)
            PROVE  nx[x] \in Met(n)
        <5>1. PICK i \in 0..(n - 1) : x = g[i]
          OBVIOUS
        <5>2. nx[x] = g[i + 1] /\ i + 1 \in 0..n
          BY <1>1, <5>1
        <5>3. CASE i + 1 = n
          BY <3>2, <5>2, <5>3
        <5>4. CASE i + 1 # n
          <6>1. i + 1 \in 0..(n - 1)
            BY <5>4
          <6> QED BY <5>2, <6>1
        <5> QED BY <5>3, <5>4
      <4>2. Met(n) \in SUBSET R /\ Met(n) # {}
        BY <2>1, <3>2
      <4> HIDE DEF Met
      <4> QED BY <3>2, <4>1, <4>2 DEF Circle
    <3>3. CASE Cardinality(Met(n)) = n /\ g[n] \notin Met(n)
      <4>1. Met(n) \in SUBSET Jobs /\ g[n] \in Jobs
        BY <2>1
      <4> HIDE DEF Met
      <4> QED BY <2>2, <3>3, <4>1, CountAdd
    <3> QED BY <2>1, <3>1, <3>2, <3>3
  <2>5. Met(n + 1) \subseteq R
    BY <2>1, <2>2
  <2> QED BY <2>3, <2>4, <2>5
<1>4. Cardinality(R) \in T
  <2> HIDE DEF T
  <2>1. Nat \subseteq T
    BY <1>2, <1>3, SetInduction
  <2> QED BY <2>1, CountMonotone
<1>5. IsFiniteSet(R)
  BY JobsAreFinite, FS_Subset
<1> DEFINE M == Met(Cardinality(R))
<1>6. M \in SUBSET R /\ (M = R \/ Cardinality(M) = Cardinality(R))
  BY <1>4
<1>7. M = R
  <2> HIDE DEF M
  <2> QED BY <1>5, <1>6, FS_Subset
<1> QED BY <1>7

\* What At computes.
LEMMA AtIsWalk ==
  ASSUME TypeOK, active \in Jobs
  PROVE  IsWalk(At, active, next)
<1>1. \E g : g = [i \in Nat |-> IF i = 0 THEN active ELSE next[g[i - 1]]]
  <2>1. next \in [Jobs -> Jobs]
    BY DEF TypeOK
  <2>2. \E g \in [Nat -> Jobs] : IsWalk(g, active, next)
    BY <2>1, WalkExists
  <2> QED BY <2>2 DEF IsWalk
<1>2. At = CHOOSE g : g = [i \in Nat |-> IF i = 0 THEN active ELSE next[g[i - 1]]]
  BY DEF At
<1> QED BY <1>1, <1>2 DEF IsWalk

\* jobs_del_pid's walk meets the children, all of them and nobody else.
LEMMA WalkMeetsChildren ==
  ASSUME TypeOK, RingOK
  PROVE  { At[i] : i \in 0..(count - 1) } = Children
<1>1. CASE active = NoJob
  BY <1>1, NoneCounted DEF RingOK
<1>2. CASE active # NoJob
  <2>1. /\ active \in Children /\ Children \in SUBSET Jobs
        /\ next \in [Jobs -> Jobs] /\ prev \in [Jobs -> Jobs]
        /\ Circle(Children, next, prev)
    BY <1>2 DEF TypeOK, RingOK, Children
  <2>2. IsWalk(At, active, next)
    BY <2>1, AtIsWalk
  <2> QED
    BY <2>1, <2>2, WalkMeetsAll DEF RingOK
<1> QED
  BY <1>1, <1>2

\* No child that wait returns is searched for in vain.
LEMMA EveryChildIsFound ==
  ASSUME TypeOK, RingOK, NEW j \in Children
  PROVE  Found(j)
<1>1. PICK i \in 0..(count - 1) : At[i] = j
  BY WalkMeetsChildren
<1>2. count \in Nat /\ count <= Lines
  <2>1. Cardinality(Jobs) = Lines
    BY LinesAssumption, FS_Interval DEF Jobs
  <2>2. Jobs \in SUBSET Jobs /\ Children \in SUBSET Jobs
    BY DEF Children
  <2> QED
    BY <2>1, <2>2, CountMonotone DEF RingOK
<1>3. i \in 0..Lines /\ i < count
  BY <1>1, <1>2, LinesAssumption
<1> QED
  BY <1>1, <1>3 DEF Found

-----------------------------------------------------------------------------
(* One step at a time                                                        *)

\* At first there are no jobs.
LEMMA InitIInv == Init => IInv
<1> SUFFICES ASSUME Init
             PROVE  IInv
  OBVIOUS
<1>1. TypeOK
  <2>1. 1 \in 1..(Lines + 1) /\ count \in Nat
    BY LinesAssumption DEF Init
  <2> QED
    BY <2>1 DEF Init, TypeOK
<1>2. RingOK
  <2>1. Children = {}
    BY DEF Init, Children
  <2> QED
    BY <2>1, NoneCounted DEF Init, RingOK, Circle
<1>3. SignalsOK /\ DebtOK
  BY DEF Init, SignalsOK, DebtOK
<1> QED
  BY <1>1, <1>2, <1>3 DEF IInv

\* launch_programs: a job joins the ring.
LEMMA LaunchIInv ==
  ASSUME IInv, LaunchProgram
  PROVE  IInv'
<1>1. PICK R \in SUBSET Jobs : R = Children
  BY DEF Children
<1>2. /\ TypeOK /\ SignalsOK /\ RingOK /\ line \in Jobs /\ line \notin R /\ pc = "launch"
  BY <1>1, LinesAssumption DEF IInv, LaunchProgram, NextLine, SignalsOK, Children, Jobs
<1>3. /\ line' = line + 1 /\ pc' = "launch"
      /\ job' = [job EXCEPT ![line] = "waiting"]
      /\ signo' = [signo EXCEPT ![line] = "USR1"]
      /\ UNCHANGED schedule
      /\ Add(line)
  BY <1>2 DEF LaunchProgram, NextLine
<1>4. PICK Q \in SUBSET Jobs : Q = R \cup {line} /\ Q = Children'
  BY <1>1, <1>2, <1>3, ZenonT(40) DEF Children, TypeOK
<1>5. count' = Cardinality(Q) /\ count' \in Nat
  BY <1>1, <1>2, <1>3, <1>4, CountAdd DEF Add, RingOK
<1>6. Circle(Q, next', prev') /\ active' \in Q
  <2>1. CASE active = NoJob
    <3>1. /\ R = {} /\ Q = {line}
          /\ next'[line] = line /\ prev'[line] = line /\ active' = line
      BY <1>1, <1>2, <1>3, <1>4, <2>1, NoJobIsNone, ZenonT(40) DEF Add, RingOK, TypeOK
    <3> QED
      BY <3>1 DEF Circle
  <2>2. CASE active # NoJob
    BY <1>1, <1>2, <1>3, <1>4, <2>2, AddKeepsCircle DEF Add, RingOK, TypeOK
  <2> QED
    BY <2>1, <2>2
<1>7. next' \in [Jobs -> Jobs] /\ prev' \in [Jobs -> Jobs]
  <2>1. active # NoJob => active \in Jobs /\ prev[active] \in Jobs
    BY <1>2 DEF TypeOK
  <2> QED
    BY <1>2, <1>3, <2>1 DEF Add, TypeOK
<1>8. TypeOK'
  <2>1. line' \in 1..(Lines + 1)
    BY <1>2, <1>3, LinesAssumption DEF Jobs
  <2> QED
    BY <1>2, <1>3, <1>5, <1>6, <1>7, <2>1 DEF TypeOK
<1>9. RingOK'
  <2>1. active' # NoJob
    BY <1>6, NoJobIsNone
  <2> QED
    BY <1>4, <1>5, <1>6, <2>1 DEF RingOK
<1>10. SignalsOK' /\ DebtOK'
  <2>1. \A j \in Jobs : /\ job'[j] = (IF j = line THEN "waiting" ELSE job[j])
                        /\ signo'[j] = (IF j = line THEN "USR1" ELSE signo[j])
    BY <1>2, <1>3 DEF TypeOK
  <2>2. \A j \in Jobs : j >= line' => j # line /\ j >= line
    BY <1>2, <1>3, LinesAssumption DEF Jobs
  <2> QED
    BY <1>2, <1>3, <2>1, <2>2 DEF SignalsOK, DebtOK
<1> QED
  BY <1>8, <1>9, <1>10 DEF IInv

\* A step that leaves the ring alone, launches nobody and waits for nobody.
LEMMA RingStays ==
  ASSUME RingOK, UNCHANGED ring, Children' = Children
  PROVE  RingOK'
BY DEF RingOK, ring

\* What kill does to the processes, and to the signals still to be sent.
LEMMA KillEffect ==
  ASSUME TypeOK, SignalsOK, NEW a \in Jobs, NEW following \in {"STOP", "CONT"},
         job' = [job EXCEPT ![a] = Effect(signo[a], @)],
         signo' = [signo EXCEPT ![a] = following]
  PROVE  /\ job' \in [Jobs -> {"none", "waiting", "running", "stopped", "zombie", "reaped"}]
         /\ signo' \in [Jobs -> {"USR1", "STOP", "CONT"}]
         /\ signo'[a] = following
         /\ \A j \in Jobs : /\ signo'[j] = "USR1" => job'[j] \in {"none", "waiting"}
                            /\ job'[j] = "zombie" <=> job[j] = "zombie"
                            /\ job'[j] = "reaped" <=> job[j] = "reaped"
                            /\ job'[j] = "none" <=> job[j] = "none"
         /\ Running' \subseteq Running \cup {a}
         /\ signo[a] = "STOP" => Running' \subseteq Running \ {a}
<1>1. \A j \in Jobs : /\ job'[j] = (IF j = a THEN Effect(signo[a], job[a]) ELSE job[j])
                      /\ signo'[j] = (IF j = a THEN following ELSE signo[j])
  BY DEF TypeOK
<1>2. /\ Effect(signo[a], job[a]) \in {job[a], "running", "stopped"}
      /\ job[a] \in {"none", "zombie", "reaped"} => Effect(signo[a], job[a]) = job[a]
      /\ signo[a] = "STOP" => Effect(signo[a], job[a]) # "running"
      /\ job[a] \notin {"none", "zombie", "reaped"}
           => Effect(signo[a], job[a]) \in {"waiting", "running", "stopped"}
  BY DEF TypeOK, SignalsOK, Effect
<1>3. /\ job' \in [Jobs -> {"none", "waiting", "running", "stopped", "zombie", "reaped"}]
      /\ signo' \in [Jobs -> {"USR1", "STOP", "CONT"}]
  BY <1>2 DEF TypeOK
<1>4. \A j \in Jobs : /\ signo'[j] = "USR1" => job'[j] \in {"none", "waiting"}
                      /\ job'[j] = "zombie" <=> job[j] = "zombie"
                      /\ job'[j] = "reaped" <=> job[j] = "reaped"
                      /\ job'[j] = "none" <=> job[j] = "none"
  BY <1>1, <1>2 DEF TypeOK, SignalsOK
<1>5. /\ Running' \subseteq Running \cup {a}
      /\ signo[a] = "STOP" => Running' \subseteq Running \ {a}
  BY <1>1, <1>2 DEF Running, In
<1> QED
  BY <1>1, <1>3, <1>4, <1>5

\* The lines without a program, the end of the script, and steps that move pc only.
LEMMA QuietIInv ==
  ASSUME IInv, SkipLine \/ SetAlarm \/ StartCrash \/ Wait \/ Finish \/ Alarm
  PROVE  IInv'
<1>1. PICK R \in SUBSET Jobs : R = Children
  BY DEF Children
<1>2. TypeOK /\ RingOK /\ SignalsOK /\ DebtOK
  BY DEF IInv
<1>3. /\ UNCHANGED <<ring, signo, job>>
      /\ \/ line' = line
         \/ line' = line + 1 /\ line \in Jobs
  BY DEF SkipLine, NextLine, SetAlarm, StartCrash, Wait, Finish, Alarm
<1>4. TypeOK'
  <2>1. line \in 1..(Lines + 1)
    BY <1>2 DEF TypeOK
  <2>2. line' \in 1..(Lines + 1)
    BY <1>3, <2>1, LinesAssumption DEF Jobs
  <2> QED
    BY <1>2, <1>3, <2>2
    DEF TypeOK, ring, SkipLine, NextLine, SetAlarm, StartCrash, Wait, Finish, Alarm
<1>5. RingOK'
  BY <1>2, <1>3, RingStays DEF Children
<1>6. count > 0 => active # NoJob
  BY <1>2, NoneCounted DEF RingOK
<1>7. SignalsOK'
  <2>1. line \in 1..(Lines + 1)
    BY <1>2 DEF TypeOK
  <2>2. \A j \in Jobs : j >= line' => j >= line
    BY <1>3, <2>1, LinesAssumption DEF Jobs
  <2> QED
    BY <1>2, <1>3, <1>6, <2>2
    DEF SignalsOK, ring, SkipLine, NextLine, SetAlarm, StartCrash, Wait, Finish, Alarm
<1>8. DebtOK'
  <2>1. /\ Running' = Running /\ Reaped' = Reaped
        /\ Settled' <=> Settled
    BY <1>3 DEF Running, Reaped, In, Settled, ring
  <2>2. CASE pc' = pc
    BY <1>2, <2>1, <2>2 DEF DebtOK
  <2>3. CASE Wait \/ (Alarm /\ pc' # pc)
    BY <1>2, <2>1, <2>3 DEF DebtOK, Wait, Alarm
  <2>4. CASE SetAlarm
    BY <2>4 DEF DebtOK, SetAlarm
  <2>5. CASE StartCrash \/ Finish
    <3>1. Running = {}
      <4>1. CASE StartCrash
        BY <1>2, <4>1 DEF StartCrash, SignalsOK, Running, In
      <4>2. CASE Finish
        <5>1. R = {}
          <6>1. Cardinality(R) = 0
            BY <1>1, <1>2, <4>2 DEF Finish, RingOK
          <6>2. ASSUME NEW j \in R
                PROVE  FALSE
            <7>1. Cardinality(R \ {j}) = Cardinality(R) - 1
              BY CountRemove
            <7>2. R \ {j} \in SUBSET R /\ Cardinality(R \ {j}) \in Nat
              BY CountMonotone
            <7> QED
              BY <6>1, <7>1, <7>2
          <6> QED
            BY <6>2
        <5> QED
          BY <1>1, <5>1 DEF Children, Running, In
      <4> QED
        BY <2>5, <4>1, <4>2
    <3>2. Cardinality(Running) = 0 /\ Cardinality(Reaped) \in Nat
      BY <3>1, NoneCounted, CountMonotone DEF Reaped, In
    <3> QED
      BY <2>1, <2>5, <3>2 DEF DebtOK, StartCrash, Finish
  <2> QED
    BY <2>2, <2>3, <2>4, <2>5 DEF SkipLine, NextLine
<1> QED
  BY <1>4, <1>5, <1>7, <1>8 DEF IInv

\* The first job starts, and it is the only one.
LEMMA StartIInv ==
  ASSUME IInv, Start
  PROVE  IInv'
<1>1. /\ TypeOK /\ SignalsOK /\ pc = "start" /\ pc' = "loop" /\ active \in Jobs
      /\ Kill("STOP") /\ UNCHANGED <<line, schedule, ring>>
  BY DEF IInv, TypeOK, Start
<1>2. /\ job' = [job EXCEPT ![active] = Effect(signo[active], @)]
      /\ signo' = [signo EXCEPT ![active] = "STOP"]
  BY <1>1 DEF Kill
<1>3. TypeOK'
  BY <1>1, <1>2, KillEffect DEF TypeOK, ring
<1>4. RingOK'
  <2>1. Children' = Children
    BY <1>1, <1>2, KillEffect DEF Children
  <2> QED
    BY <1>1, <2>1, RingStays DEF IInv
<1>5. SignalsOK'
  BY <1>1, <1>2, KillEffect DEF SignalsOK
<1>6. DebtOK'
  <2>1. Running = {} /\ Running' \subseteq {active}
    BY <1>1, <1>2, KillEffect DEF SignalsOK, Running, In
  <2>2. Running' \ {active} = {} /\ active' = active /\ signo'[active] = "STOP"
    BY <1>1, <1>2, <2>1, KillEffect DEF ring
  <2>3. Cardinality(Running' \ {active}) = 0 /\ Cardinality(Reaped') \in Nat
    <3>1. Reaped' \in SUBSET Jobs
      BY DEF Reaped, In
    <3> QED
      BY <2>2, <3>1, NoneCounted, CountMonotone
  <2>4. Settled'
    BY <1>1, <2>2, <2>3 DEF Settled
  <2> QED
    BY <1>1, <2>4 DEF DebtOK
<1> QED
  BY <1>3, <1>4, <1>5, <1>6 DEF IInv

\* scheduler, first half: whoever was to be stopped does not run any more; and what is
\* started in its place was paid for.
LEMMA StopIInv ==
  ASSUME IInv, StopActive
  PROVE  IInv'
<1>1. /\ TypeOK /\ SignalsOK /\ pc = "stop" /\ pc' = "resume" /\ active \in Jobs
      /\ Kill("CONT") /\ UNCHANGED <<line, ring>> /\ schedule' = FALSE
  BY DEF IInv, TypeOK, SignalsOK, StopActive
<1>2. /\ job' = [job EXCEPT ![active] = Effect(signo[active], @)]
      /\ signo' = [signo EXCEPT ![active] = "CONT"]
  BY <1>1 DEF Kill
<1>3. TypeOK'
  BY <1>1, <1>2, KillEffect DEF TypeOK, ring
<1>4. RingOK'
  <2>1. Children' = Children
    BY <1>1, <1>2, KillEffect DEF Children
  <2> QED
    BY <1>1, <2>1, RingStays DEF IInv
<1>5. SignalsOK'
  BY <1>1, <1>2, KillEffect DEF SignalsOK, ring
<1>6. DebtOK'
  <2>1. Settled
    BY <1>1 DEF IInv, DebtOK
  <2>2. Reaped' = Reaped
    BY <1>1, <1>2, KillEffect DEF Reaped, In
  <2>3. Running \in SUBSET Jobs /\ Running' \in SUBSET Jobs /\ Cardinality(Reaped) \in Nat
    <3>1. Reaped \in SUBSET Jobs
      BY DEF Reaped, In
    <3> QED
      BY <3>1, CountMonotone DEF Running, In
  <2>4. Cardinality(Running') <= Cardinality(Reaped)
    <3>1. CASE /\ signo[active] = "STOP"
               /\ Cardinality(Running \ {active}) <= Cardinality(Reaped)
      <4>1. Running' \in SUBSET (Running \ {active}) /\ Running \ {active} \in SUBSET Jobs
        BY <1>1, <1>2, <2>3, <3>1, KillEffect
      <4>2. Cardinality(Running') <= Cardinality(Running \ {active})
        BY <4>1, CountMonotone
      <4> QED
        BY <2>3, <3>1, <4>1, <4>2, CountMonotone
    <3>2. CASE Cardinality(Running) + 1 <= Cardinality(Reaped)
      <4>1. Running' \in SUBSET (Running \cup {active}) /\ Running \cup {active} \in SUBSET Jobs
        BY <1>1, <1>2, <2>3, KillEffect
      <4>2. Cardinality(Running') <= Cardinality(Running \cup {active})
        BY <4>1, CountMonotone
      <4>3. Cardinality(Running \cup {active}) <= Cardinality(Running) + 1
        BY <1>1, <2>3, CountAdd
      <4> QED
        BY <1>1, <2>3, <3>2, <4>1, <4>2, <4>3, CountMonotone
    <3> QED
      BY <2>1, <3>1, <3>2 DEF Settled
  <2> QED
    BY <1>1, <2>2, <2>4 DEF DebtOK
<1> QED
  BY <1>3, <1>4, <1>5, <1>6 DEF IInv

\* scheduler, second half: the next job may run now, and is the one to be stopped.
LEMMA ResumeIInv ==
  ASSUME IInv, ResumeNext
  PROVE  IInv'
<1>1. RingOK
  BY DEF IInv
<1>2. PICK a \in Jobs : a = next[active]
  BY DEF IInv, TypeOK, SignalsOK, ResumeNext, Turn
<1>3. /\ TypeOK /\ SignalsOK /\ pc = "resume" /\ pc' = "loop" /\ active # NoJob
      /\ active' = a
      /\ job' = [job EXCEPT ![a] = Effect(signo[a], @)]
      /\ signo' = [signo EXCEPT ![a] = "STOP"]
      /\ UNCHANGED <<line, schedule, count, next, prev>>
  BY <1>2 DEF IInv, SignalsOK, ResumeNext, Turn
<1>4. TypeOK'
  BY <1>3, KillEffect DEF TypeOK
<1>5. RingOK'
  <2>1. active' \in Children /\ active' # NoJob
    BY <1>1, <1>2, <1>3, NoJobIsNone DEF RingOK, Circle
  <2>2. Children' = Children
    BY <1>3, KillEffect DEF Children
  <2> QED
    BY <1>1, <1>3, <2>1, <2>2 DEF RingOK
<1>6. SignalsOK'
  BY <1>3, KillEffect DEF SignalsOK
<1>7. DebtOK'
  <2>1. Reaped' = Reaped
    BY <1>3, KillEffect DEF Reaped, In
  <2>2. Running' \ {a} \in SUBSET Running /\ Running \in SUBSET Jobs
    BY <1>3, KillEffect DEF Running, In
  <2>3. Cardinality(Running' \ {a}) <= Cardinality(Running)
    BY <2>2, CountMonotone
  <2>4. Cardinality(Running) <= Cardinality(Reaped)
    BY <1>3 DEF IInv, DebtOK
  <2>5. /\ Cardinality(Running) \in Nat /\ Cardinality(Reaped) \in Nat
        /\ Cardinality(Running' \ {a}) \in Nat
    <3>1. Reaped \in SUBSET Jobs
      BY DEF Reaped, In
    <3> QED
      BY <2>2, <3>1, CountMonotone
  <2>6. signo'[a] = "STOP"
    BY <1>3, KillEffect
  <2>7. Cardinality(Running' \ {a}) <= Cardinality(Reaped)
    BY <2>3, <2>4, <2>5
  <2>8. Settled'
    BY <1>3, <2>1, <2>6, <2>7 DEF Settled
  <2> QED
    BY <1>3, <2>8 DEF DebtOK
<1> QED
  BY <1>4, <1>5, <1>6, <1>7 DEF IInv

\* wait: the child is found in the ring, and its end pays for what its place there may cost.
LEMMA ReapIInv ==
  ASSUME IInv, NEW j \in Jobs, Reap(j)
  PROVE  IInv'
<1>1. PICK R \in SUBSET Jobs : R = Children
  BY DEF Children
<1>2. /\ TypeOK /\ RingOK /\ SignalsOK /\ pc = "wait" /\ pc' = "loop" /\ active \in Jobs
      /\ job[j] = "zombie" /\ job' = [job EXCEPT ![j] = "reaped"]
      /\ UNCHANGED <<line, schedule, signo>>
  BY DEF IInv, TypeOK, SignalsOK, Reap
<1>3. j \in R
  BY <1>1, <1>2 DEF Children
<1>4. \A x \in Jobs : job'[x] = IF x = j THEN "reaped" ELSE job[x]
  BY <1>2 DEF TypeOK
<1>5. PICK Q \in SUBSET Jobs : Q = R \ {j} /\ Q = Children'
  BY <1>1, <1>4 DEF Children
<1>6. /\ Circle(Q, next', prev') /\ count' = Cardinality(Q)
      /\ next' \in [Jobs -> Jobs] /\ prev' \in [Jobs -> Jobs]
      /\ active' = NoJob => Q = {}
      /\ active' # NoJob => active' \in Q
      /\ active' = active \/ active = j
  <2>1. Delete(j) /\ Q = R \ {j}
    BY <1>1, <1>2, <1>3, <1>5, EveryChildIsFound DEF Reap
  <2>2. /\ next' = [next EXCEPT ![prev[j]] = next[j]]
        /\ prev' = [prev EXCEPT ![next[j]] = prev[j]]
        /\ count' = Cardinality(R) - 1
    BY <1>1, <1>2, <2>1 DEF Delete, RingOK
  <2>3. Circle(Q, next', prev') /\ (prev[j] = j => R = {j})
    <3>1. /\ R \in SUBSET Jobs /\ Circle(R, next, prev)
          /\ next \in [Jobs -> Jobs] /\ prev \in [Jobs -> Jobs]
      BY <1>1, <1>2 DEF RingOK, TypeOK
    <3>2. /\ prev[j] = j => R = {j}
          /\ Circle(R \ {j}, [next EXCEPT ![prev[j]] = next[j]],
                             [prev EXCEPT ![next[j]] = prev[j]])
      BY <1>3, <3>1, DeleteKeepsCircle
    <3> QED
      BY <2>1, <2>2, <3>2
  <2>4. count' = Cardinality(Q)
    BY <1>3, <2>1, <2>2, CountRemove
  <2>5. next' \in [Jobs -> Jobs] /\ prev' \in [Jobs -> Jobs]
    BY <1>2, <2>2 DEF TypeOK
  <2>6. active \in R /\ next[j] \in R /\ (next[j] = j => prev[j] = j)
    BY <1>1, <1>2, <1>3, NoJobIsNone DEF RingOK, Circle
  <2>7. CASE prev[j] = j
    <3>1. Q = {} /\ active = j /\ active' = NoJob
      BY <2>1, <2>3, <2>6, <2>7 DEF Delete
    <3> QED
      BY <2>3, <2>4, <2>5, <3>1
  <2>8. CASE prev[j] # j
    <3>1. active' = IF active = j THEN next[j] ELSE active
      BY <2>1, <2>8 DEF Delete
    <3>2. active' \in Q
      BY <2>1, <2>6, <2>8, <3>1
    <3> QED
      BY <2>3, <2>4, <2>5, <3>1, <3>2, NoJobIsNone
  <2> QED
    BY <2>7, <2>8
<1>7. TypeOK'
  <2>1. count' \in Nat
    BY <1>6, CountMonotone
  <2>2. active' \in Jobs \cup {NoJob}
    BY <1>6
  <2> QED
    BY <1>2, <1>6, <2>1, <2>2 DEF TypeOK
<1>8. RingOK'
  BY <1>5, <1>6 DEF RingOK
<1>9. SignalsOK'
  BY <1>2, <1>4 DEF SignalsOK
<1>10. DebtOK'
  <2>1. Running' = Running /\ Reaped' = Reaped \cup {j} /\ j \notin Running /\ j \notin Reaped
    BY <1>2, <1>4 DEF Running, Reaped, In
  <2>2. Running \in SUBSET Jobs /\ Reaped \in SUBSET Jobs
    BY DEF Running, Reaped, In
  <2>3. /\ Cardinality(Reaped') = Cardinality(Reaped) + 1
        /\ Cardinality(Reaped) \in Nat /\ Cardinality(Running) \in Nat
    BY <2>1, <2>2, CountAdd, CountMonotone
  <2>4. Settled
    BY <1>2 DEF IInv, DebtOK
  <2>5. Settled'
    <3>1. CASE Cardinality(Running) + 1 <= Cardinality(Reaped)
      BY <2>1, <2>3, <3>1 DEF Settled
    <3>2. CASE /\ signo[active] = "STOP"
               /\ Cardinality(Running \ {active}) <= Cardinality(Reaped)
      <4>1. Running \ {active} \in SUBSET Running
        OBVIOUS
      <4>2. Cardinality(Running \ {active}) \in Nat
        BY <2>2, <4>1, CountMonotone
      <4>3. CASE active' = active
        BY <1>2, <2>1, <2>3, <3>2, <4>2, <4>3 DEF Settled
      <4>4. CASE active = j
        <5>1. Running \ {active} = Running
          BY <2>1, <4>4
        <5> QED
          BY <2>1, <2>3, <3>2, <5>1 DEF Settled
      <4> QED
        BY <1>6, <4>3, <4>4
    <3> QED
      BY <2>4, <3>1, <3>2 DEF Settled
  <2> QED
    BY <1>2, <2>5 DEF DebtOK
<1> QED
  BY <1>7, <1>8, <1>9, <1>10 DEF IInv

\* A program that ends runs no longer.
LEMMA ExitIInv ==
  ASSUME IInv, NEW j \in Jobs, JobExits(j)
  PROVE  IInv'
<1>1. /\ TypeOK /\ SignalsOK /\ DebtOK /\ job[j] = "running"
      /\ job' = [job EXCEPT ![j] = "zombie"]
      /\ UNCHANGED <<pc, line, schedule, ring, signo>>
  BY DEF IInv, JobExits
<1>2. \A x \in Jobs : job'[x] = IF x = j THEN "zombie" ELSE job[x]
  BY <1>1 DEF TypeOK
<1>3. TypeOK'
  BY <1>1 DEF TypeOK, ring
<1>4. RingOK'
  <2>1. Children' = Children
    BY <1>1, <1>2 DEF Children
  <2> QED
    BY <1>1, <2>1, RingStays DEF IInv
<1>5. SignalsOK'
  BY <1>1, <1>2 DEF SignalsOK, ring
<1>6. DebtOK'
  <2>1. Running' = Running \ {j} /\ Reaped' = Reaped
    BY <1>1, <1>2 DEF Running, Reaped, In
  <2>2. Running \in SUBSET Jobs /\ Running' \in SUBSET Running /\ Reaped \in SUBSET Jobs
    BY <2>1 DEF Running, Reaped, In
  <2>3. /\ Cardinality(Running') <= Cardinality(Running)
        /\ Cardinality(Running') \in Nat /\ Cardinality(Running) \in Nat
        /\ Cardinality(Reaped) \in Nat
    BY <2>2, CountMonotone
  <2>4. Running' \ {active} \in SUBSET (Running \ {active}) /\ Running \ {active} \in SUBSET Jobs
    BY <2>1, <2>2
  <2>5. /\ Cardinality(Running' \ {active}) <= Cardinality(Running \ {active})
        /\ Cardinality(Running' \ {active}) \in Nat /\ Cardinality(Running \ {active}) \in Nat
    BY <2>4, CountMonotone
  <2>6. Settled => Settled'
    <3>1. active' = active /\ signo' = signo
      BY <1>1 DEF ring
    <3> QED
      BY <2>1, <2>3, <2>5, <3>1 DEF Settled
  <2> QED
    BY <1>1, <2>1, <2>3, <2>6 DEF DebtOK
<1> QED
  BY <1>3, <1>4, <1>5, <1>6 DEF IInv

\* The invariant is inductive.
LEMMA NextIInv ==
  ASSUME IInv, [Next]_vars
  PROVE  IInv'
<1>1. CASE UNCHANGED vars
  <2>1. UNCHANGED <<pc, line, schedule, signo, job, count, active, next, prev>>
    BY <1>1 DEF vars, ring
  <2> QED
    BY <2>1
    DEF IInv, TypeOK, RingOK, Children, SignalsOK, DebtOK, Settled, Running, Reaped, In
<1>2. CASE McpStep
  BY <1>2, LaunchIInv, QuietIInv, StartIInv, StopIInv, ResumeIInv, ReapIInv DEF McpStep
<1>3. CASE Alarm
  BY <1>3, QuietIInv
<1>4. CASE \E j \in Jobs : JobExits(j)
  BY <1>4, ExitIInv
<1> QED
  BY <1>1, <1>2, <1>3, <1>4 DEF Next

-----------------------------------------------------------------------------
(* What follows                                                              *)

\* The invariant holds throughout: one circle of jobs that holds all the children, signals
\* that fit the processes they go to, and no debt that is not paid for.
THEOREM InvariantHolds == Spec => []IInv
BY InitIInv, NextIInv, PTL DEF Spec

\* Type correctness: in particular count never runs below zero, and active and the
\* pointers of the ring are jobs whenever the scheduler follows them.
THEOREM TypeCorrect == Spec => []TypeOK
BY InvariantHolds, PTL DEF IInv

\* The ring holds the children that have not been waited for, all of them, each once, in both
\* directions: jobs_del_pid finds the pid that wait returned, whatever was launched and
\* whatever has ended, and main's loop ends when the last child has.
THEOREM RingWhole == Spec => []RingIsWhole
<1>1. IInv => RingIsWhole
  <2> SUFFICES ASSUME IInv
               PROVE  RingIsWhole
    OBVIOUS
  <2>1. TypeOK /\ RingOK
    BY DEF IInv
  <2>2. { At[i] : i \in 0..(count - 1) } = Children
    BY <2>1, WalkMeetsChildren
  <2>3. \A j \in Children : prev[next[j]] = j /\ next[prev[j]] = j
    BY <2>1 DEF RingOK, Circle
  <2> QED
    BY <2>1, <2>2, <2>3 DEF RingOK, RingIsWhole
<1> QED
  BY <1>1, InvariantHolds, PTL

\* No program runs besides the active one that is not paid for by one that has ended.
THEOREM RunningIsPaidFor == Spec => []OverrunsArePaidFor
<1>1. IInv => OverrunsArePaidFor
  <2> SUFFICES ASSUME IInv
               PROVE  Cardinality(Running) <= 1 + Cardinality(Reaped)
    BY DEF OverrunsArePaidFor, Running, Reaped
  <2>1. Running \in SUBSET Jobs /\ Reaped \in SUBSET Jobs
    BY DEF Running, Reaped, In
  <2>2. Cardinality(Running) \in Nat /\ Cardinality(Reaped) \in Nat
    BY <2>1, CountMonotone
  <2>3. Running \ {active} \in SUBSET Jobs
    BY <2>1
  <2>4. CASE Settled
    <3>1. CASE Cardinality(Running) + 1 <= Cardinality(Reaped)
      BY <2>2, <3>1
    <3>2. CASE /\ active \in Jobs
               /\ Cardinality(Running \ {active}) <= Cardinality(Reaped)
      <4>1. CASE active \in Running
        BY <2>1, <2>2, <3>2, <4>1, CountRemove
      <4>2. CASE active \notin Running
        <5>1. Running \ {active} = Running
          BY <4>2
        <5> QED
          BY <2>2, <3>2, <5>1
      <4> QED
        BY <4>1, <4>2
    <3> QED
      BY <2>4, <3>1, <3>2 DEF Settled
  <2>5. CASE pc \in {"launch", "start"}
    <3>1. Running = {}
      BY <2>5 DEF IInv, SignalsOK, Running, In
    <3> QED
      BY <2>2, <3>1, NoneCounted
  <2>6. CASE pc \in {"resume", "finished", "crashed"}
    BY <2>2, <2>6 DEF IInv, DebtOK
  <2> QED
    BY <2>4, <2>5, <2>6 DEF IInv, TypeOK, DebtOK
<1> QED
  BY <1>1, InvariantHolds, PTL

\* While every fork succeeds the scheduler kills nobody: whoever is sent SIGUSR1 still
\* sleeps.
THEOREM NobodyIsKilled == Spec => ProgramsEndThemselves
<1> DEFINE Spared == pc' # pc => \A j \in Jobs : job'[j] = "zombie" => job[j] = "zombie"
<1>1. ASSUME IInv, [Next]_vars
      PROVE  Spared
  <2> USE DEF Spared
  <2>1. TypeOK /\ SignalsOK
    BY <1>1 DEF IInv
  <2>2. CASE LaunchProgram
    BY <2>1, <2>2 DEF LaunchProgram, NextLine
  <2>3. CASE SkipLine \/ SetAlarm \/ StartCrash \/ Wait \/ Finish \/ Alarm
    BY <2>3 DEF SkipLine, SetAlarm, StartCrash, Wait, Finish, Alarm
  <2>4. CASE Start \/ StopActive
    <3>1. active \in Jobs
      BY <2>1, <2>4 DEF TypeOK, SignalsOK, Start, StopActive
    <3> QED
      BY <2>1, <2>4, <3>1, KillEffect DEF Start, StopActive, Kill
  <2>5. CASE ResumeNext
    <3>1. next[active] \in Jobs
      BY <2>1, <2>5 DEF TypeOK, SignalsOK, ResumeNext, Turn
    <3> QED
      BY <2>1, <2>5, <3>1, KillEffect DEF ResumeNext, Turn
  <2>6. CASE \E j \in Jobs : Reap(j)
    BY <2>1, <2>6 DEF Reap, TypeOK
  <2>7. CASE \E j \in Jobs : JobExits(j)
    BY <2>7 DEF JobExits
  <2>8. CASE UNCHANGED vars
    BY <2>8 DEF vars
  <2> QED
    BY <1>1, <2>2, <2>3, <2>4, <2>5, <2>6, <2>7, <2>8 DEF Next, McpStep
<1> QED
  BY <1>1, InvariantHolds, PTL DEF Spec, ProgramsEndThemselves
=============================================================================
