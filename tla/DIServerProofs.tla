---------------------------- MODULE DIServerProofs ---------------------------
(***************************************************************************)
(* Theorems about DIServer, for any number of rounds and any mix of        *)
(* publishers and subscribers.                                             *)
(***************************************************************************)
EXTENDS DIServer, TLAPS

-----------------------------------------------------------------------------
(* The invariant                                                             *)

\* The kinds of values, and where the server itself can be.
Shape ==
  /\ pc \in [Processes -> Places]
  /\ round \in [Processes -> Nat]
  /\ stage \in [Processes -> 1..3]
  /\ thread \in [Processes -> {"none", "reads", "accepts", "rejects", "over"}]
  /\ step \in [Processes -> 1..3]
  /\ DOMAIN said = Processes
  /\ DOMAIN answers = Kinds
  /\ robbed \in BOOLEAN
  /\ pc[First] \in {"loop", "join", "left"}
  /\ round[First] \in 1..(Rounds + 1)
  /\ pc[First] = "join" => round[First] \in Slots

\* Is there an answer for client c in the pipe of its kind?
Pending(kind, c) == \E i \in DOMAIN answers[kind] : answers[kind][i].to = c

\* Only the server has a thread, and its clients only talk.
ClientsTalk ==
  \A p \in Processes \ {First} :
    thread[p] = "none" /\ pc[p] \in {"unborn", "say", "hear", "left"}

\* The clients are those the server has forked itself.
ClientsAreChildren ==
  /\ \A p \in Processes \ {First} : pc[p] # "unborn" =>
       \E k \in Slots : p = {k} /\ round[p] = k /\ k <= round[First]
  /\ \A k \in Slots : pc[{k}] = "unborn" => stage[{k}] = 1 /\ said[{k}] = <<>>

\* Those of earlier rounds have been accepted, and may have to hear the last answer.
EarlierAreServed ==
  \A k \in Slots : k < round[First] /\ pc[{k}] # "unborn" =>
    /\ {k} \in connected
    /\ pc[{k}] \in {"hear", "left"}
    /\ stage[{k}] = 3

\* The server and the client of its present round, word by word.
Dialogue(k) ==
  \/ /\ thread[First] = "reads"
     /\ ~Pending(Kind(k), {k})
     /\ step[First] = stage[{k}]
     /\ \/ pc[{k}] = "say" /\ said[{k}] = <<>>
        \/ pc[{k}] = "hear" /\ said[{k}] = <<Script[stage[{k}]]>>
  \/ /\ thread[First] = "accepts"
     /\ ~Pending(Kind(k), {k})
     /\ step[First] = stage[{k}]
     /\ pc[{k}] = "hear"
     /\ said[{k}] = <<>>
  \/ /\ thread[First] = "reads"
     /\ Pending(Kind(k), {k})
     /\ step[First] = stage[{k}] + 1
     /\ pc[{k}] = "hear"
     /\ said[{k}] = <<>>
  \/ /\ thread[First] = "over"
     /\ stage[{k}] = 3
     /\ pc[{k}] \in {"hear", "left"}
     /\ {k} \in connected

\* Where the server is in its round.
RoundOK ==
  /\ pc[First] # "join" => thread[First] = "none"
  /\ pc[First] = "loop" /\ round[First] \in Slots => pc[{round[First]}] = "unborn"
  /\ pc[First] = "join" => Dialogue(round[First])
  /\ pc[First] = "left" /\ round[First] \in Slots =>
       LET c == {round[First]} IN
         /\ pc[c] \in {"say", "hear"}
         /\ stage[c] = 1
         /\ ~Pending(Kind(round[First]), c)

\* An answer in a pipe is an accept for a client that listens, or the server's last
\* word; and nobody has two.
Meant(kind, answer) ==
  \/ /\ answer.word = "terminate"
     /\ pc[First] = "left"
     /\ round[First] > Rounds
  \/ /\ answer.word = "accept"
     /\ \E k \in Slots : answer.to = {k} /\ Kind(k) = kind /\ pc[{k}] = "hear"

Single(q) ==
  \A i, j \in DOMAIN q :
    q[i].word = "accept" /\ q[j].word = "accept" /\ q[i].to = q[j].to => i = j

PipesOK ==
  \A kind \in Kinds :
    /\ answers[kind] \in Seq(Answers)
    /\ \A i \in DOMAIN answers[kind] : Meant(kind, answers[kind][i])
    /\ Single(answers[kind])

Peace == ClientsTalk /\ ClientsAreChildren /\ EarlierAreServed /\ RoundOK /\ PipesOK

\* Nobody can rob the first client, and what happens later does not undo its service.
FirstOK == (round[First] = 1 => ~robbed) /\ FirstIsServed

IInv ==
  /\ Shape
  /\ robbed => FirstOK
  /\ ~robbed => Peace

-----------------------------------------------------------------------------
(* The names of the processes                                                *)

\* What the sets that name the processes have in common and have not.
LEMMA Names ==
  /\ First \in Processes
  /\ \A k \in Slots : {k} \in Processes /\ {k} # First /\ Child(First, k) = {k}
  /\ \A p \in Processes, k \in Slots : Child(p, k) \in Processes /\ Child(p, k) # First
  /\ \A j, k \in Slots : {j} = {k} => j = k
BY DEF First, Processes, Child

\* A round forks a publisher or a subscriber.
LEMMA KindsAreKinds == \A k : Kind(k) \in Kinds
BY DEF Kind, Kinds

\* The server starts in peace, alone.
LEMMA InitIInv == Init => IInv
<1> SUFFICES ASSUME Init
             PROVE  IInv
  OBVIOUS
<1>1. Shape
  <2>1. 1 \in 1..(Rounds + 1) /\ 1 \in 1..3 /\ 1 \in Nat
    BY RoundsAssumption
  <2> QED
    BY <2>1, Names DEF Init, Shape, Places
<1>2. ClientsTalk /\ ClientsAreChildren /\ EarlierAreServed
  BY Names DEF Init, ClientsTalk, ClientsAreChildren, EarlierAreServed, Slots
<1>3. RoundOK
  BY Names DEF Init, RoundOK
<1>4. PipesOK
  <2>1. \A kind \in Kinds : answers[kind] = <<>>
    BY DEF Init
  <2>2. <<>> \in Seq(Answers) /\ DOMAIN <<>> = {}
    OBVIOUS
  <2> QED
    BY <2>1, <2>2 DEF PipesOK, Single
<1> QED
  BY <1>1, <1>2, <1>3, <1>4 DEF Init, IInv, Peace

-----------------------------------------------------------------------------
(* Shape, and the first client's service                                     *)

\* No step gives a variable a value of another kind, in peace or not.
LEMMA NextShape ==
  ASSUME Shape, [Next]_vars
  PROVE  Shape'
<1> USE Names, RoundsAssumption
<1>1. ASSUME NEW p \in Processes, Fork(p)
      PROVE  Shape'
  <2>1. /\ Current(p) \in Processes /\ Current(p) # First
        /\ round[p] \in Nat
    BY <1>1 DEF Fork, Current, Shape
  <2>2. /\ pc' \in [Processes -> Places]
        /\ pc'[First] \in {"loop", "join", "left"}
        /\ pc'[First] = "join" => round[First] \in Slots
    BY <1>1, <2>1 DEF Fork, Shape, Places
  <2>3. /\ round' \in [Processes -> Nat] /\ round'[First] = round[First]
        /\ UNCHANGED <<stage, said, answers, robbed>>
    BY <1>1, <2>1 DEF Fork, Shape, pipes, history
  <2>4. /\ thread' \in [Processes -> {"none", "reads", "accepts", "rejects", "over"}]
        /\ step' \in [Processes -> 1..3]
    <3>1. 1 \in 1..3
      OBVIOUS
    <3> QED
      BY <1>1, <3>1 DEF Fork, Shape, threads
  <2> QED
    BY <2>2, <2>3, <2>4 DEF Shape
<1>2. ASSUME NEW p \in Processes, ForkFails(p)
      PROVE  Shape'
  <2>1. round[p] \in Slots /\ round[p] + 1 \in 1..(Rounds + 1)
    BY <1>2 DEF ForkFails, Slots
  <2> QED
    BY <1>2, <2>1 DEF ForkFails, Shape, threads, pipes, history
<1>3. ASSUME NEW p \in Processes, Say(p) \/ Hear(p)
      PROVE  Shape'
  <2>1. p # First
    BY <1>3 DEF Say, Hear, Shape
  <2>2. pc' \in [Processes -> Places] /\ pc'[First] = pc[First]
    BY <1>3, <2>1 DEF Say, Hear, Shape, Places
  <2>3. stage' \in [Processes -> 1..3]
    <3>1. stage[p] < 3 => stage[p] + 1 \in 1..3
      BY DEF Shape
    <3> QED
      BY <1>3, <3>1 DEF Say, Hear, Shape
  <2>4. robbed' \in BOOLEAN
    BY <1>3 DEF Say, Hear, Shape, history
  <2>5. DOMAIN said' = Processes /\ DOMAIN answers' = Kinds
    BY <1>3 DEF Say, Hear, Shape
  <2> QED
    BY <1>3, <2>2, <2>3, <2>4, <2>5 DEF Say, Hear, Shape, threads
<1>4. ASSUME NEW p \in Processes, Quit(p)
      PROVE  Shape'
  <2>1. p # First
    BY <1>4 DEF Quit, Shape
  <2> QED
    BY <1>4, <2>1 DEF Quit, Shape, Places, threads, history
<1>5. ASSUME NEW p \in Processes, Join(p)
      PROVE  Shape'
  <2>1. p = First => round[p] + 1 \in 1..(Rounds + 1)
    BY <1>5 DEF Join, Shape, Slots
  <2> QED
    BY <1>5, <2>1 DEF Join, Shape, Places, pipes, history
<1>6. ASSUME NEW p \in Processes, Finish(p)
      PROVE  Shape'
  BY <1>6 DEF Finish, Shape, Places, threads, history
<1>7. ASSUME NEW p \in Processes, ThreadStep(p)
      PROVE  Shape'
  <2>1. Verdict(step[p], said[Current(p)]) \in {"accepts", "rejects", "over"}
    BY DEF Verdict
  <2>2. CASE ThreadReads(p)
    BY <2>1, <2>2 DEF ThreadReads, Shape, mains, history
  <2>3. CASE ThreadAccepts(p)
    <3>1. step[p] < 3 => step[p] + 1 \in 1..3
      BY DEF Shape
    <3>2. step' \in [Processes -> 1..3]
      BY <2>3, <3>1 DEF ThreadAccepts, Shape
    <3>3. thread' \in [Processes -> {"none", "reads", "accepts", "rejects", "over"}]
      BY <2>3 DEF ThreadAccepts, Shape
    <3> QED
      BY <2>3, <3>2, <3>3 DEF ThreadAccepts, Reply, Shape, mains
  <2>4. CASE ThreadRejects(p)
    BY <2>4 DEF ThreadRejects, Reply, Shape, mains, history
  <2> QED
    BY <1>7, <2>2, <2>3, <2>4 DEF ThreadStep
<1>8. CASE UNCHANGED vars
  BY <1>8 DEF Shape, vars, mains, threads, pipes, history
<1> QED
  BY <1>1, <1>2, <1>3, <1>4, <1>5, <1>6, <1>7, <1>8 DEF Next, MainStep

\* While there is peace, the server alone forks, waits and finishes.
LEMMA WhoActs ==
  ASSUME Shape, Peace, NEW p \in Processes, MainStep(p) \/ ThreadStep(p)
  PROVE  \/ /\ p = First
            /\ Fork(First) \/ ForkFails(First) \/ Join(First) \/ Finish(First) \/ ThreadStep(First)
         \/ \E k \in Slots : /\ p = {k} /\ round[p] = k /\ k <= round[First]
                             /\ Say(p) \/ Hear(p)
<1>1. CASE p = First
  BY <1>1 DEF MainStep, Shape, Say, Hear, Quit
<1>2. CASE p # First
  <2>1. thread[p] = "none" /\ pc[p] \in {"unborn", "say", "hear", "left"}
    BY <1>2 DEF Peace, ClientsTalk
  <2>2. Say(p) \/ Hear(p)
    BY <2>1 DEF MainStep, ThreadStep, Fork, ForkFails, Quit, Join, Finish, ThreadReads,
                ThreadAccepts, ThreadRejects
  <2>3. pc[p] # "unborn"
    BY <2>2 DEF Say, Hear
  <2> QED
    BY <1>2, <2>2, <2>3 DEF Peace, ClientsAreChildren
<1> QED
  BY <1>1, <1>2

\* A client that was forked is named by the round it is of.
LEMMA ChildOfRound ==
  ASSUME Peace, NEW k \in Slots, pc[{k}] # "unborn"
  PROVE  round[{k}] = k /\ k <= round[First]
<1>1. {k} \in Processes \ {First}
  BY Names
<1>2. PICK j \in Slots : {k} = {j} /\ round[{k}] = j /\ j <= round[First]
  BY <1>1 DEF Peace, ClientsAreChildren
<1> QED
  BY <1>2, Names

\* An answer in the pipe is for a client that listens.
LEMMA AnswerIsFor ==
  ASSUME Peace, NEW kind \in Kinds, NEW i \in DOMAIN answers[kind],
         answers[kind][i].word # "terminate"
  PROVE  /\ answers[kind][i].word = "accept"
         /\ \E k \in Slots : /\ answers[kind][i].to = {k}
                             /\ Kind(k) = kind
                             /\ pc[{k}] = "hear"
BY DEF Peace, PipesOK, Meant

\* In its round, nobody robs the first client.
LEMMA FirstIsNotRobbed ==
  ASSUME Shape, Peace, NEW p \in Processes, Hear(p), round[First] = 1,
         NEW i \in DOMAIN answers[Kind(round[p])],
         answers[Kind(round[p])][i].word # "terminate"
  PROVE  answers[Kind(round[p])][i].to = p
<1>1. p # First
  BY DEF Hear, Shape
<1>2. PICK k \in Slots : p = {k} /\ round[p] = k /\ k <= round[First]
  BY <1>1, WhoActs DEF MainStep
<1>3. PICK kind \in Kinds : kind = Kind(round[p])
  BY KindsAreKinds
<1>4. PICK j \in Slots : answers[kind][i].to = {j} /\ pc[{j}] = "hear"
  BY <1>3, AnswerIsFor
<1>5. j <= round[First]
  BY <1>4, ChildOfRound
<1>6. k = 1 /\ j = 1
  BY <1>2, <1>5 DEF Slots
<1> QED
  BY <1>2, <1>3, <1>4, <1>6

\* Only a fork changes the place of a process that was not forked yet.
LEMMA UnbornStays ==
  ASSUME Shape, NEW p \in Processes, NEW c \in Processes, pc[c] = "unborn",
         MainStep(p) \/ ThreadStep(p), Fork(p) => Current(p) # c
  PROVE  pc'[c] = "unborn"
<1>1. CASE Fork(p)
  BY <1>1 DEF Fork, Shape
<1>2. CASE ForkFails(p) \/ Say(p) \/ Hear(p) \/ Quit(p) \/ Join(p) \/ Finish(p)
  BY <1>2 DEF ForkFails, Say, Hear, Quit, Join, Finish, Shape
<1>3. CASE ThreadStep(p)
  BY <1>3 DEF ThreadStep, ThreadReads, ThreadAccepts, ThreadRejects, mains
<1> QED
  BY <1>1, <1>2, <1>3 DEF MainStep

\* The server's loop counter never goes back, and nobody loses its service.
LEMMA RoundsGoOn ==
  ASSUME Shape, NEW p \in Processes, MainStep(p) \/ ThreadStep(p)
  PROVE  /\ round'[First] \in {round[First], round[First] + 1}
         /\ connected \subseteq connected'
         /\ robbed' # robbed => Hear(p)
<1>1. CASE Fork(p)
  <2>1. Current(p) # First
    BY <1>1, Names DEF Fork, Current
  <2> QED
    BY <1>1, <2>1 DEF Fork, Shape, history
<1>2. CASE ForkFails(p) \/ Say(p) \/ Hear(p) \/ Quit(p) \/ Join(p) \/ Finish(p)
  BY <1>2, Names DEF ForkFails, Say, Hear, Quit, Join, Finish, Shape, history
<1>3. CASE ThreadStep(p)
  BY <1>3 DEF ThreadStep, ThreadReads, ThreadAccepts, ThreadRejects, mains, history
<1> QED
  BY <1>1, <1>2, <1>3 DEF MainStep

\* Nothing undoes the service of the first client.
LEMMA ServiceStays ==
  ASSUME Shape, FirstOK, robbed \/ Peace, NEW p \in Processes,
         MainStep(p) \/ ThreadStep(p), robbed'
  PROVE  FirstOK'
<1>1. round[First] # 1
  <2> SUFFICES ASSUME round[First] = 1
               PROVE  FALSE
    OBVIOUS
  <2>1. ~robbed /\ Peace
    BY DEF FirstOK
  <2>2. Hear(p)
    BY <2>1, RoundsGoOn
  <2> QED
    BY <2>1, <2>2, FirstIsNotRobbed DEF Hear
<1>2. /\ round[First] \in 1..(Rounds + 1) /\ round[First] > 1
      /\ round'[First] > 1 /\ round'[First] # 1
  <2>1. round[First] \in 1..(Rounds + 1)
    BY DEF Shape
  <2>2. round'[First] \in {round[First], round[First] + 1}
    BY RoundsGoOn
  <2> QED
    BY <1>1, <2>1, <2>2, RoundsAssumption
<1>3. {1} \in Processes /\ 1 \in Slots
  BY <1>2, RoundsAssumption, Names DEF Slots
<1>4. ASSUME pc[{1}] = "unborn"
      PROVE  pc'[{1}] = "unborn"
  <2>1. ASSUME Fork(p), Current(p) = {1}
        PROVE  FALSE
    <3>1. round[p] = 1
      BY <2>1 DEF Current, Child
    <3>2. p = First \/ p = {1}
      BY <2>1 DEF Current, Child, First
    <3> QED
      BY <1>1, <1>4, <2>1, <3>1, <3>2 DEF Fork
  <2> QED
    BY <1>3, <1>4, <2>1, UnbornStays
<1> QED
  BY <1>2, <1>4, RoundsGoOn DEF FirstOK, FirstIsServed

-----------------------------------------------------------------------------
(* The server's steps in peace                                               *)

\* Pipes nobody writes to or reads from stay as they should be.
LEMMA PipesStay ==
  ASSUME PipesOK, UNCHANGED answers,
         \A k \in Slots : pc[{k}] = "hear" => pc'[{k}] = "hear",
         \A kind \in Kinds : \A i \in DOMAIN answers[kind] :
           answers[kind][i].word = "terminate" =>
             pc'[First] = "left" /\ round'[First] > Rounds
  PROVE  PipesOK'
<1>1. ASSUME NEW kind \in Kinds, NEW i \in DOMAIN answers[kind]
      PROVE  Meant(kind, answers[kind][i])'
  <2>1. Meant(kind, answers[kind][i])
    BY DEF PipesOK
  <2> QED
    BY <2>1 DEF Meant
<1> QED
  BY <1>1 DEF PipesOK, Single

\* A fork starts the dialogue of the round, or leaves a client nobody listens to.
LEMMA ForkPeace ==
  ASSUME Shape, Peace, Fork(First)
  PROVE  Peace'
<1>1. PICK n \in Slots : n = round[First]
  BY DEF Fork
<1>2. PICK c \in Processes : c = {n} /\ c # First /\ c = Current(First)
  BY <1>1, Names DEF Current
<1>3. /\ pc[First] = "loop" /\ pc[c] = "unborn" /\ stage[c] = 1 /\ said[c] = <<>>
      /\ thread[First] = "none"
  BY <1>1, <1>2 DEF Fork, Peace, RoundOK, ClientsAreChildren
<1>4. /\ UNCHANGED <<stage, said, answers, connected, robbed>>
      /\ round' = [round EXCEPT ![c] = n]
      /\ \/ /\ pc' = [pc EXCEPT ![First] = "join", ![c] = "say"]
            /\ thread' = [thread EXCEPT ![First] = "reads"]
            /\ step' = [step EXCEPT ![First] = 1]
         \/ /\ pc' = [pc EXCEPT ![First] = "left", ![c] = "say"]
            /\ UNCHANGED <<thread, step>>
  BY <1>1, <1>2 DEF Fork, pipes, history, threads
<1>5. /\ round'[First] = n /\ round'[c] = n
      /\ pc'[c] = "say" /\ pc'[First] \in {"join", "left"}
      /\ pc'[First] = "join" => thread'[First] = "reads" /\ step'[First] = 1
      /\ pc'[First] = "left" => thread'[First] = "none"
      /\ \A p \in Processes \ {First, c} : pc'[p] = pc[p] /\ round'[p] = round[p]
      /\ \A p \in Processes \ {First} : thread'[p] = thread[p]
  BY <1>1, <1>2, <1>3, <1>4, Names DEF Shape
<1>6. ~Pending(Kind(n), c)
  <2> SUFFICES ASSUME NEW i \in DOMAIN answers[Kind(n)], answers[Kind(n)][i].to = c
               PROVE  FALSE
    BY DEF Pending
  <2>1. PICK kind \in Kinds : kind = Kind(n)
    BY KindsAreKinds
  <2>2. answers[kind][i].word # "terminate"
    BY <1>3, <2>1 DEF Peace, PipesOK, Meant
  <2>3. PICK k \in Slots : answers[kind][i].to = {k} /\ pc[{k}] = "hear"
    BY <2>1, <2>2, AnswerIsFor
  <2> QED
    BY <1>3, <2>1, <2>3
<1>7. ClientsTalk'
  BY <1>2, <1>5 DEF Peace, ClientsTalk
<1>8. ClientsAreChildren'
  <2>1. \A k \in Slots : k # n => {k} \in Processes \ {First, c}
    BY <1>2, Names
  <2>2. \A k \in Slots : pc'[{k}] = "unborn" => pc[{k}] = "unborn"
    BY <1>2, <1>5, <2>1
  <2>3. ASSUME NEW p \in Processes \ {First}, pc'[p] # "unborn"
        PROVE  \E k \in Slots : p = {k} /\ round'[p] = k /\ k <= round'[First]
    <3>1. CASE p = c
      <4>1. n <= n
        BY RoundsAssumption DEF Slots
      <4>2. p = {n} /\ round'[p] = n /\ n <= round'[First]
        BY <1>2, <1>5, <3>1, <4>1
      <4> QED
        BY <4>2
    <3>2. CASE p # c
      BY <1>1, <1>5, <2>3, <3>2 DEF Peace, ClientsAreChildren
    <3> QED
      BY <3>1, <3>2
  <2> QED
    BY <1>4, <2>2, <2>3 DEF Peace, ClientsAreChildren
<1>9. EarlierAreServed'
  <2>1. ASSUME NEW k \in Slots, k < round'[First]
        PROVE  pc'[{k}] = pc[{k}] /\ k < round[First]
    <3>1. k # n
      BY <1>5, <2>1, RoundsAssumption DEF Slots
    <3>2. {k} \in Processes \ {First, c}
      BY <1>2, <3>1, Names
    <3> QED
      BY <1>1, <1>5, <2>1, <3>2
  <2> QED
    BY <1>4, <2>1 DEF Peace, EarlierAreServed
<1>10. RoundOK'
  <2>1. Pending(Kind(n), c)' <=> Pending(Kind(n), c)
    BY <1>4 DEF Pending
  <2>2. /\ stage'[{n}] = 1 /\ said'[{n}] = <<>> /\ ~Pending(Kind(n), {n})'
    BY <1>2, <1>3, <1>4, <1>6, <2>1
  <2>3. pc'[First] = "join" => Dialogue(n)'
    BY <1>2, <1>5, <2>2 DEF Dialogue
  <2> QED
    BY <1>2, <1>5, <2>2, <2>3 DEF RoundOK
<1>11. PipesOK'
  <2>1. \A k \in Slots : pc[{k}] = "hear" => pc'[{k}] = "hear"
    <3>1. \A k \in Slots : {k} \in Processes /\ {k} # First
      BY Names
    <3> QED
      BY <1>2, <1>3, <1>5, <3>1
  <2>2. \A kind \in Kinds : \A i \in DOMAIN answers[kind] : answers[kind][i].word # "terminate"
    BY <1>3 DEF Peace, PipesOK, Meant
  <2> QED
    BY <1>4, <2>1, <2>2, PipesStay DEF Peace
<1> QED
  BY <1>7, <1>8, <1>9, <1>10, <1>11 DEF Peace

\* The next round: the client of this one was not forked, or has been served.
LEMMA NextRoundPeace ==
  ASSUME Shape, Peace, ForkFails(First) \/ Join(First)
  PROVE  Peace'
<1>1. PICK n \in Slots : n = round[First]
  BY DEF ForkFails, Join, Shape
<1>2. n \in Nat /\ n < n + 1
  BY RoundsAssumption DEF Slots
<1>3. /\ UNCHANGED <<stage, said, answers, connected>>
      /\ round' = [round EXCEPT ![First] = n + 1]
      /\ pc' = [pc EXCEPT ![First] = "loop"]
      /\ thread'[First] = "none"
      /\ \A p \in Processes \ {First} : thread'[p] = thread[p]
  <2>1. CASE ForkFails(First)
    <3>1. pc = [pc EXCEPT ![First] = "loop"] /\ thread[First] = "none"
      BY <2>1, Names DEF ForkFails, Shape, Peace, RoundOK
    <3> QED
      BY <1>1, <2>1, <3>1 DEF ForkFails, threads, pipes, history
  <2>2. CASE Join(First)
    BY <1>1, <2>2, Names DEF Join, Shape, pipes, history
  <2> QED
    BY <2>1, <2>2
<1>4. /\ round'[First] = n + 1 /\ pc'[First] = "loop"
      /\ \A p \in Processes \ {First} : pc'[p] = pc[p] /\ round'[p] = round[p]
  BY <1>3, Names DEF Shape
<1>5. \A k \in Slots : /\ {k} \in Processes \ {First} /\ k \in Nat
                       /\ pc'[{k}] = pc[{k}] /\ round'[{k}] = round[{k}]
  <2>1. \A k \in Slots : k \in Nat
    BY DEF Slots
  <2> QED
    BY <1>4, <2>1, Names
<1>6. pc[{n}] # "unborn" => {n} \in connected /\ pc[{n}] \in {"hear", "left"} /\ stage[{n}] = 3
  <2>1. CASE ForkFails(First)
    BY <1>1, <2>1 DEF ForkFails, Peace, RoundOK
  <2>2. CASE Join(First)
    BY <1>1, <2>2 DEF Join, ThreadIsOver, Peace, RoundOK, Dialogue
  <2> QED
    BY <2>1, <2>2
<1>7. ClientsTalk'
  BY <1>3, <1>4 DEF Peace, ClientsTalk
<1>8. ClientsAreChildren'
  <2>1. ASSUME NEW p \in Processes \ {First}, pc'[p] # "unborn"
        PROVE  \E k \in Slots : p = {k} /\ round'[p] = k /\ k <= round'[First]
    <3>1. PICK k \in Slots : p = {k} /\ round[p] = k /\ k <= n
      BY <1>1, <1>4, <2>1 DEF Peace, ClientsAreChildren
    <3>2. k <= n + 1 /\ round'[p] = k
      BY <1>2, <1>4, <1>5, <3>1
    <3> QED
      BY <1>4, <3>1, <3>2
  <2> QED
    BY <1>3, <1>5, <2>1 DEF Peace, ClientsAreChildren
<1>9. EarlierAreServed'
  <2>1. ASSUME NEW k \in Slots, k < n + 1, pc[{k}] # "unborn"
        PROVE  {k} \in connected /\ pc[{k}] \in {"hear", "left"} /\ stage[{k}] = 3
    <3>1. CASE k = n
      BY <1>6, <2>1, <3>1
    <3>2. CASE k # n
      <4>1. k < n
        BY <1>2, <1>5, <2>1, <3>2
      <4> QED
        BY <1>1, <2>1, <4>1 DEF Peace, EarlierAreServed
    <3> QED
      BY <3>1, <3>2
  <2> QED
    BY <1>3, <1>4, <1>5, <2>1 DEF EarlierAreServed
<1>10. RoundOK'
  <2>1. ASSUME n + 1 \in Slots
        PROVE  pc'[{n + 1}] = "unborn"
    <3>1. PICK k \in Slots : k = n + 1
      BY <2>1
    <3>2. ~(k <= round[First])
      BY <1>1, <1>2, <3>1
    <3>3. pc[{k}] = "unborn"
      BY <3>2, ChildOfRound
    <3> QED
      BY <1>5, <3>1, <3>3
  <2> QED
    BY <1>3, <1>4, <2>1 DEF RoundOK
<1>11. PipesOK'
  <2>1. \A kind \in Kinds : \A i \in DOMAIN answers[kind] : answers[kind][i].word # "terminate"
    <3>1. pc[First] # "left"
      BY DEF ForkFails, Join
    <3> QED
      BY <3>1 DEF Peace, PipesOK, Meant
  <2> QED
    BY <1>3, <1>5, <2>1, PipesStay DEF Peace
<1> QED
  BY <1>7, <1>8, <1>9, <1>10, <1>11 DEF Peace

\* What an answer has to be after a step.
MeantNow(kind, answer) ==
  \/ /\ answer.word = "terminate"
     /\ pc'[First] = "left"
     /\ round'[First] > Rounds
  \/ /\ answer.word = "accept"
     /\ \E k \in Slots : answer.to = {k} /\ Kind(k) = kind /\ pc'[{k}] = "hear"

\* Pipes are as they should be when each answer in them is, and nobody has two.
LEMMA PipesChange ==
  ASSUME \A kind \in Kinds :
           /\ answers'[kind] \in Seq(Answers)
           /\ \A i \in DOMAIN answers'[kind] : MeantNow(kind, answers'[kind][i])
           /\ Single(answers'[kind])
  PROVE  PipesOK'
BY DEF PipesOK, Meant, MeantNow, Single

\* One more answer in a pipe.
LEMMA AppendAnswer ==
  ASSUME NEW q \in Seq(Answers), NEW a \in Answers
  PROVE  /\ Append(q, a) \in Seq(Answers)
         /\ Len(Append(q, a)) = Len(q) + 1
         /\ DOMAIN Append(q, a) = DOMAIN q \cup {Len(q) + 1}
         /\ Len(q) + 1 \notin DOMAIN q
         /\ Append(q, a)[Len(q) + 1] = a
         /\ \A i \in DOMAIN q : Append(q, a)[i] = q[i]
OBVIOUS

\* The server's last word, when all rounds are over.
LEMMA FinishPeace ==
  ASSUME Shape, Peace, Finish(First)
  PROVE  Peace'
<1>1. /\ pc[First] = "loop" /\ round[First] > Rounds /\ thread[First] = "none"
      /\ UNCHANGED <<round, stage, thread, step, said, connected>>
      /\ pc' = [pc EXCEPT ![First] = "left"]
  BY DEF Finish, threads, history, Peace, RoundOK
<1>2. pc'[First] = "left" /\ \A p \in Processes \ {First} : pc'[p] = pc[p]
  BY <1>1, Names DEF Shape
<1>3. \A k \in Slots : {k} \in Processes \ {First} /\ pc'[{k}] = pc[{k}]
  BY <1>2, Names
<1>4. round[First] \notin Slots
  <2>1. round[First] \in 1..(Rounds + 1)
    BY DEF Shape
  <2> QED
    BY <1>1, <2>1, RoundsAssumption DEF Slots
<1>5. ClientsTalk' /\ ClientsAreChildren' /\ EarlierAreServed'
  BY <1>1, <1>2, <1>3 DEF Peace, ClientsTalk, ClientsAreChildren, EarlierAreServed
<1>6. RoundOK'
  BY <1>1, <1>2, <1>4 DEF RoundOK
<1>7. PipesOK'
  <2>1. \A kind, answer : Meant(kind, answer) => MeantNow(kind, answer)
    BY <1>1, <1>2, <1>3 DEF Meant, MeantNow
  <2>2. ASSUME NEW kind \in Kinds
        PROVE  /\ answers'[kind] \in Seq(Answers)
               /\ \A i \in DOMAIN answers'[kind] : MeantNow(kind, answers'[kind][i])
               /\ Single(answers'[kind])
    <3>1. /\ answers[kind] \in Seq(Answers) /\ Single(answers[kind])
          /\ \A i \in DOMAIN answers[kind] : Meant(kind, answers[kind][i])
      BY DEF Peace, PipesOK
    <3>2. CASE answers'[kind] = answers[kind]
      BY <2>1, <3>1, <3>2
    <3>3. CASE answers'[kind] = Append(answers[kind], Answer("terminate", First))
      <4>1. PICK a \in Answers : a = Answer("terminate", First)
        BY Names DEF Answer, Answers
      <4>2. a.word = "terminate"
        BY <4>1 DEF Answer
      <4>3. MeantNow(kind, a)
        BY <1>1, <1>2, <4>2 DEF MeantNow
      <4> QED
        BY <2>1, <3>1, <3>3, <4>1, <4>2, <4>3, AppendAnswer DEF Single
    <3> QED
      BY <3>2, <3>3 DEF Finish, Shape
  <2> QED
    BY <2>2, PipesChange
<1> QED
  BY <1>5, <1>6, <1>7 DEF Peace

\* The thread hears the word it expects, and accepts it.
LEMMA ThreadPeace ==
  ASSUME Shape, Peace, ThreadStep(First)
  PROVE  Peace'
<1>1. /\ pc[First] = "join" /\ UNCHANGED <<pc, round, stage, records>>
      /\ \A p \in Processes \ {First} : thread'[p] = thread[p]
  BY Names
  DEF ThreadStep, ThreadReads, ThreadAccepts, ThreadRejects, mains, Shape, Peace, RoundOK
<1>2. PICK n \in Slots : n = round[First]
  BY <1>1 DEF Shape
<1>3. PICK c \in Processes : c = {n} /\ c # First /\ c = Current(First)
  BY <1>2, Names DEF Current
<1>4. Dialogue(n)
  BY <1>1, <1>2 DEF Peace, RoundOK
<1>5. stage[c] \in 1..3
  BY DEF Shape
<1>6. ClientsTalk'
  BY <1>1 DEF Peace, ClientsTalk
<1>7. CASE ThreadReads(First)
  <2>1. /\ thread[First] = "reads" /\ said[c] # <<>>
        /\ thread' = [thread EXCEPT ![First] = Verdict(step[First], said[c])]
        /\ said' = [said EXCEPT ![c] = <<>>]
        /\ UNCHANGED <<step, answers, connected>>
    BY <1>3, <1>7 DEF ThreadReads, history
  <2>2. /\ ~Pending(Kind(n), c) /\ step[First] = stage[c] /\ pc[c] = "hear"
        /\ said[c] = <<Script[step[First]]>>
    BY <1>3, <1>4, <2>1 DEF Dialogue
  <2>3. thread'[First] = "accepts" /\ said'[c] = <<>>
    <3>1. step[First] \in {1, 2, 3} /\ Script[step[First]] # "terminate"
      BY Names DEF Shape, Script
    <3>2. Verdict(step[First], said[c]) = "accepts"
      BY <2>2, <3>1 DEF Verdict
    <3> QED
      BY <1>3, <2>1, <3>2, Names DEF Shape
  <2>4. ClientsAreChildren' /\ EarlierAreServed'
    <3>1. \A k \in Slots : {k} \in Processes
      BY Names
    <3>2. \A k \in Slots : said[{k}] = <<>> => said'[{k}] = <<>>
      BY <2>1, <3>1 DEF Shape
    <3> QED
      BY <1>1, <2>1, <3>2 DEF Peace, ClientsAreChildren, EarlierAreServed
  <2>5. RoundOK'
    <3>1. ~Pending(Kind(n), {n})'
      BY <1>3, <2>1, <2>2 DEF Pending
    <3>2. Dialogue(n)'
      BY <1>1, <1>3, <2>1, <2>2, <2>3, <3>1 DEF Dialogue
    <3> QED
      BY <1>1, <1>2, <3>2 DEF RoundOK
  <2>6. PipesOK'
    BY <1>1, <2>1, PipesStay DEF Peace, PipesOK, Meant
  <2> QED
    BY <1>6, <2>4, <2>5, <2>6 DEF Peace
<1>8. CASE ThreadAccepts(First)
  <2>1. PICK kind \in Kinds : kind = Kind(n)
    BY KindsAreKinds
  <2>2. PICK a \in Answers : a = Answer("accept", c)
    BY DEF Answers, Answer
  <2>3. a.word = "accept" /\ a.to = c
    BY <2>2 DEF Answer
  <2>4. /\ thread[First] = "accepts"
        /\ answers' = [answers EXCEPT ![kind] = Append(@, a)]
        /\ UNCHANGED said
    BY <1>2, <1>3, <1>8, <2>1, <2>2 DEF ThreadAccepts, Reply
  <2>5. /\ ~Pending(kind, c) /\ step[First] = stage[c]
        /\ pc[c] = "hear" /\ said[c] = <<>>
    BY <1>3, <1>4, <2>1, <2>4 DEF Dialogue
  <2>6. answers[kind] \in Seq(Answers)
    BY DEF Peace, PipesOK
  <2>7. answers'[kind] = Append(answers[kind], a)
    BY <2>4 DEF Shape
  <2>8. Pending(kind, c)'
    <3>1. /\ Len(answers[kind]) + 1 \in DOMAIN answers'[kind]
          /\ answers'[kind][Len(answers[kind]) + 1] = a
      BY <2>6, <2>7, AppendAnswer
    <3>2. PICK i \in DOMAIN answers'[kind] : answers'[kind][i] = a
      BY <3>1
    <3> QED
      BY <2>3, <3>2 DEF Pending
  <2>9. \/ /\ step[First] < 3 /\ thread'[First] = "reads"
           /\ step'[First] = step[First] + 1 /\ UNCHANGED connected
        \/ /\ step[First] = 3 /\ thread'[First] = "over"
           /\ connected' = connected \cup {c} /\ UNCHANGED step
    BY <1>3, <1>8, Names DEF ThreadAccepts, Shape
  <2>10. ClientsAreChildren' /\ EarlierAreServed'
    BY <1>1, <2>4, <2>9 DEF Peace, ClientsAreChildren, EarlierAreServed
  <2>11. RoundOK'
    <3>1. Dialogue(n)'
      BY <1>1, <1>3, <2>1, <2>4, <2>5, <2>8, <2>9 DEF Dialogue
    <3> QED
      BY <1>1, <1>2, <3>1 DEF RoundOK
  <2>12. PipesOK'
    <3>1. \A k2, answer : Meant(k2, answer) => MeantNow(k2, answer)
      BY <1>1 DEF Meant, MeantNow
    <3>2. MeantNow(kind, a)
      BY <1>1, <1>3, <2>1, <2>3, <2>5 DEF MeantNow
    <3>3. ASSUME NEW k2 \in Kinds
          PROVE  /\ answers'[k2] \in Seq(Answers)
                 /\ \A i \in DOMAIN answers'[k2] : MeantNow(k2, answers'[k2][i])
                 /\ Single(answers'[k2])
      <4>1. /\ answers[k2] \in Seq(Answers) /\ Single(answers[k2])
            /\ \A i \in DOMAIN answers[k2] : Meant(k2, answers[k2][i])
        BY DEF Peace, PipesOK
      <4>2. CASE k2 # kind
        <5>1. answers'[k2] = answers[k2]
          BY <2>4, <4>2 DEF Shape
        <5> QED
          BY <3>1, <4>1, <5>1
      <4>3. CASE k2 = kind
        <5>1. \A i \in DOMAIN answers[kind] : answers[kind][i].to # a.to
          BY <2>3, <2>5 DEF Pending
        <5>2. Single(answers'[kind])
          BY <2>6, <2>7, <4>1, <4>3, <5>1, AppendAnswer DEF Single
        <5>3. /\ answers'[kind] \in Seq(Answers)
              /\ \A i \in DOMAIN answers'[kind] :
                   answers'[kind][i] = a \/ \E j \in DOMAIN answers[kind] :
                                             answers'[kind][i] = answers[kind][j]
          BY <2>6, <2>7, AppendAnswer
        <5>4. \A i \in DOMAIN answers'[kind] : MeantNow(kind, answers'[kind][i])
          BY <3>1, <3>2, <4>1, <4>3, <5>3
        <5> QED
          BY <4>3, <5>2, <5>3, <5>4
      <4> QED
        BY <4>2, <4>3
    <3> QED
      BY <3>3, PipesChange
  <2> QED
    BY <1>6, <2>10, <2>11, <2>12 DEF Peace
<1>9. ASSUME ThreadRejects(First)
      PROVE  FALSE
  BY <1>4, <1>9 DEF ThreadRejects, Dialogue
<1> QED
  BY <1>7, <1>8, <1>9 DEF ThreadStep

-----------------------------------------------------------------------------
(* The clients' steps in peace                                               *)

\* The client of the present round says its word; no other has anything to say.
LEMMA SayPeace ==
  ASSUME Shape, Peace, NEW k \in Slots, k <= round[First], Say({k})
  PROVE  Peace'
<1>1. PICK c \in Processes : c = {k} /\ c # First
  BY Names
<1>2. /\ pc[c] = "say" /\ stage[c] \in 1..3 /\ k \in Nat /\ round[First] \in Nat
      /\ pc' = [pc EXCEPT ![c] = "hear"]
      /\ said' = [said EXCEPT ![c] = Append(@, Script[stage[c]])]
      /\ UNCHANGED <<round, stage, thread, step, answers, connected>>
  BY <1>1, RoundsAssumption DEF Say, Shape, threads, history, Slots
<1>3. k = round[First]
  <2>1. ~(k < round[First])
    BY <1>1, <1>2 DEF Peace, EarlierAreServed
  <2> QED
    BY <1>2, <2>1
<1>4. /\ pc'[c] = "hear" /\ pc'[First] = pc[First]
      /\ \A p \in Processes \ {c} : pc'[p] = pc[p] /\ said'[p] = said[p]
  BY <1>1, <1>2, Names DEF Shape
<1>5. \A j \in Slots : {j} \in Processes /\ (j # k => pc'[{j}] = pc[{j}] /\ said'[{j}] = said[{j}])
  BY <1>1, <1>4, Names
<1>6. ClientsTalk'
  BY <1>2, <1>4 DEF Peace, ClientsTalk
<1>7. ClientsAreChildren'
  <2>1. \A p \in Processes : pc'[p] # "unborn" => pc[p] # "unborn"
    BY <1>2, <1>4
  <2>2. \A j \in Slots : pc'[{j}] = "unborn" => pc[{j}] = "unborn" /\ said'[{j}] = said[{j}]
    BY <1>1, <1>4, <1>5
  <2> QED
    BY <1>2, <2>1, <2>2 DEF Peace, ClientsAreChildren
<1>8. EarlierAreServed'
  <2>1. \A j \in Slots : j < round[First] => j # k
    BY <1>2, <1>3
  <2> QED
    BY <1>2, <1>5, <2>1 DEF Peace, EarlierAreServed
<1>9. RoundOK'
  <2>1. Pending(Kind(k), c)' <=> Pending(Kind(k), c)
    BY <1>2 DEF Pending
  <2>2. CASE pc[First] = "join"
    <3>1. Dialogue(k)
      BY <1>3, <2>2 DEF Peace, RoundOK
    <3>2. /\ thread[First] = "reads" /\ ~Pending(Kind(k), c)
          /\ step[First] = stage[c] /\ said[c] = <<>>
      BY <1>1, <1>2, <3>1 DEF Dialogue
    <3>3. said'[c] = <<Script[stage[c]]>>
      BY <1>2, <3>2 DEF Shape
    <3>4. Dialogue(k)'
      BY <1>1, <1>2, <1>4, <2>1, <3>2, <3>3 DEF Dialogue
    <3> QED
      BY <1>2, <1>3, <1>4, <2>2, <3>4 DEF RoundOK
  <2>3. CASE pc[First] = "left"
    <3>1. /\ stage[c] = 1 /\ ~Pending(Kind(k), c) /\ thread[First] = "none"
      BY <1>1, <1>3, <2>3 DEF Peace, RoundOK
    <3> QED
      BY <1>1, <1>2, <1>3, <1>4, <2>1, <2>3, <3>1 DEF RoundOK
  <2>4. CASE pc[First] = "loop"
    BY <1>1, <1>2, <1>3, <2>4 DEF Peace, RoundOK
  <2> QED
    BY <2>2, <2>3, <2>4 DEF Shape
<1>10. PipesOK'
  <2>1. \A j \in Slots : pc[{j}] = "hear" => pc'[{j}] = "hear"
    BY <1>1, <1>4, <1>5
  <2>2. \A kind \in Kinds : \A i \in DOMAIN answers[kind] :
          answers[kind][i].word = "terminate" => pc'[First] = "left" /\ round'[First] > Rounds
    BY <1>2, <1>4 DEF Peace, PipesOK, Meant
  <2> QED
    BY <1>2, <2>1, <2>2, PipesStay DEF Peace
<1> QED
  BY <1>6, <1>7, <1>8, <1>9, <1>10 DEF Peace

\* A client that takes no answer away from another one hears its own accept, or the
\* server's last word.
LEMMA HearPeace ==
  ASSUME Shape, Peace, NEW k \in Slots, k <= round[First], round[{k}] = k,
         Hear({k}), ~robbed'
  PROVE  Peace'
<1>1. PICK c \in Processes : c = {k} /\ c # First
  BY Names
<1>2. PICK kind \in Kinds : kind = Kind(k)
  BY KindsAreKinds
<1>3. PICK got : got = answers[kind]
  OBVIOUS
<1>4. /\ pc[c] = "hear" /\ stage[c] \in 1..3 /\ k \in Nat /\ round[First] \in Nat
      /\ got # <<>>
      /\ answers' = [answers EXCEPT ![kind] = <<>>]
      /\ \A i \in DOMAIN got : got[i].word # "terminate" => got[i].to = c
      /\ \/ stage[c] = 3 /\ pc' = [pc EXCEPT ![c] = "left"] /\ UNCHANGED stage
         \/ /\ stage[c] < 3 /\ IsAccept(got)
            /\ pc' = [pc EXCEPT ![c] = "say"] /\ stage' = [stage EXCEPT ![c] = @ + 1]
         \/ stage[c] < 3 /\ ~IsAccept(got) /\ pc' = [pc EXCEPT ![c] = "quit"] /\ UNCHANGED stage
      /\ UNCHANGED <<round, thread, step, said, connected>>
  <2>1. k \in Nat
    BY DEF Slots
  <2>2. Hear(c) /\ Kind(round[c]) = kind /\ answers[kind] = got
    BY <1>1, <1>2, <1>3
  <2>3. /\ pc[c] = "hear" /\ got # <<>> /\ answers' = [answers EXCEPT ![kind] = <<>>]
        /\ UNCHANGED <<round, thread, step, said, connected>>
    BY <2>2 DEF Hear, threads
  <2>4. \A i \in DOMAIN got : got[i].word # "terminate" => got[i].to = c
    BY <2>2 DEF Hear
  <2>5. \/ stage[c] = 3 /\ pc' = [pc EXCEPT ![c] = "left"] /\ UNCHANGED stage
        \/ /\ stage[c] < 3 /\ IsAccept(got)
           /\ pc' = [pc EXCEPT ![c] = "say"] /\ stage' = [stage EXCEPT ![c] = @ + 1]
        \/ stage[c] < 3 /\ ~IsAccept(got) /\ pc' = [pc EXCEPT ![c] = "quit"] /\ UNCHANGED stage
    BY <2>2 DEF Hear
  <2>6. stage[c] \in 1..3 /\ round[First] \in Nat
    BY Names DEF Shape
  <2> QED
    BY <2>1, <2>3, <2>4, <2>5, <2>6
<1>5. got \in Seq(Answers) /\ Single(got) /\ \A i \in DOMAIN got : Meant(kind, got[i])
  BY <1>3 DEF Peace, PipesOK
<1>6. 1 \in DOMAIN got
  BY <1>4, <1>5
<1>7. /\ pc'[First] = pc[First]
      /\ \A p \in Processes \ {c} : pc'[p] = pc[p] /\ stage'[p] = stage[p]
  BY <1>1, <1>4, Names DEF Shape
<1>8. \A j \in Slots : {j} \in Processes /\ (j # k => /\ {j} # c
                                                   /\ pc'[{j}] = pc[{j}]
                                                   /\ stage'[{j}] = stage[{j}])
  BY <1>1, <1>7, Names
<1>9. DOMAIN answers' = Kinds /\ answers'[kind] = <<>>
      /\ \A k2 \in Kinds : k2 # kind => answers'[k2] = answers[k2]
  BY <1>4 DEF Shape
<1>10. \A p : ~Pending(kind, p)'
  BY <1>9 DEF Pending
<1>11. \A k2 \in Kinds : \A p : k2 # kind => (Pending(k2, p)' <=> Pending(k2, p))
  BY <1>9 DEF Pending
\* before the last word, what is read is one answer at most
<1>12. ASSUME round[First] \in Slots
       PROVE  Pending(kind, c) /\ IsAccept(got) /\ \A p : Pending(kind, p) => p = c
  <2>1. \A i \in DOMAIN got : got[i].word # "terminate"
    BY <1>5, <1>12, RoundsAssumption DEF Meant, Slots
  <2>2. \A i \in DOMAIN got : got[i].word = "accept" /\ got[i].to = c
    BY <1>4, <1>5, <2>1 DEF Meant
  <2>3. \A i \in DOMAIN got : i = 1
    BY <1>6, <2>2, <1>5 DEF Single
  <2>4. Len(got) = 1
    <3>1. Len(got) \in Nat /\ DOMAIN got = 1..Len(got)
      BY <1>5
    <3>2. Len(got) \in DOMAIN got
      BY <1>6, <3>1
    <3> QED
      BY <2>3, <3>2
  <2> QED
    BY <1>3, <1>6, <2>2, <2>4 DEF Pending, IsAccept
<1>13. PipesOK'
  <2>1. ASSUME NEW k2 \in Kinds
        PROVE  /\ answers'[k2] \in Seq(Answers)
               /\ \A i \in DOMAIN answers'[k2] : MeantNow(k2, answers'[k2][i])
               /\ Single(answers'[k2])
    <3>1. CASE k2 = kind
      <4>1. <<>> \in Seq(Answers) /\ DOMAIN <<>> = {}
        OBVIOUS
      <4> QED
        BY <1>9, <3>1, <4>1 DEF Single
    <3>2. CASE k2 # kind
      <4>1. \A a : Meant(k2, a) => MeantNow(k2, a)
        <5>1. \A j \in Slots : Kind(j) = k2 => j # k
          BY <1>2, <3>2
        <5> QED
          BY <1>4, <1>7, <1>8, <5>1 DEF Meant, MeantNow
      <4> QED
        BY <1>9, <3>2, <4>1 DEF Peace, PipesOK
    <3> QED
      BY <3>1, <3>2
  <2> QED
    BY <2>1, PipesChange
<1>14. CASE k < round[First]
  <2>1. stage[c] = 3 /\ c \in connected /\ pc'[c] = "left" /\ UNCHANGED stage
    <3>1. stage[c] = 3 /\ c \in connected
      BY <1>1, <1>4, <1>14 DEF Peace, EarlierAreServed
    <3>2. pc' = [pc EXCEPT ![c] = "left"] /\ UNCHANGED stage
      BY <1>4, <3>1
    <3> QED
      BY <3>1, <3>2 DEF Shape
  <2>2. ClientsTalk'
    BY <1>4, <1>7, <2>1 DEF Peace, ClientsTalk
  <2>3. ClientsAreChildren'
    <3>1. \A p \in Processes : pc'[p] = "unborn" <=> pc[p] = "unborn"
      BY <1>4, <1>7, <2>1
    <3> QED
      BY <1>4, <1>8, <2>1, <3>1 DEF Peace, ClientsAreChildren
  <2>4. EarlierAreServed'
    BY <1>1, <1>4, <1>8, <2>1 DEF Peace, EarlierAreServed
  <2>5. RoundOK'
    <3>1. CASE round[First] \notin Slots
      BY <1>4, <1>7, <3>1 DEF Peace, RoundOK, Shape
    <3>2. CASE round[First] \in Slots
      <4>1. PICK n \in Slots : n = round[First] /\ n # k
        BY <1>4, <1>14, <3>2
      <4>2. pc'[{n}] = pc[{n}] /\ {n} # c
        BY <1>8, <4>1
      <4>3. Pending(Kind(n), {n})' <=> Pending(Kind(n), {n})
        BY <1>10, <1>11, <1>12, <3>2, <4>2, KindsAreKinds
      <4>4. Dialogue(n) => Dialogue(n)'
        BY <1>4, <2>1, <4>2, <4>3 DEF Dialogue
      <4> QED
        BY <1>4, <1>7, <2>1, <4>1, <4>2, <4>3, <4>4 DEF Peace, RoundOK
    <3> QED
      BY <3>1, <3>2
  <2> QED
    BY <1>13, <2>2, <2>3, <2>4, <2>5 DEF Peace
<1>15. CASE k = round[First]
  <2>1. pc[First] = "join" /\ Dialogue(k)
    <3>1. pc[First] # "loop"
      BY <1>1, <1>4, <1>15 DEF Peace, RoundOK
    <3>2. pc[First] # "left"
      BY <1>1, <1>2, <1>12, <1>15 DEF Peace, RoundOK
    <3> QED
      BY <1>15, <3>1, <3>2 DEF Peace, RoundOK, Shape
  <2>2. \/ /\ thread[First] = "reads" /\ step[First] = stage[c] + 1 /\ stage[c] < 3
           /\ said[c] = <<>> /\ pc'[c] = "say" /\ stage'[c] = stage[c] + 1
        \/ /\ thread[First] = "over" /\ stage[c] = 3 /\ c \in connected
           /\ pc'[c] = "left" /\ UNCHANGED stage
    <3>1. \/ /\ thread[First] = "reads" /\ step[First] = stage[c] + 1 /\ said[c] = <<>>
          \/ thread[First] = "over" /\ stage[c] = 3 /\ c \in connected
      BY <1>1, <1>2, <1>12, <1>15, <2>1 DEF Dialogue
    <3>2. step[First] \in 1..3
      BY Names DEF Shape
    <3>3. step[First] = stage[c] + 1 => stage[c] < 3
      BY <1>4, <3>2
    <3>4. IsAccept(got)
      BY <1>12, <1>15
    <3> QED
      BY <1>4, <3>1, <3>3, <3>4 DEF Shape
  <2>3. ClientsTalk'
    BY <1>4, <1>7, <2>2 DEF Peace, ClientsTalk
  <2>4. ClientsAreChildren'
    <3>1. \A p \in Processes : pc'[p] = "unborn" <=> pc[p] = "unborn"
      BY <1>4, <1>7, <2>2
    <3>2. \A j \in Slots : pc'[{j}] = "unborn" => j # k
      BY <1>1, <2>2
    <3> QED
      BY <1>4, <1>8, <3>1, <3>2 DEF Peace, ClientsAreChildren
  <2>5. EarlierAreServed'
    <3>1. \A j \in Slots : j < round[First] => j # k
      BY <1>4, <1>15
    <3> QED
      BY <1>4, <1>8, <3>1 DEF Peace, EarlierAreServed
  <2>6. RoundOK'
    <3>1. ~Pending(Kind(k), {k})'
      BY <1>2, <1>10
    <3>2. Dialogue(k)'
      BY <1>1, <1>4, <2>2, <3>1 DEF Dialogue
    <3> QED
      BY <1>4, <1>7, <1>15, <2>1, <3>2 DEF RoundOK
  <2> QED
    BY <1>13, <2>3, <2>4, <2>5, <2>6 DEF Peace
<1> QED
  BY <1>4, <1>14, <1>15

-----------------------------------------------------------------------------
(* The theorems                                                              *)

\* Peace lasts until an answer is taken away.
LEMMA NextPeace ==
  ASSUME Shape, Peace, NEW p \in Processes, MainStep(p) \/ ThreadStep(p), ~robbed'
  PROVE  Peace'
<1>1. CASE /\ p = First
           /\ Fork(First) \/ ForkFails(First) \/ Join(First) \/ Finish(First) \/ ThreadStep(First)
  BY <1>1, ForkPeace, NextRoundPeace, FinishPeace, ThreadPeace
<1>2. ASSUME NEW k \in Slots, p = {k}, round[p] = k, k <= round[First], Say(p) \/ Hear(p)
      PROVE  Peace'
  BY <1>2, SayPeace, HearPeace
<1> QED
  BY <1>1, <1>2, WhoActs

\* In the first round the first client has not been passed over yet; in peace the
\* clients of all earlier rounds were served.
LEMMA PeaceServes ==
  ASSUME Shape, Peace, ~robbed
  PROVE  FirstOK /\ ServedUnlessRobbed /\ OnlyServerForks
<1>1. ASSUME round[First] > 1
      PROVE  1 \in Slots
  <2>1. round[First] \in 1..(Rounds + 1)
    BY DEF Shape
  <2> QED
    BY <1>1, <2>1, RoundsAssumption DEF Slots
<1>2. FirstOK
  BY <1>1 DEF FirstOK, FirstIsServed, Peace, EarlierAreServed
<1>3. ServedUnlessRobbed
  BY DEF ServedUnlessRobbed, Peace, EarlierAreServed
<1>4. OnlyServerForks
  BY DEF OnlyServerForks, Peace, ClientsTalk
<1> QED
  BY <1>2, <1>3, <1>4

\* The invariant is inductive: peace, or what is left of it after a theft.
LEMMA NextIInv ==
  ASSUME IInv, [Next]_vars
  PROVE  IInv'
<1>1. Shape'
  BY NextShape DEF IInv
<1>2. ASSUME NEW p \in Processes, MainStep(p) \/ ThreadStep(p)
      PROVE  (robbed' => FirstOK') /\ (~robbed' => Peace')
  <2>1. CASE robbed'
    <3>1. Shape /\ FirstOK /\ (robbed \/ Peace)
      BY PeaceServes DEF IInv
    <3> QED
      BY <1>2, <2>1, <3>1, ServiceStays
  <2>2. CASE ~robbed'
    <3>1. ~robbed
      BY <1>2, <2>2
      DEF MainStep, ThreadStep, Fork, ForkFails, Say, Hear, Quit, Join, Finish, ThreadReads,
          ThreadAccepts, ThreadRejects, history
    <3>2. Peace'
      BY <1>2, <2>2, <3>1, NextPeace DEF IInv
    <3> QED
      BY <2>2, <3>2
  <2> QED
    BY <2>1, <2>2
<1>3. CASE UNCHANGED vars
  <2>1. UNCHANGED <<pc, round, stage, thread, step, said, answers, connected, robbed>>
    BY <1>3 DEF vars, mains, threads, pipes, history
  <2>2. PipesOK => PipesOK'
    <3>1. PipesOK => \A kind \in Kinds : \A i \in DOMAIN answers[kind] :
                       answers[kind][i].word = "terminate" =>
                         pc'[First] = "left" /\ round'[First] > Rounds
      BY <2>1 DEF PipesOK, Meant
    <3> QED
      BY <2>1, <3>1, PipesStay
  <2>3. RoundOK => RoundOK'
    BY <2>1 DEF RoundOK, Dialogue, Pending
  <2>4. Peace => Peace'
    BY <2>1, <2>2, <2>3 DEF Peace, ClientsTalk, ClientsAreChildren, EarlierAreServed
  <2> QED
    BY <1>1, <2>1, <2>4 DEF IInv, FirstOK, FirstIsServed
<1> QED
  BY <1>1, <1>2, <1>3 DEF Next, IInv

\* The invariant holds throughout: the dialogue of the present round is at one of its
\* places, earlier clients are served, and each answer in a pipe has its reader.
THEOREM InvariantHolds == Spec => []IInv
BY InitIInv, NextIInv, PTL DEF Spec

\* The first client is served in full, whatever the others do to each other later.
THEOREM FirstClientIsServed == Spec => []FirstIsServed
<1>1. IInv => FirstIsServed
  BY PeaceServes DEF IInv, FirstOK
<1> QED
  BY <1>1, InvariantHolds, PTL

\* As long as no answer was taken away, every client of an earlier round was served.
THEOREM EveryClientIsServed == Spec => []ServedUnlessRobbed
<1>1. IInv => ServedUnlessRobbed
  BY PeaceServes DEF IInv, ServedUnlessRobbed
<1> QED
  BY <1>1, InvariantHolds, PTL

\* And as long as no answer was taken away, no client becomes a server.
THEOREM ServerForksAlone == Spec => []OnlyServerForks
<1>1. IInv => OnlyServerForks
  BY PeaceServes DEF IInv, OnlyServerForks
<1> QED
  BY <1>1, InvariantHolds, PTL
=============================================================================
