------------------------------ MODULE DIServer ------------------------------
(***************************************************************************)
(* The publish/subscribe server "CIS415/Assignment2/DIServer.c": a process *)
(* that forks publishers and then subscribers, each with a pipe of its own *)
(* to talk to a thread of the process that forked it.  The answers of all  *)
(* threads to publishers go through one pipe, those to subscribers through *)
(* another.  One step is one system call.                                  *)
(***************************************************************************)
EXTENDS ForkLoop, Sequences

CONSTANTS
  Publishers,  \* argv[1]: so many of the rounds fork publishers, the others subscribers
  MayFail      \* the calls that may fail: "fork", "pthread_create"

ASSUME PublishersAssumption == Publishers \in 0..Rounds

VARIABLES
  pc,         \* where the main thread of each process is
  round,      \* its loop counter: a client's is the round that forked it
  stage,      \* which of its words a client is about
  thread,     \* where the thread is that a process has created in this round
  step,       \* which word the thread is about
  records,    \* the rounds whose element of record[] has been set
  said,       \* the pipe each client writes to
  answers,    \* the pipes ServerFD and ServerFD2
  connected,  \* (history) the clients whose last word was accepted
  robbed      \* (history) has a client read an answer that was for another one?

mains   == <<pc, round, stage, records>>
threads == <<thread, step>>
pipes   == <<said, answers>>
history == <<connected, robbed>>
vars    == <<mains, threads, pipes, history>>

Kind(k) == IF k <= Publishers THEN "Publisher" ELSE "Subscriber"
Kinds   == {"Publisher", "Subscriber"}

\* What a client says, word by word.
Script == <<"connect", "topic", "end">>
Words  == {"connect", "topic", "end", "terminate"}

Answer(word, to) == [word |-> word, to |-> to]

\* The client of the present round.  record[].pipe points to the variable of the
\* loop's body that holds this client's pipe, whatever round the record is of.
Current(p) == Child(p, round[p])

-----------------------------------------------------------------------------
Init ==
  /\ pc = [p \in Processes |-> IF p = First THEN "loop" ELSE "unborn"]
  /\ round = [p \in Processes |-> 1]
  /\ stage = [p \in Processes |-> 1]
  /\ thread = [p \in Processes |-> "none"]
  /\ step = [p \in Processes |-> 1]
  /\ records = [p \in Processes |-> {}]
  /\ said = [p \in Processes |-> <<>>]
  /\ answers = [k \in Kinds |-> <<>>]
  /\ connected = {}
  /\ robbed = FALSE

\* pipe and fork: the child inherits the loop counter and the records so far.  When
\* pthread_create fails the process exits and its child stays.
Fork(p) ==
  /\ pc[p] = "loop"
  /\ round[p] \in Slots
  /\ LET c == Current(p) IN
       /\ round' = [round EXCEPT ![c] = round[p]]
       /\ \/ /\ pc' = [pc EXCEPT ![p] = "join", ![c] = "say"]
             /\ thread' = [thread EXCEPT ![p] = "reads"]
             /\ step' = [step EXCEPT ![p] = 1]
          \/ /\ "pthread_create" \in MayFail
             /\ pc' = [pc EXCEPT ![p] = "left", ![c] = "say"]
             /\ UNCHANGED threads
       /\ records' = [records EXCEPT ![p] = @ \cup {round[p]}, ![c] = records[p]]
  /\ UNCHANGED <<stage, pipes, history>>

\* fork returned -1: perror, and on with the next round.
ForkFails(p) ==
  /\ "fork" \in MayFail
  /\ pc[p] = "loop"
  /\ round[p] \in Slots
  /\ round' = [round EXCEPT ![p] = @ + 1]
  /\ UNCHANGED <<pc, stage, records, threads, pipes, history>>

-----------------------------------------------------------------------------
(* A client                                                                  *)

Say(c) ==
  /\ pc[c] = "say"
  /\ said' = [said EXCEPT ![c] = Append(@, Script[stage[c]])]
  /\ pc' = [pc EXCEPT ![c] = "hear"]
  /\ UNCHANGED <<round, stage, records, threads, answers, history>>

\* A read takes all that is in the pipe, and strcmp knows one accept only.
IsAccept(got) == Len(got) = 1 /\ got[1].word = "accept"

\* The third answer is read and not looked at.
Hear(c) ==
  LET kind == Kind(round[c])
      got  == answers[kind] IN
  /\ pc[c] = "hear"
  /\ got # <<>>
  /\ answers' = [answers EXCEPT ![kind] = <<>>]
  /\ robbed' = (robbed \/ \E i \in DOMAIN got : got[i].word # "terminate" /\ got[i].to # c)
  /\ \/ /\ stage[c] = 3
        /\ pc' = [pc EXCEPT ![c] = "left"]
        /\ UNCHANGED stage
     \/ /\ stage[c] < 3
        /\ IsAccept(got)
        /\ pc' = [pc EXCEPT ![c] = "say"]
        /\ stage' = [stage EXCEPT ![c] = @ + 1]
     \/ /\ stage[c] < 3
        /\ ~IsAccept(got)
        /\ pc' = [pc EXCEPT ![c] = "quit"]
        /\ UNCHANGED stage
  /\ UNCHANGED <<round, records, threads, said, connected>>

\* A rejected client says terminate, and continues the loop it was forked in.
Quit(c) ==
  /\ pc[c] = "quit"
  /\ said' = [said EXCEPT ![c] = Append(@, "terminate")]
  /\ pc' = [pc EXCEPT ![c] = "loop"]
  /\ round' = [round EXCEPT ![c] = @ + 1]
  /\ UNCHANGED <<stage, records, threads, answers, history>>

-----------------------------------------------------------------------------
(* The thread of the present round: pubThr_fn and subThr_fn                  *)

\* What the thread does about the words it reads.  Fault: a word of the script is
\* misspelt.
MisspeltTopic(n, heard) ==
  IF n # 2 /\ heard = <<Script[n]>> THEN "accepts" ELSE "rejects"
MisspeltEnd(n, heard) ==
  IF n < 3 /\ heard = <<Script[n]>> THEN "accepts" ELSE "rejects"
Verdict(n, heard) ==
  CASE heard = <<Script[n]>> -> "accepts"
    [] n < 3 /\ heard = <<"terminate">> -> "over"
    [] OTHER -> "rejects"

ThreadReads(p) ==
  /\ thread[p] = "reads"
  /\ said[Current(p)] # <<>>
  /\ thread' = [thread EXCEPT ![p] = Verdict(step[p], said[Current(p)])]
  /\ said' = [said EXCEPT ![Current(p)] = <<>>]
  /\ UNCHANGED <<mains, step, answers, history>>

\* The answer of a thread.  Fault: none is given to the last word.
SilentEnd(p, word) ==
  IF step[p] = 3 THEN UNCHANGED answers
  ELSE answers' = [answers EXCEPT ![Kind(round[p])] = Append(@, Answer(word, Current(p)))]
Reply(p, word) ==
  answers' = [answers EXCEPT ![Kind(round[p])] = Append(@, Answer(word, Current(p)))]

ThreadAccepts(p) ==
  /\ thread[p] = "accepts"
  /\ Reply(p, "accept")
  /\ \/ /\ step[p] < 3
        /\ thread' = [thread EXCEPT ![p] = "reads"]
        /\ step' = [step EXCEPT ![p] = @ + 1]
        /\ UNCHANGED connected
     \/ /\ step[p] = 3
        /\ thread' = [thread EXCEPT ![p] = "over"]
        /\ connected' = connected \cup {Current(p)}
        /\ UNCHANGED step
  /\ UNCHANGED <<mains, said, robbed>>

ThreadRejects(p) ==
  /\ thread[p] = "rejects"
  /\ Reply(p, "reject")
  /\ thread' = [thread EXCEPT ![p] = "over"]
  /\ UNCHANGED <<mains, step, said, history>>

-----------------------------------------------------------------------------
(* The end of a round, and of the loops                                      *)

\* Fault: main does not wait for the thread (the loop of joins after the loops is
\* commented out in the code).
NotWaited(p) == TRUE
ThreadIsOver(p) == thread[p] = "over"

Join(p) ==
  /\ pc[p] = "join"
  /\ ThreadIsOver(p)
  /\ thread' = [thread EXCEPT ![p] = "none"]
  /\ pc' = [pc EXCEPT ![p] = "loop"]
  /\ round' = [round EXCEPT ![p] = @ + 1]
  /\ UNCHANGED <<stage, records, step, pipes, history>>

\* The records are printed, terminate is written to the publishers' pipe, and the
\* process ends.  Printing a record that was never set is undefined: it may end the
\* process before.
Finish(p) ==
  /\ pc[p] = "loop"
  /\ round[p] > Rounds
  /\ \/ answers' = [answers EXCEPT !["Publisher"] = Append(@, Answer("terminate", p))]
     \/ records[p] # Slots /\ UNCHANGED answers
  /\ pc' = [pc EXCEPT ![p] = "left"]
  /\ UNCHANGED <<round, stage, records, threads, said, history>>

-----------------------------------------------------------------------------
MainStep(p) ==
  Fork(p) \/ ForkFails(p) \/ Say(p) \/ Hear(p) \/ Quit(p) \/ Join(p) \/ Finish(p)
ThreadStep(p) == ThreadReads(p) \/ ThreadAccepts(p) \/ ThreadRejects(p)

Next == \E p \in Processes : MainStep(p) \/ ThreadStep(p)

Spec == Init /\ [][Next]_vars

\* Every process and every thread runs; reads and joins that can return do.
FairSpec == Spec /\ \A p \in Processes : WF_vars(MainStep(p)) /\ WF_vars(ThreadStep(p))

-----------------------------------------------------------------------------
Places == {"unborn", "loop", "join", "say", "hear", "quit", "left"}
Answers == [word : {"accept", "reject", "terminate"}, to : Processes]

TypeOK ==
  /\ pc \in [Processes -> Places]
  /\ round \in [Processes -> Nat]
  /\ stage \in [Processes -> 1..3]
  /\ thread \in [Processes -> {"none", "reads", "accepts", "rejects", "over"}]
  /\ step \in [Processes -> 1..3]
  /\ records \in [Processes -> SUBSET Slots]
  /\ said \in [Processes -> Seq(Words)]
  /\ answers \in [Kinds -> Seq(Answers)]
  /\ connected \subseteq Processes
  /\ robbed \in BOOLEAN

\* The first client is always served: whatever the others do later, its thread gets
\* its three words one by one and accepts each, since nobody else reads from the pipe
\* before the thread has been joined.
FirstIsServed ==
  round[First] > 1 => {1} \in connected \/ pc[{1}] = "unborn"

\* What DIServer.c:510 takes for granted, "if it makes it here all connections have
\* been made", is true as long as no client has read another one's answer: every
\* client of a round that is over has been accepted three times.
ServedUnlessRobbed ==
  robbed \/ \A k \in Slots : k < round[First] => {k} \in connected \/ pc[{k}] = "unborn"

\* And only then do clients turn into servers of their own: a client that continues
\* the loop it was forked in was rejected, which happens to nobody whose answers are
\* not taken away.
OnlyServerForks ==
  robbed \/ \A p \in Processes \ {First} : pc[p] \notin {"quit", "loop", "join"}

\* The server and all its clients come to an end, unless an answer was taken away or
\* the server gave up because it got no thread.
EndsUnlessRobbed ==
  <>(\/ robbed
     \/ pc[First] = "left" /\ round[First] <= Rounds
     \/ pc[First] = "left" /\ \A k \in Slots : pc[{k}] \in {"unborn", "left"})
=============================================================================
