# Specifications of UOProjects

TLA+ models, model-checking runs and machine-checked proofs for the programs of
this repository, a collection of course projects.  Modelled are the programs that
have a state to get wrong: the chat service DuckChat (`CIS432/Project 2`), whose UDP
servers relay to each other; the three programs that fork, signal and share pipes
(`CIS415`); and the two search trees (`CIS313`).

## 1. Inventory

### DuckChat server: `CIS432/Project 2/server.c`, `duckchat.h`

A single-threaded loop around `select` on one UDP socket and a timer of 60 s.

* **State.** `usernames` (name -> address), `rev_usernames` (address -> name),
  `active_usernames`, `channels` (channel -> name -> address); for the relay,
  `serverAddrs` (neighbours that joins are flooded to), `hardstateAddrs` (servers a
  join was ever received from), `linkingCtoS` (channel -> servers its says go to),
  `uids` (the last 63 identifiers seen), `hardstate` (timer phase).
* **Operations.** Requests of clients: login, logout, join, leave, say, list, who,
  keep-alive (no handler).  Datagrams of servers: S2S join, leave, say.  The timer
  renews all links, and at each second expiry erases neighbours.
* **Interaction.** Clients and servers exchange datagrams only: they can be lost,
  duplicated and reordered, and a server can die and be started again.
* **Hard.** Three tables keyed differently that must agree; a flood that depends on
  an echo; duplicate suppression with a bounded window; a leave protocol that cuts
  links on the strength of momentary state; renewals against loss; undefined
  behaviour in two corners.
* **Correct means.** The tables agree; only empty channels disappear; a text reaches
  the members of its channel and nobody else; a join reaches every server; links
  are known at both ends; a copy of a say is not shown twice; the server survives.

### DuckChat client: `CIS432/Project 2/client.c`, `raw.c`

A loop around `select` on the terminal and a UDP socket.

* **State.** `active_channel`, `subscribed_channels`, `server`, `cont`.
* **Operations.** `/join`, `/leave`, `/switch`, `/who`, `/list`, `/exit`, a line to
  say; printing the texts received.
* **Interaction.** It never waits for an answer: what it believes about its channels
  is updated when a request is *sent*.  `recvfrom` overwrites `server`.
* **Hard.** Commands queued behind others, failing sends, lost requests, a server
  that restarts: the two sides' ideas of the membership can drift apart.  Nothing is
  printed while its user is in the middle of a line.
* **Correct means.** A line goes to a joined channel; no say that arrives is refused;
  the views agree once all requests are in; speakers and members see what is said.

### Publish/subscribe server: `CIS415/Assignment2/DIServer.c`

A process that forks some publishers, then some subscribers, one per round.

* **State.** A loop counter and `record[]` in every process; a pipe from each client to
  the thread that serves it; one pipe for the answers to all publishers (`ServerFD`)
  and one for those to all subscribers (`ServerFD2`).
* **Operations.** A round makes a pipe, a child and a thread, and joins the thread.  The
  client says connect, topic and end and reads an answer to each; the thread answers
  each with accept or, at the first that is wrong, reject.
* **Interaction.** `read` takes whatever is in the pipe.  The answers of all rounds are in
  one pipe, and the last answer of a client is not waited for by anyone.
* **Hard.** A client that is slow to read its last answer races with the next one: an
  answer is taken by the wrong client, its owner waits for ever and its thread with
  it; a client that reads two answers at once takes them for a rejection, and a
  rejected client goes on in the loop it was forked in and becomes a server.
* **Correct means.** Every client is accepted in its round; only the server forks; all
  come to an end.  None holds always; the properties say exactly until when.

### Job scheduler: `CIS415/Lab6/mcp.c`

* **State.** A doubly linked ring of jobs with a count, the active job and the next signal
  of each; the flag `schedule`; the processes.
* **Operations.** Launch the script; at each alarm stop the active job and resume the
  next; delete a job whose process has been waited for.
* **Interaction.** The handler of the alarm sets the flag at any moment; only a `wait`
  that it interrupts looks at it.  Programs end when they like.
* **Hard.** The signal a job gets alternates (USR1, STOP, CONT), and is out of step with
  what runs as soon as the active job ends; the ring loses members anywhere.
* **Correct means.** The ring is the set of children; every job gets its turn; how many run
  at once is bounded and in the end is one; nobody is killed; mcp ends last.

### Program launcher: `CIS415/Assignment1/MCP.c`

* **State.** `pid[]` and the loop counter of each process; pending signals and alarms.
* **Operations.** Fork a child per line; each child sends SIGUSR1 to the group, waits for
  it, sets an alarm, pauses, reports on itself and executes; the parent waits.
* **Hard.** The alarm may ring before the pause; a failed exec goes on in the loop of forks
  with an inherited `pid[]`; waits on pids that are 0, -1 or a sibling's.
* **Correct means.** Nobody is left behind; no line runs more often than the failures
  before it explain; the launcher ends unless an alarm was missed.

### Search trees: `CIS313/Assignment2/BST.java`, `CIS313/Assignment3/BST.java`

* **State.** A tree, with a height in each node in the second one.
* **Operations.** `insert` (in the second with rotations), `remove`, `find`.
* **Hard.** `remove` neither rebalances nor updates heights, and later insertions rotate by
  the stale ones; equal titles and rotations.
* **Correct means.** Each call answers and changes the contents as it would for a bag of
  titles (`insert` keeps equal titles); insertions keep the tree balanced.

### Not modelled

| part | why |
|---|---|
| `raw.c`, terminal mode | two calls of `tcsetattr` |
| `CIS432/Project1`, UDP echo | `server.c` does not compile (a character constant initialises a pointer), and the client sends one datagram and reads one |
| `CIS415/Lab6/pipe*.c`, `sigpipe.c` | one writer and one reader in a straight line |
| `CIS313/Assignment1`, palindromes | a word pushed and enqueued, then popped and dequeued, in one call |
| `CIS315/Assignment1/Driver.java`, path counter | one sequential loop over a graph; no state outlives it |
| drivers, data, `helloworld.sml` | console I/O |

Within the modelled programs: what stdio buffers of the client's terminal
(`client.c:423`); `doPublisher`, `enqueue` and `dequeue` of `DIServer.c` and the
harvest of `mcp.c`, which nothing calls; a `fork` that fails in `mcp.c`, where the
program signals pid -1; and the thread attributes that `DIServer.c` destroys before it
uses them, which has no effect with the C library it was written for.

## 2. Modules

| module | models |
|---|---|
| `DuckServer` | all of `server.c`: any number of servers, their clients' requests, and the network between the servers |
| `ChatRoom` | the abstract service: who is present, who is in a room, who hears a text |
| `DuckClient` | all of `client.c`: any number of client processes |
| `DuckChat` | clients and servers together, with a queue of requests per client and of texts to each |
| `DuckRoom` | each server of `DuckServer` seen as a `ChatRoom`: the refinement mapping |
| `DuckRelay` | `DuckServer` with a history of the says each server accepted; its steps without copies (`SpecOnce`) |
| `DuckDoubt` | `DuckChat` with a history of what faults have put in doubt |
| `MCDuckServer`, `MCRelay`, `MCSpread` | instances of `DuckRoom` and `DuckRelay`: bounds, topologies, fairness |
| `MCDuckChat`, `MCDoubt` | instances of `DuckChat` and `DuckDoubt` |
| `ForkLoop` | names for processes that fork in a loop and whose children may fall through into it |
| `DIServer` | the publish/subscribe server: main threads, threads and pipes of all processes |
| `Launcher` | the program launcher: all processes and their signals |
| `JobScheduler` | the scheduler, its ring and the processes of its jobs |
| `Catalog` | how often each title is in the catalog, the abstract specification of both trees |
| `SearchTrees` | the two trees; one action per call |
| `DuckServerProofs`, `DuckNetworkProofs`, `DuckRoomProofs`, `DuckChatProofs`, `DIServerProofs`, `LauncherProofs`, `JobSchedulerProofs`, `SearchTreesProofs` | theorems, one module per module or group of properties |

### From the code to `DuckServer`

Each global of `server.c` is a variable indexed by server.  A `std::map` is a
function on the keys it holds (`Put`, `Erase`).  The lists `serverAddrs`,
`hardstateAddrs` and the values of `linkingCtoS` are sets: their order only matters
in `handle_leave_S2S`, where `Unlink` recovers it from the command line
(`Neighbours`), since all these lists are filled in that order and only ever lose
elements.  The bound 64 of `uids` is the constant `UidLimit`.

One action is one iteration of the loop in `main`: the `recvfrom`, the whole
handler with all its sends, or the whole timer branch.  A request of a client is
received straight from the environment (any client, any request, any time), so
losing, repeating or reordering requests is included.  Datagrams between servers
are kept in the bag `net` until they are handled, and may be handled in any order,
be lost (`Lose`), be duplicated (`Duplicate`) or find nobody (`Drop`).  What a step
sends to clients is in `out`, and is gone with the next step.  The timer may expire
at any time, since nothing relates its 60 s to the speed of the network.  `Kill`
and `Start` are the death and restart of a process; a dead process's variables are
given their initial values, which is what it starts with.

Where the code is exact about details that matter, so is the model:

* `handle_join_message` skips neighbours when the client looks like this server,
  comparing a port in network order with one in host order (`TakenForServer`).
* `handle_join_S2S` means to skip the sender and compares ports of different byte
  orders (`TakenForSender`).  The skip hardly ever happens, the sender gets its own
  join back, and this echo is the only thing that makes the first server link the
  channel itself.  `LinksAreKnown` and `JoinReachesEveryone` rest on it: their
  mutants *correct* the comparison, and the relay stops working.
* `handle_say_S2S` forwards the bytes of its pointer: `Garbage`, ignored by the
  receiver since its first word is no request type.
* `handle_leave_S2S` compares ports only (`Matches`).
* `generating_unique_id` leaks a descriptor per call and returns 0 when none is left
  (`FdLimit`).  Otherwise identifiers are 64 random bits, taken to be new.
* Undefined behaviour has the outcomes a build has: `erase(end())` in a logout ends
  the server (`LogoutCrash`); advancing an erased iterator in `remove_Addr` either
  goes on or ends it (`Timeout`, `SweepCrash`).

A little-endian machine is assumed (`htons` swaps bytes).  Strings are model values,
buffer lengths and the wording of errors are left out.  A `sendto` that fails
towards a server is a lost datagram.

### From the code to `DuckClient` and `DuckChat`

One action is one call of `handle_user_input` or `handle_server_input`, or `main` up
to its loop (`Launch`).  A `sendto` may fail for the request types in `Unsent`
(`Outcomes`).  `requests[c]` holds what client `c` has sent, in order, and `texts[c]`
what waits in its socket.  A client process may be launched again after its exit,
at the same address.  `DuckChat` handles the request at the head of a queue with
the action of `DuckServer` (`Handle`) and hands what it puts in `out` to the
sockets of running clients (`Deliver`).  Requests arrive in order or, with
`LoseRequest`, not at all; that one client's datagrams overtake each other is not
modelled here (`DuckServer` alone has it).

`handle_user_input` does not return before a newline, and its loop around `getchar` keeps
`main` from the socket.  So a line is read in one step, or begun (`BeginLine`) and ended
by a later one; while `typing[c]` holds no text is printed, and nothing forces the user
to end the line.  `IgnoredLine` is a line that sends and changes nothing.  Left out is the
buffer of stdio: of two lines typed at once the second is read when the next key comes.
That only delays a line, and the model lets a line be typed at any moment.

`DuckDoubt` adds two variables that no step looks at.  `doubt[c]` holds the channels
about which client `c` and its server may differ: one when a join or a leave of it was
lost, all when a login or a logout was lost or the server died.  The next join or leave
that the server accepts settles its channel, a logout all of them.  `presumed` holds the
clients whose main could not send its join but made `Common` active all the same, until
the server handles a join of `Common` with no logout behind it in the queue.  (A join
that an earlier process at the address sent does not count: its logout follows, and the
new process is not in the channel after that.)

### From the code to `DIServer`

A process is named by the rounds that led to it (`ForkLoop`): `{}` is the server, `{2}`
the client it forks in round 2, `{2, 3}` the client that one forks after it was
rejected.  A client's `round` is the one that forked it.  One action is one system
call.  `read` returns all that is in a pipe (`Hear`, `ThreadReads`) and blocks when
there is nothing; nobody ever sees an end of file, since every process that reads answers
holds the writing end of their pipe too.  Texts are one word each; whoever reads two has read
no known word (`IsAccept`, `Verdict`).  The pipes `said` need no owner beyond the
client, because the records of all rounds point at the same variable, the present
round's (`Current`).  An answer carries the client it is meant for, which no code
looks at, and `robbed` remembers whether one was ever taken by another.  `stage` and
`step` are the places of the client and the thread in the script, since the code
repeats the same lines for each word.  Failing forks skip a round, a failing
`pthread_create` ends the process.  Printing a record that was never set (a skipped
round) is undefined: `Finish` goes on or ends there.

### From the code to `Launcher`

One action is one system call or one signal.  `pending`, `alarm` and `news` are what the
kernel keeps: SIGUSR1 is blocked in all processes, `SigWait` takes it, `Ring` is the
alarm at any moment.  A fork makes the child a copy: it inherits the array and the
counter.  The array holds, for each line, the set of processes `waitpid` takes its
number for: one child, or any for 0 and -1 (`AnyChild`); pids of siblings are nobody's
children.  `waitpid` with `WUNTRACED | WCONTINUED` also returns for a child that was
stopped or continued (`TakeNews`).  `Report` overruns its buffers, which is undefined:
the child goes on or dies.

### From the code to `JobScheduler`

A job is named by its line.  `next`, `prev`, `active`, `count` and `signo` are the fields
of the structures; `job` is the state of the process in the kernel.  A launched child
sleeps until SIGUSR1 (`waiting`), and after its exec the same signal is deadly
(`Effect`).  The scheduler is two actions, one per `kill`, and the alarm may ring between
them; then its flag waits for the next `wait` that is interrupted.  A `wait` with a zombie to return is not
interrupted.  `At` is the walk of `jobs_del_pid` along the ring.

### From the code to `SearchTrees`

Nodes are records, null a record with height -1 as `height()` returns for it; one
action is one call.  `RotateLeft` and its siblings assign heights where the code does.
`remove` and `find` are the same text in both classes.  `Measured` is the assignment
at the end of `insert`, which only nodes on its path get.  `RebalanceLeft` and
`RebalanceRight` are what `insert` does with a node when the call on its subtree comes back.

The recursive methods are recursive functions on `Trees`, the trees of at most `MaxItems`
levels whatever heights they store, which holds every tree of `MaxItems` nodes.  The
recursion goes by the tree alone, and a method with a second argument returns a function
of it (`InsertBalanced[t][x]`), so that it is well founded whatever the argument is.
`RemoveFrom` has a value for null, where the code would throw; `SearchFinds` and the search
order show that `Remove` never gets there.

## 3. Runs

All bounds are constants of the MC modules and only cut behaviours off: `MaxNet`
holds back new requests while that many server datagrams fly, `MaxUid` limits the
relayed says, `MaxRequests`/`MaxTexts` the requests and texts per client that may
wait when a user types, `MaxAccepted` the says of a history.  `World` names the
events outside the handlers that happen in the instance, `Pausing` the clients whose
users may stop in the middle of a line.

| run | instance | shows |
|---|---|---|
| `rooms` | 1 server, 2 clients, one with two names, 2 channels, timer, restarts | `SessionsAreRegistered`, `MembersAreRegistered`, `CommonIsThere`: the tables agree in every order of requests; `OnlyEmptyChannelsVanish` |
| `room_refinement` | 2 linked servers, two clients at one and one at the other, timer, deaths, restarts | `ImplementsRoom`: the servers implement `ChatRoom`; `SaysReachSessions` |
| `flood` | line of 3 servers, timer, deaths, duplication | `LinksAreKnown`, `JoinsSpread`; `OnlyStrangersArePruned`: the sweep takes no neighbour that counts on the server |
| `repeats` | 2 linked servers, duplication, `UidLimit` 3, descriptors 3 | `TypeOK` with the bound of `uids`; `RepeatsAreFarApart` |
| `spread` | line of 3 servers, clients at the first two, fair network | `JoinReachesEveryone` (liveness); `OnlyIdleServersLeave`; `OnlyLeaversAreCut`, though ports alone are compared |
| `renewals` | 2 linked servers, timer, loss | `RenewalsHeal` (liveness) |
| `chat_views` | 1 server; 2 clients with failing sends, or (`world`) one of them with lost requests, deaths, restarts and the timer too | `ViewsAgree` once requests are in; `ActiveIsSubscribed`; `SaysAreAccepted` |
| `chat_relayed` | 2 linked servers, one client each, one of them (`Pausing`) with half-typed lines, fair loops | `SaysAreShown`, `SaysAreRelayed` (liveness), unless the reader exits, or begins a line and never ends it |
| `interest` | `DIServer`: 2 publishers, a subscriber, failing forks and threads | `FirstIsServed` always; `ServedUnlessRobbed`, `OnlyServerForks`, `EndsUnlessRobbed` (liveness) until an answer is taken away |
| `scheduler` | 4 lines, programs that end at any time or never, alarms at any time | `RingIsWhole`, `OverrunsArePaidFor`, `ProgramsEndThemselves`; `EveryJobRuns`, `OverrunsEnd`, `McpEndsLast` (liveness) |
| `launcher` | 3 lines, the second cannot be executed; failing forks, children that die or are stopped | `NobodyIsOrphaned`, `RepeatsComeFromFailures`; `EndsUnlessMissed` (liveness) |
| `catalog` | both trees, 4 titles, up to 6 items | `ImplementsCatalog` (refinement); `BalancedUntilRemoval` |

Why these bounds are enough for the cases that matter: two clients suffice to
contend for a name, a channel's last place or a link; two names of one client to
leave an old name behind; a line of three is the smallest network with a server that
must forward, and with one that has two links; `UidLimit` 3 makes the window
overflow with the third say, and three descriptors make identifiers run out;
`MaxRequests` 2 puts a leave behind a say and a say behind a leave.

Two publishers and a subscriber are the smallest server in which a client can take
another's answer and the two kinds of pipes and threads both occur; with three rounds a
robbed client forks in its turn.  Four jobs give a ring in which the active job, its
neighbours and a job that is neither can each be the one that ends.  Three lines put a
failing exec between one line before it and one after.  Six items with four titles are
trees of height three with equal titles, large enough for each of the four rotations
and for insertions that follow removals.

`CHECK_DEADLOCK FALSE` stands where the system may really stop: in `flood`, where all
servers may be killed and none is started again; in `renewals`, where the sweep may end
both; in `scheduler` and `launcher`, which finish, and in `interest`, which finishes or
hangs once an answer was taken.

### Assumptions of the properties

* *Different names.*  `rooms`, `room_refinement` and the chat runs give clients of one
  server different names (`SeparateNames`).  Nothing in `handle_login_message`
  enforces it, and without it the tables fall apart (section 5).
* *One name per client* (`OneNameEach`).  `room_refinement` and the chat runs: after a
  login under a second name the first stays in its channels, and a logout removes only
  the second.
* *Logins and logouts are sent* (`LoginsAreSent`).  `chat_views`: what fails are the sends of
  joins, leaves and says; a login or a logout may be lost on the way.
* *No loss, no restart.*  `LinksAreKnown` and `JoinsSpread` hold while the network loses
  nothing a running server would have got (`SpecReliable`): a lost first join is
  never repeated, and a restarted server has forgotten its links while its
  neighbours consider the channel linked and ignore its joins.
* *Different ports.*  `OnlyLeaversAreCut`: links are cut by port, and the instances have
  their servers on one host.
* *No duplicates.*  `OnlyIdleServersLeave`: a server also answers a copy with a leave.

### Fairness

* `SpreadSpec`: weak fairness for the handling of each join in flight.  A server's
  loop handles whatever its socket holds, and nothing is lost in this instance.
* `RenewSpec`: the timer of a running server keeps expiring, because `select` gives it
  the remaining time and nothing stops it; strong fairness, as the bound `MaxNet`
  disables it at times.  Strong fairness for the joins: one that is sent again and
  again is not lost every time.
* `MCFairChatSpec`: weak fairness of serving the head of each queue and of handling the
  says between servers: the server's loop selects on its socket and handles it in every
  iteration in which it is readable.  Strong fairness of printing a waiting text: `main`
  (`client.c:165-179`) serves the terminal before the socket, and a half-typed line keeps
  it in `getchar`, but each time it comes back to `select` with a text waiting it reads one
  in the same iteration, after the next line if one has begun.  So it prints if it is at
  `select` again and again.  That a line ends is not assumed: the properties allow for
  `[]typing[c]`, the line that is never ended (or the input that has ended, when `getchar`
  returns no newline any more).
* `DIServer!FairSpec`: weak fairness of each main thread and each thread; a system call
  that can return does.
* `JobScheduler!FairSpec`: weak fairness of mcp and of the alarm, which sets the next
  one.  No program has to end.  `OverrunsEnd` and `EveryJobRuns` need no more, since the
  alarm interrupts every `wait` that has no child to return.
* `Launcher!FairSpec`: weak fairness of each process and each alarm.  Programs end here
  unless they are stopped, otherwise the launcher may well wait for ever.

No fairness is assumed of users, deaths, restarts, loss, duplication, failing calls, or
of whoever stops and continues programs.

## 4. Proofs

The theorems hold for every value of the constants that meets the assumptions of the
modules.  For `DuckServer`: addresses are distinct and ports have 16 bits, no server is
its own neighbour or lists one twice, and the window has room for one identifier.  For
the other programs: the number of rounds and of lines is a natural number, there are no
more publishers than rounds, and the broken lines are lines.

### DuckChat

* `DuckServerProofs!TypeCorrect`: `Spec => []TypeOK`.  `TypeOK` is inductive: it
  holds the bound of `uids` (each append is followed by the trim) and that all lists of
  servers stay within the command line.  One lemma per group of variables and action
  (`Put`, `Erase` and the bag operators are lemmas of their own), then one step per
  action.  The theorems below rest on it.
* `TablesAgree`: assuming `SeparateNames`, `Spec => [](SessionsAreRegistered /\
  MembersAreRegistered /\ CommonIsThere)`.  The inductive invariant is `TypeOK` and
  `Registry`, which adds `OwnNames` to the three: every entry of both tables belongs to
  a client of this server under one of its own names.  Without it a login could take
  over a registered name and a logout could remove another client's entry, so the
  three are not inductive by themselves.  `SessionsStayRegistered` and `CommonStays` are
  its parts that the run `rooms` checks.
* `LogoutsAreSafe`: under the same assumption no step is a `LogoutCrash`, the undefined
  erase of a logout.  It follows from `SessionsAreRegistered` in the state before.
* `DuckNetworkProofs!FloodIsComplete`: `SpecReliable => [](LinksAreKnown /\
  JoinsSpread)`.  Both are proved inductive over `TypeOK`, action by action: a join that
  leaves the network is handled, and then its receiver has linked the channel and
  recorded the sender; a leave removes a link, which `LinksAreKnown` allows; a link
  that appears comes with its joins; a death empties the server's own tables.
  `JoinsReach` is the half about clients.
* `PruningIsSafe`: `SpecReliable => OnlyStrangersArePruned`.  What the sweep erases is in
  `Stale`, and by `LinksAreKnown` a neighbour with a link is known or about to be.
* `CutsAreRight`: assuming `DistinctPorts`, `Spec => OnlyLeaversAreCut`, over `TypeOK`:
  the only handler that takes a link away is that of a leave, and `Unlink` finds its
  sender's entry.
* `DuckRoomProofs!ServersAreRooms`: assuming `SeparateNames` and `OneNameEach`,
  `Spec => ImplementsRoom`, the refinement of `ChatRoom` for any topology and through
  loss, copies, deaths and restarts.  The invariant `RoomInv` is `TypeOK`, `Registry` and
  `RegisteredArePresent`, that a registered name belongs to a client with a session; with
  it a client is in a channel under the name of its session and no other (`OneEntry`),
  so that what a handler does to a map of names is what `ChatRoom` does to a set of
  clients.  There is one lemma per request that maps it to its abstract step
  (`LoginEnters`, `LogoutExits`, `JoinJoins`, `LeaveLeaves`, `DieCollapses`); the rest are
  stutters or a say.  Without `OneNameEach` the refinement is false: a client's second
  login leaves its first name in the channels.
* `SaysGoToSessions`: with the same assumptions, `Spec => SaysReachSessions`, relayed says
  included, from `RoomInv` in the state before.
* `ChannelsGoWhenEmpty`: `Spec => OnlyEmptyChannelsVanish`, over `TypeOK` alone and with
  no assumption on names: each handler that erases a channel has just emptied it.
* `DuckNetworkProofs!WindowsKeepCopiesOut`: `HistorySpec => []RepeatsAreFarApart` in any
  network.  The invariant `HistoryOK` says that `uids` is the end of the history, all of
  it while it is shorter than the window (`Window`), and that a dead server has neither.
* `LeaversAreIdle`: `SpecOnce => OnlyIdleServersLeave`.  `SpecOnce` is `Spec` without copies
  and with a descriptor left for every identifier; both are needed, since a say that is
  known already is answered with a leave whoever is logged in.  The invariant
  `SaysAreOnce`: a say in flight is there once, its identifier was given out, is not in the window
  of its receiver and is on no other datagram to it.
* `DuckChatProofs!BeliefsAgree`: `ChatSpec => ActiveIsSubscribed`.  The invariant
  `Beliefs` says that there is one way only for a client to be out of step, `Common`
  active and nothing subscribed, which main leaves behind when its join is not sent.
* `ViewsStayTogether` and `SaysAreTaken`: `DoubtSpec => []ViewsAgree` and
  `DoubtSpec => SaysAreAccepted`, for any number of clients and servers, queues of any
  length, and all of `ChatNext`: sends that fail, requests that are lost, servers that
  die.  Assumed are `SeparateNames`, `OneNameEach`, that there are finitely many names
  (the texts of a say are put in some order), and `LoginsAreSent`, that `sendto` refuses
  neither a login nor a logout: a client whose login is not sent believes in a session
  the server never gave it, and a process whose logout is not sent leaves its entry to
  the next one, and neither leaves a trace on the wire that `doubt` could note.  (Lost on
  the way they may be.)

  Both properties speak of the head of a queue or of an empty one, so the invariant has to
  say what every request on its way will find.  `Agree` does, for one client, over the
  places of its queue: what the requests before place `k` do to a channel is that the last
  one that touches it joins it (`JoinedBy`), that it closes it (`LeftBy`), or that none
  touches it (`Untouched`), and then what the server has now counts.  `Follows` says that
  behind the whole queue this is what the client has subscribed to, `SaysFit` that each say
  in the queue finds its channel joined, and that one said now would, and `JoinsFit` that each
  join finds a session.  A client's step appends a request (`PushJoin`, `PushLeave`,
  `PushLogout`, ...), a step of its server takes the front one away together with what
  it did (`Pop`, with `Settles` for the effect and `Moved` for the handler's), and a death
  of the server leaves every channel in doubt (`Forgotten`).  `WireOK` adds that clients
  only ever hear from their own server, so that the address `recvfrom` overwrites stays
  the same, and `RoomInv` what the tables are.

* `ChatRunsServers`: `ChatSpec => Spec`, assuming finitely many names.  A step of the chat
  takes the request at the head of a queue and hands it to the handler of `DuckServer`, so it is
  a step of `DuckServer` if that request comes from the address the process was given and
  goes to the right server.  `recvfrom` could turn a client to another address; it does not,
  since whoever is in a channel is a client of that server (`AtHome`), so that nobody gets
  a text from any other, which `WireOK` says of all that is in a queue or a socket.  With it, every theorem above about `Spec` holds of the chat, and
  `ChatsAreRooms` draws the main one: `ChatSpec => ImplementsRoom`.
* `AddressStays`: `ChatSpec => [](server = Home)`, the part of `WireOK` about `client.c:620`.

### The programs that fork

* `DIServerProofs`: `FirstClientIsServed`, `EveryClientIsServed` and `ServerForksAlone`
  for any number of publishers and subscribers.  The properties speak of the past of
  the rounds and of nobody's state in between, so the invariant says all the rest.
  `Peace` holds until an answer is taken away: clients are children of the server, those
  of earlier rounds were accepted (`EarlierAreServed`), the client and the thread of the
  present round are in one of four situations (`Dialogue`), and every answer in a pipe
  is the only one for its client, who waits for it (`PipesOK`).  `FirstOK` stays when `Peace` is over: no theft is possible in the first
  round, since there is nobody else to read.
* `JobSchedulerProofs`: `TypeCorrect`, `RunningIsPaidFor` and `NobodyIsKilled` for any
  number of lines.  The ring is described without a walk: there is a set of jobs on which
  `next` and `prev` are each other's inverse, no smaller part of which `next` stays in,
  with as many elements as `count`, and which holds the children (`RingOK`, `Circle`); insertion and deletion keep that
  (`AddKeepsCircle`, `DeleteKeepsCircle`).  `SignalsOK` relates the next signal of a job to
  the state of its process, and `DebtOK` counts the runners by where mcp is and by whether
  the active job is one of them: the bound of `OverrunsArePaidFor` alone is not inductive,
  since two `kill`s in a row may start two jobs.
* `RingWhole`: `Spec => []RingIsWhole`, the walk along the ring that `jobs_del_pid` takes.
  `RingOK` says nothing of steps, so this needs an induction over them.  The library's
  induction theorems take an operator as a parameter; instead the least element of a set
  of naturals is taken (`WFMin`, `Least`), and induction stated for sets
  (`SetInduction`).  With it the walk exists and stays in the circle, meets everyone,
  since no smaller set is closed under `next`, and therefore nobody twice.
* `LauncherProofs!ChildrenEndFirst`: `Spec => []NobodyIsOrphaned` for any file.  A process
  in its loop has only children of the lines before its counter (`BirthsOK`, which needs
  `LinesOK` to know that the child of a fork is new), `pid[]` has each child at its own
  line (`PidsOK`), so that the wait of that line finds it, and the children of lines that
  were waited for have ended or were once stopped (`WaitsOK`).
* `RepeatsAreBounded`: `Spec => []RepeatsComeFromFailures`.  By `FailuresOK` all the lines a
  process was forked for but the last are broken ones.  So the processes of line `k` are
  told apart by what they have besides `k`, a set of broken lines before it: taking `k`
  away is an injection into those, and there are no more processes than such sets.

### The search trees

The theorems of `SearchTreesProofs` hold for any set of titles and any `MaxItems`.  They are
inductions over trees, and again the induction is one over numbers, the levels of
`TreesUpTo`: the least level at which a statement fails (`WFMin`, `Least`, `Upwards`) gives
`TreeInduction`, for a set of trees that contains null and every node whose subtrees it
contains.  By the same way up the levels, each recursive function is shown to exist and to
satisfy its equation (`SizeIs`, `CopiesIs`, `InsertBalancedIs`, ...).

* `SearchOrder`: `Spec => []TreeInv`: the trees have at most `MaxItems` nodes and are in search
  order (`Ordered`: nothing greater to the left, nothing smaller to the right).  Heights are
  left out on purpose: after a removal they mean nothing, and the order must survive the
  rotations they cause.  For that each rotation is shown to leave a tree `Alike` in what it
  contains, and `InsertBalancedAdds` that no rotation follows a null: only null has height -1,
  so a subtree that is higher by two is a node, and by `Fresh` the inner node that a double
  rotation lifts is there, since what `insert` returns has a subtree on the side the title
  went to (`LeftShapes`, `RightShapes`).
* `InsertionsBalance`: `Spec => []BalancedUntilRemoval`.  That the tree is balanced is not
  enough for the induction: `InsertBalancedGrows` adds that a tree grows by one level or none,
  and that if it grew and had a node before, the subtree the title went to is the higher one.
  That decides which of the two rotations is right.
* `TreesAreCatalogs`: `Spec => ImplementsCatalog`, for both trees and through removals.
  Insertion adds one copy (`Added`), removal takes one (`Dropped`, with `HangLeftHangs` for the loop that
  hangs one subtree under the other), and `SearchFinds` says that in search order `search`
  finds a title exactly if there is a copy: with equal titles some lie to either side
  after rotations, and it is enough that it meets one.

### Only model-checked

* All liveness: fairness and `ENABLED` are out of the prover's reach.
* No safety property: each that a run checks is stated by a theorem.

## 5. Where the documents and the code part

All of this is part of the models, as the code has it; the properties are stated so as
to say what is left.

* `server.c:161` says "server runs for ever".  When two clients log in under one name
  and log out, the second logout erases `usernames.end()` (`LogoutCrash`).
  `LogoutsAreSafe` is the theorem that nothing but shared names leads there.
* `sub_form.txt:44` says that no inappropriate messages are sent.  `handle_say_S2S` sends
  the bytes of its pointer (`server.c:1233`), and a say is never relayed further than one
  server: `SaysAreRelayed` promises one hop.
* `sub_form.txt:30` says that joins are broadcast correctly.  A neighbour that has sent no
  join within two minutes is erased from `serverAddrs` (`server.c:1273`), and later
  joins do not go to it.  `OnlyStrangersArePruned` says which neighbours are safe.
* `DIServer.c:510` says "if it makes it here all connections have been made".  A client
  that reads its last answer late can lose it to, or take that of, the next one:
  `ServedUnlessRobbed` is what is true.
* `remove_Addr` advances an erased iterator (`server.c:1266-1274`).
* Comments at `server.c:536`, `548` and `646` say that handlers look a user up in
  `usernames`; they look the address up in `rev_usernames`.
* `server.c:648-650` puts the membership check before the sending of a say; the linked
  servers are sent it first (`server.c:692`).
* `generating_unique_id` never closes its descriptor (`server.c:1255`): in the end all
  identifiers are 0, against `sub_form.txt:34`.
* Only links are renewed, so that a lost first join is not (`server.c:205`), against
  `sub_form.txt:36`; links of a dead neighbour are never removed, against
  `sub_form.txt:38`.
* A server that left a channel is not linked again when a user joins there, since its
  own link suppresses the join (`server.c:489`).

* `client.c:423`: one key of a line that is not ended keeps the client from printing
  anything (`[]typing[c]` in `SaysAreShown` and `SaysAreRelayed`).
* `client.c:112` makes `Common` active before the join is sent, and keeps it when the send
  fails: says go to a channel the server knows nothing of (`presumed` in `DuckDoubt`).
* `MCP.c:63-64`: the alarm of one second may ring before the pause, and then the child
  sleeps for ever and the launcher with it (`EndsUnlessMissed`).
* `mcp.c:263` follows `jobs->active` after a script without programs (`StartCrash`); and two
  jobs run at a time for a while after one has ended (`OverrunsArePaidFor`, `OverrunsEnd`).
* `mcp.c:141-155` puts a child whose `fork` failed into the ring with pid -1, and signals
  for it would go to every process of the user.  `JobScheduler` assumes that every `fork`
  succeeds, so what `ProgramsEndThemselves` and `NobodyIsKilled` say is said for that case.
* `CIS313/Assignment3/BST.java:44` says of equal titles "This means there is a duplicate, so
  do nothing".  The branch is never reached: `<= 0` above it takes equal titles for smaller
  ones, and the tree keeps every copy.  `ImplementsCatalog` says what the code does: a title
  inserted twice must be removed twice.
* `CIS313/Assignment3/README.md:3` says that "search, insertion and deletion all take at most
  O(log n) time".  `remove` hangs one subtree under the other and rebalances nothing
  (`BST.java:84`), so that this holds up to the first removal: `BalancedUntilRemoval`.  What
  survives removals is the contents (`ImplementsCatalog`) and the order (`SearchOrder`).
  `CIS313/Assignment2/README.md` promises "logrithmic search time" for a tree that never
  rotates; no property claims it.

## 6. What is left

1. DuckChat: stdio's buffer in the client; a client at a port that `TakenForServer`
   confuses; servers on two hosts at one port, where `OnlyLeaversAreCut` fails.
2. Proofs: `ViewsAgree` when logins and logouts fail to be sent too, with a doubt that begins
   at the failed send.
3. Larger instances of `launcher` (two broken lines) with a coarser step, since each
   failed exec doubles the processes.
