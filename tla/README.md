# A verification of the calculation-node tree

OSLab5-7 is a client, a server and a tree of calculation processes that talk over
ZeroMQ. A user types `create id parent_id` and `exec id n k_1 ... k_n`; the server
broadcasts the command down a tree of forked processes; answers and heartbeats
travel back up. This directory holds TLA+ modules for the parts whose correctness
depends on the order of events, TLC runs that check them on small instances, and
TLAPS proofs of the properties that matter most.

Paths below are relative to the repository. The core is
`src/server/core/calc_tree_node_main.cpp` (class CalcTreeNode),
`src/server/core/server_entity/calc_tree_dummy.hpp` (CalcTree),
`src/server/core/server_entity/calc_tree_node.hpp` (CalcNodeRoot, CommandRecord)
and `lib/infrastructure/connection_wrapper/` (the queues).

## 1. The system

| Component | State | Operations | Interacts with |
|---|---|---|---|
| `Client` | its two queues | authorize, send a command, wait for one response, `pass` | Server, by two message paths |
| `Validator` thread | - | pull, forward requests | pushes to the server's `eventsList` |
| `Server::run` | `eventsList`, `pusher` (the last client) | authorize, forward a command to `commandsQueue`, forward a response to the client | CalcTree thread, by two queues |
| `CalcTree` thread (root, id 0) | `rootNodesList`, `commandRecordsList` | handle a command, a response, check heartbeats | its children, by message paths |
| `calc_tree_node` processes | `children`, `commandRecordsList` | the same, and the KillSignal; executes an `exec` | parent and children |
| `CommandRecord` | type, received responses, was one good | account a good or bad response | lives in the node's list |
| `CalcNodeRoot` (parent's view of a child) | pid, id, `lastHeartBeat`, `PushQueue` | fork and exec, push, KillSignal on destruction | the child process |
| `PushQueue` / `PullQueue` | a queue, a thread, a flag, a socket | push, stop, stopWhenQueueEmpty / pull, stop | ZeroMQ |
| `ConcurrentQueue` | list, mutex, condition variable | push, wait_and_pop, try_pop, unload | all threads |
| Messages, serialization | - | to text and back | queues |
| `ClientParser`, `SelfIPInfo`, value objects | a parsed command; a port; a flag | parse; choose a port; get/set | client; all; queues |

What makes each part correct:

* *Tree of nodes*: it is as commanded; each command is answered once, and an answer is
  that of a node that executed it; each death is reported once, and only dead nodes are
  reported or killed; no sequence of commands brings the server down.
* *Records*: each response finds a record, and it is the record of its own command.
* *Heartbeats*: a check sees every heartbeat that was sent in time, and no silence passes
  for longer than a period and the time of the loop's own work.
* *PushQueue / PullQueue*: first in, first out; nothing lost before a stop, only a last
  part after it; `stop` ends; a flush loses nothing.
* *ConcurrentQueue*: as if the calls came one after the other; nobody sleeps while there
  is an element.
* *Server, client, validator*: an answer goes to the client that asked; a client displays
  for a command the answer to it; connecting and waiting end.
* *Serialization, parser*: a line is what it is written as; what is read back is what was
  sent, on every hop.
* *Ports*: no two processes get the same (not modelled).

What is hard here:

* **Broadcast without identity.** A command for another node goes to *all* children.
  A record of it is kept, but neither records nor responses say which command they
  belong to: a response is accounted to the first record of its type, and the record
  is complete when it has as many responses as there are children *now*.
* **Order.** A node merges the messages of its parent and of all its children.
* **Deaths.** A child is dead when its heartbeats stop; a report, an erasure and a
  KillSignal that may get lost follow. Processes die at any time, fork may fail.
* **Threads.** Every message path has two threads with flags that are polled.
* **Time.** Creating a child takes a second, in which a node handles nothing.
* **One pusher.** The server sends every response to the client that authorized last, and
  a client takes whatever comes next for its answer. All clients of a host share an
  endpoint, where messages for the one before may still arrive.
* **Text.** Each class is written and read by two functions that have to agree, and
  numbers lose digits on the way.

## 2. Modules

| Module | Models |
|---|---|
| `Messages` | the message classes; constructors keep the argument order of the C++ ones |
| `CommandRecords` | the record list: `findRecord` (with no end test), the accounting operators |
| `CalcTree` | the root and all node processes: one action per handler, for any number of processes |
| `Clients` | CalcTree with clients of some discipline; properties under it; the refinement mapping to TreeService |
| `Reports` | the clients of Clients with fresh identifiers, and a note of how many commands were submitted when each answer came |
| `TreeService` | abstract: each command is answered once, as if executed one at a time |
| `MCCalcTree`, `MCReports` | the command sets and scripts of the runs |
| `HeartbeatMonitor` | the clock and the loop of one parent, its check of the heartbeats element by element |
| `MessagePath` | PushQueue, sockets, PullQueue, thread by thread |
| `Channel` | abstract: a FIFO of which a last part may be lost when the sender ends |
| `ConcurrentQueue` | the mutex, the list and the condition variable, for any threads |
| `Session` | clients, the validator, the server's thread, what ZeroMQ keeps of a path, and the CalcTree thread by its promise |
| `MCSession` | the clients of its run |
| `Serialization` | the text of every message class, and reading it back |
| `Parser` | the client's attempts to parse a line |
| `TypedLine` | a line through parser, connections, tree and back to the display |
| `MCTypedLine` | the lines and messages of its run |
| `CalcTreeProofs`, `ClientsProofs`, `HeartbeatProofs`, `MessagePathProofs`, `ConcurrentQueueProofs`, `SessionProofs`, `TypedLineProofs`, `SequenceLemmas` | theorems (section 5) |

`ConcurrentQueue` justifies that `MessagePath` takes a queue for a sequence;
`MessagePath` implements `Channel`, which are the steps `CalcTree` takes on a path
(append, take the head, cut off a last part); `CalcTree` implements `TreeService` as
long as the tree is a chain. In other trees it does not (section 4), so that `Session` takes
of the CalcTree thread only what always holds: a command gets no answer, one, or several, in
any order, and deaths are reported between them.
`TypedLine` puts `Parser` and `Serialization` together and leaves open which node answers.
`CalcTree` and `Session` pass messages as records: `TypedLine` justifies it.

### CalcTree and the code

Processes are named by pid, 0 is the server. `down[p]` and `up[p]` are the paths to
and from the parent of `p`; `down[0]` is `commandsQueue`, `up[0]` is `eventsList`, kept
whole, which is what the client is sent. CalcTree and CalcTreeNode have the same
handlers line by line, so that one action models both; the one difference, that the
root never executes, is in `IsExecutor`. (The root appends its record before the
broadcast, nodes after; as the handler is one step for the others, it is the same.)

A handler is one action: it runs to its end in one thread, and what other processes
see of it are messages, appended in the order of the calls. A message that is taken
by a process comes from the head of *any* of its paths, because paths are merged in
the order of arrival.

* `CreateHere` is handleCreate to the response, with the fork; the new process
  "runs" at once. That it starts while its parent sleeps a second is no difference
  for the messages, and the time is in HeartbeatMonitor.
* `CreateForkFails`: fork may fail at any create that a process would do (`ForksFail`), and
  does when there is no pid left. CalcNodeRoot's constructor throws, `~PushQueue` joins a null
  thread, the process is lost. The `catch` that would push BadCreateResp is not reached.
* `RedirectCommand`: broadcast, or the answer of `handleDeadEnd`; a record in both cases.
* `RunOffTheEnd`: `findRecord` finds nothing. Undefined behaviour: the process is lost,
  or the list's sentinel passes for a record.
* `EraseOverdue`: one overdue child; the report, the erasure, and what the dispatch
  thread still sends of its queue and the KillSignal before `stop` joins it. Several
  at once are several of these actions with nothing in between.
* `Lingers`: ZeroMQ's context waits without limit for a peer that does not come back;
  a parent that closes the path to a dead child may be stuck there for good.
* `Exit`: the destructors after the loop. The paths to the children get two more
  KillSignals each, and may be cut anywhere.
* `Crash`: a process dies; the messages it had pushed and not sent are gone. Messages
  to its children are left on the path: no later ones follow, so that any prefix is
  what a child that handles some of them sees, as far as safety is concerned.
* The numbers of an exec are one payload `k`, the index of the command, that stands
  for their sum too.

The observer `ranOff` is no state of the program: it holds the processes whose search
has run off the list.

### HeartbeatMonitor and the code

Time is counted in ticks of 100 ms, the pause of an idle iteration. An iteration of the
parent's loop takes no time but for that pause and the second after a fork. `Iterate` is an
iteration that creates nobody; the loop of `checkHeartbeat` goes on from it with one action
for each element (`PassNode`, `EraseNode`, `EndOfCheck`), each with a `timeNow` of its own,
and `node` is its iterator: after an `erase` it has moved past the next child without a look.
`erase` runs `~CalcNodeRoot`, whose `stop` joins a dispatch thread that may be asleep for
100 ms: no tick or one. The ZeroMQ context that is destroyed with the connection waits
for the peer to take what it was sent, which a dead child never does: `EraseNode` of a dead
child may take `Forever`, and the parent is `Stuck` (`Lingers` in CalcTree). A living child
reads on until it has its KillSignal.

A child sends a heartbeat in each iteration of its own loop. That loop too may be kept by a
creation, so that all that is known is that a living child sends one in `CreateTicks`
(`DueToBeat`); any others may come in between, and heartbeats of different children arrive in
any order. `lastSent` is an observer.

### Session and the code

A client's `pc` is where its main thread is: in waitTillAuthAccepted ("connecting"), at the
prompt, in the `pull` of waitAndPullRespFromQueue ("waiting"), in `pass`. The queues and
threads of a path are one sequence (see MessagePath): `sent[c]` leads from a client to the
validator, `down[c]` from the PushQueue that the server made for `c`. Clients of one host
have one endpoint (port 5001), so that at most one of them runs (`StartFails`: `bind`
throws and nobody catches) and it reads every path that leads there, in any order.

* `AuthorizeByRequest` and `AcceptAuthorization` are authorizeByRequest, cut at the point
  where its thread may block: the assignment to `pusher` destroys the old PushQueue, which
  drops what its thread has not sent and waits for the peer to have the rest.
* `RedirectToClient` with a null pusher is the end of the process.
* `End`: what a dead client had received is lost with it, what is still on the server's side
  stays for the next client that binds the endpoint. `Restart` is the same for the server;
  a client notices nothing and does not authorize again.
* The validator is `Forward`; it is on another thread than `Server`, and neither waits
  for the other. `print` has no handler in the tree.
* `TreeHandles` is the point where the tree takes a command, and chooses there how many
  answers will come of it: none (a node is lost, a record was mixed up, see DocLostError),
  one, or several (a create that one node refuses and another does). `open` holds those that
  have not come yet; `TreeAnswers` gives them in any order. Each is an `Answer(cmd, nth)`.
* Three observers. `awaits[c]`: does `c` wait for an answer that is to come? `lag[c]` counts
  the waits of `c` that something else used up and the answers after the first to its
  commands, less the answers it took when none was awaited and those to
  earlier commands that never come. `hosts[c]` are the hosts where somebody authorized when
  `c` did, or later. The variable `took` is what a client displayed last, with the lag at that time.

### TypedLine, Parser, Serialization and the code

A text is a sequence of lexemes: a header, a brace, a comma, a number. What `std::to_string`
and the streams do to numbers is modelled. A double is counted in grains, smaller than the
six decimals that are written. Up to `Precision` (the 2^53 of a double) each number of
grains is a double; beyond it the doubles are further and further apart (`Spacings`), and a
number that is read, or the sum of two (`Plus`), is the `Nearest` of them, of two the even one, or
infinite beyond half a spacing after the largest; `inf` reads back as 0. The band in which doubles
are more than a grain apart, but less than a decimal, is left out. An unsigned takes a minus
sign modulo its width and stops before a fraction. A time is divided by 1000 and multiplied
by it again, which may lose the least bit (of 1005 remains 1004.9999...), and cut off at the
millisecond, towards zero, by `duration_cast`: which times lose depends on their bits, and in
the model any may (`loss`). The loops of `executeHere` and
`getNextVar` are recursive functions (`Sums`, `Cursors`: the cursor before each call). `Serialize`
and `Deserialize` go through the headers level by level, as the virtual functions and the
`define...Type` functions do. The parser's `res` and `parse_happened` are variables that
live from line to line. A message is converted on every connection: from client to server
(by way of the validator) and between the nodes; `place` counts them. `IsFormOf` says when a
line has the documented form of a command (a number may be written in any way that has its
value; the form of the print command is `print tree`, as in commands_list.md), `Settled` what is left of a message after its first connection.

## 3. Runs

All bounds are constants named in the configurations. Every run that passes has,
for each property, a mutant of the code's definitions that violates it: a dropped
guard, an answer pushed twice, a comparison turned around, a wait left out.

| Run | Question | Bounds, and why they suffice |
|---|---|---|
| MCTree | Is the tree what was commanded, and no answer invented or doubled, with identifiers used twice and unknown ones? | 3 processes, 4 commands, two open at a time: siblings, twins, a grandchild, failing forks, dead ends, records that are missing |
| MCAlarms | Do false alarms and a crash kill or report only what they should, and is a node that was reported silent? | 2 processes, beside or below each other, 4 commands, 1 crash, forks that fail, any child may be overdue at any time |
| MCDetection | Is each death reported in the end? | 3 processes on up to 3 levels, 1 crash: a leaf, an inner node, one with siblings |
| MCChain | Does every response of a chain find a record, and is each command answered once and in keeping with a sequential execution? | 4 nodes with the root, 5 commands, two open: creates at the end, refused, unknown; execs above, at and below; commands that overtake answers |
| MCStar | Does every response find a record, and does an exec of an existing node get its answer through the errors of its siblings? | 3 children of the root, 4 commands, two open; fresh identifiers |
| MCHeartbeat | Are only the dead reported, and all of them in time? | 2 children that may both die, whose erasures skip each other, take a tick each or keep the parent for good; 26 ticks, more than the bound of 22 for a death; a period of 6 ticks, of which two creations of 2 and two erasures use every one |
| MCMessagePath | Is a path a channel, with all threads, a stop at any moment and a death? | 2 messages, 4 pushes, sockets that hold 2, 1 death of either side |
| MCQueue | Is the queue correct with notifications outside the mutex? | 2 producers, 2 consumers, 3 pushes |
| MCSession | Who is sent what, what does a client take for its answer, and do connecting and waiting end? | a client with 2 lines, its successor on the same host with 1, a client of another host that takes the server over, 1 end of a client or of the server; each command is answered not at all, once or twice, with 1 second answer or report in all: every pair of these may meet, a third line or a second end repeats them |
| MCTypedLine | Is a line understood, and do its command and its answer survive all conversions? | 2 lines out of 20 commands (numbers that the decimals, and numbers that the doubles do not hold, sums that round on both sides, overflow, stay just below it and come back from the limit, ids at 16 bits) and 29 other lines, most of them nearly one; 3 connections each way; every other message class once between lines |
| DocLostError, DocServerLost | see section 4 | the shortest script that shows it |

Deadlock is not checked in the tree and path runs (commands, ticks and pushes are
bounded, and a system at rest is legal) nor in MCQueue, where consumers that wait
when nobody pushes any more are legal too, nor in MCSession, where everybody may have ended,
and in MCTypedLine, where a client waits for good after `print`.

What they show:

* *TreeAsCommanded, CreateOkIsGenuine, ExecOkIsGenuine, ExecutedOncePerNode, TreeShape*:
  the mixing of anonymous responses loses answers and gives wrong errors (section 4),
  but never a wrong Ok.
* *OnlyErasedAreKilled, DeadStaysSilent, DeathReportedOnce*: even with false alarms
  a node that its parent keeps is never killed, and one that was reported executes
  nothing submitted after the report, also when the KillSignal is lost: not even the first command
  of a client that had none open. `askedBy` notes how many commands there were at the
  report, and the sum of an answer is the number of its command. Identifiers are fresh there, as
  an answer does not tell a node from its twin.
* *CrashIsReported*: for fresh identifiers, at up to three levels, with a parent that may get
  stuck in an erasure. The exception is in the property: an ancestor that does not run (also
  "stuck"). Twins are not covered: they are where it is
  not true (section 4).
* *ImplementsService* (chains): records leaked by dead ends do no harm with one child
  at most. With two it is wrong, see DocLostError.
* *AlwaysFindsARecord* holds for nodes beside each other with fresh identifiers and for chains, and not
  when identifiers are used twice (DocServerLost), nor on two levels: a node with two children
  that gets two execs for one of them may account both answers to the first record, close
  the second with the errors of the other child and pass on three responses for two commands,
  so that its parent runs off its list (`FreshSpec` with `BranchCommands`, six commands).
* *DeathsAreReportedInTime*: the bound is a period, a check for each death (each may
  make the loop skip a neighbour) and the creations in between. A parent that is stuck in
  the erasure of one dead child reports no other, which the property excepts (`Stuck`).
  *OnlyTheDeadAreReported* needs the latency, one creation for each child (the last may be the
  child's own, which keeps it from beating) and a tick for the erasure of each dead child to fit
  in a period. With the server's numbers (period 40 ticks of 100 ms, a creation 11) that is
  three children, latency and deaths 7 together, and a fourth child breaks it (section 4). In
  MCHeartbeat 2 * 2 + 2 = 6 ticks are the period exactly. It is nearly tight: with one death,
  a latency of 1 and a period of 4 TLC finds a living child reported, and with 5 it does not.
* *DispatcherNeverWaits, StopEnds, FlushLosesNothing, ImplementsChannel, PushedIsPulled*:
  `stop` always gets its thread, a flush loses nothing, and a path keeps its order.
* *NoLostWakeup, WaitersAreServed, PopFindsAnItem, Fifo*: `push` may notify without
  the mutex, because `wait_and_pop` tests again.

* *OnlyARestartBreaksIt*: reports and answers come from nodes, nodes from commands, and
  commands from a client that was accepted, so that the pusher is there; a restarted server
  has none, and the first response ends it.
* *AnswersInStep*: if each command has one answer and nobody dies, a client sees
  each answer for its own command. A report, an old AuthorizationAccepted or an answer
  for a predecessor that is taken in a command's wait sets it back by one, and so does a second
  answer to a command; only an answer that is taken when none is awaited, in a `pass` or for a
  `print`, makes up for it, or a command that is never answered, whose wait the late answer of
  another one ends. That the lag is never negative says that nothing makes up for more than
  there was: a client does not get ahead.
* *AnswersGoForward*: the pusher only ever moves on, to clients that authorized later. The
  answer to a command may reach a client of another host that took the server over, or a
  successor, but never a host whose last client authorized before the one that asked,
  although old PushQueues with answers in them live on. A restart that lost the authorization is
  excepted.
* *ConnectingEnds, WaitEnds*: with ends and restarts of clients on one host, and messages left
  for those who are gone. A wait is only promised to end once its answer is given: a command that
  the tree leaves without one (DocLostError) keeps its client for good. Exceptions are in the
  properties: a client of another host that took the pusher over, and a restart of the server.
* *LineIsUnderstood*: each line is taken for the command it is the documented form of, also
  after lines that failed half way, and nothing else is taken for one. Exceptions, all of them
  divergences of section 4, are in the property: the documented `print tree` is refused and `print`
  is taken instead, a `pass` may be a millisecond short, and signs, fractions and enormous
  times are let through where the form has a plain number.
  *MessagesSurvive*: the two directions of every class agree, and what
  six decimals cannot say is lost on the first connection and not again on the others.
  *SumIsShown*: the displayed sum is off by half a last decimal for each number at most and,
  where the running sums are so large that doubles are further apart than decimals, by half
  that distance for each addition; it is 0 if a running sum of the numbers *as they were sent* is
  infinite. The running sums of the numbers typed do not tell, nor does a comparison with
  the largest double: it takes half a spacing more to leave it, and once a sum is infinite it
  stays so.

**Fairness.** CalcTree: a running process's loop takes messages and checks heartbeats
again and again (`while (keep_running) ...`, no handler blocks but for the linger,
which is modelled), so that each handler is weakly fair for each path: `eventsList` is a
FIFO, a message in it is reached. No client is made to submit, no process to die, no false
alarm to happen. MessagePath: weak fairness for each thread, and strong for the
receipt, as a non-blocking `recv` that is tried again and again gets a message that is
there (it may be late any finite number of times). ConcurrentQueue: a call that was begun
goes on, and whoever asks for a mutex again and again gets it (strong fairness, because
the mutex is not always free; POSIX does not promise it, every implementation
provides it). Nobody has to begin a call. Session: the threads of the server, the validator,
the tree and the client's waiting go on (weak fairness: each is a loop that looks at its
queue again, and a step stays possible until it is taken), a `pass` ends; nobody has to
start, type or end. The fairness of `TreeAnswers` is for the answers in `open` only, those that
do come: that a command has one is nowhere assumed.

## 4. Where code and documents disagree

Runs show two; each is a short scenario that a test of one command at a time misses.

* **DocLostError**: with two children, the good answer of an exec comes before the other's
  error. The full record with a good response is never erased; the next exec for an
  unknown node is accounted to it, and no error is sent (requirements.md 3).
* **DocServerLost**: nodes 1 and 2 under the root, `create 1 2`: node 1 refuses,
  node 2 creates, the first response erases the record, the second finds none and the
  server runs off the list (us.md 7).

Two more of the tree show as soon as a script or the server's periods are put into the
models, but have no run of their own:

* a client that sends one command after the other is told that a running node "is manager,
  unavailable or not created": `create 1 0`, `create 2 0`, `exec 1`, `create 3 0`, `exec 3`,
  `exec 1`. The record of the first exec stays (as in DocLostError), is completed by the good
  answer of the second, and the third exec's record is then one response behind;
* four creates in a row at a node keep it from its queue for more than a checking period of
  four seconds, and it reports and kills its first child, which is alive (requirements.md 4,
  lab5_7_reqs.txt, 2; HeartbeatMonitor with Period 40, CreateTicks 11 and MaxChildren 4).

Of the session, all of them behaviours of MCSession that its properties let through by name:

* a response that nobody asked for, the report of a death above all, or a second answer is taken
  for the answer to the next command, and every later answer is one late, against "Ответом на
  команду" in requirements.md 2 and 3 (`AnswersInStep` bounds it);
* a client whose command the tree never answers waits for good (`WaitEnds`), unless something
  that was not meant for it ends the wait;
* after a restart of the server, clients go on typing and the first response meets a null
  pusher (`OnlyARestartBreaksIt`);
* a client of another host takes all responses over, also those for commands of the first,
  whose wait does not end (`AnswersGoForward`, `WaitEnds`);
* an AuthorizationAccepted, or an answer, may be dropped with the old PushQueue when another
  host's client authorizes, and the client waits for good;
* when a client died with undelivered messages, and the next to authorize is of another
  host, the server's thread is stuck in `~PushQueue` until some client is started on the first.

Of the lines, behaviours of MCTypedLine that its properties let through by name (but for the
last, which they bound):

* the documented line `print tree` (commands_list.md 4) is refused: `tryParsePrintTree` takes
  `print` alone;
* `pass 1005` waits for 1004 ms, because 1005 / 1000 * 1000 is 1004.9999... in doubles and
  is cut off (`command_pass.hpp`:10);
* `exec 1 2.5 3` is accepted as two numbers, 0.5 and 3, because `n` stops at the point;
  identifiers with a minus sign wrap (`-1` is node 65535);
* numbers are rounded to six decimals before they are added up, large ones to the next double
  (`exec 1 2 10000000000000000 1` displays 10000000000000000.000000), and an infinite sum is
  displayed as 0.

Others follow from one or two actions and have no run of their own:

* a command without a handler (`print`) is never answered (`IgnoreCommand`);
* BadCreateResp is built with its arguments swapped at the dead end, so that the client
  names the parent (`handleDeadEnd`);
* the same identifier may be created twice under one parent; the second Ok carries the first
  one's pid (`getProcessPidByNodeId`), and both execute;
* a refused create may still be done elsewhere: two answers for one command;
* of two nodes with one identifier under one parent, the heartbeats of each count for the first
  on the list (`IsRefreshed`): the second is reported while it lives, and the death of the first
  goes unseen as long as the second beats;
* when fork fails, the process is lost instead of answering (`CreateForkFails`);
* nodes below a dead node are out of reach and never reported;
* a parent may be stuck for good when it erases a dead child (`Lingers`), and so the server;
* a KillSignal may be dropped with the queue, and the process lives on as an orphan;
* the generator of ports is seeded with the second of the call (`get_ip_func.hpp`:52): two
  nodes created in one second by two parents get one port, the second process cannot bind it
  and ends, and what its parent sends, its KillSignal included, goes to the first.

## 5. Proofs

All theorems hold for every value of the constants, under the assumptions named in the
modules (`ConstantsAssumption`, `TimesAssumption`, `PathAssumption`, `ThreadsAssumption`,
`SessionAssumption`, `NumbersAssumption`, `TypedLineAssumption`): any set of commands, number of processes, crashes, window; any periods and
delays; any messages and number of threads; any lines, numbers and connections. Two theorems on heartbeats have one hypothesis
more, `CreationsFit` (latency, creations and a tick for each death fit in a period); AlwaysFindsTheorem has two, `OnlyUnderTheRoot` and `NobodyIsLost`, and the
theorems on chains have `NobodyIsLost` and `RoomForAll`. The runs of these properties have
constants that satisfy them. `NobodyIsLost` (no crash, no false alarm, no fork that fails while there is room) and `RoomForAll` (as many
processes as there are identifiers asked for, so that no fork fails for want of one) are needed:
a command whose node is lost, or whose fork fails, is not answered as if it were executed.

* `CalcTreeProofs`: **TypeCorrect** (inductive as it stands; what needs care is that the
  heads of paths are messages the handler takes and that `findRecord` and
  `getProcessPidByNodeId` are defined where used), with the lemmas on the record list, and
  **TreeShapeInvariant**, inductive with TypeOK. **OnlyErasedTheorem**: the invariant adds that
  a process that was not forked has empty paths, without which a fork could inherit a
  KillSignal. **TreeIsAsCommanded**, **CreateOkTheorem**, **ExecOkTheorem**: the
  properties speak of the root's answers only; an answer gets there over many paths, so
  that the inductive invariant `GenuineInv` says the same of every message on every
  path: commands on their way down were submitted, answers on their way up are genuine.
  `HistoryKept` (submitted commands, forked processes and their identifiers stay) carries it.
* Also there: **ExecutedOnceTheorem** and **DeathReportedTheorem**. They bound how many equal
  answers there are, and no answer says who gave it. The inductive invariant `ProvenanceInv` says that a note of
  it could be kept: there are tags, a process for each message on its way up and each answer
  the client has, and a set `passed` of the commands that each process has taken, such that
  no two equal answers to an exec, or reports of a death, have the same tag; a tag is true (the
  process has taken that exec, or was erased by its parent); a process takes a command
  only after its parent, and none twice. An answer is tagged when it is given, by a
  process that has just taken the command for the first time, or for a child that
  was on its parent's list till then. Equal answers then map one to one to processes with
  the identifier, which is the bound.
* `ClientsProofs`: **DeadStaysSilentTheorem**, on `ReportsSpec`. Where clients use an identifier
  once, the answer's tag and the report's are the same process. What a process takes after its
  parent erased it was on its path at that time, so that it was submitted before the report
  reached the client: `NoneAfter` says of a path that it holds no later command, and `ReportsInv` says
  so of the paths of erased processes and, through the tags, of the answers they give,
  with no slack for the commands that are open.
* Also there: **AlwaysFindsTheorem**, for any number of nodes and of commands at a time. A record
  does not know its command, takes whichever response of its type comes first, and is closed by the number of children there are *then*, so that nothing can be said of one record.
  The invariant `Credit` says of each type that no more responses are due (commands on
  their way to the nodes and responses on their way back, `Due`) than the open records are
  good for: a record has a slot for each response up to the number of children that it was not
  given yet (`Slots`). A broadcast adds as many to both; a response takes one of the first and at
  most one of the second, also where it closes the record; a new child only adds slots; and
  records that are never closed do no harm here. A response that is due thus has a record.
  `StarShape` says why nothing else happens: nodes under the root answer each command once,
  none is killed, none refuses a create, none is erased, since its identifier is its own.
  Where nodes are lost or have children of their own, `Credit` fails (section 3).
* Also there: **ChainIsTheService**, the safety part of ImplementsService, **ChainFindsTheorem**
  and the invariant of both, **ChainInvariant**, for chains of any length and any number of
  commands at a time. Commands are not numbered in the program, and what a process answers
  depends on what it has handled, while the service answers by what was submitted before the
  command. `ChainInv` says that a note of the numbers could be kept: `D` of the command that
  each message on a path downwards is, and `U` of the command that each one on its way up answers;
  `chain` are the identifiers from the root to the last node there will be once
  all commands are handled, and `born` the command that each is created by (`ChainKnown`). Commands
  do not overtake each other on their way down, none is in two places, and none has passed the node
  that it is for (`Placed`). So when a process takes a command, the nodes that earlier commands
  create are there, or their creates are ahead of it on the way down, and those that later commands
  create are not there yet: the process does what the sequential execution does (lemmas `ChainAnswers`,
  `ChainCreates`, `ChainRedirects`).
  An answer never waits for another one, as each record has one child to hear of;
  what is to be shown is that there is one. A record has no number either, and is taken by whichever
  answer of its type comes first, but all open records of a type are alike (`RecordsAreNew`),
  so that it is enough that there are as many as commands of the type below the process or
  on their way back (`Covered`); those that dead ends leave behind only add to them. As the
  number of an answer leaves `U` when the client gets it, there are always fewer answers of an
  outcome than commands with it while one of these is under way (`OneIsDue`),
  which is the guard of the service's step.
* `HeartbeatProofs`: **ClocksTyped**, **OnlyTheDeadTheorem**, **DetectionTheorem**. Heartbeats of
  a child are handled in the order of their times, and the last that it sent was handled or is
  in the queue (`BeatInv`). `DrainInv` says when the parent was last up to date: there was an
  instant at which it had handled all heartbeats of the children it had then, and since then it
  has slept for a pause, the creation of the others and a tick for each erasure at most
  (`ErasuresFit`). So a living child's last
  heartbeat is as old as its own creations, the latency and the parent's make it, which
  `CreationsFit` keeps within a period; a parent that erases somebody for good checks nobody.
  For the detection, `SweepInv` says that a
  check that has reported nobody has passed only children in time (`HasReported`), `ChecksApart`
  how far apart checks begin, and `DelayInv` that a check
  that came too late for a dead child, or passed it over, has an excuse of its own (`ExcuseFrom`):
  another child it reported, or created. `DeathsInv` bounds those it reported by the deaths. The
  excuses are counted.
* `MessagePathProofs`: **PathIsAChannel** (`MessagePath` implements `Channel`: each step of
  a thread maps to one step of the channel or to none), **DispatcherTheorem**,
  **FlushTheorem**, **PathTyped**. `ThreadsInv` relates the flags to the threads (a dispatcher that
  ended implies that the owner stopped; the loop takes what it saw); `CountInv` says that no message
  is lost between push and pull while nobody died.
* `ConcurrentQueueProofs`: **QueueTyped**, **FifoTheorem**, **PopFindsTheorem**, **WakeupTheorem**.
  NoLostWakeup is not inductive: a woken consumer may find the list empty, or another may
  take the element. The invariant counts: while somebody waits, there are at most as many
  elements as threads on the way to announce or take one.

* `SessionProofs`: **SessionTyped**, **NobodyBreaksIt**, for any
  clients, hosts, lines, ends, restarts and numbers of answers. SessionTyped rests on `KnownInv`,
  which says of every queue whose messages it holds and that a path carries only what a client that
  was started pushed. NobodyBreaksIt is not inductive: `NobodyInv` says that as long as
  nobody has been accepted and nothing was restarted, there is no response anywhere, no
  command, no node, and no client that could type; each step that could end this comes
  with a pusher.
  **AnswersInStepTheorem** needs to know where every command line and every answer is. The
  invariant `PlaceOfEach` says that a note `place` could be kept of it, for each token, a client, a
  line and the number of the answer: a command that the tree has not taken is in one queue, an
  answer that is to come is with the nodes or in one queue, and none is in
  two (`PlaceInv`), although messages move up in the queues, are cut off with an end and
  cross over between clients of a host. The answers of a client that have a place (`Out`), and
  those of them that are not for the line it typed last (`Older`), are counted: while the client
  runs there are at most `lag[c]` of the latter. Another answer that it takes is one of those and
  makes the set smaller; a wait that something else used up adds at most one, a command as many as
  it has answers, less the one that is awaited: one step on cardinalities for each thing that a
  client can take and the tree can do.

* `TypedLineProofs`: **TypeCorrectness**, **LinesAreUnderstood**, **MessagesCross**,
  **SumsAreShown**, for any lines, numbers, range of a double and depth of the tree. The inductive
  invariant is `Inv`. `StateOK` says what a message may be, so that its text exists; `ParserOK`
  what the tries of this line have come to: `parse_happened` only with what one of the types makes
  of it, and as long as none fits, each type that is not left to try refuses it. `TravelOK` says what has become of `pushed` at each stage: the message or
  its settled form in a queue, the text of one of them on the connection. `ShownOK` relates an answer
  to the command that was handled, through the settled command that the node added up.
  Three lemmas carry the steps. *Texts*: what reading finds between a header's braces is what was
  written there, as the cursor is at every other lexeme and no variable is a comma; then
  class by class, header by header. *Lines*: each attempt accepts the documented form of its own
  type, with the number of numbers it says, and nothing that differs in more than signs and
  fractions of plain numbers; a number that is written out is the double it was
  written for, as a double is its own nearest one, and a time below `Precision` loses a
  millisecond at most. *Sums*: rounding to a unit (`RoundedTo`) is idempotent, monotone and moves a
  number by half the unit at most, so that a message that was sent once does not change any more;
  `Nearest` rounds to the unit of the number's size, all of which beyond the grain are
  multiples of a decimal, so that sums of rounded numbers stay rounded. An addition is off by half the
  spacing of its result (`PlusIsNear`), and the running sums by as much as there are numbers
  and additions (`SumsRound`), or infinite from the first that leaves the range.
  That the recursive functions `Sums` and `Cursors` have their defining equation for every
  sequence is proved first, by induction in the form "a set of naturals that has 0 and with
  each number the next, up to n, has them all" (`Upwards`), which needs no operator as a parameter.
  Two mistakes of the models showed in these proofs: a negative time was
  cut off downwards instead of towards zero, and SumIsShown spoke of the sums of the numbers
  typed (section 3); TLC's numbers had met neither.

Every invariant of a passing run but AnswersGoForward is a theorem, and so is what TreeService says
of the steps of a chain. AnswersGoForward is model-checked only: its proof needs the order of the
authorizations in the paths and queues (section 7). So are the following, as liveness and ENABLED are out of the prover's reach:
CrashIsReported, ExecOfExistingIsAnswered, StopEnds, PushedIsPulled, WaitersAreServed,
ConnectingEnds, WaitEnds, and the fairness in TreeService, that every command is answered in the end.

## 6. Not modelled

* `execv` failing: a second copy of the parent goes on with its ZeroMQ context, which is
  undefined.
* `Server::stop`, `~Server` and `~Client`: `launch` never returns and no exception leaves the
  loops, so that they run only when the process is on its way out.
* Texts that no part of the program writes (`convertZMQMsgToMsgOrPass` drops them, which
  `Receive` in TypedLine would show), the classes that nothing constructs
  (AuthorizationDenied, InvalidRequest) and the text of CommandPass, which never leaves
  the client. The clock of `pass`: it may end at any moment.
* `wait_and_pop_while`, `set_endpoint`, `unbind`, `MsgQueue::unload`, which nobody calls. (The
  first throws after its last interval without a look at the list, also when it was notified
  meanwhile: with it, NoLostWakeup would need a second thought.)
* The choice of ports and the sockets that find the host's address (`get_ip_func.hpp`),
  which is I/O: in the models every process has a path of its own.
* `FlagVO` is a Boolean in the modules that read it; exception classes, build files.

PROJECT.json lists every component with its status, and every hazard with the properties
that are about it.

## 7. Plan

Done, in this order: Messages, CommandRecords, CalcTree, Clients and TreeService,
Reports, HeartbeatMonitor, Channel and MessagePath, ConcurrentQueue, Session, Serialization, Parser
and TypedLine, and the proofs above.

Next:

1. A proof of AnswersGoForward, from an invariant that says of every answer on a path, in a queue
   or to come that the path's host is among `hosts` of the client that asked.
2. `Endpoints`: ports drawn by generators that are seeded in the same second, composed with
   CalcTree, where two parents' paths may then lead to one process.
