----------------------------- MODULE MessagePath -----------------------------
(***************************************************************************)
(* One message path between two processes: a PushQueue with its dispatch   *)
(* thread, the ZeroMQ sockets, and a PullQueue with its receive thread.    *)
(* Every pair of communicating parts of the system has such a path in      *)
(* each direction; CalcTree models a path as one sequence, which is what   *)
(* this module is shown to amount to.                                      *)
(*                                                                         *)
(* The owner of a queue is the thread that calls its functions.  A pc      *)
(* names the statement a thread is about to execute.                       *)
(***************************************************************************)
EXTENDS Integers, Sequences, SequencesExt

CONSTANTS
  Msg,        \* the messages
  HighWater,  \* how many messages the sockets hold before send blocks
  MaxPushes,  \* how many messages are pushed
  MaxCrashes  \* how many of the two processes die

ASSUME PathAssumption ==
  /\ HighWater \in Nat \ {0}
  /\ MaxPushes \in Nat
  /\ MaxCrashes \in Nat

VARIABLES
  queue,        \* PushQueue::que_ptr
  keepRunning,  \* PushQueue::keep_running
  dispatcher,   \* the pc of _runDispatchThread
  inflight,     \* its msg
  sender,       \* the owner: "open", "flushing" (stopWhenQueueEmpty), "joining",
                \* "closing" (~PushConnection), "gone"
  socket,       \* in the two sockets and between them
  keepReceiving, receiver, got, owner,  \* the same of the PullQueue
  inbox,        \* PullQueue::que_ptr
  pushes,       \* how many messages were pushed
  pulls,        \* how many were pulled
  flushed,      \* stopWhenQueueEmpty was called
  crashes       \* how many of the two processes died

sending == <<queue, keepRunning, dispatcher, inflight, sender, pushes, flushed>>
receiving == <<keepReceiving, receiver, got, owner, inbox, pulls>>
vars == <<sending, socket, receiving, crashes>>

Init ==
  /\ queue = <<>>
  /\ keepRunning = TRUE
  /\ dispatcher = "loop"
  /\ inflight = <<>>
  /\ sender = "open"
  /\ socket = <<>>
  /\ keepReceiving = TRUE
  /\ receiver = "loop"
  /\ got = <<>>
  /\ owner = "open"
  /\ inbox = <<>>
  /\ pushes = 0
  /\ pulls = 0
  /\ flushed = FALSE
  /\ crashes = 0

-----------------------------------------------------------------------------
(***************************************************************************)
(* The owner of the PushQueue.                                             *)
(***************************************************************************)
push(m) ==
  /\ sender = "open"
  /\ pushes < MaxPushes
  /\ queue' = Append(queue, m)
  /\ pushes' = pushes + 1
  /\ UNCHANGED <<keepRunning, dispatcher, inflight, sender, flushed, socket,
                 receiving, crashes>>

\* stop, and disconnect, which does the same: what is in the queue stays there.
stop ==
  /\ sender = "open" \/ (sender = "flushing" /\ queue = <<>>)
  /\ keepRunning' = FALSE
  /\ sender' = "joining"
  /\ UNCHANGED <<queue, dispatcher, inflight, pushes, flushed, socket,
                 receiving, crashes>>

\* Mutant of stopWhenQueueEmpty: it does not wait.
stopAtOnce ==
  /\ sender = "open"
  /\ keepRunning' = FALSE
  /\ sender' = "joining"
  /\ flushed' = TRUE
  /\ UNCHANGED <<queue, dispatcher, inflight, pushes, socket, receiving, crashes>>

\* It polls empty(), and then stops.
stopWhenQueueEmpty ==
  /\ sender = "open"
  /\ sender' = "flushing"
  /\ flushed' = TRUE
  /\ UNCHANGED <<queue, keepRunning, dispatcher, inflight, pushes, socket,
                 receiving, crashes>>

join_thread ==
  /\ sender = "joining"
  /\ dispatcher = "ended"
  /\ sender' = "closing"
  /\ UNCHANGED <<queue, keepRunning, dispatcher, inflight, pushes, flushed,
                 socket, receiving, crashes>>

\* The context of the connection ends when the messages are handed over; a
\* peer's process that is alive accepts them, read or not.
Close ==
  /\ sender = "closing"
  /\ socket = <<>> \/ owner # "gone"
  /\ sender' = "gone"
  /\ UNCHANGED <<queue, keepRunning, dispatcher, inflight, pushes, flushed,
                 socket, receiving, crashes>>

-----------------------------------------------------------------------------
(***************************************************************************)
(* _runDispatchThread.                                                     *)
(***************************************************************************)
DispatchTest ==
  /\ dispatcher = "loop"
  /\ dispatcher' = IF keepRunning THEN "check" ELSE "ended"
  /\ UNCHANGED <<queue, keepRunning, inflight, sender, pushes, flushed, socket,
                 receiving, crashes>>

\* Mutants of DispatchCheck: the thread leaves its loop when there is nothing to
\* do; a message is taken for granted.
DispatchLeaves ==
  /\ dispatcher = "check"
  /\ dispatcher' = IF queue = <<>> THEN "ended" ELSE "pop"
  /\ UNCHANGED <<queue, keepRunning, inflight, sender, pushes, flushed, socket,
                 receiving, crashes>>
DispatchUnchecked ==
  /\ dispatcher = "check"
  /\ dispatcher' = "pop"
  /\ UNCHANGED <<queue, keepRunning, inflight, sender, pushes, flushed, socket,
                 receiving, crashes>>

DispatchCheck ==
  /\ dispatcher = "check"
  /\ dispatcher' = IF queue = <<>> THEN "loop" ELSE "pop"
  /\ UNCHANGED <<queue, keepRunning, inflight, sender, pushes, flushed, socket,
                 receiving, crashes>>

\* wait_and_pop blocks on an empty queue.
DispatchPop ==
  /\ dispatcher = "pop"
  /\ queue # <<>>
  /\ inflight' = <<Head(queue)>>
  /\ queue' = Tail(queue)
  /\ dispatcher' = "send"
  /\ UNCHANGED <<keepRunning, sender, pushes, flushed, socket, receiving,
                 crashes>>

\* The send blocks while the sockets hold all they can.
DispatchSend ==
  /\ dispatcher = "send"
  /\ Len(socket) < HighWater
  /\ socket' = socket \o inflight
  /\ inflight' = <<>>
  /\ dispatcher' = "loop"
  /\ UNCHANGED <<queue, keepRunning, sender, pushes, flushed, receiving, crashes>>

-----------------------------------------------------------------------------
(***************************************************************************)
(* The owner of the PullQueue, and _runRecieveThread.                      *)
(***************************************************************************)
pull ==
  /\ owner = "open"
  /\ inbox # <<>>
  /\ inbox' = Tail(inbox)
  /\ pulls' = pulls + 1
  /\ UNCHANGED <<sending, socket, keepReceiving, receiver, got, owner, crashes>>

stopPulling ==
  /\ owner = "open"
  /\ keepReceiving' = FALSE
  /\ owner' = "joining"
  /\ UNCHANGED <<sending, socket, receiver, got, inbox, pulls, crashes>>

joinReceiver ==
  /\ owner = "joining"
  /\ receiver = "ended"
  /\ owner' = "gone"
  /\ UNCHANGED <<sending, socket, keepReceiving, receiver, got, inbox, pulls,
                 crashes>>

ReceiveTest ==
  /\ receiver = "loop"
  /\ receiver' = IF keepReceiving THEN "recv" ELSE "ended"
  /\ UNCHANGED <<sending, socket, keepReceiving, got, owner, inbox, pulls, crashes>>

\* pullDontWait: there may be no message, or none that has arrived yet.
ReceiveNothing ==
  /\ receiver = "recv"
  /\ receiver' = "loop"
  /\ UNCHANGED <<sending, socket, keepReceiving, got, owner, inbox, pulls, crashes>>

Receive ==
  /\ receiver = "recv"
  /\ socket # <<>>
  /\ got' = <<Head(socket)>>
  /\ socket' = Tail(socket)
  /\ receiver' = "convert"
  /\ UNCHANGED <<sending, keepReceiving, owner, inbox, pulls, crashes>>

\* Mutants of convertZMQMsgToMsgOrPass: the message is put before the others; it
\* is put there as it came from the socket.
convertToFront(msgs, last) == last \o msgs
convertNothing(msgs, last) == Append(msgs, last)

\* The inbox after the message that was received is pushed to it.
convertZMQMsgToMsgOrPass(msgs, last) == msgs \o last

Convert ==
  /\ receiver = "convert"
  /\ inbox' = convertZMQMsgToMsgOrPass(inbox, got)
  /\ got' = <<>>
  /\ receiver' = "loop"
  /\ UNCHANGED <<sending, socket, keepReceiving, owner, pulls, crashes>>

-----------------------------------------------------------------------------
(***************************************************************************)
(* The death of either process, at any time.                               *)
(***************************************************************************)
SenderDies ==
  /\ sender # "gone"
  /\ crashes < MaxCrashes
  /\ sender' = "gone"
  /\ dispatcher' = "ended"
  /\ inflight' = <<>>
  /\ crashes' = crashes + 1
  /\ \E n \in 0..Len(socket) : socket' = SubSeq(socket, 1, n)
  /\ UNCHANGED <<queue, keepRunning, pushes, flushed, receiving>>

ReceiverDies ==
  /\ owner # "gone"
  /\ crashes < MaxCrashes
  /\ owner' = "gone"
  /\ receiver' = "ended"
  /\ crashes' = crashes + 1
  /\ UNCHANGED <<sending, socket, keepReceiving, got, inbox, pulls>>

-----------------------------------------------------------------------------
Dispatch == DispatchTest \/ DispatchCheck \/ DispatchPop \/ DispatchSend
ReceiveStep == ReceiveTest \/ ReceiveNothing \/ Receive \/ Convert

Next ==
  \/ \E m \in Msg : push(m)
  \/ stop \/ stopWhenQueueEmpty \/ join_thread \/ Close
  \/ Dispatch
  \/ pull \/ stopPulling \/ joinReceiver
  \/ ReceiveStep
  \/ SenderDies \/ ReceiverDies

Spec == Init /\ [][Next]_vars

(***************************************************************************)
(* Threads are scheduled; a message in the sockets arrives some time; the  *)
(* owner of the PullQueue pulls, and both owners get through the functions *)
(* they called.  Nobody has to push or to stop.                            *)
(***************************************************************************)
Fairness ==
  /\ WF_vars(Dispatch)
  /\ WF_vars(ReceiveStep) /\ SF_vars(Receive)
  /\ WF_vars(pull)
  /\ WF_vars(sender = "flushing" /\ stop)
  /\ WF_vars(join_thread) /\ WF_vars(Close) /\ WF_vars(joinReceiver)

FairSpec == Spec /\ Fairness

-----------------------------------------------------------------------------
(***************************************************************************)
(* Properties.                                                             *)
(***************************************************************************)
TypeOK ==
  /\ queue \in Seq(Msg)
  /\ keepRunning \in BOOLEAN
  /\ dispatcher \in {"loop", "check", "pop", "send", "ended"}
  /\ inflight \in Seq(Msg)
  /\ sender \in {"open", "flushing", "joining", "closing", "gone"}
  /\ socket \in Seq(Msg)
  /\ keepReceiving \in BOOLEAN
  /\ receiver \in {"loop", "recv", "convert", "ended"}
  /\ got \in Seq(Msg)
  /\ owner \in {"open", "joining", "gone"}
  /\ inbox \in Seq(Msg)
  /\ pushes \in 0..MaxPushes
  /\ pulls \in Nat
  /\ flushed \in BOOLEAN
  /\ crashes \in 0..MaxCrashes

\* Where the messages are from the puller's side on: those the dispatch thread
\* still has, or would still have taken, come last.
arrived == inbox \o got \o socket
path == arrived \o (IF dispatcher = "ended" THEN <<>> ELSE inflight \o queue)

Promise == INSTANCE Channel WITH isCut <- dispatcher = "ended"

\* The threads and sockets amount to a channel that keeps the order, loses
\* nothing in the middle and duplicates nothing, whenever a side stops or dies.
ImplementsChannel == Promise!Spec

\* The dispatch thread never waits in wait_and_pop, where stop() could not
\* reach it: what empty() saw is still there when the thread pops.
DispatcherNeverWaits == dispatcher = "pop" => queue # <<>>

\* stopWhenQueueEmpty loses nothing: once it has joined the thread, every
\* message that was pushed was pulled or is on its way, also the one that the
\* thread had popped when the queue was seen empty.
FlushLosesNothing ==
  (flushed /\ sender \in {"closing", "gone"} /\ crashes = 0)
    => pushes = pulls + Len(arrived)

\* Whoever stops a PushQueue is through with it in the end, unless nobody reads
\* what it sent.
StopEnds ==
  (sender \in {"flushing", "joining", "closing"})
    ~> (sender = "gone" \/ owner # "open")

\* What was pushed is pulled in the end, unless a side stops or dies.
PushedIsPulled ==
  \A n \in 1..MaxPushes :
    (pushes >= n) ~> (pulls >= n \/ sender # "open" \/ owner # "open")
=============================================================================
