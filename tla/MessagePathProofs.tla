-------------------------- MODULE MessagePathProofs --------------------------
(***************************************************************************)
(* A PushQueue, its socket and a PullQueue amount to a Channel, whatever   *)
(* the interleaving of the four threads and whenever a side stops or dies: *)
(* the proof, for every value of the constants of MessagePath.             *)
(***************************************************************************)
EXTENDS MessagePath, SequenceLemmas, TLAPS

-----------------------------------------------------------------------------
(***************************************************************************)
(* The inductive invariant: what the pc of each thread says of its         *)
(* message, and what the state of the sender says of the dispatch thread.  *)
(***************************************************************************)
ThreadsInv ==
  /\ dispatcher # "send" => inflight = <<>>
  /\ dispatcher = "pop" => queue # <<>>
  /\ sender \in {"open", "flushing"} => keepRunning /\ dispatcher # "ended"
  /\ sender \in {"closing", "gone"} => dispatcher = "ended"
  /\ receiver \notin {"convert", "ended"} => got = <<>>

\* As long as nobody died, every message is somewhere, and a flush left the
\* queue empty.
CountInv ==
  /\ flushed => sender # "open"
  /\ crashes = 0 =>
       /\ pushes = pulls + Len(inbox) + Len(got) + Len(socket)
                         + Len(inflight) + Len(queue)
       /\ flushed /\ sender # "flushing" => queue = <<>>

\* Type correctness: every queue, socket and thread of a path stays what it is,
\* whatever is sent and whoever dies.
THEOREM PathTyped == Spec => []TypeOK
<1>1. Init => TypeOK
  <2>1. <<>> \in Seq(Msg)
    BY EmptySeq
  <2>2. 0 \in 0..MaxPushes /\ 0 \in 0..MaxCrashes /\ 0 \in Nat
    BY PathAssumption
  <2>3. QED
    BY <2>1, <2>2, Zenon DEF Init, TypeOK
<1>2. TypeOK /\ [Next]_vars => TypeOK'
  <2> SUFFICES ASSUME TypeOK, [Next]_vars
               PROVE  TypeOK'
    OBVIOUS
  <2>1. ASSUME NEW m \in Msg, push(m) PROVE TypeOK'
    BY <2>1, AppendProperties, PathAssumption DEF push, TypeOK, receiving
  <2>2. CASE stop \/ stopWhenQueueEmpty \/ join_thread \/ Close
    BY <2>2 DEF stop, stopWhenQueueEmpty, join_thread, Close, TypeOK, receiving
  <2>3. CASE DispatchTest \/ DispatchCheck
    BY <2>3 DEF DispatchTest, DispatchCheck, TypeOK, receiving
  <2>4. CASE DispatchPop
    <3>1. Head(queue) \in Msg /\ Tail(queue) \in Seq(Msg)
      BY <2>4, HeadTailProperties DEF DispatchPop, TypeOK
    <3>2. QED
      BY <2>4, <3>1 DEF DispatchPop, TypeOK, receiving
  <2>5. CASE DispatchSend
    BY <2>5, ConcatProperties, EmptySeq DEF DispatchSend, TypeOK, receiving
  <2>6. CASE pull
    <3>1. Tail(inbox) \in Seq(Msg)
      BY <2>6, HeadTailProperties DEF pull, TypeOK
    <3>2. QED
      BY <2>6, <3>1 DEF pull, TypeOK, sending
  <2>7. CASE stopPulling \/ joinReceiver \/ ReceiveTest \/ ReceiveNothing
    BY <2>7 DEF stopPulling, joinReceiver, ReceiveTest, ReceiveNothing, TypeOK,
                sending
  <2>8. CASE Receive
    <3>1. Head(socket) \in Msg /\ Tail(socket) \in Seq(Msg)
      BY <2>8, HeadTailProperties DEF Receive, TypeOK
    <3>2. QED
      BY <2>8, <3>1 DEF Receive, TypeOK, sending
  <2>9. CASE Convert
    BY <2>9, ConcatProperties, EmptySeq
       DEF Convert, convertZMQMsgToMsgOrPass, TypeOK, sending
  <2>10. CASE SenderDies
    <3>1. PICK n \in 0..Len(socket) : socket' = SubSeq(socket, 1, n)
      BY <2>10 DEF SenderDies
    <3>2. socket' \in Seq(Msg)
      BY <3>1, SubSeqProperties DEF TypeOK
    <3>3. crashes' \in 0..MaxCrashes
      BY <2>10, PathAssumption DEF SenderDies, TypeOK
    <3>4. QED
      BY <2>10, <3>2, <3>3 DEF SenderDies, TypeOK, receiving
  <2>11. CASE ReceiverDies
    BY <2>11, PathAssumption DEF ReceiverDies, TypeOK, sending
  <2>12. CASE UNCHANGED vars
    BY <2>12 DEF vars, TypeOK, sending, receiving
  <2>13. QED
    BY <2>1, <2>2, <2>3, <2>4, <2>5, <2>6, <2>7, <2>8, <2>9, <2>10, <2>11, <2>12
       DEF Next, Dispatch, ReceiveStep
<1>3. QED
  BY <1>1, <1>2, PTL DEF Spec

\* Who has a message, and who still runs.
LEMMA ThreadsInvariant == Spec => []ThreadsInv
<1>1. Init => ThreadsInv
  BY DEF Init, ThreadsInv
<1>2. TypeOK /\ ThreadsInv /\ [Next]_vars => ThreadsInv'
  <2> SUFFICES ASSUME TypeOK, ThreadsInv, [Next]_vars
               PROVE  ThreadsInv'
    OBVIOUS
  <2>1. ASSUME NEW m \in Msg, push(m) PROVE ThreadsInv'
    <3>1. queue' = Append(queue, m) /\ queue \in Seq(Msg)
      BY <2>1 DEF push, TypeOK
    <3>2. Append(queue, m) # <<>>
      BY <3>1, AppendProperties
    <3>3. UNCHANGED <<keepRunning, dispatcher, inflight, sender, receiver, got>>
      BY <2>1 DEF push, receiving
    <3>4. QED
      BY <3>1, <3>2, <3>3 DEF ThreadsInv
  <2>2. CASE stop \/ stopWhenQueueEmpty \/ join_thread \/ Close
    BY <2>2 DEF stop, stopWhenQueueEmpty, join_thread, Close, TypeOK, ThreadsInv,
                receiving
  <2>3. CASE Dispatch
    BY <2>3 DEF Dispatch, DispatchTest, DispatchCheck, DispatchPop, DispatchSend,
                TypeOK, ThreadsInv, receiving
  <2>4. CASE pull \/ stopPulling \/ joinReceiver
    BY <2>4 DEF pull, stopPulling, joinReceiver, ThreadsInv, sending
  <2>5. CASE ReceiveStep
    BY <2>5 DEF ReceiveStep, ReceiveTest, ReceiveNothing, Receive, Convert,
                TypeOK, ThreadsInv, sending
  <2>6. CASE SenderDies
    BY <2>6 DEF SenderDies, ThreadsInv, receiving
  <2>7. CASE ReceiverDies
    BY <2>7 DEF ReceiverDies, ThreadsInv, sending
  <2>8. CASE UNCHANGED vars
    BY <2>8 DEF vars, ThreadsInv, sending, receiving
  <2>9. QED
    BY <2>1, <2>2, <2>3, <2>4, <2>5, <2>6, <2>7, <2>8 DEF Next
<1>3. QED
  BY <1>1, <1>2, PathTyped, PTL DEF Spec

\* The dispatch thread never waits in wait_and_pop: what empty() saw is still
\* there, since nobody else pops.
THEOREM DispatcherTheorem == Spec => []DispatcherNeverWaits
<1>1. ThreadsInv => DispatcherNeverWaits
  BY DEF ThreadsInv, DispatcherNeverWaits
<1>2. QED
  BY <1>1, ThreadsInvariant, PTL

\* Nothing is lost between two threads.
LEMMA CountInvariant == Spec => []CountInv
<1>1. Init => CountInv
  <2>1. Len(<<>>) = 0
    BY EmptySeq
  <2>2. QED
    BY <2>1 DEF Init, CountInv
<1>2. TypeOK /\ ThreadsInv /\ CountInv /\ [Next]_vars => CountInv'
  <2> SUFFICES ASSUME TypeOK, ThreadsInv, CountInv, [Next]_vars
               PROVE  CountInv'
    OBVIOUS
  <2>1. /\ Len(inbox) \in Nat /\ Len(got) \in Nat /\ Len(socket) \in Nat
        /\ Len(inflight) \in Nat /\ Len(queue) \in Nat
        /\ pushes \in Nat /\ pulls \in Nat /\ crashes \in Nat
    BY LenProperties, PathAssumption DEF TypeOK
  <2>2. Len(<<>>) = 0
    BY EmptySeq
  <2>3. ASSUME NEW m \in Msg, push(m) PROVE CountInv'
    <3>1. Len(queue') = Len(queue) + 1
      BY <2>3, AppendProperties DEF push, TypeOK
    <3>2. QED
      BY <2>1, <2>3, <3>1 DEF push, CountInv, receiving
  <2>4. CASE stop \/ stopWhenQueueEmpty \/ join_thread \/ Close
    BY <2>4 DEF stop, stopWhenQueueEmpty, join_thread, Close, CountInv, receiving
  <2>5. CASE DispatchTest \/ DispatchCheck
    BY <2>5 DEF DispatchTest, DispatchCheck, CountInv, receiving
  <2>6. CASE DispatchPop
    <3>1. Len(queue') = Len(queue) - 1 /\ queue # <<>>
      BY <2>6, HeadTailProperties DEF DispatchPop, TypeOK
    <3>2. Len(inflight) = 0 /\ Len(inflight') = 1
      BY <2>2, <2>6 DEF DispatchPop, ThreadsInv
    <3>3. QED
      BY <2>1, <2>6, <3>1, <3>2 DEF DispatchPop, CountInv, receiving
  <2>7. CASE DispatchSend
    <3>1. Len(socket') = Len(socket) + Len(inflight) /\ Len(inflight') = 0
      BY <2>2, <2>7, ConcatProperties DEF DispatchSend, TypeOK
    <3>2. QED
      BY <2>1, <2>7, <3>1 DEF DispatchSend, CountInv, receiving
  <2>8. CASE pull
    <3>1. Len(inbox') = Len(inbox) - 1
      BY <2>8, HeadTailProperties DEF pull, TypeOK
    <3>2. QED
      BY <2>1, <2>8, <3>1 DEF pull, CountInv, sending
  <2>9. CASE stopPulling \/ joinReceiver \/ ReceiveTest \/ ReceiveNothing
    BY <2>9 DEF stopPulling, joinReceiver, ReceiveTest, ReceiveNothing, CountInv,
                sending
  <2>10. CASE Receive
    <3>1. Len(socket') = Len(socket) - 1
      BY <2>10, HeadTailProperties DEF Receive, TypeOK
    <3>2. Len(got) = 0 /\ Len(got') = 1
      BY <2>2, <2>10 DEF Receive, ThreadsInv
    <3>3. QED
      BY <2>1, <2>10, <3>1, <3>2 DEF Receive, CountInv, sending
  <2>11. CASE Convert
    <3>1. Len(inbox') = Len(inbox) + Len(got) /\ Len(got') = 0
      BY <2>2, <2>11, ConcatProperties
         DEF Convert, convertZMQMsgToMsgOrPass, TypeOK
    <3>2. QED
      BY <2>1, <2>11, <3>1 DEF Convert, CountInv, sending
  <2>12. CASE SenderDies \/ ReceiverDies
    BY <2>1, <2>12 DEF SenderDies, ReceiverDies, CountInv, sending
  <2>13. CASE UNCHANGED vars
    BY <2>13 DEF vars, CountInv, sending, receiving
  <2>14. QED
    BY <2>3, <2>4, <2>5, <2>6, <2>7, <2>8, <2>9, <2>10, <2>11, <2>12, <2>13
       DEF Next, Dispatch, ReceiveStep
<1>3. QED
  BY <1>1, <1>2, PathTyped, ThreadsInvariant, PTL DEF Spec

\* stopWhenQueueEmpty loses nothing, neither in the queue nor in the hands of
\* the dispatch thread.
THEOREM FlushTheorem == Spec => []FlushLosesNothing
<1>1. TypeOK /\ ThreadsInv /\ CountInv => FlushLosesNothing
  <2> SUFFICES ASSUME TypeOK, ThreadsInv, CountInv, flushed,
                      sender \in {"closing", "gone"}, crashes = 0
               PROVE  pushes = pulls + Len(arrived)
    BY DEF FlushLosesNothing
  <2>1. queue = <<>> /\ inflight = <<>>
    BY DEF ThreadsInv, CountInv
  <2>2. Len(arrived) = Len(inbox) + Len(got) + Len(socket)
    BY ConcatProperties DEF arrived, TypeOK
  <2>3. Len(<<>>) = 0
    BY EmptySeq
  <2>4. /\ Len(inbox) \in Nat /\ Len(got) \in Nat /\ Len(socket) \in Nat
        /\ pulls \in Nat
    BY LenProperties DEF TypeOK
  <2>5. pushes = pulls + Len(inbox) + Len(got) + Len(socket)
    BY <2>1, <2>3, <2>4 DEF CountInv
  <2>6. QED
    BY <2>2, <2>4, <2>5
<1>2. QED
  BY <1>1, PathTyped, ThreadsInvariant, CountInvariant, PTL

-----------------------------------------------------------------------------
(***************************************************************************)
(* The refinement: every step is a step of the channel or none of its      *)
(* business.                                                               *)
(***************************************************************************)

\* What the dispatch thread has before it.
ahead == IF dispatcher = "ended" THEN <<>> ELSE inflight \o queue

LEMMA PartsTyped ==
  ASSUME TypeOK
  PROVE  /\ arrived \in Seq(Msg) /\ ahead \in Seq(Msg) /\ path \in Seq(Msg)
         /\ path = arrived \o ahead
<1>1. inflight \o queue \in Seq(Msg) /\ <<>> \in Seq(Msg)
  BY ConcatProperties, EmptySeq DEF TypeOK
<1>2. inbox \o got \in Seq(Msg)
  BY ConcatProperties DEF TypeOK
<1>3. arrived \in Seq(Msg)
  BY <1>2, ConcatProperties DEF arrived, TypeOK
<1>4. ahead \in Seq(Msg)
  BY <1>1 DEF ahead
<1>5. path = arrived \o ahead
  BY DEF path, ahead
<1>6. QED
  BY <1>3, <1>4, <1>5, ConcatProperties

\* A push appends to the path.
LEMMA PushSends ==
  ASSUME TypeOK, ThreadsInv, NEW m \in Msg, push(m)
  PROVE  Promise!Send
<1>1. dispatcher # "ended" /\ dispatcher' = dispatcher
  BY DEF push, ThreadsInv
<1>2. arrived' = arrived
  BY DEF push, arrived, receiving
<1>3. ahead = inflight \o queue /\ ahead' = inflight \o Append(queue, m)
  BY <1>1 DEF push, ahead
<1>4. <<m>> \in Seq(Msg)
  OBVIOUS
<1>5. ahead' = ahead \o <<m>>
  <2>1. Append(queue, m) = queue \o <<m>>
    BY AppendIsConcat DEF TypeOK
  <2>2. QED
    <3>1. inflight \in Seq(Msg) /\ queue \in Seq(Msg)
      BY DEF TypeOK
    <3>2. inflight \o (queue \o <<m>>) = (inflight \o queue) \o <<m>>
      BY <1>4, <3>1, ConcatAssociative
    <3>3. QED
      BY <1>3, <2>1, <3>2
<1>6. path' = arrived \o (ahead \o <<m>>)
  BY <1>2, <1>5 DEF path, ahead
<1>7. path' = path \o <<m>>
  <2>1. arrived \in Seq(Msg) /\ ahead \in Seq(Msg) /\ path = arrived \o ahead
    BY PartsTyped
  <2>2. arrived \o (ahead \o <<m>>) = (arrived \o ahead) \o <<m>>
    BY <1>4, <2>1, ConcatAssociative
  <2>3. QED
    BY <1>6, <2>1, <2>2
<1>8. path' = Append(path, m)
  BY <1>7, PartsTyped, AppendIsConcat
<1>9. QED
  BY <1>1, <1>8 DEF Promise!Send

\* A pull takes the head.
LEMMA PullTakes ==
  ASSUME TypeOK, pull
  PROVE  Promise!Take
<1>1. dispatcher' = dispatcher /\ ahead' = ahead
  BY DEF pull, sending, ahead
<1>2. inbox # <<>> /\ Tail(inbox) \in Seq(Msg) /\ inbox' = Tail(inbox)
  BY HeadTailProperties DEF pull, TypeOK
<1>3. /\ inbox \o got # <<>>
      /\ Tail(inbox \o got) = Tail(inbox) \o got
      /\ inbox \o got \in Seq(Msg)
  BY <1>2, TailOfConcat, ConcatProperties DEF TypeOK
<1>4. arrived # <<>> /\ Tail(arrived) = (Tail(inbox) \o got) \o socket
  <2> DEFINE front == inbox \o got
  <2>1. front \in Seq(Msg) /\ front # <<>> /\ socket \in Seq(Msg)
    BY <1>3 DEF TypeOK
  <2> HIDE DEF front
  <2>2. front \o socket # <<>> /\ Tail(front \o socket) = Tail(front) \o socket
    BY <2>1, TailOfConcat
  <2>3. QED
    BY <1>3, <2>2 DEF front, arrived
<1>5. arrived' = Tail(arrived)
  BY <1>2, <1>4 DEF pull, arrived
<1>6. path # <<>> /\ Tail(path) = Tail(arrived) \o ahead
  BY <1>4, PartsTyped, TailOfConcat
<1>7. path' = Tail(path)
  BY <1>1, <1>5, <1>6 DEF path, ahead
<1>8. QED
  BY <1>1, <1>6, <1>7 DEF Promise!Take

\* When the dispatch thread leaves its loop, what it leaves in the queue is cut.
LEMMA TestKeepsOrCuts ==
  ASSUME TypeOK, ThreadsInv, DispatchTest
  PROVE  [Promise!Next]_(Promise!vars)
<1>1. arrived' = arrived
  BY DEF DispatchTest, receiving, arrived
<1>2. dispatcher = "loop"
  BY DEF DispatchTest
<1>3. CASE keepRunning
  <2>1. dispatcher' = "check"
    BY <1>3 DEF DispatchTest
  <2>2. ahead' = ahead
    BY <1>2, <2>1 DEF DispatchTest, ahead
  <2>3. UNCHANGED <<path, dispatcher = "ended">>
    BY <1>1, <1>2, <2>1, <2>2 DEF path, ahead
  <2>4. QED
    BY <2>3 DEF Promise!vars
<1>4. CASE ~keepRunning
  <2>1. dispatcher' = "ended"
    BY <1>4 DEF DispatchTest
  <2>2. path' = arrived \o <<>>
    BY <1>1, <2>1 DEF path
  <2>3. path' = arrived \o SubSeq(ahead, 1, 0)
    BY <2>2, PartsTyped, SubSeqEmpty
  <2>4. 0 \in 0..Len(ahead)
    BY PartsTyped, LenProperties
  <2>5. PICK n \in 0..Len(path) : path' = SubSeq(path, 1, n)
    <3>1. /\ arrived \o SubSeq(ahead, 1, 0)
               = SubSeq(arrived \o ahead, 1, Len(arrived) + 0)
          /\ Len(arrived) + 0 \in 0..Len(arrived \o ahead)
      BY <2>4, PartsTyped, PrefixOfConcat
    <3>2. QED
      BY <2>3, <3>1, PartsTyped
  <2>6. QED
    BY <2>1, <2>5 DEF Promise!Cut, Promise!Next
<1>5. QED
  BY <1>3, <1>4

\* A message moves on from the queue to the thread, and from it to the socket.
LEMMA DispatchKeeps ==
  ASSUME TypeOK, ThreadsInv, DispatchCheck \/ DispatchPop \/ DispatchSend
  PROVE  UNCHANGED <<path, dispatcher = "ended">>
<1>1. CASE DispatchCheck
  <2>1. arrived' = arrived /\ inflight' = inflight /\ queue' = queue
    BY <1>1 DEF DispatchCheck, receiving, arrived
  <2>2. dispatcher # "ended" /\ dispatcher' # "ended"
    BY <1>1 DEF DispatchCheck
  <2>3. QED
    BY <2>1, <2>2 DEF path
<1>2. CASE DispatchPop
  <2>1. arrived' = arrived
    BY <1>2 DEF DispatchPop, receiving, arrived
  <2>2. dispatcher # "ended" /\ dispatcher' # "ended"
    BY <1>2 DEF DispatchPop
  <2>3. inflight = <<>>
    BY <1>2 DEF DispatchPop, ThreadsInv
  <2>4. inflight \o queue = queue
    BY <2>3, ConcatEmptySeq DEF TypeOK
  <2>5. inflight' \o queue' = queue
    <3>1. queue \in Seq(Msg) /\ queue # <<>>
      BY <1>2 DEF DispatchPop, TypeOK
    <3>2. <<Head(queue)>> \o Tail(queue) = queue
      BY <3>1, HeadAndTail
    <3>3. QED
      BY <1>2, <3>2 DEF DispatchPop
  <2>6. QED
    BY <2>1, <2>2, <2>4, <2>5 DEF path
<1>3. CASE DispatchSend
  <2>1. dispatcher # "ended" /\ dispatcher' # "ended"
    BY <1>3 DEF DispatchSend
  <2>2. inbox \o got \in Seq(Msg) /\ arrived \in Seq(Msg)
    BY PartsTyped, ConcatProperties DEF TypeOK
  <2>3. arrived' = arrived \o inflight
    <3> DEFINE front == inbox \o got
    <3>1. front \in Seq(Msg) /\ socket \in Seq(Msg) /\ inflight \in Seq(Msg)
      BY <2>2 DEF TypeOK
    <3>2. arrived' = front \o (socket \o inflight)
      BY <1>3 DEF DispatchSend, receiving, arrived
    <3> HIDE DEF front
    <3>3. front \o (socket \o inflight) = (front \o socket) \o inflight
      BY <3>1, ConcatAssociative, SMTT(30)
    <3>4. QED
      BY <3>2, <3>3 DEF front, arrived
  <2>4. inflight' \o queue' = queue
    BY <1>3, ConcatEmptySeq DEF DispatchSend, TypeOK
  <2>5. path' = (arrived \o inflight) \o queue
    BY <2>1, <2>3, <2>4 DEF path
  <2>6. path = arrived \o (inflight \o queue)
    BY <2>1 DEF path
  <2>7. path' = path
    <3>1. inflight \in Seq(Msg) /\ queue \in Seq(Msg)
      BY DEF TypeOK
    <3>2. (arrived \o inflight) \o queue = arrived \o (inflight \o queue)
      BY <2>2, <3>1, ConcatAssociative
    <3>3. QED
      BY <2>5, <2>6, <3>2
  <2>8. QED
    BY <2>1, <2>7
<1>4. QED
  BY <1>1, <1>2, <1>3

\* And from the socket to the inbox.
LEMMA ReceiveKeeps ==
  ASSUME TypeOK, ThreadsInv, Receive \/ Convert
  PROVE  UNCHANGED <<path, dispatcher = "ended">>
<1>1. dispatcher' = dispatcher /\ ahead' = ahead
  BY DEF Receive, Convert, sending, ahead
<1>2. CASE Receive
  <2>1. got = <<>> /\ inbox' = inbox
    BY <1>2 DEF Receive, ThreadsInv
  <2>2. got' \o socket' = socket /\ got' \in Seq(Msg) /\ socket' \in Seq(Msg)
    <3>1. Head(socket) \in Msg /\ Tail(socket) \in Seq(Msg)
      BY <1>2, HeadTailProperties DEF Receive, TypeOK
    <3>2. QED
      BY <1>2, <3>1, HeadAndTail DEF Receive, TypeOK
  <2>3. arrived' = inbox \o socket
    <3>1. arrived' = (inbox \o got') \o socket'
      BY <2>1 DEF arrived
    <3>2. (inbox \o got') \o socket' = inbox \o (got' \o socket')
      <4> DEFINE g == got'
                 k == socket'
      <4>1. inbox \in Seq(Msg) /\ g \in Seq(Msg) /\ k \in Seq(Msg)
        BY <2>2 DEF TypeOK
      <4> HIDE DEF g, k
      <4>2. (inbox \o g) \o k = inbox \o (g \o k)
        BY <4>1, ConcatAssociative
      <4>3. QED
        BY <4>2 DEF g, k
    <3>3. QED
      BY <2>2, <3>1, <3>2
  <2>4. arrived = inbox \o socket
    BY <2>1, ConcatEmptySeq DEF arrived, TypeOK
  <2>5. QED
    BY <1>1, <2>3, <2>4 DEF path, ahead
<1>3. CASE Convert
  <2>1. inbox' = inbox \o got /\ got' = <<>> /\ socket' = socket
    BY <1>3 DEF Convert, convertZMQMsgToMsgOrPass
  <2>2. (inbox \o got) \o <<>> = inbox \o got
    BY ConcatProperties, ConcatEmptySeq DEF TypeOK
  <2>3. arrived' = arrived
    BY <2>1, <2>2 DEF arrived
  <2>4. QED
    BY <1>1, <2>3 DEF path, ahead
<1>4. QED
  BY <1>2, <1>3

\* The death of the sender cuts the path somewhere in the socket.
LEMMA DeathCuts ==
  ASSUME TypeOK, SenderDies
  PROVE  Promise!Cut
<1> DEFINE front == inbox \o got
<1>1. front \in Seq(Msg) /\ socket \in Seq(Msg)
  BY ConcatProperties DEF TypeOK
<1>2. PICK n \in 0..Len(socket) : socket' = SubSeq(socket, 1, n)
  BY DEF SenderDies
<1>3. arrived' = front \o SubSeq(socket, 1, n)
  BY <1>2 DEF SenderDies, receiving, arrived
<1>4. arrived = front \o socket
  BY DEF arrived
<1> HIDE DEF front
<1>5. PICK k \in 0..Len(arrived) : arrived' = SubSeq(arrived, 1, k)
  BY <1>1, <1>3, <1>4, PrefixOfConcat
<1>6. arrived' \in Seq(Msg)
  <2>1. SubSeq(socket, 1, n) \in Seq(Msg)
    BY SubSeqProperties DEF TypeOK
  <2>2. QED
    BY <1>1, <1>3, <2>1, ConcatProperties
<1>7. path' = arrived' \o <<>> /\ dispatcher' = "ended"
  BY DEF SenderDies, path
<1>8. path' = SubSeq(arrived, 1, k)
  BY <1>5, <1>6, <1>7, ConcatEmptySeq
<1>9. \E j \in 0..Len(path) : path' = SubSeq(path, 1, j)
  <2>1. Len(path) = Len(arrived) + Len(ahead)
    BY PartsTyped, ConcatProperties
  <2>2. Len(arrived) \in Nat /\ Len(ahead) \in Nat
    BY PartsTyped, LenProperties
  <2>3. k \in 0..Len(path)
    BY <2>1, <2>2
  <2>4. SubSeq(path, 1, k) = SubSeq(arrived, 1, k)
    <3>1. CASE k = 0
      BY <3>1, SubSeqEmpty
    <3>2. CASE k # 0
      <4>1. 1 \in 1..Len(arrived) /\ k \in 1..Len(arrived)
        BY <2>2, <3>2
      <4>2. QED
        BY <4>1, PartsTyped, SubSeqOfConcat1
    <3>3. QED
      BY <3>1, <3>2
  <2>5. QED
    BY <1>8, <2>3, <2>4
<1>10. QED
  BY <1>7, <1>9 DEF Promise!Cut

\* Everything else leaves the messages where they are.
LEMMA OthersKeep ==
  ASSUME \/ stop \/ stopWhenQueueEmpty \/ join_thread \/ Close
         \/ stopPulling \/ joinReceiver \/ ReceiveTest \/ ReceiveNothing
         \/ ReceiverDies \/ UNCHANGED vars
  PROVE  UNCHANGED <<path, dispatcher = "ended">>
<1>1. UNCHANGED <<inbox, got, socket, inflight, queue, dispatcher>>
  BY DEF stop, stopWhenQueueEmpty, join_thread, Close, stopPulling, joinReceiver,
         ReceiveTest, ReceiveNothing, ReceiverDies, vars, sending, receiving
<1>2. QED
  BY <1>1 DEF path, arrived

\* A PushQueue and a PullQueue are a channel: messages arrive in order, none
\* twice, and only a last part of them is lost when the sending side ends.
THEOREM PathIsAChannel == Spec => ImplementsChannel
<1>1. Init => Promise!Init
  <2> SUFFICES ASSUME Init PROVE Promise!Init
    OBVIOUS
  <2>1. <<>> \in Seq(Msg)
    BY EmptySeq
  <2>2. <<>> \o <<>> = <<>>
    BY <2>1, ConcatEmptySeq
  <2>3. /\ inbox = <<>> /\ got = <<>> /\ socket = <<>> /\ inflight = <<>>
        /\ queue = <<>> /\ dispatcher = "loop"
    BY DEF Init
  <2>4. path = <<>>
    BY <2>2, <2>3 DEF path, arrived
  <2>5. QED
    BY <2>3, <2>4 DEF Promise!Init
<1>2. TypeOK /\ ThreadsInv /\ [Next]_vars => [Promise!Next]_(Promise!vars)
  <2> SUFFICES ASSUME TypeOK, ThreadsInv, [Next]_vars
               PROVE  [Promise!Next]_(Promise!vars)
    OBVIOUS
  <2>1. ASSUME NEW m \in Msg, push(m) PROVE Promise!Next
    BY <2>1, PushSends DEF Promise!Next
  <2>2. CASE pull
    BY <2>2, PullTakes DEF Promise!Next
  <2>3. CASE DispatchTest
    BY <2>3, TestKeepsOrCuts
  <2>4. CASE DispatchCheck \/ DispatchPop \/ DispatchSend
    BY <2>4, DispatchKeeps DEF Promise!vars
  <2>5. CASE Receive \/ Convert
    BY <2>5, ReceiveKeeps DEF Promise!vars
  <2>6. CASE SenderDies
    BY <2>6, DeathCuts DEF Promise!Next
  <2>7. CASE \/ stop \/ stopWhenQueueEmpty \/ join_thread \/ Close
             \/ stopPulling \/ joinReceiver \/ ReceiveTest \/ ReceiveNothing
             \/ ReceiverDies \/ UNCHANGED vars
    BY <2>7, OthersKeep DEF Promise!vars
  <2>8. QED
    BY <2>1, <2>2, <2>3, <2>4, <2>5, <2>6, <2>7 DEF Next, Dispatch, ReceiveStep
<1>3. QED
  BY <1>1, <1>2, PathTyped, ThreadsInvariant, PTL
     DEF Spec, ImplementsChannel, Promise!Spec
=============================================================================
