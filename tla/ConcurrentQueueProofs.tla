----------------------- MODULE ConcurrentQueueProofs -----------------------
(***************************************************************************)
(* ConcurrentQueue is a queue, for any number of producers and consumers:  *)
(* the proofs of its safety properties.                                    *)
(***************************************************************************)
EXTENDS ConcurrentQueue, SequenceLemmas, FiniteSetTheorems

-----------------------------------------------------------------------------
(***************************************************************************)
(* Types and exclusion.  One lemma for the steps of a push, one for those  *)
(* of the calls that take elements out.                                    *)
(***************************************************************************)
LEMMA PushTyped ==
  ASSUME TypeOK, NEW p \in Producers, Push(p)
  PROVE  TypeOK'
<1>1. p \in Threads /\ p \notin Consumers
  BY ThreadsAssumption DEF Threads
<1>2. CASE PushLock(p)
  BY <1>1, <1>2 DEF PushLock, Goto, MutexIsFree, Critical, TypeOK, Threads
<1>3. ASSUME NEW data \in T, PushEmplace(p, data) PROVE TypeOK'
  <2>1. queue' \in Seq(T) /\ pushed' \in Seq(T)
    BY <1>3, AppendProperties DEF PushEmplace, emplace_back, TypeOK
  <2>2. QED
    BY <1>1, <1>3, <2>1 DEF PushEmplace, Goto, Critical, TypeOK, Threads
<1>4. CASE PushUnlock(p)
  BY <1>1, <1>4 DEF PushUnlock, Goto, Critical, TypeOK, Threads
<1>5. CASE PushNotify(p)
  <2>1. CASE Goto(p, "idle")
    BY <1>1, <1>5, <2>1 DEF PushNotify, Goto, Critical, TypeOK, Threads
  <2>2. ASSUME NEW c \in Waiting,
               pc' = [pc EXCEPT ![p] = "idle", ![c] = "woken"]
        PROVE  TypeOK'
    <3>1. c \in Consumers /\ c \in Threads /\ c # p /\ c \notin Producers
      BY <1>1, ThreadsAssumption DEF Waiting, Threads
    <3>2. \A t \in Threads :
            pc'[t] = IF t = p THEN "idle" ELSE IF t = c THEN "woken" ELSE pc[t]
      BY <1>1, <2>2, <3>1 DEF TypeOK
    <3>3. pc' \in [Threads -> {"idle", "emplace", "unlock", "notify",
                               "test", "waiting", "woken", "pop"}]
      BY <2>2 DEF TypeOK
    <3>4. \A s, t \in Threads : pc'[s] \in Critical /\ pc'[t] \in Critical => s = t
      BY <3>2 DEF Critical, TypeOK
    <3>5. /\ \A q \in Producers : pc'[q] \in {"idle", "emplace", "unlock", "notify"}
          /\ \A d \in Consumers :
               pc'[d] \in {"idle", "test", "waiting", "woken", "pop"}
      BY <1>1, <3>1, <3>2 DEF TypeOK, Threads
    <3>6. QED
      BY <1>5, <3>3, <3>4, <3>5 DEF PushNotify, TypeOK
  <2>3. QED
    BY <1>5, <2>1, <2>2 DEF PushNotify
<1>6. QED
  BY <1>2, <1>3, <1>4, <1>5 DEF Push

\* What is left and what was handed out once the first element is taken.
LEMMA TakeTyped ==
  ASSUME TypeOK, queue # <<>>
  PROVE  Append(popped, Head(queue)) \in Seq(T) /\ Tail(queue) \in Seq(T)
BY HeadTailProperties, AppendProperties DEF TypeOK

LEMMA PopTyped ==
  ASSUME TypeOK, PopFindsAnItem, NEW c \in Consumers,
         WaitAndPop(c) \/ WakeSpuriously(c) \/ TryPop(c)
  PROVE  TypeOK'
<1>1. c \in Threads /\ c \notin Producers
  BY ThreadsAssumption DEF Threads
<1>2. CASE PopLock(c)
  BY <1>1, <1>2 DEF PopLock, Goto, MutexIsFree, Critical, TypeOK, Threads
<1>3. CASE PopTest(c)
  BY <1>1, <1>3 DEF PopTest, Goto, Critical, TypeOK, Threads
<1>4. CASE PopRelock(c)
  BY <1>1, <1>4 DEF PopRelock, Goto, MutexIsFree, Critical, TypeOK, Threads
<1>5. CASE PopFront(c)
  <2>1. queue # <<>>
    BY <1>5 DEF PopFront, PopFindsAnItem
  <2>2. queue' \in Seq(T) /\ popped' \in Seq(T)
    BY <1>5, <2>1, TakeTyped DEF PopFront
  <2>3. QED
    BY <1>1, <1>5, <2>2 DEF PopFront, Goto, Critical, TypeOK, Threads
<1>6. CASE WakeSpuriously(c)
  BY <1>1, <1>6 DEF WakeSpuriously, Goto, Critical, TypeOK, Threads
<1>7. CASE TryPop(c)
  BY <1>7, TakeTyped DEF TryPop, TypeOK
<1>8. QED
  BY <1>2, <1>3, <1>4, <1>5, <1>6, <1>7 DEF WaitAndPop

\* An element that a thread found is still there when it takes it.
LEMMA FindsNext ==
  ASSUME TypeOK, PopFindsAnItem, [Next]_vars
  PROVE  PopFindsAnItem'
<1>1. ASSUME NEW p \in Producers, Push(p) PROVE PopFindsAnItem'
  <2>1. p \in Threads /\ p \notin Consumers
    BY ThreadsAssumption DEF Threads
  <2>2. \A c \in Consumers : pc'[c] = "pop" => pc[c] = "pop"
    BY <1>1, <2>1
       DEF Push, PushLock, PushEmplace, PushUnlock, PushNotify, Goto, Waiting,
           TypeOK, Threads
  <2>3. queue # <<>> => queue' # <<>>
    BY <1>1, AppendProperties
       DEF Push, PushLock, PushEmplace, PushUnlock, PushNotify, emplace_back,
           TypeOK
  <2>4. QED
    BY <2>2, <2>3 DEF PopFindsAnItem
<1>2. ASSUME NEW c \in Consumers, WaitAndPop(c) \/ WakeSpuriously(c)
      PROVE  PopFindsAnItem'
  <2>1. c \in Threads
    BY DEF Threads
  <2>2. CASE PopFront(c)
    <3>1. \A d \in Consumers : pc'[d] # "pop"
      BY <2>1, <2>2 DEF PopFront, Goto, Critical, TypeOK, Threads
    <3>2. QED
      BY <3>1 DEF PopFindsAnItem
  <2>3. CASE PopLock(c) \/ PopTest(c) \/ PopRelock(c) \/ WakeSpuriously(c)
    BY <2>1, <2>3
       DEF PopLock, PopTest, PopRelock, WakeSpuriously, Goto, PopFindsAnItem,
           TypeOK, Threads
  <2>4. QED
    BY <1>2, <2>2, <2>3 DEF WaitAndPop
<1>3. ASSUME NEW c \in Consumers, TryPop(c) PROVE PopFindsAnItem'
  BY <1>3 DEF TryPop, MutexIsFree, Critical, PopFindsAnItem, Threads
<1>4. ASSUME NEW t \in Threads, Unload(t) PROVE PopFindsAnItem'
  BY <1>4 DEF Unload, MutexIsFree, Critical, PopFindsAnItem, Threads
<1>5. CASE UNCHANGED vars
  BY <1>5 DEF vars, PopFindsAnItem
<1>6. QED
  BY <1>1, <1>2, <1>3, <1>4, <1>5 DEF Next

LEMMA QueueTypedNext ==
  ASSUME TypeOK, PopFindsAnItem, [Next]_vars
  PROVE  TypeOK'
<1>1. ASSUME NEW t \in Threads, Unload(t) PROVE TypeOK'
  <2>1. popped \o queue \in Seq(T) /\ <<>> \in Seq(T)
    BY ConcatProperties, EmptySeq DEF TypeOK
  <2>2. QED
    BY <1>1, <2>1 DEF Unload, TypeOK
<1>2. CASE UNCHANGED vars
  BY <1>2 DEF vars, TypeOK
<1>3. QED
  BY <1>1, <1>2, PushTyped, PopTyped DEF Next

\* At most one thread is in a critical section, and what a consumer found in
\* the list it takes.
THEOREM QueueInvariant == Spec => [](TypeOK /\ PopFindsAnItem)
<1>1. Init => TypeOK /\ PopFindsAnItem
  <2>1. <<>> \in Seq(T)
    BY EmptySeq
  <2>2. QED
    BY <2>1 DEF Init, TypeOK, PopFindsAnItem, Threads, Critical
<1>2. (TypeOK /\ PopFindsAnItem) /\ [Next]_vars => (TypeOK /\ PopFindsAnItem)'
  BY QueueTypedNext, FindsNext
<1>3. QED
  BY <1>1, <1>2, PTL DEF Spec

\* Type correctness: the list, the mutex and the threads stay what they are,
\* for any number of producers and consumers.
THEOREM QueueTyped == Spec => []TypeOK
BY QueueInvariant, PTL

\* A consumer never takes an element from an empty list.
THEOREM PopFindsTheorem == Spec => []PopFindsAnItem
BY QueueInvariant, PTL

-----------------------------------------------------------------------------
(***************************************************************************)
(* Order.                                                                  *)
(***************************************************************************)

\* Taking the first element leaves it to what was handed out.
LEMMA TakeKeepsFifo ==
  ASSUME TypeOK, Fifo, queue # <<>>
  PROVE  pushed = Append(popped, Head(queue)) \o Tail(queue)
<1>1. /\ popped \in Seq(T) /\ queue \in Seq(T)
      /\ Head(queue) \in T /\ Tail(queue) \in Seq(T)
  BY HeadTailProperties DEF TypeOK
<1>2. <<Head(queue)>> \in Seq(T)
  BY <1>1
<1>3. Append(popped, Head(queue)) = popped \o <<Head(queue)>>
  BY <1>1, AppendIsConcat
<1> DEFINE first == <<Head(queue)>>
           rest  == Tail(queue)
<1>4. first \o rest = queue
  BY <1>1, HeadAndTail
<1>5. first \in Seq(T) /\ rest \in Seq(T)
  BY <1>1, <1>2
<1> HIDE DEF first, rest
<1>6. (popped \o first) \o rest = popped \o (first \o rest)
  BY <1>1, <1>5, ConcatAssociative
<1>7. QED
  BY <1>3, <1>4, <1>6 DEF Fifo, first, rest

LEMMA FifoNext ==
  ASSUME TypeOK, PopFindsAnItem, Fifo, [Next]_vars
  PROVE  Fifo'
<1>1. ASSUME NEW p \in Producers, NEW data \in T, PushEmplace(p, data)
      PROVE  Fifo'
  <2>1. <<data>> \in Seq(T) /\ popped \in Seq(T) /\ queue \in Seq(T)
    BY DEF TypeOK
  <2>2. /\ pushed' = pushed \o <<data>>
        /\ queue' = queue \o <<data>>
        /\ popped' = popped
    BY <1>1, AppendIsConcat DEF PushEmplace, emplace_back, TypeOK
  <2>3. (popped \o queue) \o <<data>> = popped \o (queue \o <<data>>)
    BY <2>1, ConcatAssociative
  <2>4. QED
    BY <2>2, <2>3 DEF Fifo
<1>2. ASSUME NEW p \in Producers, PushLock(p) \/ PushUnlock(p) \/ PushNotify(p)
      PROVE  Fifo'
  BY <1>2 DEF PushLock, PushUnlock, PushNotify, Fifo
<1>3. ASSUME NEW c \in Consumers, PopFront(c) \/ TryPop(c) PROVE Fifo'
  <2>1. queue # <<>>
    BY <1>3 DEF PopFront, TryPop, PopFindsAnItem
  <2>2. QED
    BY <1>3, <2>1, TakeKeepsFifo DEF PopFront, TryPop, Fifo
<1>4. ASSUME NEW c \in Consumers,
             PopLock(c) \/ PopTest(c) \/ PopRelock(c) \/ WakeSpuriously(c)
      PROVE  Fifo'
  BY <1>4 DEF PopLock, PopTest, PopRelock, WakeSpuriously, Fifo
<1>5. ASSUME NEW t \in Threads, Unload(t) PROVE Fifo'
  <2>1. popped \o queue \in Seq(T)
    BY ConcatProperties DEF TypeOK
  <2>2. (popped \o queue) \o <<>> = popped \o queue
    BY <2>1, ConcatEmptySeq
  <2>3. QED
    BY <1>5, <2>2 DEF Unload, Fifo
<1>6. CASE UNCHANGED vars
  BY <1>6 DEF vars, Fifo
<1>7. QED
  BY <1>1, <1>2, <1>3, <1>4, <1>5, <1>6 DEF Next, Push, WaitAndPop

\* Elements leave the queue once each and in the order of the pushes, with any
\* number of threads on both sides.
THEOREM FifoTheorem == Spec => []Fifo
<1>1. Init => Fifo
  <2>1. <<>> \in Seq(T)
    BY EmptySeq
  <2>2. <<>> \o <<>> = <<>>
    BY <2>1, ConcatEmptySeq
  <2>3. QED
    BY <2>2 DEF Init, Fifo
<1>2. QED
  BY <1>1, QueueInvariant, FifoNext, PTL DEF Spec

-----------------------------------------------------------------------------
(***************************************************************************)
(* Wake-ups.  That some thread is on its way is not inductive: it might    *)
(* take one element of two.  There are as many of them as elements.        *)
(***************************************************************************)
EveryItemIsAnnounced ==
  Waiting # {} => Len(queue) <= Cardinality(Notifying) + Cardinality(Awake)

\* Both sets are finite.
LEMMA Counts ==
  /\ IsFiniteSet(Notifying) /\ Cardinality(Notifying) \in Nat
  /\ IsFiniteSet(Awake) /\ Cardinality(Awake) \in Nat
<1>1. Notifying \subseteq Producers /\ Awake \subseteq Consumers
  BY DEF Notifying, Awake
<1>2. QED
  BY <1>1, ThreadsAssumption, FS_Subset, FS_CardinalityType

\* A thread more is one more.
LEMMA OneMore ==
  ASSUME NEW S, IsFiniteSet(S), NEW x
  PROVE  /\ Cardinality(S \cup {x}) \in Nat
         /\ Cardinality(S \cup {x}) >= Cardinality(S)
         /\ x \notin S => Cardinality(S \cup {x}) = Cardinality(S) + 1
         /\ Cardinality(S \ {x}) \in Nat
         /\ Cardinality(S \ {x}) >= Cardinality(S) - 1
<1>1. Cardinality(S) \in Nat
  BY FS_CardinalityType
<1>2. /\ IsFiniteSet(S \cup {x})
      /\ Cardinality(S \cup {x}) =
           IF x \in S THEN Cardinality(S) ELSE Cardinality(S) + 1
  BY FS_AddElement
<1>3. /\ IsFiniteSet(S \ {x})
      /\ Cardinality(S \ {x}) =
           IF x \in S THEN Cardinality(S) - 1 ELSE Cardinality(S)
  BY FS_RemoveElement
<1>4. Cardinality(S \ {x}) \in Nat
  BY <1>3, FS_CardinalityType
<1>5. QED
  BY <1>1, <1>2, <1>3, <1>4

LEMMA AnnouncedByPush ==
  ASSUME TypeOK, EveryItemIsAnnounced, NEW p \in Producers, Push(p)
  PROVE  EveryItemIsAnnounced'
<1>1. /\ p \in Threads /\ p \notin Consumers
      /\ Producers \subseteq Threads /\ Consumers \subseteq Threads
      /\ Producers \cap Consumers = {}
  BY ThreadsAssumption DEF Threads
<1>2. Len(queue) \in Nat
  BY LenProperties DEF TypeOK
<1>3. CASE PushLock(p)
  <2>1. Waiting' = Waiting /\ Notifying' = Notifying /\ Awake' = Awake
    BY <1>1, <1>3 DEF PushLock, Goto, Waiting, Notifying, Awake, TypeOK
  <2>2. QED
    BY <1>3, <2>1 DEF PushLock, EveryItemIsAnnounced
<1>4. ASSUME NEW data \in T, PushEmplace(p, data)
      PROVE  EveryItemIsAnnounced'
  <2>1. Waiting' = Waiting /\ Awake' = Awake
    BY <1>1, <1>4 DEF PushEmplace, Goto, Waiting, Awake, TypeOK
  <2>2. Notifying' = Notifying \cup {p} /\ p \notin Notifying
    BY <1>1, <1>4 DEF PushEmplace, Goto, Notifying, TypeOK
  <2>3. Len(queue') = Len(queue) + 1
    BY <1>4, AppendProperties DEF PushEmplace, emplace_back, TypeOK
  <2>4. Cardinality(Notifying \cup {p}) = Cardinality(Notifying) + 1
    BY <2>2, Counts, OneMore
  <2>5. QED
    BY <1>2, <2>1, <2>2, <2>3, <2>4, Counts DEF EveryItemIsAnnounced
<1>5. CASE PushUnlock(p)
  <2>1. Waiting' = Waiting /\ Notifying' = Notifying /\ Awake' = Awake
    BY <1>1, <1>5 DEF PushUnlock, Goto, Waiting, Notifying, Awake, TypeOK
  <2>2. QED
    BY <1>5, <2>1 DEF PushUnlock, EveryItemIsAnnounced
<1>6. CASE PushNotify(p)
  <2>1. CASE Waiting = {} /\ Goto(p, "idle")
    <3>1. Waiting' = {}
      BY <1>1, <2>1 DEF Goto, Waiting, TypeOK
    <3>2. QED
      BY <3>1 DEF EveryItemIsAnnounced
  <2>2. ASSUME NEW c \in Waiting,
               pc' = [pc EXCEPT ![p] = "idle", ![c] = "woken"]
        PROVE  EveryItemIsAnnounced'
    <3>1. c \in Consumers /\ c \in Threads /\ c # p /\ pc[c] = "waiting"
      BY <1>1 DEF Waiting
    <3>2. \A t \in Threads :
            pc'[t] = IF t = p THEN "idle" ELSE IF t = c THEN "woken" ELSE pc[t]
      BY <1>1, <2>2, <3>1 DEF TypeOK
    <3>3. Notifying' = Notifying \ {p}
      BY <1>1, <3>1, <3>2 DEF Notifying
    <3>4. Awake' = Awake \cup {c} /\ c \notin Awake
      BY <1>1, <3>1, <3>2 DEF Awake
    <3>5. /\ Cardinality(Notifying \ {p}) \in Nat
          /\ Cardinality(Notifying \ {p}) >= Cardinality(Notifying) - 1
      BY Counts, OneMore
    <3>6. Cardinality(Awake \cup {c}) = Cardinality(Awake) + 1
      BY <3>4, Counts, OneMore
    <3>7. Waiting # {} /\ queue' = queue
      BY <1>6 DEF PushNotify
    <3>8. QED
      BY <1>2, <3>3, <3>4, <3>5, <3>6, <3>7, Counts DEF EveryItemIsAnnounced
  <2>3. QED
    BY <1>6, <2>1, <2>2 DEF PushNotify
<1>7. QED
  BY <1>3, <1>4, <1>5, <1>6 DEF Push

LEMMA AnnouncedByPop ==
  ASSUME TypeOK, PopFindsAnItem, EveryItemIsAnnounced, NEW c \in Consumers,
         WaitAndPop(c) \/ WakeSpuriously(c)
  PROVE  EveryItemIsAnnounced'
<1>1. /\ c \in Threads /\ c \notin Producers
      /\ Producers \subseteq Threads /\ Consumers \subseteq Threads
  BY ThreadsAssumption DEF Threads
<1>2. Len(queue) \in Nat /\ Len(<<>>) = 0
  BY LenProperties, EmptySeq DEF TypeOK
<1>3. Notifying' = Notifying
  BY <1>1 DEF WaitAndPop, PopLock, PopTest, PopRelock, PopFront, WakeSpuriously,
              Goto, Notifying, TypeOK
<1>4. CASE PopLock(c) \/ PopRelock(c) \/ WakeSpuriously(c)
  <2>1. Awake' = Awake \cup {c}
    BY <1>1, <1>4 DEF PopLock, PopRelock, WakeSpuriously, Goto, Awake, TypeOK
  <2>2. Waiting' \subseteq Waiting
    BY <1>1, <1>4 DEF PopLock, PopRelock, WakeSpuriously, Goto, Waiting, TypeOK
  <2>3. queue' = queue
    BY <1>4 DEF PopLock, PopRelock, WakeSpuriously
  <2>4. /\ Cardinality(Awake \cup {c}) \in Nat
        /\ Cardinality(Awake \cup {c}) >= Cardinality(Awake)
    BY Counts, OneMore
  <2>5. QED
    BY <1>2, <1>3, <2>1, <2>2, <2>3, <2>4, Counts DEF EveryItemIsAnnounced
<1>5. CASE PopTest(c)
  <2>1. CASE queue = <<>>
    <3>1. Len(queue') = 0
      BY <1>2, <1>5, <2>1 DEF PopTest
    <3>2. Cardinality(Notifying') + Cardinality(Awake') >= 0
      <4>1. /\ Notifying' \subseteq Producers /\ Awake' \subseteq Consumers
        BY DEF Notifying, Awake
      <4>2. Cardinality(Notifying') \in Nat /\ Cardinality(Awake') \in Nat
        BY <4>1, ThreadsAssumption, FS_Subset, FS_CardinalityType
      <4>3. QED
        BY <4>2
    <3>3. QED
      BY <3>1, <3>2 DEF EveryItemIsAnnounced
  <2>2. CASE queue # <<>>
    <3>1. Awake' = Awake /\ Waiting' = Waiting /\ queue' = queue
      BY <1>1, <1>5, <2>2 DEF PopTest, Goto, Awake, Waiting, TypeOK
    <3>2. QED
      BY <1>3, <3>1 DEF EveryItemIsAnnounced
  <2>3. QED
    BY <2>1, <2>2
<1>6. CASE PopFront(c)
  <2>1. Awake' = Awake \ {c} /\ Waiting' = Waiting
    BY <1>1, <1>6 DEF PopFront, Goto, Awake, Waiting, TypeOK
  <2>2. Len(queue') = Len(queue) - 1
    BY <1>6, HeadTailProperties DEF PopFront, PopFindsAnItem, TypeOK
  <2>3. /\ Cardinality(Awake \ {c}) \in Nat
        /\ Cardinality(Awake \ {c}) >= Cardinality(Awake) - 1
    BY Counts, OneMore
  <2>4. QED
    BY <1>2, <1>3, <2>1, <2>2, <2>3, Counts DEF EveryItemIsAnnounced
<1>7. QED
  BY <1>4, <1>5, <1>6 DEF WaitAndPop

\* Elements that leave without a wait need no announcement.
LEMMA AnnouncedOtherwise ==
  ASSUME TypeOK, EveryItemIsAnnounced,
         \/ \E c \in Consumers : TryPop(c)
         \/ \E t \in Threads : Unload(t)
         \/ UNCHANGED vars
  PROVE  EveryItemIsAnnounced'
<1>1. Waiting' = Waiting /\ Notifying' = Notifying /\ Awake' = Awake
  BY DEF TryPop, Unload, vars, Waiting, Notifying, Awake
<1>2. Len(queue) \in Nat /\ Len(queue') <= Len(queue)
  <2>1. Len(queue) \in Nat /\ Len(<<>>) = 0
    BY LenProperties, EmptySeq DEF TypeOK
  <2>2. queue # <<>> => Len(Tail(queue)) = Len(queue) - 1
    BY HeadTailProperties DEF TypeOK
  <2>3. QED
    BY <2>1, <2>2 DEF TryPop, Unload, vars
<1>3. Len(queue') \in Nat
  <2>1. queue # <<>> => Tail(queue) \in Seq(T)
    BY HeadTailProperties DEF TypeOK
  <2>2. QED
    BY <2>1, LenProperties, EmptySeq DEF TryPop, Unload, vars, TypeOK
<1>4. QED
  BY <1>1, <1>2, <1>3, Counts DEF EveryItemIsAnnounced

\* No wake-up is lost, although push notifies after it gave the mutex back, and
\* whoever else takes elements in between.
THEOREM WakeupTheorem == Spec => []NoLostWakeup
<1>1. Init => EveryItemIsAnnounced
  <2> SUFFICES ASSUME Init PROVE Waiting = {}
    BY DEF EveryItemIsAnnounced
  <2>1. QED
    BY DEF Init, Waiting, Threads
<1>2. TypeOK /\ PopFindsAnItem /\ EveryItemIsAnnounced /\ [Next]_vars
        => EveryItemIsAnnounced'
  BY AnnouncedByPush, AnnouncedByPop, AnnouncedOtherwise DEF Next
<1>3. TypeOK /\ EveryItemIsAnnounced => NoLostWakeup
  <2> SUFFICES ASSUME TypeOK, EveryItemIsAnnounced, queue # <<>>, Waiting # {}
               PROVE  Notifying # {} \/ Awake # {}
    BY DEF NoLostWakeup
  <2>1. Len(queue) \in Nat \ {0}
    BY EmptySeq DEF TypeOK
  <2>2. Cardinality({}) = 0
    BY FS_EmptySet
  <2>3. Len(queue) <= Cardinality(Notifying) + Cardinality(Awake)
    BY DEF EveryItemIsAnnounced
  <2>4. ~(Notifying = {} /\ Awake = {})
    <3>1. CASE Notifying = {} /\ Awake = {}
      <4>1. Cardinality(Notifying) = 0 /\ Cardinality(Awake) = 0
        BY <2>2, <3>1
      <4>2. QED
        BY <2>1, <2>3, <4>1
    <3>2. QED
      BY <3>1
  <2>5. QED
    BY <2>4
<1>4. QED
  BY <1>1, <1>2, <1>3, QueueInvariant, PTL DEF Spec
=============================================================================
