--------------------------- MODULE ConcurrentQueue ---------------------------
(***************************************************************************)
(* ConcurrentQueue<T>: a list, a mutex and a condition variable, used by   *)
(* any number of threads.  The steps are those that other threads can see: *)
(* taking the mutex, each access to the list, giving the mutex back, and   *)
(* the notification, which push makes without the mutex.  MessagePath and  *)
(* CalcTree take the queue for a sequence; this module shows that they may.*)
(***************************************************************************)
EXTENDS Integers, Sequences, FiniteSets

CONSTANTS
  T,          \* what is pushed
  Producers,  \* the threads that push
  Consumers,  \* the threads that pop
  MaxPushes   \* how many elements are pushed

ASSUME ThreadsAssumption ==
  /\ IsFiniteSet(Producers)
  /\ IsFiniteSet(Consumers)
  /\ Producers \cap Consumers = {}
  /\ MaxPushes \in Nat

Threads == Producers \cup Consumers

VARIABLES
  queue,   \* _queue
  pc,      \* where each thread is
  pushed,  \* what was pushed, in this order
  popped   \* what was handed out, in this order

vars == <<queue, pc, pushed, popped>>

\* A thread holds _mutex while it is at one of these places.
Critical == {"emplace", "unlock", "test", "pop"}

MutexIsFree == \A t \in Threads : pc[t] \notin Critical

Goto(t, place) == pc' = [pc EXCEPT ![t] = place]

Waiting == {c \in Consumers : pc[c] = "waiting"}

Init ==
  /\ queue = <<>>
  /\ pc = [t \in Threads |-> "idle"]
  /\ pushed = <<>>
  /\ popped = <<>>

-----------------------------------------------------------------------------
(***************************************************************************)
(* push                                                                    *)
(***************************************************************************)
PushLock(p) ==
  /\ pc[p] = "idle"
  /\ Len(pushed) < MaxPushes
  /\ MutexIsFree
  /\ Goto(p, "emplace")
  /\ UNCHANGED <<queue, pushed, popped>>

\* Mutant of emplace_back: the element becomes the first.
emplace_front(list, data) == <<data>> \o list

emplace_back(list, data) == Append(list, data)

PushEmplace(p, data) ==
  /\ pc[p] = "emplace"
  /\ queue' = emplace_back(queue, data)
  /\ pushed' = Append(pushed, data)
  /\ Goto(p, "unlock")
  /\ UNCHANGED popped

\* Mutant of PushUnlock: only the first element of the list is announced.
PushUnlockOnceNotified(p) ==
  /\ pc[p] = "unlock"
  /\ Goto(p, IF Len(queue) = 1 THEN "notify" ELSE "idle")
  /\ UNCHANGED <<queue, pushed, popped>>

PushUnlock(p) ==
  /\ pc[p] = "unlock"
  /\ Goto(p, "notify")
  /\ UNCHANGED <<queue, pushed, popped>>

\* notify_one wakes one of the threads that wait, if there are any.
PushNotify(p) ==
  /\ pc[p] = "notify"
  /\ \/ /\ Waiting = {}
        /\ Goto(p, "idle")
     \/ \E c \in Waiting : pc' = [pc EXCEPT ![p] = "idle", ![c] = "woken"]
  /\ UNCHANGED <<queue, pushed, popped>>

-----------------------------------------------------------------------------
(***************************************************************************)
(* wait_and_pop                                                            *)
(***************************************************************************)
PopLock(c) ==
  /\ pc[c] = "idle"
  /\ MutexIsFree
  /\ Goto(c, "test")
  /\ UNCHANGED <<queue, pushed, popped>>

\* _condition.wait gives the mutex back in the same step.
PopTest(c) ==
  /\ pc[c] = "test"
  /\ Goto(c, IF queue = <<>> THEN "waiting" ELSE "pop")
  /\ UNCHANGED <<queue, pushed, popped>>

\* A thread may also wake without a notification.
WakeSpuriously(c) ==
  /\ pc[c] = "waiting"
  /\ Goto(c, "woken")
  /\ UNCHANGED <<queue, pushed, popped>>

\* Mutants of PopRelock: the thread goes on without the mutex; the list is not
\* looked at again (if for while).
PopRelockAtOnce(c) ==
  /\ pc[c] = "woken"
  /\ Goto(c, "test")
  /\ UNCHANGED <<queue, pushed, popped>>
PopRelockTrusting(c) ==
  /\ pc[c] = "woken"
  /\ MutexIsFree
  /\ Goto(c, "pop")
  /\ UNCHANGED <<queue, pushed, popped>>

\* wait returns with the mutex, and the condition is tested again.
PopRelock(c) ==
  /\ pc[c] = "woken"
  /\ MutexIsFree
  /\ Goto(c, "test")
  /\ UNCHANGED <<queue, pushed, popped>>

PopFront(c) ==
  /\ pc[c] = "pop"
  /\ popped' = Append(popped, Head(queue))
  /\ queue' = Tail(queue)
  /\ Goto(c, "idle")
  /\ UNCHANGED pushed

\* try_pop, with the mutex throughout; on an empty list it throws.
TryPop(c) ==
  /\ pc[c] = "idle"
  /\ MutexIsFree
  /\ queue # <<>>
  /\ popped' = Append(popped, Head(queue))
  /\ queue' = Tail(queue)
  /\ UNCHANGED <<pc, pushed>>

\* unload and clear, with the mutex throughout: all is handed out.
Unload(t) ==
  /\ pc[t] = "idle"
  /\ MutexIsFree
  /\ popped' = popped \o queue
  /\ queue' = <<>>
  /\ UNCHANGED <<pc, pushed>>

-----------------------------------------------------------------------------
Push(p) ==
  \/ PushLock(p) \/ (\E data \in T : PushEmplace(p, data))
  \/ PushUnlock(p) \/ PushNotify(p)

WaitAndPop(c) == PopLock(c) \/ PopTest(c) \/ PopRelock(c) \/ PopFront(c)

Next ==
  \/ \E p \in Producers : Push(p)
  \/ \E c \in Consumers : WaitAndPop(c) \/ WakeSpuriously(c) \/ TryPop(c)
  \/ \E t \in Threads : Unload(t)

Spec == Init /\ [][Next]_vars

(***************************************************************************)
(* A call that was begun goes on, and a thread that asks for the mutex     *)
(* again and again while it is given back gets it in the end.  Nobody has  *)
(* to begin a call.                                                        *)
(***************************************************************************)
Fairness ==
  /\ \A p \in Producers : WF_vars(pc[p] # "idle" /\ Push(p))
  /\ \A c \in Consumers : SF_vars(pc[c] # "idle" /\ WaitAndPop(c))

FairSpec == Spec /\ Fairness

-----------------------------------------------------------------------------
(***************************************************************************)
(* Properties.                                                             *)
(***************************************************************************)

\* A thread takes a first element only when there is one: neither a spurious
\* wake-up nor another consumer leaves it with an empty list.
PopFindsAnItem == \A c \in Consumers : pc[c] = "pop" => queue # <<>>

\* Every element is handed out once and in the order it was pushed in, however
\* pushes and pops of several threads mix.
Fifo == pushed = popped \o queue

\* No wake-up is lost: when there is an element and a consumer waits, some
\* thread is on its way, to the notification or to the list.
Notifying == {p \in Producers : pc[p] \in {"unlock", "notify"}}
Awake == {c \in Consumers : pc[c] \in {"woken", "test", "pop"}}

NoLostWakeup ==
  (queue # <<>> /\ Waiting # {}) => (Notifying # {} \/ Awake # {})

\* Elements do not stay in the list while somebody waits for one.
WaitersAreServed ==
  (queue # <<>> /\ Waiting # {}) ~> (queue = <<>> \/ Waiting = {})

\* Type invariant, with the exclusion that the mutex gives.
TypeOK ==
  /\ queue \in Seq(T)
  /\ pc \in [Threads -> {"idle", "emplace", "unlock", "notify",
                         "test", "waiting", "woken", "pop"}]
  /\ \A p \in Producers : pc[p] \in {"idle", "emplace", "unlock", "notify"}
  /\ \A c \in Consumers : pc[c] \in {"idle", "test", "waiting", "woken", "pop"}
  /\ \A s, t \in Threads : pc[s] \in Critical /\ pc[t] \in Critical => s = t
  /\ pushed \in Seq(T)
  /\ popped \in Seq(T)
=============================================================================
