-------------------------- MODULE HeartbeatMonitor --------------------------
(***************************************************************************)
(* The clockwork of one parent's heartbeat check: CalcTree::launch (IsRoot)*)
(* or CalcTreeNode::launch, handleHeartbeat, timeToCheckHeartbeat and      *)
(* checkHeartbeat, with the time the creation of a child takes.  CalcTree  *)
(* only says that an overdue child is reported sooner or later; here time  *)
(* is counted in ticks of 100 ms, the pause of an idle loop.               *)
(*                                                                         *)
(* Identifiers are distinct, so that a child is named by its pid.          *)
(***************************************************************************)
EXTENDS Integers, Sequences, FiniteSets, SequencesExt

CONSTANTS
  Period,       \* checkingHeartbeatPeriod in ticks: 40 in the server
  CreateTicks,  \* how long the parent is busy creating a child: some 11
  Latency,      \* ticks from the push of a heartbeat to its arrival
  MaxChildren,  \* how many children are created
  MaxDeaths,    \* how many of them die on their own
  MaxTime,      \* the ticks a run is followed for
  IsRoot        \* the server's CalcTree, or a calc_tree_node

ASSUME TimesAssumption ==
  /\ Period \in Nat \ {0}
  /\ CreateTicks \in Nat \ {0}
  /\ Latency \in Nat
  /\ MaxChildren \in Nat
  /\ MaxDeaths \in Nat
  /\ MaxTime \in Nat
  /\ IsRoot \in BOOLEAN

Pids == 1..MaxChildren
Never == -1
Forever == MaxTime + CreateTicks + 1

VARIABLES
  now,         \* timer::now()
  busyUntil,   \* when the parent's thread goes on
  afterCreate, \* is the parent in the iteration that created a child?
  checkStart,  \* checkingHeatbeatPeriodStart
  node,        \* where the iterator of checkHeartbeat stands; 0: no check
  createdAt,   \* when the children were created, in this order
  children,    \* the list of children
  lastBeat,    \* CalcNodeRoot::lastHeartBeat
  lastSent,    \* when a child sent the last heartbeat that arrived
  eventsList,  \* heartbeats that arrived: the child and the time it noted
  diedAt,      \* when a child died on its own
  reportedAt   \* when a child was reported dead and erased

vars == <<now, busyUntil, afterCreate, checkStart, node, createdAt, children,
          lastBeat, lastSent, eventsList, diedAt, reportedAt>>

Init ==
  /\ now = 0
  /\ busyUntil = 0
  /\ afterCreate = FALSE
  /\ checkStart = 0
  /\ node = 0
  /\ createdAt = <<>>
  /\ children = <<>>
  /\ lastBeat = [c \in Pids |-> 0]
  /\ lastSent = [c \in Pids |-> 0]
  /\ eventsList = <<>>
  /\ diedAt = [c \in Pids |-> Never]
  /\ reportedAt = [c \in Pids |-> Never]

Created == DOMAIN createdAt

Dead == {c \in Pids : diedAt[c] # Never}

Reported == {c \in Pids : reportedAt[c] # Never}

\* The children whose loop runs at time t; one that was erased is no longer of
\* interest.
Beating(t) ==
  {c \in Created \ Reported : createdAt[c] < t /\ (c \in Dead => t <= diedAt[c])}

\* Each iteration of a child's loop begins with a heartbeat, and none takes longer
\* than the creation of a child of its own.
DueToBeat(t) == {c \in Beating(t) : CreateTicks <= t - lastSent[c]}

\* Time passes while the parent sleeps; heartbeats sent Latency ago arrive, those
\* of different children in any order.
Tick ==
  LET sent == now + 1 - Latency
  IN  /\ now < busyUntil
      /\ now < MaxTime
      /\ now' = now + 1
      /\ \E senders \in SUBSET Beating(sent) :
           /\ DueToBeat(sent) \subseteq senders
           /\ \E order \in SetToSeqs(senders) :
                eventsList' = eventsList \o [i \in DOMAIN order |-> <<order[i], sent>>]
           /\ lastSent' = [c \in Pids |-> IF c \in senders THEN sent ELSE lastSent[c]]
      /\ UNCHANGED <<busyUntil, afterCreate, checkStart, node, createdAt, children,
                     lastBeat, diedAt, reportedAt>>

\* The parent's thread is at the beginning of its loop.
Running == now = busyUntil /\ node = 0

\* tryPushBackNewNode: the clock of the new child starts before its fork and
\* the pause of a second that follows.
Create ==
  LET new == Len(createdAt) + 1
  IN  /\ Running
      /\ ~afterCreate
      /\ new \in Pids
      /\ createdAt' = Append(createdAt, now)
      /\ children' = Append(children, new)
      /\ lastBeat' = [lastBeat EXCEPT ![new] = now]
      /\ lastSent' = [lastSent EXCEPT ![new] = now]
      /\ busyUntil' = now + CreateTicks
      /\ afterCreate' = TRUE
      /\ UNCHANGED <<now, checkStart, node, eventsList, diedAt, reportedAt>>

\* A node takes one message an iteration, the root a command and a response.
MayPull == eventsList # <<>> /\ (IsRoot \/ ~afterCreate)

\* Mutant of handleHeartbeat: the time of the next heartbeat is noted.
handleHeartbeatAhead ==
  IF MayPull /\ Head(eventsList)[1] \in Range(children)
  THEN [lastBeat EXCEPT ![Head(eventsList)[1]] = Head(eventsList)[2] + Period]
  ELSE lastBeat

\* handleHeartbeat, for the message that is pulled: lastHeartBeat afterwards.
handleHeartbeat ==
  IF MayPull /\ Head(eventsList)[1] \in Range(children)
  THEN [lastBeat EXCEPT ![Head(eventsList)[1]] = Head(eventsList)[2]]
  ELSE lastBeat

timeToCheckHeartbeat == Period < now - checkStart

\* The rest of an iteration: a response, the start of the check, or the pause if
\* there was nothing to do.
Iterate ==
  /\ Running
  /\ lastBeat' = handleHeartbeat
  /\ eventsList' = IF MayPull THEN Tail(eventsList) ELSE eventsList
  /\ IF timeToCheckHeartbeat
     THEN checkStart' = now /\ node' = 1
     ELSE UNCHANGED <<checkStart, node>>
  /\ busyUntil' = IF afterCreate \/ MayPull \/ timeToCheckHeartbeat
                  THEN now ELSE now + 1
  /\ afterCreate' = FALSE
  /\ UNCHANGED <<now, createdAt, children, lastSent, diedAt, reportedAt>>

\* Mutants of Overdue: the comparison turned around; a limit of twice the period.
OverdueTurned(c) == Period > now - lastBeat[c]
OverdueTwice(c) == 2 * Period < now - lastBeat[c]

Overdue(c) == Period < now - lastBeat[c]

\* The loop of checkHeartbeat, an element at a time, each with a timeNow of its
\* own: a child in time is passed by.
PassNode ==
  /\ now = busyUntil
  /\ node \in DOMAIN children
  /\ ~Overdue(children[node])
  /\ node' = node + 1
  /\ UNCHANGED <<now, busyUntil, afterCreate, checkStart, createdAt, children,
                 lastBeat, lastSent, eventsList, diedAt, reportedAt>>

\* An overdue child is reported and erased.  ~CalcNodeRoot waits for its dispatch
\* thread, that may be asleep, and then for ZeroMQ, which keeps what was not
\* delivered: to a dead child that takes for ever.  erase returns the next
\* element, which the loop's increment then skips; incrementing the end
\* (undefined; libstdc++'s list is circular) leads to the beginning.
EraseNode ==
  /\ now = busyUntil
  /\ node \in DOMAIN children
  /\ Overdue(children[node])
  /\ reportedAt' = [reportedAt EXCEPT ![children[node]] = now]
  /\ children' = RemoveAt(children, node)
  /\ node' = IF node = Len(children) THEN 1 ELSE node + 1
  /\ busyUntil' \in {now, now + 1}
       \cup (IF children[node] \in Dead THEN {Forever} ELSE {})
  /\ UNCHANGED <<now, afterCreate, checkStart, createdAt, lastBeat, lastSent,
                 eventsList, diedAt>>

EndOfCheck ==
  /\ now = busyUntil
  /\ node > Len(children)
  /\ node' = 0
  /\ UNCHANGED <<now, busyUntil, afterCreate, checkStart, createdAt, children,
                 lastBeat, lastSent, eventsList, diedAt, reportedAt>>

Dies(c) ==
  /\ c \in Created \ (Dead \cup Reported)
  /\ Cardinality(Dead) < MaxDeaths
  /\ diedAt' = [diedAt EXCEPT ![c] = now]
  /\ UNCHANGED <<now, busyUntil, afterCreate, checkStart, node, createdAt, children,
                 lastBeat, lastSent, eventsList, reportedAt>>

Next ==
  \/ Tick
  \/ Create
  \/ Iterate
  \/ PassNode
  \/ EraseNode
  \/ EndOfCheck
  \/ \E c \in Pids : Dies(c)

Spec == Init /\ [][Next]_vars

-----------------------------------------------------------------------------
TypeOK ==
  /\ now \in 0..MaxTime
  /\ busyUntil \in now..Forever
  /\ afterCreate \in BOOLEAN
  /\ checkStart \in 0..now
  /\ node \in 0..(Len(children) + 1)
  /\ createdAt \in Seq(0..now)
  /\ Len(createdAt) <= MaxChildren
  /\ children \in Seq(Created)
  /\ lastBeat \in [Pids -> 0..now]
  /\ lastSent \in [Pids -> 0..now]
  /\ eventsList \in Seq(Created \X (0..now))
  /\ diedAt \in [Pids -> {Never} \cup 0..now]
  /\ reportedAt \in [Pids -> {Never} \cup 0..now]

\* A node is reported dead only if it died: "if there is no signal from a node".
OnlyTheDeadAreReported == Reported \subseteq Dead

\* The parent's thread never returns from the erasure of a child.
Stuck == busyUntil = Forever

\* The death of a child is reported in time: it is overdue after a period, the
\* checks are a period and a pause apart and longer by the creations of other
\* children between them, and a check may skip the neighbour of each dead child,
\* who waits for the next one.  Only a parent that is stuck in the erasure of one
\* child reports no other.
DetectionTime ==
  Period + MaxDeaths * (Period + 1) + (MaxChildren - 1) * CreateTicks

DeathsAreReportedInTime ==
  ~Stuck => \A c \in Dead \ Reported : now - diedAt[c] <= DetectionTime
=============================================================================
