--------------------------- MODULE HeartbeatProofs ---------------------------
(***************************************************************************)
(* Theorems about the heartbeat check of one parent, for any periods,      *)
(* delays and numbers of children: as long as the creations fit in a       *)
(* period, only the dead are reported, and all of them in time.            *)
(***************************************************************************)
EXTENDS HeartbeatMonitor, SequenceLemmas, FiniteSetTheorems

-----------------------------------------------------------------------------
(***************************************************************************)
(* Types.                                                                  *)
(***************************************************************************)

\* A finite set written as a sequence: each element once.
LEMMA OrderProperties ==
  ASSUME NEW S, IsFiniteSet(S), NEW order \in SetToSeqs(S)
  PROVE  /\ order \in Seq(S)
         /\ \A i, j \in 1..Len(order) : order[i] = order[j] => i = j
         /\ \A x \in S : \E i \in 1..Len(order) : order[i] = x
<1> DEFINE n == Cardinality(S)
<1>1. n \in Nat
  BY FS_CardinalityType
<1>2. /\ order \in [1..n -> S]
      /\ \A i, j \in 1..n : i # j => order[i] # order[j]
  BY DEF SetToSeqs
<1>3. order \in Seq(S)
  BY <1>1, <1>2, SeqDef
<1>4. Len(order) \in Nat /\ 1..Len(order) = 1..n
  BY <1>2, <1>3, LenProperties
<1>5. Len(order) = n
  BY <1>1, <1>4
<1>6. order \in Injection(1..n, S)
  BY <1>2 DEF Injection, IsInjective
<1>7. Cardinality(1..n) = n
  BY <1>1, FS_Interval
<1>8. order \in Surjection(1..n, S)
  BY <1>6, <1>7, FS_Injection
<1>9. \A x \in S : \E i \in 1..n : order[i] = x
  BY <1>8 DEF Surjection
<1> QED
  BY <1>2, <1>3, <1>5, <1>9


\* What TypeOK says of the parts the steps work with.
LEMMA Typed ==
  ASSUME TypeOK
  PROVE  /\ now \in Nat /\ busyUntil \in Nat /\ checkStart \in Nat
         /\ checkStart <= now /\ now <= busyUntil
         /\ Len(createdAt) \in Nat /\ Created = 1..Len(createdAt)
         /\ Created \subseteq Pids
         /\ \A c \in Created : createdAt[c] \in 0..now
         /\ Len(children) \in Nat /\ DOMAIN children = 1..Len(children)
         /\ \A i \in DOMAIN children : children[i] \in Created
         /\ Range(children) \subseteq Created
         /\ Len(eventsList) \in Nat /\ DOMAIN eventsList = 1..Len(eventsList)
         /\ \A i \in DOMAIN eventsList : eventsList[i] \in Created \X (0..now)
         /\ \A c \in Dead : diedAt[c] \in 0..now
         /\ \A c \in Reported : reportedAt[c] \in 0..now
<1>1. /\ now \in 0..MaxTime /\ busyUntil \in now..Forever
      /\ checkStart \in 0..now /\ Len(createdAt) <= MaxChildren
      /\ createdAt \in Seq(0..now) /\ children \in Seq(Created)
      /\ eventsList \in Seq(Created \X (0..now))
  BY DEF TypeOK
<1>2. /\ Len(createdAt) \in Nat /\ Created = 1..Len(createdAt)
      /\ \A c \in 1..Len(createdAt) : createdAt[c] \in 0..now
  BY <1>1, LenProperties, ElementOfSeq DEF Created
<1>3. /\ Len(children) \in Nat /\ DOMAIN children = 1..Len(children)
      /\ \A i \in 1..Len(children) : children[i] \in Created
  BY <1>1, LenProperties, ElementOfSeq
<1>4. /\ Len(eventsList) \in Nat /\ DOMAIN eventsList = 1..Len(eventsList)
      /\ \A i \in 1..Len(eventsList) : eventsList[i] \in Created \X (0..now)
  BY <1>1, LenProperties, ElementOfSeq
<1>5. /\ \A c \in Dead : diedAt[c] \in 0..now
      /\ \A c \in Reported : reportedAt[c] \in 0..now
  BY DEF TypeOK, Dead, Reported
<1> QED
  BY <1>1, <1>2, <1>3, <1>4, <1>5, TimesAssumption DEF Pids, Range, Forever

\* Where the parent's thread goes on, it is not stuck.
LEMMA NotStuck ==
  ASSUME TypeOK
  PROVE  /\ Forever \in Nat /\ now < Forever /\ now + CreateTicks < Forever
         /\ now + 1 < Forever
         /\ now = busyUntil => ~Stuck
BY TimesAssumption DEF TypeOK, Forever, Stuck

LEMMA TypesInit == Init => TypeOK
<1> SUFFICES ASSUME Init PROVE TypeOK
  OBVIOUS
<1>1. /\ \A S : <<>> \in Seq(S)
      /\ Len(<<>>) = 0
  BY EmptySeq
<1>2. afterCreate \in BOOLEAN
  BY DEF Init
<1>3. /\ now \in 0..MaxTime /\ busyUntil \in now..Forever
      /\ checkStart \in 0..now /\ node \in 0..(Len(children) + 1)
      /\ Len(createdAt) <= MaxChildren
  BY <1>1, TimesAssumption DEF Init, Forever
<1>4. /\ createdAt \in Seq(0..now) /\ children \in Seq(Created)
      /\ eventsList \in Seq(Created \X (0..now))
  BY <1>1 DEF Init
<1>5. /\ lastBeat \in [Pids -> 0..now] /\ lastSent \in [Pids -> 0..now]
      /\ diedAt \in [Pids -> {Never} \cup 0..now]
      /\ reportedAt \in [Pids -> {Never} \cup 0..now]
  BY DEF Init
<1> QED
  BY <1>2, <1>3, <1>4, <1>5 DEF TypeOK

LEMMA BeatingAreChildren ==
  ASSUME TypeOK, NEW t \in Int, NEW senders \in SUBSET Beating(t)
  PROVE  /\ IsFiniteSet(senders)
         /\ senders \subseteq Created
         /\ senders # {} => t \in Nat \ {0}
<1>1. senders \subseteq 1..Len(createdAt) /\ Len(createdAt) \in Nat
  BY Typed DEF Beating
<1>2. IsFiniteSet(senders)
  <2>1. IsFiniteSet(1..Len(createdAt)) /\ senders \in SUBSET (1..Len(createdAt))
    BY <1>1, FS_Interval
  <2> QED
    BY <2>1, FS_Subset
<1>3. \A c \in senders : createdAt[c] \in Nat /\ createdAt[c] < t
  BY <1>1, Typed DEF Beating
<1>4. ASSUME senders # {} PROVE t \in Nat \ {0}
  <2>1. PICK c \in senders : TRUE
    BY <1>4
  <2> QED
    BY <2>1, <1>3
<1>5. Created = 1..Len(createdAt)
  BY Typed
<1> QED
  BY <1>1, <1>2, <1>4, <1>5


\* A tick: one heartbeat from each of some children, appended to what is there.
Arrival(sent, senders, arrived) ==
  /\ senders \subseteq Beating(sent)
  /\ DueToBeat(sent) \subseteq senders
  /\ senders # {} => sent \in 1..(now + 1)
  /\ lastSent' = [c \in Pids |-> IF c \in senders THEN sent ELSE lastSent[c]]
  /\ arrived \in Seq(Created \X (0..(now + 1)))
  /\ \A i \in 1..Len(arrived) : arrived[i] = <<arrived[i][1], sent>> /\ arrived[i][1] \in senders
  /\ \A i, j \in 1..Len(arrived) : arrived[i][1] = arrived[j][1] => i = j
  /\ \A c \in senders : \E i \in 1..Len(arrived) : arrived[i] = <<c, sent>>
  /\ eventsList' = eventsList \o arrived
  /\ eventsList' \in Seq(Created \X (0..(now + 1)))
  /\ Len(eventsList') = Len(eventsList) + Len(arrived)
  /\ \A i \in 1..(Len(eventsList) + Len(arrived)) :
       eventsList'[i] = IF i <= Len(eventsList) THEN eventsList[i]
                        ELSE arrived[i - Len(eventsList)]

LEMMA TickArrives ==
  ASSUME TypeOK, Tick
  PROVE  \E senders, arrived : Arrival(now + 1 - Latency, senders, arrived)
<1> DEFINE sent == now + 1 - Latency
<1>1. PICK senders \in SUBSET Beating(sent) :
        /\ DueToBeat(sent) \subseteq senders
        /\ \E order \in SetToSeqs(senders) :
             eventsList' = eventsList \o [i \in DOMAIN order |-> <<order[i], sent>>]
        /\ lastSent' = [c \in Pids |-> IF c \in senders THEN sent ELSE lastSent[c]]
  BY DEF Tick
<1>2. PICK order \in SetToSeqs(senders) :
        eventsList' = eventsList \o [i \in DOMAIN order |-> <<order[i], sent>>]
  BY <1>1
<1> DEFINE arrived == [i \in 1..Len(order) |-> <<order[i], sent>>]
           Beats == Created \X (0..(now + 1))
<1>3. now \in Nat /\ sent \in Int
  BY Typed, TimesAssumption
<1>4. /\ IsFiniteSet(senders) /\ senders \subseteq Created
      /\ senders # {} => sent \in Nat \ {0}
  BY <1>1, <1>3, BeatingAreChildren
<1>5. senders # {} => sent \in 1..(now + 1)
  BY <1>3, <1>4, TimesAssumption
<1>6. /\ order \in Seq(senders)
      /\ \A i, j \in 1..Len(order) : order[i] = order[j] => i = j
      /\ \A c \in senders : \E i \in 1..Len(order) : order[i] = c
  BY <1>4, OrderProperties
<1>7. /\ Len(order) \in Nat /\ DOMAIN order = 1..Len(order)
      /\ \A i \in 1..Len(order) : order[i] \in senders
  BY <1>6, LenProperties, ElementOfSeq
<1>8. arrived \in Seq(Beats)
  <2>1. \A i \in 1..Len(order) : <<order[i], sent>> \in Beats
    BY <1>3, <1>4, <1>5, <1>7
  <2>2. arrived \in [1..Len(order) -> Beats]
    BY <2>1
  <2> QED
    BY <2>2, <1>7, SeqDef
<1>9. Len(arrived) = Len(order)
  <2>1. Len(arrived) \in Nat /\ 1..Len(arrived) = 1..Len(order)
    BY <1>8, LenProperties
  <2> QED
    BY <2>1, <1>7
<1>10. eventsList \in Seq(Beats)
  <2>1. eventsList \in Seq(Created \X (0..now)) /\ Created \X (0..now) \subseteq Beats
    BY <1>3 DEF TypeOK
  <2> QED
    BY <2>1, SeqMonotonic
<1>11. eventsList' = eventsList \o arrived
  BY <1>2, <1>7
<1>12. /\ eventsList \o arrived \in Seq(Beats)
       /\ Len(eventsList \o arrived) = Len(eventsList) + Len(arrived)
       /\ \A i \in 1..(Len(eventsList) + Len(arrived)) :
            (eventsList \o arrived)[i] = IF i <= Len(eventsList) THEN eventsList[i]
                                         ELSE arrived[i - Len(eventsList)]
  BY <1>8, <1>10, ConcatProperties
<1>13. /\ \A i \in 1..Len(arrived) :
            arrived[i] = <<arrived[i][1], sent>> /\ arrived[i][1] \in senders
       /\ \A i, j \in 1..Len(arrived) : arrived[i][1] = arrived[j][1] => i = j
       /\ \A c \in senders : \E i \in 1..Len(arrived) : arrived[i] = <<c, sent>>
  BY <1>6, <1>7, <1>9
<1>14. Arrival(sent, senders, arrived)
  BY <1>1, <1>5, <1>8, <1>11, <1>12, <1>13 DEF Arrival
<1> QED
  BY <1>14

LEMMA TypesTick == TypeOK /\ Tick => TypeOK'
<1> SUFFICES ASSUME TypeOK, Tick PROVE TypeOK'
  OBVIOUS
<1>1. PICK senders, arrived : Arrival(now + 1 - Latency, senders, arrived)
  BY TickArrives
<1>2. /\ now' = now + 1 /\ now < busyUntil /\ now < MaxTime
      /\ UNCHANGED <<busyUntil, afterCreate, checkStart, node, createdAt, children,
                     lastBeat, diedAt, reportedAt>>
  BY DEF Tick
<1>3. now \in Nat
  BY Typed
<1>4. 0..now \subseteq 0..(now + 1)
  BY <1>3
<1>5. /\ now' \in 0..MaxTime /\ busyUntil' \in now'..Forever
      /\ afterCreate' \in BOOLEAN /\ checkStart' \in 0..now'
      /\ Len(createdAt') <= MaxChildren
      /\ node' \in 0..(Len(children') + 1)
  BY <1>2, <1>3, TimesAssumption DEF TypeOK, Forever
<1>6. createdAt' \in Seq(0..now')
  BY <1>2, <1>4, SeqMonotonic DEF TypeOK
<1>7. Created' = Created
  BY <1>2 DEF Created
<1>8. /\ children' \in Seq(Created') /\ eventsList' \in Seq((Created \X (0..now))')
  BY <1>1, <1>2, <1>7 DEF TypeOK, Arrival
<1>9. lastSent' \in [Pids -> 0..now']
  <2>1. \A c \in Pids : lastSent[c] \in 0..(now + 1)
    BY <1>4 DEF TypeOK
  <2>2. \A c \in senders : now + 1 - Latency \in 0..(now + 1)
    BY <1>1, <1>3, TimesAssumption DEF Arrival
  <2>3. lastSent' = [c \in Pids |-> IF c \in senders THEN now + 1 - Latency ELSE lastSent[c]]
    BY <1>1 DEF Arrival
  <2>4. lastSent' \in [Pids -> 0..(now + 1)]
    BY <2>1, <2>2, <2>3
  <2> QED
    BY <1>2, <2>4
<1>10. /\ lastBeat' \in [Pids -> 0..now']
       /\ diedAt' \in [Pids -> {Never} \cup 0..now']
       /\ reportedAt' \in [Pids -> {Never} \cup 0..now']
  BY <1>2, <1>4 DEF TypeOK
<1> QED
  BY <1>5, <1>6, <1>8, <1>9, <1>10 DEF TypeOK


\* The new child has the next number.
LEMMA CreateAppends ==
  ASSUME TypeOK, Create
  PROVE  /\ Created' = Created \cup {Len(createdAt) + 1}
         /\ Len(createdAt) + 1 \in Pids \ Created
         /\ Len(createdAt') = Len(createdAt) + 1
         /\ createdAt' \in Seq(0..now)
         /\ \A c \in Created : createdAt'[c] = createdAt[c]
         /\ createdAt'[Len(createdAt) + 1] = now
         /\ children' \in Seq(Created')
         /\ Len(children') = Len(children) + 1
         /\ \A i \in 1..Len(children) : children'[i] = children[i]
         /\ children'[Len(children) + 1] = Len(createdAt) + 1
<1> DEFINE new == Len(createdAt) + 1
<1>1. /\ createdAt' = Append(createdAt, now) /\ children' = Append(children, new)
      /\ new \in Pids
  BY DEF Create
<1>2. /\ createdAt \in Seq(0..now) /\ now \in 0..now /\ Len(createdAt) \in Nat
      /\ Created = 1..Len(createdAt) /\ Len(children) \in Nat
  BY Typed DEF TypeOK
<1>3. /\ createdAt' \in Seq(0..now) /\ Len(createdAt') = new
      /\ \A c \in 1..Len(createdAt) : createdAt'[c] = createdAt[c]
      /\ createdAt'[new] = now
  BY <1>1, <1>2, AppendProperties
<1>4. Created' = 1..new
  BY <1>3, LenProperties DEF Created
<1>5. Created' = Created \cup {new} /\ new \notin Created
  BY <1>2, <1>4
<1>6. children \in Seq(Created') /\ new \in Created'
  BY <1>5, SeqMonotonic DEF TypeOK
<1>7. /\ children' \in Seq(Created') /\ Len(children') = Len(children) + 1
      /\ \A i \in 1..Len(children) : children'[i] = children[i]
      /\ children'[Len(children) + 1] = new
  <2>1. PICK kids : kids = Created'
    OBVIOUS
  <2>2. children \in Seq(kids) /\ new \in kids
    BY <1>6, <2>1
  <2>3. /\ Append(children, new) \in Seq(kids)
        /\ Len(Append(children, new)) = Len(children) + 1
        /\ \A i \in 1..Len(children) : Append(children, new)[i] = children[i]
        /\ Append(children, new)[Len(children) + 1] = new
    BY <2>2, AppendProperties
  <2> QED
    BY <1>1, <2>1, <2>3
<1> QED
  BY <1>1, <1>2, <1>3, <1>5, <1>7

LEMMA TypesCreate == TypeOK /\ Create => TypeOK'
<1> SUFFICES ASSUME TypeOK, Create PROVE TypeOK'
  OBVIOUS
<1> DEFINE new == Len(createdAt) + 1
<1>1. /\ now' = now /\ busyUntil' = now + CreateTicks /\ afterCreate' = TRUE
      /\ lastBeat' = [lastBeat EXCEPT ![new] = now]
      /\ lastSent' = [lastSent EXCEPT ![new] = now]
      /\ UNCHANGED <<checkStart, node, eventsList, diedAt, reportedAt>>
      /\ new \in Pids /\ node = 0
  BY DEF Create, Running
<1>2. now \in 0..MaxTime /\ Len(createdAt) \in Nat /\ Len(children) \in Nat
  BY Typed DEF TypeOK
<1>3. /\ Created \subseteq Created' /\ children' \in Seq(Created')
      /\ createdAt' \in Seq(0..now) /\ Len(createdAt') = new
      /\ Len(children') = Len(children) + 1
  BY CreateAppends
<1>4. /\ now' \in 0..MaxTime /\ busyUntil' \in now'..Forever
      /\ checkStart' \in 0..now' /\ Len(createdAt') <= MaxChildren
      /\ node' \in 0..(Len(children') + 1)
  <2>1. busyUntil' \in now'..Forever
    BY <1>1, <1>2, TimesAssumption, NotStuck
  <2>2. checkStart' \in 0..now' /\ now' \in 0..MaxTime
    BY <1>1, <1>2 DEF TypeOK
  <2>3. Len(createdAt') <= MaxChildren /\ node' \in 0..(Len(children') + 1)
    BY <1>1, <1>2, <1>3, TimesAssumption DEF Pids
  <2> QED
    BY <2>1, <2>2, <2>3
<1>5. afterCreate' \in BOOLEAN
  BY <1>1
<1>6. eventsList' \in Seq((Created \X (0..now))')
  <2>1. PICK beats : beats = (Created \X (0..now))'
    OBVIOUS
  <2>2. Created \X (0..now) \subseteq beats
    BY <1>1, <1>3, <2>1
  <2>3. eventsList \in Seq(beats)
    BY <2>2, SeqMonotonic DEF TypeOK
  <2> QED
    BY <2>1, <2>3, <1>1
<1>7. /\ lastBeat' \in [Pids -> 0..now'] /\ lastSent' \in [Pids -> 0..now']
      /\ diedAt' \in [Pids -> {Never} \cup 0..now']
      /\ reportedAt' \in [Pids -> {Never} \cup 0..now']
  BY <1>1, <1>2 DEF TypeOK
<1> QED
  BY <1>1, <1>3, <1>4, <1>5, <1>6, <1>7 DEF TypeOK

\* What a handled heartbeat changes: the child it is of and the time it notes.
LEMMA HeartbeatHandled ==
  ASSUME TypeOK, NEW c \in Pids
  PROVE  /\ handleHeartbeat \in [Pids -> 0..now]
         /\ \/ handleHeartbeat[c] = lastBeat[c]
            \/ MayPull /\ Head(eventsList) = <<c, handleHeartbeat[c]>>
         /\ (MayPull /\ Head(eventsList)[1] = c /\ c \in Range(children)) =>
               handleHeartbeat[c] = Head(eventsList)[2]
<1>1. lastBeat \in [Pids -> 0..now] /\ Created \subseteq Pids
  BY Typed DEF TypeOK
<1>2. ASSUME MayPull PROVE Head(eventsList) \in Created \X (0..now)
  <2>1. eventsList \in Seq(Created \X (0..now)) /\ eventsList # <<>>
    BY <1>2 DEF TypeOK, MayPull
  <2> QED
    BY <2>1, HeadTailProperties
<1>3. CASE ~(MayPull /\ Head(eventsList)[1] \in Range(children))
  BY <1>1, <1>3 DEF handleHeartbeat
<1>4. CASE MayPull /\ Head(eventsList)[1] \in Range(children)
  <2>1. PICK d \in Created, s \in 0..now : Head(eventsList) = <<d, s>>
    <3>1. Head(eventsList) \in Created \X (0..now)
      BY <1>2, <1>4
    <3> QED
      BY <3>1
  <2>2. Head(eventsList)[1] = d /\ Head(eventsList)[2] = s
    BY <2>1
  <2>3. handleHeartbeat = [lastBeat EXCEPT ![d] = s]
    BY <1>4, <2>2 DEF handleHeartbeat
  <2> QED
    BY <1>1, <1>4, <2>1, <2>2, <2>3
<1> QED
  BY <1>3, <1>4

LEMMA TypesIterate == TypeOK /\ Iterate => TypeOK'
<1> SUFFICES ASSUME TypeOK, Iterate PROVE TypeOK'
  OBVIOUS
<1>1. /\ now = busyUntil /\ node = 0 /\ lastBeat' = handleHeartbeat
      /\ eventsList' = IF MayPull THEN Tail(eventsList) ELSE eventsList
      /\ checkStart' \in {checkStart, now} /\ node' \in {0, 1}
      /\ busyUntil' \in {now, now + 1} /\ afterCreate' = FALSE
      /\ UNCHANGED <<now, createdAt, children, lastSent, diedAt, reportedAt>>
  BY DEF Iterate, Running
<1>2. now \in Nat /\ Len(children) \in Nat
  BY Typed
<1>3. /\ now' \in 0..MaxTime /\ busyUntil' \in now'..Forever
      /\ checkStart' \in 0..now' /\ node' \in 0..(Len(children') + 1)
      /\ Len(createdAt') <= MaxChildren
  BY <1>1, <1>2, TimesAssumption, NotStuck DEF TypeOK
<1>4. afterCreate' \in BOOLEAN
  BY <1>1
<1>5. Created' = Created
  BY <1>1 DEF Created
<1>6. eventsList' \in Seq(Created \X (0..now))
  BY <1>1, HeadTailProperties DEF TypeOK, MayPull
<1>7. lastBeat' \in [Pids -> 0..now']
  <2>1. CASE Pids = {}
    BY <1>1, <2>1 DEF TypeOK, handleHeartbeat
  <2>2. CASE Pids # {}
    BY <1>1, <2>2, HeartbeatHandled
  <2> QED
    BY <2>1, <2>2
<1> QED
  BY <1>1, <1>3, <1>4, <1>5, <1>6, <1>7 DEF TypeOK


LEMMA TypesEraseNode == TypeOK /\ EraseNode => TypeOK'
<1> SUFFICES ASSUME TypeOK, EraseNode PROVE TypeOK'
  OBVIOUS
<1>1. /\ node \in DOMAIN children
      /\ reportedAt' = [reportedAt EXCEPT ![children[node]] = now]
      /\ children' = RemoveAt(children, node)
      /\ node' = IF node = Len(children) THEN 1 ELSE node + 1
      /\ busyUntil' \in {now, now + 1, Forever}
      /\ UNCHANGED <<now, afterCreate, checkStart, createdAt, lastBeat,
                     lastSent, eventsList, diedAt>>
  BY DEF EraseNode
<1>2. /\ node \in 1..Len(children) /\ Len(children) \in Nat /\ now \in Nat
      /\ Created' = Created
  BY <1>1, Typed DEF Created
<1>3. /\ children' \in Seq(Created) /\ Len(children') = Len(children) - 1
  BY <1>1, <1>2, RemoveAtProperties DEF TypeOK
<1>4. node' \in 0..(Len(children') + 1)
  BY <1>1, <1>2, <1>3
<1>5. reportedAt' \in [Pids -> {Never} \cup 0..now']
  <2>1. reportedAt \in [Pids -> {Never} \cup 0..now] /\ now \in {Never} \cup 0..now
    BY <1>2 DEF TypeOK
  <2> QED
    BY <1>1, <2>1
<1>6. /\ now' \in 0..MaxTime /\ busyUntil' \in now'..Forever
      /\ checkStart' \in 0..now' /\ Len(createdAt') <= MaxChildren
      /\ createdAt' \in Seq(0..now') /\ eventsList' \in Seq(Created \X (0..now'))
      /\ lastBeat' \in [Pids -> 0..now'] /\ lastSent' \in [Pids -> 0..now']
      /\ diedAt' \in [Pids -> {Never} \cup 0..now']
  BY <1>1, <1>2, NotStuck DEF TypeOK
<1>7. afterCreate' \in BOOLEAN
  BY <1>1 DEF TypeOK
<1> QED
  BY <1>2, <1>3, <1>4, <1>5, <1>6, <1>7 DEF TypeOK

\* The steps that change nothing but the iterator, and nothing at all.
LEMMA TypesSame ==
  ASSUME TypeOK, PassNode \/ EndOfCheck \/ UNCHANGED vars
  PROVE  TypeOK'
<1>1. UNCHANGED <<now, busyUntil, afterCreate, checkStart, createdAt, children,
                  lastBeat, lastSent, eventsList, diedAt, reportedAt>>
  BY DEF PassNode, EndOfCheck, vars
<1>2. Created' = Created
  BY <1>1 DEF Created
<1>3. node' \in 0..(Len(children) + 1)
  <2>1. Len(children) \in Nat /\ DOMAIN children = 1..Len(children)
    BY Typed
  <2> QED
    BY <2>1 DEF PassNode, EndOfCheck, vars, TypeOK
<1>4. afterCreate' \in BOOLEAN
  BY <1>1 DEF TypeOK
<1>5. /\ now' \in 0..MaxTime /\ busyUntil' \in now'..Forever
      /\ checkStart' \in 0..now' /\ Len(createdAt') <= MaxChildren
      /\ createdAt' \in Seq(0..now') /\ children' \in Seq(Created)
      /\ eventsList' \in Seq(Created \X (0..now'))
      /\ lastBeat' \in [Pids -> 0..now'] /\ lastSent' \in [Pids -> 0..now']
      /\ diedAt' \in [Pids -> {Never} \cup 0..now']
      /\ reportedAt' \in [Pids -> {Never} \cup 0..now']
  BY <1>1 DEF TypeOK
<1> QED
  BY <1>1, <1>2, <1>3, <1>4, <1>5 DEF TypeOK

LEMMA TypesDies == ASSUME NEW d \in Pids PROVE TypeOK /\ Dies(d) => TypeOK'
<1> SUFFICES ASSUME TypeOK, Dies(d) PROVE TypeOK'
  OBVIOUS
<1>1. /\ diedAt' = [diedAt EXCEPT ![d] = now]
      /\ UNCHANGED <<now, busyUntil, afterCreate, checkStart, node, createdAt, children,
                     lastBeat, lastSent, eventsList, reportedAt>>
  BY DEF Dies
<1>2. Created' = Created /\ now \in Nat
  BY <1>1, Typed DEF Created
<1>3. diedAt' \in [Pids -> {Never} \cup 0..now']
  BY <1>1, <1>2 DEF TypeOK
<1>4. afterCreate' \in BOOLEAN
  BY <1>1 DEF TypeOK
<1>5. /\ now' \in 0..MaxTime /\ busyUntil' \in now'..Forever
      /\ checkStart' \in 0..now' /\ Len(createdAt') <= MaxChildren
      /\ node' \in 0..(Len(children') + 1)
      /\ createdAt' \in Seq(0..now') /\ children' \in Seq(Created)
      /\ eventsList' \in Seq(Created \X (0..now'))
      /\ lastBeat' \in [Pids -> 0..now'] /\ lastSent' \in [Pids -> 0..now']
      /\ reportedAt' \in [Pids -> {Never} \cup 0..now']
  BY <1>1 DEF TypeOK
<1> QED
  BY <1>2, <1>3, <1>4, <1>5 DEF TypeOK

LEMMA TypesNext == TypeOK /\ [Next]_vars => TypeOK'
<1> SUFFICES ASSUME TypeOK, [Next]_vars PROVE TypeOK'
  OBVIOUS
<1>1. CASE Tick
  BY <1>1, TypesTick
<1>2. CASE Create
  BY <1>2, TypesCreate
<1>3. CASE Iterate
  BY <1>3, TypesIterate
<1>4. CASE EraseNode
  BY <1>4, TypesEraseNode
<1>5. CASE PassNode \/ EndOfCheck \/ UNCHANGED vars
  BY <1>5, TypesSame
<1>6. ASSUME NEW d \in Pids, Dies(d) PROVE TypeOK'
  BY <1>6, TypesDies
<1> QED
  BY <1>1, <1>2, <1>3, <1>4, <1>5, <1>6 DEF Next

\* The clocks, the list and the heartbeats keep their types: only children that were
\* created are on the list or heard of, and no time is noted that is not over.
THEOREM ClocksTyped == Spec => []TypeOK
<1>1. Init => TypeOK
  BY TypesInit
<1>2. TypeOK /\ [Next]_vars => TypeOK'
  BY TypesNext
<1> QED
  BY <1>1, <1>2, PTL DEF Spec


-----------------------------------------------------------------------------
(***************************************************************************)
(* Only the dead are reported.                                             *)
(***************************************************************************)

\* The parent's list holds each child that it created and did not report once.
ListInv ==
  /\ Dead \cup Reported \subseteq Created
  /\ \A c \in Created : c \in Range(children) <=> c \notin Reported
  /\ \A i, j \in DOMAIN children : children[i] = children[j] => i = j

LEMMA ListInit == Init => ListInv
<1> SUFFICES ASSUME Init PROVE ListInv
  OBVIOUS
<1>1. Created = {} /\ DOMAIN children = {} /\ Dead = {} /\ Reported = {}
  BY EmptySeq DEF Init, Created, Dead, Reported, Never
<1> QED
  BY <1>1 DEF ListInv

\* Reporting a child takes it off the list, and no other one.
LEMMA ChildErased ==
  ASSUME TypeOK, ListInv, EraseNode
  PROVE  /\ children[node] \in Created \ Reported
         /\ node \in 1..Len(children)
         /\ Reported' = Reported \cup {children[node]}
         /\ reportedAt'[children[node]] = now
         /\ \A c \in Reported : reportedAt'[c] = reportedAt[c]
         /\ Len(children') = Len(children) - 1
         /\ DOMAIN children' = 1..(Len(children) - 1)
         /\ \A j \in 1..(Len(children) - 1) :
              children'[j] = IF j < node THEN children[j] ELSE children[j + 1]
         /\ Range(children') = Range(children) \ {children[node]}
<1> DEFINE dead == children[node]
<1>1. /\ node \in DOMAIN children
      /\ reportedAt' = [reportedAt EXCEPT ![dead] = now]
      /\ children' = RemoveAt(children, node)
  BY DEF EraseNode
<1>2. /\ node \in 1..Len(children) /\ Len(children) \in Nat /\ now \in Nat
      /\ DOMAIN children = 1..Len(children)
      /\ dead \in Created /\ dead \in Pids
  <2>1. /\ Len(children) \in Nat /\ now \in Nat
        /\ DOMAIN children = 1..Len(children) /\ Created \subseteq Pids
        /\ \A i \in DOMAIN children : children[i] \in Created
    BY Typed
  <2> QED
    BY <1>1, <2>1
<1>3. dead \in Created \ Reported
  <2>1. dead \in Range(children)
    BY <1>1, Zenon DEF Range
  <2> HIDE DEF dead
  <2> QED
    BY <1>2, <2>1 DEF ListInv
<1>4. /\ children' \in Seq(Created)
      /\ Len(children') = Len(children) - 1
      /\ \A j \in 1..(Len(children) - 1) :
           children'[j] = IF j < node THEN children[j] ELSE children[j + 1]
  BY <1>1, <1>2, RemoveAtProperties DEF TypeOK
<1>5. DOMAIN children' = 1..(Len(children) - 1)
  BY <1>4, LenProperties
<1>6. /\ reportedAt'[dead] = now
      /\ \A c \in Pids : c # dead => reportedAt'[c] = reportedAt[c]
  BY <1>1, <1>2 DEF TypeOK
<1>7. Reported' = Reported \cup {dead}
  BY <1>2, <1>6 DEF Reported, Never
<1>8. \A c \in Reported : reportedAt'[c] = reportedAt[c]
  BY <1>3, <1>6 DEF Reported
<1>9. Range(children') = Range(children) \ {dead}
  <2>1. ASSUME NEW j \in 1..(Len(children) - 1)
        PROVE  children'[j] \in Range(children) \ {dead}
    <3>1. PICK k \in 1..Len(children) : k # node /\ children'[j] = children[k]
      BY <1>2, <1>4
    <3>2. children[k] # dead
      BY <1>2, <3>1 DEF ListInv
    <3> QED
      BY <1>2, <3>1, <3>2 DEF Range
  <2>2. ASSUME NEW i \in 1..Len(children), children[i] # dead
        PROVE  \E j \in 1..(Len(children) - 1) : children'[j] = children[i]
    <3>1. CASE i < node
      BY <1>2, <1>4, <3>1
    <3>2. CASE i > node
      <4>1. i - 1 \in 1..(Len(children) - 1) /\ children'[i - 1] = children[i]
        BY <1>2, <1>4, <3>2
      <4> QED
        BY <4>1
    <3> QED
      BY <1>2, <2>2, <3>1, <3>2
  <2>3. Range(children') \subseteq Range(children) \ {dead}
    BY <1>5, <2>1 DEF Range
  <2>4. Range(children) \ {dead} \subseteq Range(children')
    BY <1>2, <1>5, <2>2 DEF Range
  <2> QED
    BY <2>3, <2>4
<1> QED
  BY <1>2, <1>3, <1>4, <1>5, <1>6, <1>7, <1>8, <1>9

\* A child that dies was alive until then.
LEMMA ChildDied ==
  ASSUME TypeOK, NEW d \in Pids, Dies(d)
  PROVE  /\ d \in Created \ (Dead \cup Reported)
         /\ Dead' = Dead \cup {d}
         /\ diedAt'[d] = now
         /\ \A c \in Dead : diedAt'[c] = diedAt[c]
<1>1. d \in Created \ (Dead \cup Reported) /\ diedAt' = [diedAt EXCEPT ![d] = now]
  BY DEF Dies
<1>2. /\ diedAt'[d] = now /\ now \in Nat
      /\ \A c \in Pids : c # d => diedAt'[c] = diedAt[c]
  BY <1>1, Typed DEF TypeOK
<1> QED
  BY <1>1, <1>2 DEF Dead, Never

LEMMA ListNext == TypeOK /\ ListInv /\ [Next]_vars => ListInv'
<1> SUFFICES ASSUME TypeOK, ListInv, [Next]_vars PROVE ListInv'
  OBVIOUS
<1>1. CASE Tick \/ Iterate \/ PassNode \/ EndOfCheck \/ UNCHANGED vars
  <2>1. UNCHANGED <<createdAt, children, diedAt, reportedAt>>
    BY <1>1 DEF Tick, Iterate, PassNode, EndOfCheck, vars
  <2> QED
    BY <2>1 DEF ListInv, Created, Dead, Reported, Range
<1>2. CASE Create
  <2> DEFINE new == Len(createdAt) + 1
  <2>1. UNCHANGED <<diedAt, reportedAt>>
    BY <1>2 DEF Create
  <2>2. Dead' = Dead /\ Reported' = Reported
    BY <2>1 DEF Dead, Reported
  <2>3. /\ Created' = Created \cup {new} /\ new \notin Created
        /\ children' \in Seq(Created') /\ Len(children') = Len(children) + 1
        /\ \A i \in 1..Len(children) : children'[i] = children[i]
        /\ children'[Len(children) + 1] = new
    BY <1>2, CreateAppends
  <2>4. /\ DOMAIN children = 1..Len(children) /\ Len(children) \in Nat
        /\ \A i \in DOMAIN children : children[i] \in Created
    BY Typed
  <2>5. DOMAIN children' = 1..(Len(children) + 1)
    BY <2>3, LenProperties
  <2>6. Range(children') = Range(children) \cup {new}
    <3>1. \A i \in DOMAIN children' : children'[i] \in Range(children) \cup {new}
      BY <2>3, <2>4, <2>5 DEF Range
    <3>2. \A x \in Range(children) \cup {new} : \E i \in DOMAIN children' : children'[i] = x
      BY <2>3, <2>4, <2>5 DEF Range
    <3> QED
      BY <3>1, <3>2 DEF Range
  <2>7. \A c \in Created' : c \in Range(children') <=> c \notin Reported'
    BY <2>2, <2>3, <2>6 DEF ListInv
  <2>8. ASSUME NEW i \in DOMAIN children', NEW j \in DOMAIN children',
               children'[i] = children'[j]
        PROVE  i = j
    BY <2>3, <2>4, <2>5, <2>8 DEF ListInv
  <2> QED
    BY <2>2, <2>3, <2>7, <2>8 DEF ListInv
<1>3. CASE EraseNode
  <2>1. UNCHANGED <<createdAt, diedAt>>
    BY <1>3 DEF EraseNode
  <2>2. Created' = Created /\ Dead' = Dead
    BY <2>1 DEF Created, Dead
  <2>3. /\ children[node] \in Created \ Reported /\ node \in 1..Len(children)
        /\ Reported' = Reported \cup {children[node]}
        /\ DOMAIN children' = 1..(Len(children) - 1)
        /\ \A j \in 1..(Len(children) - 1) :
             children'[j] = IF j < node THEN children[j] ELSE children[j + 1]
        /\ Range(children') = Range(children) \ {children[node]}
    BY <1>3, ChildErased
  <2>4. DOMAIN children = 1..Len(children) /\ Len(children) \in Nat
    BY Typed
  <2>5. ASSUME NEW i \in DOMAIN children', NEW j \in DOMAIN children',
               children'[i] = children'[j]
        PROVE  i = j
    <3>1. PICK a \in DOMAIN children, b \in DOMAIN children :
            /\ children'[i] = children[a] /\ children'[j] = children[b]
            /\ a = (IF i < node THEN i ELSE i + 1) /\ b = (IF j < node THEN j ELSE j + 1)
      <4>1. /\ i \in 1..(Len(children) - 1) /\ j \in 1..(Len(children) - 1)
            /\ node \in Nat
        BY <2>3, <2>4, <2>5
      <4>2. ASSUME NEW x \in 1..(Len(children) - 1)
            PROVE  /\ (IF x < node THEN x ELSE x + 1) \in DOMAIN children
                   /\ children'[x] = children[IF x < node THEN x ELSE x + 1]
        BY <2>3, <2>4, <4>1
      <4> QED
        BY <4>1, <4>2
    <3>2. a = b
      BY <2>5, <3>1 DEF ListInv
    <3> QED
      BY <2>3, <2>4, <2>5, <3>1, <3>2
  <2> QED
    BY <2>2, <2>3, <2>5 DEF ListInv
<1>4. ASSUME NEW d \in Pids, Dies(d) PROVE ListInv'
  <2>1. UNCHANGED <<createdAt, children, reportedAt>>
    BY <1>4 DEF Dies
  <2>2. Dead' = Dead \cup {d} /\ d \in Created
    BY <1>4, ChildDied
  <2> QED
    BY <2>1, <2>2 DEF ListInv, Created, Reported, Range
<1> QED
  BY <1>1, <1>2, <1>3, <1>4 DEF Next


\* No more children die than may.
DeathsInv == Cardinality(Dead) <= MaxDeaths

LEMMA FiniteChildren ==
  ASSUME TypeOK
  PROVE  /\ IsFiniteSet(Dead) /\ Cardinality(Dead) \in Nat
         /\ IsFiniteSet(Reported) /\ Cardinality(Reported) \in Nat
<1>1. IsFiniteSet(Pids)
  BY FS_Interval, TimesAssumption DEF Pids
<1>2. Dead \in SUBSET Pids /\ Reported \in SUBSET Pids
  BY DEF Dead, Reported
<1>3. IsFiniteSet(Dead) /\ IsFiniteSet(Reported)
  BY <1>1, <1>2, FS_Subset
<1> QED
  BY <1>3, FS_CardinalityType

\* One more is reported, or none.
LEMMA ErasureCounted ==
  ASSUME TypeOK, ListInv, EraseNode
  PROVE  Cardinality(Reported') = Cardinality(Reported) + 1
<1>1. Reported' = Reported \cup {children[node]} /\ children[node] \notin Reported
  BY ChildErased
<1> QED
  BY <1>1, FiniteChildren, FS_AddElement

LEMMA DeathsInit == Init => DeathsInv
<1> SUFFICES ASSUME Init PROVE DeathsInv
  OBVIOUS
<1>1. Dead = {}
  BY DEF Init, Dead, Never
<1> QED
  BY <1>1, FS_EmptySet, TimesAssumption DEF DeathsInv

LEMMA DeathsNext == TypeOK /\ DeathsInv /\ [Next]_vars => DeathsInv'
<1> SUFFICES ASSUME TypeOK, DeathsInv, [Next]_vars PROVE DeathsInv'
  OBVIOUS
<1>1. ASSUME NEW d \in Pids, Dies(d) PROVE DeathsInv'
  <2>1. Dead' = Dead \cup {d} /\ d \notin Dead /\ Cardinality(Dead) < MaxDeaths
    BY <1>1, ChildDied DEF Dies
  <2>2. Cardinality(Dead') = Cardinality(Dead) + 1 /\ Cardinality(Dead) \in Nat
    BY <2>1, FiniteChildren, FS_AddElement
  <2> QED
    BY <2>1, <2>2, TimesAssumption DEF DeathsInv
<1>2. CASE diedAt' = diedAt
  BY <1>2 DEF DeathsInv, Dead
<1> QED
  BY <1>1, <1>2
  DEF Next, Tick, Create, Iterate, PassNode, EraseNode, EndOfCheck, vars


\* When the parent's thread goes on: a check comes as soon as a period is over, and
\* only a creation that began before can put it off, or the erasures of the check
\* before, a tick each.
ClockInv ==
  /\ node # 0 =>
       /\ ~afterCreate
       /\ Stuck \/ busyUntil <= checkStart + Cardinality(Reported)
  /\ ~afterCreate =>
       \/ Stuck
       \/ busyUntil <= checkStart + Period + 1
       \/ busyUntil <= checkStart + Cardinality(Reported)
  /\ afterCreate =>
       /\ createdAt # <<>>
       /\ checkStart <= createdAt[Len(createdAt)]
       /\ busyUntil = createdAt[Len(createdAt)] + CreateTicks
       /\ \/ busyUntil <= checkStart + Period + 1 + CreateTicks
          \/ busyUntil <= checkStart + Cardinality(Reported) + CreateTicks

LEMMA ClockInit == Init => ClockInv
  BY TimesAssumption DEF Init, ClockInv

LEMMA ClockNext == TypeOK /\ ListInv /\ ClockInv /\ [Next]_vars => ClockInv'
<1> SUFFICES ASSUME TypeOK, ListInv, ClockInv, [Next]_vars PROVE ClockInv'
  OBVIOUS
<1>1. /\ now \in Nat /\ busyUntil \in Nat /\ checkStart \in Nat /\ checkStart <= now
      /\ now <= busyUntil /\ Len(createdAt) \in Nat
      /\ Period \in Nat /\ CreateTicks \in Nat /\ Cardinality(Reported) \in Nat
  BY Typed, TimesAssumption, FiniteChildren
<1>2. CASE Tick
  <2>1. /\ UNCHANGED <<busyUntil, checkStart, node, afterCreate, createdAt>>
        /\ Reported' = Reported
    BY <1>2 DEF Tick, Reported
  <2> QED
    BY <2>1 DEF ClockInv, Stuck
<1>3. CASE Create
  <2>1. /\ Len(createdAt') = Len(createdAt) + 1 /\ createdAt'[Len(createdAt) + 1] = now
    BY <1>3, CreateAppends
  <2>2. createdAt' # <<>>
    BY <2>1, <1>1, EmptySeq
  <2>3. /\ now = busyUntil /\ node' = 0 /\ ~afterCreate /\ checkStart' = checkStart
        /\ busyUntil' = now + CreateTicks /\ afterCreate' /\ Reported' = Reported
    BY <1>3 DEF Create, Running, Reported
  <2>4. \/ busyUntil <= checkStart + Period + 1
        \/ busyUntil <= checkStart + Cardinality(Reported)
    BY <2>3, NotStuck DEF ClockInv
  <2>5. PICK r \in Nat : r = Cardinality(Reported)
    BY <1>1
  <2>6. \/ busyUntil' <= checkStart + Period + 1 + CreateTicks
        \/ busyUntil' <= checkStart + r + CreateTicks
    BY <1>1, <2>3, <2>4, <2>5
  <2> QED
    BY <1>1, <2>1, <2>2, <2>3, <2>5, <2>6 DEF ClockInv
<1>4. CASE Iterate
  <2>1. /\ ~afterCreate' /\ now' = now /\ now = busyUntil /\ node = 0
        /\ Reported' = Reported
    BY <1>4 DEF Iterate, Running, Reported
  <2>2. CASE timeToCheckHeartbeat
    <3>1. checkStart' = now /\ busyUntil' = now
      BY <1>4, <2>2 DEF Iterate
    <3> QED
      BY <1>1, <2>1, <3>1 DEF ClockInv
  <2>3. CASE ~timeToCheckHeartbeat
    <3>1. checkStart' = checkStart /\ node' = node /\ busyUntil' \in {now, now + 1}
      BY <1>4, <2>3 DEF Iterate
    <3>2. now <= checkStart + Period
      BY <1>1, <2>3 DEF timeToCheckHeartbeat
    <3> QED
      BY <1>1, <2>1, <3>1, <3>2 DEF ClockInv
  <2> QED
    BY <2>2, <2>3
<1>5. CASE PassNode \/ EndOfCheck
  <2>1. /\ UNCHANGED <<now, busyUntil, afterCreate, checkStart, createdAt>>
        /\ Reported' = Reported /\ node # 0
    <3>1. DOMAIN children = 1..Len(children) /\ Len(children) \in Nat
      BY Typed
    <3> QED
      BY <1>5, <3>1 DEF PassNode, EndOfCheck, Reported
  <2> QED
    BY <2>1 DEF ClockInv, Stuck
<1>6. CASE EraseNode
  <2>1. /\ UNCHANGED <<now, afterCreate, checkStart, createdAt>>
        /\ now = busyUntil /\ node # 0
        /\ busyUntil' \in {now, now + 1} \/ Stuck'
    <3>1. DOMAIN children = 1..Len(children) /\ Len(children) \in Nat
      BY Typed
    <3> QED
      BY <1>6, <3>1 DEF EraseNode, Stuck
  <2>2. PICK r \in Nat, r2 \in Nat :
          r = Cardinality(Reported) /\ r2 = Cardinality(Reported') /\ r2 = r + 1
    BY <1>1, <1>6, ErasureCounted
  <2>3. ~afterCreate /\ busyUntil <= checkStart + r
    BY <2>1, <2>2, NotStuck DEF ClockInv
  <2>4. Stuck' \/ busyUntil' <= checkStart' + r2
    BY <1>1, <2>1, <2>2, <2>3
  <2> QED
    BY <2>1, <2>2, <2>3, <2>4 DEF ClockInv
<1>7. CASE UNCHANGED vars
  BY <1>7 DEF vars, ClockInv, Reported, Stuck
<1>8. ASSUME NEW d \in Pids, Dies(d) PROVE ClockInv'
  BY <1>8 DEF Dies, ClockInv, Reported, Stuck
<1> QED
  BY <1>2, <1>3, <1>4, <1>5, <1>6, <1>7, <1>8 DEF Next


\* The times of a child: its creation, the last heartbeat that was handled and the
\* last that arrived, which is not old as long as the child lives, nor later than
\* its death.
TimesInOrder(c) ==
  /\ createdAt[c] <= lastBeat[c]
  /\ lastBeat[c] <= lastSent[c]
  /\ lastSent[c] = createdAt[c] \/ lastSent[c] <= now - Latency
  /\ c \in Dead => lastSent[c] <= diedAt[c]
  /\ c \notin Dead \cup Reported => now - Latency < lastSent[c] + CreateTicks

LastIsQueued(c) ==
  c \notin Reported =>
    lastSent[c] = lastBeat[c] \/ \E i \in DOMAIN eventsList : eventsList[i] = <<c, lastSent[c]>>

\* A heartbeat that waits is newer than all that were handled.
QueuedInTime(i) ==
  /\ lastBeat[eventsList[i][1]] < eventsList[i][2]
  /\ eventsList[i][2] <= lastSent[eventsList[i][1]]

QueueInOrder ==
  \A i, j \in DOMAIN eventsList :
    (i < j /\ eventsList[i][1] = eventsList[j][1]) => eventsList[i][2] < eventsList[j][2]

\* The heartbeats of a child arrive in the order of their times and are handled in
\* that order.
BeatInv ==
  /\ \A c \in Created : TimesInOrder(c) /\ LastIsQueued(c)
  /\ \A i \in DOMAIN eventsList : QueuedInTime(i)
  /\ QueueInOrder

LEMMA BeatInit == Init => BeatInv
<1> SUFFICES ASSUME Init PROVE BeatInv
  OBVIOUS
<1>1. Created = {} /\ DOMAIN eventsList = {}
  BY EmptySeq DEF Init, Created
<1> QED
  BY <1>1 DEF BeatInv, QueueInOrder

\* The times of the children and of the queue are natural numbers.
LEMMA TimesTyped ==
  ASSUME TypeOK
  PROVE  /\ \A c \in Pids : lastBeat[c] \in 0..now /\ lastSent[c] \in 0..now
         /\ \A i \in DOMAIN eventsList :
              eventsList[i][1] \in Created /\ eventsList[i][2] \in 0..now
         /\ CreateTicks \in Nat \ {0} /\ Latency \in Nat /\ Period \in Nat \ {0}
<1>1. \A i \in DOMAIN eventsList : eventsList[i] \in Created \X (0..now)
  BY Typed
<1> QED
  BY <1>1, TimesAssumption DEF TypeOK

\* The times and the positions in the queue, as numbers.
LEMMA NumbersTyped ==
  ASSUME TypeOK
  PROVE  /\ now \in Nat /\ busyUntil \in Nat /\ now <= busyUntil
         /\ Len(createdAt) \in Nat /\ Created = 1..Len(createdAt)
         /\ Created \subseteq Pids
         /\ \A c \in Created : /\ createdAt[c] \in Nat
                               /\ lastBeat[c] \in Nat /\ lastSent[c] \in Nat
         /\ Len(eventsList) \in Nat /\ DOMAIN eventsList = 1..Len(eventsList)
         /\ \A i \in 1..Len(eventsList) :
              eventsList[i][1] \in Created /\ eventsList[i][2] \in Nat
         /\ CreateTicks \in Nat \ {0} /\ Latency \in Nat /\ Period \in Nat
<1>1. /\ now \in Nat /\ busyUntil \in Nat /\ now <= busyUntil
      /\ Len(createdAt) \in Nat /\ Created = 1..Len(createdAt)
      /\ Created \subseteq Pids
      /\ Len(eventsList) \in Nat /\ DOMAIN eventsList = 1..Len(eventsList)
  BY Typed
<1>2. 0..now \subseteq Nat
  BY <1>1
<1>3. \A c \in Created : createdAt[c] \in 0..now
  BY Typed
<1>4. \A c \in Pids : lastBeat[c] \in 0..now /\ lastSent[c] \in 0..now
  BY TimesTyped
<1>5. \A i \in DOMAIN eventsList :
        eventsList[i][1] \in Created /\ eventsList[i][2] \in 0..now
  BY TimesTyped
<1>6. CreateTicks \in Nat \ {0} /\ Latency \in Nat /\ Period \in Nat
  BY TimesTyped
<1> QED
  BY <1>1, <1>2, <1>3, <1>4, <1>5, <1>6

LEMMA BeatTick == TypeOK /\ BeatInv /\ Tick => BeatInv'
<1> SUFFICES ASSUME TypeOK, BeatInv, Tick PROVE BeatInv'
  OBVIOUS
<1> DEFINE sent == now + 1 - Latency
<1>1. PICK senders, arrived : Arrival(sent, senders, arrived)
  BY TickArrives
<1>2. /\ now' = now + 1
      /\ UNCHANGED <<createdAt, lastBeat, diedAt, reportedAt>>
  BY DEF Tick
<1>3. Created' = Created /\ Dead' = Dead /\ Reported' = Reported
  BY <1>2 DEF Created, Dead, Reported
<1>4. /\ now \in Nat /\ Created \subseteq Pids /\ sent \in Int
      /\ CreateTicks \in Nat \ {0} /\ Latency \in Nat
      /\ \A c \in Created : /\ createdAt[c] \in Nat
                            /\ lastBeat[c] \in Nat /\ lastSent[c] \in Nat
      /\ Len(eventsList) \in Nat /\ DOMAIN eventsList = 1..Len(eventsList)
      /\ \A i \in 1..Len(eventsList) :
           eventsList[i][1] \in Created /\ eventsList[i][2] \in Nat
  <2>1. now \in Nat /\ Latency \in Nat
    BY NumbersTyped
  <2>2. sent \in Int
    BY <2>1
  <2> HIDE DEF sent
  <2> QED
    BY <2>2, NumbersTyped
<1>5. /\ Len(arrived) \in Nat
      /\ DOMAIN eventsList' = 1..(Len(eventsList) + Len(arrived))
  BY <1>1, LenProperties DEF Arrival
<1>6. \A i \in 1..Len(eventsList) : eventsList'[i] = eventsList[i]
  BY <1>1, <1>4, <1>5 DEF Arrival
<1>7. \A i \in 1..Len(arrived) : eventsList'[Len(eventsList) + i] = arrived[i]
  BY <1>1, <1>4, <1>5 DEF Arrival
<1>8. \A c \in Pids : lastSent'[c] = IF c \in senders THEN sent ELSE lastSent[c]
  BY <1>1 DEF Arrival
<1>9. senders \subseteq Beating(sent) /\ DueToBeat(sent) \subseteq senders
  BY <1>1 DEF Arrival
<1>10. \A c \in senders : c \in Created /\ createdAt[c] < sent /\ lastSent[c] < sent
  BY <1>4, <1>9 DEF Beating, BeatInv, TimesInOrder
<1>11. ASSUME NEW c \in Created PROVE TimesInOrder(c)' /\ LastIsQueued(c)'
  <2>1. TimesInOrder(c) /\ LastIsQueued(c)
    BY DEF BeatInv
  <2>2. CASE c \in senders
    <3>1. lastSent'[c] = sent /\ c \in Beating(sent) /\ createdAt[c] < sent /\ lastSent[c] < sent
      BY <1>4, <1>8, <1>9, <1>10, <2>2
    <3>2. c \in Dead => sent <= diedAt[c]
      BY <3>1 DEF Beating
    <3>3. TimesInOrder(c)'
      BY <1>2, <1>3, <1>4, <2>1, <3>1, <3>2 DEF TimesInOrder
    <3>4. \E i \in 1..Len(arrived) : arrived[i] = <<c, sent>>
      BY <1>1, <2>2 DEF Arrival
    <3>5. \E i \in DOMAIN eventsList' : eventsList'[i] = <<c, sent>>
      <4>1. PICK i \in 1..Len(arrived) : arrived[i] = <<c, sent>>
        BY <3>4
      <4>2. /\ eventsList'[Len(eventsList) + i] = <<c, sent>>
            /\ Len(eventsList) + i \in 1..(Len(eventsList) + Len(arrived))
        BY <1>4, <1>5, <1>7, <4>1
      <4> QED
        BY <1>5, <4>2
    <3> QED
      BY <3>1, <3>3, <3>5 DEF LastIsQueued
  <2>3. CASE c \notin senders
    <3>1. lastSent'[c] = lastSent[c]
      BY <1>4, <1>8, <2>3
    <3>2. ASSUME c \notin Dead \cup Reported PROVE sent < lastSent[c] + CreateTicks
      <4>1. CASE createdAt[c] < sent
        <5>1. c \in Beating(sent) \ DueToBeat(sent)
          BY <1>9, <2>3, <3>2, <4>1 DEF Beating
        <5> QED
          BY <1>4, <5>1 DEF DueToBeat
      <4>2. CASE ~(createdAt[c] < sent)
        BY <1>4, <2>1, <4>2 DEF TimesInOrder
      <4> QED
        BY <4>1, <4>2
    <3>3. TimesInOrder(c)'
      BY <1>2, <1>3, <1>4, <2>1, <3>1, <3>2 DEF TimesInOrder
    <3>4. LastIsQueued(c)'
      <4>1. CASE c \in Reported \/ lastSent[c] = lastBeat[c]
        BY <1>2, <1>3, <3>1, <4>1 DEF LastIsQueued
      <4>2. ASSUME NEW i \in DOMAIN eventsList, eventsList[i] = <<c, lastSent[c]>>
            PROVE  LastIsQueued(c)'
        <5>1. i \in DOMAIN eventsList' /\ eventsList'[i] = <<c, lastSent[c]>>
          BY <1>4, <1>5, <1>6, <4>2
        <5> QED
          BY <3>1, <5>1 DEF LastIsQueued
      <4> QED
        BY <2>1, <4>1, <4>2 DEF LastIsQueued
    <3> QED
      BY <3>3, <3>4
  <2> QED
    BY <2>2, <2>3
<1>12. \A i \in 1..Len(arrived) : arrived[i][1] \in senders /\ arrived[i][2] = sent
  <2>1. \A i \in 1..Len(arrived) : arrived[i] = <<arrived[i][1], sent>> /\ arrived[i][1] \in senders
    BY <1>1 DEF Arrival
  <2> QED
    BY <2>1
<1>13. ASSUME NEW i \in DOMAIN eventsList' PROVE QueuedInTime(i)'
  <2>1. CASE i \in 1..Len(eventsList)
    <3> DEFINE c == eventsList[i][1]
    <3>1. QueuedInTime(i) /\ eventsList'[i] = eventsList[i] /\ c \in Created
      BY <1>4, <1>6, <2>1 DEF BeatInv
    <3>2. lastSent[c] <= lastSent'[c]
      BY <1>4, <1>8, <1>10, <3>1
    <3>3. lastSent'[c] \in Int
      BY <1>4, <1>8, <3>1
    <3> QED
      BY <1>2, <1>4, <2>1, <3>1, <3>2, <3>3 DEF QueuedInTime
  <2>2. CASE i \notin 1..Len(eventsList)
    <3>1. PICK j \in 1..Len(arrived) : i = Len(eventsList) + j
      <4>1. i - Len(eventsList) \in 1..Len(arrived)
        BY <1>4, <1>5, <2>2
      <4> QED
        BY <1>4, <1>5, <4>1
    <3>2. eventsList'[i] = arrived[j]
      BY <1>7, <3>1
    <3>3. arrived[j][1] \in senders /\ arrived[j][2] = sent
      BY <1>12
    <3>4. PICK c \in senders : c = arrived[j][1]
      BY <3>3
    <3>5. lastBeat[c] <= lastSent[c] /\ lastSent[c] < sent /\ lastSent'[c] = sent
      BY <1>4, <1>8, <1>10 DEF BeatInv, TimesInOrder
    <3>6. lastBeat[c] < sent
      BY <1>4, <1>10, <3>5
    <3> QED
      BY <1>2, <1>4, <3>2, <3>3, <3>4, <3>5, <3>6 DEF QueuedInTime
  <2> QED
    BY <2>1, <2>2
<1>14. ASSUME NEW i \in DOMAIN eventsList', NEW j \in DOMAIN eventsList',
              i < j, eventsList'[i][1] = eventsList'[j][1]
       PROVE  eventsList'[i][2] < eventsList'[j][2]
  <2>1. CASE j \in 1..Len(eventsList)
    <3>1. i \in 1..Len(eventsList)
      BY <1>4, <1>5, <1>14, <2>1
    <3> QED
      BY <1>4, <1>6, <1>14, <2>1, <3>1 DEF BeatInv, QueueInOrder
  <2>2. CASE j \notin 1..Len(eventsList)
    <3>1. PICK m \in 1..Len(arrived) : j = Len(eventsList) + m
      <4>1. j - Len(eventsList) \in 1..Len(arrived)
        BY <1>4, <1>5, <2>2
      <4> QED
        BY <1>4, <1>5, <4>1
    <3>2. /\ eventsList'[j] = arrived[m] /\ arrived[m][1] \in senders
          /\ arrived[m][2] = sent
      BY <1>7, <1>12, <3>1
    <3>3. CASE i \in 1..Len(eventsList)
      <4>1. /\ eventsList'[i] = eventsList[i] /\ QueuedInTime(i)
            /\ eventsList[i][1] \in senders
        BY <1>4, <1>6, <1>14, <3>2, <3>3 DEF BeatInv
      <4>2. eventsList[i][2] <= lastSent[eventsList[i][1]] /\ lastSent[eventsList[i][1]] < sent
        BY <1>10, <4>1 DEF QueuedInTime
      <4> QED
        BY <1>4, <1>10, <3>2, <3>3, <4>1, <4>2
    <3>4. CASE i \notin 1..Len(eventsList)
      <4>1. PICK n \in 1..Len(arrived) : i = Len(eventsList) + n
        <5>1. i - Len(eventsList) \in 1..Len(arrived)
          BY <1>4, <1>5, <3>4
        <5> QED
          BY <1>4, <1>5, <5>1
      <4>2. eventsList'[i] = arrived[n]
        BY <1>7, <4>1
      <4>3. m = n
        BY <1>1, <1>14, <3>2, <4>2 DEF Arrival
      <4> QED
        BY <1>4, <1>14, <3>1, <4>1, <4>3
    <3> QED
      BY <3>3, <3>4
  <2> QED
    BY <2>1, <2>2
<1> QED
  BY <1>3, <1>11, <1>13, <1>14 DEF BeatInv, QueueInOrder


LEMMA BeatCreate == TypeOK /\ ListInv /\ BeatInv /\ Create => BeatInv'
<1> SUFFICES ASSUME TypeOK, ListInv, BeatInv, Create PROVE BeatInv'
  OBVIOUS
<1>0. PICK new : new = Len(createdAt) + 1
  OBVIOUS
<1>1. /\ lastBeat' = [lastBeat EXCEPT ![new] = now]
      /\ lastSent' = [lastSent EXCEPT ![new] = now]
      /\ UNCHANGED <<now, eventsList, diedAt, reportedAt>>
  BY <1>0 DEF Create
<1>2. /\ Created' = Created \cup {new} /\ new \in Pids \ Created
      /\ \A c \in Created : createdAt'[c] = createdAt[c]
      /\ createdAt'[new] = now
  BY <1>0, CreateAppends
<1>3. /\ now \in Nat /\ Created \subseteq Pids
      /\ CreateTicks \in Nat \ {0} /\ Latency \in Nat
      /\ \A i \in DOMAIN eventsList : eventsList[i][1] \in Created
  BY Typed, TimesTyped
<1>4. /\ lastBeat'[new] = now /\ lastSent'[new] = now
      /\ \A c \in Created : lastBeat'[c] = lastBeat[c] /\ lastSent'[c] = lastSent[c]
  BY <1>1, <1>2, <1>3 DEF TypeOK
<1>5. Dead' = Dead /\ Reported' = Reported
  BY <1>1 DEF Dead, Reported
<1>6. ASSUME NEW c \in Created PROVE TimesInOrder(c)' /\ LastIsQueued(c)'
  BY <1>1, <1>2, <1>4, <1>5 DEF BeatInv, TimesInOrder, LastIsQueued
<1>7. TimesInOrder(new)' /\ LastIsQueued(new)'
  <2>1. new \notin Dead
    BY <1>2 DEF ListInv
  <2> QED
    BY <1>1, <1>2, <1>3, <1>4, <1>5, <2>1 DEF TimesInOrder, LastIsQueued
<1>8. ASSUME NEW i \in DOMAIN eventsList PROVE QueuedInTime(i)'
  BY <1>1, <1>3, <1>4 DEF BeatInv, QueuedInTime
<1>9. QueueInOrder'
  BY <1>1 DEF BeatInv, QueueInOrder
<1> QED
  BY <1>1, <1>2, <1>6, <1>7, <1>8, <1>9 DEF BeatInv

\* The message that is pulled is the first; the others move up.
LEMMA IteratePulls ==
  ASSUME TypeOK, Iterate, MayPull
  PROVE  /\ 1 \in DOMAIN eventsList /\ Head(eventsList) = eventsList[1]
         /\ DOMAIN eventsList' = 1..(Len(eventsList) - 1)
         /\ \A i \in 1..(Len(eventsList) - 1) : eventsList'[i] = eventsList[i + 1]
<1>1. eventsList' = Tail(eventsList) /\ eventsList # <<>>
  BY DEF Iterate, MayPull
<1>2. /\ eventsList' \in Seq(Created \X (0..now))
      /\ Len(eventsList') = Len(eventsList) - 1
      /\ \A i \in 1..Len(eventsList') : eventsList'[i] = eventsList[i + 1]
      /\ Head(eventsList) = eventsList[1]
  BY <1>1, HeadTailProperties DEF TypeOK
<1>3. Len(eventsList) \in Nat \ {0} /\ DOMAIN eventsList = 1..Len(eventsList)
  BY <1>1, EmptySeq, Typed DEF TypeOK
<1>4. DOMAIN eventsList' = 1..Len(eventsList')
  BY <1>2, LenProperties
<1> QED
  BY <1>2, <1>3, <1>4

LEMMA BeatIterate == TypeOK /\ ListInv /\ BeatInv /\ Iterate => BeatInv'
<1> SUFFICES ASSUME TypeOK, ListInv, BeatInv, Iterate PROVE BeatInv'
  OBVIOUS
<1>1. /\ lastBeat' = handleHeartbeat
      /\ UNCHANGED <<now, createdAt, lastSent, diedAt, reportedAt>>
  BY DEF Iterate
<1>2. Created' = Created /\ Dead' = Dead /\ Reported' = Reported
  BY <1>1 DEF Created, Dead, Reported
<1>3. /\ now \in Nat /\ Created \subseteq Pids
      /\ \A c \in Created : /\ createdAt[c] \in Nat /\ lastBeat[c] \in Nat
                            /\ lastBeat'[c] \in Nat /\ lastSent[c] \in Nat
      /\ \A i \in DOMAIN eventsList :
           eventsList[i][1] \in Created /\ eventsList[i][2] \in Nat
      /\ Len(eventsList) \in Nat /\ DOMAIN eventsList = 1..Len(eventsList)
  <2>1. /\ now \in Nat /\ Created \subseteq Pids
        /\ \A c \in Created : createdAt[c] \in Nat
        /\ Len(eventsList) \in Nat /\ DOMAIN eventsList = 1..Len(eventsList)
    BY Typed
  <2>2. /\ \A c \in Pids : lastBeat[c] \in Nat /\ lastSent[c] \in Nat
        /\ \A i \in DOMAIN eventsList :
             eventsList[i][1] \in Created /\ eventsList[i][2] \in Nat
    BY TimesTyped
  <2>3. \A c \in Pids : lastBeat'[c] \in Nat
    BY <1>1, HeartbeatHandled
  <2> QED
    BY <2>1, <2>2, <2>3
<1>4. CASE ~MayPull
  <2>1. lastBeat' = lastBeat /\ eventsList' = eventsList
    BY <1>1, <1>4 DEF Iterate, handleHeartbeat
  <2> QED
    BY <1>1, <1>2, <2>1
    DEF BeatInv, TimesInOrder, LastIsQueued, QueuedInTime, QueueInOrder
<1>5. CASE MayPull
  <2>1. /\ 1 \in DOMAIN eventsList /\ Head(eventsList) = eventsList[1]
        /\ DOMAIN eventsList' = 1..(Len(eventsList) - 1)
        /\ \A i \in 1..(Len(eventsList) - 1) : eventsList'[i] = eventsList[i + 1]
    BY <1>5, IteratePulls
  <2>2. ASSUME NEW c \in Created
        PROVE  /\ lastBeat'[c] = lastBeat[c] \/ eventsList[1] = <<c, lastBeat'[c]>>
               /\ (eventsList[1][1] = c /\ c \notin Reported) => lastBeat'[c] = eventsList[1][2]
    BY <1>1, <1>3, <1>5, <2>1, HeartbeatHandled DEF ListInv
  <2>3. \A c \in Created : lastBeat[c] <= lastBeat'[c] /\ lastBeat'[c] <= lastSent[c]
    <3>1. TAKE c \in Created
    <3>2. CASE lastBeat'[c] = lastBeat[c]
      BY <1>3, <3>2 DEF BeatInv, TimesInOrder
    <3>3. CASE eventsList[1] = <<c, lastBeat'[c]>>
      <4>1. QueuedInTime(1) /\ eventsList[1][1] = c /\ eventsList[1][2] = lastBeat'[c]
        BY <2>1, <3>3 DEF BeatInv
      <4> QED
        BY <1>3, <4>1 DEF QueuedInTime
    <3> QED
      BY <2>2, <3>2, <3>3
  <2>4. ASSUME NEW c \in Created PROVE TimesInOrder(c)'
    BY <1>1, <1>2, <1>3, <2>3 DEF BeatInv, TimesInOrder
  <2>5. ASSUME NEW c \in Created, c \notin Reported
        PROVE  lastSent[c] = lastBeat'[c] \/
               \E i \in DOMAIN eventsList' : eventsList'[i] = <<c, lastSent[c]>>
    <3>1. CASE lastSent[c] = lastBeat[c]
      BY <1>3, <2>3, <3>1
    <3>2. ASSUME NEW i \in DOMAIN eventsList, eventsList[i] = <<c, lastSent[c]>>, i # 1
          PROVE  \E j \in DOMAIN eventsList' : eventsList'[j] = <<c, lastSent[c]>>
      <4>1. i - 1 \in DOMAIN eventsList' /\ eventsList'[i - 1] = eventsList[i]
        BY <1>3, <2>1, <3>2
      <4> QED
        BY <3>2, <4>1
    <3>3. CASE eventsList[1] = <<c, lastSent[c]>>
      BY <2>2, <2>5, <3>3
    <3> QED
      BY <2>5, <3>1, <3>2, <3>3 DEF BeatInv, LastIsQueued
  <2>6. ASSUME NEW c \in Created PROVE LastIsQueued(c)'
    BY <1>1, <1>2, <2>5 DEF LastIsQueued
  <2>7. ASSUME NEW i \in DOMAIN eventsList' PROVE QueuedInTime(i)'
    <3>1. i + 1 \in DOMAIN eventsList /\ eventsList'[i] = eventsList[i + 1] /\ 1 < i + 1
      BY <1>3, <2>1
    <3>2. PICK c \in Created : c = eventsList[i + 1][1]
      BY <1>3, <3>1
    <3>3. lastBeat'[c] < eventsList[i + 1][2]
      <4>1. CASE lastBeat'[c] = lastBeat[c]
        BY <3>1, <3>2, <4>1 DEF BeatInv, QueuedInTime
      <4>2. CASE eventsList[1] = <<c, lastBeat'[c]>>
        <5>1. eventsList[1][1] = c /\ eventsList[1][2] = lastBeat'[c]
          BY <4>2
        <5>2. eventsList[1][2] < eventsList[i + 1][2]
          BY <2>1, <3>1, <3>2, <5>1 DEF BeatInv, QueueInOrder
        <5> QED
          BY <5>1, <5>2
      <4> QED
        BY <2>2, <4>1, <4>2
    <3>4. eventsList[i + 1][2] <= lastSent[c]
      BY <3>1, <3>2 DEF BeatInv, QueuedInTime
    <3> QED
      BY <1>1, <3>1, <3>2, <3>3, <3>4 DEF QueuedInTime
  <2>8. QueueInOrder'
    <3>1. ASSUME NEW i \in DOMAIN eventsList', NEW j \in DOMAIN eventsList',
                 i < j, eventsList'[i][1] = eventsList'[j][1]
          PROVE  eventsList'[i][2] < eventsList'[j][2]
      <4>1. /\ i + 1 \in DOMAIN eventsList /\ eventsList'[i] = eventsList[i + 1]
            /\ j + 1 \in DOMAIN eventsList /\ eventsList'[j] = eventsList[j + 1]
            /\ i + 1 < j + 1
        BY <1>3, <2>1, <3>1
      <4> QED
        BY <3>1, <4>1 DEF BeatInv, QueueInOrder
    <3> QED
      BY <3>1 DEF QueueInOrder
  <2> QED
    BY <1>2, <2>4, <2>6, <2>7, <2>8 DEF BeatInv
<1> QED
  BY <1>4, <1>5

LEMMA BeatNext == TypeOK /\ ListInv /\ BeatInv /\ [Next]_vars => BeatInv'
<1> SUFFICES ASSUME TypeOK, ListInv, BeatInv, [Next]_vars PROVE BeatInv'
  OBVIOUS
<1>1. CASE Tick
  BY <1>1, BeatTick
<1>2. CASE Create
  BY <1>2, BeatCreate
<1>3. CASE Iterate
  BY <1>3, BeatIterate
<1>4. CASE EraseNode
  <2>1. UNCHANGED <<now, createdAt, lastBeat, lastSent, eventsList, diedAt>>
    BY <1>4 DEF EraseNode
  <2>2. Created' = Created /\ Dead' = Dead /\ Reported \subseteq Reported'
    BY <1>4, <2>1, ChildErased DEF Created, Dead
  <2> QED
    BY <2>1, <2>2 DEF BeatInv, TimesInOrder, LastIsQueued, QueuedInTime, QueueInOrder
<1>5. CASE PassNode \/ EndOfCheck \/ UNCHANGED vars
  <2>1. UNCHANGED <<now, createdAt, lastBeat, lastSent, eventsList, diedAt, reportedAt>>
    BY <1>5 DEF PassNode, EndOfCheck, vars
  <2>2. Created' = Created /\ Dead' = Dead /\ Reported' = Reported
    BY <2>1 DEF Created, Dead, Reported
  <2> QED
    BY <2>1, <2>2 DEF BeatInv, TimesInOrder, LastIsQueued, QueuedInTime, QueueInOrder
<1>6. ASSUME NEW d \in Pids, Dies(d) PROVE BeatInv'
  <2>1. UNCHANGED <<now, createdAt, lastBeat, lastSent, eventsList, reportedAt>>
    BY <1>6 DEF Dies
  <2>2. /\ Dead' = Dead \cup {d} /\ d \in Created /\ diedAt'[d] = now
        /\ \A c \in Dead : diedAt'[c] = diedAt[c]
    BY <1>6, ChildDied
  <2>3. Created' = Created /\ Reported' = Reported
    BY <2>1 DEF Created, Reported
  <2>4. lastSent[d] <= now
    BY TimesTyped, Typed
  <2> QED
    BY <2>1, <2>2, <2>3, <2>4
    DEF BeatInv, TimesInOrder, LastIsQueued, QueuedInTime, QueueInOrder
<1> QED
  BY <1>1, <1>2, <1>3, <1>4, <1>5, <1>6 DEF Next


\* At the time drained the parent had handled all heartbeats, and k children
\* existed; all it has slept since is a pause, the creation of the others and a
\* tick for each erasure.
DrainedAt(drained, k) ==
  /\ \/ Stuck
     \/ busyUntil <= drained + 1 + (Len(createdAt) - k) * CreateTicks
                       + Cardinality(Reported)
  /\ \A n \in (k + 1)..Len(createdAt) :
       \/ Stuck
       \/ busyUntil <= createdAt[n] + (Len(createdAt) - n + 1) * CreateTicks
                         + Cardinality(Reported)
  /\ \A c \in 1..k :
       c \notin Dead \cup Reported => drained - Latency < lastBeat[c] + CreateTicks

DrainInv == \E drained \in 0..now, k \in 0..Len(createdAt) : DrainedAt(drained, k)

\* One more of them.
LEMMA TimesStep ==
  ASSUME NEW a \in Nat, NEW b \in Nat
  PROVE  a * b \in Nat /\ (a + 1) * b = a * b + b
  OBVIOUS

LEMMA TimesMonotonic ==
  ASSUME NEW a \in Nat, NEW c \in Nat, NEW b \in Nat, a <= c
  PROVE  a * b <= c * b
<1>1. c = a + (c - a) /\ c - a \in Nat
  OBVIOUS
<1>2. (a + (c - a)) * b = a * b + (c - a) * b
  BY <1>1
<1>3. a * b \in Nat /\ (c - a) * b \in Nat
  BY <1>1
<1> QED
  BY <1>1, <1>2, <1>3

LEMMA DrainInit == Init => DrainInv
<1> SUFFICES ASSUME Init PROVE DrainInv
  OBVIOUS
<1>1. /\ Len(createdAt) = 0 /\ now = 0 /\ busyUntil = 0
      /\ Cardinality(Reported) = 0
  <2>1. Reported = {}
    BY DEF Init, Reported, Never
  <2> QED
    BY <2>1, FS_EmptySet, EmptySeq DEF Init
<1>2. 0 * CreateTicks = 0
  BY TimesAssumption
<1>3. DrainedAt(0, 0)
  BY <1>1, <1>2 DEF DrainedAt
<1> QED
  BY <1>1, <1>3 DEF DrainInv

\* Handling a heartbeat sets no clock back.
LEMMA BeatsAdvance ==
  ASSUME TypeOK, BeatInv, Iterate, NEW c \in Created
  PROVE  lastBeat[c] <= lastBeat'[c]
<1>1. lastBeat' = handleHeartbeat /\ c \in Pids
  BY Typed DEF Iterate
<1>2. lastBeat[c] \in Nat
  BY <1>1, TimesTyped
<1>3. CASE MayPull /\ Head(eventsList) = <<c, lastBeat'[c]>>
  <2>1. eventsList[1] = <<c, lastBeat'[c]>> /\ 1 \in DOMAIN eventsList
    BY <1>3, IteratePulls
  <2>2. eventsList[1][1] = c /\ eventsList[1][2] = lastBeat'[c] /\ lastBeat'[c] \in Nat
    BY <2>1, TimesTyped
  <2>3. lastBeat[c] < lastBeat'[c]
    BY <2>1, <2>2 DEF BeatInv, QueuedInTime
  <2> QED
    BY <1>2, <2>2, <2>3
<1> QED
  BY <1>1, <1>2, <1>3, HeartbeatHandled

LEMMA DrainNext == TypeOK /\ ListInv /\ BeatInv /\ DrainInv /\ [Next]_vars => DrainInv'
<1> SUFFICES ASSUME TypeOK, ListInv, BeatInv, DrainInv, [Next]_vars PROVE DrainInv'
  OBVIOUS
<1>1. PICK drained \in 0..now, k \in 0..Len(createdAt) : DrainedAt(drained, k)
  BY DEF DrainInv
<1>2. /\ now \in Nat /\ busyUntil \in Nat /\ now <= busyUntil
      /\ Len(createdAt) \in Nat /\ Created = 1..Len(createdAt) /\ Created \subseteq Pids
      /\ \A c \in Created : /\ createdAt[c] \in Nat
                            /\ lastBeat[c] \in Nat /\ lastSent[c] \in Nat
      /\ CreateTicks \in Nat /\ Latency \in Nat /\ Cardinality(Reported) \in Nat
  BY NumbersTyped, FiniteChildren
<1>3. CASE Tick \/ PassNode \/ EndOfCheck \/ UNCHANGED vars
  <2>1. /\ UNCHANGED <<busyUntil, createdAt, lastBeat, diedAt, reportedAt>>
        /\ now' \in {now, now + 1}
    BY <1>3 DEF Tick, PassNode, EndOfCheck, vars
  <2>2. DrainedAt(drained, k)'
    BY <1>1, <2>1 DEF DrainedAt, Dead, Reported, Stuck
  <2>3. drained \in 0..now' /\ k \in 0..Len(createdAt')
    BY <1>2, <2>1
  <2> QED
    BY <2>2, <2>3 DEF DrainInv
<1>4. CASE Create
  <2>0. PICK new : new = Len(createdAt) + 1
    OBVIOUS
  <2>1. /\ now = busyUntil /\ busyUntil' = now + CreateTicks /\ now' = now
        /\ lastBeat' = [lastBeat EXCEPT ![new] = now]
        /\ UNCHANGED <<diedAt, reportedAt>> /\ Reported' = Reported /\ ~Stuck
    BY <1>4, <2>0, NotStuck DEF Create, Running, Reported
  <2>9. PICK r \in Nat : r = Cardinality(Reported)
    BY <1>2
  <2>2. /\ Len(createdAt') = Len(createdAt) + 1 /\ createdAt'[new] = now
        /\ \A c \in Created : createdAt'[c] = createdAt[c]
    BY <1>4, <2>0, CreateAppends
  <2>3. /\ (Len(createdAt') - k) * CreateTicks
             = (Len(createdAt) - k) * CreateTicks + CreateTicks
        /\ (Len(createdAt) - k) * CreateTicks \in Nat
    <3>1. Len(createdAt) - k \in Nat /\ Len(createdAt') - k = (Len(createdAt) - k) + 1
      BY <1>2, <2>2
    <3> QED
      BY <1>2, <3>1, TimesStep
  <2>4. busyUntil' <= drained + 1 + (Len(createdAt') - k) * CreateTicks + r
    <3>1. busyUntil <= drained + 1 + (Len(createdAt) - k) * CreateTicks + r
      BY <1>1, <2>1, <2>9 DEF DrainedAt
    <3>2. PICK w \in Nat : w = (Len(createdAt) - k) * CreateTicks
      BY <2>3
    <3>3. busyUntil + CreateTicks <= drained + 1 + (w + CreateTicks) + r
      BY <1>2, <3>1, <3>2
    <3> QED
      BY <2>1, <2>3, <3>2, <3>3
  <2>5. ASSUME NEW n \in (k + 1)..Len(createdAt')
        PROVE  busyUntil' <= createdAt'[n] + (Len(createdAt') - n + 1) * CreateTicks + r
    <3>1. CASE n = new
      <4>1. (Len(createdAt') - n + 1) * CreateTicks = CreateTicks
        <5>1. Len(createdAt') - n + 1 = 1
          BY <1>2, <2>0, <2>2, <3>1
        <5>2. 1 * CreateTicks = CreateTicks
          BY <1>2
        <5> QED
          BY <5>1, <5>2
      <4> QED
        BY <1>2, <2>1, <2>2, <2>9, <3>1, <4>1
    <3>2. CASE n # new
      <4>1. n \in (k + 1)..Len(createdAt) /\ n \in Created
        BY <1>2, <2>0, <2>2, <3>2
      <4>2. busyUntil <= createdAt[n] + (Len(createdAt) - n + 1) * CreateTicks + r
        BY <1>1, <2>1, <2>9, <4>1 DEF DrainedAt
      <4>3. /\ (Len(createdAt') - n + 1) * CreateTicks
                 = (Len(createdAt) - n + 1) * CreateTicks + CreateTicks
            /\ (Len(createdAt) - n + 1) * CreateTicks \in Nat
        <5>1. /\ Len(createdAt) - n + 1 \in Nat
              /\ Len(createdAt') - n + 1 = (Len(createdAt) - n + 1) + 1
          BY <1>2, <2>2, <4>1
        <5> QED
          BY <1>2, <5>1, TimesStep
      <4>4. PICK at \in Int, w \in Int, w2 \in Int, b \in Int :
              /\ at = createdAt[n] /\ w = (Len(createdAt) - n + 1) * CreateTicks
              /\ w2 = (Len(createdAt') - n + 1) * CreateTicks /\ b = busyUntil
        <5>1. createdAt[n] \in Nat /\ busyUntil \in Nat /\ CreateTicks \in Nat
          BY <1>2, <4>1
        <5>2. PICK w \in Int : w = (Len(createdAt) - n + 1) * CreateTicks
          BY <4>3
        <5>3. w + CreateTicks \in Int /\ createdAt[n] \in Int /\ busyUntil \in Int
          BY <5>1
        <5>4. (Len(createdAt') - n + 1) * CreateTicks = w + CreateTicks
          BY <4>3, <5>2
        <5> QED
          BY <5>2, <5>3, <5>4
      <4>5. /\ w2 = w + CreateTicks /\ b <= at + w + r /\ createdAt'[n] = at
            /\ busyUntil' = b + CreateTicks
        BY <2>1, <2>2, <4>1, <4>2, <4>3, <4>4
      <4>6. b + CreateTicks <= at + w2 + r
        BY <1>2, <2>9, <4>5
      <4> QED
        BY <4>4, <4>5, <4>6
    <3> QED
      BY <3>1, <3>2
  <2>6. \A c \in Created : lastBeat'[c] = lastBeat[c]
    BY <1>2, <2>0, <2>1 DEF TypeOK
  <2>7. DrainedAt(drained, k)'
    <3>1. r = Cardinality(Reported')
      BY <2>1, <2>9
    <3>2. \A c \in 1..k : c \in Created
      BY <1>2
    <3>3. ASSUME NEW c \in 1..k, c \notin (Dead \cup Reported)'
          PROVE  drained - Latency < lastBeat'[c] + CreateTicks
      <4>1. c \in Created /\ c \in Created' /\ c \notin Dead \cup Reported
        <5>1. c \in Created
          BY <3>2
        <5>2. c \in Created'
          BY <1>4, <5>1, CreateAppends
        <5> QED
          BY <2>1, <3>3, <5>1, <5>2 DEF Dead, Reported
      <4>2. drained - Latency < lastBeat[c] + CreateTicks
        BY <1>1, <4>1 DEF DrainedAt
      <4> QED
        BY <2>6, <4>1, <4>2
    <3> QED
      BY <2>4, <2>5, <3>1, <3>3 DEF DrainedAt
  <2>8. drained \in 0..now' /\ k \in 0..Len(createdAt')
    BY <1>2, <2>1, <2>2
  <2> QED
    BY <2>7, <2>8 DEF DrainInv
<1>5. CASE Iterate
  <2>1. /\ now = busyUntil /\ lastBeat' = handleHeartbeat
        /\ UNCHANGED <<now, createdAt, diedAt, reportedAt>> /\ Reported' = Reported
    BY <1>5 DEF Iterate, Running, Reported
  <2>2. CASE afterCreate \/ MayPull \/ timeToCheckHeartbeat
    <3>1. busyUntil' = busyUntil
      BY <1>5, <2>1, <2>2 DEF Iterate
    <3>2. \A c \in Created : lastBeat[c] <= lastBeat'[c] /\ lastBeat'[c] \in Nat
      <4>1. ASSUME NEW c \in Created PROVE lastBeat[c] <= lastBeat'[c] /\ lastBeat'[c] \in Nat
        <5>1. lastBeat[c] <= lastBeat'[c]
          BY <1>5, BeatsAdvance
        <5>2. handleHeartbeat \in [Pids -> 0..now] /\ c \in Pids
          BY <1>2, HeartbeatHandled
        <5>3. lastBeat'[c] \in 0..now
          BY <2>1, <5>2
        <5> QED
          BY <1>2, <5>1, <5>3
      <4> QED
        BY <4>1
    <3>3. ASSUME NEW c \in 1..k, c \notin (Dead \cup Reported)'
          PROVE  drained - Latency < lastBeat'[c] + CreateTicks
      <4>1. c \in Created /\ c \notin Dead \cup Reported
        BY <1>2, <2>1, <3>3 DEF Dead, Reported
      <4>2. drained - Latency < lastBeat[c] + CreateTicks
        BY <1>1, <4>1 DEF DrainedAt
      <4> QED
        BY <1>1, <1>2, <3>2, <4>1, <4>2
    <3>4. DrainedAt(drained, k)'
      BY <1>1, <2>1, <3>1, <3>3 DEF DrainedAt, Stuck
    <3> QED
      BY <2>1, <3>4 DEF DrainInv
  <2>3. CASE ~(afterCreate \/ MayPull \/ timeToCheckHeartbeat)
    <3>1. busyUntil' = now + 1 /\ eventsList = <<>> /\ lastBeat' = lastBeat
      BY <1>5, <2>1, <2>3 DEF Iterate, MayPull, handleHeartbeat
    <3>2. DOMAIN eventsList = {}
      BY <3>1
    <3>3. ASSUME NEW c \in 1..Len(createdAt), c \notin (Dead \cup Reported)'
          PROVE  now - Latency < lastBeat'[c] + CreateTicks
      <4>1. c \in Created /\ c \notin Dead \cup Reported
        BY <1>2, <2>1, <3>3 DEF Dead, Reported
      <4>2. lastSent[c] = lastBeat[c]
        BY <3>2, <4>1 DEF BeatInv, LastIsQueued
      <4> QED
        BY <3>1, <4>1, <4>2 DEF BeatInv, TimesInOrder
    <3>4. (Len(createdAt) - Len(createdAt)) * CreateTicks = 0
      <4>1. Len(createdAt) - Len(createdAt) = 0
        BY <1>2
      <4> QED
        BY <1>2, <4>1
    <3>5. PICK t, l : t = now /\ l = Len(createdAt)
      OBVIOUS
    <3>6. DrainedAt(t, l)'
      BY <1>2, <2>1, <3>1, <3>3, <3>4, <3>5 DEF DrainedAt
    <3>7. t \in 0..now' /\ l \in 0..Len(createdAt')
      BY <1>2, <2>1, <3>5
    <3> QED
      BY <3>6, <3>7 DEF DrainInv
  <2> QED
    BY <2>2, <2>3
<1>6. CASE EraseNode
  <2>1. /\ UNCHANGED <<now, createdAt, lastBeat, diedAt>>
        /\ now = busyUntil /\ ~Stuck
        /\ busyUntil' \in {now, now + 1} \/ Stuck'
    BY <1>6, NotStuck DEF EraseNode, Stuck
  <2>2. Dead' = Dead /\ Reported \subseteq Reported'
    BY <1>6, <2>1, ChildErased DEF Dead
  <2>3. PICK r \in Nat, r2 \in Nat :
          r = Cardinality(Reported) /\ r2 = Cardinality(Reported') /\ r2 = r + 1
    BY <1>2, <1>6, ErasureCounted
  <2>4. ASSUME NEW x \in Int, busyUntil <= x + r
        PROVE  Stuck' \/ busyUntil' <= x + r2
    BY <1>2, <2>1, <2>3, <2>4
  <2>5. Stuck' \/ busyUntil' <= drained + 1 + (Len(createdAt) - k) * CreateTicks + r2
    <3>1. busyUntil <= drained + 1 + (Len(createdAt) - k) * CreateTicks + r
      BY <1>1, <2>1, <2>3 DEF DrainedAt
    <3>2. Len(createdAt) - k \in Nat
      BY <1>2
    <3>3. (Len(createdAt) - k) * CreateTicks \in Nat
      BY <1>2, <3>2, TimesStep
    <3>4. PICK x \in Int : x = drained + 1 + (Len(createdAt) - k) * CreateTicks
      BY <1>2, <3>3
    <3>5. Stuck' \/ busyUntil' <= x + r2
      BY <2>4, <3>1, <3>4, Zenon
    <3> QED
      BY <3>4, <3>5, Zenon
  <2>6. ASSUME NEW n \in (k + 1)..Len(createdAt)
        PROVE  \/ Stuck'
               \/ busyUntil' <= createdAt[n] + (Len(createdAt) - n + 1) * CreateTicks + r2
    <3>1. busyUntil <= createdAt[n] + (Len(createdAt) - n + 1) * CreateTicks + r
      BY <1>1, <2>1, <2>3 DEF DrainedAt
    <3>2. Len(createdAt) - n + 1 \in Nat /\ createdAt[n] \in Nat
      BY <1>2
    <3>3. (Len(createdAt) - n + 1) * CreateTicks \in Nat
      BY <1>2, <3>2, TimesStep
    <3>4. PICK x \in Int : x = createdAt[n] + (Len(createdAt) - n + 1) * CreateTicks
      BY <3>2, <3>3
    <3>5. Stuck' \/ busyUntil' <= x + r2
      BY <2>4, <3>1, <3>4, Zenon
    <3> QED
      BY <3>4, <3>5, Zenon
  <2>7. DrainedAt(drained, k)'
    BY <1>1, <2>1, <2>2, <2>3, <2>5, <2>6 DEF DrainedAt
  <2> QED
    BY <2>1, <2>7 DEF DrainInv
<1>7. ASSUME NEW d \in Pids, Dies(d) PROVE DrainInv'
  <2>1. UNCHANGED <<now, busyUntil, createdAt, lastBeat, reportedAt>>
    BY <1>7 DEF Dies
  <2>2. Dead \subseteq Dead' /\ Reported' = Reported
    BY <1>7, <2>1, ChildDied DEF Reported
  <2>3. DrainedAt(drained, k)'
    BY <1>1, <2>1, <2>2 DEF DrainedAt, Stuck
  <2> QED
    BY <2>1, <2>3 DEF DrainInv
<1> QED
  BY <1>3, <1>4, <1>5, <1>6, <1>7 DEF Next


\* The creation of every child, a tick for the erasure of each that dies, and what a
\* heartbeat may miss at either end, fit in a period: three children with the server's
\* 40 ticks and creations of 11.
CreationsFit == Latency + MaxChildren * CreateTicks + MaxDeaths <= Period

\* As long as only the dead are erased, there are few erasures.
LEMMA ErasuresFit ==
  ASSUME CreationsFit, TypeOK, DeathsInv, OnlyTheDeadAreReported
  PROVE  /\ Cardinality(Reported) \in Nat
         /\ Cardinality(Reported) <= MaxDeaths /\ Cardinality(Reported) <= Period
<1>1. Reported \in SUBSET Dead
  BY DEF OnlyTheDeadAreReported
<1>2. IsFiniteSet(Dead) /\ Cardinality(Dead) \in Nat /\ Cardinality(Reported) \in Nat
  BY FiniteChildren
<1>3. Cardinality(Reported) <= Cardinality(Dead)
  BY <1>1, <1>2, FS_Subset
<1>4. Cardinality(Dead) <= MaxDeaths /\ MaxDeaths \in Nat
  BY TimesAssumption DEF DeathsInv
<1>5. Cardinality(Reported) <= MaxDeaths
  BY <1>2, <1>3, <1>4
<1>6. MaxDeaths <= Period
  <2>1. PICK w \in Nat : w = MaxChildren * CreateTicks
    BY TimesStep, TimesAssumption
  <2>2. Latency + w + MaxDeaths <= Period
    BY <2>1 DEF CreationsFit
  <2> QED
    BY <2>2, TimesAssumption
<1> QED
  BY <1>2, <1>4, <1>5, <1>6, TimesAssumption

\* A living child on the list is never overdue when the parent looks.
LEMMA AliveAreInTime ==
  ASSUME CreationsFit, TypeOK, DeathsInv, BeatInv, DrainInv, OnlyTheDeadAreReported,
         ~Stuck, NEW c \in Created, c \notin Dead \cup Reported
  PROVE  ~Overdue(c)
<1> SUFFICES now - lastBeat[c] <= Period
  <2>1. now \in Nat /\ lastBeat[c] \in Nat /\ Period \in Nat
    BY Typed, TimesTyped
  <2> QED
    BY <2>1 DEF Overdue
<1>1. PICK drained \in 0..now, k \in 0..Len(createdAt) : DrainedAt(drained, k)
  BY DEF DrainInv
<1>2. /\ now \in Nat /\ busyUntil \in Nat /\ now <= busyUntil
      /\ Len(createdAt) \in Nat /\ c \in 1..Len(createdAt) /\ c \in Pids
      /\ createdAt[c] \in Nat /\ Len(createdAt) <= MaxChildren
      /\ CreateTicks \in Nat /\ Latency \in Nat /\ Period \in Nat /\ MaxChildren \in Nat
  <2>1. Len(createdAt) <= MaxChildren /\ MaxChildren \in Nat
    BY TimesAssumption DEF TypeOK
  <2> QED
    BY <2>1, NumbersTyped
<1>3. lastBeat[c] \in Nat /\ createdAt[c] <= lastBeat[c]
  BY NumbersTyped DEF BeatInv, TimesInOrder
<1>4. /\ Latency + MaxChildren * CreateTicks + MaxDeaths <= Period
      /\ MaxChildren * CreateTicks \in Nat
  BY <1>2, TimesStep DEF CreationsFit
<1>7. PICK r \in Nat : r = Cardinality(Reported) /\ r <= MaxDeaths
  BY ErasuresFit
<1>8. MaxDeaths \in Nat
  BY TimesAssumption
<1>5. CASE c <= k
  <2> DEFINE later == Len(createdAt) - k
  <2>1. drained - Latency < lastBeat[c] + CreateTicks
    BY <1>1, <1>2, <1>5 DEF DrainedAt
  <2>2. busyUntil <= drained + 1 + later * CreateTicks + r
    BY <1>1, <1>7 DEF DrainedAt
  <2>3. later \in Nat /\ later + 1 \in Nat /\ later + 1 <= MaxChildren
    BY <1>2, <1>5
  <2>4. /\ later * CreateTicks \in Nat
        /\ (later + 1) * CreateTicks = later * CreateTicks + CreateTicks
    BY <1>2, <2>3, TimesStep
  <2>5. (later + 1) * CreateTicks <= MaxChildren * CreateTicks
    BY <1>2, <2>3, TimesMonotonic
  <2>7. PICK b \in Int, d \in Int, w \in Int, all \in Int :
          /\ b = lastBeat[c] /\ d = drained
          /\ w = later * CreateTicks /\ all = MaxChildren * CreateTicks
    BY <1>1, <1>2, <1>3, <1>4, <2>4
  <2> HIDE DEF later
  <2>8. /\ d - Latency < b + CreateTicks /\ w + CreateTicks <= all
        /\ busyUntil <= d + 1 + w + r /\ Latency + all + MaxDeaths <= Period
    BY <1>4, <2>1, <2>2, <2>4, <2>5, <2>7
  <2>9. now - b <= Period
    BY <1>2, <1>7, <1>8, <2>8
  <2> QED
    BY <2>7, <2>9
<1>6. CASE k < c
  <2> DEFINE later == Len(createdAt) - c + 1
  <2>1. busyUntil <= createdAt[c] + later * CreateTicks + r
    <3>1. c \in (k + 1)..Len(createdAt)
      BY <1>1, <1>2, <1>6
    <3> QED
      BY <1>1, <1>7, <3>1 DEF DrainedAt
  <2>2. later \in Nat /\ later <= MaxChildren
    BY <1>2
  <2>3. later * CreateTicks <= MaxChildren * CreateTicks /\ later * CreateTicks \in Nat
    BY <1>2, <2>2, TimesStep, TimesMonotonic
  <2>4. PICK b \in Int, at \in Int, w \in Int, all \in Int :
          /\ b = lastBeat[c] /\ at = createdAt[c]
          /\ w = later * CreateTicks /\ all = MaxChildren * CreateTicks
    BY <1>2, <1>3, <1>4, <2>3
  <2> HIDE DEF later
  <2>5. /\ at <= b /\ busyUntil <= at + w + r /\ w <= all
        /\ Latency + all + MaxDeaths <= Period
    BY <1>3, <1>4, <2>1, <2>3, <2>4
  <2>6. now - b <= Period
    BY <1>2, <1>7, <1>8, <2>5
  <2> QED
    BY <2>4, <2>6
<1> QED
  BY <1>1, <1>2, <1>5, <1>6

HeartbeatInv ==
  TypeOK /\ ListInv /\ DeathsInv /\ ClockInv /\ BeatInv /\ DrainInv

\* Which heartbeats a parent has handled and which wait, and how long it can have
\* been away from them, whatever is created and whoever dies.
THEOREM HeartbeatInvariant == Spec => []HeartbeatInv
<1>1. Init => HeartbeatInv
  BY TypesInit, ListInit, DeathsInit, ClockInit, BeatInit, DrainInit DEF HeartbeatInv
<1>2. HeartbeatInv /\ [Next]_vars => HeartbeatInv'
  BY TypesNext, ListNext, DeathsNext, ClockNext, BeatNext, DrainNext DEF HeartbeatInv
<1> QED
  BY <1>1, <1>2, PTL DEF Spec

\* What checkHeartbeat erases is a child that died.
LEMMA ErasedIsDead ==
  ASSUME CreationsFit, HeartbeatInv, OnlyTheDeadAreReported, EraseNode
  PROVE  children[node] \in Dead
<1> USE DEF HeartbeatInv
<1>1. children[node] \in Created \ Reported
  BY ChildErased
<1>2. Overdue(children[node]) /\ ~Stuck
  BY NotStuck DEF EraseNode
<1> QED
  BY <1>1, <1>2, AliveAreInTime

LEMMA OnlyTheDeadNext ==
  ASSUME CreationsFit, HeartbeatInv, OnlyTheDeadAreReported, [Next]_vars
  PROVE  OnlyTheDeadAreReported'
<1>1. CASE EraseNode
  <2>1. diedAt' = diedAt
    BY <1>1 DEF EraseNode
  <2>2. Reported' = Reported \cup {children[node]} /\ children[node] \in Dead
    <3>1. TypeOK /\ ListInv
      BY DEF HeartbeatInv
    <3> QED
      BY <1>1, <3>1, ChildErased, ErasedIsDead
  <2> QED
    BY <2>1, <2>2 DEF OnlyTheDeadAreReported, Dead
<1>2. ASSUME NEW d \in Pids, Dies(d) PROVE OnlyTheDeadAreReported'
  <2>1. Dead' = Dead \cup {d} /\ reportedAt' = reportedAt
    BY <1>2, ChildDied DEF HeartbeatInv, Dies
  <2> QED
    BY <2>1 DEF OnlyTheDeadAreReported, Reported
<1>3. CASE UNCHANGED <<diedAt, reportedAt>>
  BY <1>3 DEF OnlyTheDeadAreReported, Dead, Reported
<1> QED
  BY <1>1, <1>2, <1>3
  DEF Next, Tick, Create, Iterate, PassNode, EndOfCheck, vars

\* A child that is reported dead has died: if the creations and the erasures fit in a
\* period, no delay of the parent or of a child makes a living one look dead.
THEOREM OnlyTheDeadTheorem ==
  ASSUME CreationsFit
  PROVE  Spec => []OnlyTheDeadAreReported
<1>1. Init => OnlyTheDeadAreReported
  BY DEF Init, OnlyTheDeadAreReported, Reported, Never
<1>2. HeartbeatInv /\ OnlyTheDeadAreReported /\ [Next]_vars => OnlyTheDeadAreReported'
  BY OnlyTheDeadNext
<1> QED
  BY <1>1, <1>2, HeartbeatInvariant, PTL DEF Spec


-----------------------------------------------------------------------------
(***************************************************************************)
(* Deaths are reported in time, although the check skips the neighbour of  *)
(* each child that it reports.                                             *)
(***************************************************************************)

\* The check under way has reported a child.
HasReported == \E c \in Reported : checkStart <= reportedAt[c]

\* Up to where the iterator stands, a check that has reported nobody passed only
\* children in time, in no time.
SweepInv ==
  /\ \A c \in Reported : reportedAt[c] <= checkStart + Cardinality(Reported)
  /\ \/ node = 0
     \/ HasReported
     \/ /\ now = checkStart /\ busyUntil = checkStart
        /\ \A i \in DOMAIN children : i < node => ~Overdue(children[i])

\* The checks that saw a dead child and passed it over: each has reported another one.
\* The creations that may have put them off are those of other children.
Checks == Cardinality(Reported) + (IF node = 0 \/ HasReported THEN 0 ELSE 1)
Creations == Len(createdAt) - (IF afterCreate THEN 2 ELSE 1)

Excuse(checks, creations) == checks * (Period + 1) + creations * CreateTicks

\* The last check was in time for a child, or late for a reason.
InTime(c) ==
  \/ checkStart <= diedAt[c] + Period
  \/ checkStart <= diedAt[c] + Period + Excuse(Checks, Creations)

DelayInv == \A c \in Dead \ Reported : InTime(c)

LEMMA SweepInit == Init => SweepInv
  BY DEF Init, SweepInv, Reported

LEMMA SweepNext ==
  ASSUME HeartbeatInv, SweepInv, [Next]_vars
  PROVE  SweepInv'
<1>1. /\ now \in Nat /\ checkStart \in Nat /\ checkStart <= now /\ node \in Nat
      /\ busyUntil \in Nat /\ \A c \in Reported : reportedAt[c] \in Nat
      /\ Len(children) \in Nat /\ DOMAIN children = 1..Len(children)
  BY Typed DEF HeartbeatInv, TypeOK
<1>2. PICK r \in Nat : r = Cardinality(Reported)
  BY FiniteChildren DEF HeartbeatInv
<1>3. CASE Tick \/ Create
  <2>1. /\ UNCHANGED <<checkStart, node, reportedAt>> /\ Reported' = Reported
        /\ node = 0 \/ now < busyUntil
    BY <1>3 DEF Tick, Create, Running, Reported
  <2>2. node = 0 \/ HasReported
    BY <1>1, <2>1 DEF SweepInv
  <2> QED
    BY <2>1, <2>2 DEF SweepInv, HasReported
<1>4. CASE Iterate
  <2>1. /\ UNCHANGED <<now, children, reportedAt>> /\ Reported' = Reported
    BY <1>4 DEF Iterate, Reported
  <2>2. CASE ~timeToCheckHeartbeat
    <3>1. checkStart' = checkStart /\ node' = 0
      BY <1>4, <2>2 DEF Iterate, Running
    <3> QED
      BY <2>1, <3>1 DEF SweepInv
  <2>3. CASE timeToCheckHeartbeat
    <3>1. checkStart' = now /\ node' = 1 /\ busyUntil' = now
      BY <1>4, <2>3 DEF Iterate
    <3>2. \A c \in Reported' : reportedAt'[c] <= checkStart' + r
      BY <1>1, <1>2, <2>1, <3>1 DEF SweepInv
    <3>3. \A i \in DOMAIN children' : ~(i < 1)
      BY <1>1, <2>1
    <3> QED
      BY <1>2, <2>1, <3>1, <3>2, <3>3 DEF SweepInv
  <2> QED
    BY <2>2, <2>3
<1>5. CASE PassNode
  <2>1. /\ UNCHANGED <<now, busyUntil, checkStart, children, lastBeat, reportedAt>>
        /\ ~Overdue(children[node]) /\ node' = node + 1 /\ node \in DOMAIN children
        /\ Reported' = Reported
    BY <1>5 DEF PassNode, Reported
  <2>2. CASE HasReported
    BY <2>1, <2>2 DEF SweepInv, HasReported
  <2>3. CASE ~HasReported
    <3>1. /\ now = checkStart /\ busyUntil = checkStart
          /\ \A i \in DOMAIN children : i < node => ~Overdue(children[i])
      BY <1>1, <2>1, <2>3 DEF SweepInv
    <3>2. \A i \in DOMAIN children : i < node + 1 => ~Overdue(children[i])
      BY <1>1, <2>1, <3>1
    <3> QED
      BY <2>1, <3>1, <3>2 DEF SweepInv, Overdue
  <2> QED
    BY <2>2, <2>3
<1>6. CASE EraseNode
  <2>1. checkStart' = checkStart /\ now <= checkStart + r
    <3>1. /\ node \in DOMAIN children /\ checkStart' = checkStart /\ now = busyUntil
      BY <1>6 DEF EraseNode
    <3>2. node # 0 /\ ~Stuck
      BY <1>1, <3>1, NotStuck DEF HeartbeatInv
    <3> QED
      BY <1>2, <3>1, <3>2 DEF HeartbeatInv, ClockInv
  <2>2. /\ Reported' = Reported \cup {children[node]} /\ reportedAt'[children[node]] = now
        /\ \A c \in Reported : reportedAt'[c] = reportedAt[c]
    BY <1>6, ChildErased DEF HeartbeatInv
  <2>3. Cardinality(Reported') = r + 1
    BY <1>2, <1>6, ErasureCounted DEF HeartbeatInv
  <2>4. HasReported'
    BY <1>1, <2>1, <2>2 DEF HasReported
  <2>5. ASSUME NEW c \in Reported' PROVE reportedAt'[c] <= checkStart + (r + 1)
    BY <1>1, <1>2, <2>1, <2>2 DEF SweepInv
  <2> QED
    BY <2>1, <2>3, <2>4, <2>5 DEF SweepInv
<1>7. CASE EndOfCheck
  BY <1>7 DEF EndOfCheck, SweepInv, Reported
<1>8. CASE UNCHANGED vars \/ \E d \in Pids : Dies(d)
  <2>1. /\ UNCHANGED <<now, busyUntil, checkStart, node, children, lastBeat, reportedAt>>
        /\ Reported' = Reported
    BY <1>8 DEF vars, Dies, Reported
  <2> QED
    BY <2>1 DEF SweepInv, HasReported, Overdue
<1> QED
  BY <1>3, <1>4, <1>5, <1>6, <1>7, <1>8 DEF Next

LEMMA ExcuseGrows ==
  ASSUME NEW a \in Int, NEW b \in Int, NEW a2 \in Int, NEW b2 \in Int,
         a <= a2, b <= b2
  PROVE  /\ Excuse(a, b) \in Int
         /\ Excuse(a, b) <= Excuse(a2, b2)
<1>1. Period + 1 \in Nat /\ CreateTicks \in Nat
  BY TimesAssumption
<1>2. ASSUME NEW x \in Int, NEW y \in Int, NEW f \in Nat, x <= y
      PROVE  x * f \in Int /\ y * f \in Int /\ x * f <= y * f
  <2>1. y - x \in Nat /\ y = x + (y - x)
    BY <1>2
  <2>2. (x + (y - x)) * f = x * f + (y - x) * f
    BY <1>2, <2>1
  <2>3. (y - x) * f \in Nat
    BY <1>2, <2>1
  <2> QED
    BY <1>2, <2>1, <2>2, <2>3
<1>3. /\ a * (Period + 1) \in Int /\ a2 * (Period + 1) \in Int
      /\ a * (Period + 1) <= a2 * (Period + 1)
      /\ b * CreateTicks \in Int /\ b2 * CreateTicks \in Int
      /\ b * CreateTicks <= b2 * CreateTicks
  BY <1>1, <1>2
<1> QED
  BY <1>3 DEF Excuse

LEMMA ExcuseSteps ==
  ASSUME NEW a \in Int, NEW b \in Int
  PROVE  /\ Excuse(a + 1, b) = Excuse(a, b) + Period + 1
         /\ Excuse(a + 1, b + 1) = Excuse(a, b) + Period + 1 + CreateTicks
         /\ Excuse(0, 0) = 0
<1>1. Period \in Nat /\ CreateTicks \in Nat
  BY TimesAssumption
<1>2. ASSUME NEW x \in Int, NEW f \in Nat
      PROVE  (x + 1) * f = x * f + f /\ x * f \in Int
  OBVIOUS
<1>3. /\ (a + 1) * (Period + 1) = a * (Period + 1) + (Period + 1)
      /\ a * (Period + 1) \in Int
      /\ (b + 1) * CreateTicks = b * CreateTicks + CreateTicks
      /\ b * CreateTicks \in Int
  BY <1>1, <1>2
<1>4. 0 * (Period + 1) = 0 /\ 0 * CreateTicks = 0
  BY <1>1
<1> QED
  BY <1>1, <1>3, <1>4 DEF Excuse


\* One check more, from no fewer than none.
LEMMA ExcuseFrom ==
  ASSUME NEW a \in Nat, NEW b \in Nat
  PROVE  /\ Excuse(a + 1, b) = Excuse(a, b) + Period + 1
         /\ Excuse(a, b) \in Int /\ 0 <= Excuse(a, b)
<1>1. Excuse(0, 0) <= Excuse(a, b) /\ Excuse(a, b) <= Excuse(a, b)
  BY ExcuseGrows
<1>2. Excuse(0, 0) = 0 /\ Excuse(a + 1, b) = Excuse(a, b) + Period + 1
  BY ExcuseSteps
<1>3. Excuse(a, b) \in Int
  <2>1. a \in Int /\ b \in Int /\ a <= a /\ b <= b
    OBVIOUS
  <2> QED
    BY <2>1, ExcuseGrows
<1> QED
  BY <1>1, <1>2, <1>3

LEMMA DelayInit == Init => DelayInv
  BY DEF Init, DelayInv, Dead, Never

\* The numbers that DelayInv speaks of.
LEMMA DelayTyped ==
  ASSUME TypeOK
  PROVE  /\ now \in Nat /\ checkStart \in Nat /\ checkStart <= now /\ node \in Nat
         /\ busyUntil \in Nat /\ now <= busyUntil
         /\ \A c \in Dead : diedAt[c] \in Nat
         /\ Len(createdAt) \in Nat /\ Created = 1..Len(createdAt)
         /\ Cardinality(Reported) \in Nat /\ Checks \in Nat /\ Creations \in Int
         /\ Period \in Nat \ {0} /\ CreateTicks \in Nat
<1>1. /\ now \in Nat /\ checkStart \in Nat /\ checkStart <= now /\ node \in Nat
      /\ busyUntil \in Nat /\ now <= busyUntil
      /\ \A c \in Dead : diedAt[c] \in Nat
      /\ Len(createdAt) \in Nat /\ Created = 1..Len(createdAt)
  BY Typed DEF TypeOK
<1>2. Cardinality(Reported) \in Nat
  BY FiniteChildren
<1> QED
  BY <1>1, <1>2, TimesAssumption DEF Checks, Creations

\* As long as neither check nor clock of the death moves, more excuses do no harm.
LEMMA InTimeKept ==
  ASSUME NEW c, NEW checks \in Int, NEW creations \in Int,
         checks = Checks, creations = Creations,
         InTime(c), checkStart \in Nat, diedAt[c] \in Nat, Period \in Nat,
         checkStart' = checkStart, diedAt'[c] = diedAt[c],
         Checks' \in Int, Creations' \in Int,
         checks <= Checks', creations <= Creations'
  PROVE  InTime(c)'
<1>1. PICK checks2 \in Int, creations2 \in Int :
        /\ checks2 = Checks' /\ creations2 = Creations'
        /\ checks <= checks2 /\ creations <= creations2
  OBVIOUS
<1>2. /\ Excuse(checks, creations) \in Int /\ Excuse(checks2, creations2) \in Int
      /\ Excuse(checks, creations) <= Excuse(checks2, creations2)
  <2>1. /\ checks2 \in Int /\ creations2 \in Int
        /\ checks <= checks2 /\ creations <= creations2
    BY <1>1
  <2>2. Excuse(checks, creations) \in Int /\ Excuse(checks, creations) <= Excuse(checks2, creations2)
    BY <2>1, ExcuseGrows
  <2>3. Excuse(checks2, creations2) \in Int
    BY <2>1, ExcuseGrows
  <2> QED
    BY <2>2, <2>3
<1>3. CASE checkStart <= diedAt[c] + Period
  BY <1>3 DEF InTime
<1>4. CASE checkStart <= diedAt[c] + Period + Excuse(checks, creations)
  <2>1. checkStart' <= diedAt'[c] + Period + Excuse(checks2, creations2)
    BY <1>2, <1>4
  <2>2. checkStart' <= diedAt'[c] + Period + Excuse(Checks', Creations')
    BY <1>1, <2>1
  <2> QED
    BY <2>2 DEF InTime, Excuse
<1> QED
  BY <1>3, <1>4 DEF InTime

\* A child that dies right after its creation is not overdue when its parent is back.
LEMMA LastCreated ==
  ASSUME CreationsFit, HeartbeatInv, afterCreate, NEW c \in Dead, c = Len(createdAt)
  PROVE  busyUntil <= diedAt[c] + Period
<1>1. /\ createdAt[c] \in Nat /\ lastBeat[c] \in Nat /\ lastSent[c] \in Nat
      /\ c \in Created /\ diedAt[c] \in Nat /\ Period \in Nat /\ Latency \in Nat
      /\ CreateTicks \in Nat /\ MaxChildren \in Nat /\ 1 <= MaxChildren
  <2>1. c \in Created /\ c \in Pids
    BY Typed DEF HeartbeatInv, ListInv
  <2> QED
    BY <2>1, Typed, TimesTyped, TimesAssumption DEF HeartbeatInv, Pids
<1>2. createdAt[c] <= lastBeat[c] /\ lastBeat[c] <= lastSent[c] /\ lastSent[c] <= diedAt[c]
  BY <1>1 DEF HeartbeatInv, BeatInv, TimesInOrder
<1>3. busyUntil = createdAt[c] + CreateTicks
  BY DEF HeartbeatInv, ClockInv
<1>4. CreateTicks <= Period
  <2>1. 1 * CreateTicks <= MaxChildren * CreateTicks /\ MaxChildren * CreateTicks \in Nat
    BY <1>1, TimesStep, TimesMonotonic
  <2>2. 1 * CreateTicks = CreateTicks
    BY <1>1
  <2>3. PICK w \in Nat : w = MaxChildren * CreateTicks
    BY <2>1
  <2>4. CreateTicks <= w /\ Latency + w + MaxDeaths <= Period /\ MaxDeaths \in Nat
    BY <2>1, <2>2, <2>3, TimesAssumption DEF CreationsFit
  <2> QED
    BY <1>1, <2>4
<1> QED
  BY <1>1, <1>2, <1>3, <1>4

\* The erasures of a check are over before the next one is due.
LEMMA ChecksApart ==
  ASSUME CreationsFit, HeartbeatInv, OnlyTheDeadAreReported, ~Stuck
  PROVE  /\ ~afterCreate => busyUntil <= checkStart + Period + 1
         /\ afterCreate => busyUntil <= checkStart + Period + 1 + CreateTicks
         /\ node # 0 => ~afterCreate
<1>1. /\ busyUntil \in Nat /\ checkStart \in Nat /\ Period \in Nat /\ CreateTicks \in Nat
  BY DelayTyped DEF HeartbeatInv
<1>2. PICK r \in Nat : r = Cardinality(Reported) /\ r <= Period
  BY ErasuresFit DEF HeartbeatInv
<1>3. /\ ~afterCreate => busyUntil <= checkStart + Period + 1 \/ busyUntil <= checkStart + r
      /\ afterCreate => \/ busyUntil <= checkStart + Period + 1 + CreateTicks
                        \/ busyUntil <= checkStart + r + CreateTicks
      /\ node # 0 => ~afterCreate
  BY <1>2 DEF HeartbeatInv, ClockInv
<1> QED
  BY <1>1, <1>2, <1>3

\* A check that begins is a period and a pause after the last one, or a creation more.
LEMMA DelayIterate ==
  ASSUME CreationsFit, HeartbeatInv, OnlyTheDeadAreReported, SweepInv, Iterate,
         NEW c \in Dead \ Reported, InTime(c)
  PROVE  InTime(c)'
<1>1. TypeOK /\ TypeOK'
  BY TypesIterate DEF HeartbeatInv
<1>2. /\ now \in Nat /\ checkStart \in Nat /\ diedAt[c] \in Nat
      /\ Len(createdAt) \in Nat /\ Created = 1..Len(createdAt)
      /\ Cardinality(Reported) \in Nat /\ Checks \in Nat /\ Creations \in Int
      /\ Period \in Nat \ {0} /\ CreateTicks \in Nat
  BY <1>1, DelayTyped
<1>3. /\ now = busyUntil /\ node = 0 /\ ~afterCreate'
      /\ UNCHANGED <<now, createdAt, diedAt, reportedAt>>
  BY DEF Iterate, Running
<1>4. Reported' = Reported /\ Checks = Cardinality(Reported) /\ Checks' \in Nat
  <2>1. Reported' = Reported
    BY <1>3 DEF Reported
  <2> QED
    BY <1>2, <1>3, <2>1 DEF Checks
<1>5. /\ Creations' = Len(createdAt) - 1
      /\ Creations = Len(createdAt) - (IF afterCreate THEN 2 ELSE 1)
  BY <1>3 DEF Creations
<1>6. PICK checks \in Nat, creations \in Int : checks = Checks /\ creations = Creations
  BY <1>2
<1>7. CASE ~timeToCheckHeartbeat
  <2>1. checkStart' = checkStart /\ node' = 0
    BY <1>3, <1>7 DEF Iterate
  <2>2. Checks' = checks
    BY <1>3, <1>4, <1>6, <2>1 DEF Checks
  <2>3. creations <= Creations'
    BY <1>2, <1>5, <1>6
  <2> QED
    BY <1>2, <1>3, <1>4, <1>5, <1>6, <2>1, <2>2, <2>3, InTimeKept
<1>8. CASE timeToCheckHeartbeat
  <2>1. checkStart' = now /\ node' = 1 /\ checkStart < now
    BY <1>2, <1>8 DEF Iterate, timeToCheckHeartbeat
  <2>2. Checks' = checks + 1
    <3>0. PICK r \in Nat : r = Cardinality(Reported) /\ r <= Period
      BY ErasuresFit DEF HeartbeatInv
    <3>1. \A d \in Reported : reportedAt[d] <= checkStart + r /\ reportedAt[d] \in Nat
      BY <1>1, <3>0, Typed DEF SweepInv
    <3>3. checkStart + r < now
      BY <1>2, <1>8, <3>0 DEF timeToCheckHeartbeat
    <3>2. ~HasReported'
      BY <1>2, <1>3, <1>4, <2>1, <3>0, <3>1, <3>3 DEF HasReported
    <3> QED
      BY <1>3, <1>4, <1>6, <2>1, <3>2 DEF Checks
  <2>3. SUFFICES \/ now <= diedAt[c] + Period
                 \/ now <= diedAt[c] + Period + Excuse(checks + 1, Len(createdAt) - 1)
    BY <1>3, <1>5, <2>1, <2>2 DEF InTime, Excuse
  <2>4. c \in Created
    BY DEF HeartbeatInv, ListInv
  <2>9. ~Stuck
    BY <1>1, <1>3, NotStuck
  <2>5. /\ Excuse(0, 0) = 0 /\ Excuse(1, 0) = Period + 1
        /\ Excuse(1, 1) = Period + 1 + CreateTicks
    <3>1. Excuse(0 + 1, 0) = Excuse(0, 0) + Period + 1
      BY ExcuseSteps
    <3>2. Excuse(0 + 1, 0 + 1) = Excuse(0, 0) + Period + 1 + CreateTicks
      BY ExcuseSteps
    <3>3. Excuse(0, 0) = 0
      BY ExcuseSteps
    <3>4. 0 + 1 = 1
      OBVIOUS
    <3> QED
      BY <1>2, <3>1, <3>2, <3>3, <3>4
  <2>6. CASE ~afterCreate
    <3>1. now <= checkStart + Period + 1
      BY <1>3, <2>6, <2>9, ChecksApart
    <3>2. creations = Len(createdAt) - 1 /\ 0 <= creations
      BY <1>2, <1>5, <1>6, <2>4, <2>6
    <3>3. /\ Excuse(checks + 1, creations) = Excuse(checks, creations) + Period + 1
          /\ Excuse(checks, creations) \in Int
      BY <1>6, ExcuseSteps, ExcuseGrows
    <3>4. Excuse(1, 0) <= Excuse(checks + 1, creations)
      BY <1>6, <3>2, ExcuseGrows
    <3>5. now <= diedAt[c] + Period + Excuse(checks + 1, creations)
      <4>1. PICK d \in Int, x \in Int, y \in Int :
              /\ d = diedAt[c] + Period /\ x = Excuse(checks, creations)
              /\ y = Excuse(checks + 1, creations)
        <5>1. diedAt[c] + Period \in Int /\ Period \in Int /\ CreateTicks \in Int
          BY <1>2
        <5>2. PICK x \in Int : x = Excuse(checks, creations)
          BY <3>3
        <5>3. x + Period + 1 \in Int
          BY <5>1
        <5> QED
          BY <3>3, <5>1, <5>2, <5>3
      <4>2. /\ Period \in Nat /\ CreateTicks \in Nat /\ now \in Int /\ checkStart \in Int
            /\ now <= checkStart + Period + 1 /\ y = x + Period + 1
            /\ Period + 1 <= y
        BY <1>2, <2>5, <3>1, <3>3, <3>4, <4>1
      <4>3. checkStart <= d \/ checkStart <= d + x
        BY <1>6, <4>1 DEF InTime
      <4>4. now <= d + y
        BY <4>2, <4>3
      <4> QED
        BY <4>1, <4>4
    <3> QED
      BY <3>2, <3>5
  <2>7. CASE afterCreate /\ c = Len(createdAt)
    BY <1>3, <2>7, LastCreated
  <2>8. CASE afterCreate /\ c # Len(createdAt)
    <3>1. now <= checkStart + Period + 1 + CreateTicks
      BY <1>3, <2>8, <2>9, ChecksApart
    <3>2. creations + 1 = Len(createdAt) - 1 /\ 0 <= creations
      BY <1>2, <1>5, <1>6, <2>4, <2>8
    <3>3. /\ Excuse(checks + 1, creations + 1)
               = Excuse(checks, creations) + Period + 1 + CreateTicks
          /\ Excuse(checks, creations) \in Int
      BY <1>6, ExcuseSteps, ExcuseGrows
    <3>4. Excuse(1, 1) <= Excuse(checks + 1, creations + 1)
      BY <1>6, <3>2, ExcuseGrows
    <3>5. now <= diedAt[c] + Period + Excuse(checks + 1, creations + 1)
      <4>1. PICK d \in Int, x \in Int, y \in Int :
              /\ d = diedAt[c] + Period /\ x = Excuse(checks, creations)
              /\ y = Excuse(checks + 1, creations + 1)
        <5>1. diedAt[c] + Period \in Int /\ Period \in Int /\ CreateTicks \in Int
          BY <1>2
        <5>2. PICK x \in Int : x = Excuse(checks, creations)
          BY <3>3
        <5>3. x + Period + 1 + CreateTicks \in Int
          BY <5>1
        <5> QED
          BY <3>3, <5>1, <5>2, <5>3
      <4>2. /\ Period \in Nat /\ CreateTicks \in Nat /\ now \in Int /\ checkStart \in Int
            /\ now <= checkStart + Period + 1 + CreateTicks /\ y = x + Period + 1 + CreateTicks
            /\ Period + 1 + CreateTicks <= y
        BY <1>2, <2>5, <3>1, <3>3, <3>4, <4>1
      <4>3. checkStart <= d \/ checkStart <= d + x
        BY <1>6, <4>1 DEF InTime
      <4>4. now <= d + y
        BY <4>2, <4>3
      <4> QED
        BY <4>1, <4>4
    <3> QED
      BY <3>2, <3>5
  <2> QED
    BY <2>6, <2>7, <2>8
<1> QED
  BY <1>7, <1>8


\* A check that passed a dead child over has reported another one when it ends.
LEMMA DelayCheck ==
  ASSUME HeartbeatInv, SweepInv, PassNode \/ EraseNode \/ EndOfCheck,
         NEW c \in Dead \ Reported', c \in Dead \ Reported, InTime(c)
  PROVE  InTime(c)'
<1>1. TypeOK
  BY DEF HeartbeatInv
<1>2. /\ now \in Nat /\ checkStart \in Nat /\ diedAt[c] \in Nat /\ node \in Nat
      /\ Cardinality(Reported) \in Nat /\ Checks \in Nat /\ Creations \in Int
      /\ Period \in Nat
  BY <1>1, DelayTyped
<1>3. DOMAIN children = 1..Len(children) /\ Len(children) \in Nat
  BY <1>1, Typed
<1>4. /\ UNCHANGED <<now, checkStart, createdAt, afterCreate, diedAt>>
      /\ node # 0 /\ node' \in Nat
  <2>1. UNCHANGED <<now, checkStart, createdAt, afterCreate, diedAt>>
    BY DEF PassNode, EraseNode, EndOfCheck
  <2>2. CASE PassNode
    BY <1>2, <1>3, <2>2 DEF PassNode
  <2>3. CASE EraseNode
    <3>1. node \in DOMAIN children /\ node' \in {1, node + 1}
      BY <2>3 DEF EraseNode
    <3> QED
      BY <1>2, <1>3, <2>1, <3>1
  <2>4. CASE EndOfCheck
    BY <1>2, <1>3, <2>4 DEF EndOfCheck
  <2> QED
    BY <2>1, <2>2, <2>3, <2>4
<1>6. Creations' = Creations
  BY <1>4 DEF Creations
<1>7. PICK checks \in Nat, creations \in Int : checks = Checks /\ creations = Creations
  BY <1>2
<1>8. Checks = Cardinality(Reported) + (IF HasReported THEN 0 ELSE 1)
  BY <1>4 DEF Checks
<1>9. CASE PassNode
  <2>1. node' = node + 1 /\ reportedAt' = reportedAt
    BY <1>9 DEF PassNode
  <2>2. node' # 0
    BY <1>2, <2>1
  <2>3. Checks' = Checks
    BY <1>4, <1>8, <2>1, <2>2 DEF Checks, HasReported, Reported
  <2> QED
    BY <1>2, <1>4, <1>6, <1>7, <2>3, InTimeKept
<1>10. CASE EraseNode
  <2>1. Reported' = Reported \cup {children[node]} /\ children[node] \notin Reported
    BY <1>10, ChildErased DEF HeartbeatInv
  <2>2. Cardinality(Reported') = Cardinality(Reported) + 1
    BY <1>1, <2>1, FiniteChildren, FS_AddElement
  <2>3. Checks' \in Nat /\ Checks <= Checks'
    BY <1>2, <1>8, <2>2 DEF Checks
  <2> QED
    BY <1>2, <1>4, <1>6, <1>7, <2>3, InTimeKept
<1>11. CASE EndOfCheck
  <2>1. node' = 0 /\ reportedAt' = reportedAt /\ node > Len(children) /\ lastBeat' = lastBeat
    BY <1>11 DEF EndOfCheck
  <2>2. Checks' = Cardinality(Reported)
    BY <1>2, <2>1 DEF Checks, Reported
  <2>3. CASE HasReported
    <3>1. Checks' = Checks
      BY <1>2, <1>8, <2>2, <2>3
    <3> QED
      BY <1>2, <1>4, <1>6, <1>7, <3>1, InTimeKept
  <2>4. CASE ~HasReported
    <3>1. now = checkStart /\ \A i \in DOMAIN children : ~Overdue(children[i])
      BY <1>2, <1>3, <1>4, <2>1, <2>4 DEF SweepInv
    <3>2. c \in Range(children) /\ c \in Created /\ c \in Pids
      BY <1>1, Typed DEF HeartbeatInv, ListInv
    <3>3. ~Overdue(c)
      BY <3>1, <3>2 DEF Range
    <3>4. /\ lastBeat[c] <= lastSent[c] /\ lastSent[c] <= diedAt[c]
          /\ lastBeat[c] \in Nat /\ lastSent[c] \in Nat
      BY <1>1, <3>2, TimesTyped DEF HeartbeatInv, BeatInv, TimesInOrder
    <3>5. checkStart <= diedAt[c] + Period
      BY <1>2, <3>1, <3>3, <3>4 DEF Overdue
    <3> QED
      BY <1>4, <3>5 DEF InTime
  <2> QED
    BY <2>3, <2>4
<1> QED
  BY <1>9, <1>10, <1>11

LEMMA DelayNext ==
  ASSUME CreationsFit, HeartbeatInv, OnlyTheDeadAreReported, SweepInv, DelayInv,
         [Next]_vars
  PROVE  DelayInv'
<1>1. TypeOK
  BY DEF HeartbeatInv
<1>2. /\ now \in Nat /\ checkStart \in Nat /\ checkStart <= now
      /\ \A c \in Dead : diedAt[c] \in Nat
      /\ Len(createdAt) \in Nat /\ Period \in Nat
      /\ Cardinality(Reported) \in Nat /\ Checks \in Nat /\ Creations \in Int
  BY <1>1, DelayTyped
<1>3. CASE Tick \/ Create \/ UNCHANGED vars
  <2>1. /\ UNCHANGED <<checkStart, node, diedAt, reportedAt>>
    BY <1>3 DEF Tick, Create, vars
  <2>2. Dead' = Dead /\ Reported' = Reported
    BY <2>1 DEF Dead, Reported
  <2>3. Checks' = Checks
    BY <2>1, <2>2 DEF Checks, HasReported
  <2>4. Creations' = Creations
    <3>1. CASE Create
      <4>1. ~afterCreate /\ afterCreate' /\ Len(createdAt') = Len(createdAt) + 1
        BY <1>1, <3>1, CreateAppends DEF Create
      <4> QED
        BY <1>2, <4>1 DEF Creations
    <3>2. CASE Tick \/ UNCHANGED vars
      BY <3>2 DEF Tick, vars, Creations
    <3> QED
      BY <1>3, <3>1, <3>2
  <2>5. ASSUME NEW c \in Dead \ Reported PROVE InTime(c)'
    <3>1. InTime(c)
      BY DEF DelayInv
    <3>2. PICK checks \in Int, creations \in Int : checks = Checks /\ creations = Creations
      BY <1>2
    <3> QED
      BY <1>2, <2>1, <2>3, <2>4, <3>1, <3>2, InTimeKept
  <2> QED
    BY <2>2, <2>5 DEF DelayInv
<1>4. CASE Iterate
  <2>1. Dead' = Dead /\ Reported' = Reported
    BY <1>4 DEF Iterate, Dead, Reported
  <2> QED
    BY <1>4, <2>1, DelayIterate DEF DelayInv
<1>5. CASE PassNode \/ EraseNode \/ EndOfCheck
  <2>1. diedAt' = diedAt
    BY <1>5 DEF PassNode, EraseNode, EndOfCheck
  <2>2. Dead' = Dead
    BY <2>1 DEF Dead
  <2>3. Reported \subseteq Reported'
    <3>1. CASE EraseNode
      BY <3>1, ChildErased DEF HeartbeatInv
    <3>2. CASE PassNode \/ EndOfCheck
      BY <3>2 DEF PassNode, EndOfCheck, Reported
    <3> QED
      BY <1>5, <3>1, <3>2
  <2>4. ASSUME NEW c \in Dead \ Reported' PROVE InTime(c)'
    BY <1>5, <2>3, DelayCheck DEF DelayInv
  <2> QED
    BY <2>2, <2>4 DEF DelayInv
<1>6. ASSUME NEW d \in Pids, Dies(d) PROVE DelayInv'
  <2>1. /\ UNCHANGED <<now, checkStart, node, createdAt, afterCreate, reportedAt>>
    BY <1>6 DEF Dies
  <2>2. /\ Dead' = Dead \cup {d} /\ diedAt'[d] = now
        /\ \A c \in Dead : diedAt'[c] = diedAt[c]
    BY <1>1, <1>6, ChildDied
  <2>4. Reported' = Reported /\ Checks' = Checks /\ Creations' = Creations
    BY <2>1 DEF Reported, Checks, HasReported, Creations
  <2>5. InTime(d)'
    BY <1>2, <2>1, <2>2 DEF InTime
  <2>6. ASSUME NEW c \in Dead \ Reported PROVE InTime(c)'
    <3>1. InTime(c)
      BY DEF DelayInv
    <3>2. PICK checks \in Int, creations \in Int : checks = Checks /\ creations = Creations
      BY <1>2
    <3> QED
      BY <1>2, <2>1, <2>2, <2>4, <3>1, <3>2, InTimeKept
  <2> QED
    BY <2>2, <2>4, <2>5, <2>6 DEF DelayInv
<1> QED
  BY <1>3, <1>4, <1>5, <1>6 DEF Next

\* What is left of the time until the next check is a period, a pause and a creation.
LEMMA DelayBounded ==
  ASSUME CreationsFit, HeartbeatInv, OnlyTheDeadAreReported, SweepInv, DelayInv
  PROVE  DeathsAreReportedInTime
<1> SUFFICES ASSUME ~Stuck, NEW c \in Dead \ Reported
             PROVE  now - diedAt[c] <= DetectionTime
  BY DEF DeathsAreReportedInTime
<1>1. TypeOK
  BY DEF HeartbeatInv
<1>2. /\ now \in Nat /\ checkStart \in Nat /\ diedAt[c] \in Nat
      /\ busyUntil \in Nat /\ now <= busyUntil
      /\ Len(createdAt) \in Nat /\ Created = 1..Len(createdAt) /\ c \in Created
      /\ Len(createdAt) <= MaxChildren /\ MaxChildren \in Nat /\ MaxDeaths \in Nat
      /\ Cardinality(Reported) \in Nat /\ Checks \in Nat /\ Creations \in Int
      /\ Period \in Nat /\ CreateTicks \in Nat
  BY <1>1, DelayTyped, TimesAssumption DEF HeartbeatInv, ListInv, TypeOK
<1>3. DetectionTime = Period + Excuse(MaxDeaths, MaxChildren - 1)
  <2>1. PICK a \in Int, b \in Int :
          a = MaxDeaths * (Period + 1) /\ b = (MaxChildren - 1) * CreateTicks
    BY <1>2
  <2> QED
    BY <1>2, <2>1 DEF DetectionTime, Excuse
<1>4. Cardinality(Reported) + 1 <= MaxDeaths
  <2>1. Reported \in SUBSET (Dead \ {c})
    BY DEF OnlyTheDeadAreReported
  <2>2. IsFiniteSet(Dead) /\ Cardinality(Dead) \in Nat /\ Cardinality(Dead) <= MaxDeaths
    BY <1>1, FiniteChildren DEF HeartbeatInv, DeathsInv
  <2>3. IsFiniteSet(Dead \ {c}) /\ Cardinality(Dead \ {c}) = Cardinality(Dead) - 1
    BY <2>2, FS_RemoveElement
  <2>4. Cardinality(Reported) <= Cardinality(Dead \ {c})
    BY <2>1, <2>3, FS_Subset
  <2> QED
    BY <1>2, <2>2, <2>3, <2>4
<1>5. PICK r \in Nat, checks \in Nat, creations \in Int, len \in Nat :
        /\ r = Cardinality(Reported) /\ checks = Checks /\ creations = Creations
        /\ len = Len(createdAt) - 1
  <2>1. Len(createdAt) - 1 \in Nat
    BY <1>2
  <2> QED
    BY <1>2, <2>1
<1>6. /\ r + 1 <= MaxDeaths /\ len <= MaxChildren - 1
      /\ len \in Nat /\ r \in Nat /\ checks \in Nat /\ creations \in Int
  BY <1>2, <1>4, <1>5
<1>7. /\ Excuse(r + 1, len) <= Excuse(MaxDeaths, MaxChildren - 1)
      /\ Excuse(r + 1, len) \in Int /\ Excuse(MaxDeaths, MaxChildren - 1) \in Int
  <2>1. r + 1 \in Int /\ len \in Int /\ MaxDeaths \in Int /\ MaxChildren - 1 \in Int
    BY <1>2, <1>6
  <2>2. Excuse(r + 1, len) <= Excuse(MaxDeaths, MaxChildren - 1) /\ Excuse(r + 1, len) \in Int
    BY <1>6, <2>1, ExcuseGrows
  <2>3. Excuse(MaxDeaths, MaxChildren - 1) \in Int
    BY <2>1, ExcuseGrows
  <2> QED
    BY <2>2, <2>3
<1>8. PICK n \in Int, s \in Int, d \in Int, x \in Int :
        n = now /\ s = checkStart /\ d = diedAt[c] + Period /\ x = Excuse(r + 1, len)
  <2>1. diedAt[c] + Period \in Int /\ now \in Int /\ checkStart \in Int
    BY <1>2
  <2> QED
    BY <1>7, <2>1
<1>9. SUFFICES n <= d + x
  <2>1. PICK y \in Int : y = Excuse(MaxDeaths, MaxChildren - 1)
    BY <1>7
  <2>2. x <= y /\ DetectionTime = Period + y
    BY <1>3, <1>7, <1>8, <2>1
  <2>3. PICK at \in Int : at = diedAt[c]
    BY <1>2
  <2>4. Period \in Int /\ d = at + Period
    BY <1>2, <1>8, <2>3
  <2>5. n - at <= Period + y
    BY <1>9, <2>2, <2>4
  <2> QED
    BY <1>8, <2>2, <2>3, <2>5
<1>10. s <= d \/ s <= d + Excuse(checks, creations)
  BY <1>5, <1>8 DEF DelayInv, InTime
<1>11. CASE node # 0
  <2>0. ~afterCreate
    BY <1>11, ChecksApart
  <2>1. /\ creations = len
        /\ \/ checks = r /\ now <= checkStart + Period
           \/ checks = r + 1 /\ now = checkStart
    <3>1. creations = len
      BY <1>2, <1>5, <2>0 DEF Creations
    <3>2. CASE HasReported
      <4>1. busyUntil <= checkStart + r /\ r <= Period
        BY <1>1, <1>5, <1>11, ErasuresFit DEF HeartbeatInv, ClockInv
      <4> QED
        BY <1>2, <1>5, <3>1, <3>2, <4>1 DEF Checks
    <3>3. CASE ~HasReported
      <4>1. now = checkStart
        BY <1>11, <3>3 DEF SweepInv
      <4> QED
        BY <1>2, <1>5, <1>11, <3>1, <3>3, <4>1 DEF Checks
    <3> QED
      BY <3>2, <3>3
  <2>2. /\ Excuse(r + 1, len) = Excuse(r, len) + Period + 1
        /\ Excuse(r, len) \in Int /\ 0 <= Excuse(r, len)
    BY <1>6, ExcuseFrom
  <2>3. PICK y \in Int : y = Excuse(r, len)
    BY <2>2
  <2>4. Period \in Nat /\ x = y + Period + 1 /\ 0 <= y
    BY <1>2, <1>8, <2>2, <2>3
  <2>5. CASE checks = r /\ now <= checkStart + Period
    <3>1. n <= s + Period /\ (s <= d \/ s <= d + y)
      BY <1>8, <1>10, <2>1, <2>3, <2>5
    <3> QED
      BY <2>4, <3>1
  <2>6. CASE checks = r + 1 /\ now = checkStart
    <3>1. n = s /\ (s <= d \/ s <= d + x)
      BY <1>8, <1>10, <2>1, <2>6
    <3> QED
      BY <2>4, <3>1
  <2> QED
    BY <2>1, <2>5, <2>6
<1>12. CASE node = 0 /\ ~afterCreate
  <2>1. now <= checkStart + Period + 1
    BY <1>2, <1>12, ChecksApart
  <2>2. creations = len /\ checks = r
    BY <1>2, <1>5, <1>12 DEF Creations, Checks
  <2>3. /\ Excuse(r + 1, len) = Excuse(r, len) + Period + 1
        /\ Excuse(r, len) \in Int /\ 0 <= Excuse(r, len)
    BY <1>6, ExcuseFrom
  <2>4. PICK y \in Int : y = Excuse(r, len)
    BY <2>3
  <2>5. Period \in Int /\ x = y + Period + 1 /\ 0 <= y /\ n <= s + Period + 1
    BY <1>2, <1>8, <2>1, <2>3, <2>4
  <2>6. s <= d \/ s <= d + y
    BY <1>10, <2>2, <2>4
  <2> QED
    BY <2>5, <2>6
<1>13. CASE node = 0 /\ afterCreate /\ c = Len(createdAt)
  <2>1. busyUntil <= diedAt[c] + Period
    BY <1>13, LastCreated
  <2>2. 0 <= Excuse(r + 1, len)
    <3>1. Excuse(0, 0) <= Excuse(r + 1, len)
      BY <1>6, ExcuseGrows
    <3>2. Excuse(0, 0) = 0
      BY ExcuseSteps
    <3> QED
      BY <3>1, <3>2
  <2>3. PICK b \in Int : b = busyUntil
    BY <1>2
  <2>4. n <= b /\ b <= d /\ 0 <= x
    BY <1>2, <1>8, <2>1, <2>2, <2>3
  <2> QED
    BY <2>4
<1>14. CASE node = 0 /\ afterCreate /\ c # Len(createdAt)
  <2>1. now <= checkStart + Period + 1 + CreateTicks
    BY <1>2, <1>14, ChecksApart
  <2>2. creations + 1 = len /\ 0 <= creations /\ checks = r
    BY <1>2, <1>5, <1>14 DEF Creations, Checks
  <2>3. /\ Excuse(r + 1, len) = Excuse(r, creations) + Period + 1 + CreateTicks
        /\ Excuse(r, creations) \in Int /\ 0 <= Excuse(r, creations)
    <3>1. Excuse(0, 0) <= Excuse(r, creations)
      BY <1>6, <2>2, ExcuseGrows
    <3>2. Excuse(r, creations) \in Int
      <4>1. r \in Int /\ creations \in Int /\ r <= r /\ creations <= creations
        BY <1>6
      <4> QED
        BY <4>1, ExcuseGrows
    <3>3. /\ Excuse(0, 0) = 0
          /\ Excuse(r + 1, creations + 1) = Excuse(r, creations) + Period + 1 + CreateTicks
      BY <1>6, ExcuseSteps
    <3> QED
      BY <2>2, <3>1, <3>2, <3>3
  <2>4. PICK y \in Int : y = Excuse(r, creations)
    BY <2>3
  <2>5. /\ Period \in Int /\ CreateTicks \in Int
        /\ x = y + Period + 1 + CreateTicks /\ 0 <= y
        /\ n <= s + Period + 1 + CreateTicks
    BY <1>2, <1>8, <2>1, <2>3, <2>4
  <2>6. s <= d \/ s <= d + y
    BY <1>10, <2>2, <2>4
  <2> QED
    BY <2>5, <2>6
<1> QED
  BY <1>11, <1>12, <1>13, <1>14

\* Every death is reported within the time that the skipping erase of checkHeartbeat,
\* a check for each death, and the creations of the other children allow, unless the
\* parent is stuck in an erasure.
THEOREM DetectionTheorem ==
  ASSUME CreationsFit
  PROVE  Spec => []DeathsAreReportedInTime
<1>1. Init => SweepInv /\ DelayInv
  BY SweepInit, DelayInit
<1>2. HeartbeatInv /\ OnlyTheDeadAreReported /\ SweepInv /\ DelayInv /\ [Next]_vars
        => (SweepInv /\ DelayInv)'
  BY SweepNext, DelayNext
<1>3. HeartbeatInv /\ OnlyTheDeadAreReported /\ SweepInv /\ DelayInv
        => DeathsAreReportedInTime
  BY DelayBounded
<1> QED
  BY <1>1, <1>2, <1>3, HeartbeatInvariant, OnlyTheDeadTheorem, PTL DEF Spec
=============================================================================
