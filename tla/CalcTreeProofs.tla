--------------------------- MODULE CalcTreeProofs ---------------------------
(***************************************************************************)
(* Theorems about the tree of CalcTree.tla, for every value of its         *)
(* constants.                                                              *)
(***************************************************************************)
EXTENDS CalcTree, SequenceLemmas, FiniteSetTheorems

-----------------------------------------------------------------------------
(***************************************************************************)
(* The list of command records, of any length.                             *)
(***************************************************************************)

\* When the loop of findRecord does not run off the end, it stops at the first
\* record of the type.
LEMMA FindRecordFinds ==
  ASSUME NEW S, NEW recs \in Seq(S), NEW type, ~RunsOffTheEnd(recs, type)
  PROVE  /\ findRecord(recs, type) \in 1..Len(recs)
         /\ recs[findRecord(recs, type)].type = type
         /\ \A j \in 1..Len(recs) :
               recs[j].type = type => findRecord(recs, type) <= j
<1> DEFINE I == RecordsOf(recs, type)
<1>1. I \subseteq 1..Len(recs) /\ I # {}
  BY DEF RecordsOf, RunsOffTheEnd
<1>2. \E i \in I : \A j \in I : i <= j
  BY <1>1, LeastElement
<1>3. /\ findRecord(recs, type) \in I
      /\ \A j \in I : findRecord(recs, type) <= j
  BY <1>2 DEF findRecord
<1>4. QED
  BY <1>1, <1>3 DEF RecordsOf

\* Accounting a response to a record gives a record.
LEMMA AccountedIsRecord ==
  ASSUME NEW r \in RecordSet
  PROVE  /\ accountBadResp(r) \in RecordSet
         /\ accountGoodResp(r) \in RecordSet
<1>1. r.recievedResponses + 1 \in Nat
  BY DEF RecordSet
<1>2. ASSUME NEW n \in Nat
      PROVE  /\ [r EXCEPT !.recievedResponses = n] \in RecordSet
             /\ [r EXCEPT !.recievedResponses = n, !.wasGoodResponse = TRUE]
                  \in RecordSet
  BY DEF RecordSet
<1>3. QED
  BY <1>1, <1>2 DEF accountBadResp, accountGoodResp

\* Accounting a response, or closing a record, keeps the list one of records.
LEMMA AccountingKeepsRecords ==
  ASSUME NEW recs \in Seq(RecordSet), NEW type, NEW n,
         ~RunsOffTheEnd(recs, type)
  PROVE  /\ AccountBad(recs, type, n) \in Seq(RecordSet)
         /\ AccountGood(recs, type, n) \in Seq(RecordSet)
         /\ type = "Create" => CloseRecord(recs) \in Seq(RecordSet)
<1> DEFINE i == findRecord(recs, type)
<1>1. i \in 1..Len(recs)
  BY FindRecordFinds
<1>2. RemoveAt(recs, i) \in Seq(RecordSet)
  BY <1>1, RemoveAtProperties
<1>3. recs[i] \in RecordSet
  BY <1>1, ElementOfSeq
<1>4. /\ accountBadResp(recs[i]) \in RecordSet
      /\ accountGoodResp(recs[i]) \in RecordSet
  BY <1>3, AccountedIsRecord
<1> HIDE DEF i
<1>5. \A r \in RecordSet : [recs EXCEPT ![i] = r] \in Seq(RecordSet)
  BY <1>1, ExceptSeq
<1>6. AccountBad(recs, type, n) \in Seq(RecordSet)
  BY <1>2, <1>4, <1>5 DEF AccountBad, i
<1>7. AccountGood(recs, type, n) \in Seq(RecordSet)
  BY <1>2, <1>4, <1>5 DEF AccountGood, i
<1>8. type = "Create" => CloseRecord(recs) \in Seq(RecordSet)
  BY <1>2 DEF CloseRecord, i
<1>9. QED
  BY <1>6, <1>7, <1>8

-----------------------------------------------------------------------------
(***************************************************************************)
(* What the operators on the message paths keep.                           *)
(***************************************************************************)

\* The fields of the messages a node takes from its parent.
LEMMA DownMsgFields ==
  ASSUME NEW m \in DownMsg
  PROVE  /\ m.type = "CommandCreate" =>
              m \in CommandMsg /\ m.newNodeId \in Nat /\ m.parentId \in Nat
         /\ m.type = "CommandExec" =>
              m \in CommandMsg /\ m.nodeId \in Nat /\ m.k \in Nat
BY DEF DownMsg, CommandMsg, KillSignal, CommandPrintTree

\* The constructors of responses give responses.
LEMMA ResponseMsgs ==
  ASSUME NEW m \in Nat, NEW n \in Nat
  PROVE  /\ GoodExecResp(m, n) \in ResponseMsg
         /\ BadExecResp(m) \in ResponseMsg
         /\ GoodCreateResp(m, n) \in ResponseMsg
         /\ BadCreateResp(m, n) \in ResponseMsg
         /\ NodeExistResponse(m) \in ResponseMsg
         /\ NodeIsDeadResponse(m) \in ResponseMsg
BY DEF ResponseMsg, GoodExecResp, BadExecResp, GoodCreateResp, BadCreateResp,
       NodeExistResponse, NodeIsDeadResponse

\* A dead end answers an exec or a create with a response.
LEMMA DeadEndResponds ==
  ASSUME NEW m \in DownMsg, m.type \in {"CommandExec", "CommandCreate"}
  PROVE  handleDeadEnd(m) \in ResponseMsg
<1>1. CASE m.type = "CommandExec"
  BY <1>1, DownMsgFields, ResponseMsgs DEF handleDeadEnd
<1>2. CASE m.type = "CommandCreate"
  BY <1>2, DownMsgFields, ResponseMsgs DEF handleDeadEnd
<1>3. QED
  BY <1>1, <1>2

\* Paths of messages of S.
Paths(S) == [Processes -> Seq(S)]

\* Taking the head of a path leaves it a path, and the head is a message.
LEMMA ConsumedIsPath ==
  ASSUME NEW S, NEW path \in Paths(S), NEW p \in Processes, path[p] # <<>>
  PROVE  /\ Consumed(path, p) \in Paths(S)
         /\ Head(path[p]) \in S
<1>1. path[p] \in Seq(S)
  BY DEF Paths
<1>2. Head(path[p]) \in S /\ Tail(path[p]) \in Seq(S)
  BY <1>1, HeadTailProperties
<1>3. QED
  BY <1>2 DEF Paths, Consumed

\* Pushing a message upwards, or to all children.
LEMMA RedirectedIsPath ==
  ASSUME NEW S, NEW path \in Paths(S), NEW p \in Processes, NEW m \in S
  PROVE  /\ redirectToAncestor(path, p, m) \in Paths(S)
         /\ redirectToNodes(path, p, m) \in Paths(S)
<1>1. \A q \in Processes : Append(path[q], m) \in Seq(S)
  BY AppendProperties DEF Paths
<1>2. QED
  BY <1>1 DEF Paths, redirectToAncestor, redirectToNodes

\* A path cut short.
LEMMA PrefixIsSeq ==
  ASSUME NEW S, NEW s \in Seq(S), NEW n \in 0..Len(s)
  PROVE  SubSeq(s, 1, n) \in Seq(S)
BY SubSeqProperties

\* The messages on a path once its head was taken were on it before.
LEMMA ConsumedCarries ==
  ASSUME NEW S, NEW path \in Paths(S), NEW p \in Processes, path[p] # <<>>
  PROVE  /\ Head(path[p]) \in Range(path[p])
         /\ \A q \in Processes :
              Range(Consumed(path, p)[q]) \subseteq Range(path[q])
<1>1. path[p] \in Seq(S) /\ Len(path[p]) \in Nat \ {0}
  BY EmptySeq, LenProperties DEF Paths
<1>2. Head(path[p]) = path[p][1] /\ 1 \in DOMAIN path[p]
  BY <1>1, HeadTailProperties, LenProperties
<1>3. /\ DOMAIN Tail(path[p]) = 1..(Len(path[p]) - 1)
      /\ \A i \in 1..(Len(path[p]) - 1) : Tail(path[p])[i] = path[p][i + 1]
  BY <1>1, HeadTailProperties, LenProperties
<1>4. \A i \in DOMAIN Tail(path[p]) : i + 1 \in DOMAIN path[p]
  BY <1>1, <1>3, LenProperties
<1>5. Range(Tail(path[p])) \subseteq Range(path[p])
  BY <1>3, <1>4 DEF Range
<1>6. ASSUME NEW q \in Processes
      PROVE  Range(Consumed(path, p)[q]) \subseteq Range(path[q])
  BY <1>5 DEF Consumed, Paths
<1>7. QED
  BY <1>2, <1>6 DEF Range

\* Appending a message adds it and nothing else.
LEMMA AppendCarries ==
  ASSUME NEW S, NEW s \in Seq(S), NEW m \in S
  PROVE  Range(Append(s, m)) \subseteq Range(s) \cup {m}
<1>1. /\ DOMAIN Append(s, m) = 1..(Len(s) + 1)
      /\ DOMAIN s = 1..Len(s) /\ Len(s) \in Nat
      /\ \A i \in 1..Len(s) : Append(s, m)[i] = s[i]
      /\ Append(s, m)[Len(s) + 1] = m
  BY AppendProperties, LenProperties
<1>2. QED
  BY <1>1 DEF Range

LEMMA RedirectedCarries ==
  ASSUME NEW S, NEW path \in Paths(S), NEW p \in Processes, NEW m \in S,
         NEW q \in Processes
  PROVE  /\ Range(redirectToAncestor(path, p, m)[q])
               \subseteq Range(path[q]) \cup (IF q = p THEN {m} ELSE {})
         /\ Range(redirectToNodes(path, p, m)[q])
               \subseteq Range(path[q])
                          \cup (IF q \in Children(p) THEN {m} ELSE {})
<1>1. Range(Append(path[q], m)) \subseteq Range(path[q]) \cup {m}
  BY AppendCarries DEF Paths
<1>2. QED
  BY <1>1 DEF Paths, redirectToAncestor, redirectToNodes

\* A path cut short carries nothing else.
LEMMA PrefixCarries ==
  ASSUME NEW S, NEW s \in Seq(S), NEW n \in 0..Len(s)
  PROVE  Range(SubSeq(s, 1, n)) \subseteq Range(s)
<1>1. /\ DOMAIN SubSeq(s, 1, n) = 1..n
      /\ \A i \in 1..n : SubSeq(s, 1, n)[i] = s[i]
      /\ DOMAIN s = 1..Len(s) /\ Len(s) \in Nat
  BY SubSeqProperties, LenProperties
<1>2. QED
  BY <1>1 DEF Range

\* A process that dies says nothing new.
LEMMA DiesCarries ==
  ASSUME NEW p \in Processes, NEW path \in Paths(ResponseMsg), Dies(p, path),
         NEW q \in Processes
  PROVE  Range(up'[q]) \subseteq Range(path[q])
<1>1. CASE p = Root
  BY <1>1 DEF Dies
<1>2. CASE p # Root
  <2>1. PICK n \in 0..Len(path[p]) :
          up' = [path EXCEPT ![p] = SubSeq(path[p], 1, n)]
    BY <1>2 DEF Dies
  <2>2. Range(SubSeq(path[p], 1, n)) \subseteq Range(path[p])
    BY PrefixCarries DEF Paths
  <2>3. QED
    BY <2>1, <2>2 DEF Paths
<1>3. QED
  BY <1>1, <1>2

\* The death of a process leaves the phases and the paths well typed.
LEMMA DiesTyped ==
  ASSUME NEW p \in Processes, NEW path \in Paths(ResponseMsg), TypeOK,
         Dies(p, path)
  PROVE  /\ phase' \in [Processes -> {"none", "running", "stopping", "stuck", "gone"}]
         /\ up' \in Paths(ResponseMsg)
<1>1. phase' \in [Processes -> {"none", "running", "stopping", "stuck", "gone"}]
  BY DEF TypeOK, Dies
<1>2. CASE p = Root
  BY <1>1, <1>2 DEF Dies
<1>3. CASE p # Root
  <2>1. PICK n \in 0..Len(path[p]) :
          up' = [path EXCEPT ![p] = SubSeq(path[p], 1, n)]
    BY <1>3 DEF Dies
  <2>2. path[p] \in Seq(ResponseMsg)
    BY DEF Paths
  <2>3. SubSeq(path[p], 1, n) \in Seq(ResponseMsg)
    BY <2>2, PrefixIsSeq
  <2>4. QED
    BY <1>1, <2>1, <2>3 DEF Paths
<1>4. QED
  BY <1>2, <1>3

\* A new child is found under its identifier: getProcessPidByNodeId gives the
\* pid of some process of the list with that identifier.
LEMMA PidFound ==
  ASSUME NEW kids \in Seq(Pids), NEW idOf, NEW id,
         \E i \in DOMAIN kids : idOf[kids[i]] = id
  PROVE  /\ getProcessPidByNodeId(kids, idOf, id) \in Range(kids)
         /\ getProcessPidByNodeId(kids, idOf, id) \in Pids
         /\ idOf[getProcessPidByNodeId(kids, idOf, id)] = id
<1> DEFINE T == {i \in DOMAIN kids : idOf[kids[i]] = id}
           First(i) == /\ idOf[kids[i]] = id
                       /\ \A j \in 1..(i - 1) : idOf[kids[j]] # id
<1>1. DOMAIN kids = 1..Len(kids) /\ Len(kids) \in Nat
  BY LenProperties
<1>2. PICK i \in T : \A j \in T : i <= j
  <2>1. T \subseteq Nat /\ T # {}
    BY <1>1
  <2>2. QED
    BY <2>1, LeastElement
<1>3. i \in DOMAIN kids /\ First(i)
  BY <1>1, <1>2
<1>4. PICK f \in DOMAIN kids :
        /\ First(f)
        /\ getProcessPidByNodeId(kids, idOf, id) = kids[f]
  <2> DEFINE f == CHOOSE x \in DOMAIN kids : First(x)
  <2>1. f \in DOMAIN kids /\ First(f)
    BY <1>3
  <2>2. getProcessPidByNodeId(kids, idOf, id) = kids[f]
    BY DEF getProcessPidByNodeId
  <2>3. QED
    BY <2>1, <2>2
<1>5. kids[f] \in Pids
  BY <1>1, ElementOfSeq
<1>6. QED
  BY <1>4, <1>5 DEF Range

\* Erasing a child leaves a list of children.
LEMMA ErasedIsSeq ==
  ASSUME NEW kids \in Seq(Pids), NEW i \in DOMAIN kids
  PROVE  eraseChild(kids, i) \in Seq(Pids)
BY RemoveAtProperties, LenProperties DEF eraseChild

-----------------------------------------------------------------------------
(***************************************************************************)
(* Type correctness: one lemma for each group of actions.                  *)
(***************************************************************************)

\* What the actions below take from the type invariant.
LEMMA TypedPaths ==
  ASSUME TypeOK
  PROVE  down \in Paths(DownMsg) /\ up \in Paths(ResponseMsg)
BY DEF TypeOK, Paths

LEMMA TypedInit == Init => TypeOK
<1> SUFFICES ASSUME Init PROVE TypeOK
  OBVIOUS
<1>1. forked \in 0..MaxPid /\ crashes \in 0..MaxCrashes
  BY ConstantsAssumption DEF Init
<1>2. \A S : <<>> \in Seq(S)
  OBVIOUS
<1>3. QED
  BY <1>1, <1>2 DEF Init, TypeOK, Processes

LEMMA TypedSubmit ==
  ASSUME TypeOK, NEW cmd \in Commands, Submit(cmd)
  PROVE  TypeOK'
<1> DEFINE c == IF cmd.type = "CommandExec"
                THEN [cmd EXCEPT !.k = Len(submitted) + 1]
                ELSE cmd
<1>1. cmd \in CommandMsg
  BY ConstantsAssumption
<1>2. Len(submitted) + 1 \in Nat
  BY LenProperties DEF TypeOK
<1>3. \A k \in Nat : cmd.type = "CommandExec" =>
        [cmd EXCEPT !.k = k] \in CommandMsg
  BY <1>1 DEF CommandMsg, CommandPrintTree
<1>4. c \in CommandMsg
  BY <1>1, <1>2, <1>3
<1>5. c \in DownMsg
  BY <1>4 DEF DownMsg
<1> HIDE DEF c
<1>6. submitted' \in Seq(CommandMsg)
  BY <1>4, AppendProperties DEF Submit, c, TypeOK
<1>7. down' = redirectToAncestor(down, Root, c)
  BY DEF Submit, c, redirectToAncestor
<1>8. down' \in Paths(DownMsg)
  BY <1>5, <1>7, TypedPaths, RedirectedIsPath DEF Processes
<1>9. QED
  BY <1>6, <1>8 DEF Submit, TypeOK, Paths

LEMMA TypedCreate ==
  ASSUME TypeOK, NEW p \in Processes,
         CreateNodeExists(p) \/ CreateHere(p) \/ CreateForkFails(p)
  PROVE  TypeOK'
<1>1. Receives(p, "CommandCreate")
  BY DEF CreateNodeExists, CreateHere, CreateForkFails, ReceivesCreateHere
<1>2. /\ Consumed(down, p) \in Paths(DownMsg)
      /\ Head(down[p]).newNodeId \in Nat
  BY <1>1, TypedPaths, ConsumedIsPath, DownMsgFields DEF Receives
<1>3. CASE CreateNodeExists(p)
  <2>1. NodeExistResponse(nodeId[p]) \in ResponseMsg
    BY ResponseMsgs DEF TypeOK
  <2>2. up' \in Paths(ResponseMsg)
    BY <1>3, <2>1, TypedPaths, RedirectedIsPath DEF CreateNodeExists
  <2>3. QED
    BY <1>2, <1>3, <2>2 DEF CreateNodeExists, TypeOK, Paths
<1>4. CASE CreateHere(p)
  <2> DEFINE new == Head(down[p]).newNodeId
             c == forked + 1
             kids == emplaceBack(children[p], c)
             ids == [nodeId EXCEPT ![c] = new]
             pid == getProcessPidByNodeId(kids, ids, new)
  <2>1. c \in Pids /\ c \in Processes /\ forked' = c /\ c \in 0..MaxPid
    BY <1>4, ConstantsAssumption DEF CreateHere, TypeOK, Pids, Processes
  <2>2. children[p] \in Seq(Pids)
    BY DEF TypeOK
  <2>3. /\ kids \in Seq(Pids)
        /\ Len(kids) = Len(children[p]) + 1
        /\ kids[Len(children[p]) + 1] = c
    BY <2>1, <2>2, AppendProperties DEF emplaceBack
  <2>4. Len(children[p]) + 1 \in DOMAIN kids
    BY <2>2, <2>3, LenProperties
  <2>5. ids \in [Processes -> Nat] /\ ids[c] = new
    BY <1>2, <2>1 DEF TypeOK
  <2> HIDE DEF kids, ids
  <2>6. pid \in Pids
    BY <2>3, <2>4, <2>5, PidFound
  <2>7. GoodCreateResp(new, pid) \in ResponseMsg
    BY <1>2, <2>6, ResponseMsgs DEF Pids
  <2>8. up' \in Paths(ResponseMsg)
    BY <1>4, <2>7, TypedPaths, RedirectedIsPath DEF CreateHere, kids, ids
  <2>9. /\ children' \in [Processes -> Seq(Pids)]
        /\ nodeId' \in [Processes -> Nat]
    BY <1>4, <2>3, <2>5 DEF CreateHere, TypeOK, kids, ids
  <2>10. QED
    BY <1>2, <1>4, <2>1, <2>8, <2>9 DEF CreateHere, TypeOK, Paths
<1>5. CASE CreateForkFails(p)
  <2>1. /\ phase' \in [Processes -> {"none", "running", "stopping", "stuck", "gone"}]
        /\ up' \in Paths(ResponseMsg)
    BY <1>5, TypedPaths, DiesTyped DEF CreateForkFails
  <2>2. QED
    BY <1>2, <1>5, <2>1 DEF CreateForkFails, TypeOK, Paths
<1>6. QED
  BY <1>3, <1>4, <1>5

LEMMA TypedRedirect ==
  ASSUME TypeOK, NEW p \in Processes, CreateElsewhere(p) \/ ExecElsewhere(p)
  PROVE  TypeOK'
<1> DEFINE cmd == Head(down[p])
<1>1. PICK type \in CommandType :
        /\ RedirectCommand(p, type)
        /\ down[p] # <<>>
        /\ cmd.type \in {"CommandExec", "CommandCreate"}
  BY DEF CreateElsewhere, ExecElsewhere, Receives, CommandType
<1>2. Consumed(down, p) \in Paths(DownMsg) /\ cmd \in DownMsg
  BY <1>1, TypedPaths, ConsumedIsPath
<1>3. down' \in Paths(DownMsg)
  BY <1>1, <1>2, RedirectedIsPath DEF RedirectCommand
<1>4. up' \in Paths(ResponseMsg)
  BY <1>1, <1>2, DeadEndResponds, TypedPaths, RedirectedIsPath
     DEF RedirectCommand
<1>5. CommandRecord(type) \in RecordSet
  BY DEF CommandRecord, RecordSet
<1>6. records' \in [Processes -> Seq(RecordSet)]
  BY <1>1, <1>5, AppendProperties DEF RedirectCommand, TypeOK
<1>7. QED
  BY <1>1, <1>3, <1>4, <1>6 DEF RedirectCommand, TypeOK, Paths

LEMMA TypedExecuteHere ==
  ASSUME TypeOK, NEW p \in Processes, ExecuteHere(p)
  PROVE  TypeOK'
<1>1. /\ Consumed(down, p) \in Paths(DownMsg)
      /\ Head(down[p]).k \in Nat
  BY TypedPaths, ConsumedIsPath, DownMsgFields DEF ExecuteHere, Receives
<1>2. GoodExecResp(nodeId[p], Head(down[p]).k) \in ResponseMsg
  BY <1>1, ResponseMsgs DEF TypeOK
<1>3. up' \in Paths(ResponseMsg)
  BY <1>2, TypedPaths, RedirectedIsPath DEF ExecuteHere
<1>4. QED
  BY <1>1, <1>3 DEF ExecuteHere, TypeOK, Paths

LEMMA TypedHandleKillSignal ==
  ASSUME TypeOK, NEW p \in Processes, IgnoreCommand(p) \/ HandleKillSignal(p)
  PROVE  TypeOK'
<1>1. Consumed(down, p) \in Paths(DownMsg)
  BY TypedPaths, ConsumedIsPath DEF IgnoreCommand, HandleKillSignal, Receives
<1>2. CASE IgnoreCommand(p)
  BY <1>1, <1>2 DEF IgnoreCommand, TypeOK, Paths
<1>3. CASE HandleKillSignal(p)
  <2>1. KillSignal \in DownMsg
    BY DEF DownMsg
  <2>2. down' \in Paths(DownMsg)
    BY <1>1, <1>3, <2>1, RedirectedIsPath DEF HandleKillSignal
  <2>3. phase' \in [Processes -> {"none", "running", "stopping", "stuck", "gone"}]
    BY <1>3 DEF HandleKillSignal, TypeOK
  <2>4. QED
    BY <1>3, <2>2, <2>3 DEF HandleKillSignal, TypeOK, Paths
<1>4. QED
  BY <1>2, <1>3

\* A process that leaves its loop ends, or is stuck in the destructor of a child.
LEMMA ExitEnds ==
  ASSUME NEW p \in Processes, Exit(p)
  PROVE  /\ phase[p] = "stopping"
         /\ Dies(p, up) \/ (phase' = [phase EXCEPT ![p] = "stuck"] /\ UNCHANGED up)
BY DEF Exit, Lingers

LEMMA TypedExit ==
  ASSUME TypeOK, NEW p \in Processes, Exit(p)
  PROVE  TypeOK'
<1> DEFINE queued(c) == down[c] \o <<KillSignal, KillSignal>>
<1>1. PICK sent \in [Children(p) -> UNION {0..Len(queued(c)) : c \in Children(p)}] :
        /\ \A c \in Children(p) : sent[c] <= Len(queued(c))
        /\ down' = [c \in Processes |->
                     IF c \in Children(p)
                     THEN SubSeq(queued(c), 1, sent[c])
                     ELSE down[c]]
  BY DEF Exit
<1>2. ASSUME NEW c \in Processes
      PROVE  queued(c) \in Seq(DownMsg) /\ Len(queued(c)) \in Nat
  <2>1. down[c] \in Seq(DownMsg)
    BY DEF TypeOK
  <2>2. <<KillSignal, KillSignal>> \in Seq(DownMsg)
    BY DEF DownMsg
  <2>3. QED
    BY <2>1, <2>2, ConcatProperties, LenProperties
<1>3. Children(p) \subseteq Processes
  <2>1. children[p] \in Seq(Pids)
    BY DEF TypeOK
  <2>2. QED
    BY <2>1, ElementOfSeq, LenProperties DEF Children, Range, Processes
<1> HIDE DEF queued
<1>4. ASSUME NEW c \in Children(p)
      PROVE  SubSeq(queued(c), 1, sent[c]) \in Seq(DownMsg)
  <2>1. sent[c] \in 0..Len(queued(c))
    BY <1>1, <1>2, <1>3
  <2>2. QED
    BY <1>2, <1>3, <2>1, PrefixIsSeq
<1>5. down' \in [Processes -> Seq(DownMsg)]
  BY <1>1, <1>4 DEF TypeOK
<1>6. /\ phase' \in [Processes -> {"none", "running", "stopping", "stuck", "gone"}]
      /\ up' \in Paths(ResponseMsg)
  <2>1. CASE Dies(p, up)
    BY <2>1, TypedPaths, DiesTyped
  <2>2. CASE phase' = [phase EXCEPT ![p] = "stuck"] /\ UNCHANGED up
    BY <2>2, TypedPaths DEF TypeOK
  <2>3. QED
    BY <2>1, <2>2, ExitEnds
<1>7. QED
  BY <1>5, <1>6 DEF Exit, TypeOK, Paths

\* The paths once p has taken a response of c, and perhaps passed it on.
LEMMA TypedPassedOn ==
  ASSUME TypeOK, NEW p \in Processes, NEW c \in Pids, up[c] # <<>>
  PROVE  /\ Consumed(up, c) \in Paths(ResponseMsg)
         /\ PassedOn(p, c) \in Paths(ResponseMsg)
<1>1. c \in Processes
  BY DEF Processes
<1>2. /\ Consumed(up, c) \in Paths(ResponseMsg)
      /\ Head(up[c]) \in ResponseMsg
  BY <1>1, TypedPaths, ConsumedIsPath
<1>3. QED
  BY <1>2, RedirectedIsPath DEF PassedOn

LEMMA TypedHandleResponse ==
  ASSUME TypeOK, NEW p \in Processes, NEW c \in Pids, HandleResponse(p, c)
  PROVE  TypeOK'
<1> DEFINE type == RecordType(Head(up[c]))
<1>1. up[c] # <<>>
  BY DEF HandleResponse, AccountBadResp, AccountGoodResp, RedirectResponse,
         CloseRecordAndRedirectResp, RunOffTheEnd, Answers
<1>2. /\ Consumed(up, c) \in Paths(ResponseMsg)
      /\ PassedOn(p, c) \in Paths(ResponseMsg)
  BY <1>1, TypedPassedOn
<1>3. records[p] \in Seq(RecordSet)
  BY DEF TypeOK
<1>4. CASE AccountBadResp(p, c)
  <2>1. AccountBad(records[p], type, Len(children[p])) \in Seq(RecordSet)
    BY <1>3, <1>4, AccountingKeepsRecords DEF AccountBadResp
  <2>2. records' \in [Processes -> Seq(RecordSet)]
    BY <1>4, <2>1 DEF AccountBadResp, TypeOK
  <2>3. up' \in Paths(ResponseMsg)
    BY <1>2, <1>4 DEF AccountBadResp
  <2>4. QED
    BY <1>4, <2>2, <2>3 DEF AccountBadResp, TypeOK, Paths
<1>5. CASE AccountGoodResp(p, c)
  <2>1. AccountGood(records[p], type, Len(children[p])) \in Seq(RecordSet)
    BY <1>3, <1>5, AccountingKeepsRecords DEF AccountGoodResp
  <2>2. records' \in [Processes -> Seq(RecordSet)]
    BY <1>5, <2>1 DEF AccountGoodResp, TypeOK
  <2>3. QED
    BY <1>2, <1>5, <2>2 DEF AccountGoodResp, TypeOK, Paths
<1>6. CASE CloseRecordAndRedirectResp(p, c)
  <2>1. CloseRecord(records[p]) \in Seq(RecordSet)
    BY <1>3, <1>6, AccountingKeepsRecords DEF CloseRecordAndRedirectResp
  <2>2. records' \in [Processes -> Seq(RecordSet)]
    BY <1>6, <2>1 DEF CloseRecordAndRedirectResp, TypeOK
  <2>3. QED
    BY <1>2, <1>6, <2>2 DEF CloseRecordAndRedirectResp, TypeOK, Paths
<1>7. CASE RedirectResponse(p, c)
  BY <1>2, <1>7 DEF RedirectResponse, TypeOK, Paths
<1>8. CASE RunOffTheEnd(p, c)
  <2>1. ranOff' \subseteq Processes
    BY <1>8 DEF RunOffTheEnd, TypeOK
  <2>2. /\ phase' \in [Processes -> {"none", "running", "stopping", "stuck", "gone"}]
        /\ up' \in Paths(ResponseMsg)
    <3>1. CASE Dies(p, Consumed(up, c))
      BY <1>2, <3>1, DiesTyped
    <3>2. CASE up' \in {PassedOn(p, c), Consumed(up, c)} /\ UNCHANGED phase
      BY <1>2, <3>2 DEF TypeOK
    <3>3. QED
      BY <1>8, <3>1, <3>2 DEF RunOffTheEnd
  <2>3. QED
    BY <1>8, <2>1, <2>2 DEF RunOffTheEnd, TypeOK, Paths
<1>9. QED
  BY <1>4, <1>5, <1>6, <1>7, <1>8 DEF HandleResponse

LEMMA TypedEraseOverdue ==
  ASSUME TypeOK, NEW p \in Processes, NEW c \in Pids, EraseOverdue(p, c)
  PROVE  TypeOK'
<1>1. NodeIsDeadResponse(nodeId[c]) \in ResponseMsg
  BY ResponseMsgs DEF TypeOK, Processes
<1>2. up' \in Paths(ResponseMsg)
  BY <1>1, TypedPaths, RedirectedIsPath DEF EraseOverdue
<1>3. children' \in [Processes -> Seq(Pids)]
  BY ErasedIsSeq DEF EraseOverdue, TypeOK
<1>4. Append(down[c], KillSignal) \in Seq(DownMsg)
      /\ Len(Append(down[c], KillSignal)) = Len(down[c]) + 1
  BY AppendProperties DEF TypeOK, DownMsg, Processes
<1>5. PICK n \in 0..(Len(down[c]) + 1) :
        down' = [down EXCEPT ![c] = SubSeq(Append(down[c], KillSignal), 1, n)]
  BY DEF EraseOverdue
<1>6. SubSeq(Append(down[c], KillSignal), 1, n) \in Seq(DownMsg)
  BY <1>4, PrefixIsSeq
<1>7. down' \in [Processes -> Seq(DownMsg)]
  BY <1>5, <1>6 DEF TypeOK
<1>8. phase' \in [Processes -> {"none", "running", "stopping", "stuck", "gone"}]
  BY DEF EraseOverdue, Lingers, TypeOK
<1>9. QED
  BY <1>2, <1>3, <1>7, <1>8 DEF EraseOverdue, TypeOK, Paths

LEMMA TypedCrash ==
  ASSUME TypeOK, NEW p \in Pids, Crash(p)
  PROVE  TypeOK'
<1>1. /\ phase' \in [Processes -> {"none", "running", "stopping", "stuck", "gone"}]
      /\ up' \in Paths(ResponseMsg)
  BY TypedPaths, DiesTyped DEF Crash, Processes
<1>2. crashes' \in 0..MaxCrashes
  BY ConstantsAssumption DEF Crash, TypeOK
<1>3. QED
  BY <1>1, <1>2 DEF Crash, TypeOK, Paths

LEMMA TypedNext == TypeOK /\ [Next]_vars => TypeOK'
<1> SUFFICES ASSUME TypeOK, [Next]_vars PROVE TypeOK'
  OBVIOUS
<1>1. ASSUME NEW cmd \in Commands, Submit(cmd) PROVE TypeOK'
  BY <1>1, TypedSubmit
<1>2. ASSUME NEW p \in Processes, HandleCommand(p) PROVE TypeOK'
  BY <1>2, TypedCreate, TypedRedirect, TypedExecuteHere, TypedHandleKillSignal
     DEF HandleCommand
<1>3. ASSUME NEW p \in Processes, HandleKillSignal(p) \/ Exit(p) PROVE TypeOK'
  BY <1>3, TypedHandleKillSignal, TypedExit
<1>4. ASSUME NEW p \in Processes, NEW c \in Pids,
             HandleResponse(p, c) \/ EraseOverdue(p, c)
      PROVE  TypeOK'
  BY <1>4, TypedHandleResponse, TypedEraseOverdue
<1>5. ASSUME NEW p \in Pids, Crash(p) PROVE TypeOK'
  BY <1>5, TypedCrash
<1>6. CASE UNCHANGED vars
  BY <1>6 DEF vars, TypeOK
<1>7. QED
  BY <1>1, <1>2, <1>3, <1>4, <1>5, <1>6 DEF Next, TreeNext

\* Type correctness: every path carries the messages its receiver handles,
\* for trees, histories and numbers of crashes of any size.
THEOREM TypeCorrect == Spec => []TypeOK
<1>1. Init => TypeOK
  BY TypedInit
<1>2. TypeOK /\ [Next]_vars => TypeOK'
  BY TypedNext
<1>3. QED
  BY <1>1, <1>2, PTL DEF Spec

-----------------------------------------------------------------------------
(***************************************************************************)
(* The shape of the tree.                                                  *)
(***************************************************************************)

\* A step that forks nothing, erases nothing and keeps the phase of every
\* process that was not forked keeps the shape.
LEMMA ShapeKept ==
  ASSUME TreeShape, UNCHANGED <<forked, parent, children>>,
         \A q \in Pids : phase'[q] = "none" <=> phase[q] = "none"
  PROVE  TreeShape'
BY DEF TreeShape, ForkedArePhased, ParentsAreOlder, ListsAreOfChildren,
       ListsAreOnce, Forked

\* Only a process that was forked can die.
LEMMA DeathKeepsPhases ==
  ASSUME TypeOK, NEW p \in Processes, NEW path, Dies(p, path),
         phase[p] # "none"
  PROVE  \A q \in Pids : phase'[q] = "none" <=> phase[q] = "none"
BY DEF Dies, TypeOK, Processes

\* The process of a handler is the root or was forked.
LEMMA ActiveIsForked ==
  ASSUME TypeOK, TreeShape, NEW p \in Processes, phase[p] # "none"
  PROVE  p = Root \/ p \in Forked
BY DEF TreeShape, ForkedArePhased, Processes

LEMMA ShapeInit == Init => TreeShape
<1> SUFFICES ASSUME Init PROVE TreeShape
  OBVIOUS
<1>1. Forked = {}
  BY DEF Init, Forked
<1>2. \A p \in Processes : DOMAIN children[p] = {}
  BY DEF Init
<1>3. \A c \in Pids : phase[c] = "none"
  BY DEF Init, Pids, Processes, Root
<1>4. QED
  BY <1>1, <1>2, <1>3
     DEF TreeShape, ForkedArePhased, ParentsAreOlder, ListsAreOfChildren,
         ListsAreOnce

\* A fork adds one process, younger than all, to one list.
LEMMA ShapeFork ==
  ASSUME TypeOK, TreeShape, NEW p \in Processes, CreateHere(p)
  PROVE  TreeShape'
<1> DEFINE c == forked + 1
<1>1. /\ c \in Pids /\ c \in Processes /\ c \notin Forked
      /\ Forked' = Forked \cup {c}
  BY ConstantsAssumption DEF CreateHere, TypeOK, Pids, Processes, Forked
<1>2. /\ phase' = [phase EXCEPT ![c] = "running"]
      /\ parent' = [parent EXCEPT ![c] = p]
      /\ children' = [children EXCEPT ![p] = Append(children[p], c)]
  BY DEF CreateHere, emplaceBack
<1>3. p = Root \/ p \in Forked
  BY ActiveIsForked DEF CreateHere, ReceivesCreateHere, Receives
<1>4. p < c
  BY <1>1, <1>3 DEF Forked, Root, TypeOK
<1> DEFINE kids == children[p]
<1>5. /\ kids \in Seq(Pids) /\ Len(kids) \in Nat
      /\ DOMAIN kids = 1..Len(kids)
      /\ DOMAIN children'[p] = 1..(Len(kids) + 1)
      /\ \A i \in 1..Len(kids) : children'[p][i] = kids[i]
      /\ children'[p][Len(kids) + 1] = c
  <2>1. kids \in Seq(Pids) /\ children \in [Processes -> Seq(Pids)]
    BY DEF TypeOK
  <2>2. children'[p] = Append(kids, c)
    BY <1>2, <2>1, Zenon
  <2> HIDE DEF kids, c
  <2>3. Len(kids) \in Nat /\ DOMAIN kids = 1..Len(kids)
    BY <2>1, LenProperties, Zenon
  <2>4. /\ Append(kids, c) \in Seq(Pids) /\ Len(Append(kids, c)) = Len(kids) + 1
        /\ \A i \in 1..Len(kids) : Append(kids, c)[i] = kids[i]
        /\ Append(kids, c)[Len(kids) + 1] = c
    BY <1>1, <2>1, AppendProperties
  <2>5. DOMAIN Append(kids, c) = 1..Len(Append(kids, c))
    BY <2>4, LenProperties, Zenon
  <2>6. QED
    BY <2>1, <2>2, <2>3, <2>4, <2>5, Zenon
<1>6. \A q \in Processes : q # p => children'[q] = children[q]
  <2>1. children \in [Processes -> Seq(Pids)]
    BY DEF TypeOK
  <2>2. QED
    BY <1>2, <2>1, Zenon
<1>7. ForkedArePhased'
  BY <1>1, <1>2 DEF TreeShape, ForkedArePhased, TypeOK
<1>8. \A d \in Forked : parent'[d] = parent[d]
  BY <1>1, <1>2 DEF TypeOK, Processes
<1>9. parent'[c] = p
  BY <1>1, <1>2 DEF TypeOK
<1>10. ParentsAreOlder'
  BY <1>1, <1>4, <1>8, <1>9 DEF TreeShape, ParentsAreOlder
<1> HIDE DEF c, kids
<1>11. ListsAreOfChildren'
  <2> SUFFICES ASSUME NEW q \in Processes, NEW i \in DOMAIN children'[q]
               PROVE  /\ children'[q][i] \in Forked'
                      /\ parent'[children'[q][i]] = q
    BY DEF ListsAreOfChildren
  <2>1. CASE q # p
    BY <1>1, <1>6, <1>8, <2>1 DEF TreeShape, ListsAreOfChildren
  <2>2. CASE q = p /\ i \in 1..Len(kids)
    BY <1>1, <1>5, <1>8, <2>2 DEF TreeShape, ListsAreOfChildren, kids
  <2>3. CASE q = p /\ i = Len(kids) + 1
    BY <1>1, <1>5, <1>9, <2>3
  <2>4. QED
    BY <1>5, <2>1, <2>2, <2>3
<1>12. ListsAreOnce'
  <2> SUFFICES ASSUME NEW q \in Processes,
                      NEW i \in DOMAIN children'[q],
                      NEW j \in DOMAIN children'[q],
                      children'[q][i] = children'[q][j]
               PROVE  i = j
    BY DEF ListsAreOnce
  <2>1. CASE q # p
    BY <1>6, <2>1 DEF TreeShape, ListsAreOnce
  <2>2. CASE q = p
    <3>1. \A k \in 1..Len(kids) : kids[k] # c
      BY <1>1, <1>5 DEF TreeShape, ListsAreOfChildren, kids
    <3>2. \A k, l \in 1..Len(kids) : kids[k] = kids[l] => k = l
      BY <1>5 DEF TreeShape, ListsAreOnce, kids
    <3>3. QED
      BY <1>5, <2>2, <3>1, <3>2
  <2>3. QED
    BY <2>1, <2>2
<1>13. QED
  BY <1>7, <1>10, <1>11, <1>12 DEF TreeShape

\* An erasure shortens one list.
LEMMA ShapeErase ==
  ASSUME TypeOK, TreeShape, NEW p \in Processes, NEW c \in Pids,
         EraseOverdue(p, c)
  PROVE  TreeShape'
<1> DEFINE kids == children[p]
<1>1. PICK i \in DOMAIN kids :
        children' = [children EXCEPT ![p] = RemoveAt(kids, i)]
  BY DEF EraseOverdue, eraseChild
<1>2. kids \in Seq(Pids) /\ Len(kids) \in Nat /\ DOMAIN kids = 1..Len(kids)
  BY LenProperties DEF TypeOK
<1>3. /\ DOMAIN children'[p] = 1..(Len(kids) - 1)
      /\ \A j \in 1..(Len(kids) - 1) :
            children'[p][j] = IF j < i THEN kids[j] ELSE kids[j + 1]
  <2> HIDE DEF kids
  <2>1. children'[p] = RemoveAt(kids, i)
    BY <1>1 DEF TypeOK
  <2>2. /\ DOMAIN RemoveAt(kids, i) = 1..(Len(kids) - 1)
        /\ \A j \in 1..(Len(kids) - 1) :
              RemoveAt(kids, i)[j] = IF j < i THEN kids[j] ELSE kids[j + 1]
    <3>1. i \in 1..Len(kids) /\ kids \in Seq(Pids)
      BY <1>2
    <3>2. /\ RemoveAt(kids, i) \in Seq(Pids)
          /\ Len(RemoveAt(kids, i)) = Len(kids) - 1
          /\ \A j \in 1..(Len(kids) - 1) :
                RemoveAt(kids, i)[j] = IF j < i THEN kids[j] ELSE kids[j + 1]
      BY <3>1, RemoveAtProperties
    <3>3. DOMAIN RemoveAt(kids, i) = 1..Len(RemoveAt(kids, i))
      BY <3>2, LenProperties
    <3>4. QED
      BY <3>2, <3>3
  <2>3. QED
    BY <2>1, <2>2
<1>4. \A q \in Processes : q # p => children'[q] = children[q]
  BY <1>1 DEF TypeOK
<1>5. Forked' = Forked /\ parent' = parent
  BY DEF EraseOverdue, Forked
<1> HIDE DEF kids
<1>6. ListsAreOfChildren'
  <2> SUFFICES \A q \in Processes : \A j \in DOMAIN children'[q] :
                 /\ children'[q][j] \in Forked'
                 /\ parent'[children'[q][j]] = q
    BY <1>5 DEF ListsAreOfChildren
  <2> TAKE q \in Processes
  <2> TAKE j \in DOMAIN children'[q]
  <2>1. CASE q # p
    BY <1>4, <1>5, <2>1 DEF TreeShape, ListsAreOfChildren
  <2>2. CASE q = p
    <3>1. \A l \in 1..Len(kids) : kids[l] \in Forked /\ parent[kids[l]] = p
      BY <1>2 DEF TreeShape, ListsAreOfChildren, kids
    <3>2. PICK l \in 1..Len(kids) : children'[p][j] = kids[l]
      <4>1. j \in 1..(Len(kids) - 1)
        BY <1>3, <2>2
      <4>2. CASE j < i
        BY <1>2, <1>3, <4>1, <4>2
      <4>3. CASE ~(j < i)
        BY <1>2, <1>3, <4>1, <4>3
      <4>4. QED
        BY <4>2, <4>3
    <3>3. QED
      BY <1>5, <2>2, <3>1, <3>2
  <2>3. QED
    BY <2>1, <2>2
<1>7. ListsAreOnce'
  <2> SUFFICES ASSUME NEW q \in Processes,
                      NEW j \in DOMAIN children'[q],
                      NEW k \in DOMAIN children'[q],
                      children'[q][j] = children'[q][k]
               PROVE  j = k
    BY DEF ListsAreOnce
  <2>1. CASE q # p
    BY <1>4, <2>1 DEF TreeShape, ListsAreOnce
  <2>2. CASE q = p
    <3>1. \A l, m \in 1..Len(kids) : kids[l] = kids[m] => l = m
      BY <1>2 DEF TreeShape, ListsAreOnce, kids
    <3> DEFINE old(x) == IF x < i THEN x ELSE x + 1
    <3>2. /\ j \in 1..(Len(kids) - 1)
          /\ k \in 1..(Len(kids) - 1)
          /\ i \in 1..Len(kids)
      BY <1>2, <1>3, <2>2
    <3>3. /\ old(j) \in 1..Len(kids) /\ children'[p][j] = kids[old(j)]
          /\ old(k) \in 1..Len(kids) /\ children'[p][k] = kids[old(k)]
      <4>1. ASSUME NEW x \in 1..(Len(kids) - 1)
            PROVE  old(x) \in 1..Len(kids) /\ children'[p][x] = kids[old(x)]
        <5>1. children'[p][x] = IF x < i THEN kids[x] ELSE kids[x + 1]
          BY <1>3
        <5>2. old(x) \in 1..Len(kids)
          BY <1>2, <3>2
        <5>3. QED
          BY <5>1, <5>2
      <4>2. QED
        BY <3>2, <4>1
    <3>4. old(j) = old(k)
      BY <2>2, <3>1, <3>3
    <3>5. i \in Int /\ j \in Int /\ k \in Int
      BY <3>2
    <3>6. CASE j < i
      BY <3>4, <3>5, <3>6
    <3>7. CASE ~(j < i)
      BY <3>4, <3>5, <3>7
    <3>8. QED
      BY <3>6, <3>7
  <2>3. QED
    BY <2>1, <2>2
<1>8. \A q \in Pids : phase'[q] = "none" <=> phase[q] = "none"
  BY DEF EraseOverdue, Lingers, TypeOK, Processes
<1>9. QED
  BY <1>5, <1>6, <1>7, <1>8 DEF TreeShape, ForkedArePhased, ParentsAreOlder

LEMMA ShapeNext == TypeOK /\ TreeShape /\ [Next]_vars => TreeShape'
<1> SUFFICES ASSUME TypeOK, TreeShape, [Next]_vars PROVE TreeShape'
  OBVIOUS
<1>1. ASSUME NEW cmd \in Commands, Submit(cmd) PROVE TreeShape'
  BY <1>1, ShapeKept DEF Submit
<1>2. ASSUME NEW p \in Processes, HandleCommand(p) PROVE TreeShape'
  <2>1. CASE CreateForkFails(p)
    <3>1. Dies(p, up) /\ phase[p] # "none"
      BY <2>1 DEF CreateForkFails, ReceivesCreateHere, Receives
    <3>2. QED
      BY <2>1, <3>1, DeathKeepsPhases, ShapeKept DEF CreateForkFails
  <2>2. CASE CreateHere(p)
    BY <2>2, ShapeFork
  <2>3. CASE \/ CreateNodeExists(p) \/ CreateElsewhere(p) \/ ExecuteHere(p)
             \/ ExecElsewhere(p) \/ IgnoreCommand(p)
    BY <2>3, ShapeKept
       DEF CreateNodeExists, CreateElsewhere, ExecuteHere, ExecElsewhere,
           IgnoreCommand, RedirectCommand
  <2>4. QED
    BY <1>2, <2>1, <2>2, <2>3 DEF HandleCommand
<1>3. ASSUME NEW p \in Processes, HandleKillSignal(p) PROVE TreeShape'
  <2>1. \A q \in Pids : phase'[q] = "none" <=> phase[q] = "none"
    BY <1>3 DEF HandleKillSignal, Receives, TypeOK, Processes
  <2>2. QED
    BY <1>3, <2>1, ShapeKept DEF HandleKillSignal
<1>4. ASSUME NEW p \in Processes, Exit(p) PROVE TreeShape'
  <2>1. phase[p] # "none"
    BY <1>4, ExitEnds
  <2>2. CASE Dies(p, up)
    BY <1>4, <2>1, <2>2, DeathKeepsPhases, ShapeKept DEF Exit
  <2>3. CASE phase' = [phase EXCEPT ![p] = "stuck"]
    <3>1. \A q \in Pids : phase'[q] = "none" <=> phase[q] = "none"
      BY <2>1, <2>3 DEF TypeOK, Processes
    <3>2. QED
      BY <1>4, <3>1, ShapeKept DEF Exit
  <2>4. QED
    BY <1>4, <2>2, <2>3, ExitEnds
<1>5. ASSUME NEW p \in Processes, NEW c \in Pids, HandleResponse(p, c)
      PROVE  TreeShape'
  <2>1. CASE RunOffTheEnd(p, c)
    <3>1. phase[p] # "none"
      BY <2>1 DEF RunOffTheEnd, Answers
    <3>2. \A q \in Pids : phase'[q] = "none" <=> phase[q] = "none"
      BY <2>1, <3>1, DeathKeepsPhases DEF RunOffTheEnd
    <3>3. QED
      BY <2>1, <3>2, ShapeKept DEF RunOffTheEnd
  <2>2. CASE \/ AccountBadResp(p, c) \/ AccountGoodResp(p, c)
             \/ CloseRecordAndRedirectResp(p, c) \/ RedirectResponse(p, c)
    BY <2>2, ShapeKept
       DEF AccountBadResp, AccountGoodResp, CloseRecordAndRedirectResp,
           RedirectResponse
  <2>3. QED
    BY <1>5, <2>1, <2>2 DEF HandleResponse
<1>6. ASSUME NEW p \in Processes, NEW c \in Pids, EraseOverdue(p, c)
      PROVE  TreeShape'
  BY <1>6, ShapeErase
<1>7. ASSUME NEW p \in Pids, Crash(p) PROVE TreeShape'
  <2>1. Dies(p, up) /\ phase[p] # "none" /\ p \in Processes
    BY <1>7 DEF Crash, Processes
  <2>2. QED
    BY <1>7, <2>1, DeathKeepsPhases, ShapeKept DEF Crash
<1>8. CASE UNCHANGED vars
  BY <1>8, ShapeKept DEF vars
<1>9. QED
  BY <1>1, <1>2, <1>3, <1>4, <1>5, <1>6, <1>7, <1>8 DEF Next, TreeNext

\* The processes form a tree that the lists of children agree with, whatever
\* was created, erased or lost.
THEOREM TreeShapeInvariant == Spec => []TreeShape
<1>1. Init => TreeShape
  BY ShapeInit
<1>2. TypeOK /\ TreeShape /\ [Next]_vars => TreeShape'
  BY ShapeNext
<1>3. QED
  BY <1>1, <1>2, TypeCorrect, PTL DEF Spec

-----------------------------------------------------------------------------
(***************************************************************************)
(* Only what its parent gave up is killed.  KillSignals travel on the same *)
(* paths as the commands and are pushed by destructors, by checkHeartbeat  *)
(* and by handleKillSignal; the invariant adds to OnlyErasedAreKilled that *)
(* nothing waits on the path to a process before it is forked.             *)
(***************************************************************************)

UnforkedAreSilent == \A c \in Pids : c \notin Forked => down[c] = <<>>

KillInv == UnforkedAreSilent /\ OnlyErasedAreKilled

\* c is being killed; c was given up by its parent.
IsKilled(c) == KillSignal \in Range(down[c]) \/ phase[c] = "stopping"

IsGivenUp(c) == c \notin Children(parent[c]) \/ phase[parent[c]] # "running"

LEMMA ForkedAreProcesses ==
  ASSUME TypeOK
  PROVE  Forked \subseteq Pids /\ Forked \subseteq Processes
<1>1. forked \in 0..MaxPid /\ MaxPid \in Nat
  BY ConstantsAssumption DEF TypeOK
<1>2. QED
  BY <1>1 DEF Forked, Processes, Pids

LEMMA KillInit == Init => KillInv
<1> SUFFICES ASSUME Init PROVE KillInv
  OBVIOUS
<1>1. Forked = {} /\ \A c \in Pids : down[c] = <<>>
  BY DEF Init, Forked, Processes
<1>2. QED
  BY <1>1 DEF KillInv, UnforkedAreSilent, OnlyErasedAreKilled

\* A step that forks nothing and brings nothing back to life keeps the
\* invariant when it kills only what its parent gives up.
LEMMA KillKept ==
  ASSUME TypeOK, TreeShape, KillInv, forked' = forked, parent' = parent,
         \A p \in Processes :
           /\ Children(p)' \subseteq Children(p)
           /\ phase'[p] = "running" => phase[p] = "running",
         \A c \in Pids : c \notin Forked => down'[c] = down[c],
         \A c \in Forked : IsKilled(c)' => IsKilled(c) \/ IsGivenUp(c)'
  PROVE  KillInv'
<1>1. UnforkedAreSilent'
  BY DEF KillInv, UnforkedAreSilent, Forked
<1>2. ASSUME NEW c \in Forked, IsKilled(c)' PROVE IsGivenUp(c)'
  <2>1. parent[c] \in Processes
    BY ForkedAreProcesses DEF TypeOK
  <2>2. CASE IsKilled(c)
    <3>1. IsGivenUp(c)
      BY <2>2 DEF KillInv, OnlyErasedAreKilled, IsKilled, IsGivenUp
    <3>2. QED
      BY <2>1, <3>1 DEF IsGivenUp
  <2>3. QED
    BY <1>2, <2>2
<1>3. QED
  BY <1>1, <1>2 DEF KillInv, OnlyErasedAreKilled, IsKilled, IsGivenUp, Forked

\* The members of a list of children are forked, with that parent.
LEMMA ChildrenAreForked ==
  ASSUME TypeOK, TreeShape, NEW p \in Processes, NEW c \in Children(p)
  PROVE  c \in Forked /\ c \in Pids /\ c \in Processes /\ parent[c] = p
<1>1. PICK i \in DOMAIN children[p] : c = children[p][i]
  BY DEF Children, Range
<1>2. children[p] \in Seq(Pids)
  BY DEF TypeOK
<1>3. c \in Pids
  BY <1>1, <1>2, ElementOfSeq, LenProperties
<1>4. QED
  BY <1>1, <1>3 DEF TreeShape, ListsAreOfChildren, Processes

\* What a step that takes a message downwards, or copies a command to the
\* children, kills: nothing new.
LEMMA ForwardingKillsNone ==
  ASSUME TypeOK, TreeShape, NEW p \in Processes, down[p] # <<>>,
         phase[p] = "running"
  PROVE  /\ \A c \in Processes :
              Range(Consumed(down, p)[c]) \subseteq Range(down[c])
         /\ \A c \in Pids : c \notin Forked => Consumed(down, p)[c] = down[c]
         /\ \A c \in Pids, m \in DownMsg : c \notin Forked =>
              redirectToNodes(Consumed(down, p), p, m)[c] = down[c]
         /\ \A c \in Processes, m \in DownMsg :
              Range(redirectToNodes(Consumed(down, p), p, m)[c])
                \subseteq Range(down[c])
                           \cup (IF c \in Children(p) THEN {m} ELSE {})
<1>1. Consumed(down, p) \in Paths(DownMsg)
  BY TypedPaths, ConsumedIsPath
<1>2. \A c \in Processes :
        Range(Consumed(down, p)[c]) \subseteq Range(down[c])
  BY TypedPaths, ConsumedCarries
<1>3. p = Root \/ p \in Forked
  BY ActiveIsForked
<1>4. ASSUME NEW c \in Pids, c \notin Forked
      PROVE  c \in Processes /\ c # p /\ Consumed(down, p)[c] = down[c]
  BY <1>3, <1>4 DEF Consumed, TypeOK, Processes, Pids, Root
<1>5. ASSUME NEW c \in Pids, c \notin Forked, NEW m \in DownMsg
      PROVE  redirectToNodes(Consumed(down, p), p, m)[c] = down[c]
  BY <1>4, <1>5, ChildrenAreForked DEF redirectToNodes
<1>6. ASSUME NEW c \in Processes, NEW m \in DownMsg
      PROVE  Range(redirectToNodes(Consumed(down, p), p, m)[c])
               \subseteq Range(down[c])
                          \cup (IF c \in Children(p) THEN {m} ELSE {})
  BY <1>1, <1>2, RedirectedCarries
<1>7. QED
  BY <1>2, <1>4, <1>5, <1>6

LEMMA KillHandleCommand ==
  ASSUME TypeOK, TreeShape, KillInv, NEW p \in Processes,
         \/ CreateNodeExists(p) \/ CreateElsewhere(p) \/ ExecuteHere(p)
         \/ ExecElsewhere(p) \/ IgnoreCommand(p)
  PROVE  KillInv'
<1> DEFINE m == Head(down[p])
<1>1. /\ down[p] # <<>> /\ phase[p] = "running"
      /\ m.type \in {"CommandCreate", "CommandExec", "CommandPrintTree"}
      /\ UNCHANGED <<forked, parent, children, phase>>
      /\ down' \in {Consumed(down, p), redirectToNodes(Consumed(down, p), p, m)}
  BY DEF CreateNodeExists, CreateElsewhere, ExecuteHere, ExecElsewhere,
         IgnoreCommand, RedirectCommand, Receives
<1>2. m \in DownMsg /\ m # KillSignal
  BY <1>1, TypedPaths, ConsumedIsPath DEF KillSignal
<1> HIDE DEF m
<1>3. ASSUME NEW c \in Forked, KillSignal \in Range(down'[c])
      PROVE  KillSignal \in Range(down[c])
  <2>1. c \in Processes
    BY ForkedAreProcesses
  <2>2. Range(down'[c]) \subseteq Range(down[c]) \cup {m}
    BY <1>1, <1>2, <2>1, ForwardingKillsNone
  <2>3. QED
    BY <1>2, <1>3, <2>2
<1>4. \A c \in Pids : c \notin Forked => down'[c] = down[c]
  BY <1>1, <1>2, ForwardingKillsNone
<1>5. \A q \in Processes : Children(q)' = Children(q)
  BY <1>1 DEF Children
<1>6. QED
  BY <1>1, <1>3, <1>4, <1>5, KillKept DEF IsKilled

\* A new process has nothing on its path, and its parent keeps the others.
LEMMA KillFork ==
  ASSUME TypeOK, TreeShape, KillInv, NEW p \in Processes, CreateHere(p)
  PROVE  KillInv'
<1>0. PICK n : n = forked + 1
  OBVIOUS
<1>1. /\ n \in Pids /\ n \in Processes /\ n \notin Forked /\ n # Root
      /\ forked' = n /\ Forked' = Forked \cup {n}
  <2>1. forked \in Nat /\ forked < MaxPid /\ MaxPid \in Nat /\ forked' = n
    BY <1>0, ConstantsAssumption DEF CreateHere, TypeOK
  <2>2. QED
    BY <1>0, <2>1 DEF Pids, Processes, Forked, Root
<1>2. /\ phase' = [phase EXCEPT ![n] = "running"]
      /\ parent' = [parent EXCEPT ![n] = p]
      /\ children' = [children EXCEPT ![p] = Append(children[p], n)]
      /\ down' = Consumed(down, p)
      /\ down[p] # <<>> /\ phase[p] = "running"
  BY <1>0 DEF CreateHere, ReceivesCreateHere, Receives, emplaceBack
<1>3. /\ \A c \in Processes : Range(down'[c]) \subseteq Range(down[c])
      /\ \A c \in Pids : c \notin Forked => down'[c] = down[c]
  BY <1>2, ForwardingKillsNone
<1>4. UnforkedAreSilent'
  BY <1>1, <1>3 DEF KillInv, UnforkedAreSilent
<1>5. \A q \in Processes : Children(q)' \subseteq Children(q) \cup {n}
  <2>1. Range(Append(children[p], n)) \subseteq Range(children[p]) \cup {n}
    BY <1>1, AppendCarries DEF TypeOK
  <2>2. QED
    BY <1>2, <2>1 DEF Children, TypeOK
<1>6. ~IsKilled(n)'
  <2>1. down'[n] = <<>>
    BY <1>1, <1>3 DEF KillInv, UnforkedAreSilent
  <2>2. phase'[n] = "running"
    BY <1>1, <1>2 DEF TypeOK
  <2>3. Range(<<>>) = {}
    BY DEF Range
  <2>4. QED
    BY <2>1, <2>2, <2>3 DEF IsKilled
<1>7. ASSUME NEW c \in Forked, IsKilled(c)' PROVE IsGivenUp(c)'
  <2>1. c \in Processes /\ c # n
    BY <1>1, ForkedAreProcesses
  <2>2. IsKilled(c)
    BY <1>2, <1>3, <1>7, <2>1 DEF IsKilled, TypeOK
  <2>3. IsGivenUp(c)
    BY <2>2 DEF KillInv, OnlyErasedAreKilled, IsKilled, IsGivenUp
  <2>4. parent'[c] = parent[c] /\ parent[c] \in Processes
    BY <1>2, <2>1 DEF TypeOK
  <2>5. parent[c] # n
    <3>1. parent[c] < c /\ parent[c] \in Nat /\ c \in Nat
      BY <2>1, <2>4 DEF TreeShape, ParentsAreOlder, Processes, Pids, Root
    <3>2. c < n
      BY <1>0 DEF TypeOK, Forked
    <3>3. QED
      BY <1>1, <3>1, <3>2 DEF Pids
  <2>6. phase'[parent[c]] = phase[parent[c]]
    BY <1>2, <2>4, <2>5 DEF TypeOK
  <2>7. QED
    BY <1>5, <2>1, <2>3, <2>4, <2>6 DEF IsGivenUp
<1>8. \A c \in Forked' : IsKilled(c)' => IsGivenUp(c)'
  BY <1>1, <1>6, <1>7
<1>9. OnlyErasedAreKilled'
  BY <1>8 DEF OnlyErasedAreKilled, IsKilled, IsGivenUp
<1>10. QED
  BY <1>4, <1>9 DEF KillInv

\* A node that got a KillSignal leaves its loop, and passes the signal on.
LEMMA KillHandleKillSignal ==
  ASSUME TypeOK, TreeShape, KillInv, NEW p \in Processes, HandleKillSignal(p)
  PROVE  KillInv'
<1>1. /\ down[p] # <<>> /\ phase[p] = "running"
      /\ Head(down[p]).type = "KillSignal"
      /\ UNCHANGED <<forked, parent, children>>
      /\ phase' = [phase EXCEPT ![p] = "stopping"]
      /\ down' = redirectToNodes(Consumed(down, p), p, KillSignal)
  BY DEF HandleKillSignal, Receives
<1>2. KillSignal \in DownMsg
  BY DEF DownMsg
<1>3. KillSignal \in Range(down[p])
  <2>1. Head(down[p]) \in DownMsg /\ Head(down[p]) \in Range(down[p])
    BY <1>1, TypedPaths, ConsumedIsPath, ConsumedCarries
  <2>2. Head(down[p]) = KillSignal
    BY <1>1, <2>1 DEF DownMsg, CommandMsg, KillSignal, CommandPrintTree
  <2>3. QED
    BY <2>1, <2>2
<1>4. \A q \in Processes :
        /\ Children(q)' = Children(q)
        /\ phase'[q] = "running" => phase[q] = "running"
  BY <1>1 DEF Children, TypeOK
<1>5. \A c \in Pids : c \notin Forked => down'[c] = down[c]
  BY <1>1, <1>2, ForwardingKillsNone
<1>6. ASSUME NEW c \in Forked, IsKilled(c)'
      PROVE  IsKilled(c) \/ IsGivenUp(c)'
  <2>1. c \in Processes
    BY ForkedAreProcesses
  <2>2. CASE c \in Children(p)
    <3>1. parent'[c] = p
      BY <1>1, <2>2, ChildrenAreForked
    <3>2. QED
      BY <1>1, <3>1 DEF IsGivenUp, TypeOK
  <2>3. CASE c \notin Children(p)
    <3>1. Range(down'[c]) \subseteq Range(down[c])
      BY <1>1, <1>2, <2>1, <2>3, ForwardingKillsNone
    <3>2. phase'[c] = "stopping" => phase[c] = "stopping" \/ c = p
      BY <1>1, <2>1 DEF TypeOK
    <3>3. QED
      BY <1>3, <1>6, <3>1, <3>2 DEF IsKilled
  <2>4. QED
    BY <2>2, <2>3
<1>7. QED
  BY <1>1, <1>4, <1>5, <1>6, KillKept

\* A node that ends kills what it leaves behind.
LEMMA KillExit ==
  ASSUME TypeOK, TreeShape, KillInv, NEW p \in Processes, Exit(p)
  PROVE  KillInv'
<1>1. /\ phase[p] = "stopping"
      /\ UNCHANGED <<forked, parent, children>>
      /\ \E end \in {"gone", "stuck"} : phase' = [phase EXCEPT ![p] = end]
      /\ \A c \in Processes : c \notin Children(p) => down'[c] = down[c]
  BY ExitEnds DEF Exit, Dies
<1>2. \A q \in Processes :
        /\ Children(q)' = Children(q)
        /\ phase'[q] = "running" => phase[q] = "running"
  BY <1>1 DEF Children, TypeOK
<1>3. \A c \in Pids : c \notin Forked => down'[c] = down[c]
  BY <1>1, ChildrenAreForked DEF Processes
<1>4. ASSUME NEW c \in Forked, IsKilled(c)'
      PROVE  IsKilled(c) \/ IsGivenUp(c)'
  <2>1. c \in Processes
    BY ForkedAreProcesses
  <2>2. CASE c \in Children(p)
    <3>1. parent'[c] = p
      BY <1>1, <2>2, ChildrenAreForked
    <3>2. QED
      BY <1>1, <3>1 DEF IsGivenUp, TypeOK
  <2>3. CASE c \notin Children(p)
    BY <1>1, <1>4, <2>1, <2>3 DEF IsKilled, TypeOK
  <2>4. QED
    BY <2>2, <2>3
<1>5. QED
  BY <1>1, <1>2, <1>3, <1>4, KillKept

\* What a parent erases is in its list no more, and all else stays.
LEMMA ChildErased ==
  ASSUME TypeOK, TreeShape, NEW p \in Processes, NEW e \in Pids,
         EraseOverdue(p, e)
  PROVE  /\ e \in Forked /\ parent[e] = p /\ e \in Children(p)
         /\ e \notin Children(p)'
         /\ \A q \in Processes : Children(q)' \subseteq Children(q)
<1> DEFINE kids == children[p]
<1>1. PICK i \in DOMAIN kids :
        /\ kids[i] = e
        /\ children' = [children EXCEPT ![p] = RemoveAt(kids, i)]
  BY DEF EraseOverdue, eraseChild
<1>2. kids \in Seq(Pids) /\ Len(kids) \in Nat /\ DOMAIN kids = 1..Len(kids)
  BY LenProperties DEF TypeOK
<1>3. /\ DOMAIN RemoveAt(kids, i) = 1..(Len(kids) - 1)
      /\ \A j \in 1..(Len(kids) - 1) :
           RemoveAt(kids, i)[j] = IF j < i THEN kids[j] ELSE kids[j + 1]
  <2>1. RemoveAt(kids, i) \in Seq(Pids)
        /\ Len(RemoveAt(kids, i)) = Len(kids) - 1
        /\ \A j \in 1..(Len(kids) - 1) :
             RemoveAt(kids, i)[j] = IF j < i THEN kids[j] ELSE kids[j + 1]
    BY <1>2, RemoveAtProperties
  <2>2. QED
    BY <2>1, LenProperties
<1>4. \A j \in DOMAIN kids : kids[j] = e => j = i
  BY <1>1 DEF TreeShape, ListsAreOnce
<1>5. e \in Forked /\ parent[e] = p /\ e \in Children(p)
  BY <1>1 DEF TreeShape, ListsAreOfChildren, Children, Range
<1> HIDE DEF kids
<1>6. ASSUME NEW x \in Range(RemoveAt(kids, i))
      PROVE  x \in Range(kids) /\ x # e
  <2>1. PICK j \in 1..(Len(kids) - 1) : x = RemoveAt(kids, i)[j]
    BY <1>3 DEF Range
  <2>2. CASE j < i
    <3>1. x = kids[j] /\ j \in DOMAIN kids /\ j # i
      BY <1>2, <1>3, <2>1, <2>2
    <3>2. QED
      BY <1>4, <3>1 DEF Range
  <2>3. CASE ~(j < i)
    <3>1. x = kids[j + 1] /\ j + 1 \in DOMAIN kids /\ j + 1 # i
      BY <1>2, <1>3, <2>1, <2>3
    <3>2. QED
      BY <1>4, <3>1 DEF Range
  <2>4. QED
    BY <2>2, <2>3
<1>7. QED
  BY <1>1, <1>5, <1>6 DEF Children, TypeOK, kids

\* So an erasure kills only what was given up.
LEMMA KillErase ==
  ASSUME TypeOK, TreeShape, KillInv, NEW p \in Processes, NEW e \in Pids,
         EraseOverdue(p, e)
  PROVE  KillInv'
<1>1. /\ UNCHANGED <<forked, parent>>
      /\ UNCHANGED phase \/ phase' = [phase EXCEPT ![p] = "stuck"]
      /\ \A c \in Processes : c # e => down'[c] = down[c]
  BY DEF EraseOverdue, Lingers, TypeOK
<1>2. /\ e \in Forked /\ parent[e] = p /\ e \notin Children(p)'
      /\ \A q \in Processes : Children(q)' \subseteq Children(q)
  BY ChildErased
<1>3. ASSUME NEW c \in Forked, IsKilled(c)'
      PROVE  IsKilled(c) \/ IsGivenUp(c)'
  <2>1. c \in Processes
    BY ForkedAreProcesses
  <2>2. CASE c = e
    BY <1>1, <1>2, <2>2 DEF IsGivenUp
  <2>3. CASE c # e
    <3>1. phase'[c] = "stopping" => phase[c] = "stopping"
      BY <1>1, <2>1 DEF TypeOK
    <3>2. QED
      BY <1>1, <1>3, <2>1, <2>3, <3>1 DEF IsKilled
  <2>4. QED
    BY <2>2, <2>3
<1>4. \A c \in Pids : c \notin Forked => down'[c] = down[c]
  BY <1>1, <1>2 DEF Processes
<1>5. \A q \in Processes : phase'[q] = "running" => phase[q] = "running"
  BY <1>1 DEF TypeOK
<1>6. QED
  BY <1>1, <1>2, <1>3, <1>4, <1>5, KillKept

\* Deaths and responses kill nobody.
LEMMA KillOthers ==
  ASSUME TypeOK, TreeShape, KillInv, NEW p \in Processes,
         UNCHANGED <<forked, parent, children, down>>,
         UNCHANGED phase \/ phase' = [phase EXCEPT ![p] = "gone"]
  PROVE  KillInv'
<1>1. \A q \in Processes :
        /\ Children(q)' = Children(q)
        /\ phase'[q] = "running" => phase[q] = "running"
        /\ phase'[q] = "stopping" => phase[q] = "stopping"
  BY DEF Children, TypeOK
<1>2. Forked \subseteq Processes
  BY ForkedAreProcesses
<1>3. \A c \in Forked : IsKilled(c)' => IsKilled(c)
  BY <1>1, <1>2 DEF IsKilled
<1>4. QED
  BY <1>1, <1>3, KillKept

\* A fork that fails ends the process that takes the command.
LEMMA KillForkFails ==
  ASSUME TypeOK, TreeShape, KillInv, NEW p \in Processes, CreateForkFails(p)
  PROVE  KillInv'
<1>1. /\ down[p] # <<>> /\ phase[p] = "running"
      /\ UNCHANGED <<forked, parent, children>>
      /\ phase' = [phase EXCEPT ![p] = "gone"]
      /\ down' = Consumed(down, p)
  BY DEF CreateForkFails, ReceivesCreateHere, Receives, Dies
<1>2. /\ \A c \in Processes : Range(down'[c]) \subseteq Range(down[c])
      /\ \A c \in Pids : c \notin Forked => down'[c] = down[c]
  BY <1>1, ForwardingKillsNone
<1>3. \A q \in Processes :
        /\ Children(q)' = Children(q)
        /\ phase'[q] = "running" => phase[q] = "running"
        /\ phase'[q] = "stopping" => phase[q] = "stopping"
  BY <1>1 DEF Children, TypeOK
<1>4. Forked \subseteq Processes
  BY ForkedAreProcesses
<1>5. \A c \in Forked : IsKilled(c)' => IsKilled(c)
  BY <1>2, <1>3, <1>4 DEF IsKilled
<1>6. QED
  BY <1>1, <1>2, <1>3, <1>5, KillKept

\* A client's command goes to the root, which is no one's child.
LEMMA KillSubmit ==
  ASSUME TypeOK, TreeShape, KillInv, NEW cmd \in Commands, Submit(cmd)
  PROVE  KillInv'
<1>1. /\ UNCHANGED <<forked, parent, children, phase>>
      /\ \A c \in Pids : down'[c] = down[c]
  BY DEF Submit, TypeOK, Processes, Pids, Root
<1>2. Forked \subseteq Pids
  BY ForkedAreProcesses
<1>3. \A q \in Processes : Children(q)' = Children(q)
  BY <1>1 DEF Children
<1>4. \A c \in Forked : IsKilled(c)' => IsKilled(c)
  BY <1>1, <1>2 DEF IsKilled
<1>5. QED
  BY <1>1, <1>3, <1>4, KillKept

LEMMA KillNext == TypeOK /\ TreeShape /\ KillInv /\ [Next]_vars => KillInv'
<1> SUFFICES ASSUME TypeOK, TreeShape, KillInv, [Next]_vars PROVE KillInv'
  OBVIOUS
<1>1. ASSUME NEW p \in Processes, HandleCommand(p) PROVE KillInv'
  BY <1>1, KillHandleCommand, KillFork, KillForkFails DEF HandleCommand
<1>2. ASSUME NEW p \in Processes, HandleKillSignal(p) \/ Exit(p) PROVE KillInv'
  BY <1>2, KillHandleKillSignal, KillExit
<1>3. ASSUME NEW p \in Processes, NEW c \in Pids, HandleResponse(p, c)
      PROVE  KillInv'
  <2>1. /\ UNCHANGED <<forked, parent, children, down>>
        /\ UNCHANGED phase \/ phase' = [phase EXCEPT ![p] = "gone"]
    BY <1>3 DEF HandleResponse, AccountBadResp, AccountGoodResp, Dies,
                CloseRecordAndRedirectResp, RedirectResponse, RunOffTheEnd
  <2>2. QED
    BY <2>1, KillOthers
<1>4. ASSUME NEW p \in Processes, NEW c \in Pids, EraseOverdue(p, c)
      PROVE  KillInv'
  BY <1>4, KillErase
<1>5. ASSUME NEW p \in Pids, Crash(p) PROVE KillInv'
  <2>1. /\ UNCHANGED <<forked, parent, children, down>>
        /\ phase' = [phase EXCEPT ![p] = "gone"]
        /\ p \in Processes
    BY <1>5 DEF Crash, Dies, Processes
  <2>2. QED
    BY <2>1, KillOthers
<1>6. ASSUME NEW cmd \in Commands, Submit(cmd) PROVE KillInv'
  BY <1>6, KillSubmit
<1>7. CASE UNCHANGED vars
  <2>1. Root \in Processes /\ UNCHANGED <<forked, parent, children, down, phase>>
    BY <1>7 DEF vars, Processes
  <2>2. QED
    BY <2>1, KillOthers
<1>8. QED
  BY <1>1, <1>2, <1>3, <1>4, <1>5, <1>6, <1>7 DEF Next, TreeNext

\* Nothing is on its way to a process before its fork, and only what its parent
\* gave up is killed.
THEOREM KillInvariant == Spec => []KillInv
<1>1. Init => KillInv
  BY KillInit
<1>2. TypeOK /\ TreeShape /\ KillInv /\ [Next]_vars => KillInv'
  BY KillNext
<1>3. QED
  BY <1>1, <1>2, TypeCorrect, TreeShapeInvariant, PTL DEF Spec

\* Only what its parent gave up is killed, in every tree and with every
\* interleaving of erasures, deaths and commands.
THEOREM OnlyErasedTheorem == Spec => []OnlyErasedAreKilled
<1>1. KillInv => OnlyErasedAreKilled
  BY DEF KillInv
<1>2. QED
  BY <1>1, KillInvariant, PTL

-----------------------------------------------------------------------------
(***************************************************************************)
(* The answers of the tree are genuine: what an "Ok" tells the client is   *)
(* true, for every tree and every interleaving.  The invariant looks at    *)
(* all the messages under way, not only at those that reached the client.  *)
(***************************************************************************)

\* The messages on some path.
On(path) == UNION {Range(path[q]) : q \in Processes}

\* A command under way is one that was submitted, an exec with its own payload.
IsSubmitted(m) ==
  /\ m \in Range(submitted)
  /\ m.type = "CommandExec" => m.k \in DOMAIN submitted /\ submitted[m.k] = m

CommandsAreSubmitted == \A m \in On(down) : m = KillSignal \/ IsSubmitted(m)

\* An "Ok" under way says the truth.
IsGenuine(m) ==
  /\ m.type = "GoodExecResp" =>
       /\ m.sum \in DOMAIN submitted
       /\ submitted[m.sum] = CommandExec(m.id, m.sum)
       /\ \E p \in Forked : nodeId[p] = m.id
  /\ m.type = "GoodCreateResp" => m.pid \in Forked /\ nodeId[m.pid] = m.id

AnswersAreGenuine == \A m \in On(up) : IsGenuine(m)

GenuineInv ==
  CommandsAreSubmitted /\ TreeAsCommanded /\ AnswersAreGenuine

-----------------------------------------------------------------------------
(***************************************************************************)
(* Nothing is taken back: processes stay forked, with their identifier and *)
(* their parent, and commands submitted.                                   *)
(***************************************************************************)
HistoryKept ==
  /\ Forked \subseteq Forked'
  /\ \A p \in Forked \cup {Root} :
       nodeId'[p] = nodeId[p] /\ parent'[p] = parent[p]
  /\ Len(submitted) <= Len(submitted')
  /\ \A i \in DOMAIN submitted : submitted'[i] = submitted[i]

LEMMA HistoryLemma == TypeOK /\ [Next]_vars => HistoryKept
<1> SUFFICES ASSUME TypeOK, [Next]_vars PROVE HistoryKept
  OBVIOUS
<1>1. Len(submitted) \in Nat /\ DOMAIN submitted = 1..Len(submitted)
  BY LenProperties DEF TypeOK
<1>2. ASSUME NEW cmd \in Commands, Submit(cmd) PROVE HistoryKept
  <2>1. PICK c : submitted' = Append(submitted, c)
    BY <1>2 DEF Submit
  <2>2. /\ Len(submitted') = Len(submitted) + 1
        /\ \A i \in 1..Len(submitted) : submitted'[i] = submitted[i]
    <3>1. submitted \in Seq(CommandMsg \cup {c})
      BY SeqMonotonic DEF TypeOK
    <3>2. QED
      BY <1>1, <2>1, <3>1, AppendProperties
  <2>3. QED
    BY <1>1, <1>2, <2>2 DEF Submit, HistoryKept, Forked
<1>3. ASSUME NEW p \in Processes, CreateHere(p) PROVE HistoryKept
  <2>1. Forked' = Forked \cup {forked + 1} /\ forked + 1 \notin Forked \cup {Root}
    BY <1>3 DEF CreateHere, Forked, TypeOK, Root
  <2>2. QED
    BY <1>1, <1>3, <2>1 DEF CreateHere, HistoryKept, TypeOK, Processes
<1>4. CASE UNCHANGED <<forked, nodeId, parent, submitted>>
  BY <1>1, <1>4 DEF HistoryKept, Forked
<1>5. ASSUME NEW p \in Processes, HandleCommand(p) PROVE HistoryKept
  BY <1>3, <1>4, <1>5
     DEF HandleCommand, CreateNodeExists, CreateForkFails, CreateElsewhere,
         ExecuteHere, ExecElsewhere, IgnoreCommand, RedirectCommand
<1>6. ASSUME NEW p \in Processes, NEW c \in Pids,
             HandleResponse(p, c) \/ EraseOverdue(p, c)
      PROVE  HistoryKept
  BY <1>4, <1>6
     DEF HandleResponse, AccountBadResp, AccountGoodResp, RedirectResponse,
         CloseRecordAndRedirectResp, RunOffTheEnd, EraseOverdue
<1>7. ASSUME NEW p \in Processes,
             HandleKillSignal(p) \/ Exit(p) \/ Crash(p)
      PROVE  HistoryKept
  BY <1>4, <1>7 DEF HandleKillSignal, Exit, Crash
<1>8. CASE UNCHANGED vars
  BY <1>4, <1>8 DEF vars
<1>9. QED
  BY <1>2, <1>5, <1>6, <1>7, <1>8 DEF Next, TreeNext, Processes

\* What was genuine or submitted stays so.
LEMMA GenuineKept ==
  ASSUME TypeOK, HistoryKept, Len(submitted') \in Nat,
         submitted' \in Seq(CommandMsg)
  PROVE  /\ \A m : IsGenuine(m) => IsGenuine(m)'
         /\ \A m : IsSubmitted(m) => IsSubmitted(m)'
<1>1. /\ DOMAIN submitted \subseteq DOMAIN submitted'
      /\ \A i \in DOMAIN submitted : submitted'[i] = submitted[i]
  BY LenProperties DEF TypeOK, HistoryKept
<1>2. Range(submitted) \subseteq Range(submitted')
  BY <1>1 DEF Range
<1>3. QED
  BY <1>1, <1>2 DEF IsGenuine, IsSubmitted, HistoryKept

-----------------------------------------------------------------------------
(***************************************************************************)
(* What each action puts on the paths downwards: copies of what is there,  *)
(* and KillSignals.                                                        *)
(***************************************************************************)
LEMMA DownNext ==
  ASSUME TypeOK, TreeNext
  PROVE  On(down') \subseteq On(down) \cup {KillSignal}
<1>1. SUFFICES ASSUME NEW q \in Processes
               PROVE  Range(down'[q]) \subseteq On(down) \cup {KillSignal}
  BY DEF On
<1>2. Range(down[q]) \subseteq On(down)
  BY DEF On
<1>3. ASSUME NEW p \in Processes, down[p] # <<>>
      PROVE  /\ Range(Consumed(down, p)[q]) \subseteq On(down)
             /\ Consumed(down, p) \in Paths(DownMsg)
             /\ \A m \in {Head(down[p]), KillSignal} :
                  Range(redirectToNodes(Consumed(down, p), p, m)[q])
                    \subseteq On(down) \cup {KillSignal}
  <2>1. /\ Consumed(down, p) \in Paths(DownMsg)
        /\ Head(down[p]) \in DownMsg /\ KillSignal \in DownMsg
    BY <1>3, TypedPaths, ConsumedIsPath DEF DownMsg
  <2>2. /\ Range(Consumed(down, p)[q]) \subseteq On(down)
        /\ Head(down[p]) \in On(down)
    BY <1>3, TypedPaths, ConsumedCarries DEF On
  <2>3. \A m \in {Head(down[p]), KillSignal} :
          Range(redirectToNodes(Consumed(down, p), p, m)[q])
            \subseteq Range(Consumed(down, p)[q]) \cup {m}
    BY <2>1, RedirectedCarries
  <2>4. QED
    BY <2>1, <2>2, <2>3
<1>4. ASSUME NEW p \in Processes, HandleCommand(p) \/ HandleKillSignal(p)
      PROVE  Range(down'[q]) \subseteq On(down) \cup {KillSignal}
  BY <1>3, <1>4
     DEF HandleCommand, CreateNodeExists, CreateHere, CreateForkFails,
         ReceivesCreateHere, CreateElsewhere, ExecuteHere, ExecElsewhere,
         IgnoreCommand, RedirectCommand, HandleKillSignal, Receives
<1>5. ASSUME NEW p \in Processes, Exit(p)
      PROVE  Range(down'[q]) \subseteq On(down) \cup {KillSignal}
  <2> DEFINE queued(c) == down[c] \o <<KillSignal, KillSignal>>
  <2>1. PICK sent \in [Children(p)
                         -> UNION {0..Len(queued(c)) : c \in Children(p)}] :
          /\ \A c \in Children(p) : sent[c] <= Len(queued(c))
          /\ down' = [c \in Processes |->
                       IF c \in Children(p)
                       THEN SubSeq(queued(c), 1, sent[c])
                       ELSE down[c]]
    BY <1>5 DEF Exit
  <2>2. CASE q \in Children(p)
    <3>1. /\ down[q] \in Seq(DownMsg) /\ Len(down[q]) \in Nat
          /\ DOMAIN down[q] = 1..Len(down[q])
      BY LenProperties DEF TypeOK
    <3>2. <<KillSignal, KillSignal>> \in Seq(DownMsg)
      BY DEF DownMsg
    <3>3. /\ queued(q) \in Seq(DownMsg)
          /\ Len(queued(q)) = Len(down[q]) + 2
          /\ \A i \in 1..Len(queued(q)) :
               queued(q)[i] = IF i <= Len(down[q]) THEN down[q][i]
                              ELSE <<KillSignal, KillSignal>>[i - Len(down[q])]
      BY <3>1, <3>2, ConcatProperties
    <3>4. DOMAIN queued(q) = 1..Len(queued(q))
      BY <3>3, LenProperties
    <3> HIDE DEF queued
    <3>5. ASSUME NEW i \in DOMAIN queued(q)
          PROVE  queued(q)[i] \in Range(down[q]) \cup {KillSignal}
      <4>1. CASE i <= Len(down[q])
        <5>1. i \in DOMAIN down[q]
          BY <3>1, <3>4, <4>1
        <5>2. queued(q)[i] = down[q][i]
          BY <3>3, <3>4, <4>1
        <5>3. QED
          BY <5>1, <5>2 DEF Range
      <4>2. CASE ~(i <= Len(down[q]))
        <5>1. i - Len(down[q]) \in 1..2
          BY <3>1, <3>3, <3>4, <4>2
        <5>2. queued(q)[i] = <<KillSignal, KillSignal>>[i - Len(down[q])]
          BY <3>3, <3>4, <4>2
        <5>3. QED
          BY <5>1, <5>2
      <4>3. QED
        BY <4>1, <4>2
    <3>6. Range(queued(q)) \subseteq On(down) \cup {KillSignal}
      BY <1>2, <3>5 DEF Range
    <3>7. sent[q] \in 0..Len(queued(q))
      <4>1. sent[q] \in Nat
        <5>1. \A c \in Children(p) : 0..Len(queued(c)) \subseteq Nat
          OBVIOUS
        <5>2. QED
          BY <2>1, <2>2, <5>1
      <4>2. sent[q] <= Len(queued(q))
        BY <2>1, <2>2
      <4>3. Len(queued(q)) \in Nat
        BY <3>1, <3>3
      <4>4. QED
        BY <4>1, <4>2, <4>3
    <3>8. Range(down'[q]) \subseteq Range(queued(q))
      BY <2>1, <2>2, <3>3, <3>7, PrefixCarries
    <3>9. QED
      BY <3>6, <3>8
  <2>3. CASE q \notin Children(p)
    BY <1>2, <2>1, <2>3
  <2>4. QED
    BY <2>2, <2>3
<1>6. ASSUME NEW p \in Processes, NEW c \in Pids, EraseOverdue(p, c)
      PROVE  Range(down'[q]) \subseteq On(down) \cup {KillSignal}
  <2>1. PICK n \in 0..(Len(down[c]) + 1) :
          down' = [down EXCEPT ![c] = SubSeq(Append(down[c], KillSignal), 1, n)]
    BY <1>6 DEF EraseOverdue
  <2>2. /\ down[c] \in Seq(DownMsg) /\ KillSignal \in DownMsg
        /\ c \in Processes
    BY DEF TypeOK, DownMsg, Processes
  <2>3. /\ Append(down[c], KillSignal) \in Seq(DownMsg)
        /\ Len(Append(down[c], KillSignal)) = Len(down[c]) + 1
        /\ Range(Append(down[c], KillSignal))
             \subseteq Range(down[c]) \cup {KillSignal}
    BY <2>2, AppendProperties, AppendCarries
  <2>4. Range(SubSeq(Append(down[c], KillSignal), 1, n))
          \subseteq Range(down[c]) \cup {KillSignal}
    BY <2>3, PrefixCarries
  <2>5. QED
    BY <1>2, <2>1, <2>4 DEF TypeOK
<1>7. ASSUME NEW p \in Processes, NEW c \in Pids,
             HandleResponse(p, c) \/ Crash(p)
      PROVE  Range(down'[q]) \subseteq On(down) \cup {KillSignal}
  BY <1>2, <1>7
     DEF HandleResponse, AccountBadResp, AccountGoodResp, RedirectResponse,
         CloseRecordAndRedirectResp, RunOffTheEnd, Crash
<1>8. QED
  BY <1>4, <1>5, <1>6, <1>7 DEF TreeNext, Processes

-----------------------------------------------------------------------------
(***************************************************************************)
(* What each action puts on the paths upwards.                             *)
(***************************************************************************)

\* A message that is pushed upwards joins those under way.
LEMMA OnRedirected ==
  ASSUME NEW path \in Paths(ResponseMsg), NEW p \in Processes,
         NEW m \in ResponseMsg
  PROVE  On(redirectToAncestor(path, p, m)) \subseteq On(path) \cup {m}
<1>1. \A q \in Processes :
        Range(redirectToAncestor(path, p, m)[q]) \subseteq Range(path[q]) \cup {m}
  BY RedirectedCarries
<1>2. QED
  BY <1>1 DEF On

LEMMA OnDies ==
  ASSUME NEW p \in Processes, NEW path \in Paths(ResponseMsg), Dies(p, path)
  PROVE  On(up') \subseteq On(path)
BY DiesCarries DEF On

\* A response that is passed on was under way before.
LEMMA OnPassedOn ==
  ASSUME TypeOK, NEW p \in Processes, NEW c \in Pids, up[c] # <<>>
  PROVE  /\ On(Consumed(up, c)) \subseteq On(up)
         /\ On(PassedOn(p, c)) \subseteq On(up)
<1>1. c \in Processes
  BY DEF Processes
<1>2. /\ Head(up[c]) \in On(up)
      /\ On(Consumed(up, c)) \subseteq On(up)
  BY <1>1, TypedPaths, ConsumedCarries DEF On
<1>3. Consumed(up, c) \in Paths(ResponseMsg) /\ Head(up[c]) \in ResponseMsg
  BY <1>1, TypedPaths, ConsumedIsPath
<1>4. QED
  BY <1>2, <1>3, OnRedirected DEF PassedOn

\* The pid in the answer of a create is that of a process with the identifier.
LEMMA CreateIsGenuine ==
  ASSUME TypeOK, TreeShape, NEW p \in Processes, CreateHere(p), NEW m \in On(up')
  PROVE  m \in On(up) \/ IsGenuine(m)'
<1> DEFINE new == Head(down[p]).newNodeId
           c == forked + 1
           kids == emplaceBack(children[p], c)
           ids == [nodeId EXCEPT ![c] = new]
           pid == getProcessPidByNodeId(kids, ids, new)
<1>1. /\ c \in Pids /\ c \in Processes
      /\ Forked' = Forked \cup {c} /\ Forked' \subseteq Nat
  BY ConstantsAssumption DEF CreateHere, TypeOK, Pids, Processes, Forked
<1>2. children[p] \in Seq(Pids) /\ Len(children[p]) \in Nat
  BY LenProperties DEF TypeOK
<1>3. /\ kids \in Seq(Pids)
      /\ DOMAIN kids = 1..(Len(children[p]) + 1)
      /\ kids[Len(children[p]) + 1] = c
      /\ \A i \in 1..Len(children[p]) : kids[i] = children[p][i]
  BY <1>1, <1>2, AppendProperties, LenProperties DEF emplaceBack
<1>4. new \in Nat
  BY TypedPaths, ConsumedIsPath, DownMsgFields
     DEF CreateHere, ReceivesCreateHere, Receives
<1>5. nodeId' = ids /\ ids[c] = new
  BY <1>1 DEF CreateHere, TypeOK
<1>6. DOMAIN children[p] = 1..Len(children[p])
  BY <1>2, LenProperties
<1>7. \A i \in DOMAIN kids : kids[i] \in Forked'
  BY <1>1, <1>2, <1>3, <1>6 DEF TreeShape, ListsAreOfChildren
<1>8. Len(children[p]) + 1 \in DOMAIN kids
  BY <1>2, <1>3
<1>9. up' = redirectToAncestor(up, p, GoodCreateResp(new, pid))
  BY DEF CreateHere
<1> HIDE DEF kids, ids, new
<1>10. /\ pid \in Range(kids) /\ pid \in Pids /\ ids[pid] = new
  BY <1>3, <1>5, <1>8, PidFound
<1>11. pid \in Forked'
  BY <1>7, <1>10 DEF Range
<1> HIDE DEF pid
<1>12. GoodCreateResp(new, pid) \in ResponseMsg
  BY <1>1, <1>4, <1>11, ResponseMsgs
<1>13. m \in On(up) \/ m = GoodCreateResp(new, pid)
  BY <1>9, <1>12, TypedPaths, OnRedirected
<1>14. ASSUME m = GoodCreateResp(new, pid) PROVE IsGenuine(m)'
  BY <1>5, <1>10, <1>11, <1>14 DEF IsGenuine, GoodCreateResp
<1>15. QED
  BY <1>13, <1>14

\* The answer of an exec is that of the node the command names.
LEMMA ExecIsGenuine ==
  ASSUME TypeOK, TreeShape, CommandsAreSubmitted,
         NEW p \in Processes, ExecuteHere(p), NEW m \in On(up')
  PROVE  m \in On(up) \/ IsGenuine(m)'
<1> DEFINE cmd == Head(down[p])
           ok == GoodExecResp(nodeId[p], cmd.k)
<1>1. /\ cmd.type = "CommandExec" /\ cmd.nodeId = nodeId[p]
      /\ down[p] # <<>> /\ p # Root /\ phase[p] = "running"
      /\ up' = redirectToAncestor(up, p, ok)
      /\ UNCHANGED <<forked, nodeId, submitted>>
  BY DEF ExecuteHere, Receives, IsExecutor
<1>2. cmd \in DownMsg /\ cmd \in On(down)
  BY <1>1, TypedPaths, ConsumedIsPath, ConsumedCarries DEF On
<1>3. /\ cmd.k \in DOMAIN submitted /\ submitted[cmd.k] = cmd
      /\ cmd # KillSignal
  BY <1>1, <1>2 DEF CommandsAreSubmitted, IsSubmitted, KillSignal
<1>4. cmd = CommandExec(nodeId[p], cmd.k) /\ cmd.k \in Nat
  BY <1>1, <1>2 DEF DownMsg, CommandMsg, CommandExec, KillSignal,
                    CommandPrintTree
<1>5. p \in Forked
  BY <1>1, ActiveIsForked
<1> HIDE DEF cmd
<1>6. ok \in ResponseMsg
  BY <1>4, ResponseMsgs DEF TypeOK
<1>7. m \in On(up) \/ m = ok
  BY <1>1, <1>6, TypedPaths, OnRedirected
<1>8. ASSUME m = ok PROVE IsGenuine(m)'
  BY <1>1, <1>3, <1>4, <1>5, <1>8 DEF IsGenuine, GoodExecResp, Forked
<1>9. QED
  BY <1>7, <1>8

\* The answers that claim nothing.
LEMMA OthersAreGenuine ==
  ASSUME NEW m, m.type \notin {"GoodExecResp", "GoodCreateResp"}
  PROVE  IsGenuine(m)'
BY DEF IsGenuine

LEMMA UpNext ==
  ASSUME TypeOK, TreeShape, CommandsAreSubmitted, TreeNext, NEW m \in On(up')
  PROVE  m \in On(up) \/ IsGenuine(m)'
<1>1. ASSUME NEW p \in Processes, CreateNodeExists(p)
      PROVE  m \in On(up) \/ IsGenuine(m)'
  <2>1. NodeExistResponse(nodeId[p]) \in ResponseMsg
    BY ResponseMsgs DEF TypeOK
  <2>2. m \in On(up) \/ m = NodeExistResponse(nodeId[p])
    BY <1>1, <2>1, TypedPaths, OnRedirected DEF CreateNodeExists
  <2>3. QED
    BY <2>2, OthersAreGenuine DEF NodeExistResponse
<1>2. ASSUME NEW p \in Processes, CreateElsewhere(p) \/ ExecElsewhere(p)
      PROVE  m \in On(up) \/ IsGenuine(m)'
  <2> DEFINE answer == handleDeadEnd(Head(down[p]))
  <2>1. /\ down[p] # <<>>
        /\ Head(down[p]).type \in {"CommandExec", "CommandCreate"}
        /\ up' \in {up, redirectToAncestor(up, p, answer)}
    BY <1>2 DEF CreateElsewhere, ExecElsewhere, RedirectCommand, Receives
  <2>2. answer \in ResponseMsg
    BY <2>1, TypedPaths, ConsumedIsPath, DeadEndResponds
  <2>3. answer.type \in {"BadExecResp", "BadCreateResp"}
    BY DEF handleDeadEnd, BadExecResp, BadCreateResp
  <2> HIDE DEF answer
  <2>4. m \in On(up) \/ m = answer
    BY <2>1, <2>2, TypedPaths, OnRedirected
  <2>5. QED
    BY <2>3, <2>4, OthersAreGenuine
<1>3. ASSUME NEW p \in Processes,
             \/ CreateForkFails(p) \/ IgnoreCommand(p)
             \/ HandleKillSignal(p) \/ Exit(p) \/ Crash(p)
      PROVE  m \in On(up)
  BY <1>3, TypedPaths, OnDies, ExitEnds
     DEF CreateForkFails, IgnoreCommand, HandleKillSignal, Crash
<1>4. ASSUME NEW p \in Processes, NEW c \in Pids, HandleResponse(p, c)
      PROVE  m \in On(up)
  <2>1. up[c] # <<>>
    BY <1>4 DEF HandleResponse, AccountBadResp, AccountGoodResp, Answers,
                CloseRecordAndRedirectResp, RedirectResponse, RunOffTheEnd
  <2>2. /\ On(Consumed(up, c)) \subseteq On(up)
        /\ On(PassedOn(p, c)) \subseteq On(up)
        /\ Consumed(up, c) \in Paths(ResponseMsg)
    BY <2>1, OnPassedOn, TypedPassedOn
  <2>3. \/ up' \in {Consumed(up, c), PassedOn(p, c)}
        \/ Dies(p, Consumed(up, c))
    BY <1>4 DEF HandleResponse, AccountBadResp, AccountGoodResp,
                CloseRecordAndRedirectResp, RedirectResponse, RunOffTheEnd
  <2>4. QED
    BY <2>2, <2>3, OnDies
<1>5. ASSUME NEW p \in Processes, NEW c \in Pids, EraseOverdue(p, c)
      PROVE  m \in On(up) \/ IsGenuine(m)'
  <2>1. NodeIsDeadResponse(nodeId[c]) \in ResponseMsg
    BY ResponseMsgs DEF TypeOK, Processes
  <2>2. m \in On(up) \/ m = NodeIsDeadResponse(nodeId[c])
    BY <1>5, <2>1, TypedPaths, OnRedirected DEF EraseOverdue
  <2>3. QED
    BY <2>2, OthersAreGenuine DEF NodeIsDeadResponse
<1>6. ASSUME NEW p \in Processes, HandleCommand(p)
      PROVE  m \in On(up) \/ IsGenuine(m)'
  BY <1>1, <1>2, <1>3, <1>6, CreateIsGenuine, ExecIsGenuine DEF HandleCommand
<1>7. QED
  BY <1>3, <1>4, <1>5, <1>6 DEF TreeNext, Processes

-----------------------------------------------------------------------------
LEMMA GenuineInit == Init => GenuineInv
<1> SUFFICES ASSUME Init PROVE GenuineInv
  OBVIOUS
<1>1. On(up) = {} /\ On(down) = {} /\ Forked = {}
  BY DEF Init, On, Range, Forked
<1>2. QED
  BY <1>1 DEF GenuineInv, CommandsAreSubmitted, AnswersAreGenuine,
              TreeAsCommanded

\* A submitted command is on the list, an exec under the index that it carries.
LEMMA SubmitIsSubmitted ==
  ASSUME TypeOK, NEW cmd \in Commands, Submit(cmd), NEW m \in On(down')
  PROVE  m \in On(down) \/ IsSubmitted(m)'
<1> DEFINE n == Len(submitted) + 1
           c == IF cmd.type = "CommandExec" THEN [cmd EXCEPT !.k = n] ELSE cmd
<1>1. submitted \in Seq(CommandMsg) /\ Len(submitted) \in Nat
  BY LenProperties DEF TypeOK
<1>2. cmd \in CommandMsg
  BY ConstantsAssumption
<1>3. /\ c \in CommandMsg
      /\ c.type = "CommandExec" => c.k = n
  <2>1. CASE cmd.type = "CommandExec"
    <3>1. cmd \in [type : {"CommandExec"}, nodeId : Nat, k : Nat]
      BY <1>2, <2>1 DEF CommandMsg, CommandPrintTree
    <3>2. n \in Nat
      BY <1>1
    <3> HIDE DEF n
    <3>3. /\ [cmd EXCEPT !.k = n]
               \in [type : {"CommandExec"}, nodeId : Nat, k : Nat]
          /\ [cmd EXCEPT !.k = n].k = n
      BY <3>1, <3>2
    <3>4. QED
      BY <2>1, <3>3 DEF CommandMsg
  <2>2. CASE cmd.type # "CommandExec"
    BY <1>2, <2>2
  <2>3. QED
    BY <2>1, <2>2
<1>4. c \in DownMsg
  BY <1>3 DEF DownMsg
<1>5. down' = redirectToAncestor(down, Root, c) /\ submitted' = Append(submitted, c)
  BY DEF Submit, redirectToAncestor
<1> HIDE DEF c
<1>6. /\ DOMAIN submitted' = 1..n
      /\ submitted'[n] = c
      /\ n \in 1..n
  BY <1>1, <1>3, <1>5, AppendProperties, LenProperties
<1>7. \A q \in Processes : Range(down'[q]) \subseteq Range(down[q]) \cup {c}
  BY <1>4, <1>5, TypedPaths, RedirectedCarries DEF Processes
<1>8. m \in On(down) \/ m = c
  BY <1>7 DEF On
<1> HIDE DEF n
<1>9. ASSUME m = c PROVE IsSubmitted(m)'
  BY <1>3, <1>6, <1>9 DEF IsSubmitted, Range
<1>10. QED
  BY <1>8, <1>9

\* The parent of a forked process is the root or was forked itself.
LEMMA ParentIsThere ==
  ASSUME TypeOK, TreeShape, NEW d \in Forked
  PROVE  parent[d] \in Forked \cup {Root}
<1>1. forked \in 0..MaxPid /\ MaxPid \in Nat /\ d \in 1..forked
  BY ConstantsAssumption DEF TypeOK, Forked
<1>2. d \in Processes
  BY <1>1 DEF Processes, Pids
<1>3. parent[d] \in Processes /\ parent[d] < d
  BY <1>2 DEF TypeOK, TreeShape, ParentsAreOlder
<1>4. QED
  BY <1>1, <1>3 DEF Processes, Pids, Root, Forked

\* A new node has the identifier, and the parent, that its command names.
LEMMA CreateAsCommanded ==
  ASSUME TypeOK, TreeShape, GenuineInv, HistoryKept,
         NEW p \in Processes, CreateHere(p)
  PROVE  TreeAsCommanded'
<1> DEFINE c == forked + 1
           cmd == Head(down[p])
<1>1. /\ c \in Processes /\ Forked' = Forked \cup {c}
  <2>1. forked \in Nat /\ forked < MaxPid /\ MaxPid \in Nat /\ forked' = c
    BY ConstantsAssumption DEF CreateHere, TypeOK
  <2>2. QED
    BY <2>1 DEF Pids, Processes, Forked
<1>2. /\ cmd.type = "CommandCreate" /\ cmd.parentId = nodeId[p]
      /\ down[p] # <<>> /\ phase[p] = "running"
      /\ nodeId' = [nodeId EXCEPT ![c] = cmd.newNodeId]
      /\ parent' = [parent EXCEPT ![c] = p]
      /\ submitted' = submitted
  BY DEF CreateHere, ReceivesCreateHere, Receives
<1>3. cmd \in DownMsg /\ cmd \in On(down)
  BY <1>2, TypedPaths, ConsumedIsPath, ConsumedCarries DEF On
<1>4. cmd \in Range(submitted)
  BY <1>2, <1>3 DEF GenuineInv, CommandsAreSubmitted, IsSubmitted, KillSignal
<1>5. cmd = CommandCreate(cmd.newNodeId, nodeId[p])
  BY <1>2, <1>3
     DEF DownMsg, CommandMsg, CommandCreate, KillSignal, CommandPrintTree
<1> HIDE DEF cmd
<1>6. p \in Forked \cup {Root}
  BY <1>2, ActiveIsForked
<1>7. nodeId'[p] = nodeId[p] /\ nodeId'[c] = cmd.newNodeId /\ parent'[c] = p
  BY <1>1, <1>2, <1>6 DEF HistoryKept, TypeOK
<1>8. ASSUME NEW d \in Forked
      PROVE  CommandCreate(nodeId'[d], nodeId'[parent'[d]]) \in Range(submitted')
  <2>1. nodeId'[d] = nodeId[d] /\ parent'[d] = parent[d]
    BY DEF HistoryKept
  <2>2. parent[d] \in Forked \cup {Root}
    BY ParentIsThere
  <2>3. nodeId'[parent[d]] = nodeId[parent[d]]
    BY <2>2 DEF HistoryKept
  <2>4. QED
    BY <1>2, <2>1, <2>3 DEF GenuineInv, TreeAsCommanded
<1>9. CommandCreate(nodeId'[c], nodeId'[parent'[c]]) \in Range(submitted')
  BY <1>2, <1>4, <1>5, <1>7
<1>10. QED
  BY <1>1, <1>8, <1>9 DEF TreeAsCommanded

\* Nothing but a fork adds to the tree.
LEMMA TreeKept ==
  ASSUME TypeOK, TreeShape, GenuineInv, HistoryKept, forked' = forked,
         Range(submitted) \subseteq Range(submitted')
  PROVE  TreeAsCommanded'
<1> SUFFICES ASSUME NEW d \in Forked
             PROVE  CommandCreate(nodeId'[d], nodeId'[parent'[d]])
                      \in Range(submitted')
  BY DEF TreeAsCommanded, Forked
<1>1. nodeId'[d] = nodeId[d] /\ parent'[d] = parent[d]
  BY DEF HistoryKept
<1>2. parent[d] \in Forked \cup {Root}
  BY ParentIsThere
<1>3. nodeId'[parent[d]] = nodeId[parent[d]]
  BY <1>2 DEF HistoryKept
<1>4. QED
  BY <1>1, <1>3 DEF GenuineInv, TreeAsCommanded

LEMMA GenuineNext ==
  TypeOK /\ TreeShape /\ TypeOK' /\ GenuineInv /\ [Next]_vars => GenuineInv'
<1> SUFFICES ASSUME TypeOK, TreeShape, TypeOK', GenuineInv, [Next]_vars
             PROVE  GenuineInv'
  OBVIOUS
<1>1. HistoryKept
  BY HistoryLemma
<1>2. submitted' \in Seq(CommandMsg) /\ Len(submitted') \in Nat
  BY LenProperties DEF TypeOK
<1>3. /\ \A m : IsGenuine(m) => IsGenuine(m)'
      /\ \A m : IsSubmitted(m) => IsSubmitted(m)'
  BY <1>1, <1>2, GenuineKept
<1>4. Range(submitted) \subseteq Range(submitted')
  <2>1. DOMAIN submitted \subseteq DOMAIN submitted'
    BY <1>1, <1>2, LenProperties DEF HistoryKept, TypeOK
  <2>2. QED
    BY <1>1, <2>1 DEF HistoryKept, Range
<1>5. CommandsAreSubmitted'
  <2>1. SUFFICES ASSUME NEW m \in On(down')
                 PROVE  m = KillSignal \/ IsSubmitted(m)'
    BY DEF CommandsAreSubmitted
  <2>2. CASE m \in On(down)
    BY <1>3, <2>2 DEF GenuineInv, CommandsAreSubmitted
  <2>3. CASE TreeNext
    BY <2>2, <2>3, DownNext
  <2>4. CASE \E cmd \in Commands : Submit(cmd)
    BY <2>2, <2>4, SubmitIsSubmitted
  <2>5. CASE UNCHANGED vars
    BY <2>2, <2>5 DEF vars
  <2>6. QED
    BY <2>3, <2>4, <2>5 DEF Next
<1>6. AnswersAreGenuine'
  <2>1. SUFFICES ASSUME NEW m \in On(up') PROVE IsGenuine(m)'
    BY DEF AnswersAreGenuine
  <2>2. CASE m \in On(up)
    BY <1>3, <2>2 DEF GenuineInv, AnswersAreGenuine
  <2>3. CASE TreeNext
    BY <2>2, <2>3, UpNext DEF GenuineInv
  <2>4. CASE \E cmd \in Commands : Submit(cmd)
    BY <2>2, <2>4 DEF Submit
  <2>5. CASE UNCHANGED vars
    BY <2>2, <2>5 DEF vars
  <2>6. QED
    BY <2>3, <2>4, <2>5 DEF Next
<1>7. TreeAsCommanded'
  <2>1. CASE \E p \in Processes : CreateHere(p)
    BY <1>1, <2>1, CreateAsCommanded
  <2>2. CASE forked' = forked
    BY <1>1, <1>4, <2>2, TreeKept
  <2>3. ASSUME NEW p \in Processes, HandleCommand(p)
        PROVE  forked' = forked \/ CreateHere(p)
    BY <2>3
       DEF HandleCommand, CreateNodeExists, CreateForkFails, CreateElsewhere,
           ExecuteHere, ExecElsewhere, IgnoreCommand, RedirectCommand
  <2>4. ASSUME NEW p \in Processes, NEW c \in Pids,
               \/ HandleResponse(p, c) \/ EraseOverdue(p, c)
        PROVE  forked' = forked
    BY <2>4
       DEF HandleResponse, AccountBadResp, AccountGoodResp, RedirectResponse,
           CloseRecordAndRedirectResp, RunOffTheEnd, EraseOverdue
  <2>5. ASSUME NEW p \in Processes,
               HandleKillSignal(p) \/ Exit(p) \/ Crash(p)
        PROVE  forked' = forked
    BY <2>5 DEF HandleKillSignal, Exit, Crash
  <2>6. CASE \E cmd \in Commands : Submit(cmd)
    BY <2>2, <2>6 DEF Submit
  <2>7. CASE UNCHANGED vars
    BY <2>2, <2>7 DEF vars
  <2>8. CASE TreeNext
    BY <2>1, <2>2, <2>3, <2>4, <2>5, <2>8 DEF TreeNext, Processes
  <2>9. QED
    BY <2>6, <2>7, <2>8 DEF Next
<1>8. QED
  BY <1>5, <1>6, <1>7 DEF GenuineInv

THEOREM GenuineInvariant == Spec => []GenuineInv
<1>1. Init => GenuineInv
  BY GenuineInit
<1>2. TypeOK /\ TreeShape /\ TypeOK' /\ GenuineInv /\ [Next]_vars => GenuineInv'
  BY GenuineNext
<1>3. QED
  BY <1>1, <1>2, TypeCorrect, TreeShapeInvariant, PTL DEF Spec

-----------------------------------------------------------------------------
\* The messages in eventsList are among those on the paths.
LEMMA EventsAreOnPaths ==
  ASSUME TypeOK, NEW i \in DOMAIN eventsList
  PROVE  eventsList[i] \in On(up)
BY DEF On, Range, eventsList, Processes

\* Every node of the tree is where a client asked for it.
THEOREM TreeIsAsCommanded == Spec => []TreeAsCommanded
<1>1. GenuineInv => TreeAsCommanded
  BY DEF GenuineInv
<1>2. QED
  BY <1>1, GenuineInvariant, PTL

\* "Ok: pid" names a process that has the identifier asked for.
THEOREM CreateOkTheorem == Spec => []CreateOkIsGenuine
<1>1. TypeOK /\ GenuineInv => CreateOkIsGenuine
  BY EventsAreOnPaths
     DEF GenuineInv, AnswersAreGenuine, IsGenuine, CreateOkIsGenuine
<1>2. QED
  BY <1>1, TypeCorrect, GenuineInvariant, PTL

\* "Ok:id: Ans" is the answer of an existing node to a command submitted for it.
THEOREM ExecOkTheorem == Spec => []ExecOkIsGenuine
<1>1. TypeOK /\ GenuineInv => ExecOkIsGenuine
  BY EventsAreOnPaths
     DEF GenuineInv, AnswersAreGenuine, IsGenuine, ExecOkIsGenuine
<1>2. QED
  BY <1>1, TypeCorrect, GenuineInvariant, PTL

-----------------------------------------------------------------------------
(***************************************************************************)
(* Which process an answer comes from.  The program keeps no such note;    *)
(* the invariant says that it could be kept: there is a way to tag every   *)
(* message on the paths upwards with the process it is about, the one that *)
(* executed the command or was found dead, and a set of the commands each  *)
(* process has taken, such that no two answers alike have the same tag.    *)
(* So there are no more of them than processes.                            *)
(***************************************************************************)
IsExecOk(m) == m.type = "GoodExecResp"
IsDeath(m) == m.type = "NodeIsDeadResponse"

Tag == ResponseMsg \X Processes

\* tagged is path with a process noted at each message.
TagsAgree(tagged, path) ==
  /\ tagged \in Paths(Tag)
  /\ path \in Paths(ResponseMsg)
  /\ \A q \in Processes :
       /\ Len(tagged[q]) = Len(path[q])
       /\ \A i \in 1..Len(path[q]) : tagged[q][i][1] = path[q][i]

\* No two answers alike come from the same process.
NoneTwice(tagged) ==
  \A q, r \in Processes : \A i \in 1..Len(tagged[q]), j \in 1..Len(tagged[r]) :
    /\ tagged[q][i] = tagged[r][j]
    /\ IsExecOk(tagged[q][i][1]) \/ IsDeath(tagged[q][i][1])
    => q = r /\ i = j

Tagged(tagged, path) == TagsAgree(tagged, path) /\ NoneTwice(tagged)

-----------------------------------------------------------------------------
(***************************************************************************)
(* Tags travel with their messages.                                        *)
(***************************************************************************)

\* An answer that a process gives once has one place.
LEMMA SamePlace ==
  ASSUME NEW tagged, NoneTwice(tagged), NEW q \in Processes, NEW r \in Processes,
         NEW i \in 1..Len(tagged[q]), NEW j \in 1..Len(tagged[r]),
         tagged[q][i] = tagged[r][j],
         IsExecOk(tagged[q][i][1]) \/ IsDeath(tagged[q][i][1])
  PROVE  q = r /\ i = j
BY DEF NoneTwice

\* What is on a path is at some place of it.
LEMMA PlaceOnPath ==
  ASSUME NEW S, NEW path \in Paths(S), NEW m
  PROVE  m \in On(path) <=>
           \E q \in Processes : \E i \in 1..Len(path[q]) : path[q][i] = m
<1>1. \A q \in Processes : DOMAIN path[q] = 1..Len(path[q])
  BY LenProperties DEF Paths
<1>2. QED
  BY <1>1 DEF On, Range

\* The places of a path once its head was taken.
LEMMA ConsumedPlaces ==
  ASSUME NEW S, NEW path \in Paths(S), NEW p \in Processes, path[p] # <<>>
  PROVE  /\ Len(path[p]) \in Nat \ {0} /\ Head(path[p]) = path[p][1]
         /\ \A q \in Processes : Len(path[q]) \in Nat
         /\ \A q \in Processes :
              Len(Consumed(path, p)[q]) =
                 IF q = p THEN Len(path[q]) - 1 ELSE Len(path[q])
         /\ \A q \in Processes : \A i \in 1..Len(Consumed(path, p)[q]) :
              Consumed(path, p)[q][i] =
                 IF q = p THEN path[q][i + 1] ELSE path[q][i]
<1>1. \A q \in Processes : path[q] \in Seq(S) /\ Len(path[q]) \in Nat
  BY LenProperties DEF Paths
<1>2. Len(path[p]) # 0
  BY <1>1, EmptySeq
<1>3. /\ Head(path[p]) = path[p][1]
      /\ Len(Tail(path[p])) = Len(path[p]) - 1
      /\ \A i \in 1..Len(Tail(path[p])) : Tail(path[p])[i] = path[p][i + 1]
  BY <1>1, HeadTailProperties
<1>4. /\ Consumed(path, p)[p] = Tail(path[p])
      /\ \A q \in Processes : q # p => Consumed(path, p)[q] = path[q]
  BY DEF Consumed, Paths
<1>5. QED
  BY <1>1, <1>2, <1>3, <1>4

\* The places of a path with a message added.
LEMMA RedirectedPlaces ==
  ASSUME NEW S, NEW path \in Paths(S), NEW p \in Processes, NEW m \in S
  PROVE  /\ \A q \in Processes : Len(path[q]) \in Nat
         /\ \A q \in Processes :
              Len(redirectToAncestor(path, p, m)[q]) =
                 IF q = p THEN Len(path[q]) + 1 ELSE Len(path[q])
         /\ \A q \in Processes : \A i \in 1..Len(path[q]) :
              redirectToAncestor(path, p, m)[q][i] = path[q][i]
         /\ redirectToAncestor(path, p, m)[p][Len(path[p]) + 1] = m
<1>1. \A q \in Processes : path[q] \in Seq(S) /\ Len(path[q]) \in Nat
  BY LenProperties DEF Paths
<1>2. /\ Len(Append(path[p], m)) = Len(path[p]) + 1
      /\ \A i \in 1..Len(path[p]) : Append(path[p], m)[i] = path[p][i]
      /\ Append(path[p], m)[Len(path[p]) + 1] = m
  BY <1>1, AppendProperties
<1>3. /\ redirectToAncestor(path, p, m)[p] = Append(path[p], m)
      /\ \A q \in Processes :
           q # p => redirectToAncestor(path, p, m)[q] = path[q]
  BY DEF redirectToAncestor, Paths
<1>4. QED
  BY <1>1, <1>2, <1>3

\* The same as one fact: more is the path with m pushed at p.
PushedAt(path, p, m, more) ==
  /\ \A q \in Processes : Len(path[q]) \in Nat
  /\ \A q \in Processes :
       Len(more[q]) = IF q = p THEN Len(path[q]) + 1 ELSE Len(path[q])
  /\ \A q \in Processes : \A i \in 1..Len(path[q]) : more[q][i] = path[q][i]
  /\ more[p][Len(path[p]) + 1] = m

LEMMA RedirectedIsPushed ==
  ASSUME NEW S, NEW path \in Paths(S), NEW p \in Processes, NEW m \in S
  PROVE  PushedAt(path, p, m, redirectToAncestor(path, p, m))
BY RedirectedPlaces DEF PushedAt

\* A message is taken with its tag, which is then under way no more.
LEMMA TagTaken ==
  ASSUME NEW tagged, NEW path, Tagged(tagged, path),
         NEW p \in Processes, path[p] # <<>>
  PROVE  /\ Tagged(Consumed(tagged, p), Consumed(path, p))
         /\ tagged[p] # <<>>
         /\ Head(tagged[p]) \in Tag /\ Head(tagged[p])[1] = Head(path[p])
         /\ Head(tagged[p]) \in On(tagged)
         /\ On(Consumed(tagged, p)) \subseteq On(tagged)
         /\ IsExecOk(Head(path[p])) \/ IsDeath(Head(path[p])) =>
              Head(tagged[p]) \notin On(Consumed(tagged, p))
<1>1. /\ tagged \in Paths(Tag) /\ path \in Paths(ResponseMsg)
      /\ \A q \in Processes :
           /\ Len(tagged[q]) = Len(path[q])
           /\ \A i \in 1..Len(path[q]) : tagged[q][i][1] = path[q][i]
  BY DEF Tagged, TagsAgree
<1>2. tagged[p] # <<>>
  <2>1. path[p] \in Seq(ResponseMsg) /\ tagged[p] \in Seq(Tag)
    BY <1>1 DEF Paths
  <2>2. Len(path[p]) # 0
    BY <2>1, EmptySeq
  <2>3. QED
    BY <1>1, <2>1, <2>2, EmptySeq
<1> DEFINE rest == Consumed(path, p)
           restTagged == Consumed(tagged, p)
<1>3. /\ rest \in Paths(ResponseMsg) /\ restTagged \in Paths(Tag)
      /\ Head(tagged[p]) \in Tag
  BY <1>1, <1>2, ConsumedIsPath
<1>4. /\ Len(path[p]) \in Nat \ {0} /\ Head(path[p]) = path[p][1]
      /\ \A q \in Processes :
           Len(rest[q]) = IF q = p THEN Len(path[q]) - 1 ELSE Len(path[q])
      /\ \A q \in Processes : \A i \in 1..Len(rest[q]) :
           rest[q][i] = IF q = p THEN path[q][i + 1] ELSE path[q][i]
  BY <1>1, ConsumedPlaces
<1>5. /\ Head(tagged[p]) = tagged[p][1]
      /\ \A q \in Processes : Len(tagged[q]) \in Nat
      /\ \A q \in Processes :
           Len(restTagged[q]) =
              IF q = p THEN Len(tagged[q]) - 1 ELSE Len(tagged[q])
      /\ \A q \in Processes : \A i \in 1..Len(restTagged[q]) :
           restTagged[q][i] = IF q = p THEN tagged[q][i + 1] ELSE tagged[q][i]
  BY <1>1, <1>2, ConsumedPlaces
<1> HIDE DEF rest, restTagged
<1> DEFINE old(q, i) == IF q = p THEN i + 1 ELSE i
<1>6. ASSUME NEW q \in Processes, NEW i \in 1..Len(restTagged[q])
      PROVE  /\ old(q, i) \in 1..Len(tagged[q])
             /\ restTagged[q][i] = tagged[q][old(q, i)]
             /\ q = p => old(q, i) # 1
  <2>1. CASE q = p
    BY <1>5, <1>6, <2>1
  <2>2. CASE q # p
    BY <1>5, <1>6, <2>2
  <2>3. QED
    BY <2>1, <2>2
<1>7. TagsAgree(restTagged, rest)
  <2>1. ASSUME NEW q \in Processes
        PROVE  /\ Len(restTagged[q]) = Len(rest[q])
               /\ \A i \in 1..Len(rest[q]) : restTagged[q][i][1] = rest[q][i]
    <3>1. Len(restTagged[q]) = Len(rest[q])
      BY <1>1, <1>4, <1>5
    <3>2. ASSUME NEW i \in 1..Len(rest[q]) PROVE restTagged[q][i][1] = rest[q][i]
      <4>1. CASE q = p
        <5>1. /\ i \in 1..Len(restTagged[q]) /\ i + 1 \in 1..Len(path[q])
              /\ rest[q][i] = path[q][i + 1]
          BY <1>4, <3>1, <4>1
        <5>2. restTagged[q][i] = tagged[q][i + 1]
          BY <1>5, <4>1, <5>1
        <5>3. QED
          BY <1>1, <5>1, <5>2
      <4>2. CASE q # p
        <5>1. /\ i \in 1..Len(restTagged[q]) /\ i \in 1..Len(path[q])
              /\ rest[q][i] = path[q][i]
          BY <1>4, <3>1, <4>2
        <5>2. restTagged[q][i] = tagged[q][i]
          BY <1>5, <4>2, <5>1
        <5>3. QED
          BY <1>1, <5>1, <5>2
      <4>3. QED
        BY <4>1, <4>2
    <3>3. QED
      BY <3>1, <3>2
  <2>2. QED
    BY <1>3, <2>1 DEF TagsAgree
<1>8. NoneTwice(restTagged)
  <2> SUFFICES ASSUME NEW q \in Processes, NEW r \in Processes,
                      NEW i \in 1..Len(restTagged[q]),
                      NEW j \in 1..Len(restTagged[r]),
                      restTagged[q][i] = restTagged[r][j],
                      IsExecOk(restTagged[q][i][1]) \/ IsDeath(restTagged[q][i][1])
               PROVE  q = r /\ i = j
    BY DEF NoneTwice
  <2>1. /\ old(q, i) \in 1..Len(tagged[q]) /\ restTagged[q][i] = tagged[q][old(q, i)]
        /\ old(r, j) \in 1..Len(tagged[r]) /\ restTagged[r][j] = tagged[r][old(r, j)]
    BY <1>6
  <2> HIDE DEF old
  <2>2. /\ tagged[q][old(q, i)] = tagged[r][old(r, j)]
        /\ \/ IsExecOk(tagged[q][old(q, i)][1])
           \/ IsDeath(tagged[q][old(q, i)][1])
    BY <2>1
  <2>3. q = r /\ old(q, i) = old(r, j)
    <3>1. PICK k, l : k = old(q, i) /\ l = old(r, j)
      BY Zenon
    <3>2. /\ k \in 1..Len(tagged[q]) /\ l \in 1..Len(tagged[r])
          /\ tagged[q][k] = tagged[r][l]
          /\ IsExecOk(tagged[q][k][1]) \/ IsDeath(tagged[q][k][1])
      BY <2>1, <2>2, <3>1, Zenon
    <3>3. NoneTwice(tagged)
      BY DEF Tagged
    <3>4. q = r /\ k = l
      BY <3>2, <3>3, SMT DEF NoneTwice
    <3>5. QED
      BY <3>1, <3>4, Zenon
  <2>4. QED
    BY <1>5, <2>3 DEF old
<1>9. 1 \in 1..Len(tagged[p]) /\ Head(tagged[p])[1] = Head(path[p])
  BY <1>1, <1>4, <1>5
<1>10. Head(tagged[p]) \in On(tagged)
  BY <1>1, <1>5, <1>9, PlaceOnPath
<1> HIDE DEF old
<1>11. ASSUME NEW x \in On(restTagged)
       PROVE  /\ x \in On(tagged)
              /\ IsExecOk(Head(path[p])) \/ IsDeath(Head(path[p])) =>
                   x # Head(tagged[p])
  <2>0. PICK q \in Processes : \E i \in 1..Len(restTagged[q]) : restTagged[q][i] = x
    BY <1>3, PlaceOnPath
  <2>1. PICK i \in 1..Len(restTagged[q]) : restTagged[q][i] = x
    BY <2>0
  <2>2. /\ old(q, i) \in 1..Len(tagged[q]) /\ x = tagged[q][old(q, i)]
        /\ q = p => old(q, i) # 1
    BY <1>6, <2>1
  <2>3. x \in On(tagged)
    BY <1>1, <2>2, PlaceOnPath
  <2>4. ASSUME x = Head(tagged[p]),
               IsExecOk(Head(path[p])) \/ IsDeath(Head(path[p]))
        PROVE  FALSE
    <3>0. /\ tagged[q][old(q, i)] = tagged[p][1]
          /\ \/ IsExecOk(tagged[q][old(q, i)][1])
             \/ IsDeath(tagged[q][old(q, i)][1])
      BY <1>5, <1>9, <2>2, <2>4
    <3>1. q = p /\ old(q, i) = 1
      BY <1>9, <2>2, <3>0, SamePlace DEF Tagged
    <3>2. QED
      BY <2>2, <3>1
  <2>5. QED
    BY <2>3, <2>4
<1>12. QED
  BY <1>2, <1>3, <1>7, <1>8, <1>9, <1>10, <1>11 DEF Tagged, rest, restTagged

\* A message is pushed with a tag that no answer alike has.
LEMMA TagPushed ==
  ASSUME NEW tagged, NEW path, Tagged(tagged, path),
         NEW p \in Processes, NEW m \in ResponseMsg, NEW about \in Processes,
         IsExecOk(m) \/ IsDeath(m) => <<m, about>> \notin On(tagged)
  PROVE  /\ Tagged(redirectToAncestor(tagged, p, <<m, about>>),
                   redirectToAncestor(path, p, m))
         /\ On(redirectToAncestor(tagged, p, <<m, about>>))
              \subseteq On(tagged) \cup {<<m, about>>}
<1> DEFINE x == <<m, about>>
           more == redirectToAncestor(path, p, m)
           moreTagged == redirectToAncestor(tagged, p, x)
<1>1. /\ tagged \in Paths(Tag) /\ path \in Paths(ResponseMsg)
      /\ \A q \in Processes :
           /\ Len(tagged[q]) = Len(path[q])
           /\ \A i \in 1..Len(path[q]) : tagged[q][i][1] = path[q][i]
  BY DEF Tagged, TagsAgree
<1>2. x \in Tag /\ x[1] = m
  BY DEF Tag
<1> HIDE DEF x
<1>3. more \in Paths(ResponseMsg) /\ moreTagged \in Paths(Tag)
  BY <1>1, <1>2, RedirectedIsPath
<1>4. /\ \A q \in Processes :
           Len(more[q]) = IF q = p THEN Len(path[q]) + 1 ELSE Len(path[q])
      /\ \A q \in Processes : \A i \in 1..Len(path[q]) : more[q][i] = path[q][i]
      /\ more[p][Len(path[p]) + 1] = m
  <2>1. PushedAt(path, p, m, more)
    BY <1>1, RedirectedIsPushed, Zenon
  <2>2. QED
    BY <2>1, Zenon DEF PushedAt
<1>5. /\ \A q \in Processes : Len(tagged[q]) \in Nat
      /\ \A q \in Processes :
           Len(moreTagged[q]) = IF q = p THEN Len(tagged[q]) + 1 ELSE Len(tagged[q])
      /\ \A q \in Processes : \A i \in 1..Len(tagged[q]) :
           moreTagged[q][i] = tagged[q][i]
      /\ moreTagged[p][Len(tagged[p]) + 1] = x
  <2>1. PushedAt(tagged, p, x, moreTagged)
    BY <1>1, <1>2, RedirectedIsPushed, Zenon
  <2>2. QED
    BY <2>1, Zenon DEF PushedAt
<1> HIDE DEF more, moreTagged
<1>6. ASSUME NEW q \in Processes, NEW i \in 1..Len(moreTagged[q])
      PROVE  \/ i \in 1..Len(tagged[q]) /\ moreTagged[q][i] = tagged[q][i]
             \/ q = p /\ i = Len(tagged[p]) + 1 /\ moreTagged[q][i] = x
  <2>1. CASE q = p
    BY <1>5, <1>6, <2>1
  <2>2. CASE q # p
    BY <1>5, <1>6, <2>2
  <2>3. QED
    BY <2>1, <2>2
<1>7. TagsAgree(moreTagged, more)
  <2>1. ASSUME NEW q \in Processes
        PROVE  /\ Len(moreTagged[q]) = Len(more[q])
               /\ \A i \in 1..Len(more[q]) : moreTagged[q][i][1] = more[q][i]
    <3>1. Len(moreTagged[q]) = Len(more[q])
      <4>1. Len(tagged[q]) = Len(path[q])
        BY <1>1, Zenon
      <4>2. Len(more[q]) = IF q = p THEN Len(path[q]) + 1 ELSE Len(path[q])
        BY <1>4, Zenon
      <4>3. Len(moreTagged[q]) =
              IF q = p THEN Len(tagged[q]) + 1 ELSE Len(tagged[q])
        BY <1>5
      <4>4. QED
        BY <4>1, <4>2, <4>3
    <3>2. ASSUME NEW i \in 1..Len(more[q]) PROVE moreTagged[q][i][1] = more[q][i]
      <4>1. CASE i \in 1..Len(path[q])
        <5>1. more[q][i] = path[q][i] /\ moreTagged[q][i] = tagged[q][i]
          BY <1>1, <1>4, <1>5, <4>1
        <5>2. QED
          BY <1>1, <4>1, <5>1
      <4>2. CASE q = p /\ i = Len(path[p]) + 1
        BY <1>1, <1>2, <1>4, <1>5, <4>2
      <4>3. QED
        BY <1>1, <1>4, <1>5, <3>2, <4>1, <4>2
    <3>3. QED
      BY <3>1, <3>2
  <2>2. QED
    BY <1>3, <2>1 DEF TagsAgree
<1>8. \A q \in Processes : \A i \in 1..Len(tagged[q]) : tagged[q][i] \in On(tagged)
  BY <1>1, PlaceOnPath
<1>9. NoneTwice(moreTagged)
  <2> SUFFICES ASSUME NEW q \in Processes, NEW r \in Processes,
                      NEW i \in 1..Len(moreTagged[q]),
                      NEW j \in 1..Len(moreTagged[r]),
                      moreTagged[q][i] = moreTagged[r][j],
                      IsExecOk(moreTagged[q][i][1]) \/ IsDeath(moreTagged[q][i][1])
               PROVE  q = r /\ i = j
    BY DEF NoneTwice
  <2>1. CASE moreTagged[q][i] = x
    <3>1. x \notin On(tagged)
      BY <1>2, <2>1 DEF x
    <3>2. q = p /\ i = Len(tagged[p]) + 1
      BY <1>6, <1>8, <2>1, <3>1
    <3>3. r = p /\ j = Len(tagged[p]) + 1
      BY <1>6, <1>8, <2>1, <3>1
    <3>4. QED
      BY <3>2, <3>3
  <2>2. CASE moreTagged[q][i] # x
    <3>1. /\ i \in 1..Len(tagged[q]) /\ moreTagged[q][i] = tagged[q][i]
          /\ j \in 1..Len(tagged[r]) /\ moreTagged[r][j] = tagged[r][j]
      BY <1>6, <2>2
    <3>2. /\ tagged[q][i] = tagged[r][j]
          /\ IsExecOk(tagged[q][i][1]) \/ IsDeath(tagged[q][i][1])
      BY <3>1
    <3>3. QED
      BY <3>1, <3>2, SamePlace DEF Tagged
  <2>3. QED
    BY <2>1, <2>2
<1>10. On(moreTagged) \subseteq On(tagged) \cup {x}
  <2> SUFFICES ASSUME NEW y \in On(moreTagged) PROVE y \in On(tagged) \cup {x}
    OBVIOUS
  <2>0. PICK q \in Processes : \E i \in 1..Len(moreTagged[q]) : moreTagged[q][i] = y
    BY <1>3, PlaceOnPath
  <2>1. PICK i \in 1..Len(moreTagged[q]) : moreTagged[q][i] = y
    BY <2>0
  <2>2. QED
    BY <1>6, <1>8, <2>1
<1>11. QED
  BY <1>7, <1>9, <1>10 DEF Tagged, x, more, moreTagged

\* A process that dies cuts its path, and leaves that of the root as it is.
LEMMA TagDies ==
  ASSUME NEW tagged, NEW path, Tagged(tagged, path),
         NEW p \in Processes, Dies(p, path)
  PROVE  \E cut : /\ Tagged(cut, up')
                  /\ On(cut) \subseteq On(tagged)
                  /\ cut[Root] = tagged[Root]
<1>1. /\ tagged \in Paths(Tag) /\ path \in Paths(ResponseMsg)
      /\ \A q \in Processes :
           /\ Len(tagged[q]) = Len(path[q])
           /\ \A i \in 1..Len(path[q]) : tagged[q][i][1] = path[q][i]
  BY DEF Tagged, TagsAgree
<1>2. CASE p = Root
  BY <1>2 DEF Dies
<1>3. CASE p # Root
  <2>1. PICK n \in 0..Len(path[p]) :
          up' = [path EXCEPT ![p] = SubSeq(path[p], 1, n)]
    BY <1>3 DEF Dies
  <2> DEFINE cut == [tagged EXCEPT ![p] = SubSeq(tagged[p], 1, n)]
  <2>2. /\ path[p] \in Seq(ResponseMsg) /\ tagged[p] \in Seq(Tag)
        /\ Len(path[p]) \in Nat /\ Len(tagged[p]) = Len(path[p])
    BY <1>1, LenProperties DEF Paths
  <2>3. /\ SubSeq(path[p], 1, n) \in Seq(ResponseMsg)
        /\ SubSeq(tagged[p], 1, n) \in Seq(Tag)
        /\ Len(SubSeq(path[p], 1, n)) = n /\ Len(SubSeq(tagged[p], 1, n)) = n
        /\ \A i \in 1..n : /\ SubSeq(path[p], 1, n)[i] = path[p][i]
                           /\ SubSeq(tagged[p], 1, n)[i] = tagged[p][i]
    BY <2>2, PrefixIsSeq, SubSeqProperties
  <2>4. up' \in Paths(ResponseMsg) /\ cut \in Paths(Tag)
    BY <1>1, <2>1, <2>3 DEF Paths
  <2>5. /\ cut[p] = SubSeq(tagged[p], 1, n) /\ up'[p] = SubSeq(path[p], 1, n)
        /\ \A q \in Processes : q # p => cut[q] = tagged[q] /\ up'[q] = path[q]
    BY <1>1, <2>1 DEF Paths
  <2> HIDE DEF cut
  <2>6. ASSUME NEW q \in Processes
        PROVE  /\ Len(cut[q]) = Len(up'[q])
               /\ \A i \in 1..Len(cut[q]) : /\ i \in 1..Len(tagged[q])
                                            /\ i \in 1..Len(path[q])
                                            /\ cut[q][i] = tagged[q][i]
                                            /\ up'[q][i] = path[q][i]
    <3>1. CASE q = p
      BY <2>2, <2>3, <2>5, <3>1
    <3>2. CASE q # p
      BY <1>1, <2>5, <3>2
    <3>3. QED
      BY <3>1, <3>2
  <2>7. TagsAgree(cut, up')
    BY <1>1, <2>4, <2>6 DEF TagsAgree
  <2>8. NoneTwice(cut)
    <3> SUFFICES ASSUME NEW q \in Processes, NEW r \in Processes,
                        NEW i \in 1..Len(cut[q]), NEW j \in 1..Len(cut[r]),
                        cut[q][i] = cut[r][j],
                        IsExecOk(cut[q][i][1]) \/ IsDeath(cut[q][i][1])
                 PROVE  q = r /\ i = j
      BY DEF NoneTwice
    <3>1. /\ i \in 1..Len(tagged[q]) /\ j \in 1..Len(tagged[r])
          /\ tagged[q][i] = tagged[r][j]
          /\ IsExecOk(tagged[q][i][1]) \/ IsDeath(tagged[q][i][1])
      BY <2>6
    <3>2. QED
      BY <3>1, SamePlace DEF Tagged
  <2>9. On(cut) \subseteq On(tagged)
    BY <1>1, <2>4, <2>6, PlaceOnPath
  <2>10. cut[Root] = tagged[Root]
    BY <1>3, <2>5 DEF Processes
  <2>11. QED
    BY <2>7, <2>8, <2>9, <2>10 DEF Tagged
<1>4. QED
  BY <1>2, <1>3

\* What the root has said stays, and only more is added.
RootGrows(path, more) ==
  /\ Len(path[Root]) \in Nat /\ Len(more[Root]) \in Nat
  /\ Len(path[Root]) <= Len(more[Root])
  /\ \A i \in 1..Len(path[Root]) : more[Root][i] = path[Root][i]

LEMMA RootGrowsByPush ==
  ASSUME NEW S, NEW path \in Paths(S), NEW p \in Processes, NEW m \in S
  PROVE  RootGrows(path, redirectToAncestor(path, p, m))
BY RedirectedPlaces DEF RootGrows, Processes

LEMMA RootKept ==
  ASSUME NEW S, NEW path \in Paths(S), NEW more, more[Root] = path[Root]
  PROVE  RootGrows(path, more)
<1>1. path[Root] \in Seq(S) /\ Len(path[Root]) \in Nat
  BY LenProperties DEF Paths, Processes
<1>2. QED
  BY <1>1 DEF RootGrows

-----------------------------------------------------------------------------
(***************************************************************************)
(* The commands a process has taken: passed is a set of pairs of a process *)
(* and a command.                                                          *)
(***************************************************************************)

\* m was submitted once at most: every exec, and a create with a new identifier.
Once(m) ==
  \A i, j \in DOMAIN submitted : submitted[i] = m /\ submitted[j] = m => i = j

OnlySubmitted(passed) ==
  passed \subseteq (Forked \cup {Root}) \X Range(submitted)

\* What a process has before it, or has taken, its parent has taken.
FromTheParent(passed, path) ==
  \A q \in Processes : q # Root =>
    /\ \A m \in Range(path[q]) : m # KillSignal => <<parent[q], m>> \in passed
    /\ \A m : <<q, m>> \in passed => <<parent[q], m>> \in passed

\* A command that was submitted once comes to a process once.
TakenOnce(passed, path) ==
  \A q \in Processes : \A i \in 1..Len(path[q]) :
    path[q][i] # KillSignal /\ Once(path[q][i]) =>
      /\ <<q, path[q][i]>> \notin passed
      /\ \A j \in 1..Len(path[q]) : path[q][j] = path[q][i] => j = i

PassedInv(passed, path) ==
  /\ path \in Paths(DownMsg)
  /\ OnlySubmitted(passed)
  /\ FromTheParent(passed, path)
  /\ TakenOnce(passed, path)

LEMMA PlaceInRange ==
  ASSUME NEW S, NEW path \in Paths(S), NEW q \in Processes, NEW m
  PROVE  m \in Range(path[q]) <=> \E i \in 1..Len(path[q]) : path[q][i] = m
<1>1. DOMAIN path[q] = 1..Len(path[q])
  BY LenProperties DEF Paths
<1>2. QED
  BY <1>1 DEF Range

\* A process takes a command.
LEMMA PassedTaken ==
  ASSUME NEW passed, NEW path, PassedInv(passed, path),
         NEW p \in Processes, p \in Forked \cup {Root}, path[p] # <<>>,
         NEW m, m = Head(path[p]), m # KillSignal, m \in Range(submitted)
  PROVE  PassedInv(passed \cup {<<p, m>>}, Consumed(path, p))
<1> DEFINE rest == Consumed(path, p)
           more == passed \cup {<<p, m>>}
<1>1. path \in Paths(DownMsg) /\ rest \in Paths(DownMsg)
  BY ConsumedIsPath DEF PassedInv
<1>2. /\ Len(path[p]) \in Nat \ {0} /\ m = path[p][1]
      /\ \A q \in Processes : Len(path[q]) \in Nat
      /\ \A q \in Processes :
           Len(rest[q]) = IF q = p THEN Len(path[q]) - 1 ELSE Len(path[q])
      /\ \A q \in Processes : \A i \in 1..Len(rest[q]) :
           rest[q][i] = IF q = p THEN path[q][i + 1] ELSE path[q][i]
  BY <1>1, ConsumedPlaces
<1>3. /\ m \in Range(path[p])
      /\ \A q \in Processes : Range(rest[q]) \subseteq Range(path[q])
  BY <1>1, ConsumedCarries
<1> HIDE DEF rest
<1>4. OnlySubmitted(more)
  BY DEF PassedInv, OnlySubmitted
<1>5. FromTheParent(more, rest)
  BY <1>3 DEF PassedInv, FromTheParent
<1>6. TakenOnce(more, rest)
  <2> SUFFICES ASSUME NEW q \in Processes, NEW i \in 1..Len(rest[q]),
                      rest[q][i] # KillSignal, Once(rest[q][i])
               PROVE  /\ <<q, rest[q][i]>> \notin more
                      /\ \A j \in 1..Len(rest[q]) :
                           rest[q][j] = rest[q][i] => j = i
    BY DEF TakenOnce
  <2>1. CASE q = p
    <3>1. ASSUME NEW j \in 1..Len(rest[p])
          PROVE  j + 1 \in 1..Len(path[p]) /\ rest[p][j] = path[p][j + 1]
      BY <1>2
    <3>2. /\ i + 1 \in 1..Len(path[p]) /\ rest[p][i] = path[p][i + 1]
          /\ 1 \in 1..Len(path[p]) /\ i \in Nat
      BY <1>2, <2>1, <3>1
    <3>3. /\ <<p, path[p][i + 1]>> \notin passed
          /\ \A j \in 1..Len(path[p]) : path[p][j] = path[p][i + 1] => j = i + 1
      BY <2>1, <3>2 DEF PassedInv, TakenOnce
    <3>4. rest[p][i] # m
      BY <1>2, <3>2, <3>3
    <3>5. \A j \in 1..Len(rest[p]) : rest[p][j] = rest[p][i] => j = i
      BY <3>1, <3>2, <3>3
    <3>6. QED
      BY <2>1, <3>2, <3>3, <3>4, <3>5
  <2>2. CASE q # p
    <3>1. /\ Len(rest[q]) = Len(path[q])
          /\ \A j \in 1..Len(rest[q]) : rest[q][j] = path[q][j]
      BY <1>2, <2>2
    <3>2. QED
      BY <2>2, <3>1 DEF PassedInv, TakenOnce
  <2>3. QED
    BY <2>1, <2>2
<1>7. QED
  BY <1>1, <1>4, <1>5, <1>6 DEF PassedInv, rest

\* The places of the paths downwards with a message for all children added.
PushedToChildren(path, p, m, more) ==
  /\ \A q \in Processes : Len(path[q]) \in Nat
  /\ \A q \in Processes :
       Len(more[q]) = IF q \in Children(p) THEN Len(path[q]) + 1 ELSE Len(path[q])
  /\ \A q \in Processes : \A i \in 1..Len(path[q]) : more[q][i] = path[q][i]
  /\ \A q \in Processes : q \in Children(p) => more[q][Len(path[q]) + 1] = m

LEMMA RedirectedToNodesPlaces ==
  ASSUME NEW S, NEW path \in Paths(S), NEW p \in Processes, NEW m \in S
  PROVE  PushedToChildren(path, p, m, redirectToNodes(path, p, m))
<1>1. \A q \in Processes : path[q] \in Seq(S) /\ Len(path[q]) \in Nat
  BY LenProperties DEF Paths
<1>2. \A q \in Processes :
        /\ Len(Append(path[q], m)) = Len(path[q]) + 1
        /\ \A i \in 1..Len(path[q]) : Append(path[q], m)[i] = path[q][i]
        /\ Append(path[q], m)[Len(path[q]) + 1] = m
  BY <1>1, AppendProperties
<1>3. \A q \in Processes :
        redirectToNodes(path, p, m)[q] =
          IF q \in Children(p) THEN Append(path[q], m) ELSE path[q]
  BY DEF redirectToNodes
<1>4. QED
  BY <1>1, <1>2, <1>3 DEF PushedToChildren

\* A process takes a command and passes it on to its children.
LEMMA PassedRedirected ==
  ASSUME TypeOK, TreeShape, NEW passed, NEW path, PassedInv(passed, path),
         NEW p \in Processes, p \in Forked \cup {Root}, path[p] # <<>>,
         NEW m, m = Head(path[p]), m # KillSignal, m \in Range(submitted)
  PROVE  PassedInv(passed \cup {<<p, m>>},
                   redirectToNodes(Consumed(path, p), p, m))
<1> DEFINE rest == Consumed(path, p)
           more == passed \cup {<<p, m>>}
           sent == redirectToNodes(rest, p, m)
<1>1. PassedInv(more, rest)
  BY PassedTaken
<1>2. /\ path \in Paths(DownMsg) /\ m \in DownMsg /\ m \in Range(path[p])
      /\ rest \in Paths(DownMsg)
      /\ \A q \in Processes : Range(rest[q]) \subseteq Range(path[q])
  BY ConsumedIsPath, ConsumedCarries DEF PassedInv
<1> HIDE DEF rest
<1>3. sent \in Paths(DownMsg)
  BY <1>2, RedirectedIsPath
<1>4. /\ \A q \in Processes : Len(rest[q]) \in Nat
      /\ \A q \in Processes :
           Len(sent[q]) = IF q \in Children(p) THEN Len(rest[q]) + 1
                                               ELSE Len(rest[q])
      /\ \A q \in Processes : \A i \in 1..Len(rest[q]) : sent[q][i] = rest[q][i]
      /\ \A q \in Processes : q \in Children(p) => sent[q][Len(rest[q]) + 1] = m
  <2>1. PushedToChildren(rest, p, m, sent)
    BY <1>2, RedirectedToNodesPlaces, Zenon
  <2>2. QED
    BY <2>1, Zenon DEF PushedToChildren
<1>5. \A q \in Processes :
        Range(sent[q]) \subseteq
          Range(rest[q]) \cup (IF q \in Children(p) THEN {m} ELSE {})
  BY <1>2, RedirectedCarries
<1> HIDE DEF sent
<1>6. \A q \in Children(p) : q \in Forked /\ parent[q] = p /\ q # p /\ q # Root
  <2> SUFFICES ASSUME NEW q \in Children(p)
               PROVE  q \in Forked /\ parent[q] = p /\ q # p /\ q # Root
    OBVIOUS
  <2>1. q \in Forked /\ q \in Pids /\ parent[q] = p
    BY ChildrenAreForked
  <2>2. p < q /\ q \in Nat /\ p \in Nat
    BY <2>1 DEF TreeShape, ParentsAreOlder, Processes, Pids, Root
  <2>3. QED
    BY <2>1, <2>2 DEF Pids, Root
<1>7. FromTheParent(more, sent)
  BY <1>1, <1>5, <1>6 DEF PassedInv, FromTheParent
<1>8. Once(m) => <<p, m>> \notin passed
  <2>1. \E i \in 1..Len(path[p]) : path[p][i] = m
    BY <1>2, PlaceInRange
  <2>2. QED
    BY <2>1 DEF PassedInv, TakenOnce
<1>9. ASSUME Once(m), NEW c \in Processes, c \in Children(p)
      PROVE  <<c, m>> \notin more /\ m \notin Range(rest[c])
  <2>1. <<c, m>> \notin passed /\ m \notin Range(path[c])
    BY <1>6, <1>8, <1>9 DEF PassedInv, FromTheParent
  <2>2. QED
    BY <1>2, <1>6, <1>9, <2>1
<1>10. TakenOnce(more, sent)
  <2> SUFFICES ASSUME NEW q \in Processes, NEW i \in 1..Len(sent[q]),
                      sent[q][i] # KillSignal, Once(sent[q][i])
               PROVE  /\ <<q, sent[q][i]>> \notin more
                      /\ \A j \in 1..Len(sent[q]) :
                           sent[q][j] = sent[q][i] => j = i
    BY DEF TakenOnce
  <2>1. CASE q \notin Children(p)
    <3>1. /\ Len(sent[q]) = Len(rest[q])
          /\ \A j \in 1..Len(sent[q]) : sent[q][j] = rest[q][j]
      BY <1>4, <2>1
    <3>2. QED
      BY <1>1, <3>1 DEF PassedInv, TakenOnce
  <2>2. CASE q \in Children(p)
    <3>1. ASSUME NEW j \in 1..Len(sent[q])
          PROVE  \/ /\ j \in 1..Len(rest[q]) /\ sent[q][j] = rest[q][j]
                    /\ sent[q][j] \in Range(rest[q])
                 \/ j = Len(rest[q]) + 1 /\ sent[q][j] = m
      <4>1. CASE j \in 1..Len(rest[q])
        BY <1>2, <1>4, <4>1, PlaceInRange
      <4>2. CASE j = Len(rest[q]) + 1
        BY <1>4, <2>2, <4>2
      <4>3. QED
        BY <1>4, <2>2, <4>1, <4>2
    <3>2. CASE sent[q][i] = m
      <4>1. Once(m) /\ <<q, m>> \notin more /\ m \notin Range(rest[q])
        BY <1>9, <2>2, <3>2
      <4>2. QED
        BY <3>1, <3>2, <4>1
    <3>3. CASE sent[q][i] # m
      <4>1. i \in 1..Len(rest[q]) /\ sent[q][i] = rest[q][i]
        BY <3>1, <3>3
      <4>2. /\ <<q, rest[q][i]>> \notin more
            /\ \A j \in 1..Len(rest[q]) : rest[q][j] = rest[q][i] => j = i
        BY <1>1, <4>1 DEF PassedInv, TakenOnce
      <4>3. QED
        BY <3>1, <3>3, <4>1, <4>2
    <3>4. QED
      BY <3>2, <3>3
  <2>3. QED
    BY <2>1, <2>2
<1>11. QED
  BY <1>1, <1>3, <1>7, <1>10 DEF PassedInv, rest, sent

\* Paths that carry no commands but those of path, in the same order.
OnlyTaken(path, rest) ==
  \A q \in Processes : \E s \in Nat : \A i \in 1..Len(rest[q]) :
    \/ rest[q][i] = KillSignal
    \/ i + s \in 1..Len(path[q]) /\ path[q][i + s] = rest[q][i]

\* Messages that are lost and KillSignals change nothing.
LEMMA PassedShortened ==
  ASSUME NEW passed, NEW path, PassedInv(passed, path),
         NEW rest \in Paths(DownMsg), OnlyTaken(path, rest)
  PROVE  /\ PassedInv(passed, rest)
         /\ \A q \in Processes :
              Range(rest[q]) \subseteq Range(path[q]) \cup {KillSignal}
<1>1. path \in Paths(DownMsg)
  BY DEF PassedInv
<1>2. ASSUME NEW q \in Processes
      PROVE  Range(rest[q]) \subseteq Range(path[q]) \cup {KillSignal}
  <2> SUFFICES ASSUME NEW m \in Range(rest[q]), m # KillSignal
               PROVE  m \in Range(path[q])
    OBVIOUS
  <2>1. PICK i \in 1..Len(rest[q]) : rest[q][i] = m
    BY PlaceInRange
  <2>2. \E j \in 1..Len(path[q]) : path[q][j] = m
    BY <2>1 DEF OnlyTaken
  <2>3. QED
    BY <1>1, <2>2, PlaceInRange
<1>3. FromTheParent(passed, rest)
  BY <1>2 DEF PassedInv, FromTheParent
<1>4. TakenOnce(passed, rest)
  <2> SUFFICES ASSUME NEW q \in Processes, NEW i \in 1..Len(rest[q]),
                      rest[q][i] # KillSignal, Once(rest[q][i])
               PROVE  /\ <<q, rest[q][i]>> \notin passed
                      /\ \A j \in 1..Len(rest[q]) :
                           rest[q][j] = rest[q][i] => j = i
    BY DEF TakenOnce
  <2>1. PICK s \in Nat : \A j \in 1..Len(rest[q]) :
          \/ rest[q][j] = KillSignal
          \/ j + s \in 1..Len(path[q]) /\ path[q][j + s] = rest[q][j]
    BY DEF OnlyTaken
  <2>2. i + s \in 1..Len(path[q]) /\ path[q][i + s] = rest[q][i]
    BY <2>1
  <2>3. /\ <<q, path[q][i + s]>> \notin passed
        /\ \A k \in 1..Len(path[q]) : path[q][k] = path[q][i + s] => k = i + s
    BY <2>2 DEF PassedInv, TakenOnce
  <2>4. ASSUME NEW j \in 1..Len(rest[q]), rest[q][j] = rest[q][i]
        PROVE  j = i
    <3>1. j + s \in 1..Len(path[q]) /\ path[q][j + s] = path[q][i + s]
      BY <2>1, <2>2, <2>4
    <3>2. j + s = i + s
      BY <2>3, <3>1
    <3>3. QED
      BY <3>2
  <2>5. QED
    BY <2>2, <2>3, <2>4
<1>5. QED
  BY <1>2, <1>3, <1>4 DEF PassedInv

\* The history that is kept keeps what was passed.
LEMMA PassedFrame ==
  ASSUME NEW passed, NEW path, PassedInv(passed, path), HistoryKept,
         submitted' = submitted,
         \A q \in Processes : q \notin Forked \cup {Root} => path[q] = <<>>
  PROVE  PassedInv(passed, path)'
<1>1. OnlySubmitted(passed)'
  BY DEF PassedInv, OnlySubmitted, HistoryKept
<1>2. \A m : Once(m)' <=> Once(m)
  BY DEF Once
<1>3. TakenOnce(passed, path)'
  BY <1>2 DEF PassedInv, TakenOnce
<1>4. FromTheParent(passed, path)'
  <2> SUFFICES ASSUME NEW q \in Processes, q # Root
               PROVE  /\ \A m \in Range(path[q]) :
                           m # KillSignal => <<parent'[q], m>> \in passed
                      /\ \A m : <<q, m>> \in passed => <<parent'[q], m>> \in passed
    BY DEF FromTheParent
  <2>1. CASE q \in Forked
    <3>1. parent'[q] = parent[q]
      BY <2>1 DEF HistoryKept
    <3>2. QED
      BY <3>1 DEF PassedInv, FromTheParent
  <2>2. CASE q \notin Forked
    <3>1. path[q] = <<>> /\ Range(<<>>) = {}
      BY <2>2 DEF Range
    <3>2. \A m : <<q, m>> \notin passed
      BY <2>2 DEF PassedInv, OnlySubmitted
    <3>3. QED
      BY <3>1, <3>2
  <2>3. QED
    BY <2>1, <2>2
<1>5. QED
  BY <1>1, <1>3, <1>4 DEF PassedInv

\* A new command is nobody's yet; one that was submitted before is not sent
\* only once.
LEMMA PassedSubmit ==
  ASSUME TypeOK, CommandsAreSubmitted, HistoryKept, TypeOK',
         NEW passed, PassedInv(passed, down),
         NEW cmd \in Commands, Submit(cmd)
  PROVE  PassedInv(passed, down)'
<1>1. PICK c : /\ submitted' = Append(submitted, c)
               /\ down' = redirectToAncestor(down, Root, c)
               /\ UNCHANGED <<forked, parent>>
  BY DEF Submit, redirectToAncestor
<1>2. /\ submitted \in Seq(CommandMsg) /\ Len(submitted) \in Nat
      /\ DOMAIN submitted = 1..Len(submitted)
      /\ submitted' \in Seq(CommandMsg) /\ Len(submitted') \in Nat
      /\ DOMAIN submitted' = 1..Len(submitted')
  BY LenProperties DEF TypeOK
<1>3. /\ submitted \in Seq(CommandMsg \cup {c})
      /\ c \in CommandMsg \cup {c}
  BY <1>2
<1>4. /\ Len(submitted') = Len(submitted) + 1
      /\ \A i \in 1..Len(submitted) : submitted'[i] = submitted[i]
      /\ submitted'[Len(submitted) + 1] = c
  BY <1>1, <1>3, AppendProperties
<1>5. c \in CommandMsg
  <2>1. Len(submitted) + 1 \in 1..Len(submitted')
    BY <1>2, <1>4
  <2>2. submitted'[Len(submitted) + 1] \in CommandMsg
    BY <1>2, <2>1, ElementOfSeq
  <2>3. QED
    BY <1>4, <2>2
<1>6. c \in DownMsg /\ down \in Paths(DownMsg) /\ down' \in Paths(DownMsg)
  BY <1>5 DEF DownMsg, TypeOK, Paths
<1>7. /\ \A q \in Processes : Len(down[q]) \in Nat
      /\ \A q \in Processes :
           Len(down'[q]) = IF q = Root THEN Len(down[q]) + 1 ELSE Len(down[q])
      /\ \A q \in Processes : \A i \in 1..Len(down[q]) :
           down'[q][i] = down[q][i]
      /\ down'[Root][Len(down[Root]) + 1] = c
  BY <1>1, <1>6, RedirectedPlaces DEF Processes
<1>8. \A q \in Processes : q # Root => down'[q] = down[q]
  BY <1>1 DEF redirectToAncestor
<1>9. Range(submitted) \subseteq Range(submitted')
  BY <1>2, <1>4 DEF Range
<1>10. OnlySubmitted(passed)'
  BY <1>1, <1>9 DEF PassedInv, OnlySubmitted, Forked
<1>11. FromTheParent(passed, down)'
  BY <1>1, <1>8 DEF PassedInv, FromTheParent
<1>12. \A m : Once(m)' => Once(m)
  BY <1>2, <1>4 DEF Once
<1>13. Once(c)' => c \notin Range(submitted)
  <2> SUFFICES ASSUME Once(c)', NEW i \in DOMAIN submitted, submitted[i] = c
               PROVE  FALSE
    BY DEF Range
  <2>1. /\ i \in DOMAIN submitted' /\ submitted'[i] = c
        /\ Len(submitted) + 1 \in DOMAIN submitted'
    BY <1>2, <1>4
  <2>2. i = Len(submitted) + 1
    BY <1>4, <2>1 DEF Once
  <2>3. QED
    BY <1>2, <2>2
<1>14. Once(c)' => /\ \A q \in Processes : <<q, c>> \notin passed
                   /\ c \notin Range(down[Root])
  <2>1. \A q \in Processes : <<q, c>> \in passed => c \in Range(submitted)
    BY DEF PassedInv, OnlySubmitted
  <2>2. c \in Range(down[Root]) => c \in Range(submitted)
    BY <1>5 DEF CommandsAreSubmitted, IsSubmitted, On, Processes,
                CommandMsg, CommandPrintTree, KillSignal
  <2>3. QED
    BY <1>13, <2>1, <2>2
<1>15. TakenOnce(passed, down)'
  <2> SUFFICES ASSUME NEW q \in Processes, NEW i \in 1..Len(down'[q]),
                      NEW m, m = down'[q][i], m # KillSignal, Once(m)'
               PROVE  /\ <<q, m>> \notin passed
                      /\ \A j \in 1..Len(down'[q]) : down'[q][j] = m => j = i
    BY DEF TakenOnce, Once
  <2>1. CASE q # Root
    <3>1. down'[q] = down[q]
      BY <1>8, <2>1
    <3>2. QED
      BY <1>12, <3>1 DEF PassedInv, TakenOnce
  <2>2. CASE q = Root
    <3>1. ASSUME NEW j \in 1..Len(down'[q])
          PROVE  \/ /\ j \in 1..Len(down[q]) /\ down'[q][j] = down[q][j]
                    /\ down'[q][j] \in Range(down[q])
                 \/ j = Len(down[q]) + 1 /\ down'[q][j] = c
      <4>1. CASE j \in 1..Len(down[q])
        BY <1>6, <1>7, <4>1, PlaceInRange
      <4>2. CASE j = Len(down[q]) + 1
        BY <1>7, <2>2, <4>2
      <4>3. QED
        BY <1>7, <2>2, <4>1, <4>2
    <3>2. CASE m = c
      <4>1. <<q, c>> \notin passed /\ c \notin Range(down[q])
        BY <1>14, <2>2, <3>2
      <4>2. QED
        BY <3>1, <3>2, <4>1
    <3>3. CASE m # c
      <4>1. i \in 1..Len(down[q]) /\ m = down[q][i]
        BY <3>1, <3>3
      <4>2. /\ <<q, down[q][i]>> \notin passed
            /\ \A j \in 1..Len(down[q]) : down[q][j] = down[q][i] => j = i
        BY <1>12, <4>1 DEF PassedInv, TakenOnce
      <4>3. QED
        BY <3>1, <3>3, <4>1, <4>2
    <3>4. QED
      BY <3>2, <3>3
  <2>3. QED
    BY <2>1, <2>2
<1>16. QED
  BY <1>6, <1>10, <1>11, <1>15 DEF PassedInv

\* A node was created by its parent, which took the command.
CommandedBy(passed) ==
  \A c \in Forked :
    <<parent[c], CommandCreate(nodeId[c], nodeId[parent[c]])>> \in passed

\* What is before c, or what it has taken.
Reaches(passed, path, c, m) == m \in Range(path[c]) \/ <<c, m>> \in passed

\* What a step does to the commands: more are taken, and what was erased by its
\* parent gets no exec any more.
DownStep(passed, more) ==
  /\ passed \subseteq more
  /\ PassedInv(more, down)'
  /\ CommandedBy(more)'
  /\ \A c \in Forked : c \notin Children(parent[c]) =>
       \A m : /\ m.type = "CommandExec"
              /\ Reaches(more, down', c, m)
              => Reaches(passed, down, c, m)

LEMMA CommandedKept ==
  ASSUME TypeOK, TreeShape, HistoryKept, forked' = forked,
         NEW passed, CommandedBy(passed), NEW more, passed \subseteq more
  PROVE  CommandedBy(more)'
<1> SUFFICES ASSUME NEW d \in Forked
             PROVE  <<parent'[d], CommandCreate(nodeId'[d], nodeId'[parent'[d]])>>
                      \in more
  BY DEF CommandedBy, Forked
<1>1. nodeId'[d] = nodeId[d] /\ parent'[d] = parent[d]
  BY DEF HistoryKept
<1>2. nodeId'[parent[d]] = nodeId[parent[d]]
  BY ParentIsThere DEF HistoryKept
<1>3. QED
  BY <1>1, <1>2 DEF CommandedBy

LEMMA DownSubmit ==
  ASSUME TypeOK, TreeShape, CommandsAreSubmitted, HistoryKept, TypeOK',
         NEW passed, PassedInv(passed, down), CommandedBy(passed),
         NEW cmd \in Commands, Submit(cmd)
  PROVE  DownStep(passed, passed)
<1>1. forked' = forked /\ \A q \in Processes : q # Root => down'[q] = down[q]
  BY DEF Submit
<1>2. \A c \in Forked : c # Root /\ c \in Processes
  BY ForkedAreProcesses DEF Pids, Root
<1>3. PassedInv(passed, down)' /\ CommandedBy(passed)'
  BY <1>1, PassedSubmit, CommandedKept
<1>4. QED
  BY <1>1, <1>2, <1>3 DEF DownStep, Reaches

\* A step that loses messages and sends KillSignals.
LEMMA DownShortened ==
  ASSUME TypeOK, TreeShape, KillInv', HistoryKept, TypeOK',
         NEW passed, PassedInv(passed, down), CommandedBy(passed),
         UNCHANGED <<forked, submitted>>, OnlyTaken(down, down')
  PROVE  DownStep(passed, passed)
<1>0. PICK path : path = down'
  OBVIOUS
<1>1. path \in Paths(DownMsg)
  BY <1>0 DEF TypeOK, Paths
<1>2. /\ PassedInv(passed, path)
      /\ \A q \in Processes :
           Range(path[q]) \subseteq Range(down[q]) \cup {KillSignal}
  BY <1>0, <1>1, PassedShortened
<1>3. \A q \in Processes : q \notin Forked \cup {Root} => path[q] = <<>>
  BY <1>0 DEF KillInv, UnforkedAreSilent, Processes, Forked
<1>4. PassedInv(passed, path)'
  BY <1>2, <1>3, PassedFrame
<1>5. PassedInv(passed, down)'
  BY <1>0, <1>4 DEF PassedInv, OnlySubmitted, FromTheParent, TakenOnce
<1>6. CommandedBy(passed)'
  BY CommandedKept
<1>7. Forked \subseteq Processes
  BY ForkedAreProcesses
<1>8. QED
  BY <1>0, <1>2, <1>5, <1>6, <1>7 DEF DownStep, Reaches, KillSignal

\* What a process finds at the head of its path.
LEMMA CommandTaken ==
  ASSUME TypeOK, TreeShape, CommandsAreSubmitted, NEW p \in Processes,
         phase[p] = "running", down[p] # <<>>, Head(down[p]).type # "KillSignal"
  PROVE  /\ p \in Forked \cup {Root}
         /\ Head(down[p]) # KillSignal
         /\ Head(down[p]) \in DownMsg
         /\ Head(down[p]) \in Range(down[p])
         /\ IsSubmitted(Head(down[p]))
<1>1. p \in Forked \cup {Root}
  BY ActiveIsForked
<1>2. Head(down[p]) \in DownMsg /\ Head(down[p]) \in Range(down[p])
  BY TypedPaths, ConsumedIsPath, ConsumedCarries
<1>3. Head(down[p]) # KillSignal
  BY DEF KillSignal
<1>4. QED
  BY <1>1, <1>2, <1>3 DEF CommandsAreSubmitted, On

\* A process takes a command and may pass it on.
LEMMA DownTaken ==
  ASSUME TypeOK, TreeShape, CommandsAreSubmitted, KillInv, HistoryKept, TypeOK',
         NEW passed, PassedInv(passed, down), NEW p \in Processes,
         phase[p] = "running", down[p] # <<>>, Head(down[p]).type # "KillSignal",
         submitted' = submitted,
         \/ down' = Consumed(down, p)
         \/ down' = redirectToNodes(Consumed(down, p), p, Head(down[p]))
  PROVE  \E more : /\ more = passed \cup {<<p, Head(down[p])>>}
                   /\ PassedInv(more, down)'
                   /\ CommandedBy(more)' => DownStep(passed, more)
<1>1. PICK m : m = Head(down[p])
  OBVIOUS
<1>2. PICK more : more = passed \cup {<<p, m>>}
  OBVIOUS
<1>3. PICK path : path = down'
  OBVIOUS
<1>4. /\ p \in Forked \cup {Root} /\ m # KillSignal /\ m \in DownMsg
      /\ m \in Range(down[p]) /\ m \in Range(submitted)
  BY <1>1, CommandTaken DEF IsSubmitted
<1>5. PassedInv(more, path)
  <2>1. CASE path = Consumed(down, p)
    BY <1>1, <1>2, <1>4, <2>1, PassedTaken, Zenon
  <2>2. CASE path = redirectToNodes(Consumed(down, p), p, m)
    BY <1>1, <1>2, <1>4, <2>2, PassedRedirected, Zenon
  <2>3. QED
    BY <1>1, <1>3, <2>1, <2>2, Zenon
<1>6. \A q \in Processes : q \notin Forked \cup {Root} => path[q] = <<>>
  BY <1>1, <1>3, <1>4, ForwardingKillsNone
     DEF KillInv, UnforkedAreSilent, Processes
<1>7. PassedInv(more, path)'
  BY <1>5, <1>6, PassedFrame
<1>8. PassedInv(more, down)'
  BY <1>3, <1>7 DEF PassedInv, OnlySubmitted, FromTheParent, TakenOnce
<1>9. ASSUME NEW c \in Forked, c \notin Children(parent[c]),
             NEW x, Reaches(more, down', c, x)
      PROVE  Reaches(passed, down, c, x)
  <2>1. c \in Processes /\ c \notin Children(p)
    BY <1>9, ForkedAreProcesses, ChildrenAreForked
  <2>2. Range(down'[c]) \subseteq Range(down[c])
    BY <1>1, <1>4, <2>1, ForwardingKillsNone
  <2>3. <<c, x>> \in more => <<c, x>> \in passed \/ (c = p /\ x = m)
    BY <1>2
  <2>4. QED
    BY <1>4, <1>9, <2>2, <2>3 DEF Reaches
<1>10. CommandedBy(more)' => DownStep(passed, more)
  BY <1>2, <1>8, <1>9 DEF DownStep
<1>11. QED
  BY <1>1, <1>2, <1>8, <1>10

\* What a command does to the paths downwards.
LEMMA TakesCommand ==
  ASSUME NEW p \in Processes, HandleCommand(p)
  PROVE  /\ phase[p] = "running" /\ down[p] # <<>>
         /\ Head(down[p]).type # "KillSignal"
         /\ submitted' = submitted
         /\ \/ down' = Consumed(down, p)
            \/ down' = redirectToNodes(Consumed(down, p), p, Head(down[p]))
         /\ UNCHANGED <<forked, children, parent, nodeId>> \/ CreateHere(p)
BY DEF HandleCommand, CreateNodeExists, CreateHere, CreateForkFails,
       CreateElsewhere, ReceivesCreateHere, ExecuteHere, ExecElsewhere,
       IgnoreCommand, RedirectCommand, Receives

\* The new node's parent takes the create.
LEMMA DownCreate ==
  ASSUME TypeOK, TreeShape, CommandsAreSubmitted, HistoryKept,
         NEW passed, CommandedBy(passed), NEW p \in Processes, CreateHere(p),
         NEW more, more = passed \cup {<<p, Head(down[p])>>}
  PROVE  CommandedBy(more)'
<1>0. PICK c : c = forked + 1
  OBVIOUS
<1>1. PICK m : m = Head(down[p])
  OBVIOUS
<1>2. /\ m.type = "CommandCreate" /\ m.parentId = nodeId[p]
      /\ phase[p] = "running" /\ down[p] # <<>>
      /\ forked' = c /\ c <= MaxPid
      /\ nodeId' = [nodeId EXCEPT ![c] = m.newNodeId]
      /\ parent' = [parent EXCEPT ![c] = p]
  BY <1>0, <1>1, ConstantsAssumption
     DEF CreateHere, ReceivesCreateHere, Receives, TypeOK
<1>3. /\ c \in Processes /\ Forked' = Forked \cup {c}
  BY <1>0, <1>2, ConstantsAssumption DEF TypeOK, Forked, Processes, Pids
<1>4. m \in DownMsg /\ p \in Forked \cup {Root}
  BY <1>1, <1>2, CommandTaken
<1>5. m = CommandCreate(m.newNodeId, nodeId[p])
  BY <1>2, <1>4
     DEF DownMsg, CommandMsg, CommandCreate, KillSignal, CommandPrintTree
<1>6. nodeId'[p] = nodeId[p] /\ nodeId'[c] = m.newNodeId /\ parent'[c] = p
  BY <1>2, <1>3, <1>4 DEF TypeOK, HistoryKept
<1>7. ASSUME NEW d \in Forked
      PROVE  <<parent'[d], CommandCreate(nodeId'[d], nodeId'[parent'[d]])>> \in more
  <2>1. nodeId'[d] = nodeId[d] /\ parent'[d] = parent[d]
    BY DEF HistoryKept
  <2>2. nodeId'[parent[d]] = nodeId[parent[d]]
    BY ParentIsThere DEF HistoryKept
  <2>3. QED
    BY <2>1, <2>2 DEF CommandedBy
<1>8. <<parent'[c], CommandCreate(nodeId'[c], nodeId'[parent'[c]])>> \in more
  BY <1>1, <1>5, <1>6
<1>9. QED
  BY <1>3, <1>7, <1>8 DEF CommandedBy

LEMMA DownHandleCommand ==
  ASSUME TypeOK, TreeShape, CommandsAreSubmitted, KillInv, HistoryKept, TypeOK',
         NEW passed, PassedInv(passed, down), CommandedBy(passed),
         NEW p \in Processes, HandleCommand(p)
  PROVE  \E more : /\ DownStep(passed, more)
                   /\ <<p, Head(down[p])>> \in more
<1>1. PICK more : /\ more = passed \cup {<<p, Head(down[p])>>}
                  /\ CommandedBy(more)' => DownStep(passed, more)
  BY TakesCommand, DownTaken
<1>2. CommandedBy(more)'
  <2>1. CASE CreateHere(p)
    BY <1>1, <2>1, DownCreate
  <2>2. CASE forked' = forked
    BY <1>1, <2>2, CommandedKept
  <2>3. QED
    BY <2>1, <2>2, TakesCommand
<1>3. QED
  BY <1>1, <1>2

\* A path that is cut.
LEMMA PrefixTaken ==
  ASSUME NEW S, NEW s \in Seq(S), NEW t \in Seq({KillSignal}),
         NEW n \in 0..Len(s \o t)
  PROVE  \A i \in 1..Len(SubSeq(s \o t, 1, n)) :
           \/ SubSeq(s \o t, 1, n)[i] = KillSignal
           \/ i \in 1..Len(s) /\ s[i] = SubSeq(s \o t, 1, n)[i]
<1>1. /\ s \in Seq(S \cup {KillSignal}) /\ t \in Seq(S \cup {KillSignal})
      /\ Len(s) \in Nat /\ Len(t) \in Nat
  BY LenProperties
<1>2. /\ s \o t \in Seq(S \cup {KillSignal})
      /\ Len(s \o t) = Len(s) + Len(t)
      /\ \A i \in 1..Len(s) + Len(t) :
           (s \o t)[i] = IF i <= Len(s) THEN s[i] ELSE t[i - Len(s)]
  BY <1>1, ConcatProperties
<1>3. \A i \in 1..Len(t) : t[i] = KillSignal
  BY ElementOfSeq
<1>4. \A i \in 1..n : i \in 1..Len(s \o t)
  BY <1>1, <1>2
<1>5. /\ Len(SubSeq(s \o t, 1, n)) = n
      /\ \A i \in 1..n : SubSeq(s \o t, 1, n)[i] = (s \o t)[i]
  <2>1. CASE n = 0
    BY <1>1, <1>2, <2>1, SubSeqProperties
  <2>2. CASE n # 0
    BY <1>1, <1>2, <1>4, <2>2, SubSeqProperties
  <2>3. QED
    BY <2>1, <2>2
<1>6. QED
  BY <1>1, <1>2, <1>3, <1>5

\* The steps downwards that are none of the commands.
LEMMA KillSignalTaken ==
  ASSUME TypeOK, NEW p \in Processes, HandleKillSignal(p)
  PROVE  OnlyTaken(down, down')
<1> DEFINE rest == Consumed(down, p)
           sent == redirectToNodes(rest, p, KillSignal)
<1>1. down[p] # <<>> /\ down' = sent
  BY DEF HandleKillSignal, Receives
<1>2. /\ down \in Paths(DownMsg) /\ rest \in Paths(DownMsg)
      /\ KillSignal \in DownMsg
  BY <1>1, TypedPaths, ConsumedIsPath DEF DownMsg
<1>3. /\ \A q \in Processes : Len(down[q]) \in Nat
      /\ \A q \in Processes :
           Len(rest[q]) = IF q = p THEN Len(down[q]) - 1 ELSE Len(down[q])
      /\ \A q \in Processes : \A i \in 1..Len(rest[q]) :
           rest[q][i] = IF q = p THEN down[q][i + 1] ELSE down[q][i]
  BY <1>1, <1>2, ConsumedPlaces
<1> HIDE DEF rest
<1>4. /\ \A q \in Processes : Len(rest[q]) \in Nat
      /\ \A q \in Processes :
           Len(sent[q]) = IF q \in Children(p) THEN Len(rest[q]) + 1
                                               ELSE Len(rest[q])
      /\ \A q \in Processes : \A i \in 1..Len(rest[q]) : sent[q][i] = rest[q][i]
      /\ \A q \in Processes :
           q \in Children(p) => sent[q][Len(rest[q]) + 1] = KillSignal
  <2>1. PushedToChildren(rest, p, KillSignal, sent)
    BY <1>2, RedirectedToNodesPlaces, Zenon
  <2>2. QED
    BY <2>1, Zenon DEF PushedToChildren
<1> HIDE DEF sent
<1> SUFFICES ASSUME NEW q \in Processes
             PROVE  \E s \in Nat : \A i \in 1..Len(sent[q]) :
                      \/ sent[q][i] = KillSignal
                      \/ i + s \in 1..Len(down[q]) /\ down[q][i + s] = sent[q][i]
  BY <1>1 DEF OnlyTaken
<1>5. PICK s \in {0, 1} : s = IF q = p THEN 1 ELSE 0
  OBVIOUS
<1>6. ASSUME NEW i \in 1..Len(sent[q])
      PROVE  \/ sent[q][i] = KillSignal
             \/ i + s \in 1..Len(down[q]) /\ down[q][i + s] = sent[q][i]
  <2>1. CASE i \in 1..Len(rest[q])
    <3>1. sent[q][i] = rest[q][i]
      BY <1>4, <2>1
    <3>2. CASE q = p
      <4>1. s = 1 /\ i + 1 \in 1..Len(down[q]) /\ rest[q][i] = down[q][i + 1]
        BY <1>3, <1>5, <2>1, <3>2
      <4>2. QED
        BY <3>1, <4>1
    <3>3. CASE q # p
      <4>1. /\ s = 0 /\ i + 0 = i
            /\ i \in 1..Len(down[q]) /\ rest[q][i] = down[q][i]
        BY <1>3, <1>5, <2>1, <3>3
      <4>2. QED
        BY <3>1, <4>1
    <3>4. QED
      BY <3>2, <3>3
  <2>2. CASE i \notin 1..Len(rest[q])
    <3>1. q \in Children(p) /\ i = Len(rest[q]) + 1
      BY <1>4, <1>6, <2>2
    <3>2. QED
      BY <1>4, <3>1
  <2>3. QED
    BY <2>1, <2>2
<1>7. s \in Nat
  OBVIOUS
<1>8. QED
  BY <1>6, <1>7

\* Every path is cut, or has KillSignals added, or stays.
LEMMA CutIsTaken ==
  ASSUME NEW path \in Paths(DownMsg), NEW rest,
         \A q \in Processes :
           \/ rest[q] = path[q]
           \/ \E t \in Seq({KillSignal}) : \E n \in 0..Len(path[q] \o t) :
                rest[q] = SubSeq(path[q] \o t, 1, n)
  PROVE  OnlyTaken(path, rest)
<1> SUFFICES ASSUME NEW q \in Processes
             PROVE  \A i \in 1..Len(rest[q]) :
                      \/ rest[q][i] = KillSignal
                      \/ i \in 1..Len(path[q]) /\ path[q][i] = rest[q][i]
  <2>1. \A q \in Processes : \A i \in 1..Len(rest[q]) : i + 0 = i
    OBVIOUS
  <2>2. QED
    BY <2>1 DEF OnlyTaken
<1>1. CASE rest[q] = path[q]
  BY <1>1
<1>2. ASSUME NEW t \in Seq({KillSignal}), NEW n \in 0..Len(path[q] \o t),
             rest[q] = SubSeq(path[q] \o t, 1, n)
      PROVE  \A i \in 1..Len(rest[q]) :
               \/ rest[q][i] = KillSignal
               \/ i \in 1..Len(path[q]) /\ path[q][i] = rest[q][i]
  <2>1. path[q] \in Seq(DownMsg)
    BY DEF Paths
  <2>2. QED
    BY <1>2, <2>1, PrefixTaken
<1>3. QED
  BY <1>1, <1>2

LEMMA ExitTaken ==
  ASSUME TypeOK, NEW p \in Processes, Exit(p)
  PROVE  OnlyTaken(down, down')
<1> DEFINE t == <<KillSignal, KillSignal>>
           queued(c) == down[c] \o t
<1>1. PICK sent \in [Children(p)
                         -> UNION {0..Len(queued(c)) : c \in Children(p)}] :
          /\ \A c \in Children(p) : sent[c] <= Len(queued(c))
          /\ down' = [c \in Processes |->
                       IF c \in Children(p)
                       THEN SubSeq(queued(c), 1, sent[c])
                       ELSE down[c]]
  BY DEF Exit
<1>2. t \in Seq({KillSignal})
  OBVIOUS
<1>3. \A c \in Processes : down[c] \in Seq(DownMsg) /\ Len(queued(c)) \in Nat
  <2>1. \A c \in Processes : down[c] \in Seq(DownMsg)
    BY DEF TypeOK
  <2>2. t \in Seq(DownMsg)
    BY DEF DownMsg
  <2>3. QED
    BY <2>1, <2>2, ConcatProperties, LenProperties
<1> HIDE DEF t
<1>4. ASSUME NEW q \in Processes, q \in Children(p)
      PROVE  \E n \in 0..Len(down[q] \o t) : down'[q] = SubSeq(down[q] \o t, 1, n)
  <2>1. sent[q] \in Nat
    <3>1. \A c \in Children(p) : 0..Len(queued(c)) \subseteq Nat
      OBVIOUS
    <3>2. QED
      BY <1>4, <3>1
  <2>2. sent[q] \in 0..Len(queued(q))
    BY <1>1, <1>3, <1>4, <2>1
  <2>3. QED
    BY <1>1, <1>4, <2>2
<1>5. ASSUME NEW q \in Processes, q \notin Children(p)
      PROVE  down'[q] = down[q]
  BY <1>1, <1>5
<1> HIDE DEF queued
<1>6. QED
  BY <1>2, <1>4, <1>5, TypedPaths, CutIsTaken

LEMMA EraseTaken ==
  ASSUME TypeOK, NEW p \in Processes, NEW c \in Pids, EraseOverdue(p, c)
  PROVE  OnlyTaken(down, down')
<1> DEFINE t == <<KillSignal>>
<1>1. PICK n \in 0..(Len(down[c]) + 1) :
          down' = [down EXCEPT ![c] = SubSeq(Append(down[c], KillSignal), 1, n)]
  BY DEF EraseOverdue
<1>2. /\ t \in Seq({KillSignal}) /\ t \in Seq(DownMsg) /\ Len(t) = 1
      /\ c \in Processes
  BY DEF DownMsg, Processes
<1>3. /\ down[c] \in Seq(DownMsg)
      /\ Append(down[c], KillSignal) = down[c] \o t
      /\ Len(down[c] \o t) = Len(down[c]) + 1
  <2>1. down[c] \in Seq(DownMsg) /\ KillSignal \in DownMsg
    BY <1>2 DEF TypeOK, DownMsg
  <2>2. Append(down[c], KillSignal) = down[c] \o t
    BY <2>1, AppendIsConcat
  <2>3. Len(down[c] \o t) = Len(down[c]) + Len(t)
    BY <1>2, <2>1, ConcatProperties
  <2>4. QED
    BY <1>2, <2>1, <2>2, <2>3
<1> HIDE DEF t
<1>4. /\ n \in 0..Len(down[c] \o t)
      /\ down'[c] = SubSeq(down[c] \o t, 1, n)
      /\ \A q \in Processes : q # c => down'[q] = down[q]
  BY <1>1, <1>2, <1>3 DEF TypeOK
<1>5. QED
  BY <1>2, <1>4, TypedPaths, CutIsTaken

LEMMA DownOthers ==
  ASSUME TypeOK, TreeShape, KillInv', HistoryKept, TypeOK',
         NEW passed, PassedInv(passed, down), CommandedBy(passed),
         NEW p \in Processes,
         \/ HandleKillSignal(p) \/ Exit(p) \/ Crash(p)
         \/ \E c \in Pids : HandleResponse(p, c) \/ EraseOverdue(p, c)
         \/ UNCHANGED vars
  PROVE  DownStep(passed, passed)
<1>1. UNCHANGED <<forked, submitted>>
  BY DEF HandleKillSignal, Exit, Crash, HandleResponse, AccountBadResp,
         AccountGoodResp, RedirectResponse, CloseRecordAndRedirectResp,
         RunOffTheEnd, EraseOverdue, vars
<1>2. CASE HandleKillSignal(p) \/ Exit(p) \/ \E c \in Pids : EraseOverdue(p, c)
  <2>1. OnlyTaken(down, down')
    BY <1>2, KillSignalTaken, ExitTaken, EraseTaken
  <2>2. QED
    BY <1>1, <2>1, DownShortened
<1>3. CASE Crash(p) \/ (\E c \in Pids : HandleResponse(p, c)) \/ UNCHANGED vars
  <2>1. down' = down
    BY <1>3 DEF Crash, HandleResponse, AccountBadResp, AccountGoodResp, vars,
                RedirectResponse, CloseRecordAndRedirectResp, RunOffTheEnd
  <2>2. OnlyTaken(down, down')
    BY <2>1, TypedPaths, CutIsTaken
  <2>3. QED
    BY <1>1, <2>2, DownShortened
<1>4. QED
  BY <1>2, <1>3

-----------------------------------------------------------------------------
(***************************************************************************)
(* What the tags say, and how they come to be.                             *)
(***************************************************************************)

\* The tag of an answer is a process that took the command; the tag of a death
\* is a process that its parent has erased.
TrueTag(passed, x) ==
  /\ IsExecOk(x[1]) =>
       /\ x[2] \in Forked
       /\ nodeId[x[2]] = x[1].id
       /\ <<x[2], CommandExec(x[1].id, x[1].sum)>> \in passed
  /\ IsDeath(x[1]) =>
       /\ x[2] \in Forked
       /\ nodeId[x[2]] = x[1].id
       /\ x[2] \notin Children(parent[x[2]])

TagsAreTrue(tagged, passed) == \A x \in On(tagged) : TrueTag(passed, x)

\* An exec has its own payload.
SubmittedInv ==
  \A i \in DOMAIN submitted :
    submitted[i].type = "CommandExec" => submitted[i].k = i

Provenance(tagged, passed) ==
  /\ Tagged(tagged, up)
  /\ PassedInv(passed, down)
  /\ CommandedBy(passed)
  /\ TagsAreTrue(tagged, passed)

\* What a step does to the tags: the root's stay, and some new ones come.
UpStep(tagged, more, new) ==
  /\ Tagged(more, up')
  /\ RootGrows(tagged, more)
  /\ On(more) \subseteq On(tagged) \cup new

\* What a parent has erased does not come back.
LEMMA ErasedStay ==
  ASSUME TypeOK, TreeShape, HistoryKept, [Next]_vars,
         NEW c \in Forked, c \notin Children(parent[c])
  PROVE  c \notin Children(parent[c])'
<1>0. c \in Processes /\ parent[c] \in Processes /\ parent'[c] = parent[c]
  BY ForkedAreProcesses DEF TypeOK, HistoryKept
<1>1. CASE children' = children
  BY <1>0, <1>1 DEF Children
<1>2. ASSUME NEW p \in Processes, CreateHere(p)
      PROVE  c \notin Children(parent[c])'
  <2>1. PICK n : n = forked + 1
    OBVIOUS
  <2>2. n # c /\ n \in Pids
    BY <1>2, <2>1, ConstantsAssumption DEF TypeOK, Forked, Pids, CreateHere
  <2>3. children' = [children EXCEPT ![p] = Append(children[p], n)]
    BY <1>2, <2>1 DEF CreateHere, emplaceBack
  <2>4. Range(Append(children[p], n)) \subseteq Range(children[p]) \cup {n}
    BY <2>2, AppendCarries DEF TypeOK
  <2>5. QED
    BY <1>0, <2>2, <2>3, <2>4 DEF Children, TypeOK
<1>3. ASSUME NEW p \in Processes, NEW e \in Pids, EraseOverdue(p, e)
      PROVE  c \notin Children(parent[c])'
  <2>1. \A q \in Processes : Range(children'[q]) \subseteq Range(children[q])
    BY <1>3, ChildErased DEF Children
  <2>2. QED
    BY <1>0, <2>1 DEF Children
<1>4. ASSUME NEW p \in Processes, HandleCommand(p)
      PROVE  c \notin Children(parent[c])'
  BY <1>1, <1>2, <1>4, TakesCommand
<1>5. ASSUME NEW p \in Processes,
             \/ HandleKillSignal(p) \/ Exit(p) \/ Crash(p)
             \/ \E d \in Pids : HandleResponse(p, d)
      PROVE  children' = children
  BY <1>5 DEF HandleKillSignal, Exit, Crash, HandleResponse, AccountBadResp,
              AccountGoodResp, RedirectResponse, CloseRecordAndRedirectResp,
              RunOffTheEnd
<1>6. CASE UNCHANGED vars \/ \E cmd \in Commands : Submit(cmd)
  BY <1>1, <1>6 DEF vars, Submit
<1>7. QED
  BY <1>1, <1>3, <1>4, <1>5, <1>6 DEF Next, TreeNext, Processes

\* A step of both kinds keeps the invariant.
LEMMA ProvenanceKept ==
  ASSUME TypeOK, TreeShape, HistoryKept, [Next]_vars,
         NEW tagged, NEW passed, Provenance(tagged, passed),
         NEW moreTagged, NEW morePassed, NEW new,
         DownStep(passed, morePassed), UpStep(tagged, moreTagged, new),
         \A x \in new : TrueTag(morePassed, x)'
  PROVE  Provenance(moreTagged, morePassed)'
<1>1. /\ Tagged(moreTagged, up)'
      /\ PassedInv(morePassed, down)'
      /\ CommandedBy(morePassed)'
      /\ passed \subseteq morePassed
  BY DEF UpStep, DownStep, Tagged, TagsAgree
<1>2. \A x \in On(moreTagged) : x \in On(tagged) \/ TrueTag(morePassed, x)'
  BY DEF UpStep
<1>3. ASSUME NEW x \in On(tagged) PROVE TrueTag(morePassed, x)'
  <2>1. TrueTag(passed, x)
    BY DEF Provenance, TagsAreTrue
  <2>2. \A q \in Forked : q \in Forked' /\ nodeId'[q] = nodeId[q]
    BY DEF HistoryKept
  <2>3. \A q \in Forked :
          q \notin Children(parent[q]) => q \notin Children(parent[q])'
    BY ErasedStay
  <2>4. QED
    BY <1>1, <2>1, <2>2, <2>3 DEF TrueTag
<1>4. TagsAreTrue(moreTagged, morePassed)'
  BY <1>2, <1>3 DEF TagsAreTrue, On
<1>5. QED
  BY <1>1, <1>4 DEF Provenance

\* The tags stay, or one is added, or some are cut off.
LEMMA UpKept ==
  ASSUME NEW tagged, Tagged(tagged, up), up' = up
  PROVE  UpStep(tagged, tagged, {})
<1>1. Tagged(tagged, up')
  BY DEF Tagged
<1>2. RootGrows(tagged, tagged)
  BY RootKept DEF Tagged, TagsAgree
<1>3. QED
  BY <1>1, <1>2 DEF UpStep

LEMMA UpPushed ==
  ASSUME NEW tagged, Tagged(tagged, up), NEW p \in Processes,
         NEW m \in ResponseMsg, NEW about \in Processes,
         up' = redirectToAncestor(up, p, m),
         IsExecOk(m) \/ IsDeath(m) => <<m, about>> \notin On(tagged)
  PROVE  \E more : UpStep(tagged, more, {<<m, about>>})
<1>1. PICK more : more = redirectToAncestor(tagged, p, <<m, about>>)
  OBVIOUS
<1>2. /\ Tagged(more, up')
      /\ On(more) \subseteq On(tagged) \cup {<<m, about>>}
  BY <1>1, TagPushed
<1>3. RootGrows(tagged, more)
  BY <1>1, RootGrowsByPush DEF Tagged, TagsAgree, Tag
<1>4. QED
  BY <1>2, <1>3 DEF UpStep

LEMMA UpDies ==
  ASSUME NEW tagged, Tagged(tagged, up), NEW p \in Processes, Dies(p, up)
  PROVE  \E more : UpStep(tagged, more, {})
<1>1. PICK more : /\ Tagged(more, up')
                  /\ On(more) \subseteq On(tagged)
                  /\ more[Root] = tagged[Root]
  BY TagDies
<1>2. RootGrows(tagged, more)
  BY <1>1, RootKept DEF Tagged, TagsAgree
<1>3. QED
  BY <1>1, <1>2 DEF UpStep

\* A process takes a response, and passes it on, loses it, or dies.
LEMMA UpResponse ==
  ASSUME TypeOK, NEW tagged, Tagged(tagged, up),
         NEW p \in Processes, NEW c \in Pids, HandleResponse(p, c)
  PROVE  \E more : UpStep(tagged, more, {})
<1>1. /\ up[c] # <<>>
      /\ \/ up' \in {Consumed(up, c), PassedOn(p, c)}
         \/ Dies(p, Consumed(up, c))
  BY DEF HandleResponse, AccountBadResp, AccountGoodResp, Answers,
         CloseRecordAndRedirectResp, RedirectResponse, RunOffTheEnd
<1>2. c \in Processes /\ c # Root
  BY DEF Pids, Processes, Root
<1> DEFINE path == Consumed(up, c)
<1>3. PICK rest : rest = Consumed(tagged, c)
  OBVIOUS
<1>4. PICK x : x = Head(tagged[c])
  OBVIOUS
<1>5. /\ Tagged(rest, path)
      /\ x \in Tag /\ x[1] = Head(up[c])
      /\ x \in On(tagged) /\ On(rest) \subseteq On(tagged)
      /\ IsExecOk(Head(up[c])) \/ IsDeath(Head(up[c])) => x \notin On(rest)
  BY <1>1, <1>2, <1>3, <1>4, TagTaken
<1>6. tagged \in Paths(Tag) /\ rest[Root] = tagged[Root]
  BY <1>2, <1>3 DEF Consumed, Processes, Paths, Tagged, TagsAgree
<1>7. RootGrows(tagged, rest)
  BY <1>6, RootKept
<1>8. CASE up' = path
  BY <1>5, <1>7, <1>8 DEF UpStep
<1>9. CASE up' = PassedOn(p, c)
  <2>1. PICK more : more = redirectToAncestor(rest, p, x)
    OBVIOUS
  <2>2. /\ x = <<Head(up[c]), x[2]>>
        /\ x[2] \in Processes /\ Head(up[c]) \in ResponseMsg
    BY <1>5 DEF Tag
  <2>3. /\ Tagged(more, up')
        /\ On(more) \subseteq On(rest) \cup {x}
    BY <1>5, <1>9, <2>1, <2>2, TagPushed DEF PassedOn
  <2>4. RootGrows(rest, more)
    BY <1>5, <2>1, RootGrowsByPush DEF Tagged, TagsAgree
  <2>5. RootGrows(tagged, more)
    BY <1>6, <2>4 DEF RootGrows
  <2>6. QED
    BY <1>5, <2>3, <2>5 DEF UpStep
<1>10. CASE Dies(p, path)
  <2>1. PICK more : /\ Tagged(more, up')
                    /\ On(more) \subseteq On(rest)
                    /\ more[Root] = rest[Root]
    BY <1>5, <1>10, TagDies
  <2>2. RootGrows(tagged, more)
    BY <1>6, <2>1, RootKept
  <2>3. QED
    BY <1>5, <2>1, <2>2 DEF UpStep
<1>11. QED
  BY <1>1, <1>8, <1>9, <1>10

\* What is pushed is a response.
LEMMA PushedIsResponse ==
  ASSUME TypeOK, TypeOK', NEW p \in Processes, NEW m,
         up' = redirectToAncestor(up, p, m)
  PROVE  m \in ResponseMsg
<1>1. /\ up[p] \in Seq(ResponseMsg) /\ up'[p] \in Seq(ResponseMsg)
      /\ up'[p] = Append(up[p], m)
  BY DEF TypeOK, redirectToAncestor
<1>2. up[p] \in Seq(ResponseMsg \cup {m}) /\ m \in ResponseMsg \cup {m}
  BY <1>1
<1>3. /\ Len(up[p]) \in Nat /\ Len(up'[p]) = Len(up[p]) + 1
      /\ up'[p][Len(up[p]) + 1] = m
  BY <1>1, <1>2, AppendProperties, LenProperties
<1>4. Len(up[p]) + 1 \in 1..Len(up'[p])
  BY <1>3
<1>5. up'[p][Len(up[p]) + 1] \in ResponseMsg
  BY <1>1, <1>4, ElementOfSeq
<1>6. QED
  BY <1>3, <1>5

\* An answer that is neither of an execution nor of a death claims nothing.
LEMMA UpOther ==
  ASSUME TypeOK, TypeOK', NEW tagged, Tagged(tagged, up), NEW passed,
         NEW p \in Processes, NEW m, up' = redirectToAncestor(up, p, m),
         m.type \notin {"GoodExecResp", "NodeIsDeadResponse"}
  PROVE  \E more, new : /\ UpStep(tagged, more, new)
                        /\ \A x \in new : TrueTag(passed, x)'
<1>1. m \in ResponseMsg /\ ~IsExecOk(m) /\ ~IsDeath(m)
  BY PushedIsResponse DEF IsExecOk, IsDeath
<1>2. PICK new : new = {<<m, p>>}
  OBVIOUS
<1>3. \E more : UpStep(tagged, more, new)
  BY <1>1, <1>2, UpPushed
<1>4. \A x \in new : TrueTag(passed, x)'
  BY <1>1, <1>2 DEF TrueTag, IsExecOk, IsDeath
<1>5. QED
  BY <1>3, <1>4

\* A node executes a command that it has not taken before: every exec is
\* submitted once.
LEMMA UpExecute ==
  ASSUME TypeOK, TreeShape, CommandsAreSubmitted, SubmittedInv, TypeOK',
         NEW tagged, NEW passed, Provenance(tagged, passed),
         NEW p \in Processes, ExecuteHere(p),
         NEW taken, <<p, Head(down[p])>> \in taken
  PROVE  \E more, new : /\ UpStep(tagged, more, new)
                        /\ \A x \in new : TrueTag(taken, x)'
<1>1. PICK cmd : cmd = Head(down[p])
  OBVIOUS
<1>2. /\ cmd.type = "CommandExec" /\ cmd.nodeId = nodeId[p]
      /\ down[p] # <<>> /\ p # Root /\ phase[p] = "running"
      /\ up' = redirectToAncestor(up, p, GoodExecResp(nodeId[p], cmd.k))
      /\ UNCHANGED <<forked, nodeId, submitted>>
  BY <1>1 DEF ExecuteHere, Receives, IsExecutor
<1>3. /\ p \in Forked
      /\ cmd # KillSignal /\ cmd \in DownMsg /\ cmd \in Range(down[p])
      /\ IsSubmitted(cmd)
  BY <1>1, <1>2, CommandTaken
<1>4. cmd = CommandExec(nodeId[p], cmd.k)
  BY <1>2, <1>3 DEF DownMsg, CommandMsg, CommandExec, KillSignal, CommandPrintTree
<1>5. Once(cmd)
  BY <1>2 DEF SubmittedInv, Once
<1>6. <<p, cmd>> \notin passed
  <2>1. PICK i \in 1..Len(down[p]) : down[p][i] = cmd
    BY <1>3, TypedPaths, PlaceInRange
  <2>2. QED
    BY <1>3, <1>5, <2>1 DEF Provenance, PassedInv, TakenOnce
<1>7. PICK m : m = GoodExecResp(nodeId[p], cmd.k)
  OBVIOUS
<1>8. /\ m \in ResponseMsg /\ IsExecOk(m) /\ ~IsDeath(m)
      /\ m.id = nodeId[p] /\ m.sum = cmd.k
  BY <1>2, <1>7, PushedIsResponse DEF IsExecOk, IsDeath, GoodExecResp
<1>9. <<m, p>> \notin On(tagged)
  <2>1. ASSUME <<m, p>> \in On(tagged) PROVE FALSE
    <3>1. TrueTag(passed, <<m, p>>)
      BY <2>1 DEF Provenance, TagsAreTrue
    <3>2. <<p, CommandExec(m.id, m.sum)>> \in passed
      BY <1>8, <3>1 DEF TrueTag
    <3>3. QED
      BY <1>4, <1>6, <1>8, <3>2
  <2>2. QED
    BY <2>1
<1>10. PICK new : new = {<<m, p>>}
  OBVIOUS
<1>11. \E more : UpStep(tagged, more, new)
  BY <1>2, <1>7, <1>8, <1>9, <1>10, UpPushed DEF Provenance
<1>12. TrueTag(taken, <<m, p>>)'
  <2>1. /\ p \in Forked' /\ nodeId'[p] = m.id
        /\ <<p, CommandExec(m.id, m.sum)>> \in taken
    BY <1>1, <1>2, <1>3, <1>4, <1>8 DEF Forked
  <2>2. QED
    BY <1>8, <2>1 DEF TrueTag, IsDeath
<1>13. QED
  BY <1>10, <1>11, <1>12

LEMMA UpHandleCommand ==
  ASSUME TypeOK, TreeShape, CommandsAreSubmitted, SubmittedInv, TypeOK',
         NEW tagged, NEW passed, Provenance(tagged, passed),
         NEW p \in Processes, HandleCommand(p),
         NEW taken, <<p, Head(down[p])>> \in taken
  PROVE  \E more, new : /\ UpStep(tagged, more, new)
                        /\ \A x \in new : TrueTag(taken, x)'
<1>1. Tagged(tagged, up)
  BY DEF Provenance
<1>2. CASE CreateNodeExists(p)
  <2>1. PICK m : m = NodeExistResponse(nodeId[p])
    OBVIOUS
  <2>2. up' = redirectToAncestor(up, p, m) /\ m.type = "NodeExistResponse"
    BY <1>2, <2>1 DEF CreateNodeExists, NodeExistResponse
  <2>3. QED
    BY <1>1, <2>2, UpOther
<1>3. CASE CreateHere(p)
  <2>1. PICK m : up' = redirectToAncestor(up, p, m) /\ m.type = "GoodCreateResp"
    BY <1>3 DEF CreateHere, GoodCreateResp
  <2>2. QED
    BY <1>1, <2>1, UpOther
<1>4. CASE CreateForkFails(p)
  BY <1>1, <1>4, UpDies DEF CreateForkFails
<1>5. CASE CreateElsewhere(p) \/ ExecElsewhere(p)
  <2>1. CASE up' = up
    BY <1>1, <2>1, UpKept
  <2>2. CASE up' # up
    <3>1. PICK m : m = handleDeadEnd(Head(down[p]))
      OBVIOUS
    <3>2. up' = redirectToAncestor(up, p, m)
      BY <1>5, <2>2, <3>1 DEF CreateElsewhere, ExecElsewhere, RedirectCommand
    <3>3. m.type \in {"BadExecResp", "BadCreateResp"}
      BY <3>1 DEF handleDeadEnd, BadExecResp, BadCreateResp
    <3>4. QED
      BY <1>1, <3>2, <3>3, UpOther
  <2>3. QED
    BY <2>1, <2>2
<1>6. CASE ExecuteHere(p)
  BY <1>6, UpExecute
<1>7. CASE IgnoreCommand(p)
  BY <1>1, <1>7, UpKept DEF IgnoreCommand
<1>8. QED
  BY <1>2, <1>3, <1>4, <1>5, <1>6, <1>7 DEF HandleCommand

\* A parent reports a death once: it finds the child in its list.
LEMMA UpErase ==
  ASSUME TypeOK, TreeShape, CommandsAreSubmitted, SubmittedInv, TypeOK',
         NEW tagged, NEW passed, Provenance(tagged, passed),
         NEW p \in Processes, NEW c \in Pids, EraseOverdue(p, c)
  PROVE  \E more, new : /\ UpStep(tagged, more, new)
                        /\ \A x \in new : TrueTag(passed, x)'
<1>1. /\ c \in Forked /\ parent[c] = p /\ c \in Children(p)
      /\ c \notin Children(p)'
  BY ChildErased
<1>2. PICK m : m = NodeIsDeadResponse(nodeId[c])
  OBVIOUS
<1>3. /\ up' = redirectToAncestor(up, p, m)
      /\ UNCHANGED <<forked, nodeId, parent, submitted>>
  BY <1>2 DEF EraseOverdue
<1>4. /\ m \in ResponseMsg /\ IsDeath(m) /\ ~IsExecOk(m) /\ m.id = nodeId[c]
  BY <1>2, <1>3, PushedIsResponse DEF IsExecOk, IsDeath, NodeIsDeadResponse
<1>5. <<m, c>> \notin On(tagged)
  <2>1. ASSUME <<m, c>> \in On(tagged) PROVE FALSE
    <3>1. TrueTag(passed, <<m, c>>)
      BY <2>1 DEF Provenance, TagsAreTrue
    <3>2. QED
      BY <1>1, <1>4, <3>1 DEF TrueTag
  <2>2. QED
    BY <2>1
<1>6. c \in Processes
  BY DEF Processes
<1>7. PICK new : new = {<<m, c>>}
  OBVIOUS
<1>8. \E more : UpStep(tagged, more, new)
  BY <1>3, <1>4, <1>5, <1>6, <1>7, UpPushed DEF Provenance
<1>9. TrueTag(passed, <<m, c>>)'
  <2>1. /\ c \in Forked' /\ nodeId'[c] = m.id
        /\ c \notin Children(parent[c])'
    BY <1>1, <1>3, <1>4 DEF Forked, Children
  <2>2. QED
    BY <1>4, <2>1 DEF TrueTag, IsExecOk
<1>10. QED
  BY <1>7, <1>8, <1>9

-----------------------------------------------------------------------------
(***************************************************************************)
(* The invariant: the tags and the commands taken could be noted.          *)
(***************************************************************************)
ProvenanceInv ==
  /\ SubmittedInv
  /\ \E tagged, passed : Provenance(tagged, passed)

LEMMA ProvenanceInit == Init => ProvenanceInv
<1> SUFFICES ASSUME Init PROVE ProvenanceInv
  OBVIOUS
<1>1. /\ Forked = {} /\ submitted = <<>>
      /\ up = [q \in Processes |-> <<>>] /\ down = [q \in Processes |-> <<>>]
  BY DEF Init, Forked
<1>2. SubmittedInv
  BY <1>1 DEF SubmittedInv
<1>3. PICK tagged : tagged = [q \in Processes |-> <<>>]
  OBVIOUS
<1>4. Len(<<>>) = 0 /\ Range(<<>>) = {}
  BY DEF Range
<1>5. /\ tagged \in Paths(Tag) /\ up \in Paths(ResponseMsg)
      /\ down \in Paths(DownMsg)
  BY <1>1, <1>3, EmptySeq DEF Paths
<1>6. Tagged(tagged, up)
  BY <1>1, <1>3, <1>4, <1>5 DEF Tagged, TagsAgree, NoneTwice
<1>7. PassedInv({}, down)
  BY <1>1, <1>4, <1>5
     DEF PassedInv, OnlySubmitted, FromTheParent, TakenOnce
<1>8. On(tagged) = {}
  BY <1>3, <1>4 DEF On
<1>9. Provenance(tagged, {})
  BY <1>1, <1>3, <1>4, <1>6, <1>7, <1>8
     DEF Provenance, CommandedBy, TagsAreTrue
<1>10. QED
  BY <1>2, <1>9 DEF ProvenanceInv

\* Every step has its tags and its takings.
LEMMA ProvenanceStep ==
  ASSUME TypeOK, TreeShape, GenuineInv, KillInv, SubmittedInv,
         TypeOK', KillInv', HistoryKept, [Next]_vars,
         NEW tagged, NEW passed, Provenance(tagged, passed)
  PROVE  \E moreTagged, new, morePassed :
           /\ DownStep(passed, morePassed)
           /\ UpStep(tagged, moreTagged, new)
           /\ \A x \in new : TrueTag(morePassed, x)'
<1>1. /\ CommandsAreSubmitted /\ Tagged(tagged, up)
      /\ PassedInv(passed, down) /\ CommandedBy(passed)
  BY DEF GenuineInv, Provenance
<1> DEFINE Goal == \E moreTagged, new, morePassed :
                     /\ DownStep(passed, morePassed)
                     /\ UpStep(tagged, moreTagged, new)
                     /\ \A x \in new : TrueTag(morePassed, x)'
<1>2. ASSUME DownStep(passed, passed),
             \E moreTagged : UpStep(tagged, moreTagged, {})
      PROVE  Goal
  BY <1>2
<1>3. ASSUME NEW p \in Processes, HandleCommand(p) PROVE Goal
  <2>1. PICK taken : DownStep(passed, taken) /\ <<p, Head(down[p])>> \in taken
    BY <1>1, <1>3, DownHandleCommand
  <2>2. \E more, new : /\ UpStep(tagged, more, new)
                       /\ \A x \in new : TrueTag(taken, x)'
    BY <1>1, <1>3, <2>1, UpHandleCommand
  <2>3. QED
    BY <2>1, <2>2
<1>4. ASSUME NEW p \in Processes, NEW c \in Pids, EraseOverdue(p, c) PROVE Goal
  <2>1. DownStep(passed, passed)
    BY <1>1, <1>4, DownOthers
  <2>2. \E more, new : /\ UpStep(tagged, more, new)
                       /\ \A x \in new : TrueTag(passed, x)'
    BY <1>1, <1>4, UpErase
  <2>3. QED
    BY <2>1, <2>2
<1>5. ASSUME NEW p \in Processes, NEW c \in Pids, HandleResponse(p, c) PROVE Goal
  <2>1. DownStep(passed, passed)
    BY <1>1, <1>5, DownOthers
  <2>2. \E more : UpStep(tagged, more, {})
    BY <1>1, <1>5, UpResponse
  <2>3. QED
    BY <1>2, <2>1, <2>2
<1>6. ASSUME NEW p \in Processes, HandleKillSignal(p) \/ Exit(p) \/ Crash(p)
      PROVE  Goal
  <2>1. DownStep(passed, passed)
    BY <1>1, <1>6, DownOthers
  <2>2. up' = up \/ Dies(p, up)
    BY <1>6, ExitEnds DEF HandleKillSignal, Crash
  <2>3. \E more : UpStep(tagged, more, {})
    BY <1>1, <2>2, UpKept, UpDies
  <2>4. QED
    BY <1>2, <2>1, <2>3
<1>7. ASSUME NEW cmd \in Commands, Submit(cmd) PROVE Goal
  <2>1. DownStep(passed, passed)
    BY <1>1, <1>7, DownSubmit
  <2>2. UpStep(tagged, tagged, {})
    BY <1>1, <1>7, UpKept DEF Submit
  <2>3. QED
    BY <1>2, <2>1, <2>2
<1>8. CASE UNCHANGED vars
  <2>1. Root \in Processes
    BY DEF Processes
  <2>2. DownStep(passed, passed)
    BY <1>1, <1>8, <2>1, DownOthers
  <2>3. UpStep(tagged, tagged, {})
    BY <1>1, <1>8, UpKept DEF vars
  <2>4. QED
    BY <1>2, <2>2, <2>3
<1>9. QED
  BY <1>3, <1>4, <1>5, <1>6, <1>7, <1>8 DEF Next, TreeNext, Processes

\* Each command is numbered as it is submitted.
LEMMA SubmittedKept ==
  ASSUME TypeOK, TypeOK', SubmittedInv, [Next]_vars
  PROVE  SubmittedInv'
<1>1. /\ submitted \in Seq(CommandMsg) /\ Len(submitted) \in Nat
      /\ DOMAIN submitted = 1..Len(submitted)
      /\ submitted' \in Seq(CommandMsg) /\ DOMAIN submitted' = 1..Len(submitted')
  BY LenProperties DEF TypeOK
<1>2. CASE submitted' = submitted
  BY <1>2 DEF SubmittedInv
<1>3. ASSUME NEW cmd \in Commands, Submit(cmd) PROVE SubmittedInv'
  <2>1. PICK c : /\ submitted' = Append(submitted, c)
                 /\ c = IF cmd.type = "CommandExec"
                        THEN [cmd EXCEPT !.k = Len(submitted) + 1] ELSE cmd
    BY <1>3 DEF Submit
  <2>2. submitted \in Seq(CommandMsg \cup {c}) /\ c \in CommandMsg \cup {c}
    BY <1>1
  <2>3. /\ Len(submitted') = Len(submitted) + 1
        /\ \A i \in 1..Len(submitted) : submitted'[i] = submitted[i]
        /\ submitted'[Len(submitted) + 1] = c
    BY <2>1, <2>2, AppendProperties
  <2>4. c.type = "CommandExec" => c.k = Len(submitted) + 1
    <3>1. CASE cmd.type = "CommandExec"
      <4>1. cmd \in [type : {"CommandExec"}, nodeId : Nat, k : Nat]
        BY <3>1, ConstantsAssumption DEF CommandMsg, CommandPrintTree
      <4>2. PICK n \in Nat : n = Len(submitted) + 1
        BY <1>1
      <4>3. c = [cmd EXCEPT !.k = n]
        BY <2>1, <3>1, <4>2
      <4>4. c.k = n
        BY <4>1, <4>3
      <4>5. QED
        BY <4>2, <4>4
    <3>2. CASE cmd.type # "CommandExec"
      BY <2>1, <3>2
    <3>3. QED
      BY <3>1, <3>2
  <2>5. QED
    BY <1>1, <2>3, <2>4 DEF SubmittedInv
<1>4. ASSUME NEW p \in Processes, NEW c \in Pids,
             HandleResponse(p, c) \/ EraseOverdue(p, c)
      PROVE  submitted' = submitted
  BY <1>4 DEF HandleResponse, AccountBadResp, AccountGoodResp, RedirectResponse,
              CloseRecordAndRedirectResp, RunOffTheEnd, EraseOverdue
<1>5. ASSUME NEW p \in Processes,
             HandleCommand(p) \/ HandleKillSignal(p) \/ Exit(p) \/ Crash(p)
      PROVE  submitted' = submitted
  BY <1>5, TakesCommand DEF HandleKillSignal, Exit, Crash
<1>6. CASE UNCHANGED vars
  BY <1>2, <1>6 DEF vars
<1>7. QED
  BY <1>2, <1>3, <1>4, <1>5, <1>6 DEF Next, TreeNext, Processes

LEMMA ProvenanceNext ==
  ASSUME TypeOK, TreeShape, GenuineInv, KillInv, TypeOK', KillInv',
         ProvenanceInv, [Next]_vars
  PROVE  ProvenanceInv'
<1>1. PICK tagged, passed : Provenance(tagged, passed)
  BY DEF ProvenanceInv
<1>2. SubmittedInv /\ HistoryKept
  BY HistoryLemma DEF ProvenanceInv
<1>3. PICK moreTagged, new, morePassed :
        /\ DownStep(passed, morePassed)
        /\ UpStep(tagged, moreTagged, new)
        /\ \A x \in new : TrueTag(morePassed, x)'
  BY <1>1, <1>2, ProvenanceStep
<1>4. Provenance(moreTagged, morePassed)'
  BY <1>1, <1>2, <1>3, ProvenanceKept
<1>5. SubmittedInv'
  BY <1>2, SubmittedKept
<1>6. QED
  BY <1>4, <1>5 DEF ProvenanceInv

\* In every state the messages can be tagged with the processes they are about.
THEOREM ProvenanceInvariant == Spec => []ProvenanceInv
<1>1. Init => ProvenanceInv
  BY ProvenanceInit
<1>2. /\ TypeOK /\ TreeShape /\ GenuineInv /\ KillInv
      /\ TypeOK' /\ KillInv' /\ ProvenanceInv /\ [Next]_vars
      => ProvenanceInv'
  BY ProvenanceNext
<1>3. QED
  BY <1>1, <1>2, TypeCorrect, TreeShapeInvariant, GenuineInvariant,
     KillInvariant, PTL DEF Spec

-----------------------------------------------------------------------------
(***************************************************************************)
(* There are no more answers alike than tags.                              *)
(***************************************************************************)
LEMMA NoMoreThanTags ==
  ASSUME TypeOK, NEW tagged, Tagged(tagged, up),
         NEW m, IsExecOk(m) \/ IsDeath(m),
         NEW T, IsFiniteSet(T), \A x \in On(tagged) : x[1] = m => x[2] \in T
  PROVE  Cardinality({j \in DOMAIN eventsList : eventsList[j] = m})
           <= Cardinality(T)
<1> DEFINE S == {j \in DOMAIN eventsList : eventsList[j] = m}
           f == [j \in S |-> tagged[Root][j][2]]
<1>1. /\ tagged \in Paths(Tag) /\ Root \in Processes
      /\ Len(tagged[Root]) = Len(eventsList)
      /\ DOMAIN eventsList = 1..Len(eventsList)
      /\ \A j \in 1..Len(eventsList) : tagged[Root][j][1] = eventsList[j]
  BY LenProperties DEF Tagged, TagsAgree, TypeOK, eventsList, Processes
<1>2. ASSUME NEW j \in S
      PROVE  /\ j \in 1..Len(tagged[Root])
             /\ tagged[Root][j] \in On(tagged)
             /\ tagged[Root][j] = <<m, f[j]>>
             /\ f[j] \in T
  <2>1. j \in 1..Len(tagged[Root]) /\ tagged[Root][j][1] = m
    BY <1>1
  <2>2. tagged[Root][j] \in On(tagged)
    BY <1>1, <2>1, PlaceOnPath
  <2>3. tagged[Root][j] \in Tag
    <3>1. tagged[Root] \in Seq(Tag)
      BY <1>1 DEF Paths
    <3>2. QED
      BY <2>1, <3>1, ElementOfSeq
  <2>4. tagged[Root][j] = <<m, f[j]>>
    BY <2>1, <2>3 DEF Tag
  <2>5. QED
    BY <2>1, <2>2, <2>4
<1>3. ASSUME NEW j \in S, NEW k \in S, f[j] = f[k] PROVE j = k
  <2>1. /\ j \in 1..Len(tagged[Root]) /\ k \in 1..Len(tagged[Root])
        /\ tagged[Root][j] = tagged[Root][k]
        /\ tagged[Root][j][1] = m
    BY <1>2, <1>3
  <2>2. QED
    BY <1>1, <2>1, SamePlace DEF Tagged
<1>4. f \in Injection(S, T)
  <2>1. f \in [S -> T]
    BY <1>2
  <2>2. QED
    BY <1>3, <2>1 DEF Injection, IsInjective
<1>5. Cardinality(S) <= Cardinality(T)
  BY <1>4, FS_Injection
<1>6. QED
  BY <1>5

LEMMA NodesAreFinite ==
  ASSUME TypeOK, NEW id
  PROVE  IsFiniteSet({p \in Forked : nodeId[p] = id})
<1>1. IsFiniteSet(Forked)
  BY FS_Interval DEF Forked, TypeOK
<1>2. QED
  BY <1>1, FS_Subset

\* A node executes a command once: no more answers to it reach the client than
\* there are processes with the identifier it names, in every tree, however its
\* commands are broadcast and its answers passed on.
THEOREM ExecutedOnceTheorem == Spec => []ExecutedOncePerNode
<1>1. TypeOK /\ ProvenanceInv => ExecutedOncePerNode
  <2> SUFFICES ASSUME TypeOK, ProvenanceInv, NEW i \in DOMAIN eventsList,
                      eventsList[i].type = "GoodExecResp"
               PROVE  Cardinality({j \in DOMAIN eventsList :
                                     eventsList[j] = eventsList[i]})
                        <= Cardinality({p \in Forked :
                                          nodeId[p] = eventsList[i].id})
    BY DEF ExecutedOncePerNode
  <2>1. PICK tagged, passed : Provenance(tagged, passed)
    BY DEF ProvenanceInv
  <2>2. PICK m : m = eventsList[i]
    OBVIOUS
  <2> DEFINE T == {p \in Forked : nodeId[p] = m.id}
  <2>3. IsExecOk(m) /\ IsFiniteSet(T)
    BY <2>2, NodesAreFinite DEF IsExecOk
  <2>4. \A x \in On(tagged) : x[1] = m => x[2] \in T
    BY <2>1, <2>3 DEF Provenance, TagsAreTrue, TrueTag
  <2> HIDE DEF T
  <2>5. Cardinality({j \in DOMAIN eventsList : eventsList[j] = m})
          <= Cardinality(T)
    BY <2>1, <2>3, <2>4, NoMoreThanTags DEF Provenance
  <2>6. QED
    BY <2>2, <2>5 DEF T
<1>2. QED
  BY <1>1, TypeCorrect, ProvenanceInvariant, PTL

\* The death of a node is reported once: no more reports of an identifier reach
\* the client than there were processes with it.
THEOREM DeathReportedTheorem == Spec => []DeathReportedOnce
<1>1. TypeOK /\ ProvenanceInv => DeathReportedOnce
  <2> SUFFICES ASSUME TypeOK, ProvenanceInv, NEW i \in DOMAIN eventsList,
                      eventsList[i].type = "NodeIsDeadResponse"
               PROVE  Cardinality({j \in DOMAIN eventsList :
                                     eventsList[j] = eventsList[i]})
                        <= Cardinality({p \in Forked :
                                          nodeId[p] = eventsList[i].id})
    BY DEF DeathReportedOnce
  <2>1. PICK tagged, passed : Provenance(tagged, passed)
    BY DEF ProvenanceInv
  <2>2. PICK m : m = eventsList[i]
    OBVIOUS
  <2> DEFINE T == {p \in Forked : nodeId[p] = m.id}
  <2>3. IsDeath(m) /\ IsFiniteSet(T)
    BY <2>2, NodesAreFinite DEF IsDeath
  <2>4. \A x \in On(tagged) : x[1] = m => x[2] \in T
    BY <2>1, <2>3 DEF Provenance, TagsAreTrue, TrueTag
  <2> HIDE DEF T
  <2>5. Cardinality({j \in DOMAIN eventsList : eventsList[j] = m})
          <= Cardinality(T)
    BY <2>1, <2>3, <2>4, NoMoreThanTags DEF Provenance
  <2>6. QED
    BY <2>2, <2>5 DEF T
<1>2. QED
  BY <1>1, TypeCorrect, ProvenanceInvariant, PTL
=============================================================================
