------------------------------ MODULE CalcTree ------------------------------
(***************************************************************************)
(* The tree of calculation nodes: the CalcTree thread of the server (the   *)
(* root, identifier 0) and the calc_tree_node processes it and its         *)
(* descendants fork.  Both classes have the same handlers                  *)
(* (calc_tree_dummy.hpp and calc_tree_node_main.cpp), so that one action   *)
(* per handler, parameterised by the process, models the two.              *)
(*                                                                         *)
(* Processes are named by their pid; Root is the server.  down[p] is the   *)
(* FIFO path from p's parent to p (PushQueue, socket, PullQueue); up[p]    *)
(* the one from p to its parent.  down[Root] is the server's commandsQueue *)
(* and up[Root] its eventsList, kept whole: the answers the client gets.   *)
(* A node merges the paths that lead to it into one queue, so that it may  *)
(* take the head of any of them.                                           *)
(***************************************************************************)
EXTENDS CommandRecords, Messages

CONSTANTS
  Commands,     \* the commands a client may submit (the k of an exec is set by Submit)
  MaxPid,       \* how many processes the machine lets the tree fork
  MaxCommands,  \* how many commands clients submit
  MaxCrashes,   \* how many node processes die on their own
  ForksFail,    \* may a fork fail while there is room for the process?
  Window,       \* how many more commands than answers may have been submitted
  FalseAlarms   \* may the heartbeats of a living node be late for a check?

ASSUME ConstantsAssumption ==
  /\ Commands \subseteq CommandMsg
  /\ MaxPid \in Nat
  /\ MaxCommands \in Nat
  /\ MaxCrashes \in Nat
  /\ Window \in Nat \ {0}
  /\ FalseAlarms \in BOOLEAN
  /\ ForksFail \in BOOLEAN

Root == 0
Pids == 1..MaxPid
Processes == {Root} \cup Pids

VARIABLES
  forked,     \* how many processes were forked: the pids 1..forked
  phase,      \* "none" before the fork, then "running", "stopping", "gone", or
              \* "stuck" in the destructor of a child
  nodeId,     \* CalcTree::id, CalcTreeNode::id
  parent,     \* whose endpoint a process got as its serverEndpoint
  children,   \* rootNodesList, children
  records,    \* commandRecordsList
  down, up,   \* the message paths
  submitted,  \* the commands submitted so far
  crashes,    \* how many node processes died on their own
  ranOff      \* observer: processes whose findRecord ran past the end

vars == <<forked, phase, nodeId, parent, children, records, down, up,
          submitted, crashes, ranOff>>

eventsList == up[Root]

-----------------------------------------------------------------------------
Init ==
  /\ forked = 0
  /\ phase = [p \in Processes |-> IF p = Root THEN "running" ELSE "none"]
  /\ nodeId = [p \in Processes |-> 0]
  /\ parent = [p \in Processes |-> Root]
  /\ children = [p \in Processes |-> <<>>]
  /\ records = [p \in Processes |-> <<>>]
  /\ down = [p \in Processes |-> <<>>]
  /\ up = [p \in Processes |-> <<>>]
  /\ submitted = <<>>
  /\ crashes = 0
  /\ ranOff = {}

Children(p) == Range(children[p])

Forked == 1..forked

\* p is in its loop and the next message on the path from its parent is a type.
Receives(p, type) ==
  /\ phase[p] = "running"
  /\ down[p] # <<>>
  /\ Head(down[p]).type = type

Consumed(path, p) == [path EXCEPT ![p] = Tail(@)]

\* Mutant of redirectToAncestor: the message is pushed twice.
redirectTwiceToAncestor(path, p, msg) == [path EXCEPT ![p] = @ \o <<msg, msg>>]

\* redirectToAncestor, pushMessage: msg added to the path from p upwards.
redirectToAncestor(path, p, msg) == [path EXCEPT ![p] = Append(@, msg)]

\* Mutants of redirectToNodes: two copies to each child; also to the children
\* that were erased.
redirectTwiceToNodes(path, p, msg) ==
  [c \in Processes |->
     IF c \in Children(p) THEN path[c] \o <<msg, msg>> ELSE path[c]]
redirectToAllForked(path, p, msg) ==
  [c \in Processes |->
     IF c \in Forked /\ parent[c] = p THEN Append(path[c], msg) ELSE path[c]]

\* redirectToNodes when there are children: one copy of msg to each of them.
redirectToNodes(path, p, msg) ==
  [c \in Processes |->
     IF c \in Children(p) THEN Append(path[c], msg) ELSE path[c]]

\* Mutant of handleDeadEnd: the command itself goes to the ancestor.
handleDeadEndByReturning(cmd) == cmd

\* What handleDeadEnd answers to a command when there are no children.  The
\* arguments of BadCreateResp are in the order of the code.
handleDeadEnd(cmd) ==
  IF cmd.type = "CommandExec"
  THEN BadExecResp(cmd.nodeId)
  ELSE BadCreateResp(cmd.parentId, cmd.newNodeId)

\* p is gone without running a destructor: its dispatch thread had passed on
\* some first part of what it had to say.  (The answers of the root are kept.)
Dies(p, path) ==
  /\ phase' = [phase EXCEPT ![p] = "gone"]
  /\ IF p = Root
     THEN up' = path
     ELSE \E n \in 0..Len(path[p]) : up' = [path EXCEPT ![p] = SubSeq(@, 1, n)]

-----------------------------------------------------------------------------
(***************************************************************************)
(* A client's command arrives in the server's commandsQueue.  A client     *)
(* sends a command, then waits for one response: Window = 1.               *)
(***************************************************************************)
Submit(cmd) ==
  LET c == IF cmd.type = "CommandExec"
           THEN [cmd EXCEPT !.k = Len(submitted) + 1]
           ELSE cmd
  IN  /\ Len(submitted) < MaxCommands
      /\ Len(submitted) < Len(eventsList) + Window
      /\ submitted' = Append(submitted, c)
      /\ down' = [down EXCEPT ![Root] = Append(@, c)]
      /\ UNCHANGED <<forked, phase, nodeId, parent, children, records, up,
                     crashes, ranOff>>

-----------------------------------------------------------------------------
(***************************************************************************)
(* handleCreate                                                            *)
(***************************************************************************)
CreateNodeExists(p) ==
  /\ Receives(p, "CommandCreate")
  /\ Head(down[p]).newNodeId = nodeId[p]
  /\ down' = Consumed(down, p)
  /\ up' = redirectToAncestor(up, p, NodeExistResponse(nodeId[p]))
  /\ UNCHANGED <<forked, phase, nodeId, parent, children, records, submitted,
                 crashes, ranOff>>

\* Mutant of ReceivesCreateHere: the parent's identifier is not compared.
ReceivesCreateAnywhere(p) ==
  /\ Receives(p, "CommandCreate")
  /\ Head(down[p]).newNodeId # nodeId[p]

\* p is the parent the command names.
ReceivesCreateHere(p) ==
  /\ Receives(p, "CommandCreate")
  /\ Head(down[p]).newNodeId # nodeId[p]
  /\ Head(down[p]).parentId = nodeId[p]

\* Mutant of getProcessPidByNodeId: the first child, whatever its identifier.
getProcessPidOfFirst(kids, idOf, id) == kids[1]

\* The first child with the identifier, in the order of the list: the
\* identifier is not compared with those of the children before the fork.
getProcessPidByNodeId(kids, idOf, id) ==
  kids[CHOOSE i \in DOMAIN kids :
         /\ idOf[kids[i]] = id
         /\ \A j \in 1..(i - 1) : idOf[kids[j]] # id]

\* Mutant of emplaceBack: the child enters the list twice.
emplaceBackTwice(kids, c) == kids \o <<c, c>>

emplaceBack(kids, c) == Append(kids, c)

\* createRootNodeAndPushResponse, tryPushBackNewNode, CalcNodeRoot's
\* constructor, and the launch of the new process.
CreateHere(p) ==
  LET newNodeId == Head(down[p]).newNodeId
      c    == forked + 1
      kids == emplaceBack(children[p], c)
      ids  == [nodeId EXCEPT ![c] = newNodeId]
      pid  == getProcessPidByNodeId(kids, ids, newNodeId)
  IN  /\ ReceivesCreateHere(p)
      /\ forked < MaxPid
      /\ forked' = c
      /\ phase' = [phase EXCEPT ![c] = "running"]
      /\ nodeId' = ids
      /\ parent' = [parent EXCEPT ![c] = p]
      /\ children' = [children EXCEPT ![p] = kids]
      /\ down' = Consumed(down, p)
      /\ up' = redirectToAncestor(up, p, GoodCreateResp(newNodeId, pid))
      /\ UNCHANGED <<records, submitted, crashes, ranOff>>

\* fork fails, for want of room or for another reason: the constructor throws,
\* and ~PushQueue joins a dispatch thread that was never started before the
\* exception reaches tryPushBackNewNode.
CreateForkFails(p) ==
  /\ ReceivesCreateHere(p)
  /\ forked = MaxPid \/ ForksFail
  /\ down' = Consumed(down, p)
  /\ Dies(p, up)
  /\ UNCHANGED <<forked, nodeId, parent, children, records, submitted, crashes,
                 ranOff>>

\* A command for some other node: to all children, and a record is kept even
\* when there are none and the command was answered as a dead end.
RedirectCommand(p, type) ==
  /\ records' = [records EXCEPT ![p] = Append(@, CommandRecord(type))]
  /\ down' = redirectToNodes(Consumed(down, p), p, Head(down[p]))
  /\ up' = IF children[p] = <<>>
           THEN redirectToAncestor(up, p, handleDeadEnd(Head(down[p])))
           ELSE up
  /\ UNCHANGED <<forked, phase, nodeId, parent, children, submitted, crashes,
                 ranOff>>

CreateElsewhere(p) ==
  /\ Receives(p, "CommandCreate")
  /\ Head(down[p]).newNodeId # nodeId[p]
  /\ Head(down[p]).parentId # nodeId[p]
  /\ RedirectCommand(p, "Create")

-----------------------------------------------------------------------------
(***************************************************************************)
(* handleExec.  The root has no identifier check.                          *)
(***************************************************************************)
\* Mutant of IsExecutor: a node executes whatever it gets.
IsAnyNode(p, cmd) == p # Root

IsExecutor(p, cmd) == p # Root /\ cmd.nodeId = nodeId[p]

ExecuteHere(p) ==
  /\ Receives(p, "CommandExec")
  /\ IsExecutor(p, Head(down[p]))
  /\ down' = Consumed(down, p)
  /\ up' = redirectToAncestor(up, p, GoodExecResp(nodeId[p], Head(down[p]).k))
  /\ UNCHANGED <<forked, phase, nodeId, parent, children, records, submitted,
                 crashes, ranOff>>

ExecElsewhere(p) ==
  /\ Receives(p, "CommandExec")
  /\ ~IsExecutor(p, Head(down[p]))
  /\ RedirectCommand(p, "Exec")

\* handleCommand has no branch for the other commands.
IgnoreCommand(p) ==
  /\ Receives(p, "CommandPrintTree")
  /\ down' = Consumed(down, p)
  /\ UNCHANGED <<forked, phase, nodeId, parent, children, records, up,
                 submitted, crashes, ranOff>>

-----------------------------------------------------------------------------
(***************************************************************************)
(* handleKillSignal, and the end of the process.  The destructors push a   *)
(* KillSignal to each child twice (~CalcTreeNode, ~CalcNodeRoot), then     *)
(* stop the dispatch threads without emptying their queues.                *)
(***************************************************************************)
HandleKillSignal(p) ==
  /\ Receives(p, "KillSignal")
  /\ phase' = [phase EXCEPT ![p] = "stopping"]
  /\ down' = redirectToNodes(Consumed(down, p), p, KillSignal)
  /\ UNCHANGED <<forked, nodeId, parent, children, records, up, submitted,
                 crashes, ranOff>>

\* ~PushConnection ends when the peer has taken all that the socket was given
\* (ZeroMQ lingers without limit).  With left messages on the path to c that
\* c did not handle, and c gone, p may be stuck in it; its dispatch threads
\* are not.
Lingers(p, c, left) ==
  /\ phase[c] = "gone"
  /\ left > 0
  /\ phase' = [phase EXCEPT ![p] = "stuck"]

Exit(p) ==
  LET queued(c) == down[c] \o <<KillSignal, KillSignal>>
      lengths == UNION {0..Len(queued(c)) : c \in Children(p)}
  IN  /\ phase[p] = "stopping"
      /\ \E sent \in [Children(p) -> lengths] :
            /\ \A c \in Children(p) : sent[c] <= Len(queued(c))
            /\ down' = [c \in Processes |->
                 IF c \in Children(p)
                 THEN SubSeq(queued(c), 1, sent[c])
                 ELSE down[c]]
            /\ \/ Dies(p, up)
               \/ \E c \in Children(p) : Lingers(p, c, sent[c]) /\ UNCHANGED up
      /\ UNCHANGED <<forked, nodeId, parent, children, records, submitted,
                     crashes, ranOff>>

-----------------------------------------------------------------------------
(***************************************************************************)
(* handleResponse: p takes the next response of a process c whose          *)
(* ancestor it is, whether or not c is still one of its children.          *)
(***************************************************************************)
Answers(c, p, types) ==
  /\ phase[p] = "running"
  /\ c \in Forked
  /\ parent[c] = p
  /\ up[c] # <<>>
  /\ Head(up[c]).type \in types

\* The type of the record a response is accounted to.
RecordType(resp) ==
  IF resp.type \in {"GoodExecResp", "BadExecResp"} THEN "Exec" ELSE "Create"

\* Mutant of PassedOn: only the answer to the last command that is open.
PassedOnIfLast(p, c) ==
  IF Len(records[p]) > 1
  THEN Consumed(up, c)
  ELSE redirectToAncestor(Consumed(up, c), p, Head(up[c]))

\* up once p has passed the next response of c on to its ancestor.
PassedOn(p, c) == redirectToAncestor(Consumed(up, c), p, Head(up[c]))

AccountBadResp(p, c) ==
  LET type == RecordType(Head(up[c]))
      n    == Len(children[p])
  IN  /\ Answers(c, p, {"BadExecResp", "BadCreateResp"})
      /\ ~RunsOffTheEnd(records[p], type)
      /\ records' = [records EXCEPT ![p] = AccountBad(@, type, n)]
      /\ up' = IF BadIsForwarded(records[p], type, n)
               THEN PassedOn(p, c)
               ELSE Consumed(up, c)
      /\ UNCHANGED <<forked, phase, nodeId, parent, children, down, submitted,
                     crashes, ranOff>>

AccountGoodResp(p, c) ==
  LET type == RecordType(Head(up[c]))
  IN  /\ Answers(c, p, {"GoodExecResp", "GoodCreateResp"})
      /\ ~RunsOffTheEnd(records[p], type)
      /\ records' =
           [records EXCEPT ![p] = AccountGood(@, type, Len(children[p]))]
      /\ up' = PassedOn(p, c)
      /\ UNCHANGED <<forked, phase, nodeId, parent, children, down, submitted,
                     crashes, ranOff>>

CloseRecordAndRedirectResp(p, c) ==
  /\ Answers(c, p, {"NodeExistResponse"})
  /\ ~RunsOffTheEnd(records[p], "Create")
  /\ records' = [records EXCEPT ![p] = CloseRecord(@)]
  /\ up' = PassedOn(p, c)
  /\ UNCHANGED <<forked, phase, nodeId, parent, children, down, submitted,
                 crashes, ranOff>>

RedirectResponse(p, c) ==
  /\ Answers(c, p, {"NodeIsDeadResponse"})
  /\ up' = PassedOn(p, c)
  /\ UNCHANGED <<forked, phase, nodeId, parent, children, records, down,
                 submitted, crashes, ranOff>>

\* No record of the response's type: the behaviour is undefined.  The process
\* is lost (it loops for ever or corrupts its heap), or the sentinel passes for
\* a record and the response is treated like one that does not fill it.
RunOffTheEnd(p, c) ==
  LET type == RecordType(Head(up[c]))
  IN  /\ Answers(c, p, {"GoodExecResp", "BadExecResp", "GoodCreateResp",
                        "BadCreateResp", "NodeExistResponse"})
      /\ RunsOffTheEnd(records[p], type)
      /\ ranOff' = ranOff \cup {p}
      /\ \/ Dies(p, Consumed(up, c))
         \/ /\ Head(up[c]).type # "NodeExistResponse"
            /\ SentinelMatches(records[p], type)
            /\ up' = IF Head(up[c]).type \in {"GoodExecResp", "GoodCreateResp"}
                     THEN PassedOn(p, c)
                     ELSE Consumed(up, c)
            /\ UNCHANGED phase
      /\ UNCHANGED <<forked, nodeId, parent, children, records, down,
                     submitted, crashes>>

-----------------------------------------------------------------------------
(***************************************************************************)
(* Heartbeats.  A running node pushes a Heartbeat in every iteration, and  *)
(* handleHeartbeat notes it at the first child with that identifier.  So   *)
(* the heartbeat of c stays fresh as long as c is the first with its       *)
(* identifier and some process with that parent and identifier runs, and   *)
(* is overdue sooner or later otherwise.                                   *)
(***************************************************************************)
FirstWithItsId(p, c) ==
  \E i \in DOMAIN children[p] :
    /\ children[p][i] = c
    /\ \A j \in 1..(i - 1) : nodeId[children[p][j]] # nodeId[c]

\* Mutant of IsRefreshed: a heartbeat refreshes whichever child is asked for.
IsRefreshedByAny(p, c) == \E d \in Forked : parent[d] = p /\ phase[d] = "running"

IsRefreshed(p, c) ==
  /\ FirstWithItsId(p, c)
  /\ \E d \in Forked : /\ parent[d] = p
                       /\ nodeId[d] = nodeId[c]
                       /\ phase[d] = "running"

MayBeOverdue(p, c) == FalseAlarms \/ ~IsRefreshed(p, c)

\* Mutant of eraseChild: the next child is erased.
eraseNext(kids, i) == RemoveAt(kids, IF i < Len(kids) THEN i + 1 ELSE i)

eraseChild(kids, i) == RemoveAt(kids, i)

\* checkHeartbeat, for one overdue child: the report, the erasure, and what
\* ~CalcNodeRoot and ~PushQueue let through to the process.
EraseOverdue(p, c) ==
  /\ phase[p] \in {"running", "stopping"}
  /\ MayBeOverdue(p, c)
  /\ up' = redirectToAncestor(up, p, NodeIsDeadResponse(nodeId[c]))
  /\ \E i \in DOMAIN children[p] :
        /\ children[p][i] = c
        /\ children' = [children EXCEPT ![p] = eraseChild(@, i)]
  /\ \E n \in 0..(Len(down[c]) + 1) :
        /\ down' = [down EXCEPT ![c] = SubSeq(Append(@, KillSignal), 1, n)]
        /\ UNCHANGED phase \/ Lingers(p, c, n)
  /\ UNCHANGED <<forked, nodeId, parent, records, submitted, crashes, ranOff>>

\* A node process dies on its own, at any time after its fork.
Crash(p) ==
  /\ phase[p] \in {"running", "stopping", "stuck"}
  /\ crashes < MaxCrashes
  /\ crashes' = crashes + 1
  /\ Dies(p, up)
  /\ UNCHANGED <<forked, nodeId, parent, children, records, down, submitted,
                 ranOff>>

-----------------------------------------------------------------------------
HandleCommand(p) ==
  \/ CreateNodeExists(p)
  \/ CreateHere(p)
  \/ CreateForkFails(p)
  \/ CreateElsewhere(p)
  \/ ExecuteHere(p)
  \/ ExecElsewhere(p)
  \/ IgnoreCommand(p)

HandleResponse(p, c) ==
  \/ AccountBadResp(p, c)
  \/ AccountGoodResp(p, c)
  \/ CloseRecordAndRedirectResp(p, c)
  \/ RedirectResponse(p, c)
  \/ RunOffTheEnd(p, c)

\* Everything but the client.
TreeNext ==
  \/ \E p \in Processes : HandleCommand(p) \/ HandleKillSignal(p) \/ Exit(p)
  \/ \E p \in Processes, c \in Pids : HandleResponse(p, c) \/ EraseOverdue(p, c)
  \/ \E p \in Pids : Crash(p)

Next == TreeNext \/ \E cmd \in Commands : Submit(cmd)

Spec == Init /\ [][Next]_vars

(***************************************************************************)
(* The loop of a running process takes every message that reaches it and   *)
(* checks the heartbeats again and again; a process that left its loop     *)
(* ends.  Nothing makes a client submit or a process die.                  *)
(***************************************************************************)
Fairness ==
  /\ \A p \in Processes : WF_vars(HandleCommand(p) \/ HandleKillSignal(p))
  /\ \A p \in Processes : WF_vars(Exit(p))
  /\ \A p \in Processes, c \in Pids : WF_vars(HandleResponse(p, c))
  /\ \A p \in Processes, c \in Pids :
        WF_vars(~IsRefreshed(p, c) /\ EraseOverdue(p, c))

FairSpec == Spec /\ Fairness

-----------------------------------------------------------------------------
(***************************************************************************)
(* Properties.                                                             *)
(***************************************************************************)

\* Type invariant: every path carries the messages its receiver handles.
TypeOK ==
  /\ forked \in 0..MaxPid
  /\ phase \in [Processes -> {"none", "running", "stopping", "stuck", "gone"}]
  /\ nodeId \in [Processes -> Nat]
  /\ parent \in [Processes -> Processes]
  /\ children \in [Processes -> Seq(Pids)]
  /\ records \in [Processes -> Seq(RecordSet)]
  /\ down \in [Processes -> Seq(DownMsg)]
  /\ up \in [Processes -> Seq(ResponseMsg)]
  /\ submitted \in Seq(CommandMsg)
  /\ crashes \in 0..MaxCrashes
  /\ ranOff \subseteq Processes

\* The processes form a tree that the lists of children agree with: a process
\* is in no list but its parent's, once, and was forked after its parent.
\* Erasures, crashes and identifiers used twice leave it so.
ForkedArePhased == \A c \in Pids : phase[c] = "none" <=> c \notin Forked

ParentsAreOlder == \A c \in Forked : parent[c] < c

ListsAreOfChildren ==
  \A p \in Processes : \A i \in DOMAIN children[p] :
    /\ children[p][i] \in Forked
    /\ parent[children[p][i]] = p

ListsAreOnce ==
  \A p \in Processes : \A i, j \in DOMAIN children[p] :
    children[p][i] = children[p][j] => i = j

TreeShape ==
  ForkedArePhased /\ ParentsAreOlder /\ ListsAreOfChildren /\ ListsAreOnce

\* Every node of the tree is where a client asked for it: a create command
\* with its identifier and its parent's identifier was submitted.
TreeAsCommanded ==
  \A c \in Forked :
    CommandCreate(nodeId[c], nodeId[parent[c]]) \in Range(submitted)

\* An "Ok" to a create names a process that has the identifier asked for.
CreateOkIsGenuine ==
  \A i \in DOMAIN eventsList :
    eventsList[i].type = "GoodCreateResp" =>
      /\ eventsList[i].pid \in Forked
      /\ nodeId[eventsList[i].pid] = eventsList[i].id

\* An "Ok:id: Ans" is the answer to a submitted exec for that identifier, and
\* comes from a node that exists, whatever the interleaving of broadcasts,
\* erasures and deaths.
ExecOkIsGenuine ==
  \A i \in DOMAIN eventsList :
    eventsList[i].type = "GoodExecResp" =>
      /\ eventsList[i].sum \in DOMAIN submitted
      /\ submitted[eventsList[i].sum] =
           CommandExec(eventsList[i].id, eventsList[i].sum)
      /\ \E p \in Forked : nodeId[p] = eventsList[i].id

\* A node executes a command once: an answer reaches the client no more often
\* than there are processes with the identifier, although commands are
\* broadcast and answers passed on from level to level.
ExecutedOncePerNode ==
  \A i \in DOMAIN eventsList :
    eventsList[i].type = "GoodExecResp" =>
      Cardinality({j \in DOMAIN eventsList : eventsList[j] = eventsList[i]})
        <= Cardinality({p \in Forked : nodeId[p] = eventsList[i].id})

\* The user is told of the death of a node at most once: no more reports of an
\* identifier reach the client than there were processes with it.
DeathReportedOnce ==
  \A i \in DOMAIN eventsList :
    eventsList[i].type = "NodeIsDeadResponse" =>
      Cardinality({j \in DOMAIN eventsList : eventsList[j] = eventsList[i]})
        <= Cardinality({p \in Forked : nodeId[p] = eventsList[i].id})

\* Only what its parent gave up is killed: a node that has a KillSignal before
\* it, or has left its loop, was erased from its parent's list of children, or
\* its parent is itself on the way out.
OnlyErasedAreKilled ==
  \A c \in Forked :
    (KillSignal \in Range(down[c]) \/ phase[c] = "stopping") =>
      \/ c \notin Children(parent[c])
      \/ phase[parent[c]] # "running"
=============================================================================
