------------------------------ MODULE Clients ------------------------------
(***************************************************************************)
(* CalcTree with clients that keep to some discipline, and the properties  *)
(* that hold, or that the documents promise, under it.                     *)
(***************************************************************************)
EXTENDS CalcTree

CONSTANT Script  \* the commands a scripted client submits, in this order

-----------------------------------------------------------------------------
(***************************************************************************)
(* Clients that never ask twice for the same identifier.                   *)
(***************************************************************************)
IsFresh(cmd) ==
  cmd.type = "CommandCreate" =>
    /\ cmd.newNodeId # 0
    /\ \A i \in DOMAIN submitted :
          submitted[i].type = "CommandCreate" =>
            submitted[i].newNodeId # cmd.newNodeId

SubmitFresh == \E cmd \in Commands : IsFresh(cmd) /\ Submit(cmd)

FreshNext == TreeNext \/ SubmitFresh
FreshSpec == Init /\ [][FreshNext]_vars
FairFreshSpec == FreshSpec /\ Fairness

\* No process ever runs off the end of its list of records.
AlwaysFindsARecord == ranOff = {}

\* Clients that ask for nodes under the root only, or under nobody, and nodes
\* that neither die, nor fail to fork while there is room, nor are given up:
\* where AlwaysFindsARecord holds.
OnlyUnderTheRoot ==
  \A cmd, other \in Commands :
    cmd.type = "CommandCreate" /\ other.type = "CommandCreate" =>
      cmd.parentId = 0 \/ cmd.parentId # other.newNodeId

NobodyIsLost == MaxCrashes = 0 /\ ~ForksFail /\ ~FalseAlarms

\* The processes between p and the root, p included.
Ancestry(p) ==
  LET line[n \in 0..MaxPid] == IF n = 0 THEN p ELSE parent[line[n - 1]]
  IN  {line[n] : n \in 0..MaxPid}

\* The death of a child is reported to the client as long as the processes
\* between its parent and the root go on running.
CrashIsReported ==
  \A c \in Pids :
    (phase[c] = "gone" /\ c \in Children(parent[c]))
    ~> \/ NodeIsDeadResponse(nodeId[c]) \in Range(eventsList)
       \/ \E p \in Ancestry(parent[c]) : phase[p] # "running"

Answered(k, id) == GoodExecResp(id, k) \in Range(eventsList)

\* An exec that the server has not taken yet, for a node that exists by then,
\* is executed and the client gets the answer of the node.
ExecOfExistingIsAnswered ==
  \A k \in 1..MaxCommands :
    \A id \in {cmd.nodeId : cmd \in {c \in Commands : c.type = "CommandExec"}} :
      (/\ CommandExec(id, k) \in Range(down[Root])
       /\ \E p \in Forked : nodeId[p] = id)
      ~> Answered(k, id)

-----------------------------------------------------------------------------
(***************************************************************************)
(* Clients that keep the tree a chain: an identifier is new and its parent *)
(* is the last node or unknown, or the create is refused on its way.       *)
(***************************************************************************)
\* The chain of identifiers that the submitted commands lead to.
ChainOf(cmds) ==
  LET chain[i \in 0..Len(cmds)] ==
        IF i = 0 THEN <<0>>
        ELSE IF /\ cmds[i].type = "CommandCreate"
                /\ cmds[i].parentId = Last(chain[i - 1])
                /\ cmds[i].newNodeId \notin Range(chain[i - 1])
             THEN Append(chain[i - 1], cmds[i].newNodeId)
             ELSE chain[i - 1]
  IN  chain[Len(cmds)]

KeepsChain(cmd) ==
  LET chain == ChainOf(submitted)
  IN  cmd.type = "CommandCreate" =>
        IF cmd.newNodeId \in Range(chain)
        THEN \A i, j \in DOMAIN chain :
                chain[i] = cmd.newNodeId /\ chain[j] = cmd.parentId => i <= j
        ELSE cmd.parentId = Last(chain) \/ cmd.parentId \notin Range(chain)

SubmitToChain == \E cmd \in Commands : KeepsChain(cmd) /\ Submit(cmd)

ChainNext == TreeNext \/ SubmitToChain
ChainSpec == Init /\ [][ChainNext]_vars /\ Fairness

\* The machine lets the tree fork a process for every identifier asked for.
RoomForAll ==
  LET asked == {cmd \in Commands : cmd.type = "CommandCreate"}
      ids   == {cmd.newNodeId : cmd \in asked} \ {0}
  IN  IsFiniteSet(ids) /\ Cardinality(ids) <= MaxPid

\* A response as an outcome of the service.
OutcomeOf(resp) ==
  CASE resp.type = "GoodExecResp" ->
         [outcome |-> "ok", id |-> resp.id, k |-> resp.sum]
    [] resp.type = "GoodCreateResp" -> [outcome |-> "created", id |-> resp.id]
    [] resp.type = "NodeExistResponse" -> [outcome |-> "exists", id |-> resp.id]
    [] resp.type = "BadExecResp" -> [outcome |-> "unavailable", id |-> resp.id]
    [] resp.type = "BadCreateResp" -> [outcome |-> "not created"]
    [] OTHER -> [outcome |-> "none"]

Service == INSTANCE TreeService WITH
  answers <- [i \in DOMAIN eventsList |-> OutcomeOf(eventsList[i])]

\* A chain implements the service: every command gets its one answer.
ImplementsService == Service!Spec

-----------------------------------------------------------------------------
(***************************************************************************)
(* A client that submits the commands of Script, one after the other.      *)
(***************************************************************************)
SubmitScript ==
  /\ Len(submitted) < Len(Script)
  /\ Submit(Script[Len(submitted) + 1])

ScriptNext == TreeNext \/ SubmitScript
ScriptSpec == Init /\ [][ScriptNext]_vars

-----------------------------------------------------------------------------
(***************************************************************************)
(* What the documents say of the program and the code does not do.  Each   *)
(* is refuted by a run.                                                    *)
(***************************************************************************)

\* Nothing is left to handle.
Quiescent ==
  \A p \in Processes :
    /\ phase[p] # "stopping"
    /\ phase[p] = "running" =>
         /\ down[p] = <<>>
         /\ \A c \in Forked : parent[c] = p => up[c] = <<>>

\* requirements.md 2 and 3: a command that does not succeed is answered with an
\* error, so that there are as many answers as commands once all is handled.
EveryCommandIsAnswered ==
  Quiescent => Len(eventsList) >= Len(submitted)

\* us.md 7: the application stays operational as long as some node lives, even
\* when all the others are dead; here none of them died.
ServerStaysOperational ==
  (\E p \in Forked : phase[p] = "running") => phase[Root] = "running"
=============================================================================
