------------------------------ MODULE Messages ------------------------------
(***************************************************************************)
(* The messages that travel between the client, the server's CalcTree and  *)
(* the calc_tree_node processes (lib/infrastructure/message).  A message   *)
(* class is a record constructor whose arguments have the order of the     *)
(* C++ constructor: callers that swap them are modelled as they are.       *)
(*                                                                         *)
(* The numbers of an exec command are abstracted to one payload k that     *)
(* also stands for their sum: an answer carries the payload of the command *)
(* that was executed, so an answer to another command is told apart.       *)
(* Heartbeat messages are abstracted (see MayBeOverdue in CalcTree).       *)
(***************************************************************************)
EXTENDS Naturals

CommandCreate(newNodeId, parentId) ==
  [type |-> "CommandCreate", newNodeId |-> newNodeId, parentId |-> parentId]

CommandExec(nodeId, k) == [type |-> "CommandExec", nodeId |-> nodeId, k |-> k]

CommandPrintTree == [type |-> "CommandPrintTree"]

KillSignal == [type |-> "KillSignal"]

GoodExecResp(id, sum) == [type |-> "GoodExecResp", id |-> id, sum |-> sum]

BadExecResp(id) == [type |-> "BadExecResp", id |-> id]

GoodCreateResp(id, pid) == [type |-> "GoodCreateResp", id |-> id, pid |-> pid]

BadCreateResp(newNodeId, parentId) ==
  [type |-> "BadCreateResp", newNodeId |-> newNodeId, parentId |-> parentId]

NodeExistResponse(id) == [type |-> "NodeExistResponse", id |-> id]

NodeIsDeadResponse(id) == [type |-> "NodeIsDeadResponse", id |-> id]

-----------------------------------------------------------------------------
(***************************************************************************)
(* The sets of messages, over all node identifiers, payloads and pids.     *)
(***************************************************************************)
CommandMsg ==
  [type : {"CommandCreate"}, newNodeId : Nat, parentId : Nat]
    \cup [type : {"CommandExec"}, nodeId : Nat, k : Nat]
    \cup {CommandPrintTree}

ResponseMsg ==
  [type : {"GoodExecResp"}, id : Nat, sum : Nat]
    \cup [type : {"BadExecResp"}, id : Nat]
    \cup [type : {"GoodCreateResp"}, id : Nat, pid : Nat]
    \cup [type : {"BadCreateResp"}, newNodeId : Nat, parentId : Nat]
    \cup [type : {"NodeExistResponse"}, id : Nat]
    \cup [type : {"NodeIsDeadResponse"}, id : Nat]

DownMsg == CommandMsg \cup {KillSignal}
=============================================================================
