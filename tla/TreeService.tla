----------------------------- MODULE TreeService -----------------------------
(***************************************************************************)
(* What the tree promises its client (docs/requirements.md, 2 and 3): each *)
(* create and each exec is answered exactly once, as if the commands were  *)
(* executed one at a time in the order they were submitted in.  Answers to *)
(* commands sent in a row may come in another order than the commands.     *)
(*                                                                         *)
(* An answer is abstracted to its outcome.  CalcTree implements this       *)
(* specification as long as the tree is a chain (ChainSpec in Clients).        *)
(***************************************************************************)
EXTENDS Messages, Sequences, FiniteSets

CONSTANTS Commands, MaxCommands, Window

VARIABLES submitted, answers

vars == <<submitted, answers>>

Ok(id, k) == [outcome |-> "ok", id |-> id, k |-> k]
Created(id) == [outcome |-> "created", id |-> id]
Exists(id) == [outcome |-> "exists", id |-> id]
Unavailable(id) == [outcome |-> "unavailable", id |-> id]
NotCreated == [outcome |-> "not created"]

\* The identifiers in use once the first n commands are executed.
NodesAfter(cmds, n) ==
  LET nodes[i \in 0..n] ==
        IF i = 0 THEN {0}
        ELSE IF /\ cmds[i].type = "CommandCreate"
                /\ cmds[i].parentId \in nodes[i - 1]
             THEN nodes[i - 1] \cup {cmds[i].newNodeId}
             ELSE nodes[i - 1]
  IN  nodes[n]

\* The outcome of the n-th command.
Outcome(cmds, n) ==
  LET cmd   == cmds[n]
      nodes == NodesAfter(cmds, n - 1)
  IN  CASE cmd.type = "CommandExec" ->
             IF cmd.nodeId \in nodes \ {0}
             THEN Ok(cmd.nodeId, cmd.k)
             ELSE Unavailable(cmd.nodeId)
        [] cmd.type = "CommandCreate" ->
             IF cmd.newNodeId \in nodes THEN Exists(cmd.newNodeId)
             ELSE IF cmd.parentId \in nodes THEN Created(cmd.newNodeId)
             ELSE NotCreated

HowOften(seq, x) == Cardinality({i \in DOMAIN seq : seq[i] = x})

Init == submitted = <<>> /\ answers = <<>>

Submit ==
  /\ Len(submitted) < MaxCommands
  /\ Len(submitted) < Len(answers) + Window
  /\ \E cmd \in Commands :
        submitted' = Append(submitted,
                            IF cmd.type = "CommandExec"
                            THEN [cmd EXCEPT !.k = Len(submitted) + 1]
                            ELSE cmd)
  /\ UNCHANGED answers

\* One more answer, to a command that was submitted and not answered yet.
Answer ==
  LET due == [n \in DOMAIN submitted |-> Outcome(submitted, n)]
  IN  /\ \E n \in DOMAIN submitted :
            /\ HowOften(answers, due[n]) < HowOften(due, due[n])
            /\ answers' = Append(answers, due[n])
      /\ UNCHANGED submitted

Next == Submit \/ Answer

Spec == Init /\ [][Next]_vars /\ WF_vars(Answer)
=============================================================================
