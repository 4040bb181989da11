----------------------------- MODULE MCCalcTree -----------------------------
(***************************************************************************)
(* Model checking of CalcTree: the commands that the clients of each run   *)
(* may submit, and the scripts of the runs that refute the documents.      *)
(***************************************************************************)
EXTENDS Clients

Create(newNodeId, parentId) == CommandCreate(newNodeId, parentId)
Exec(id) == CommandExec(id, 0)

\* Nodes beside or below each other, identifiers used twice, an unknown node, a
\* command without a handler.
GeneralCommands ==
  {Create(1, 0), Create(2, 0), Create(2, 1), Create(1, 2), Exec(1), Exec(9),
   CommandPrintTree}

\* Two nodes of which one may be below the other.
FreshCommands ==
  {Create(1, 0), Create(2, 0), Create(2, 1), Exec(1), Exec(2)}

\* A chain 0 - 1 - 2 - 3, a create that a node on the way refuses, one for an
\* unknown parent, and execs of a node that exists or not and of the manager.
ChainCommands ==
  {Create(1, 0), Create(2, 1), Create(3, 2), Create(1, 2), Create(3, 9),
   Exec(2), Exec(0)}

\* Nodes beside each other under the root, and an unknown parent.
StarCommands ==
  {Create(1, 0), Create(2, 0), Create(3, 0), Create(4, 9), Exec(1), Exec(9)}

\* Nodes on two levels, beside and below each other.
BranchCommands ==
  {Create(1, 0), Create(2, 1), Create(3, 1), Create(3, 0), Exec(2)}

NoCommands == {}
NoScript == <<>>

LostErrorScript == <<Create(1, 0), Create(2, 0), Exec(1), Exec(9)>>
TwoAnswersScript == <<Create(1, 0), Create(2, 0), Create(1, 2)>>
=============================================================================
