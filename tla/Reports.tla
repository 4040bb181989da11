------------------------------- MODULE Reports -------------------------------
(***************************************************************************)
(* The clients of FreshSpec, and a note of how many commands they had      *)
(* submitted when each answer reached them: what a report of a death       *)
(* means to a client that goes on asking.                                  *)
(***************************************************************************)
EXTENDS Clients

VARIABLE askedBy  \* observer: commands submitted when each answer came

Observe ==
  askedBy' = [i \in DOMAIN eventsList' |->
                IF i \in DOMAIN askedBy THEN askedBy[i] ELSE Len(submitted')]

ReportsInit == Init /\ askedBy = <<>>
ReportsNext == FreshNext /\ Observe
ReportsSpec == ReportsInit /\ [][ReportsNext]_<<vars, askedBy>>

\* Once the death of a node was reported, the node executes no command that
\* was submitted after the report, although its process may run on and its
\* path may still be full (CalcTreeNode::checkHeartbeat, ~CalcNodeRoot).
DeadStaysSilent ==
  \A i, j \in DOMAIN eventsList :
    /\ eventsList[i].type = "NodeIsDeadResponse"
    /\ eventsList[j].type = "GoodExecResp"
    /\ eventsList[j].id = eventsList[i].id
    => eventsList[j].sum <= askedBy[i]
=============================================================================
