--------------------------- MODULE CommandRecords ---------------------------
(***************************************************************************)
(* The list of command records that CalcTree and CalcTreeNode keep, one    *)
(* record for each command broadcast to the children and not yet settled   *)
(* (calc_tree_node.hpp, calc_tree_dummy.hpp, calc_tree_node_main.cpp).     *)
(* Records carry no command identity: a response is accounted to the first *)
(* record of its type.  n is the number of children at the moment the      *)
(* response is handled, not at the moment the command was broadcast.       *)
(***************************************************************************)
EXTENDS Integers, Sequences, SequencesExt

CommandType == {"Create", "Exec"}

CommandRecord(type) ==
  [type |-> type, recievedResponses |-> 0, wasGoodResponse |-> FALSE]

RecordSet ==
  [type : CommandType, recievedResponses : Nat, wasGoodResponse : BOOLEAN]

accountBadResp(r) == [r EXCEPT !.recievedResponses = @ + 1]

accountGoodResp(r) ==
  [r EXCEPT !.recievedResponses = @ + 1, !.wasGoodResponse = TRUE]

\* Mutants of recordIsFull: one response too early; one too late.
recordIsAlmostFull(r, n) == r.recievedResponses + 1 >= n
recordIsOverfull(r, n) == r.recievedResponses > n

recordIsFull(r, n) == r.recievedResponses = n

recordIsBad(r, n) == recordIsFull(r, n) /\ ~r.wasGoodResponse

\* The indices at which findRecord(type) may stop; the loop has no end test.
RecordsOf(recs, type) == {i \in DOMAIN recs : recs[i].type = type}

\* findRecord would step past the last element.
RunsOffTheEnd(recs, type) == RecordsOf(recs, type) = {}

\* The index of the record findRecord returns, when there is one.
findRecord(recs, type) ==
  CHOOSE i \in RecordsOf(recs, type) : \A j \in RecordsOf(recs, type) : i <= j

(***************************************************************************)
(* Past the end, libstdc++'s list iterator is at the sentinel, whose data  *)
(* area begins with the list's size: comparing it with the enumerator      *)
(* (CreateEnum = 0, ExecEnum = 1) may succeed.  Otherwise the loop wraps   *)
(* around and never ends.                                                  *)
(***************************************************************************)
SentinelMatches(recs, type) ==
  \/ type = "Create" /\ Len(recs) = 0
  \/ type = "Exec" /\ Len(recs) = 1

-----------------------------------------------------------------------------
\* accountBadExecResp, accountBadCreateResp: the list afterwards, and whether
\* the response is passed on to the ancestor.
BadIsForwarded(recs, type, n) ==
  recordIsBad(accountBadResp(recs[findRecord(recs, type)]), n)

AccountBad(recs, type, n) ==
  LET i == findRecord(recs, type)
      r == accountBadResp(recs[i])
  IN  IF recordIsBad(r, n) THEN RemoveAt(recs, i) ELSE [recs EXCEPT ![i] = r]

\* accountGoodExecResp, accountGoodCreateResp: the list afterwards (the
\* response is always passed on).
AccountGood(recs, type, n) ==
  LET i == findRecord(recs, type)
      r == accountGoodResp(recs[i])
  IN  IF recordIsFull(r, n) THEN RemoveAt(recs, i) ELSE [recs EXCEPT ![i] = r]

\* closeRecordAndRedirectResp: the first create record goes, however many
\* responses it still waits for.
CloseRecord(recs) == RemoveAt(recs, findRecord(recs, "Create"))
=============================================================================
