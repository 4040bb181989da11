------------------------------ MODULE MCReports ------------------------------
(***************************************************************************)
(* Model checking of Reports, with the commands of MCCalcTree.             *)
(***************************************************************************)
EXTENDS MCCalcTree, Reports
=============================================================================
