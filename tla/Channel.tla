------------------------------- MODULE Channel -------------------------------
(***************************************************************************)
(* What a PushQueue on one side and a PullQueue on the other promise: the  *)
(* messages arrive in the order they were pushed in, none of them twice,   *)
(* none invented.  When the sending side ends, a last part of the messages *)
(* may be lost.  These are the steps CalcTree takes on down and up.        *)
(***************************************************************************)
EXTENDS Integers, Sequences

CONSTANT Msg

VARIABLES
  path,  \* the messages pushed and not yet pulled
  isCut  \* the sending side has ended

vars == <<path, isCut>>

Init ==
  /\ path = <<>>
  /\ isCut = FALSE

Send ==
  /\ ~isCut
  /\ \E m \in Msg : path' = Append(path, m)
  /\ UNCHANGED isCut

Take ==
  /\ path # <<>>
  /\ path' = Tail(path)
  /\ UNCHANGED isCut

Cut ==
  /\ \E n \in 0..Len(path) : path' = SubSeq(path, 1, n)
  /\ isCut' = TRUE

Next == Send \/ Take \/ Cut

Spec == Init /\ [][Next]_vars
=============================================================================
