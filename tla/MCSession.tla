------------------------------ MODULE MCSession ------------------------------
(***************************************************************************)
(* Model checking of Session: a client, its successor on the same host,    *)
(* and a client of another host.                                           *)
(***************************************************************************)
EXTENDS Session

CONSTANTS first, second, other

MCEndpointOf ==
  [c \in Clients |-> IF c = other THEN "other host" ELSE "host"]

\* How many lines each of them types.
MCMaxLines ==
  [c \in Clients |-> CASE c = first -> 2 [] c = second -> 1 [] OTHER -> 0]
=============================================================================
