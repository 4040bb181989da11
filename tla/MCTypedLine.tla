----------------------------- MODULE MCTypedLine -----------------------------
(***************************************************************************)
(* Model checking of TypedLine: commands with ids and numbers at their     *)
(* limits, lines that are nearly commands, and every other message class.  *)
(* Two decimals, of which one is written, stand for the many there are,    *)
(* and 100000 grains for the 2^53 numbers that a double can count.         *)
(***************************************************************************)
EXTENDS TypedLine

MCSpacings == {1, 200, 400, 800, 1600}

\* About as much as counts no longer as another number, and the largest double.
Large == 10 * Precision
Numbers == {<<>>, <<4>>, <<16, 26>>, <<50, -226>>, <<103, 103, -4>>,
            <<99999, 3>>, <<Large, One, One>>, <<One, One, Large>>,
            <<Large, -Large, 7>>, <<MaxDouble, One>>, <<MaxDouble, 800>>,
            <<MaxDouble, MaxDouble>>, <<-MaxDouble, -800, MaxDouble>>,
            <<MaxDouble, -MaxDouble, 7>>}

MCCommands ==
  {CommandExec(7, k) : k \in Numbers}
    \cup {CommandExec(65535, <<One, 3 * One>>)}
    \cup {CommandCreate(1, 0), CommandCreate(65535, 256)}
    \cup {CommandPrintTree, CommandPass(0), CommandPass(100)}

Minus(n) == Number(TRUE, n, Missing)
Half(n) == Number(FALSE, n, 50)

MCOtherLines ==
  {<<>>, <<Numeral(1)>>, <<Word("create")>>, <<Word("print")>>,
   <<Word("create"), Numeral(1)>>,
   <<Word("create"), Numeral(1), Word("x")>>,
   <<Word("create"), Numeral(1), Numeral(2), Numeral(3)>>,
   <<Word("create"), Numeral(1), Half(2)>>,
   <<Word("create"), Half(1), Numeral(2)>>,
   <<Word("create"), Numeral(65536), Numeral(0)>>,
   <<Word("create"), Minus(1), Minus(65535)>>,
   <<Word("exec"), Numeral(1)>>,
   <<Word("exec"), Numeral(1), Numeral(2), Half(0)>>,
   <<Word("exec"), Numeral(1), Numeral(1), Half(0), Half(1)>>,
   <<Word("exec"), Numeral(1), Numeral(1), Word("x")>>,
   <<Word("exec"), Numeral(1), Half(2), Numeral(3)>>,
   <<Word("exec"), Numeral(1), Minus(1), Numeral(3)>>,
   <<Word("exec"), Half(1), Numeral(3)>>,
   <<Word("exec"), Numeral(1), Numeral(1), Numeral(1599985)>>,
   <<Word("exec"), Numeral(1), Numeral(1), Numeral(1700000)>>,
   <<Word("exec"), Numeral(1), Numeral(2), Numeral(10001), Numeral(10003)>>,
   <<Word("exec"), Numeral(1), Numeral(2), Number(TRUE, 0, 0), Number(FALSE, Missing, 40)>>,
   <<Word("create"), Numeral(1), Number(FALSE, 2, 0)>>,
   <<Word("pass")>>, <<Word("pass"), Half(1)>>, <<Word("pass"), Minus(1)>>,
   <<Word("pass"), Numeral(10001)>>,
   <<Word("pass"), Word("x")>>, <<Word("pass"), Numeral(1), Numeral(2)>>}

MCOthers ==
  {AuthorizationWithName("endpoint", "name"), AuthorizationAccepted, KillSignal,
   NodeIsDeadResponse(65535), Heartbeat(7, 1700000000)}
=============================================================================
