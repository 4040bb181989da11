-------------------------------- MODULE Parser --------------------------------
(***************************************************************************)
(* ClientParser: one attempt for each type of command, on a stream of the  *)
(* line of its own.  A line is a sequence of words and numbers; a number   *)
(* has a sign, a whole part and a fraction, of which one may be missing.   *)
(* Reading an unsigned takes the whole part and leaves the fraction as the *)
(* number that is read next.                                               *)
(***************************************************************************)
EXTENDS Serialization

Max16 == 65535       \* the largest uint16_t
MaxSize == 1000000   \* bound: stands for the largest std::size_t

Missing == -1
Number(negative, whole, fraction) ==
  [negative |-> negative, whole |-> whole, fraction |-> fraction]
Numeral(n) == Number(FALSE, n, Missing)

\* What a line is made of, and what the parser makes of one.
LineLexemes ==
  [word : STRING]
    \cup [negative : BOOLEAN, whole : Nat, fraction : Missing..(One - 1)]
    \cup [negative : BOOLEAN, whole : {Missing}, fraction : 0..(One - 1)]
ParsedCommands ==
  [type : {"CommandCreate"}, newNodeId : 0..Max16, parentId : 0..Max16]
    \cup [type : {"CommandExec"}, nodeId : 0..Max16,
          k : Seq(-MaxDouble..MaxDouble)]
    \cup {CommandPrintTree}
    \cup [type : {"CommandPass"}, time : Int]

Refused == [type |-> "refused"]
Failed == [ok |-> FALSE, value |-> 0, rest |-> <<>>]

-----------------------------------------------------------------------------
(***************************************************************************)
(* istream >> unsigned, double and milliseconds: what a stream gives, and  *)
(* what is left of it.                                                     *)
(***************************************************************************)
IsNumber(lexeme) == "whole" \in DOMAIN lexeme

\* A value out of range fails; a minus sign negates the value in its type.
ReadUnsigned(iss, max) ==
  IF iss = <<>> \/ ~IsNumber(Head(iss)) \/ Head(iss).whole \notin 0..max
  THEN Failed
  ELSE LET number == Head(iss)
       IN  [ok |-> TRUE,
            value |-> IF number.negative
                      THEN (max + 1 - number.whole) % (max + 1)
                      ELSE number.whole,
            rest |-> IF number.fraction = Missing THEN Tail(iss)
                     ELSE <<Number(FALSE, Missing, number.fraction)>> \o Tail(iss)]

Part(p) == IF p = Missing THEN 0 ELSE p

\* The value of a number, in grains.
ValueOf(number) ==
  LET size == Part(number.whole) * One + Part(number.fraction)
  IN  IF number.negative THEN -size ELSE size

\* A number is read as the nearest double, and not at all if that is infinite.
ReadAs(lexeme) == Nearest(ValueOf(lexeme))
IsDouble(lexeme) == IsNumber(lexeme) /\ ReadAs(lexeme) \in -MaxDouble..MaxDouble

ReadDouble(iss) ==
  IF iss = <<>> \/ ~IsDouble(Head(iss)) THEN Failed
  ELSE [ok |-> TRUE, value |-> ReadAs(Head(iss)), rest |-> Tail(iss)]

\* The number is divided by 1000 and multiplied by it again, which may lose the
\* least that a double can (of 1005 remains 1004.9999...), and duration_cast cuts
\* off the fraction of a millisecond.
Milliseconds(size, loss) == IF size = 0 THEN 0 ELSE (size - loss) \div One

ReadMilliseconds(iss, loss) ==
  LET ms == ReadDouble(iss)
  IN  IF ~ms.ok THEN Failed
      ELSE [ms EXCEPT !.value = IF @ < 0 THEN -Milliseconds(-@, loss)
                                ELSE Milliseconds(@, loss)]

\* read_vector_or_throw_exception: n doubles, then the stream has to be empty.
ReadVector(iss, n) ==
  IF n > Len(iss) \/ \E i \in 1..n : ~IsDouble(iss[i])
  THEN Failed
  ELSE [ok |-> TRUE, value |-> [i \in 1..n |-> ReadAs(iss[i])],
        rest |-> SubSeq(iss, n + 1, Len(iss))]

-----------------------------------------------------------------------------
(***************************************************************************)
(* The attempts.                                                           *)
(***************************************************************************)
check_command(line, command_name) == line # <<>> /\ Head(line) = Word(command_name)

tryParseCreate(line) ==
  LET newNodeId == ReadUnsigned(Tail(line), Max16)
      parentId == ReadUnsigned(newNodeId.rest, Max16)
  IN  IF /\ check_command(line, "create")
         /\ newNodeId.ok /\ parentId.ok /\ parentId.rest = <<>>
      THEN CommandCreate(newNodeId.value, parentId.value)
      ELSE Refused

\* A mutant of tryParseExec: the line goes on after the last number.
tryParseExecBeginning(line) ==
  LET id == ReadUnsigned(Tail(line), Max16)
      n == ReadUnsigned(id.rest, MaxSize)
      k == ReadVector(n.rest, n.value)
  IN  IF check_command(line, "exec") /\ id.ok /\ n.ok /\ k.ok
      THEN CommandExec(id.value, k.value)
      ELSE Refused

tryParseExec(line) ==
  LET id == ReadUnsigned(Tail(line), Max16)
      n == ReadUnsigned(id.rest, MaxSize)
      k == ReadVector(n.rest, n.value)
  IN  IF check_command(line, "exec") /\ id.ok /\ n.ok /\ k.ok /\ k.rest = <<>>
      THEN CommandExec(id.value, k.value)
      ELSE Refused

tryParsePrintTree(line) ==
  IF check_command(line, "print") /\ Tail(line) = <<>> THEN CommandPrintTree
  ELSE Refused

tryParsePass(line, loss) ==
  LET time == ReadMilliseconds(Tail(line), loss)
  IN  IF check_command(line, "pass") /\ time.ok /\ time.rest = <<>>
      THEN CommandPass(time.value)
      ELSE Refused

\* tryParse, for one of the types that parse goes through.
commandTypeList == <<"Create", "Exec", "PrintTree", "Pass">>
tryParse(type, line, loss) ==
  CASE type = "Create" -> tryParseCreate(line)
    [] type = "Exec" -> tryParseExec(line)
    [] type = "PrintTree" -> tryParsePrintTree(line)
    [] type = "Pass" -> tryParsePass(line, loss)
=============================================================================
