------------------------------ MODULE TypedLine ------------------------------
(***************************************************************************)
(* A typed line on its way: the client parses it, the command goes as text *)
(* from the client (place 0) to the server (1) and down the tree (2 and    *)
(* more), is answered somewhere there, and the answer comes back and is    *)
(* displayed.  Where it is answered and with what is left open: that is    *)
(* what CalcTree is about.  Messages that are no answers to a line cross   *)
(* one connection when the client is at its prompt.                        *)
(***************************************************************************)
EXTENDS Parser

CONSTANTS
  Commands,    \* commands that are typed in their documented form
  OtherLines,  \* what is typed beside them
  Others,      \* messages that are neither a command nor an answer to one
  Pids,        \* of new processes
  Depth,       \* place of the lowest node
  MaxLines     \* bound: lines that are typed

ASSUME TypedLineAssumption ==
  /\ MaxLines \in Nat /\ Depth \in Nat \ {0} /\ Pids \subseteq Nat
  /\ OtherLines \subseteq Seq(LineLexemes)
  /\ \A cmd \in Commands :
        /\ cmd \in ParsedCommands
        /\ cmd.type = "CommandExec" => Len(cmd.k) <= MaxSize
        /\ cmd.type = "CommandPass" => cmd.time \in Nat /\ cmd.time * One < Precision
  /\ \A m \in Others :
        \/ m \in {AuthorizationAccepted, KillSignal}
        \/ m \in [type : {"AuthorizationWithName"},
                  endpoint : STRING, name : STRING]
        \/ m \in [type : {"NodeIsDeadResponse"}, id : Nat]
        \/ m \in [type : {"Heartbeat"}, nodeId : Nat, lastHeartbeatTime : Nat]

VARIABLES
  line,            \* the line typed last
  toTry,           \* the types that parse has still to try
  res,             \* ClientParser::res
  parse_happened,  \* ClientParser::parse_happened
  handled,         \* observer: what the parser made of the line
  stage,           \* "prompt", "parsing", then of the message: in a PushQueue,
                   \* "sent", in a PullQueue, or lost in between
  way,             \* "down", "up", or "once" for one of the Others
  place,           \* the process that has the message
  msg, text,       \* the message, or its text
  pushed,          \* observer: the message as it was pushed first
  shown,           \* the answer displayed last
  lines            \* how many lines were typed

parser == <<toTry, res, parse_happened>>
vars == <<line, parser, handled, stage, way, place, msg, text, pushed, shown, lines>>

(***************************************************************************)
(* The documented form of a command: requirements.md 2 and 3 and           *)
(* commands_list.md.                                                       *)
(***************************************************************************)
Real(x) == LET size == IF x < 0 THEN -x ELSE x
           IN  Number(x < 0, size \div One, size % One)

Written(cmd) ==
  CASE cmd.type = "CommandCreate" ->
         <<Word("create"), Numeral(cmd.newNodeId), Numeral(cmd.parentId)>>
    [] cmd.type = "CommandExec" ->
         <<Word("exec"), Numeral(cmd.nodeId), Numeral(Len(cmd.k))>>
           \o [i \in DOMAIN cmd.k |-> Real(cmd.k[i])]
    [] cmd.type = "CommandPrintTree" -> <<Word("print"), Word("tree")>>
    [] cmd.type = "CommandPass" -> <<Word("pass"), Numeral(cmd.time)>>

\* A line is the documented form of a command if it is written like it, but for
\* the notation of the numbers that are added up: those are the nearest doubles.
IsFormOf(l, cmd) ==
  LET form == Written(cmd)
  IN  /\ Len(l) = Len(form)
      /\ \A i \in DOMAIN l : IF i > 3 THEN IsNumber(l[i]) /\ ReadAs(l[i]) = cmd.k[i - 3]
                            ELSE l[i] = form[i]

\* A sign or a fraction where the form has a plain number, or a time that is more
\* than a double counts.
Sloppy(l) ==
  \E i \in {2, 3} \cap DOMAIN l :
    /\ IsNumber(l[i])
    /\ \/ l[i].negative \/ l[i].fraction # Missing
       \/ Head(l) = Word("pass") /\ ValueOf(l[i]) >= Precision

-----------------------------------------------------------------------------
NoMessage == [type |-> "none"]

Init ==
  /\ line = <<>> /\ toTry = <<>> /\ res = NoMessage /\ parse_happened = FALSE
  /\ handled = Refused /\ stage = "prompt" /\ way = "once" /\ place = 0
  /\ msg = NoMessage /\ text = <<>> /\ pushed = NoMessage /\ shown = <<>>
  /\ lines = 0

-----------------------------------------------------------------------------
(***************************************************************************)
(* The client's main thread.                                               *)
(***************************************************************************)
readCommandFromUser ==
  /\ stage = "prompt" /\ lines < MaxLines
  /\ line' \in {Written(cmd) : cmd \in Commands} \cup OtherLines
  /\ toTry' = commandTypeList
  /\ stage' = "parsing"
  /\ lines' = lines + 1
  /\ shown' = <<>>
  /\ UNCHANGED <<res, parse_happened, handled, way, place, msg, text, pushed>>

\* parse tries the types in turn, and stops trying when one fits.
TryNext ==
  /\ stage = "parsing" /\ ~parse_happened /\ toTry # <<>>
  /\ toTry' = Tail(toTry)
  /\ \E loss \in {0, 1} :
       LET cmd == tryParse(Head(toTry), line, loss)
       IN  IF cmd = Refused THEN UNCHANGED <<res, parse_happened>>
           ELSE res' = cmd /\ parse_happened' = TRUE
  /\ UNCHANGED <<line, handled, stage, way, place, msg, text, pushed, shown, lines>>

\* No type fits: printInvalidInputError.
InvalidInput ==
  /\ stage = "parsing" /\ ~parse_happened /\ toTry = <<>>
  /\ handled' = Refused
  /\ stage' = "prompt"
  /\ UNCHANGED <<line, parser, way, place, msg, text, pushed, shown, lines>>

\* A mutant of giveResultAndReset: parse_happened stays.
giveResult ==
  /\ res' = NoMessage
  /\ UNCHANGED parse_happened

giveResultAndReset ==
  /\ res' = NoMessage
  /\ parse_happened' = FALSE

\* handle: a pass is for the client, anything else is pushed.
Handle ==
  /\ stage = "parsing" /\ parse_happened
  /\ giveResultAndReset
  /\ handled' = res
  /\ IF res.type = "CommandPass"
     THEN stage' = "prompt" /\ UNCHANGED <<way, place, msg, pushed>>
     ELSE /\ stage' = "pushed" /\ way' = "down" /\ place' = 0
          /\ msg' = res /\ pushed' = res
  /\ UNCHANGED <<line, toTry, text, shown, lines>>

\* formAnswerToUser, with the number it prints.
formAnswerToUser(resp) ==
  CASE resp.type = "GoodExecResp" ->
         <<Word("Ok"), Unsigned(resp.id), Double(resp.sum)>>
    [] resp.type = "BadExecResp" -> <<Word("Error"), Unsigned(resp.id)>>
    [] resp.type = "GoodCreateResp" -> <<Word("Ok"), Unsigned(resp.pid)>>
    [] resp.type = "BadCreateResp" -> <<Word("Error"), Unsigned(resp.newNodeId)>>
    [] resp.type = "NodeExistResponse" -> <<Word("Error"), Unsigned(resp.id)>>

Display ==
  /\ stage = "received" /\ way = "up" /\ place = 0
  /\ shown' = formAnswerToUser(msg)
  /\ stage' = "prompt"
  /\ UNCHANGED <<line, parser, handled, way, place, msg, text, pushed, lines>>

-----------------------------------------------------------------------------
(***************************************************************************)
(* Every connection: a dispatch thread and a receive thread.               *)
(***************************************************************************)
Dispatch ==
  /\ stage = "pushed"
  /\ text' = Serialize(msg)
  /\ stage' = "sent"
  /\ UNCHANGED <<line, parser, handled, way, place, msg, pushed, shown, lines>>

\* convertZMQMsgToMsgOrPass: a text that does not parse is dropped.
Receive ==
  /\ stage = "sent"
  /\ msg' = Deserialize(text)
  /\ stage' = IF msg' = Invalid THEN "lost" ELSE "received"
  /\ place' = CASE way = "down" -> place + 1
                [] way = "up" -> place - 1
                [] OTHER -> place
  /\ text' = <<>>
  /\ UNCHANGED <<line, parser, handled, way, pushed, shown, lines>>

\* What the process that has the message does with one that is not for it.
PassOn ==
  /\ stage = "received"
  /\ \/ way = "down" /\ place < Depth /\ msg.type # "CommandPrintTree"
     \/ way = "up" /\ place > 0
  /\ stage' = "pushed"
  /\ UNCHANGED <<line, parser, handled, way, place, msg, text, pushed, shown, lines>>

-----------------------------------------------------------------------------
\* A mutant of executeHere: the sum starts with the first number, twice.
executeHereTwice(cmd) ==
  GoodExecResp(cmd.nodeId,
               IF cmd.k = <<>> THEN 0
               ELSE Plus(cmd.k[1], Sums(Plus, cmd.k)[Len(cmd.k)]))

executeHere(cmd) == GoodExecResp(cmd.nodeId, Sums(Plus, cmd.k)[Len(cmd.k)])

\* The responses to a command; only a node adds up.
Answers(cmd) ==
  CASE cmd.type = "CommandExec" ->
         {BadExecResp(cmd.nodeId)}
           \cup (IF place >= 2 THEN {executeHere(cmd)} ELSE {})
    [] cmd.type = "CommandCreate" ->
         {GoodCreateResp(cmd.newNodeId, pid) : pid \in Pids}
           \cup {BadCreateResp(cmd.parentId, cmd.newNodeId),
                 NodeExistResponse(cmd.newNodeId)}
    [] OTHER -> {}

Answer ==
  /\ stage = "received" /\ way = "down"
  /\ msg' \in Answers(msg)
  /\ pushed' = msg'
  /\ way' = "up"
  /\ stage' = "pushed"
  /\ UNCHANGED <<line, parser, handled, place, text, shown, lines>>

\* One of the Others is pushed, and is done with when it was received.
PushOther ==
  /\ stage = "prompt"
  /\ msg' \in Others
  /\ pushed' = msg'
  /\ way' = "once"
  /\ stage' = "pushed"
  /\ UNCHANGED <<line, parser, handled, place, text, shown, lines>>

OtherIsTaken ==
  /\ stage = "received" /\ way = "once"
  /\ stage' = "prompt"
  /\ UNCHANGED <<line, parser, handled, way, place, msg, text, pushed, shown, lines>>

Next ==
  \/ readCommandFromUser \/ TryNext \/ InvalidInput \/ Handle \/ Display
  \/ Dispatch \/ Receive \/ PassOn \/ Answer \/ PushOther \/ OtherIsTaken

Spec == Init /\ [][Next]_vars

-----------------------------------------------------------------------------
\* What a double, and a message, is after its first connection.
Sent(x) == IF x \in {Infinity, -Infinity} THEN 0 ELSE Rounded(x)

Settled(m) ==
  CASE m.type = "CommandExec" -> [m EXCEPT !.k = [i \in DOMAIN @ |-> Sent(@[i])]]
    [] m.type = "GoodExecResp" -> [m EXCEPT !.sum = Sent(@)]
    [] OTHER -> m

-----------------------------------------------------------------------------
\* The distance of the doubles of that size, where grains do not tell them apart.
Lost(x) == IF Spacing(x) = 1 THEN 0 ELSE Spacing(x)

\* A double that a message carries is finite or infinite, an id has 16 bits,
\* and the parser is empty when it is not at work.
TypeOK ==
  /\ stage \in {"prompt", "parsing", "pushed", "sent", "received", "lost"}
  /\ way \in {"down", "up", "once"} /\ place \in 0..Depth
  /\ parse_happened => stage = "parsing" /\ res # NoMessage
  /\ lines \in 0..MaxLines
  /\ msg.type = "CommandExec" =>
       /\ msg.nodeId \in 0..Max16
       /\ \A i \in DOMAIN msg.k : msg.k[i] \in -MaxDouble..MaxDouble
  /\ msg.type = "CommandCreate" => {msg.newNodeId, msg.parentId} \subseteq 0..Max16

\* A line is handled as the command that it is the documented form of, whatever
\* was typed before it, and no other line is taken for a command.  It is not so,
\* and the parser can do no more, for these: the tree is printed at "print", not
\* at the documented line; a pass may be a millisecond short; signs and fractions
\* of plain numbers, and times beyond all measure, are let through
\* (ClientParser::parse).
LineIsUnderstood ==
  stage # "parsing" =>
    IF handled = Refused
    THEN \A cmd \in Commands \ {CommandPrintTree} : ~IsFormOf(line, cmd)
    ELSE \/ IsFormOf(line, handled) \/ Sloppy(line)
         \/ line = <<Word("print")>> /\ handled = CommandPrintTree
         \/ handled.type = "CommandPass" /\ line = Written(CommandPass(handled.time + 1))

\* A message arrives as what was pushed, over any number of connections, but for
\* what six decimals cannot say, and none is dropped for its text
\* (serialize, Message::deserialize, convertZMQMsgToMsgOrPass).
MessagesSurvive ==
  /\ stage # "lost"
  /\ stage = "received" => msg = Settled(pushed)

\* The sum displayed is the one of the numbers that were read, up to half of the
\* last decimal for each of them, and where the doubles are further apart than
\* that, up to half of that distance for each addition; a sum that is too large
\* for a double is displayed as 0
\* (CalcTreeNode::executeHere, Client::formAnswerToUserForGoodExecResp).
SumIsShown ==
  stage = "prompt" /\ handled.type = "CommandExec" /\ Len(shown) = 3 =>
    LET n     == Len(handled.k)
        typed == Sums(LAMBDA x, y : x + y, handled.k)
        sent  == Settled(handled).k
        sums  == Sums(Plus, sent)
        error == ToDouble(shown[3]) - typed[n]
    IN  IF sums[n] \in {Infinity, -Infinity} THEN shown[3] = Double(0)
        ELSE \A unit \in {0} \cup Spacings :
               (\A i \in 1..n : Lost(sums[i - 1] + sent[i]) <= unit) =>
                 -(n * (Decimal + unit)) <= 2 * error /\ 2 * error <= n * (Decimal + unit)
=============================================================================
