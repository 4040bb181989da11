---------------------------- MODULE Serialization ----------------------------
(***************************************************************************)
(* How a message becomes text and how text becomes a message again         *)
(* (lib/infrastructure/message): what the dispatch thread of a PushQueue   *)
(* sends and the receive thread of a PullQueue makes of it.  A text is a   *)
(* sequence of lexemes: names, braces, commas and numbers.  No name or     *)
(* endpoint that the program sends has a brace or a comma in it.           *)
(*                                                                         *)
(* A double is counted in grains, One of which make a unit; Decimal grains *)
(* are the last decimal that std::to_string writes.  Below Precision the   *)
(* grains stand for all that a double can tell apart; above it, doubles    *)
(* lie further and further apart.  The band in which they are a few grains *)
(* apart, but no more than a decimal, is left out.  Classes that nothing   *)
(* constructs or sends (AuthorizationDenied, InvalidRequest) are left out. *)
(***************************************************************************)
EXTENDS Messages, Integers, Sequences, SequencesExt

CONSTANTS
  One,       \* grains in a unit
  Decimal,   \* grains in the last decimal written
  Precision, \* how many doubles in a row, from 0 on, are one spacing apart
  Spacings,  \* the distances between neighbouring doubles, in grains
  MaxDouble  \* the largest finite double, in grains

ASSUME NumbersAssumption ==
  /\ {One, Decimal, Precision, MaxDouble} \subseteq Nat \ {0}
  /\ One % Decimal = 0 /\ MaxDouble % Decimal = 0 /\ Precision <= MaxDouble
  /\ 1 \in Spacings /\ Spacings \subseteq Nat \ {0}
  /\ \A s \in Spacings \ {1} : s % Decimal = 0
  /\ \E s \in Spacings : /\ \A t \in Spacings : s >= t
                          /\ MaxDouble = (Precision - 1) * s

\* The messages that Messages does not have.
CommandPass(time) == [type |-> "CommandPass", time |-> time]
AuthorizationWithName(endpoint, name) ==
  [type |-> "AuthorizationWithName", endpoint |-> endpoint, name |-> name]
AuthorizationAccepted == [type |-> "AuthorizationAccepted"]
Heartbeat(nodeId, time) ==
  [type |-> "Heartbeat", nodeId |-> nodeId, lastHeartbeatTime |-> time]

-----------------------------------------------------------------------------
(***************************************************************************)
(* Doubles, and the lexemes they and the other variables are written as.   *)
(***************************************************************************)
Infinity == MaxDouble + 1

\* To the nearest multiple, of two to the even one.
RoundedTo(x, unit) ==
  LET even == (x \div unit) % 2 = 0
      down == 2 * (x % unit) < unit \/ (2 * (x % unit) = unit /\ even)
  IN  (x \div unit + (IF down THEN 0 ELSE 1)) * unit

\* How far apart the doubles of the size of x are.
Spacing(x) ==
  Min({s \in Spacings : \/ x \in 1 - Precision * s..Precision * s - 1
                        \/ s = Max(Spacings)})

\* The double for a number.
Nearest(x) ==
  LET d == RoundedTo(x, Spacing(x))
  IN  CASE d > MaxDouble -> Infinity
        [] d < -MaxDouble -> -Infinity
        [] OTHER -> d

\* One addition; both infinities stay what they are.
Plus(x, y) == IF x \in {Infinity, -Infinity} THEN x ELSE Nearest(x + y)

\* The running sums of numbers, from 0 on, under some addition.
Sums(Add(_, _), k) ==
  LET sum[i \in 0..Len(k)] == IF i = 0 THEN 0 ELSE Add(sum[i - 1], k[i])
  IN  sum

\* What std::to_string writes of a double; that is a double again.
Rounded(x) == RoundedTo(x, Decimal)

Word(w) == [word |-> w]
Open == [mark |-> "opening brace"]
Close == [mark |-> "closing brace"]
Comma == [mark |-> "comma"]
Unsigned(n) == [int |-> n]
Double(x) == IF x \in {Infinity, -Infinity} THEN Word("inf") ELSE [real |-> Rounded(x)]

\* convert_string: an unsigned is read up to the point, what is no number is 0.
ToUnsigned(lexeme) ==
  CASE "int" \in DOMAIN lexeme -> lexeme.int
    [] "real" \in DOMAIN lexeme -> lexeme.real \div One
    [] OTHER -> 0
ToDouble(lexeme) ==
  CASE "real" \in DOMAIN lexeme -> lexeme.real
    [] "int" \in DOMAIN lexeme -> lexeme.int * One
    [] OTHER -> 0
ToWord(lexeme) == lexeme.word

-----------------------------------------------------------------------------
(***************************************************************************)
(* aux_ser_funcs.hpp: variables, headers, and taking both apart.           *)
(***************************************************************************)
\* add_first_class_variable and add_next_class_variable: commas in between.
ClassVariables(vars) ==
  [i \in 1..(2 * Len(vars) - 1) |->
     IF i % 2 = 1 THEN vars[(i + 1) \div 2] ELSE Comma]

\* A header, the inner text, complete_serialization.
In(header, text) == <<Word(header), Open>> \o text \o <<Close>>

\* The type before the first brace, and what the braces hold: all of the rest
\* but its last lexeme, whatever that is.
extractType(text) ==
  LET pos == SelectInSeq(text, LAMBDA lexeme : lexeme = Open)
  IN  IF pos = 0 THEN [type |-> "", rest |-> text]
      ELSE [type |-> IF pos = 2 THEN text[1].word ELSE "",
            rest |-> SubSeq(text, pos + 1, Len(text) - 1)]

\* findRightEdgeOfNextVar: the comma after the cursor, or the end of the text.
RightEdge(text, l) ==
  LET commas == {r \in l..Len(text) : text[r] = Comma}
  IN  IF commas = {} THEN Len(text) + 1 ELSE Min(commas)

\* Where the cursor is before each call of getNextVar.
Cursors(text) ==
  LET l[n \in DOMAIN text] ==
        IF n = 1 THEN 1 ELSE RightEdge(text, l[n - 1]) + 1
  IN  l

\* What getNextVar finds, called until the text is used up.
getNextVars(text) ==
  [n \in {m \in DOMAIN text : Cursors(text)[m] <= Len(text)} |->
     text[Cursors(text)[n]]]

-----------------------------------------------------------------------------
(***************************************************************************)
(* The headers that the abstract classes add, from the inside out.         *)
(***************************************************************************)
InMessage(text) == In("Message", text)
InRequest(text) == InMessage(In("Request", text))
InCommand(text) == InRequest(In("Command", text))
InAuthorization(text) == InRequest(In("Authorization", text))
InResponse(text) == InMessage(In("Response", text))
InAuthorizationResponse(text) == InResponse(In("AuthorizationResponse", text))

-----------------------------------------------------------------------------
(***************************************************************************)
(* Each class: its text, and the message made of its variables, in the     *)
(* order in which deserializeUnpacked reads them.                          *)
(***************************************************************************)
CommandCreateText(m) ==
  InCommand(In("Create",
    ClassVariables(<<Unsigned(m.newNodeId), Unsigned(m.parentId)>>)))
CommandCreateOf(v) == CommandCreate(ToUnsigned(v[1]), ToUnsigned(v[2]))

CommandExecText(m) ==
  InCommand(In("Exec",
    ClassVariables(<<Unsigned(m.nodeId), Unsigned(Len(m.k))>>
                     \o [i \in DOMAIN m.k |-> Double(m.k[i])])))
CommandExecOf(v) ==
  CommandExec(ToUnsigned(v[1]),
              [i \in 1..ToUnsigned(v[2]) |-> ToDouble(v[i + 2])])

CommandPrintTreeText(m) == InCommand(In("PrintTree", <<>>))

AuthorizationWithNameText(m) ==
  InAuthorization(In("AuthorizationWithName",
    ClassVariables(<<Word(m.endpoint), Word(m.name)>>)))
AuthorizationWithNameOf(v) == AuthorizationWithName(ToWord(v[1]), ToWord(v[2]))

AuthorizationAcceptedText(m) ==
  InAuthorizationResponse(In("AuthorizationAccepted", <<>>))

GoodExecRespText(m) ==
  InResponse(In("GoodExecResp",
    ClassVariables(<<Unsigned(m.id), Double(m.sum)>>)))
GoodExecRespOf(v) == GoodExecResp(ToUnsigned(v[1]), ToDouble(v[2]))

BadExecRespText(m) == InResponse(In("BadExecResp", <<Unsigned(m.id)>>))
BadExecRespOf(v) == BadExecResp(ToUnsigned(v[1]))

GoodCreateRespText(m) ==
  InResponse(In("GoodCreateResp",
    ClassVariables(<<Unsigned(m.id), Unsigned(m.pid)>>)))
GoodCreateRespOf(v) == GoodCreateResp(ToUnsigned(v[1]), ToUnsigned(v[2]))

BadCreateRespText(m) ==
  InResponse(In("BadCreateResp",
    ClassVariables(<<Unsigned(m.newNodeId), Unsigned(m.parentId)>>)))
\* A mutant of BadCreateRespOf: the arguments are evaluated from right to left.
BadCreateRespSwapped(v) == BadCreateResp(ToUnsigned(v[2]), ToUnsigned(v[1]))
BadCreateRespOf(v) == BadCreateResp(ToUnsigned(v[1]), ToUnsigned(v[2]))

NodeExistResponseText(m) ==
  InResponse(In("NodeExistResponse", <<Unsigned(m.id)>>))
NodeExistResponseOf(v) == NodeExistResponse(ToUnsigned(v[1]))

NodeIsDeadResponseText(m) ==
  InResponse(In("NodeIsDeadResponse", <<Unsigned(m.id)>>))
NodeIsDeadResponseOf(v) == NodeIsDeadResponse(ToUnsigned(v[1]))

HeartbeatText(m) ==
  InResponse(In("Heartbeat",
    ClassVariables(<<Unsigned(m.nodeId), Unsigned(m.lastHeartbeatTime)>>)))
HeartbeatOf(v) == Heartbeat(ToUnsigned(v[1]), ToUnsigned(v[2]))

KillSignalText(m) == InMessage(In("KillSignal", <<>>))

\* Message::serialize, with the virtual functions of the message's class.
Serialize(m) ==
  CASE m.type = "CommandCreate" -> CommandCreateText(m)
    [] m.type = "CommandExec" -> CommandExecText(m)
    [] m.type = "CommandPrintTree" -> CommandPrintTreeText(m)
    [] m.type = "AuthorizationWithName" -> AuthorizationWithNameText(m)
    [] m.type = "AuthorizationAccepted" -> AuthorizationAcceptedText(m)
    [] m.type = "GoodExecResp" -> GoodExecRespText(m)
    [] m.type = "BadExecResp" -> BadExecRespText(m)
    [] m.type = "GoodCreateResp" -> GoodCreateRespText(m)
    [] m.type = "BadCreateResp" -> BadCreateRespText(m)
    [] m.type = "NodeExistResponse" -> NodeExistResponseText(m)
    [] m.type = "NodeIsDeadResponse" -> NodeIsDeadResponseText(m)
    [] m.type = "Heartbeat" -> HeartbeatText(m)
    [] m.type = "KillSignal" -> KillSignalText(m)

-----------------------------------------------------------------------------
(***************************************************************************)
(* The define...Type and deserializeType functions, a level of braces each.*)
(***************************************************************************)
\* What deserialize throws, for which convertZMQMsgToMsgOrPass drops the text.
Invalid == [type |-> "invalid"]

CommandOf(text) ==
  LET t == extractType(text)
      v == getNextVars(t.rest)
  IN  CASE t.type = "Create" -> CommandCreateOf(v)
        [] t.type = "Exec" -> CommandExecOf(v)
        [] t.type = "PrintTree" -> CommandPrintTree
        [] OTHER -> Invalid

AuthorizationOf(text) ==
  LET t == extractType(text)
  IN  IF t.type = "AuthorizationWithName"
      THEN AuthorizationWithNameOf(getNextVars(t.rest)) ELSE Invalid

RequestOf(text) ==
  LET t == extractType(text)
  IN  CASE t.type = "Command" -> CommandOf(t.rest)
        [] t.type = "Authorization" -> AuthorizationOf(t.rest)
        [] OTHER -> Invalid

AuthorizationResponseOf(text) ==
  LET t == extractType(text)
  IN  IF t.type = "AuthorizationAccepted" THEN AuthorizationAccepted ELSE Invalid

ResponseOf(text) ==
  LET t == extractType(text)
      v == getNextVars(t.rest)
  IN  CASE t.type = "AuthorizationResponse" -> AuthorizationResponseOf(t.rest)
        [] t.type = "BadCreateResp" -> BadCreateRespOf(v)
        [] t.type = "GoodCreateResp" -> GoodCreateRespOf(v)
        [] t.type = "BadExecResp" -> BadExecRespOf(v)
        [] t.type = "GoodExecResp" -> GoodExecRespOf(v)
        [] t.type = "NodeExistResponse" -> NodeExistResponseOf(v)
        [] t.type = "NodeIsDeadResponse" -> NodeIsDeadResponseOf(v)
        [] t.type = "Heartbeat" -> HeartbeatOf(v)
        [] OTHER -> Invalid

MessageOf(text) ==
  LET t == extractType(text)
  IN  CASE t.type = "Request" -> RequestOf(t.rest)
        [] t.type = "Response" -> ResponseOf(t.rest)
        [] t.type = "KillSignal" -> KillSignal
        [] OTHER -> Invalid

Deserialize(text) ==
  LET t == extractType(text)
  IN  IF t.type = "Message" THEN MessageOf(t.rest) ELSE Invalid
=============================================================================
