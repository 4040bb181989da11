---------------------------- MODULE SessionProofs ----------------------------
(***************************************************************************)
(* For any clients on any hosts, any number of lines, answers, reports and *)
(* ends of processes: only a restart lets the server meet a response       *)
(* without a pusher; and a client takes the answers to its commands in     *)
(* step with them, as far as its waits were not used up by something else  *)
(* and no command got a second answer.                                     *)
(***************************************************************************)
EXTENDS Session, SequenceLemmas, FiniteSetTheorems, TLAPS

-----------------------------------------------------------------------------
(***************************************************************************)
(* Messages that name only clients of K, and paths that carry only those.  *)
(***************************************************************************)
LinesOf(K) == [type : {"Command", "CommandPrintTree"}, from : K, line : Nat]
RequestsOf(K) == [type : {"AuthorizationWithName"}, from : K] \cup LinesOf(K)
AnswersOf(K) == [type : {"Answer"}, from : K, line : Nat, nth : 1..MaxAnswers]
ResponsesOf(K) == AnswersOf(K) \cup {AuthorizationAccepted, NodeIsDeadResponse}

PathsOf(K) ==
  /\ sent \in [Clients -> Seq(RequestsOf(K))]
  /\ events \in Seq(RequestsOf(K) \cup ResponsesOf(K))
  /\ commands \in Seq(LinesOf(K))
  /\ open \in SUBSET AnswersOf(K)
  /\ down \in [Clients -> Seq(ResponsesOf(K))]

Started == {c \in Clients : pc[c] # "off"}

\* What the clients and the server keep beside the paths.
StateOK ==
  /\ pc \in [Clients ->
       {"off", "connecting", "prompt", "waiting", "passing", "gone"}]
  /\ asked \in [Clients -> Lines]
  /\ \A c \in Clients : asked[c].from = c
  /\ pusher \in Clients \cup {NoClient}
  /\ leaving \in Clients \cup {NoClient}
  /\ server \in {"running", "replacing", "gone"}
  /\ server = "replacing" => pusher # NoClient

\* A first or a last part of a path is one of its type.
LEMMA PartsTyped ==
  ASSUME NEW S, NEW seq \in Seq(S)
  PROVE  Prefixes(seq) \subseteq Seq(S) /\ Suffixes(seq) \subseteq Seq(S)
<1>1. Len(seq) \in Nat /\ \A i \in 1..Len(seq) : seq[i] \in S
  BY LenProperties, ElementOfSeq
<1>2. ASSUME NEW n \in 0..Len(seq)
      PROVE  SubSeq(seq, 1, n) \in Seq(S)
  BY <1>1, SubSeqProperties
<1>3. ASSUME NEW n \in 1..Len(seq)
      PROVE  SubSeq(seq, n, Len(seq)) \in Seq(S)
  BY <1>1, SubSeqProperties
<1>4. <<>> \in Seq(S)
  BY EmptySeq
<1>5. QED
  BY <1>2, <1>3, <1>4 DEF Prefixes, Suffixes

\* Nothing has no parts.
LEMMA PartsOfNothing == Suffixes(<<>>) \subseteq {<<>>}
<1>1. <<>> \in Seq({}) /\ Suffixes(<<>>) \subseteq Seq({})
  BY EmptySeq, PartsTyped
<1>2. ASSUME NEW rest \in Seq({}) PROVE rest = <<>>
  <2>1. Len(rest) \in Nat /\ \A i \in 1..Len(rest) : rest[i] \in {}
    BY LenProperties, ElementOfSeq
  <2>2. Len(rest) = 0
    <3>1. Len(rest) >= 1 => 1 \in 1..Len(rest)
      BY <2>1
    <3>2. QED
      BY <2>1, <3>1
  <2>3. QED
    BY <2>2, EmptySeq
<1>3. QED
  BY <1>1, <1>2

\* Paths may also be taken for paths of more clients.
LEMMA PathsGrow ==
  ASSUME NEW K, NEW L, K \subseteq L, PathsOf(K)
  PROVE  PathsOf(L)
<1>1. /\ RequestsOf(K) \subseteq RequestsOf(L)
      /\ ResponsesOf(K) \subseteq ResponsesOf(L)
      /\ LinesOf(K) \subseteq LinesOf(L)
      /\ AnswersOf(K) \subseteq AnswersOf(L)
  BY DEF RequestsOf, ResponsesOf, LinesOf, AnswersOf
<1>2. \A c \in Clients : sent[c] \in Seq(RequestsOf(L))
  BY <1>1, SeqMonotonic DEF PathsOf
<1>3. \A c \in Clients : down[c] \in Seq(ResponsesOf(L))
  BY <1>1, SeqMonotonic DEF PathsOf
<1>4. events \in Seq(RequestsOf(L) \cup ResponsesOf(L))
  <2>1. RequestsOf(K) \cup ResponsesOf(K) \subseteq RequestsOf(L) \cup ResponsesOf(L)
    BY <1>1
  <2>2. QED
    BY <2>1, SeqMonotonic DEF PathsOf
<1>5. commands \in Seq(LinesOf(L))
  BY <1>1, SeqMonotonic DEF PathsOf
<1>6. QED
  BY <1>1, <1>2, <1>3, <1>4, <1>5 DEF PathsOf

\* A client that pulls gets a response of its paths.
LEMMA PullTyped ==
  ASSUME NEW K, PathsOf(K), NEW c \in Clients, NEW d \in Clients, Pulls(c, d)
  PROVE  Head(down[d]) \in ResponsesOf(K) /\ PathsOf(K)'
<1>1. /\ Head(down[d]) \in ResponsesOf(K)
      /\ Tail(down[d]) \in Seq(ResponsesOf(K))
  BY HeadTailProperties DEF Pulls, PathsOf
<1>2. QED
  BY <1>1 DEF Pulls, PathsOf, treeVars

\* A first event that the server takes.
LEMMA EventTyped ==
  ASSUME NEW K, PathsOf(K), NEW types, NextEvent(types)
  PROVE  /\ Head(events) \in RequestsOf(K) \cup ResponsesOf(K)
         /\ events' \in Seq(RequestsOf(K) \cup ResponsesOf(K))
         /\ Head(events).type \in types
BY HeadTailProperties DEF NextEvent, PathsOf

\* The type tells a line from the other events, and a response.
LEMMA TypesTellApart ==
  ASSUME NEW K, NEW m \in RequestsOf(K) \cup ResponsesOf(K)
  PROVE  /\ m.type \in {"Command", "CommandPrintTree"} => m \in LinesOf(K)
         /\ m.type \in {"Answer", "NodeIsDeadResponse"} => m \in ResponsesOf(K)
<1>1. CASE m \in [type : {"AuthorizationWithName"}, from : K]
  BY <1>1
<1>2. CASE m \in LinesOf(K)
  BY <1>2 DEF LinesOf
<1>3. CASE m \in AnswersOf(K)
  BY <1>3 DEF ResponsesOf, AnswersOf
<1>4. CASE m \in {AuthorizationAccepted, NodeIsDeadResponse}
  BY <1>4 DEF ResponsesOf, AuthorizationAccepted, NodeIsDeadResponse
<1>5. QED
  BY <1>1, <1>2, <1>3, <1>4 DEF RequestsOf, ResponsesOf

\* No step puts a message on a path that names a client not started.
LEMMA PathsStep ==
  ASSUME StateOK, NEW K \in SUBSET Clients, PathsOf(K), Next, Started' \subseteq K
  PROVE  PathsOf(K)'
<1> USE DEF PathsOf
<1>1. ASSUME NEW c \in Clients, Start(c) PROVE PathsOf(K)'
  <2>1. c \in K
    BY <1>1 DEF Start, StateOK, Started
  <2>2. AuthorizationWithName(c) \in RequestsOf(K)
    BY <2>1 DEF AuthorizationWithName, RequestsOf
  <2>3. Append(sent[c], AuthorizationWithName(c)) \in Seq(RequestsOf(K))
    BY <2>2, AppendProperties
  <2>4. QED
    BY <1>1, <2>3 DEF Start, treeVars
<1>2. ASSUME NEW c \in Clients, StartFails(c) \/ Pass(c) \/ PassEnds(c)
      PROVE  PathsOf(K)'
  BY <1>2 DEF StartFails, Pass, PassEnds, treeVars
<1>3. ASSUME NEW c \in Clients, TypeLine(c) PROVE PathsOf(K)'
  <2>1. c \in K /\ asked[c].line \in Nat
    BY <1>3 DEF TypeLine, StateOK, Started, Lines
  <2>2. ASSUME NEW kind \in {"Command", "CommandPrintTree"}
        PROVE  Append(sent[c], Line(kind, c, asked[c].line + 1))
                 \in Seq(RequestsOf(K))
    <3>1. Line(kind, c, asked[c].line + 1) \in RequestsOf(K)
      BY <2>1 DEF Line, RequestsOf, LinesOf
    <3>2. QED
      BY <3>1, AppendProperties
  <2>3. QED
    BY <1>3, <2>2 DEF TypeLine, treeVars
<1>4. ASSUME NEW c \in Clients, NEW d \in Clients, Pulls(c, d)
      PROVE  PathsOf(K)'
  BY <1>4, PullTyped
<1>5. ASSUME NEW c \in Clients, End(c) PROVE PathsOf(K)'
  <2>1. PICK rest \in Prefixes(sent[c]) : sent' = [sent EXCEPT ![c] = rest]
    BY <1>5 DEF End
  <2>2. rest \in Seq(RequestsOf(K))
    BY <2>1, PartsTyped
  <2>3. \A d \in Clients : down'[d] \in Seq(ResponsesOf(K))
    <3>1. PICK left \in [{d \in {pusher, leaving} \ {NoClient} :
                            EndpointOf[d] = EndpointOf[c]}
                          -> UNION {Suffixes(down[d]) : d \in Clients}] :
            /\ \A d \in DOMAIN left : left[d] \in Suffixes(down[d])
            /\ down' = [d \in Clients |->
                          IF EndpointOf[d] # EndpointOf[c] THEN down[d]
                          ELSE IF d \in DOMAIN left THEN left[d] ELSE <<>>]
      BY <1>5 DEF End
    <3>2. \A d \in Clients : /\ Suffixes(down[d]) \subseteq Seq(ResponsesOf(K))
                             /\ <<>> \in Seq(ResponsesOf(K))
      BY PartsTyped, EmptySeq
    <3>3. QED
      BY <3>1, <3>2
  <2>4. down' = [d \in Clients |-> down'[d]]
    BY <1>5 DEF End
  <2>5. QED
    BY <1>5, <2>1, <2>2, <2>3, <2>4 DEF End, treeVars
<1>6. ASSUME NEW c \in Clients, Forward(c) PROVE PathsOf(K)'
  <2>1. /\ Head(sent[c]) \in RequestsOf(K) \cup ResponsesOf(K)
        /\ Tail(sent[c]) \in Seq(RequestsOf(K))
    BY <1>6, HeadTailProperties DEF Forward
  <2>2. Append(events, Head(sent[c])) \in Seq(RequestsOf(K) \cup ResponsesOf(K))
    BY <2>1, AppendProperties
  <2>3. QED
    BY <1>6, <2>1, <2>2 DEF Forward, treeVars
<1>7. CASE AuthorizeByRequest
  <2>1. events' \in Seq(RequestsOf(K) \cup ResponsesOf(K))
    BY <1>7, EventTyped DEF AuthorizeByRequest
  <2>2. down' \in [Clients -> Seq(ResponsesOf(K))]
    <3>1. CASE pusher = NoClient
      BY <1>7, <3>1 DEF AuthorizeByRequest
    <3>2. CASE pusher # NoClient
      <4>1. Prefixes(down[pusher]) \subseteq Seq(ResponsesOf(K))
        BY <3>2, PartsTyped DEF StateOK
      <4>2. QED
        BY <1>7, <3>2, <4>1 DEF AuthorizeByRequest
    <3>3. QED
      BY <3>1, <3>2
  <2>3. QED
    BY <1>7, <2>1, <2>2 DEF AuthorizeByRequest, treeVars
<1>8. CASE AcceptAuthorization
  <2>1. pusher \in Clients
    BY <1>8 DEF AcceptAuthorization, StateOK
  <2>2. AuthorizationAccepted \in ResponsesOf(K)
    BY DEF ResponsesOf
  <2>3. Append(down[pusher], AuthorizationAccepted) \in Seq(ResponsesOf(K))
    BY <2>1, <2>2, AppendProperties
  <2>4. QED
    BY <1>8, <2>3 DEF AcceptAuthorization, treeVars
<1>9. CASE RedirectToCalcTree
  <2>1. /\ Head(events) \in LinesOf(K)
        /\ events' \in Seq(RequestsOf(K) \cup ResponsesOf(K))
    <3>1. NextEvent({"Command", "CommandPrintTree"})
      BY <1>9 DEF RedirectToCalcTree
    <3>2. QED
      BY <3>1, EventTyped, TypesTellApart
  <2>2. Append(commands, Head(events)) \in Seq(LinesOf(K))
    BY <2>1, AppendProperties
  <2>3. QED
    BY <1>9, <2>1, <2>2 DEF RedirectToCalcTree
<1>10. CASE HandleResponse
  <2>1. /\ Head(events) \in ResponsesOf(K)
        /\ events' \in Seq(RequestsOf(K) \cup ResponsesOf(K))
    <3>1. NextEvent({"Answer", "NodeIsDeadResponse"})
      BY <1>10 DEF HandleResponse
    <3>2. QED
      BY <3>1, EventTyped, TypesTellApart
  <2>2. down' \in [Clients -> Seq(ResponsesOf(K))]
    <3>1. pusher # NoClient =>
            /\ pusher \in Clients
            /\ Append(down[pusher], Head(events)) \in Seq(ResponsesOf(K))
      BY <2>1, AppendProperties DEF StateOK
    <3>2. QED
      BY <1>10, <3>1 DEF HandleResponse, RedirectToClient
  <2>3. QED
    BY <1>10, <2>1, <2>2 DEF HandleResponse, treeVars
<1>11. CASE Restart
  <2>1. sent' \in [Clients -> Seq(RequestsOf(K))]
    <3>1. PICK rest \in [Clients -> UNION {Suffixes(sent[c]) : c \in Clients}] :
            (\A c \in Clients : rest[c] \in Suffixes(sent[c])) /\ sent' = rest
      BY <1>11 DEF Restart
    <3>2. \A c \in Clients : Suffixes(sent[c]) \subseteq Seq(RequestsOf(K))
      BY PartsTyped
    <3>3. QED
      BY <3>1, <3>2
  <2>2. down' \in [Clients -> Seq(ResponsesOf(K))]
    <3>1. PICK rest \in [Clients -> UNION {Prefixes(down[c]) : c \in Clients}] :
            (\A c \in Clients : rest[c] \in KeptOf(c)) /\ down' = rest
      BY <1>11 DEF Restart
    <3>2. \A c \in Clients : /\ Prefixes(down[c]) \subseteq Seq(ResponsesOf(K))
                             /\ <<>> \in Seq(ResponsesOf(K))
      BY PartsTyped, EmptySeq
    <3>3. \A c \in Clients : KeptOf(c) \subseteq Seq(ResponsesOf(K))
      BY <3>2 DEF KeptOf
    <3>4. QED
      BY <3>1, <3>3
  <2>3. <<>> \in Seq(RequestsOf(K) \cup ResponsesOf(K)) /\ <<>> \in Seq(LinesOf(K))
    BY EmptySeq
  <2>4. QED
    BY <1>11, <2>1, <2>2, <2>3 DEF Restart
<1>12. CASE TreeHandles
  <2>1. Head(commands) \in LinesOf(K) /\ Tail(commands) \in Seq(LinesOf(K))
    BY <1>12, HeadTailProperties DEF TreeHandles
  <2>2. ASSUME NEW n \in 0..MaxAnswers
        PROVE  {Answer(Head(commands), i) : i \in 1..n} \subseteq AnswersOf(K)
    <3>1. PICK cmd \in LinesOf(K) : cmd = Head(commands)
      BY <2>1
    <3>2. \A i \in 1..n : i \in 1..MaxAnswers
      BY SessionAssumption
    <3>3. \A i \in 1..MaxAnswers : Answer(cmd, i) \in AnswersOf(K)
      BY <3>1 DEF LinesOf, AnswersOf, Answer
    <3>4. QED
      BY <3>1, <3>2, <3>3, Zenon
  <2>3. open' \in SUBSET AnswersOf(K)
    BY <1>12, <2>2 DEF TreeHandles
  <2>4. QED
    BY <1>12, <2>1, <2>3 DEF TreeHandles
<1>13. CASE TreeAnswers
  <2>1. PICK answer \in open :
          events' = Append(events, answer) /\ open' = open \ {answer}
    BY <1>13 DEF TreeAnswers
  <2>2. answer \in RequestsOf(K) \cup ResponsesOf(K)
    BY <2>1 DEF ResponsesOf
  <2>3. events' \in Seq(RequestsOf(K) \cup ResponsesOf(K))
    BY <2>1, <2>2, AppendProperties
  <2>4. QED
    BY <1>13, <2>1, <2>3 DEF TreeAnswers
<1>14. CASE TreeReports
  <2>1. NodeIsDeadResponse \in RequestsOf(K) \cup ResponsesOf(K)
    BY DEF ResponsesOf
  <2>2. Append(events, NodeIsDeadResponse)
          \in Seq(RequestsOf(K) \cup ResponsesOf(K))
    BY <2>1, AppendProperties
  <2>3. QED
    BY <1>14, <2>2 DEF TreeReports
<1>15. QED
  BY <1>1, <1>2, <1>3, <1>4, <1>5, <1>6, <1>7, <1>8, <1>9, <1>10, <1>11, <1>12,
     <1>13, <1>14
     DEF Next, User, Server, WaitTillAuthAccepted, TakeAnswer, TakeInPass, Take

-----------------------------------------------------------------------------
(***************************************************************************)
(* The state beside the paths, and with it the types.                      *)
(***************************************************************************)
LEMMA StateStep ==
  ASSUME StateOK, [Next]_vars, PathsOf(Clients)
  PROVE  StateOK'
<1> USE DEF StateOK
<1>1. ASSUME NEW c \in Clients, Start(c) \/ StartFails(c) PROVE StateOK'
  BY <1>1 DEF Start, StartFails, serverVars
<1>2. ASSUME NEW c \in Clients, Pass(c) \/ PassEnds(c) \/ End(c) PROVE StateOK'
  BY <1>2 DEF Pass, PassEnds, End, serverVars
<1>3. ASSUME NEW c \in Clients, TypeLine(c) PROVE StateOK'
  <2>1. PICK kind \in {"Command", "CommandPrintTree"} :
          asked' = [asked EXCEPT ![c] = Line(kind, c, asked[c].line + 1)]
    BY <1>3 DEF TypeLine
  <2>2. /\ Line(kind, c, asked[c].line + 1) \in Lines
        /\ Line(kind, c, asked[c].line + 1).from = c
    BY <2>1 DEF Line, Lines
  <2>3. QED
    BY <1>3, <2>1, <2>2 DEF TypeLine, serverVars
<1>4. ASSUME NEW c \in Clients, WaitTillAuthAccepted(c) PROVE StateOK'
  BY <1>4 DEF WaitTillAuthAccepted, Pulls, serverVars
<1>5. ASSUME NEW c \in Clients, TakeAnswer(c) \/ TakeInPass(c) PROVE StateOK'
  BY <1>5 DEF TakeAnswer, TakeInPass, Take, Pulls, serverVars
<1>6. ASSUME NEW c \in Clients, Forward(c) PROVE StateOK'
  BY <1>6 DEF Forward, clientVars, serverVars
<1>7. CASE AuthorizeByRequest
  <2>1. NextEvent({"AuthorizationWithName"})
    BY <1>7 DEF AuthorizeByRequest
  <2>2. Head(events).from \in Clients
    <3>1. Head(events) \in RequestsOf(Clients) \cup ResponsesOf(Clients)
      BY <2>1, EventTyped
    <3>2. Head(events).type = "AuthorizationWithName"
      BY <2>1 DEF NextEvent
    <3>3. QED
      BY <3>1, <3>2 DEF RequestsOf, ResponsesOf, LinesOf, AnswersOf,
                        AuthorizationAccepted, NodeIsDeadResponse
  <2>3. QED
    BY <1>7, <2>2, SessionAssumption DEF AuthorizeByRequest, clientVars
<1>8. CASE AcceptAuthorization
  BY <1>8 DEF AcceptAuthorization, clientVars
<1>9. CASE RedirectToCalcTree
  BY <1>9 DEF RedirectToCalcTree, clientVars, serverVars
<1>10. CASE HandleResponse
  BY <1>10 DEF HandleResponse, RedirectToClient, clientVars, NextEvent
<1>11. CASE Restart
  BY <1>11 DEF Restart, clientVars
<1>12. CASE TreeHandles \/ TreeAnswers \/ TreeReports
  BY <1>12 DEF TreeHandles, TreeAnswers, TreeReports, clientVars, serverVars
<1>13. CASE UNCHANGED vars
  BY <1>13 DEF vars, clientVars, serverVars
<1>14. QED
  BY <1>1, <1>2, <1>3, <1>4, <1>5, <1>6, <1>7, <1>8, <1>9, <1>10, <1>11, <1>12,
     <1>13
     DEF Next, User, Server

\* A step that changes nothing keeps the paths.
LEMMA PathsStutter ==
  ASSUME NEW K, PathsOf(K), UNCHANGED vars
  PROVE  PathsOf(K)'
BY DEF PathsOf, vars, treeVars

\* What the clients took last, and the counters.
ValuesOK ==
  /\ took \in [Clients -> {Nothing} \cup
       [type : {"waiting", "passing"}, lag : Int, msg : Responses]]
  /\ awaits \in [Clients -> BOOLEAN] /\ lag \in [Clients -> Int]
  /\ hosts \in [Clients -> SUBSET Endpoints]
  /\ worked \in BOOLEAN
  /\ unasked \in Nat /\ restarts \in Nat

LEMMA ValuesStep ==
  ASSUME ValuesOK, StateOK, PathsOf(Clients), [Next]_vars
  PROVE  ValuesOK'
<1> USE DEF ValuesOK
<1>1. ASSUME NEW c \in Clients, Start(c) \/ StartFails(c) \/ End(c)
      PROVE  ValuesOK'
  BY <1>1 DEF Start, StartFails, End, treeVars, observers
<1>2. ASSUME NEW c \in Clients, Pass(c) \/ PassEnds(c)
      PROVE  ValuesOK'
  BY <1>2 DEF Pass, PassEnds, treeVars, observers
<1>3. ASSUME NEW c \in Clients, TypeLine(c) PROVE ValuesOK'
  <2>1. awaits' \in [Clients -> BOOLEAN]
    <3>1. PICK kind \in {"Command", "CommandPrintTree"} :
            awaits' = [awaits EXCEPT ![c] = kind = "Command"]
      BY <1>3 DEF TypeLine
    <3>2. QED
      BY <3>1, Zenon
  <2>2. took' = [took EXCEPT ![c] = Nothing]
        /\ UNCHANGED <<lag, hosts, worked, unasked, restarts>>
    BY <1>3 DEF TypeLine, treeVars
  <2>3. QED
    BY <2>1, <2>2
<1>4. ASSUME NEW c \in Clients, WaitTillAuthAccepted(c) PROVE ValuesOK'
  BY <1>4 DEF WaitTillAuthAccepted, Pulls, treeVars
<1>5. ASSUME NEW c \in Clients, TakeAnswer(c) \/ TakeInPass(c) PROVE ValuesOK'
  <2>1. PICK d \in Clients : Take(c, d)
    BY <1>5 DEF TakeAnswer, TakeInPass
  <2>2. Head(down[d]) \in Responses
    BY <2>1, PullTyped, SessionAssumption
       DEF Take, ResponsesOf, Responses, AnswersOf, Answers
  <2>3. LagAfter(c, Head(down[d])) \in Int
    BY DEF LagAfter
  <2>4. pc[c] \in {"waiting", "passing"}
    BY <1>5 DEF TakeAnswer, TakeInPass
  <2>5. awaits' \in [Clients -> BOOLEAN] /\ lag' \in [Clients -> Int]
    BY <2>1, <2>3 DEF Take
  <2>6. took' \in [Clients -> {Nothing} \cup
          [type : {"waiting", "passing"}, lag : Int, msg : Responses]]
    BY <2>1, <2>2, <2>4 DEF Take
  <2>7. UNCHANGED <<hosts, worked, unasked, restarts>>
    BY <2>1 DEF Take, Pulls, treeVars
  <2>8. QED
    BY <2>5, <2>6, <2>7
<1>6. ASSUME NEW c \in Clients, Forward(c) PROVE ValuesOK'
  BY <1>6 DEF Forward, clientVars, treeVars, observers
<1>7. CASE AuthorizeByRequest
  <2>1. pusher' \in Clients
    <3>1. NextEvent({"AuthorizationWithName"}) /\ pusher' = Head(events).from
      BY <1>7 DEF AuthorizeByRequest
    <3>2. Head(events) \in RequestsOf(Clients) \cup ResponsesOf(Clients)
      BY <3>1, EventTyped
    <3>3. Head(events).type = "AuthorizationWithName"
      BY <3>1 DEF NextEvent
    <3>4. QED
      BY <3>1, <3>2, <3>3
         DEF RequestsOf, ResponsesOf, LinesOf, AnswersOf, AuthorizationAccepted,
             NodeIsDeadResponse
  <2>2. EndpointOf[pusher'] \in Endpoints
    BY <2>1, SessionAssumption
  <2>3. hosts' \in [Clients -> SUBSET Endpoints]
    BY <1>7, <2>2 DEF AuthorizeByRequest
  <2>4. UNCHANGED <<took, awaits, lag, worked, unasked, restarts>>
    BY <1>7 DEF AuthorizeByRequest, clientVars, treeVars
  <2>5. QED
    BY <2>3, <2>4
<1>8. CASE AcceptAuthorization \/ RedirectToCalcTree \/ HandleResponse
  BY <1>8 DEF AcceptAuthorization, RedirectToCalcTree, HandleResponse, clientVars,
              treeVars, observers
<1>9. CASE Restart
  <2>1. restarts' \in Nat
    BY <1>9 DEF Restart
  <2>2. worked' \in BOOLEAN
    BY <1>9, Zenon DEF Restart
  <2>3. UNCHANGED <<took, awaits, lag, hosts, unasked>>
    BY <1>9 DEF Restart, clientVars, observers
  <2>4. QED
    BY <2>1, <2>2, <2>3
<1>10. CASE TreeAnswers \/ TreeReports
  BY <1>10 DEF TreeAnswers, TreeReports, clientVars, observers
<1>11. CASE TreeHandles
  <2>1. worked' \in BOOLEAN
    <3>1. worked' \in {worked, TRUE}
      BY <1>11, Zenon DEF TreeHandles
    <3>2. QED
      BY <3>1
  <2>2. UNCHANGED <<took, hosts, restarts>>
    BY <1>11 DEF TreeHandles, Expects, clientVars, observers
  <2>3. unasked' \in Nat
    <3>1. CASE UNCHANGED unasked
      BY <3>1
    <3>2. ASSUME NEW n \in 0..MaxAnswers,
                 unasked' = unasked + (IF n > 1 THEN n - 1 ELSE 0)
          PROVE  unasked' \in Nat
      BY <3>2, SessionAssumption
    <3>3. QED
      BY <1>11, <3>1, <3>2 DEF TreeHandles
  <2>4. lag' \in [Clients -> Int]
    <3>1. CASE UNCHANGED observers
      BY <3>1 DEF observers
    <3>2. ASSUME NEW n \in 0..MaxAnswers, Expects(Head(commands), n)
          PROVE  lag' \in [Clients -> Int]
      <4>1. PICK c, l : c = Head(commands).from
                       /\ l \in {lag[c], lag[c] + n - 1}
                       /\ lag' = [lag EXCEPT ![c] = l]
        BY <3>2, Zenon DEF Expects
      <4>2. c \in Clients => l \in Int
        BY <4>1, SessionAssumption
      <4>3. QED
        BY <4>1, <4>2
    <3>3. QED
      BY <1>11, <3>1, <3>2 DEF TreeHandles
  <2>5. awaits' \in [Clients -> BOOLEAN]
    <3>1. CASE UNCHANGED observers
      BY <3>1 DEF observers
    <3>2. ASSUME NEW n, Expects(Head(commands), n)
          PROVE  awaits' \in [Clients -> BOOLEAN]
      BY <3>2, Zenon DEF Expects
    <3>3. QED
      BY <1>11, <3>1, <3>2 DEF TreeHandles
  <2>6. QED
    BY <2>1, <2>2, <2>4, <2>5, <2>3
<1>12. CASE UNCHANGED vars
  BY <1>12 DEF vars, clientVars, treeVars, observers
<1>13. QED
  BY <1>1, <1>2, <1>3, <1>4, <1>5, <1>6, <1>7, <1>8, <1>9, <1>10, <1>11, <1>12
     DEF Next, User, Server

\* What holds at the start.
LEMMA InitTyped ==
  Init => StateOK /\ ValuesOK /\ PathsOf(Started)
<1> SUFFICES ASSUME Init PROVE StateOK /\ ValuesOK /\ PathsOf(Started)
  OBVIOUS
<1>1. \A S : <<>> \in Seq(S)
  BY EmptySeq
<1>2. StateOK /\ PathsOf(Started)
  BY <1>1 DEF Init, StateOK, PathsOf, Line, Lines
<1>3. ValuesOK
  <2>1. worked \in BOOLEAN /\ unasked \in Nat /\ restarts \in Nat
    BY DEF Init
  <2>2. QED
    BY <2>1 DEF Init, ValuesOK
<1>4. QED
  BY <1>2, <1>3

\* The types, from the state, the values and the paths.
LEMMA PartsAreTypes ==
  StateOK /\ ValuesOK /\ PathsOf(Clients) => TypeOK
<1> SUFFICES ASSUME StateOK, ValuesOK, PathsOf(Clients) PROVE TypeOK
  OBVIOUS
<1>1. AnswersOf(Clients) \subseteq Answers
  BY SessionAssumption DEF AnswersOf, Answers
<1>2. /\ ResponsesOf(Clients) \subseteq Responses
      /\ RequestsOf(Clients) = Requests /\ LinesOf(Clients) = Lines
      /\ RequestsOf(Clients) \cup ResponsesOf(Clients) \subseteq Requests \cup Responses
  BY <1>1 DEF ResponsesOf, Responses, RequestsOf, Requests, LinesOf, Lines
<1>3. \A c \in Clients : down[c] \in Seq(Responses)
  BY <1>2, SeqMonotonic DEF PathsOf
<1>4. events \in Seq(Requests \cup Responses)
  BY <1>2, SeqMonotonic DEF PathsOf
<1>5. down \in [Clients -> Seq(Responses)]
  BY <1>3 DEF PathsOf
<1>6. open \in SUBSET Answers
  BY <1>1 DEF PathsOf
<1>7. sent \in [Clients -> Seq(Requests)] /\ commands \in Seq(Lines)
  BY <1>2 DEF PathsOf
<1>8. QED
  BY <1>4, <1>5, <1>6, <1>7 DEF StateOK, ValuesOK, TypeOK

-----------------------------------------------------------------------------
(***************************************************************************)
(* Messages name only clients that were started, at every step.            *)
(***************************************************************************)
KnownInv == StateOK /\ ValuesOK /\ PathsOf(Started)

\* A client is started once, and one that has ended stays so.
LEMMA StartedOnce ==
  ASSUME StateOK, [Next]_vars
  PROVE  /\ Started \subseteq Started'
         /\ \A c \in Clients : pc[c] = "gone" => pc'[c] = "gone"
<1>1. CASE pc' = pc
  BY <1>1 DEF Started
<1>2. ASSUME NEW c \in Clients, NEW p,
             pc[c] # "gone", p # "off", pc' = [pc EXCEPT ![c] = p]
      PROVE  /\ Started \subseteq Started'
             /\ \A d \in Clients : pc[d] = "gone" => pc'[d] = "gone"
  BY <1>2 DEF Started, StateOK
<1>3. ASSUME NEW c \in Clients,
             \/ Start(c) \/ StartFails(c) \/ TypeLine(c) \/ Pass(c) \/ End(c)
             \/ WaitTillAuthAccepted(c) \/ TakeAnswer(c) \/ PassEnds(c)
      PROVE  pc[c] # "gone" /\ \E p : p # "off" /\ pc' = [pc EXCEPT ![c] = p]
  BY <1>3 DEF Start, StartFails, TypeLine, Pass, End, WaitTillAuthAccepted,
              TakeAnswer, PassEnds, Running
<1>4. ASSUME NEW c \in Clients, TakeInPass(c) \/ Forward(c) PROVE pc' = pc
  BY <1>4 DEF TakeInPass, Forward, clientVars
<1>5. ASSUME \/ Server \/ Restart \/ TreeHandles \/ TreeAnswers \/ TreeReports
             \/ UNCHANGED vars
      PROVE  pc' = pc
  BY <1>5 DEF Server, AuthorizeByRequest, AcceptAuthorization,
              RedirectToCalcTree, HandleResponse, Restart, TreeHandles,
              TreeAnswers, TreeReports, vars, clientVars
<1>6. QED
  BY <1>1, <1>2, <1>3, <1>4, <1>5 DEF Next, User

LEMMA KnownStep ==
  ASSUME KnownInv, [Next]_vars
  PROVE  KnownInv'
<1>1. Started \subseteq Started' /\ Started' \subseteq Clients
  BY StartedOnce DEF KnownInv, Started
<1>2. PICK K : K = Started'
  OBVIOUS
<1>3. PathsOf(K)
  BY <1>1, <1>2, PathsGrow DEF KnownInv
<1>4. PathsOf(K)'
  BY <1>1, <1>2, <1>3, PathsStep, PathsStutter DEF KnownInv
<1>5. PathsOf(Started)'
  BY <1>2, <1>4 DEF PathsOf, RequestsOf, ResponsesOf, LinesOf, AnswersOf
<1>6. PathsOf(Clients)
  BY PathsGrow DEF KnownInv, Started
<1>7. QED
  BY <1>5, <1>6, StateStep, ValuesStep DEF KnownInv

LEMMA KnownAlways == Spec => []KnownInv
<1>1. Init => KnownInv
  BY InitTyped DEF KnownInv
<1>2. KnownInv /\ [Next]_vars => KnownInv'
  BY KnownStep
<1>3. QED
  BY <1>1, <1>2, PTL DEF Spec

\* Every message has its place and its type, for any clients, hosts and bounds.
THEOREM SessionTyped == Spec => []TypeOK
<1>1. KnownInv => TypeOK
  <2> SUFFICES ASSUME KnownInv PROVE TypeOK
    OBVIOUS
  <2>1. PathsOf(Clients)
    BY PathsGrow DEF KnownInv, Started
  <2>2. QED
    BY <2>1, PartsAreTypes DEF KnownInv
<1>2. QED
  BY <1>1, KnownAlways, PTL

-----------------------------------------------------------------------------
(***************************************************************************)
(* Before a client has authorized, and as long as the server that was      *)
(* started first runs, nothing but requests to authorize is on its way.    *)
(***************************************************************************)
Authorizations == [type : {"AuthorizationWithName"}, from : Clients]

Nobody ==
  /\ pc \in [Clients -> {"off", "connecting", "gone"}]
  /\ sent \in [Clients -> Seq(Authorizations)]
  /\ events \in Seq(Authorizations)
  /\ commands = <<>> /\ open = {} /\ worked = FALSE
  /\ \A c \in Clients : down[c] = <<>>

NobodyInv ==
  /\ restarts = 0 /\ pusher = NoClient => Nobody
  /\ server = "gone" => restarts > 0

\* While nobody has authorized, a step that makes no pusher and restarts nothing
\* changes none of this, and a response has nowhere to come from.
LEMMA NobodyStep ==
  ASSUME KnownInv, Nobody, server # "gone", pusher = NoClient, [Next]_vars
  PROVE  \/ Restart
         \/ pusher' # NoClient /\ server' # "gone"
         \/ Nobody' /\ server' # "gone"
<1> USE DEF Nobody
<1>1. ASSUME NEW c \in Clients, Start(c) PROVE Nobody' /\ server' # "gone"
  <2>1. Append(sent[c], AuthorizationWithName(c)) \in Seq(Authorizations)
    BY AppendProperties DEF AuthorizationWithName, Authorizations
  <2>2. QED
    BY <1>1, <2>1 DEF Start, treeVars, serverVars
<1>2. ASSUME NEW c \in Clients, StartFails(c) PROVE Nobody' /\ server' # "gone"
  BY <1>2 DEF StartFails, treeVars, serverVars
<1>3. ASSUME NEW c \in Clients,
             TypeLine(c) \/ Pass(c) \/ TakeAnswer(c) \/ TakeInPass(c) \/ PassEnds(c)
      PROVE  FALSE
  BY <1>3 DEF TypeLine, Pass, TakeAnswer, TakeInPass, PassEnds
<1>4. ASSUME NEW c \in Clients, WaitTillAuthAccepted(c) PROVE FALSE
  BY <1>4 DEF WaitTillAuthAccepted, Pulls
<1>5. ASSUME NEW c \in Clients, End(c) PROVE Nobody' /\ server' # "gone"
  <2>1. PICK rest \in Prefixes(sent[c]) : sent' = [sent EXCEPT ![c] = rest]
    BY <1>5 DEF End
  <2>2. rest \in Seq(Authorizations)
    BY <2>1, PartsTyped
  <2>3. \A d \in Clients : down'[d] = <<>>
    <3>1. {d \in {pusher, leaving} \ {NoClient} : EndpointOf[d] = EndpointOf[c]}
            \subseteq Clients
      BY DEF KnownInv, StateOK
    <3>2. PICK left \in [{d \in {pusher, leaving} \ {NoClient} :
                            EndpointOf[d] = EndpointOf[c]}
                          -> UNION {Suffixes(down[d]) : d \in Clients}] :
            /\ \A d \in DOMAIN left : left[d] \in Suffixes(down[d])
            /\ down' = [d \in Clients |->
                          IF EndpointOf[d] # EndpointOf[c] THEN down[d]
                          ELSE IF d \in DOMAIN left THEN left[d] ELSE <<>>]
      BY <1>5 DEF End
    <3>3. \A d \in Clients : Suffixes(down[d]) \subseteq {<<>>}
      BY PartsOfNothing
    <3>4. QED
      BY <3>1, <3>2, <3>3
  <2>4. QED
    BY <1>5, <2>1, <2>2, <2>3 DEF End, treeVars, serverVars
<1>6. ASSUME NEW c \in Clients, Forward(c) PROVE Nobody' /\ server' # "gone"
  <2>1. Head(sent[c]) \in Authorizations /\ Tail(sent[c]) \in Seq(Authorizations)
    BY <1>6, HeadTailProperties DEF Forward
  <2>2. Append(events, Head(sent[c])) \in Seq(Authorizations)
    BY <2>1, AppendProperties
  <2>3. QED
    BY <1>6, <2>1, <2>2 DEF Forward, treeVars, serverVars, clientVars
<1>7. ASSUME NEW types, NextEvent(types)
      PROVE  /\ Head(events) \in Authorizations
             /\ "AuthorizationWithName" \in types
  <2>1. events # <<>> /\ Head(events).type \in types
    BY <1>7 DEF NextEvent
  <2>2. Head(events) \in Authorizations
    BY <2>1, HeadTailProperties
  <2>3. QED
    BY <2>1, <2>2 DEF Authorizations
<1>8. CASE AuthorizeByRequest
  <2>1. NextEvent({"AuthorizationWithName"})
    BY <1>8 DEF AuthorizeByRequest
  <2>2. Head(events).from \in Clients
    BY <1>7, <2>1 DEF Authorizations
  <2>3. QED
    BY <1>8, <2>2, SessionAssumption DEF AuthorizeByRequest
<1>9. CASE AcceptAuthorization
  BY <1>9 DEF AcceptAuthorization, KnownInv, StateOK
<1>10. CASE RedirectToCalcTree \/ HandleResponse
  <2>1. \/ NextEvent({"Command", "CommandPrintTree"})
        \/ NextEvent({"Answer", "NodeIsDeadResponse"})
    BY <1>10 DEF RedirectToCalcTree, HandleResponse
  <2>2. QED
    BY <1>7, <2>1
<1>11. CASE TreeHandles \/ TreeAnswers \/ TreeReports
  BY <1>11 DEF TreeHandles, TreeAnswers, TreeReports
<1>12. CASE UNCHANGED vars
  BY <1>12 DEF vars, clientVars, treeVars, serverVars
<1>13. QED
  BY <1>1, <1>2, <1>3, <1>4, <1>5, <1>6, <1>8, <1>9, <1>10, <1>11, <1>12
     DEF Next, User, Server

\* A server that has a pusher does not end over it, and keeps one.
LEMMA PusherStays ==
  ASSUME KnownInv, server # "gone", pusher # NoClient, [Next]_vars
  PROVE  Restart \/ (pusher' # NoClient /\ server' # "gone")
<1>1. ASSUME NEW c \in Clients,
             \/ Start(c) \/ StartFails(c) \/ TypeLine(c) \/ Pass(c) \/ End(c)
             \/ PassEnds(c) \/ Forward(c)
      PROVE  UNCHANGED serverVars
  BY <1>1 DEF Start, StartFails, TypeLine, Pass, End, PassEnds, Forward
<1>2. ASSUME NEW c \in Clients,
             WaitTillAuthAccepted(c) \/ TakeAnswer(c) \/ TakeInPass(c)
      PROVE  UNCHANGED serverVars
  BY <1>2 DEF WaitTillAuthAccepted, TakeAnswer, TakeInPass, Take, Pulls
<1>3. CASE AuthorizeByRequest
  <2>1. NextEvent({"AuthorizationWithName"})
    BY <1>3 DEF AuthorizeByRequest
  <2>2. PathsOf(Clients)
    BY PathsGrow DEF KnownInv, Started
  <2>3. Head(events) \in RequestsOf(Clients) \cup ResponsesOf(Clients)
    BY <2>1, <2>2, EventTyped
  <2>4. Head(events).type = "AuthorizationWithName"
    BY <2>1 DEF NextEvent
  <2>5. Head(events).from \in Clients
    BY <2>3, <2>4 DEF RequestsOf, ResponsesOf, LinesOf, AnswersOf,
                      AuthorizationAccepted, NodeIsDeadResponse
  <2>6. QED
    BY <1>3, <2>5, SessionAssumption DEF AuthorizeByRequest
<1>4. CASE AcceptAuthorization \/ HandleResponse
  BY <1>4 DEF AcceptAuthorization, HandleResponse, RedirectToClient
<1>5. CASE RedirectToCalcTree \/ TreeHandles \/ TreeAnswers \/ TreeReports
           \/ UNCHANGED vars
  BY <1>5 DEF RedirectToCalcTree, TreeHandles, TreeAnswers, TreeReports, vars,
              serverVars
<1>6. QED
  BY <1>1, <1>2, <1>3, <1>4, <1>5 DEF Next, User, Server, serverVars

\* Only a restart lets the server meet a response without a pusher.
THEOREM NobodyBreaksIt == Spec => []OnlyARestartBreaksIt
<1>1. Init => NobodyInv
  <2>1. <<>> \in Seq(Authorizations)
    BY EmptySeq
  <2>2. QED
    BY <2>1 DEF Init, NobodyInv, Nobody
<1>2. KnownInv /\ NobodyInv /\ [Next]_vars => NobodyInv'
  <2> SUFFICES ASSUME KnownInv, NobodyInv, [Next]_vars PROVE NobodyInv'
    OBVIOUS
  <2>1. restarts \in Nat
    BY DEF KnownInv, ValuesOK
  <2>2. restarts' = IF Restart THEN restarts + 1 ELSE restarts
    BY DEF Next, User, Server, Restart, Start, StartFails, TypeLine, Pass, End,
           WaitTillAuthAccepted, TakeAnswer, TakeInPass, Take, Pulls, PassEnds,
           Forward, AuthorizeByRequest, AcceptAuthorization, RedirectToCalcTree,
           HandleResponse, TreeHandles, TreeAnswers, TreeReports, vars
  <2>3. CASE Restart \/ restarts > 0
    BY <2>1, <2>2, <2>3 DEF NobodyInv
  <2>4. CASE ~Restart /\ restarts = 0
    <3>1. server # "gone"
      BY <2>4 DEF NobodyInv
    <3>2. CASE pusher = NoClient
      BY <2>4, <3>1, <3>2, NobodyStep DEF NobodyInv
    <3>3. CASE pusher # NoClient
      BY <2>4, <3>1, <3>3, PusherStays DEF NobodyInv
    <3>4. QED
      BY <3>2, <3>3
  <2>5. QED
    BY <2>1, <2>3, <2>4
<1>3. NobodyInv => OnlyARestartBreaksIt
  BY DEF NobodyInv, OnlyARestartBreaksIt
<1>4. QED
  BY <1>1, <1>2, <1>3, KnownAlways, PTL DEF Spec


-----------------------------------------------------------------------------
(***************************************************************************)
(* Where each command is, and each of its answers: the token of a command  *)
(* is its client, its line and 0, that of an answer has its number.  The   *)
(* program keeps no such note; the invariant says that it could be kept,   *)
(* which is to say that none of them is ever in two places, and that there *)
(* are no answers to a command while it is on its way to the tree.         *)
(***************************************************************************)
IsOfACommand(m) == m.type \in {"Command", "Answer"}

Tokens == Clients \X Nat \X Nat

TokenOf(m) == <<m.from, m.line, IF m.type = "Answer" THEN m.nth ELSE 0>>

Messages == RequestsOf(Clients) \cup ResponsesOf(Clients)

Away == <<"away", NoClient>>

Sites ==
  {"sent", "events", "commands", "open", "down", "away"} \X (Clients \cup {NoClient})

\* All commands and answers on path have their place where it is, each once.
IsAt(place, path, where) ==
  /\ \A i \in DOMAIN path : IsOfACommand(path[i]) => place[TokenOf(path[i])] = where
  /\ \A i, j \in DOMAIN path :
       /\ IsOfACommand(path[i]) /\ IsOfACommand(path[j])
       /\ TokenOf(path[i]) = TokenOf(path[j])
       => i = j

PlaceInv(place) ==
  /\ place \in [Tokens -> Sites]
  /\ \A c \in Clients : IsAt(place, sent[c], <<"sent", c>>)
  /\ \A c \in Clients : IsAt(place, down[c], <<"down", c>>)
  /\ IsAt(place, events, <<"events", NoClient>>)
  /\ IsAt(place, commands, <<"commands", NoClient>>)
  /\ \A answer \in open : place[TokenOf(answer)] = <<"open", NoClient>>

Unanswered(place) ==
  \A c \in Clients, n \in Nat :
    place[<<c, n, 0>>] # Away => \A k \in Nat \ {0} : place[<<c, n, k>>] = Away

\* The note after m has gone to there.
Moved(place, m, there) ==
  IF IsOfACommand(m) THEN [place EXCEPT ![TokenOf(m)] = there] ELSE place

LEMMA TokenTyped ==
  ASSUME NEW m \in Messages, IsOfACommand(m)
  PROVE  TokenOf(m) \in Tokens
<1>1. CASE m \in [type : {"AuthorizationWithName"}, from : Clients]
  BY <1>1 DEF IsOfACommand
<1>2. CASE m \in LinesOf(Clients)
  BY <1>2 DEF LinesOf, TokenOf, Tokens
<1>3. CASE m \in AnswersOf(Clients)
  BY <1>3 DEF AnswersOf, TokenOf, Tokens
<1>4. CASE m \in {AuthorizationAccepted, NodeIsDeadResponse}
  BY <1>4 DEF IsOfACommand, AuthorizationAccepted, NodeIsDeadResponse
<1>5. QED
  BY <1>1, <1>2, <1>3, <1>4 DEF Messages, RequestsOf, ResponsesOf

\* The note after a move: of m, and of all others.
LEMMA MovedTyped ==
  ASSUME NEW place \in [Tokens -> Sites], NEW m \in Messages,
         NEW there \in Sites
  PROVE  /\ Moved(place, m, there) \in [Tokens -> Sites]
         /\ \A x \in Tokens :
              Moved(place, m, there)[x] =
                IF IsOfACommand(m) /\ x = TokenOf(m) THEN there ELSE place[x]
BY TokenTyped DEF Moved

\* The same, of one line.
LEMMA MovedElsewhere ==
  ASSUME NEW place \in [Tokens -> Sites], NEW m \in Messages,
         NEW there \in Sites, NEW x \in Tokens,
         ~(IsOfACommand(m) /\ x = TokenOf(m))
  PROVE  Moved(place, m, there)[x] = place[x]
<1>1. Moved(place, m, there)[x] =
        IF IsOfACommand(m) /\ x = TokenOf(m) THEN there ELSE place[x]
  BY MovedTyped, Zenon
<1>2. QED
  BY <1>1, Zenon

LEMMA MovedIsThere ==
  ASSUME NEW place \in [Tokens -> Sites], NEW m \in Messages,
         NEW there \in Sites, IsOfACommand(m)
  PROVE  Moved(place, m, there)[TokenOf(m)] = there
<1>1. PICK x \in Tokens : x = TokenOf(m)
  BY TokenTyped, Zenon
<1>2. Moved(place, m, there)[x] =
        IF IsOfACommand(m) /\ x = TokenOf(m) THEN there ELSE place[x]
  BY MovedTyped, Zenon
<1>3. QED
  BY <1>1, <1>2, Zenon

\* A part of a path, shifted by k.
LEMMA ShiftedIsAt ==
  ASSUME NEW S, NEW path \in Seq(S), NEW part \in Seq(S), NEW place, NEW where,
         IsAt(place, path, where), NEW k \in Nat,
         \A i \in 1..Len(part) : i + k \in 1..Len(path) /\ part[i] = path[i + k]
  PROVE  IsAt(place, part, where)
<1>1. /\ DOMAIN part = 1..Len(part) /\ DOMAIN path = 1..Len(path)
      /\ Len(part) \in Nat /\ Len(path) \in Nat
  BY LenProperties
<1>2. ASSUME NEW i \in DOMAIN part, IsOfACommand(part[i])
      PROVE  place[TokenOf(part[i])] = where
  BY <1>1, <1>2 DEF IsAt
<1>3. ASSUME NEW i \in DOMAIN part, NEW j \in DOMAIN part,
             IsOfACommand(part[i]), IsOfACommand(part[j]),
             TokenOf(part[i]) = TokenOf(part[j])
      PROVE  i = j
  <2>1. i + k = j + k
    BY <1>1, <1>3 DEF IsAt
  <2>2. QED
    BY <1>1, <2>1
<1>4. QED
  BY <1>2, <1>3 DEF IsAt

\* Nothing is anywhere.
LEMMA NothingIsAt ==
  ASSUME NEW place, NEW where
  PROVE  IsAt(place, <<>>, where)
<1>1. DOMAIN <<>> = {}
  OBVIOUS
<1>2. QED
  BY <1>1 DEF IsAt

\* What is left of a path when some of it is lost.
LEMMA PartIsAt ==
  ASSUME NEW S, NEW path \in Seq(S), NEW place, NEW where,
         IsAt(place, path, where),
         NEW part \in Prefixes(path) \cup Suffixes(path)
  PROVE  IsAt(place, part, where)
<1>1. Len(path) \in Nat /\ \A i \in 1..Len(path) : path[i] \in S
  BY LenProperties, ElementOfSeq
<1>2. ASSUME NEW n \in 0..Len(path), part = SubSeq(path, 1, n)
      PROVE  IsAt(place, part, where)
  <2>1. part \in Seq(S) /\ Len(part) = n /\ \A i \in 1..n : part[i] = path[i]
    BY <1>1, <1>2, SubSeqProperties
  <2>2. \A i \in 1..Len(part) : i + 0 \in 1..Len(path) /\ part[i] = path[i + 0]
    BY <1>1, <2>1
  <2>3. QED
    BY <2>1, <2>2, ShiftedIsAt
<1>3. ASSUME NEW n \in 1..Len(path), part = SubSeq(path, n, Len(path))
      PROVE  IsAt(place, part, where)
  <2>1. /\ part \in Seq(S)
        /\ Len(part) = Len(path) - n + 1
        /\ \A i \in 1..(Len(path) - n + 1) : part[i] = path[n + i - 1]
    BY <1>1, <1>3, SubSeqProperties
  <2>2. ASSUME NEW i \in 1..Len(part)
        PROVE  i + (n - 1) \in 1..Len(path) /\ part[i] = path[i + (n - 1)]
    <3>1. i + (n - 1) = n + i - 1 /\ i \in 1..(Len(path) - n + 1)
      BY <1>1, <2>1
    <3>2. QED
      BY <1>1, <2>1, <3>1
  <2>3. n - 1 \in Nat
    BY <1>1
  <2>4. QED
    BY <2>1, <2>2, <2>3, ShiftedIsAt
<1>4. QED
  BY <1>2, <1>3, NothingIsAt DEF Prefixes, Suffixes

\* What the first message of a path is, and what is left of it.
LEMMA HeadIsAt ==
  ASSUME NEW place, NEW where, NEW path \in Seq(Messages), path # <<>>,
         IsAt(place, path, where)
  PROVE  /\ Head(path) \in Messages
         /\ IsOfACommand(Head(path)) => place[TokenOf(Head(path))] = where
         /\ Tail(path) \in Seq(Messages)
         /\ IsAt(place, Tail(path), where)
<1>1. /\ Len(path) \in Nat /\ 1 \in DOMAIN path /\ Head(path) = path[1]
      /\ DOMAIN path = 1..Len(path)
      /\ Head(path) \in Messages
      /\ Tail(path) \in Seq(Messages)
      /\ Len(Tail(path)) = Len(path) - 1
      /\ \A i \in 1..Len(Tail(path)) : Tail(path)[i] = path[i + 1]
  BY HeadTailProperties, LenProperties, EmptySeq
<1>2. \A i \in 1..Len(Tail(path)) : i + 1 \in 1..Len(path)
  BY <1>1
<1>3. IsAt(place, Tail(path), where)
  BY <1>1, <1>2, ShiftedIsAt
<1>4. QED
  BY <1>1, <1>3 DEF IsAt

\* A first message that was taken has left its path.
LEMMA HeadLeaves ==
  ASSUME NEW place \in [Tokens -> Sites], NEW there \in Sites, NEW where,
         NEW path \in Seq(Messages), path # <<>>, IsAt(place, path, where)
  PROVE  IsAt(Moved(place, Head(path), there), Tail(path), where)
<1>1. /\ Len(path) \in Nat /\ 1 \in DOMAIN path /\ Head(path) = path[1]
      /\ DOMAIN path = 1..Len(path)
      /\ Head(path) \in Messages
      /\ Tail(path) \in Seq(Messages)
      /\ Len(Tail(path)) = Len(path) - 1
      /\ \A i \in 1..Len(Tail(path)) : Tail(path)[i] = path[i + 1]
  BY HeadTailProperties, LenProperties, EmptySeq
<1>2. \A i \in 1..Len(Tail(path)) : i + 1 \in 1..Len(path) /\ i + 1 # 1
  BY <1>1
<1>3. IsAt(place, Tail(path), where)
  BY HeadIsAt
<1>4. ASSUME NEW i \in DOMAIN Tail(path), IsOfACommand(Tail(path)[i])
      PROVE  Moved(place, Head(path), there)[TokenOf(Tail(path)[i])] = where
  <2>1. i \in 1..Len(Tail(path)) /\ Tail(path)[i] \in Messages
    BY <1>1, LenProperties, ElementOfSeq
  <2>2. TokenOf(Tail(path)[i]) \in Tokens
    BY <2>1, <1>4, TokenTyped
  <2>3. ~(IsOfACommand(Head(path)) /\ TokenOf(Tail(path)[i]) = TokenOf(Head(path)))
    BY <1>1, <1>2, <1>4, <2>1 DEF IsAt
  <2>4. Moved(place, Head(path), there)[TokenOf(Tail(path)[i])]
          = place[TokenOf(Tail(path)[i])]
    BY <1>1, <2>2, <2>3, MovedElsewhere, Zenon
  <2>5. QED
    BY <1>3, <1>4, <2>4, Zenon DEF IsAt
<1>5. QED
  BY <1>3, <1>4 DEF IsAt

\* The other paths do not mind where a message goes.
LEMMA OthersStay ==
  ASSUME NEW place \in [Tokens -> Sites], NEW there \in Sites, NEW where,
         NEW m \in Messages, IsOfACommand(m) => place[TokenOf(m)] # where,
         NEW path \in Seq(Messages), IsAt(place, path, where)
  PROVE  IsAt(Moved(place, m, there), path, where)
<1>1. ASSUME NEW i \in DOMAIN path, IsOfACommand(path[i])
      PROVE  Moved(place, m, there)[TokenOf(path[i])] = where
  <2>1. TokenOf(path[i]) \in Tokens
    BY <1>1, TokenTyped, LenProperties, ElementOfSeq
  <2>2. place[TokenOf(path[i])] = where
    BY <1>1 DEF IsAt
  <2>3. CASE IsOfACommand(m) /\ TokenOf(path[i]) = TokenOf(m)
    BY <2>2, <2>3, MovedIsThere, Zenon
  <2>4. CASE ~(IsOfACommand(m) /\ TokenOf(path[i]) = TokenOf(m))
    BY <2>1, <2>2, <2>4, MovedElsewhere, Zenon
  <2>5. QED
    BY <2>3, <2>4, Zenon
<1>2. QED
  BY <1>1 DEF IsAt

\* A message that comes to a path is there.
LEMMA LastArrives ==
  ASSUME NEW place \in [Tokens -> Sites], NEW where \in Sites,
         NEW m \in Messages, IsOfACommand(m) => place[TokenOf(m)] # where,
         NEW path \in Seq(Messages), IsAt(place, path, where)
  PROVE  IsAt(Moved(place, m, where), Append(path, m), where)
<1> DEFINE longer == Append(path, m)
           there == Moved(place, m, where)
<1>1. /\ Len(path) \in Nat
      /\ DOMAIN path = 1..Len(path) /\ DOMAIN longer = 1..(Len(path) + 1)
      /\ \A i \in 1..Len(path) : longer[i] = path[i]
      /\ longer[Len(path) + 1] = m
  BY AppendProperties, LenProperties
<1>2. IsAt(there, path, where)
  BY OthersStay
<1>3. IsOfACommand(m) => there[TokenOf(m)] = where
  BY MovedIsThere, Zenon
<1>4. ASSUME NEW i \in DOMAIN path, IsOfACommand(path[i]), IsOfACommand(m)
      PROVE  TokenOf(path[i]) # TokenOf(m)
  BY <1>4 DEF IsAt
<1> HIDE DEF longer, there
<1>5. ASSUME NEW i \in DOMAIN longer, IsOfACommand(longer[i])
      PROVE  there[TokenOf(longer[i])] = where
  <2>1. CASE i = Len(path) + 1
    BY <1>1, <1>3, <1>5, <2>1
  <2>2. CASE i # Len(path) + 1
    <3>1. i \in DOMAIN path /\ longer[i] = path[i]
      BY <1>1, <2>2
    <3>2. QED
      BY <1>2, <1>5, <3>1 DEF IsAt
  <2>3. QED
    BY <2>1, <2>2
<1>6. ASSUME NEW i \in DOMAIN longer, NEW j \in DOMAIN longer,
             IsOfACommand(longer[i]), IsOfACommand(longer[j]),
             TokenOf(longer[i]) = TokenOf(longer[j])
      PROVE  i = j
  <2>1. \A n \in DOMAIN longer :
          n = Len(path) + 1 \/ (n \in DOMAIN path /\ longer[n] = path[n])
    BY <1>1
  <2>2. CASE i \in DOMAIN path /\ j \in DOMAIN path
    <3>1. longer[i] = path[i] /\ longer[j] = path[j]
      BY <1>1, <2>2
    <3>2. QED
      BY <1>2, <1>6, <2>2, <3>1 DEF IsAt
  <2>3. QED
    BY <1>1, <1>4, <1>6, <2>1, <2>2
<1>7. QED
  BY <1>5, <1>6 DEF IsAt, longer, there


-----------------------------------------------------------------------------
(***************************************************************************)
(* The steps that move messages, and lose some, but in which no client     *)
(* types or takes one and the tree takes none: no token comes or goes.     *)
(***************************************************************************)
SameTokens(place, place2) ==
  \A x \in Tokens : place2[x] = Away <=> place[x] = Away

LEMMA PathsOfMessages ==
  ASSUME PathsOf(Clients)
  PROVE  /\ \A c \in Clients : sent[c] \in Seq(Messages) /\ down[c] \in Seq(Messages)
         /\ events \in Seq(Messages) /\ commands \in Seq(Messages)
         /\ open \subseteq AnswersOf(Clients)
         /\ AnswersOf(Clients) \subseteq Messages
<1>1. /\ RequestsOf(Clients) \subseteq Messages
      /\ ResponsesOf(Clients) \subseteq Messages
      /\ LinesOf(Clients) \subseteq Messages
      /\ AnswersOf(Clients) \subseteq Messages
  BY DEF Messages, RequestsOf, ResponsesOf
<1>2. \A c \in Clients : sent[c] \in Seq(Messages) /\ down[c] \in Seq(Messages)
  BY <1>1, SeqMonotonic DEF PathsOf
<1>3. commands \in Seq(Messages)
  BY <1>1, SeqMonotonic DEF PathsOf
<1>4. QED
  BY <1>1, <1>2, <1>3 DEF PathsOf, Messages

\* A message that goes from one place to another that is not Away.
LEMMA MoveKeepsTokens ==
  ASSUME NEW place \in [Tokens -> Sites], NEW m \in Messages,
         NEW there \in Sites, there # Away,
         IsOfACommand(m) => place[TokenOf(m)] # Away
  PROVE  SameTokens(place, Moved(place, m, there))
<1>1. ASSUME NEW x \in Tokens
      PROVE  Moved(place, m, there)[x] = Away <=> place[x] = Away
  <2>1. Moved(place, m, there)[x] =
          IF IsOfACommand(m) /\ x = TokenOf(m) THEN there ELSE place[x]
    BY MovedTyped
  <2>2. QED
    BY <2>1
<1>2. QED
  BY <1>1 DEF SameTokens

\* The note place2 after a move of m: what comes, what goes, and what stays.
Relocates(place, place2, m, here, there) ==
  /\ place2 \in [Tokens -> Sites]
  /\ here # Away /\ there # Away => SameTokens(place, place2)
  /\ \A where, path :
       path \in Seq(Messages) /\ IsAt(place, path, where) /\ where # here
       => IsAt(place2, path, where)
  /\ \A path :
       path \in Seq(Messages) /\ IsAt(place, path, there)
       => IsAt(place2, Append(path, m), there)
  /\ \A path :
       /\ path \in Seq(Messages) /\ IsAt(place, path, here)
       /\ path # <<>> /\ m = Head(path)
       => IsAt(place2, Tail(path), here)
  /\ here # <<"open", NoClient>>
       => \A answer \in open : place2[TokenOf(answer)] = <<"open", NoClient>>

LEMMA MoveProperties ==
  ASSUME PathsOf(Clients), NEW place, PlaceInv(place), NEW m \in Messages,
         NEW here \in Sites, NEW there \in Sites, here # there,
         IsOfACommand(m) => place[TokenOf(m)] = here
  PROVE  Relocates(place, Moved(place, m, there), m, here, there)
<1> DEFINE place2 == Moved(place, m, there)
<1> place \in [Tokens -> Sites]
  BY DEF PlaceInv
<1>1. place2 \in [Tokens -> Sites]
  BY MovedTyped
<1>2. here # Away /\ there # Away => SameTokens(place, place2)
  BY MoveKeepsTokens
<1>3. ASSUME NEW where, NEW path, path \in Seq(Messages), IsAt(place, path, where),
             where # here
      PROVE  IsAt(place2, path, where)
  <2>1. IsOfACommand(m) => place[TokenOf(m)] # where
    BY <1>3
  <2>2. QED
    BY <1>3, <2>1, OthersStay
<1>4. ASSUME NEW path, path \in Seq(Messages), IsAt(place, path, there)
      PROVE  IsAt(place2, Append(path, m), there)
  <2>1. IsOfACommand(m) => place[TokenOf(m)] # there
    OBVIOUS
  <2>2. QED
    BY <1>4, <2>1, LastArrives
<1>5. ASSUME NEW path, path \in Seq(Messages), IsAt(place, path, here), path # <<>>,
             m = Head(path)
      PROVE  IsAt(place2, Tail(path), here)
  BY <1>5, HeadLeaves
<1>6. ASSUME here # <<"open", NoClient>>, NEW answer \in open
      PROVE  place2[TokenOf(answer)] = <<"open", NoClient>>
  <2>1. TokenOf(answer) \in Tokens
    BY PathsOfMessages DEF AnswersOf, TokenOf, Tokens
  <2>2. place[TokenOf(answer)] = <<"open", NoClient>>
    BY DEF PlaceInv
  <2>3. ~(IsOfACommand(m) /\ TokenOf(answer) = TokenOf(m))
    BY <1>6, <2>2, Zenon
  <2>4. place2[TokenOf(answer)] = place[TokenOf(answer)]
    BY <2>1, <2>3, MovedElsewhere, Zenon
  <2>5. QED
    BY <2>2, <2>4, Zenon
<1> HIDE DEF place2
<1>7. Relocates(place, place2, m, here, there)
  BY <1>1, <1>2, <1>3, <1>4, <1>5, <1>6 DEF Relocates
<1>8. QED
  BY <1>7 DEF place2

\* What is on a path and what its first message is.
LEMMA PathsAreAt ==
  ASSUME PathsOf(Clients), NEW place, PlaceInv(place)
  PROVE  /\ \A c \in Clients :
              /\ sent[c] \in Seq(Messages) /\ IsAt(place, sent[c], <<"sent", c>>)
              /\ down[c] \in Seq(Messages) /\ IsAt(place, down[c], <<"down", c>>)
              /\ <<"sent", c>> \in Sites /\ <<"down", c>> \in Sites
         /\ events \in Seq(Messages) /\ IsAt(place, events, <<"events", NoClient>>)
         /\ commands \in Seq(Messages)
         /\ IsAt(place, commands, <<"commands", NoClient>>)
         /\ <<"events", NoClient>> \in Sites /\ <<"commands", NoClient>> \in Sites
         /\ <<"open", NoClient>> \in Sites /\ Away \in Sites
BY PathsOfMessages DEF PlaceInv, Sites, Away

\* A message that is of no command can be added anywhere.
LEMMA OtherArrives ==
  ASSUME NEW place \in [Tokens -> Sites], NEW where \in Sites,
         NEW m \in Messages, ~IsOfACommand(m),
         NEW path \in Seq(Messages), IsAt(place, path, where)
  PROVE  IsAt(place, Append(path, m), where)
<1>1. IsAt(Moved(place, m, where), Append(path, m), where)
  BY LastArrives
<1>2. QED
  BY <1>1 DEF Moved

\* The parts that may be left of a path, and the path without its first message.
Parts(path) ==
  Prefixes(path) \cup Suffixes(path)
    \cup {path, <<>>} \cup (IF path = <<>> THEN {} ELSE {Tail(path)})

\* Losses change no place.
LEMMA LossKeepsPlaces ==
  ASSUME PathsOf(Clients), NEW place, PlaceInv(place),
         \A c \in Clients : sent'[c] \in Parts(sent[c]) /\ down'[c] \in Parts(down[c]),
         events' \in Parts(events), commands' \in Parts(commands), open' \subseteq open
  PROVE  PlaceInv(place)'
<1>1. ASSUME NEW path \in Seq(Messages), NEW where, IsAt(place, path, where),
             NEW part \in Parts(path)
      PROVE  IsAt(place, part, where)
  <2>1. CASE part \in Prefixes(path) \cup Suffixes(path)
    BY <1>1, <2>1, PartIsAt
  <2>2. CASE path # <<>> /\ part = Tail(path)
    BY <1>1, <2>2, HeadIsAt
  <2>3. QED
    BY <1>1, <2>1, <2>2, NothingIsAt DEF Parts
<1>2. \A c \in Clients : /\ IsAt(place, sent'[c], <<"sent", c>>)
                         /\ IsAt(place, down'[c], <<"down", c>>)
  BY <1>1, PathsAreAt
<1>3. /\ IsAt(place, events', <<"events", NoClient>>)
      /\ IsAt(place, commands', <<"commands", NoClient>>)
  BY <1>1, PathsAreAt
<1>4. QED
  BY <1>2, <1>3 DEF PlaceInv

\* A client's request to authorize is none of a command's.
LEMMA StartKeepsPlaces ==
  ASSUME PathsOf(Clients), NEW place, PlaceInv(place),
         NEW c \in Clients, Start(c)
  PROVE  PlaceInv(place)'
<1>1. PICK m : m = AuthorizationWithName(c)
  OBVIOUS
<1>2. m \in Messages /\ ~IsOfACommand(m)
  BY <1>1 DEF AuthorizationWithName, Messages, RequestsOf, IsOfACommand
<1>3. IsAt(place, Append(sent[c], m), <<"sent", c>>)
  BY <1>2, PathsAreAt, OtherArrives DEF PlaceInv
<1>4. \A d \in Clients : IsAt(place, sent'[d], <<"sent", d>>)
  BY <1>1, <1>3 DEF Start, PlaceInv, PathsOf
<1>5. UNCHANGED <<events, commands, open, down>>
  BY DEF Start, treeVars
<1>6. QED
  BY <1>4, <1>5 DEF PlaceInv

\* The validator.
LEMMA ForwardMoves ==
  ASSUME PathsOf(Clients), NEW place, PlaceInv(place),
         NEW c \in Clients, Forward(c)
  PROVE  \E place2 : PlaceInv(place2)' /\ SameTokens(place, place2)
<1>1. PICK m : m = Head(sent[c])
  OBVIOUS
<1>2. PICK place2 : place2 = Moved(place, m, <<"events", NoClient>>)
  OBVIOUS
<1>3. /\ sent[c] # <<>> /\ sent' = [sent EXCEPT ![c] = Tail(sent[c])]
      /\ events' = Append(events, m)
      /\ UNCHANGED <<commands, open, down>>
  BY <1>1 DEF Forward, treeVars
<1>4. m \in Messages /\ (IsOfACommand(m) => place[TokenOf(m)] = <<"sent", c>>)
  BY <1>1, <1>3, PathsAreAt, HeadIsAt
<1>5. /\ <<"sent", c>> # <<"events", NoClient>>
      /\ <<"sent", c>> # <<"open", NoClient>>
      /\ <<"sent", c>> # Away /\ <<"events", NoClient>> # Away
      /\ <<"sent", c>> # <<"commands", NoClient>>
      /\ \A d \in Clients : /\ <<"sent", c>> # <<"down", d>>
                            /\ d # c => <<"sent", c>> # <<"sent", d>>
      /\ <<"sent", c>> \in Sites /\ <<"events", NoClient>> \in Sites
  BY PathsAreAt DEF Away
<1>6. Relocates(place, place2, m, <<"sent", c>>, <<"events", NoClient>>)
  BY <1>2, <1>4, <1>5, MoveProperties
<1>7. /\ IsAt(place2, Append(events, m), <<"events", NoClient>>)
      /\ IsAt(place2, Tail(sent[c]), <<"sent", c>>)
      /\ \A answer \in open : place2[TokenOf(answer)] = <<"open", NoClient>>
      /\ place2 \in [Tokens -> Sites] /\ SameTokens(place, place2)
  BY <1>1, <1>3, <1>5, <1>6, PathsAreAt DEF Relocates
<1>8. \A d \in Clients : IsAt(place2, sent'[d], <<"sent", d>>)
  BY <1>3, <1>5, <1>6, <1>7, PathsAreAt DEF PathsOf, Relocates
<1>9. \A d \in Clients : IsAt(place2, down[d], <<"down", d>>)
  BY <1>5, <1>6, PathsAreAt DEF Relocates
<1>10. IsAt(place2, commands, <<"commands", NoClient>>)
  BY <1>5, <1>6, PathsAreAt DEF Relocates
<1>11. PlaceInv(place2)'
  BY <1>3, <1>7, <1>8, <1>9, <1>10 DEF PlaceInv
<1>12. QED
  BY <1>7, <1>11

\* The server's thread hands a command to the tree's.
LEMMA RedirectMoves ==
  ASSUME PathsOf(Clients), NEW place, PlaceInv(place), RedirectToCalcTree
  PROVE  \E place2 : PlaceInv(place2)' /\ SameTokens(place, place2)
<1>1. PICK m : m = Head(events)
  OBVIOUS
<1>2. PICK place2 : place2 = Moved(place, m, <<"commands", NoClient>>)
  OBVIOUS
<1>3. /\ events # <<>> /\ events' = Tail(events)
      /\ commands' = Append(commands, m)
      /\ UNCHANGED <<sent, open, down>>
  BY <1>1 DEF RedirectToCalcTree, NextEvent
<1>4. /\ m \in Messages
      /\ IsOfACommand(m) => place[TokenOf(m)] = <<"events", NoClient>>
  BY <1>1, <1>3, PathsAreAt, HeadIsAt
<1>5. /\ <<"events", NoClient>> # <<"commands", NoClient>>
      /\ <<"events", NoClient>> # <<"open", NoClient>>
      /\ <<"events", NoClient>> # Away /\ <<"commands", NoClient>> # Away
      /\ \A d \in Clients : /\ <<"events", NoClient>> # <<"down", d>>
                            /\ <<"events", NoClient>> # <<"sent", d>>
      /\ <<"commands", NoClient>> \in Sites /\ <<"events", NoClient>> \in Sites
  BY PathsAreAt DEF Away
<1>6. Relocates(place, place2, m, <<"events", NoClient>>, <<"commands", NoClient>>)
  BY <1>2, <1>4, <1>5, MoveProperties
<1>7. /\ IsAt(place2, Tail(events), <<"events", NoClient>>)
      /\ IsAt(place2, Append(commands, m), <<"commands", NoClient>>)
      /\ \A answer \in open : place2[TokenOf(answer)] = <<"open", NoClient>>
      /\ place2 \in [Tokens -> Sites] /\ SameTokens(place, place2)
  BY <1>1, <1>3, <1>5, <1>6, PathsAreAt DEF Relocates
<1>8. \A d \in Clients : /\ IsAt(place2, sent[d], <<"sent", d>>)
                         /\ IsAt(place2, down[d], <<"down", d>>)
  BY <1>5, <1>6, PathsAreAt DEF Relocates
<1>9. PlaceInv(place2)'
  BY <1>3, <1>7, <1>8 DEF PlaceInv
<1>10. QED
  BY <1>7, <1>9

\* print is dropped.
LEMMA TreeDrops ==
  ASSUME PathsOf(Clients), NEW place, PlaceInv(place), TreeHandles,
         Head(commands).type # "Command"
  PROVE  PlaceInv(place)'
<1>1. /\ commands # <<>> /\ commands' = Tail(commands)
      /\ UNCHANGED <<sent, events, down, open>>
  BY DEF TreeHandles
<1>2. QED
  BY <1>1, LossKeepsPlaces DEF Parts

\* An answer is given.
LEMMA AnswerMoves ==
  ASSUME PathsOf(Clients), NEW place, PlaceInv(place), TreeAnswers
  PROVE  \E place2 : PlaceInv(place2)' /\ SameTokens(place, place2)
<1>1. PICK m \in open :
        /\ open' = open \ {m} /\ events' = Append(events, m)
        /\ UNCHANGED <<sent, commands, down>>
  BY DEF TreeAnswers
<1>2. PICK place2 : place2 = Moved(place, m, <<"events", NoClient>>)
  OBVIOUS
<1>3. \A other \in open : /\ other \in AnswersOf(Clients)
                          /\ TokenOf(other) \in Tokens
                          /\ place[TokenOf(other)] = <<"open", NoClient>>
  <2>1. \A other \in open :
          other \in AnswersOf(Clients) /\ other \in Messages /\ IsOfACommand(other)
    BY PathsOfMessages DEF AnswersOf, IsOfACommand
  <2>2. QED
    BY <2>1, TokenTyped DEF PlaceInv
<1>4. m \in Messages /\ IsOfACommand(m)
  BY <1>3, PathsOfMessages DEF AnswersOf, IsOfACommand
<1>5. /\ <<"open", NoClient>> # <<"events", NoClient>>
      /\ <<"open", NoClient>> # <<"commands", NoClient>>
      /\ <<"open", NoClient>> # Away /\ <<"events", NoClient>> # Away
      /\ \A d \in Clients : /\ <<"open", NoClient>> # <<"down", d>>
                            /\ <<"open", NoClient>> # <<"sent", d>>
      /\ <<"open", NoClient>> \in Sites /\ <<"events", NoClient>> \in Sites
  BY PathsAreAt DEF Away
<1>6. Relocates(place, place2, m, <<"open", NoClient>>, <<"events", NoClient>>)
  BY <1>1, <1>2, <1>3, <1>4, <1>5, MoveProperties
<1>7. /\ IsAt(place2, Append(events, m), <<"events", NoClient>>)
      /\ IsAt(place2, commands, <<"commands", NoClient>>)
      /\ place2 \in [Tokens -> Sites] /\ SameTokens(place, place2)
  BY <1>5, <1>6, PathsAreAt DEF Relocates
<1>8. \A d \in Clients : /\ IsAt(place2, sent[d], <<"sent", d>>)
                         /\ IsAt(place2, down[d], <<"down", d>>)
  BY <1>5, <1>6, PathsAreAt DEF Relocates
<1>9. \A other \in open \ {m} : place2[TokenOf(other)] = <<"open", NoClient>>
  <2> SUFFICES ASSUME NEW other \in open \ {m}
               PROVE  place2[TokenOf(other)] = <<"open", NoClient>>
    OBVIOUS
  <2>1. \A x \in AnswersOf(Clients) :
          x = [type |-> "Answer", from |-> x.from, line |-> x.line, nth |-> x.nth]
    BY DEF AnswersOf
  <2>2. TokenOf(other) # TokenOf(m)
    <3>1. /\ other = [type |-> "Answer", from |-> other.from, line |-> other.line,
                     nth |-> other.nth]
          /\ m = [type |-> "Answer", from |-> m.from, line |-> m.line, nth |-> m.nth]
      BY <1>3, <2>1
    <3>2. /\ TokenOf(other) = <<other.from, other.line, other.nth>>
          /\ TokenOf(m) = <<m.from, m.line, m.nth>>
      BY <1>3 DEF TokenOf, AnswersOf
    <3>3. QED
      BY <3>1, <3>2
  <2>3. place \in [Tokens -> Sites]
    BY DEF PlaceInv
  <2>4. TokenOf(other) \in Tokens /\ <<"events", NoClient>> \in Sites
    BY <1>3, <1>5
  <2>5. place2[TokenOf(other)] = place[TokenOf(other)]
    BY <1>2, <1>4, <2>2, <2>3, <2>4, MovedElsewhere, Zenon
  <2>6. QED
    BY <1>3, <2>5
<1>10. PlaceInv(place2)'
  BY <1>1, <1>7, <1>8, <1>9 DEF PlaceInv
<1>11. QED
  BY <1>7, <1>10

\* A response goes to the client that authorized last, or is lost with the server.
LEMMA ResponseMoves ==
  ASSUME PathsOf(Clients), StateOK, NEW place, PlaceInv(place), HandleResponse
  PROVE  \E place2 : PlaceInv(place2)' /\ SameTokens(place, place2)
<1>1. PICK m : m = Head(events)
  OBVIOUS
<1>2. PICK c : c = pusher
  OBVIOUS
<1>3. /\ events # <<>> /\ events' = Tail(events)
      /\ UNCHANGED <<sent, commands, open>>
  BY DEF HandleResponse, NextEvent, treeVars
<1>4. CASE c = NoClient
  <2>1. down' = down
    BY <1>2, <1>4 DEF HandleResponse, RedirectToClient
  <2>2. PlaceInv(place)'
    BY <1>3, <2>1, LossKeepsPlaces DEF Parts
  <2>3. QED
    BY <2>2 DEF SameTokens
<1>5. CASE c # NoClient
  <2>1. PICK place2 : place2 = Moved(place, m, <<"down", c>>)
    OBVIOUS
  <2>2. c \in Clients /\ down' = [down EXCEPT ![c] = Append(down[c], m)]
    BY <1>1, <1>2, <1>5 DEF HandleResponse, RedirectToClient, StateOK
  <2>3. /\ m \in Messages
        /\ IsOfACommand(m) => place[TokenOf(m)] = <<"events", NoClient>>
    BY <1>1, <1>3, PathsAreAt, HeadIsAt
  <2>4. /\ <<"events", NoClient>> # <<"commands", NoClient>>
        /\ <<"events", NoClient>> # <<"open", NoClient>>
        /\ <<"events", NoClient>> # Away /\ <<"down", c>> # Away
        /\ \A d \in Clients : /\ <<"events", NoClient>> # <<"down", d>>
                              /\ <<"events", NoClient>> # <<"sent", d>>
        /\ <<"down", c>> \in Sites /\ <<"events", NoClient>> \in Sites
    BY <2>2, PathsAreAt DEF Away
  <2>5. Relocates(place, place2, m, <<"events", NoClient>>, <<"down", c>>)
    BY <2>1, <2>2, <2>3, <2>4, MoveProperties
  <2>6. /\ IsAt(place2, Tail(events), <<"events", NoClient>>)
        /\ IsAt(place2, Append(down[c], m), <<"down", c>>)
        /\ IsAt(place2, commands, <<"commands", NoClient>>)
        /\ \A answer \in open : place2[TokenOf(answer)] = <<"open", NoClient>>
        /\ place2 \in [Tokens -> Sites] /\ SameTokens(place, place2)
    BY <1>1, <1>3, <2>2, <2>4, <2>5, PathsAreAt DEF Relocates
  <2>7. \A d \in Clients : /\ IsAt(place2, sent[d], <<"sent", d>>)
                           /\ IsAt(place2, down[d], <<"down", d>>)
    BY <2>4, <2>5, PathsAreAt DEF Relocates
  <2>8. \A d \in Clients : IsAt(place2, down'[d], <<"down", d>>)
    BY <2>2, <2>6, <2>7 DEF PathsOf
  <2>9. PlaceInv(place2)'
    BY <1>3, <2>6, <2>7, <2>8 DEF PlaceInv
  <2>10. QED
    BY <2>6, <2>9
<1>6. QED
  BY <1>4, <1>5


\* Messages of no command are pushed: a report, an acceptance.
LEMMA OthersKeepPlaces ==
  ASSUME PathsOf(Clients), StateOK, NEW place, PlaceInv(place),
         TreeReports \/ AcceptAuthorization
  PROVE  PlaceInv(place)'
<1>1. /\ NodeIsDeadResponse \in Messages /\ ~IsOfACommand(NodeIsDeadResponse)
      /\ AuthorizationAccepted \in Messages /\ ~IsOfACommand(AuthorizationAccepted)
  BY DEF NodeIsDeadResponse, AuthorizationAccepted, Messages, ResponsesOf, IsOfACommand
<1>2. CASE TreeReports
  <2>1. IsAt(place, Append(events, NodeIsDeadResponse), <<"events", NoClient>>)
    BY <1>1, PathsAreAt, OtherArrives DEF PlaceInv
  <2>2. /\ events' = Append(events, NodeIsDeadResponse)
        /\ UNCHANGED <<sent, commands, open, down>>
    BY <1>2 DEF TreeReports
  <2>3. QED
    BY <2>1, <2>2 DEF PlaceInv
<1>3. CASE AcceptAuthorization
  <2>1. PICK c \in Clients : c = pusher
    BY <1>3 DEF AcceptAuthorization, StateOK
  <2>2. /\ down' = [down EXCEPT ![c] = Append(down[c], AuthorizationAccepted)]
        /\ UNCHANGED <<sent, events, commands, open>>
    BY <1>3, <2>1 DEF AcceptAuthorization, treeVars
  <2>3. IsAt(place, Append(down[c], AuthorizationAccepted), <<"down", c>>)
    BY <1>1, PathsAreAt, OtherArrives DEF PlaceInv
  <2>4. \A d \in Clients : IsAt(place, down'[d], <<"down", d>>)
    BY <2>2, <2>3 DEF PlaceInv, PathsOf
  <2>5. QED
    BY <2>2, <2>4 DEF PlaceInv
<1>4. QED
  BY <1>2, <1>3

\* Processes end, a pusher is destroyed, a client drops what it waits not for.
LEMMA EndsKeepPlaces ==
  ASSUME PathsOf(Clients), StateOK, NEW place, PlaceInv(place),
         \/ AuthorizeByRequest \/ Restart
         \/ \E c \in Clients : WaitTillAuthAccepted(c) \/ End(c)
  PROVE  PlaceInv(place)'
<1>1. ASSUME NEW path
      PROVE  path \in Parts(path) /\ <<>> \in Parts(path)
  BY DEF Parts
<1>2. CASE AuthorizeByRequest
  <2>1. events' \in Parts(events)
    BY <1>2 DEF AuthorizeByRequest, NextEvent, Parts
  <2>2. \A c \in Clients : down'[c] \in Parts(down[c])
    <3>1. CASE pusher = NoClient
      BY <1>1, <1>2, <3>1 DEF AuthorizeByRequest
    <3>2. CASE pusher # NoClient
      <4>1. PICK rest \in Prefixes(down[pusher]) : down' = [down EXCEPT ![pusher] = rest]
        BY <1>2, <3>2 DEF AuthorizeByRequest
      <4>2. rest \in Parts(down[pusher])
        BY <4>1 DEF Parts
      <4>3. QED
        BY <1>1, <4>1, <4>2 DEF PathsOf
    <3>3. QED
      BY <3>1, <3>2
  <2>3. UNCHANGED <<sent, commands, open>>
    BY <1>2 DEF AuthorizeByRequest, treeVars
  <2>4. QED
    BY <1>1, <2>1, <2>2, <2>3, LossKeepsPlaces
<1>3. CASE Restart
  <2>1. \A c \in Clients : sent'[c] \in Parts(sent[c])
    <3>1. PICK rest \in [Clients -> UNION {Suffixes(sent[c]) : c \in Clients}] :
            (\A c \in Clients : rest[c] \in Suffixes(sent[c])) /\ sent' = rest
      BY <1>3 DEF Restart
    <3>2. QED
      BY <3>1 DEF Parts
  <2>2. \A c \in Clients : down'[c] \in Parts(down[c])
    <3>1. PICK rest \in [Clients -> UNION {Prefixes(down[c]) : c \in Clients}] :
            (\A c \in Clients : rest[c] \in KeptOf(c)) /\ down' = rest
      BY <1>3 DEF Restart
    <3>2. \A c \in Clients : KeptOf(c) \subseteq Parts(down[c])
      BY DEF Parts, KeptOf
    <3>3. QED
      BY <3>1, <3>2
  <2>3. events' = <<>> /\ commands' = <<>> /\ open' = {}
    BY <1>3 DEF Restart
  <2>4. QED
    BY <1>1, <2>1, <2>2, <2>3, LossKeepsPlaces
<1>4. ASSUME NEW c \in Clients, WaitTillAuthAccepted(c)
      PROVE  PlaceInv(place)'
  <2>1. PICK d \in Clients : Pulls(c, d)
    BY <1>4 DEF WaitTillAuthAccepted
  <2>2. Tail(down[d]) \in Parts(down[d])
    BY <2>1 DEF Pulls, Parts
  <2>3. \A e \in Clients : down'[e] \in Parts(down[e])
    BY <1>1, <2>1, <2>2 DEF Pulls, PathsOf
  <2>4. UNCHANGED <<sent, events, commands, open>>
    BY <2>1 DEF Pulls, treeVars
  <2>5. QED
    BY <1>1, <2>3, <2>4, LossKeepsPlaces
<1>5. ASSUME NEW c \in Clients, End(c)
      PROVE  PlaceInv(place)'
  <2>1. \A d \in Clients : sent'[d] \in Parts(sent[d])
    <3>1. PICK rest \in Prefixes(sent[c]) : sent' = [sent EXCEPT ![c] = rest]
      BY <1>5 DEF End
    <3>2. rest \in Parts(sent[c])
      BY <3>1 DEF Parts
    <3>3. QED
      BY <1>1, <3>1, <3>2 DEF PathsOf
  <2>2. \A d \in Clients : down'[d] \in Parts(down[d])
    <3>1. PICK left \in [{d \in {pusher, leaving} \ {NoClient} :
                            EndpointOf[d] = EndpointOf[c]}
                          -> UNION {Suffixes(down[d]) : d \in Clients}] :
            /\ \A d \in DOMAIN left : left[d] \in Suffixes(down[d])
            /\ down' = [d \in Clients |->
                          IF EndpointOf[d] # EndpointOf[c] THEN down[d]
                          ELSE IF d \in DOMAIN left THEN left[d] ELSE <<>>]
      BY <1>5 DEF End
    <3>2. \A d \in Clients : Suffixes(down[d]) \subseteq Parts(down[d])
      BY DEF Parts
    <3>3. QED
      BY <1>1, <3>1, <3>2
  <2>3. UNCHANGED <<events, commands, open>>
    BY <1>5 DEF End, treeVars
  <2>4. QED
    BY <1>1, <2>1, <2>2, <2>3, LossKeepsPlaces
<1>6. QED
  BY <1>2, <1>3, <1>4, <1>5

\* The tree takes a command c of which n answers will come.
AfterHandling(place, m, n) ==
  [t \in Tokens |->
     IF t = <<m.from, m.line, 0>> THEN Away
     ELSE IF t[1] = m.from /\ t[2] = m.line /\ t[3] \in 1..n THEN <<"open", NoClient>>
     ELSE place[t]]

LEMMA TreeTakes ==
  ASSUME PathsOf(Clients), NEW place, PlaceInv(place), Unanswered(place),
         TreeHandles, NEW m, m = Head(commands), m.type = "Command",
         NEW n \in 0..MaxAnswers,
         open' = open \cup {Answer(m, i) : i \in 1..n},
         NEW place2, place2 = AfterHandling(place, m, n)
  PROVE  /\ PlaceInv(place2)' /\ Unanswered(place2)
         /\ m \in LinesOf(Clients) /\ place[<<m.from, m.line, 0>>] # Away
<1>1. /\ commands # <<>> /\ commands' = Tail(commands)
      /\ UNCHANGED <<sent, events, down>>
  BY DEF TreeHandles
<1>2. m \in LinesOf(Clients) /\ m.from \in Clients /\ m.line \in Nat
  <2>1. commands \in Seq(LinesOf(Clients))
    BY DEF PathsOf
  <2>2. Head(commands) \in LinesOf(Clients)
    BY <1>1, <2>1, HeadTailProperties
  <2>3. QED
    BY <2>2 DEF LinesOf
<1>3. /\ m \in Messages /\ IsOfACommand(m) /\ TokenOf(m) = <<m.from, m.line, 0>>
      /\ place[<<m.from, m.line, 0>>] = <<"commands", NoClient>>
  <2>1. IsOfACommand(m) /\ TokenOf(m) = <<m.from, m.line, 0>>
    BY DEF IsOfACommand, TokenOf
  <2>2. commands \in Seq(Messages) /\ IsAt(place, commands, <<"commands", NoClient>>)
    BY PathsAreAt
  <2>3. /\ Head(commands) \in Messages
        /\ IsOfACommand(Head(commands)) =>
             place[TokenOf(Head(commands))] = <<"commands", NoClient>>
    BY <1>1, <2>2, HeadIsAt
  <2>4. QED
    BY <2>1, <2>3
<1>4. /\ <<"commands", NoClient>> # <<"events", NoClient>>
      /\ <<"commands", NoClient>> # <<"open", NoClient>>
      /\ <<"commands", NoClient>> # Away /\ <<"open", NoClient>> # Away
      /\ Away # <<"events", NoClient>>
      /\ \A d \in Clients : /\ <<"commands", NoClient>> # <<"down", d>>
                            /\ <<"commands", NoClient>> # <<"sent", d>>
                            /\ Away # <<"down", d>> /\ Away # <<"sent", d>>
      /\ <<"commands", NoClient>> \in Sites /\ <<"open", NoClient>> \in Sites
      /\ Away \in Sites
  BY PathsAreAt DEF Away
<1>5. \A k \in Nat \ {0} : place[<<m.from, m.line, k>>] = Away
  BY <1>2, <1>3, <1>4 DEF Unanswered
<1>6. place \in [Tokens -> Sites]
  BY DEF PlaceInv
<1>7. /\ place2 \in [Tokens -> Sites]
      /\ \A t \in Tokens :
           place2[t] =
             IF t = <<m.from, m.line, 0>> THEN Away
             ELSE IF t[1] = m.from /\ t[2] = m.line /\ t[3] \in 1..n
                  THEN <<"open", NoClient>>
             ELSE place[t]
  BY <1>4, <1>6 DEF AfterHandling
\* What was somewhere else stays there.
<1>8. ASSUME NEW t \in Tokens, t # <<m.from, m.line, 0>>, place[t] # Away
      PROVE  place2[t] = place[t]
  <2>1. PICK c \in Clients, l \in Nat, k \in Nat : t = <<c, l, k>>
    BY DEF Tokens
  <2>2. ~(c = m.from /\ l = m.line /\ k \in 1..n)
    BY <1>5, <1>8, <2>1
  <2>3. ~(t[1] = m.from /\ t[2] = m.line /\ t[3] \in 1..n)
    BY <2>1, <2>2
  <2>4. QED
    BY <1>7, <1>8, <2>3
<1>9. ASSUME NEW where, where # <<"commands", NoClient>>, where # Away,
             NEW path \in Seq(Messages), IsAt(place, path, where)
      PROVE  IsAt(place2, path, where)
  <2>1. ASSUME NEW i \in DOMAIN path, IsOfACommand(path[i])
        PROVE  place2[TokenOf(path[i])] = where
    <3>1. TokenOf(path[i]) \in Tokens
      BY <2>1, TokenTyped, LenProperties, ElementOfSeq
    <3>2. place[TokenOf(path[i])] = where
      BY <1>9, <2>1 DEF IsAt
    <3>3. TokenOf(path[i]) # <<m.from, m.line, 0>>
      BY <1>3, <1>9, <3>2
    <3>4. QED
      BY <1>8, <1>9, <3>1, <3>2, <3>3
  <2>2. QED
    BY <1>9, <2>1 DEF IsAt
<1>10. IsAt(place2, Tail(commands), <<"commands", NoClient>>)
  <2>1. IsAt(Moved(place, m, Away), Tail(commands), <<"commands", NoClient>>)
    BY <1>1, <1>4, <1>6, PathsAreAt, HeadLeaves
  <2>2. commands \in Seq(Messages) /\ Tail(commands) \in Seq(Messages)
    BY <1>1, PathsAreAt, HeadTailProperties
  <2>3. ASSUME NEW i \in DOMAIN Tail(commands), IsOfACommand(Tail(commands)[i])
        PROVE  place2[TokenOf(Tail(commands)[i])] = <<"commands", NoClient>>
    <3>1. PICK t : t = TokenOf(Tail(commands)[i])
      OBVIOUS
    <3>2. t \in Tokens
      BY <2>2, <2>3, <3>1, TokenTyped, LenProperties, ElementOfSeq
    <3>3. Moved(place, m, Away)[t] = <<"commands", NoClient>>
      BY <2>1, <2>3, <3>1 DEF IsAt
    <3>4. t # TokenOf(m)
      BY <1>3, <1>4, <1>6, <3>3, MovedIsThere
    <3>5. place[t] = <<"commands", NoClient>>
      BY <1>3, <1>4, <1>6, <3>2, <3>3, <3>4, MovedElsewhere
    <3>6. QED
      BY <1>3, <1>4, <1>8, <3>1, <3>2, <3>4, <3>5
  <2>4. QED
    BY <2>1, <2>3 DEF IsAt
<1>11. \A d \in Clients : /\ IsAt(place2, sent[d], <<"sent", d>>)
                          /\ IsAt(place2, down[d], <<"down", d>>)
  BY <1>4, <1>9, PathsAreAt
<1>12. IsAt(place2, events, <<"events", NoClient>>)
  BY <1>4, <1>9, PathsAreAt
<1>13. ASSUME NEW answer \in open'
       PROVE  place2[TokenOf(answer)] = <<"open", NoClient>>
  <2>1. CASE answer \in open
    <3>1. TokenOf(answer) \in Tokens
      BY <2>1, PathsOfMessages, TokenTyped DEF AnswersOf, IsOfACommand
    <3>2. place[TokenOf(answer)] = <<"open", NoClient>>
      BY <2>1 DEF PlaceInv
    <3>3. QED
      BY <1>3, <1>4, <1>8, <3>1, <3>2
  <2>2. CASE answer \notin open
    <3>1. PICK i \in 1..n : answer = Answer(m, i)
      BY <2>2
    <3>2. i \in Nat /\ i # 0
      BY SessionAssumption
    <3>3. TokenOf(answer) = <<m.from, m.line, i>>
      BY <3>1 DEF TokenOf, Answer
    <3>4. <<m.from, m.line, i>> \in Tokens
      BY <1>2, <3>2 DEF Tokens
    <3>5. QED
      BY <1>7, <3>2, <3>3, <3>4
  <2>3. QED
    BY <2>1, <2>2
<1>14. PlaceInv(place2)'
  BY <1>1, <1>7, <1>10, <1>11, <1>12, <1>13 DEF PlaceInv
<1>15. ASSUME NEW c \in Clients, NEW l \in Nat, place2[<<c, l, 0>>] # Away,
              NEW k \in Nat \ {0}
       PROVE  place2[<<c, l, k>>] = Away
  <2>1. <<c, l, 0>> \in Tokens /\ <<c, l, k>> \in Tokens
    BY DEF Tokens
  <2>2. ~(c = m.from /\ l = m.line)
    BY <1>7, <1>15, <2>1
  <2>3. place2[<<c, l, 0>>] = place[<<c, l, 0>>]
        /\ place2[<<c, l, k>>] = place[<<c, l, k>>]
    BY <1>7, <2>1, <2>2
  <2>4. QED
    BY <1>15, <2>3 DEF Unanswered
<1>16. QED
  BY <1>2, <1>3, <1>4, <1>14, <1>15 DEF Unanswered

-----------------------------------------------------------------------------
(***************************************************************************)
(* How far behind a client is: of its commands and their answers there are *)
(* never more somewhere than lag counts, and one if it waits for one that  *)
(* is to come; but those of its older lines lag counts even then.          *)
(***************************************************************************)
Out(place, c) ==
  {x \in (1..asked[c].line) \X (0..MaxAnswers) : place[<<c, x[1], x[2]>>] # Away}

Older(place, c) == {x \in Out(place, c) : x[1] # asked[c].line}

CreditOf(place, c) ==
  /\ \A n, k \in Nat :
       place[<<c, n, k>>] # Away => <<n, k>> \in (1..asked[c].line) \X (0..MaxAnswers)
  /\ Cardinality(Out(place, c)) <= IF awaits[c] THEN lag[c] + 1 ELSE lag[c]
  /\ awaits[c] => /\ Cardinality(Older(place, c)) <= lag[c]
                  /\ pc[c] \in {"waiting", "gone"} /\ asked[c].type = "Command"
  /\ lag[c] >= 0

\* An answer that is displayed when nothing is behind is that to the last command.
InStep(c) ==
  /\ took[c].type = "waiting" /\ took[c].lag = 0
  /\ asked[c].type = "Command" /\ IsOwnAnswer(c, took[c].msg)
  => took[c].msg.line = asked[c].line

StepInv(place) ==
  /\ PlaceInv(place) /\ Unanswered(place)
  /\ \A c \in Clients : CreditOf(place, c) /\ InStep(c)

LEMMA OutIsFinite ==
  ASSUME StateOK, NEW place, NEW c \in Clients
  PROVE  /\ IsFiniteSet(Out(place, c)) /\ Cardinality(Out(place, c)) \in Nat
         /\ IsFiniteSet(Older(place, c)) /\ Cardinality(Older(place, c)) \in Nat
         /\ asked[c].line \in Nat
<1>1. asked[c].line \in Nat
  BY DEF StateOK, Lines
<1>2. IsFiniteSet(1..asked[c].line) /\ IsFiniteSet(0..MaxAnswers)
  BY <1>1, SessionAssumption, FS_Interval
<1>3. IsFiniteSet((1..asked[c].line) \X (0..MaxAnswers))
  BY <1>2, FS_Product
<1>4. /\ Out(place, c) \in SUBSET ((1..asked[c].line) \X (0..MaxAnswers))
      /\ Older(place, c) \in SUBSET Out(place, c)
  BY DEF Out, Older
<1>5. IsFiniteSet(Out(place, c))
  BY <1>3, <1>4, FS_Subset
<1>6. IsFiniteSet(Older(place, c))
  BY <1>4, <1>5, FS_Subset
<1>7. QED
  BY <1>1, <1>5, <1>6, FS_CardinalityType

\* A client of which no token comes or goes keeps its credit.
LEMMA CreditStays ==
  ASSUME StateOK, NEW place, NEW place2, NEW c \in Clients, CreditOf(place, c),
         \A n, k \in Nat : place2[<<c, n, k>>] = Away <=> place[<<c, n, k>>] = Away,
         UNCHANGED <<asked[c], lag[c], awaits[c]>>,
         pc'[c] = pc[c] \/ pc'[c] = "gone" \/ pc[c] \notin {"waiting", "gone"}
  PROVE  CreditOf(place2, c)'
<1>1. asked[c].line \in Nat
  BY OutIsFinite
<1>2. \A x \in (1..asked[c].line) \X (0..MaxAnswers) : x[1] \in Nat /\ x[2] \in Nat
  BY <1>1, SessionAssumption
<1>3. Out(place2, c)' = Out(place, c)
  BY <1>2 DEF Out
<1>4. Older(place2, c)' = Older(place, c)
  BY <1>3 DEF Older
<1>5. QED
  BY <1>3, <1>4 DEF CreditOf

\* A new line has no token yet; print gets none.
LEMMA TypeLineStep ==
  ASSUME PathsOf(Clients), StateOK, ValuesOK, NEW place, StepInv(place),
         NEW c \in Clients, TypeLine(c)
  PROVE  \E place2 : StepInv(place2)'
<1>1. PICK k : k = asked[c].line + 1
  OBVIOUS
<1>2. PICK kind \in {"Command", "CommandPrintTree"} :
        /\ asked' = [asked EXCEPT ![c] = Line(kind, c, k)]
        /\ sent' = [sent EXCEPT ![c] = Append(sent[c], Line(kind, c, k))]
        /\ awaits' = [awaits EXCEPT ![c] = (kind = "Command")]
  BY <1>1 DEF TypeLine
<1>3. PICK m : m = Line(kind, c, k)
  OBVIOUS
<1>4. PICK place2 : place2 = Moved(place, m, <<"sent", c>>)
  OBVIOUS
<1>5. asked[c].line \in Nat /\ k \in Nat /\ k \notin 1..asked[c].line
  BY <1>1, OutIsFinite
<1>6. /\ m \in Messages /\ m.type = kind /\ m.from = c /\ m.line = k
      /\ TokenOf(m) = <<c, k, 0>> /\ (IsOfACommand(m) <=> kind = "Command")
  BY <1>2, <1>3, <1>5
     DEF Line, Messages, RequestsOf, LinesOf, TokenOf, IsOfACommand
<1>7. /\ PlaceInv(place) /\ place \in [Tokens -> Sites]
      /\ \A i \in Nat : place[<<c, k, i>>] = Away
  BY <1>5 DEF StepInv, PlaceInv, CreditOf
<1>8. /\ Away # <<"events", NoClient>> /\ Away # <<"commands", NoClient>>
      /\ Away # <<"open", NoClient>>
      /\ \A d \in Clients : Away # <<"down", d>> /\ Away # <<"sent", d>>
      /\ <<"sent", c>> \in Sites /\ Away \in Sites
  BY <1>7, PathsAreAt DEF Away
<1>9. PlaceInv(place2)'
  <2>1. Relocates(place, place2, m, Away, <<"sent", c>>)
    BY <1>4, <1>6, <1>7, <1>8, MoveProperties
  <2>2. /\ IsAt(place2, Append(sent[c], m), <<"sent", c>>)
        /\ IsAt(place2, events, <<"events", NoClient>>)
        /\ IsAt(place2, commands, <<"commands", NoClient>>)
        /\ \A answer \in open : place2[TokenOf(answer)] = <<"open", NoClient>>
        /\ place2 \in [Tokens -> Sites]
    BY <1>7, <1>8, <2>1, PathsAreAt DEF Relocates
  <2>3. \A d \in Clients : /\ IsAt(place2, sent[d], <<"sent", d>>)
                           /\ IsAt(place2, down[d], <<"down", d>>)
    BY <1>7, <1>8, <2>1, PathsAreAt DEF Relocates
  <2>4. \A d \in Clients : IsAt(place2, sent'[d], <<"sent", d>>)
    BY <1>2, <1>3, <2>2, <2>3 DEF PathsOf
  <2>5. UNCHANGED <<events, commands, open, down>>
    BY DEF TypeLine, treeVars
  <2>6. QED
    BY <2>2, <2>3, <2>4, <2>5 DEF PlaceInv
<1>10. ASSUME NEW d \in Clients, NEW n \in Nat, NEW i \in Nat
       PROVE  place2[<<d, n, i>>] =
                IF IsOfACommand(m) /\ <<d, n, i>> = <<c, k, 0>> THEN <<"sent", c>>
                ELSE place[<<d, n, i>>]
  <2>1. m \in Messages /\ <<"sent", c>> \in Sites /\ place \in [Tokens -> Sites]
    BY <1>6, <1>7, <1>8
  <2>2. PICK x \in Tokens : x = <<d, n, i>>
    BY DEF Tokens
  <2>3. place2[x] = IF IsOfACommand(m) /\ x = TokenOf(m) THEN <<"sent", c>> ELSE place[x]
    BY <1>4, <2>1, MovedTyped, Zenon
  <2>4. QED
    BY <1>6, <2>2, <2>3, Zenon
<1>11. /\ pc[c] = "prompt" /\ pc' = [pc EXCEPT ![c] = "waiting"]
       /\ took' = [took EXCEPT ![c] = Nothing] /\ lag' = lag
  BY DEF TypeLine
<1>12. ASSUME NEW d \in Clients, d # c
       PROVE  CreditOf(place2, d)' /\ InStep(d)'
  <2>1. UNCHANGED <<asked[d], lag[d], awaits[d], pc[d], took[d]>>
    BY <1>2, <1>11, <1>12 DEF StateOK, ValuesOK
  <2>2. \A n, i \in Nat : place2[<<d, n, i>>] = Away <=> place[<<d, n, i>>] = Away
    BY <1>10, <1>12
  <2>3. CreditOf(place2, d)'
    BY <2>1, <2>2, CreditStays DEF StepInv
  <2>4. InStep(d)'
    BY <2>1 DEF StepInv, InStep
  <2>5. QED
    BY <2>3, <2>4
<1>13. CreditOf(place2, c)'
  <2>1. asked'[c] = m /\ pc'[c] = "waiting" /\ (awaits'[c] <=> kind = "Command")
    BY <1>2, <1>3, <1>11 DEF StateOK, ValuesOK
  <2>2. ~awaits[c]
    BY <1>11 DEF StepInv, CreditOf
  <2>3. \A n, i \in Nat : place2[<<c, n, i>>] # Away =>
          place[<<c, n, i>>] # Away \/ (n = k /\ i = 0 /\ kind = "Command")
    BY <1>6, <1>10
  <2>4. \A n, i \in Nat : place2[<<c, n, i>>] # Away =>
          <<n, i>> \in (1..asked'[c].line) \X (0..MaxAnswers)
    <3>1. 1..asked[c].line \subseteq 1..k /\ k \in 1..k /\ 0 \in 0..MaxAnswers
      BY <1>1, <1>5, SessionAssumption
    <3>2. \A n, i \in Nat : place[<<c, n, i>>] # Away =>
            n \in 1..asked[c].line /\ i \in 0..MaxAnswers
      BY DEF StepInv, CreditOf
    <3>3. asked'[c].line = k
      BY <1>6, <2>1
    <3>4. \A n, i \in Nat : place2[<<c, n, i>>] # Away => n \in 1..k /\ i \in 0..MaxAnswers
      BY <2>3, <3>1, <3>2
    <3>5. QED
      BY <3>3, <3>4
  <2>5. PICK D, D2, E2 : /\ D = Out(place, c) /\ D2 = Out(place2, c)'
                        /\ E2 = Older(place2, c)'
    OBVIOUS
  <2>6. D2 = {x \in (1..k) \X (0..MaxAnswers) : place2[<<c, x[1], x[2]>>] # Away}
    BY <1>6, <2>1, <2>5 DEF Out
  <2>7. ASSUME NEW x \in D2, ~(kind = "Command" /\ x = <<k, 0>>)
        PROVE  x \in D /\ x[1] # k
    <3>1. PICK n \in 1..k, i \in 0..MaxAnswers : x = <<n, i>>
      BY <2>6
    <3>2. n \in Nat /\ i \in Nat
      BY <1>5, SessionAssumption
    <3>3. place[<<c, n, i>>] # Away /\ n # k
      BY <1>7, <2>3, <2>6, <2>7, <3>1, <3>2
    <3>4. n \in 1..asked[c].line
      BY <1>1, <1>5, <3>1, <3>3
    <3>5. QED
      BY <2>5, <3>1, <3>3, <3>4 DEF Out
  <2>8. /\ IsFiniteSet(D) /\ Cardinality(D) \in Nat /\ lag[c] \in Int
        /\ Cardinality(D) <= lag[c] /\ lag[c] >= 0
    BY <2>2, <2>5, OutIsFinite DEF StepInv, CreditOf, ValuesOK
  <2>9. CASE kind = "Command"
    <3>1. D2 \subseteq D \cup {<<k, 0>>}
      BY <2>7
    <3>2. /\ IsFiniteSet(D \cup {<<k, 0>>})
          /\ Cardinality(D \cup {<<k, 0>>}) =
               IF <<k, 0>> \in D THEN Cardinality(D) ELSE Cardinality(D) + 1
      BY <2>8, FS_AddElement
    <3>3. IsFiniteSet(D2) /\ Cardinality(D2) <= Cardinality(D \cup {<<k, 0>>})
      BY <3>1, <3>2, FS_Subset
    <3>4. Cardinality(D2) \in Nat
      BY <3>3, FS_CardinalityType
    <3>5. Cardinality(D2) <= lag[c] + 1
      BY <2>8, <3>2, <3>3, <3>4
    <3>6. E2 \subseteq D
      BY <1>6, <2>1, <2>5, <2>7 DEF Older
    <3>7. IsFiniteSet(E2) /\ Cardinality(E2) <= Cardinality(D)
      BY <2>8, <3>6, FS_Subset
    <3>8. Cardinality(E2) \in Nat
      BY <3>7, FS_CardinalityType
    <3>9. Cardinality(E2) <= lag[c]
      BY <2>8, <3>7, <3>8
    <3>10. asked'[c].type = "Command" /\ lag'[c] = lag[c]
      BY <1>6, <1>11, <2>1, <2>9
    <3>11. QED
      BY <2>1, <2>4, <2>5, <2>8, <2>9, <3>5, <3>9, <3>10 DEF CreditOf
  <2>10. CASE kind # "Command"
    <3>1. D2 \subseteq D
      BY <2>7, <2>10
    <3>2. IsFiniteSet(D2) /\ Cardinality(D2) <= Cardinality(D)
      BY <2>8, <3>1, FS_Subset
    <3>3. Cardinality(D2) \in Nat
      BY <3>2, FS_CardinalityType
    <3>4. Cardinality(D2) <= lag'[c] /\ lag'[c] >= 0
      BY <1>11, <2>8, <3>2, <3>3
    <3>5. QED
      BY <2>1, <2>4, <2>5, <2>10, <3>4 DEF CreditOf
  <2>11. QED
    BY <2>9, <2>10
<1>14. InStep(c)'
  BY <1>11 DEF InStep, Nothing, ValuesOK
<1>15. Unanswered(place2)
  <2>1. ASSUME NEW d \in Clients, NEW n \in Nat, place2[<<d, n, 0>>] # Away,
               NEW i \in Nat \ {0}
        PROVE  place2[<<d, n, i>>] = Away
    <3>1. place2[<<d, n, i>>] = place[<<d, n, i>>]
      BY <1>10
    <3>2. place[<<d, n, 0>>] # Away \/ (d = c /\ n = k)
      BY <1>10, <2>1
    <3>3. QED
      BY <1>7, <3>1, <3>2 DEF StepInv, Unanswered
  <2>2. QED
    BY <2>1 DEF Unanswered
<1>16. QED
  BY <1>9, <1>12, <1>13, <1>14, <1>15 DEF StepInv

\* The note after c has taken m: an answer of c's is gone.
AfterTake(place, c, m) == IF IsOwnAnswer(c, m) THEN Moved(place, m, Away) ELSE place

LEMMA TakeLeaves ==
  ASSUME PathsOf(Clients), NEW place, PlaceInv(place),
         NEW c \in Clients, NEW d \in Clients, Pulls(c, d),
         NEW m, m = Head(down[d]), NEW place2, place2 = AfterTake(place, c, m)
  PROVE  /\ PlaceInv(place2)'
         /\ m \in Messages
         /\ IsOwnAnswer(c, m) => /\ m.line \in Nat /\ m.nth \in Nat \ {0}
                                 /\ place[<<c, m.line, m.nth>>] # Away
         /\ \A e \in Clients, n, k \in Nat :
              place2[<<e, n, k>>] =
                IF IsOwnAnswer(c, m) /\ <<e, n, k>> = <<c, m.line, m.nth>> THEN Away
                ELSE place[<<e, n, k>>]
<1>1. /\ down[d] # <<>> /\ down' = [down EXCEPT ![d] = Tail(down[d])]
      /\ UNCHANGED <<sent, events, commands, open>>
  BY DEF Pulls, treeVars
<1>2. /\ m \in Messages /\ place \in [Tokens -> Sites]
      /\ IsOfACommand(m) => place[TokenOf(m)] = <<"down", d>>
  BY <1>1, PathsAreAt, HeadIsAt DEF PlaceInv
<1>3. /\ <<"down", d>> # <<"events", NoClient>> /\ <<"down", d>> # <<"commands", NoClient>>
      /\ <<"down", d>> # <<"open", NoClient>> /\ <<"down", d>> # Away
      /\ \A e \in Clients : /\ <<"down", d>> # <<"sent", e>>
                            /\ e # d => <<"down", d>> # <<"down", e>>
      /\ <<"down", d>> \in Sites /\ Away \in Sites
  BY PathsAreAt DEF Away
<1>4. CASE ~IsOwnAnswer(c, m)
  <2>1. place2 = place
    BY <1>4 DEF AfterTake
  <2>2. Tail(down[d]) \in Parts(down[d])
    BY <1>1 DEF Parts
  <2>3. \A path : path \in Parts(path)
    BY DEF Parts
  <2>4. \A e \in Clients : down'[e] \in Parts(down[e])
    BY <1>1, <2>2, <2>3 DEF PathsOf
  <2>5. PlaceInv(place)'
    BY <1>1, <2>3, <2>4, LossKeepsPlaces
  <2>6. QED
    BY <1>2, <1>4, <2>1, <2>5
<1>5. CASE IsOwnAnswer(c, m)
  <2>1. place2 = Moved(place, m, Away) /\ IsOfACommand(m) /\ m.from = c
    BY <1>5 DEF AfterTake, IsOwnAnswer, IsOfACommand
  <2>2. /\ m.line \in Nat /\ m.nth \in Nat \ {0}
        /\ TokenOf(m) = <<c, m.line, m.nth>>
    <3>1. m.type = "Answer"
      BY <1>5 DEF IsOwnAnswer
    <3>2. m \in AnswersOf(Clients)
      BY <1>2, <3>1 DEF Messages, RequestsOf, LinesOf, ResponsesOf,
                        AuthorizationAccepted, NodeIsDeadResponse
    <3>3. QED
      BY <2>1, <3>1, <3>2, SessionAssumption DEF AnswersOf, TokenOf
  <2>3. Relocates(place, place2, m, <<"down", d>>, Away)
    BY <1>2, <1>3, <2>1, MoveProperties
  <2>4. /\ IsAt(place2, Tail(down[d]), <<"down", d>>)
        /\ IsAt(place2, events, <<"events", NoClient>>)
        /\ IsAt(place2, commands, <<"commands", NoClient>>)
        /\ \A answer \in open : place2[TokenOf(answer)] = <<"open", NoClient>>
        /\ place2 \in [Tokens -> Sites]
    BY <1>1, <1>3, <2>3, PathsAreAt DEF Relocates
  <2>5. \A e \in Clients : /\ IsAt(place2, sent[e], <<"sent", e>>)
                           /\ e # d => IsAt(place2, down[e], <<"down", e>>)
    BY <1>3, <2>3, PathsAreAt DEF Relocates
  <2>6. \A e \in Clients : IsAt(place2, down'[e], <<"down", e>>)
    BY <1>1, <2>4, <2>5 DEF PathsOf
  <2>7. PlaceInv(place2)'
    BY <1>1, <2>4, <2>5, <2>6 DEF PlaceInv
  <2>8. ASSUME NEW x \in Tokens
        PROVE  place2[x] = IF x = <<c, m.line, m.nth>> THEN Away ELSE place[x]
    <3>1. m \in Messages /\ place \in [Tokens -> Sites] /\ Away \in Sites
      BY <1>2, <1>3
    <3>2. place2 = Moved(place, m, Away)
      BY <2>1
    <3>3. \A y \in Tokens :
            Moved(place, m, Away)[y] =
              IF IsOfACommand(m) /\ y = TokenOf(m) THEN Away ELSE place[y]
      BY <3>1, MovedTyped, Zenon
    <3>4. QED
      BY <2>1, <2>2, <3>2, <3>3
  <2>9. \A e \in Clients, n, k \in Nat :
          place2[<<e, n, k>>] =
            IF <<e, n, k>> = <<c, m.line, m.nth>> THEN Away ELSE place[<<e, n, k>>]
    BY <2>8 DEF Tokens
  <2>10. QED
    BY <1>2, <1>3, <1>5, <2>1, <2>2, <2>7, <2>9
<1>6. QED
  BY <1>4, <1>5

\* Taking a response sets a client back by a token at most, as lag says.
LEMMA TakeStep ==
  ASSUME PathsOf(Clients), StateOK, ValuesOK, NEW place, StepInv(place),
         NEW c \in Clients, TakeAnswer(c) \/ TakeInPass(c)
  PROVE  \E place2 : StepInv(place2)'
<1>1. PICK d \in Clients : Take(c, d)
  BY DEF TakeAnswer, TakeInPass
<1>2. PICK m : m = Head(down[d])
  OBVIOUS
<1>3. PICK place2 : place2 = AfterTake(place, c, m)
  OBVIOUS
<1>4. /\ PlaceInv(place2)'
      /\ m \in Messages
      /\ IsOwnAnswer(c, m) => /\ m.line \in Nat /\ m.nth \in Nat \ {0}
                              /\ place[<<c, m.line, m.nth>>] # Away
      /\ \A e \in Clients, n, k \in Nat :
           place2[<<e, n, k>>] =
             IF IsOwnAnswer(c, m) /\ <<e, n, k>> = <<c, m.line, m.nth>> THEN Away
             ELSE place[<<e, n, k>>]
  <2>1. PlaceInv(place) /\ Pulls(c, d)
    BY <1>1 DEF StepInv, Take
  <2>2. QED
    BY <1>2, <1>3, <2>1, TakeLeaves
<1>5. /\ lag' = [lag EXCEPT ![c] = LagAfter(c, m)]
      /\ awaits' = [awaits EXCEPT ![c] = FALSE]
      /\ took' = [took EXCEPT ![c] = [type |-> pc[c], lag |-> lag[c], msg |-> m]]
      /\ asked' = asked
  BY <1>1, <1>2 DEF Take
<1>6. \A e \in Clients : e # c => pc'[e] = pc[e]
  BY DEF TakeAnswer, TakeInPass, StateOK
<1>7. ASSUME NEW e \in Clients, e # c
      PROVE  CreditOf(place2, e)' /\ InStep(e)'
  <2>1. UNCHANGED <<asked[e], lag[e], awaits[e], pc[e], took[e]>>
    BY <1>5, <1>6, <1>7 DEF ValuesOK
  <2>2. \A n, k \in Nat : place2[<<e, n, k>>] = Away <=> place[<<e, n, k>>] = Away
    BY <1>4, <1>7
  <2>3. CreditOf(place2, e)'
    BY <2>1, <2>2, CreditStays DEF StepInv
  <2>4. InStep(e)'
    BY <2>1 DEF StepInv, InStep
  <2>5. QED
    BY <2>3, <2>4
<1>8. PICK D, D2, t : D = Out(place, c) /\ D2 = Out(place2, c)' /\ t = <<m.line, m.nth>>
  OBVIOUS
<1>9. /\ IsFiniteSet(D) /\ Cardinality(D) \in Nat /\ lag[c] \in Int
      /\ Cardinality(D) <= IF awaits[c] THEN lag[c] + 1 ELSE lag[c]
      /\ lag[c] >= 0 /\ lag'[c] = LagAfter(c, m) /\ ~awaits'[c]
  BY <1>5, <1>8, OutIsFinite DEF StepInv, CreditOf, ValuesOK
<1>10. IsOwnAnswer(c, m) => t \in D
  <2>1. SUFFICES ASSUME IsOwnAnswer(c, m) PROVE t \in D
    OBVIOUS
  <2>2. PICK n, k \in Nat : n = m.line /\ k = m.nth /\ place[<<c, n, k>>] # Away
    BY <1>4, <2>1
  <2>3. t = <<n, k>>
    BY <1>8, <2>2
  <2>4. CreditOf(place, c)
    BY DEF StepInv
  <2>5. \A i, j \in Nat : place[<<c, i, j>>] # Away =>
          <<i, j>> \in (1..asked[c].line) \X (0..MaxAnswers)
    BY <2>4, Zenon DEF CreditOf
  <2>6. <<n, k>> \in (1..asked[c].line) \X (0..MaxAnswers)
    BY <2>2, <2>5
  <2>7. QED
    BY <1>8, <2>2, <2>3, <2>6 DEF Out
<1>11. D2 = IF IsOwnAnswer(c, m) THEN D \ {t} ELSE D
  <2>1. ASSUME NEW n \in 1..asked[c].line, NEW k \in 0..MaxAnswers
        PROVE  place2[<<c, n, k>>] # Away <=>
                 place[<<c, n, k>>] # Away /\ ~(IsOwnAnswer(c, m) /\ <<n, k>> = t)
    <3>1. n \in Nat /\ k \in Nat
      BY OutIsFinite, SessionAssumption
    <3>2. <<c, n, k>> = <<c, m.line, m.nth>> <=> <<n, k>> = t
      BY <1>8
    <3>3. QED
      BY <1>4, <3>1, <3>2
  <2>2. D2 = {x \in (1..asked[c].line) \X (0..MaxAnswers) :
                place2[<<c, x[1], x[2]>>] # Away}
    BY <1>5, <1>8 DEF Out
  <2>3. D2 = {x \in (1..asked[c].line) \X (0..MaxAnswers) :
                place[<<c, x[1], x[2]>>] # Away /\ ~(IsOwnAnswer(c, m) /\ x = t)}
    BY <2>1, <2>2
  <2>4. QED
    BY <1>8, <2>3 DEF Out
<1>12. /\ Cardinality(D2) \in Nat
       /\ Cardinality(D2) = IF IsOwnAnswer(c, m) THEN Cardinality(D) - 1
                            ELSE Cardinality(D)
       /\ IsOwnAnswer(c, m) => Cardinality(D) >= 1
  <2>1. CASE IsOwnAnswer(c, m)
    <3>1. t \in D /\ D2 = D \ {t}
      BY <1>10, <1>11, <2>1
    <3>2. /\ IsFiniteSet(D \ {t})
          /\ Cardinality(D \ {t}) = Cardinality(D) - 1
      BY <1>9, <3>1, FS_RemoveElement
    <3>3. Cardinality(D2) \in Nat
      BY <3>1, <3>2, FS_CardinalityType
    <3>4. QED
      BY <1>9, <2>1, <3>1, <3>2, <3>3
  <2>2. CASE ~IsOwnAnswer(c, m)
    BY <1>9, <1>11, <2>2
  <2>3. QED
    BY <2>1, <2>2
<1>13. Cardinality(D2) <= lag'[c] /\ lag'[c] >= 0
  <2>1. CASE awaits[c] /\ ~IsOwnAnswer(c, m)
    BY <1>9, <1>12, <2>1 DEF LagAfter
  <2>2. CASE ~awaits[c] /\ IsOwnAnswer(c, m)
    BY <1>9, <1>12, <2>2 DEF LagAfter
  <2>3. CASE awaits[c] /\ IsOwnAnswer(c, m)
    <3>1. LagAfter(c, m) = lag[c]
      BY <2>3 DEF LagAfter
    <3>2. QED
      BY <1>9, <1>12, <2>3, <3>1
  <2>4. CASE ~awaits[c] /\ ~IsOwnAnswer(c, m)
    <3>1. LagAfter(c, m) = lag[c]
      BY <2>4 DEF LagAfter
    <3>2. QED
      BY <1>9, <1>12, <2>4, <3>1
  <2>5. QED
    BY <2>1, <2>2, <2>3, <2>4
<1>14. CreditOf(place2, c)'
  <2>1. \A n, k \in Nat : place2[<<c, n, k>>] # Away => place[<<c, n, k>>] # Away
    BY <1>4
  <2>2. \A n, k \in Nat : place2[<<c, n, k>>] # Away =>
          <<n, k>> \in (1..asked'[c].line) \X (0..MaxAnswers)
    BY <1>5, <2>1 DEF StepInv, CreditOf
  <2>3. QED
    BY <1>8, <1>9, <1>13, <2>2 DEF CreditOf
<1>15. InStep(c)'
  <2>1. took'[c] = [type |-> pc[c], lag |-> lag[c], msg |-> m]
    BY <1>5 DEF ValuesOK
  <2>2. SUFFICES ASSUME pc[c] = "waiting", lag[c] = 0, asked[c].type = "Command",
                        IsOwnAnswer(c, m)
                 PROVE  m.line = asked[c].line
    BY <1>5, <2>1 DEF InStep
  <2>3. awaits[c]
    BY <1>9, <1>12, <2>2
  <2>4. Cardinality(Older(place, c)) <= 0
    BY <2>2, <2>3 DEF StepInv, CreditOf
  <2>5. Older(place, c) = {}
    <3>1. Cardinality(Older(place, c)) = 0
      BY <2>4, OutIsFinite
    <3>2. QED
      BY <3>1, OutIsFinite, FS_EmptySet
  <2>6. t[1] = m.line
    BY <1>8
  <2>7. QED
    BY <1>8, <1>10, <2>2, <2>5, <2>6 DEF Older
<1>16. Unanswered(place2)
  BY <1>4 DEF StepInv, Unanswered
<1>17. QED
  BY <1>4, <1>7, <1>14, <1>15, <1>16 DEF StepInv

\* One element out, up to n others in.
LEMMA ExchangeBound ==
  ASSUME NEW S, IsFiniteSet(S), NEW x \in S, NEW T, IsFiniteSet(T), NEW n \in Nat,
         Cardinality(T) <= n, NEW U, U \subseteq (S \ {x}) \cup T
  PROVE  /\ Cardinality(U) \in Nat /\ Cardinality(U) <= Cardinality(S) + n - 1
         /\ Cardinality(S) >= 1
<1>1. /\ IsFiniteSet(S \ {x}) /\ Cardinality(S \ {x}) = Cardinality(S) - 1
  BY FS_RemoveElement
<1>2. /\ IsFiniteSet((S \ {x}) \cup T)
      /\ Cardinality((S \ {x}) \cup T) =
           Cardinality(S \ {x}) + Cardinality(T) - Cardinality((S \ {x}) \cap T)
  BY <1>1, FS_Union
<1>3. IsFiniteSet((S \ {x}) \cap T)
  BY <1>1, FS_Subset
<1>4. IsFiniteSet(U) /\ Cardinality(U) <= Cardinality((S \ {x}) \cup T)
  BY <1>2, FS_Subset
<1>5. /\ Cardinality(U) \in Nat /\ Cardinality(S \ {x}) \in Nat /\ Cardinality(S) \in Nat
      /\ Cardinality(T) \in Nat /\ Cardinality((S \ {x}) \cap T) \in Nat
      /\ Cardinality((S \ {x}) \cup T) \in Nat
  BY <1>1, <1>2, <1>3, <1>4, FS_CardinalityType
<1>6. QED
  BY <1>1, <1>2, <1>4, <1>5


\* The tree takes a command: n answers are to come instead of it, as lag says.
LEMMA HandleStep ==
  ASSUME PathsOf(Clients), StateOK, ValuesOK, NEW place, StepInv(place),
         TreeHandles, Head(commands).type = "Command"
  PROVE  \E place2 : StepInv(place2)'
<1>1. PICK m : m = Head(commands)
  OBVIOUS
<1>2. PICK n \in 0..MaxAnswers :
        open' = open \cup {Answer(m, i) : i \in 1..n} /\ Expects(m, n)
  BY <1>1 DEF TreeHandles
<1>3. PICK place2 : place2 = AfterHandling(place, m, n)
  OBVIOUS
<1>4. /\ PlaceInv(place2)' /\ Unanswered(place2)
      /\ m \in LinesOf(Clients) /\ place[<<m.from, m.line, 0>>] # Away
      /\ place \in [Tokens -> Sites] /\ PlaceInv(place) /\ Unanswered(place)
  <2>1. PlaceInv(place) /\ Unanswered(place)
    BY DEF StepInv
  <2>2. m.type = "Command"
    BY <1>1
  <2>3. QED
    BY <1>1, <1>2, <1>3, <2>1, <2>2, TreeTakes DEF PlaceInv
<1>5. PICK c \in Clients, l \in Nat : c = m.from /\ l = m.line
  BY <1>4 DEF LinesOf
<1>6. \A k \in Nat \ {0} : place[<<c, l, k>>] = Away
  BY <1>4, <1>5 DEF Unanswered
<1>7. n \in Nat /\ n <= MaxAnswers /\ MaxAnswers \in Nat
      /\ <<"open", NoClient>> # Away
  BY SessionAssumption DEF Away
<1>8. ASSUME NEW e \in Clients, NEW j \in Nat, NEW k \in Nat
      PROVE  place2[<<e, j, k>>] =
               IF e = c /\ j = l /\ k = 0 THEN Away
               ELSE IF e = c /\ j = l /\ k \in 1..n THEN <<"open", NoClient>>
               ELSE place[<<e, j, k>>]
  <2>1. <<e, j, k>> \in Tokens
    BY DEF Tokens
  <2>2. QED
    BY <1>3, <1>5, <2>1 DEF AfterHandling
<1>9. UNCHANGED <<pc, asked, took>>
  BY DEF TreeHandles, clientVars
<1>10. PICK unanswered \in BOOLEAN :
         unanswered <=> n = 0 /\ awaits[c] /\ asked[c] = m
  OBVIOUS
<1>11. /\ awaits' = [awaits EXCEPT ![c] = awaits[c] /\ ~unanswered]
       /\ lag' = [lag EXCEPT ![c] = IF unanswered THEN lag[c] ELSE lag[c] + n - 1]
  BY <1>2, <1>5, <1>10, Zenon DEF Expects
<1>12. ASSUME NEW e \in Clients
       PROVE  InStep(e)'
  BY <1>9 DEF StepInv, InStep
<1>13. ASSUME NEW e \in Clients, e # c
       PROVE  CreditOf(place2, e)'
  <2>1. UNCHANGED <<asked[e], lag[e], awaits[e], pc[e]>>
    BY <1>9, <1>11, <1>13 DEF ValuesOK
  <2>2. \A j, k \in Nat : place2[<<e, j, k>>] = Away <=> place[<<e, j, k>>] = Away
    BY <1>8, <1>13
  <2>3. QED
    BY <2>1, <2>2, CreditStays DEF StepInv
<1>14. CreditOf(place, c)
  BY DEF StepInv
<1>15. l \in 1..asked[c].line /\ asked[c].line \in Nat
  BY <1>4, <1>5, <1>14, OutIsFinite DEF CreditOf
<1>16. PICK old, new : old = <<l, 0>> /\ new = {<<l, k>> : k \in 1..n}
  OBVIOUS
<1>17. IsFiniteSet(new) /\ Cardinality(new) \in Nat /\ Cardinality(new) <= n
  <2>1. IsFiniteSet(1..n) /\ Cardinality(1..n) = n
    BY <1>7, FS_Interval
  <2>2. PICK f : f = [k \in 1..n |-> <<l, k>>]
    OBVIOUS
  <2>3. f \in [1..n -> new] /\ \A y \in new : \E x \in 1..n : f[x] = y
    BY <1>16, <2>2
  <2>4. f \in Surjection(1..n, new)
    BY <2>3 DEF Surjection
  <2>5. QED
    BY <1>7, <2>1, <2>4, FS_Surjection, FS_CardinalityType
<1>18. PICK D, D2, E, E2 :
         /\ D = Out(place, c) /\ D2 = Out(place2, c)'
         /\ E = Older(place, c) /\ E2 = Older(place2, c)'
  OBVIOUS
<1>19. D2 = {x \in (1..asked[c].line) \X (0..MaxAnswers) :
               place2[<<c, x[1], x[2]>>] # Away}
  BY <1>9, <1>18 DEF Out
<1>20. D2 \subseteq (D \ {old}) \cup new
  <2> SUFFICES ASSUME NEW x \in D2 PROVE x \in (D \ {old}) \cup new
    OBVIOUS
  <2>1. PICK j \in 1..asked[c].line, k \in 0..MaxAnswers :
          x = <<j, k>> /\ place2[<<c, j, k>>] # Away
    BY <1>19
  <2>2. j \in Nat /\ k \in Nat
    BY <1>7, <1>15
  <2>3. ~(j = l /\ k = 0)
    BY <1>8, <2>1, <2>2
  <2>4. (j = l /\ k \in 1..n) \/ place[<<c, j, k>>] # Away
    BY <1>8, <2>1, <2>2, <2>3
  <2>5. QED
    BY <1>16, <1>18, <2>1, <2>3, <2>4 DEF Out
<1>21. /\ old \in D
       /\ old[1] = l /\ \A x \in new : x[1] = l
  BY <1>4, <1>5, <1>7, <1>15, <1>16, <1>18 DEF Out
<1>22. E2 \subseteq IF l = asked[c].line THEN E ELSE (E \ {old}) \cup new
  BY <1>9, <1>18, <1>20, <1>21 DEF Older
<1>23. l # asked[c].line => old \in E
  BY <1>18, <1>21 DEF Older
<1>24. /\ IsFiniteSet(D) /\ Cardinality(D) \in Nat /\ IsFiniteSet(E)
       /\ Cardinality(E) \in Nat /\ lag[c] \in Int /\ lag[c] >= 0
       /\ Cardinality(D) <= IF awaits[c] THEN lag[c] + 1 ELSE lag[c]
       /\ awaits[c] => /\ Cardinality(E) <= lag[c]
                       /\ pc[c] \in {"waiting", "gone"} /\ asked[c].type = "Command"
  BY <1>14, <1>18, OutIsFinite DEF CreditOf, ValuesOK
<1>25. /\ Cardinality(D2) \in Nat /\ Cardinality(D2) <= Cardinality(D) + n - 1
       /\ Cardinality(D) >= 1
  BY <1>7, <1>17, <1>20, <1>21, <1>24, ExchangeBound
<1>26. /\ Cardinality(E2) \in Nat
       /\ IF l = asked[c].line THEN Cardinality(E2) <= Cardinality(E)
          ELSE Cardinality(E2) <= Cardinality(E) + n - 1 /\ Cardinality(E) >= 1
  <2>1. CASE l = asked[c].line
    <3>1. E2 \subseteq E
      BY <1>22, <2>1
    <3>2. QED
      BY <1>24, <2>1, <3>1, FS_Subset, FS_CardinalityType
  <2>2. CASE l # asked[c].line
    <3>1. E2 \subseteq (E \ {old}) \cup new /\ old \in E
      BY <1>22, <1>23, <2>2
    <3>2. QED
      BY <1>7, <1>17, <1>24, <2>2, <3>1, ExchangeBound
  <2>3. QED
    BY <2>1, <2>2
<1>27. /\ lag'[c] = IF unanswered THEN lag[c] ELSE lag[c] + n - 1
       /\ awaits'[c] <=> awaits[c] /\ ~unanswered
  <2>1. lag'[c] = IF unanswered THEN lag[c] ELSE lag[c] + n - 1
    BY <1>11 DEF ValuesOK
  <2>2. awaits'[c] <=> awaits[c] /\ ~unanswered
    BY <1>11, Zenon DEF ValuesOK
  <2>3. QED
    BY <2>1, <2>2
\* A command that is awaited and is not the one taken is of a later line.
<1>28. awaits[c] /\ asked[c] # m => l # asked[c].line
  <2>1. SUFFICES ASSUME awaits[c], l = asked[c].line PROVE asked[c] = m
    OBVIOUS
  <2>2. /\ asked[c] \in Lines /\ asked[c].from = c /\ asked[c].type = "Command"
        /\ m.type = "Command"
    BY <1>1, <1>24, <2>1 DEF StateOK
  <2>3. QED
    <3>1. \A x \in Lines : x = [type |-> x.type, from |-> x.from, line |-> x.line]
      BY DEF Lines
    <3>2. m \in Lines
      BY <1>4 DEF Lines, LinesOf
    <3>3. asked[c] = [type |-> "Command", from |-> c, line |-> l]
      BY <2>1, <2>2, <3>1
    <3>4. m = [type |-> "Command", from |-> c, line |-> l]
      BY <1>5, <2>2, <3>1, <3>2
    <3>5. QED
      BY <3>3, <3>4
<1>29. CreditOf(place2, c)'
  <2>1. ASSUME NEW j \in Nat, NEW k \in Nat, place2[<<c, j, k>>] # Away
        PROVE  <<j, k>> \in (1..asked'[c].line) \X (0..MaxAnswers)
    <3>1. CASE j = l /\ k \in 1..n
      BY <1>7, <1>9, <1>15, <3>1
    <3>2. CASE ~(j = l /\ k \in 1..n)
      BY <1>8, <1>9, <1>14, <2>1, <3>2 DEF CreditOf
    <3>3. QED
      BY <3>1, <3>2
  <2>2. /\ Cardinality(D2) <= IF awaits'[c] THEN lag'[c] + 1 ELSE lag'[c]
        /\ awaits'[c] => Cardinality(E2) <= lag'[c]
        /\ lag'[c] >= 0
    <3>1. CASE unanswered
      <4>1. n = 0 /\ awaits[c] /\ ~awaits'[c] /\ lag'[c] = lag[c]
        BY <1>10, <1>27, <3>1
      <4>2. QED
        BY <1>24, <1>25, <4>1
    <3>2. CASE ~unanswered
      <4>1. lag'[c] = lag[c] + n - 1 /\ (awaits'[c] <=> awaits[c])
        BY <1>27, <3>2
      <4>2. CASE ~awaits[c]
        BY <1>7, <1>24, <1>25, <4>1, <4>2
      <4>3. CASE awaits[c] /\ l = asked[c].line
        <5>1. n >= 1
          BY <1>7, <1>10, <1>28, <3>2, <4>3
        <5>2. QED
          BY <1>7, <1>24, <1>25, <1>26, <4>1, <4>3, <5>1
      <4>4. CASE awaits[c] /\ l # asked[c].line
        BY <1>7, <1>24, <1>25, <1>26, <4>1, <4>4
      <4>5. QED
        BY <4>2, <4>3, <4>4
    <3>3. QED
      BY <3>1, <3>2
  <2>3. awaits'[c] => pc'[c] \in {"waiting", "gone"} /\ asked'[c].type = "Command"
    BY <1>9, <1>24, <1>27
  <2>4. QED
    BY <1>18, <2>1, <2>2, <2>3 DEF CreditOf
<1>30. QED
  BY <1>4, <1>12, <1>13, <1>29 DEF StepInv

\* The steps that neither type nor take a line.
LEMMA OtherStep ==
  ASSUME PathsOf(Clients), StateOK, ValuesOK, NEW place, StepInv(place), [Next]_vars,
         ~\E c \in Clients : TypeLine(c) \/ TakeAnswer(c) \/ TakeInPass(c),
         ~(TreeHandles /\ Head(commands).type = "Command")
  PROVE  \E place2 : StepInv(place2)'
<1>1. PlaceInv(place)
  BY DEF StepInv
<1>2. \E place2 : PlaceInv(place2)' /\ SameTokens(place, place2)
  <2>1. CASE UNCHANGED <<sent, events, commands, open, down>>
    BY <1>1, <2>1 DEF PlaceInv, SameTokens
  <2>2. CASE TreeReports \/ AcceptAuthorization
    BY <1>1, <2>2, OthersKeepPlaces DEF SameTokens
  <2>3. CASE \/ AuthorizeByRequest \/ Restart
             \/ \E c \in Clients : WaitTillAuthAccepted(c) \/ End(c)
    BY <1>1, <2>3, EndsKeepPlaces DEF SameTokens
  <2>4. CASE \E c \in Clients : Start(c)
    BY <1>1, <2>4, StartKeepsPlaces DEF SameTokens
  <2>5. CASE \E c \in Clients : Forward(c)
    BY <1>1, <2>5, ForwardMoves
  <2>6. CASE RedirectToCalcTree \/ HandleResponse
    BY <1>1, <2>6, RedirectMoves, ResponseMoves
  <2>7. CASE TreeHandles
    BY <1>1, <2>7, TreeDrops DEF SameTokens
  <2>8. CASE TreeAnswers
    BY <1>1, <2>8, AnswerMoves
  <2>9. ASSUME NEW c \in Clients, StartFails(c) \/ Pass(c) \/ PassEnds(c)
        PROVE  UNCHANGED <<sent, events, commands, open, down>>
    BY <2>9 DEF StartFails, Pass, PassEnds, treeVars
  <2>10. ASSUME UNCHANGED vars
        PROVE  UNCHANGED <<sent, events, commands, open, down>>
    BY <2>10 DEF vars, treeVars
  <2>11. QED
    BY <2>1, <2>2, <2>3, <2>4, <2>5, <2>6, <2>7, <2>8, <2>9, <2>10
       DEF Next, User, Server
<1>3. PICK place2 : PlaceInv(place2)' /\ SameTokens(place, place2)
  BY <1>2
<1>4. UNCHANGED <<asked, lag, awaits>>
  BY DEF Next, User, Server, Restart, Start, StartFails, Pass, End,
         WaitTillAuthAccepted, PassEnds, Forward, AuthorizeByRequest,
         AcceptAuthorization, RedirectToCalcTree, HandleResponse, TreeHandles,
         TreeAnswers, TreeReports, vars, clientVars, observers
<1>5. \A c \in Clients : took'[c] = took[c] \/ took'[c] = Nothing
  BY DEF Next, User, Server, Restart, Start, StartFails, Pass, End,
         WaitTillAuthAccepted, PassEnds, Forward, AuthorizeByRequest,
         AcceptAuthorization, RedirectToCalcTree, HandleResponse, TreeHandles,
         TreeAnswers, TreeReports, vars, clientVars, ValuesOK
<1>6. ASSUME NEW c \in Clients
      PROVE  pc'[c] = pc[c] \/ pc'[c] = "gone" \/ pc[c] \notin {"waiting", "gone"}
  BY DEF Next, User, Server, Restart, Start, StartFails, Pass, End,
         WaitTillAuthAccepted, PassEnds, Forward, AuthorizeByRequest,
         AcceptAuthorization, RedirectToCalcTree, HandleResponse, TreeHandles,
         TreeAnswers, TreeReports, vars, clientVars, StateOK
<1>7. ASSUME NEW c \in Clients, NEW n \in Nat, NEW k \in Nat
      PROVE  place2[<<c, n, k>>] = Away <=> place[<<c, n, k>>] = Away
  BY <1>3 DEF SameTokens, Tokens
<1>8. ASSUME NEW c \in Clients
      PROVE  CreditOf(place2, c)' /\ InStep(c)'
  <2>1. CreditOf(place2, c)'
    BY <1>4, <1>6, <1>7, CreditStays DEF StepInv
  <2>2. InStep(c)'
    BY <1>4, <1>5 DEF StepInv, InStep, Nothing
  <2>3. QED
    BY <2>1, <2>2
<1>9. Unanswered(place2)
  BY <1>7 DEF StepInv, Unanswered
<1>10. QED
  BY <1>3, <1>8, <1>9 DEF StepInv

\* The note can be kept: nothing is ever in two places, and no client is further
\* behind than lag counts.
PlaceOfEach == \E place : StepInv(place)

LEMMA PlaceOfEachInit == Init => PlaceOfEach
<1> SUFFICES ASSUME Init PROVE PlaceOfEach
  OBVIOUS
<1>1. PICK place : place = [x \in Tokens |-> Away]
  OBVIOUS
<1>2. PlaceInv(place)
  <2>1. place \in [Tokens -> Sites]
    BY <1>1 DEF Sites, Away
  <2>2. QED
    BY <2>1, NothingIsAt DEF Init, PlaceInv
<1>3. \A c \in Clients, n, k \in Nat : place[<<c, n, k>>] = Away
  BY <1>1 DEF Tokens
<1>4. ASSUME NEW c \in Clients
      PROVE  CreditOf(place, c) /\ InStep(c)
  <2>1. /\ asked[c].line = 0 /\ lag[c] = 0 /\ took[c] = Nothing
        /\ awaits[c] = FALSE
    BY DEF Init, Line
  <2>2. Out(place, c) = {}
    BY <2>1 DEF Out
  <2>3. Cardinality({}) = 0
    BY FS_EmptySet
  <2>4. QED
    BY <1>3, <2>1, <2>2, <2>3 DEF CreditOf, InStep, Nothing
<1>5. QED
  BY <1>2, <1>3, <1>4 DEF PlaceOfEach, StepInv, Unanswered

\* Whoever displays answers, however many each command gets and whatever is lost
\* on the way: a client takes another answer for that to its command only while
\* it is behind, by waits that something else used up and by second answers.
THEOREM AnswersInStepTheorem == Spec => []AnswersInStep
<1>1. KnownInv /\ PlaceOfEach /\ [Next]_vars => PlaceOfEach'
  <2> SUFFICES ASSUME KnownInv, PlaceOfEach, [Next]_vars PROVE PlaceOfEach'
    OBVIOUS
  <2>1. PathsOf(Clients) /\ StateOK /\ ValuesOK
    BY PathsGrow DEF KnownInv, Started
  <2>2. PICK place : StepInv(place)
    BY DEF PlaceOfEach
  <2>3. \E place2 : StepInv(place2)'
    BY <2>1, <2>2, OtherStep, TypeLineStep, TakeStep, HandleStep
  <2>4. QED
    BY <2>3 DEF PlaceOfEach
<1>2. PlaceOfEach => AnswersInStep
  BY DEF PlaceOfEach, StepInv, CreditOf, InStep, AnswersInStep
<1>3. QED
  BY <1>1, <1>2, PlaceOfEachInit, KnownAlways, PTL DEF Spec
=============================================================================
