------------------------------- MODULE Session -------------------------------
(***************************************************************************)
(* Clients, the Validator thread, the thread of Server::run and, as far as *)
(* the others see it, the CalcTree thread.  A client authorizes, pushes    *)
(* one command after the other and takes for the answer whatever comes     *)
(* next.  The server sends everything to the client that authorized last.  *)
(*                                                                         *)
(* sent[c] is the message path from c to the validator, down[c] the one of *)
(* the PushQueue that the server made when c authorized.  All clients of   *)
(* a host have the same endpoint: whoever is bound there reads all paths   *)
(* that lead to it, in any order, and ZeroMQ keeps a path whose reader has *)
(* died for the next one.  The CalcTree thread gives a command one answer  *)
(* as a rule, none when a node that should have given it is lost, and two  *)
(* when one node refuses a create that another one does; the answers to    *)
(* several commands come in any order.  In addition it reports deaths that *)
(* nobody asked for.                                                       *)
(***************************************************************************)
EXTENDS Integers, Sequences, FiniteSets, SequencesExt

CONSTANTS
  Clients,      \* client processes; a client that is started again is a new one
  NoClient,     \* the null pusher
  Endpoints,    \* one for each host
  EndpointOf,   \* the endpoint of each client, SelfIPInfo::getSelfEndpoint()
  MaxLines,     \* bound: lines that each client sends to the server
  MaxAnswers,   \* bound: answers to one command
  MaxUnasked,   \* bound: answers after the first, and reports of dead nodes
  MaxEnds       \* bound: processes that end, clients and the server

ASSUME SessionAssumption ==
  /\ NoClient \notin Clients
  /\ EndpointOf \in [Clients -> Endpoints]
  /\ MaxLines \in [Clients -> Nat] /\ MaxUnasked \in Nat
  /\ MaxAnswers \in Nat /\ MaxEnds \in Nat

VARIABLES
  pc,        \* where each client's main thread is
  asked,     \* the line each client pushed last
  took,      \* the message each client took last, and what it took it for
  awaits,    \* observer: does each client wait for an answer that is to come?
  lag,       \* observer: how many other answers to it are under way, or lost
  sent,      \* client -> validator
  events,    \* eventsList
  commands,  \* commandsQueue
  open,      \* the answers that the tree will give
  worked,    \* the tree has handled some command, there may be nodes
  unasked,   \* number of answers after the first, and of reports
  server,    \* "running", "replacing" its pusher, or "gone"
  pusher,    \* the client the server's PushQueue was made for
  leaving,   \* the one before, while its PushQueue is destroyed
  down,      \* the server's PushQueues -> clients
  hosts,     \* observer: where clients authorized since each client did
  restarts

clientVars == <<pc, asked, took>>
observers == <<awaits, lag, hosts>>
treeVars == <<commands, open, worked, unasked>>
serverVars == <<server, pusher, leaving>>
vars ==
  <<clientVars, sent, events, treeVars, serverVars, down, observers, restarts>>

-----------------------------------------------------------------------------
(***************************************************************************)
(* Messages.  An answer stands for any response to the command of a line;  *)
(* nth tells the answers to one command apart.                             *)
(***************************************************************************)
AuthorizationWithName(c) == [type |-> "AuthorizationWithName", from |-> c]
Line(kind, c, n) == [type |-> kind, from |-> c, line |-> n]
AuthorizationAccepted == [type |-> "AuthorizationAccepted"]
NodeIsDeadResponse == [type |-> "NodeIsDeadResponse"]
Answer(cmd, n) ==
  [type |-> "Answer", from |-> cmd.from, line |-> cmd.line, nth |-> n]
Nothing == [type |-> "Nothing"]

Lines == [type : {"Command", "CommandPrintTree"}, from : Clients, line : Nat]
Requests == [type : {"AuthorizationWithName"}, from : Clients] \cup Lines
Answers == [type : {"Answer"}, from : Clients, line : Nat, nth : Nat]
Responses == Answers \cup {AuthorizationAccepted, NodeIsDeadResponse}

-----------------------------------------------------------------------------
Running(c) == pc[c] \in {"connecting", "prompt", "waiting", "passing"}
Bound(e) == \E c \in Clients : Running(c) /\ EndpointOf[c] = e
Ended == Cardinality({c \in Clients : pc[c] = "gone"}) + restarts
IsOwnAnswer(c, m) == m.type = "Answer" /\ m.from = c

Init ==
  /\ pc = [c \in Clients |-> "off"]
  /\ asked = [c \in Clients |-> Line("CommandPrintTree", c, 0)]
  /\ took = [c \in Clients |-> Nothing]
  /\ awaits = [c \in Clients |-> FALSE] /\ lag = [c \in Clients |-> 0]
  /\ hosts = [c \in Clients |-> {}]
  /\ sent = [c \in Clients |-> <<>>]
  /\ events = <<>> /\ commands = <<>> /\ open = {}
  /\ worked = FALSE /\ unasked = 0
  /\ server = "running" /\ pusher = NoClient /\ leaving = NoClient
  /\ down = [c \in Clients |-> <<>>]
  /\ restarts = 0

-----------------------------------------------------------------------------
(***************************************************************************)
(* The client.                                                             *)
(***************************************************************************)
\* A mutant of Start: connectWithServer is left out.
StartUnauthorized(c) ==
  /\ pc[c] = "off"
  /\ ~Bound(EndpointOf[c])
  /\ pc' = [pc EXCEPT ![c] = "prompt"]
  /\ UNCHANGED <<asked, took, sent, events, treeVars, serverVars, down,
                 observers, restarts>>

\* The constructor binds the endpoint, connectWithServer asks to authorize.
Start(c) ==
  /\ pc[c] = "off"
  /\ ~Bound(EndpointOf[c])
  /\ pc' = [pc EXCEPT ![c] = "connecting"]
  /\ sent' = [sent EXCEPT ![c] = Append(@, AuthorizationWithName(c))]
  /\ UNCHANGED <<asked, took, events, treeVars, serverVars, down, observers,
                 restarts>>

\* Another client of the host has the endpoint: bind throws, nobody catches.
StartFails(c) ==
  /\ pc[c] = "off"
  /\ Bound(EndpointOf[c])
  /\ pc' = [pc EXCEPT ![c] = "gone"]
  /\ UNCHANGED <<asked, took, sent, events, treeVars, serverVars, down,
                 observers, restarts>>

\* PullQueue::pull of client c, from the path d.
Pulls(c, d) ==
  /\ EndpointOf[d] = EndpointOf[c]
  /\ down[d] # <<>>
  /\ down' = [down EXCEPT ![d] = Tail(@)]
  /\ UNCHANGED <<sent, events, treeVars, serverVars, hosts, restarts>>

\* waitTillAuthAccepted: anything else is dropped unseen.
WaitTillAuthAccepted(c) ==
  \E d \in Clients :
    /\ pc[c] = "connecting"
    /\ Pulls(c, d)
    /\ pc' = [pc EXCEPT ![c] = IF Head(down[d]) = AuthorizationAccepted
                               THEN "prompt" ELSE "connecting"]
    /\ UNCHANGED <<asked, took, awaits, lag>>

\* A line with a command for the server: it is pushed, one response awaited.
TypeLine(c) ==
  /\ pc[c] = "prompt"
  /\ asked[c].line < MaxLines[c]
  /\ \E kind \in {"Command", "CommandPrintTree"} :
        LET request == Line(kind, c, asked[c].line + 1)
        IN  /\ asked' = [asked EXCEPT ![c] = request]
            /\ sent' = [sent EXCEPT ![c] = Append(@, request)]
            /\ awaits' = [awaits EXCEPT ![c] = kind = "Command"]
  /\ pc' = [pc EXCEPT ![c] = "waiting"]
  /\ took' = [took EXCEPT ![c] = Nothing]
  /\ UNCHANGED <<lag, hosts, events, treeVars, serverVars, down, restarts>>

\* What taking m does to the lag: the wait for an answer was used up by
\* something else, or an answer was taken that was not waited for.
LagAfter(c, m) ==
  CASE awaits[c] /\ ~IsOwnAnswer(c, m) -> lag[c] + 1
    [] ~awaits[c] /\ IsOwnAnswer(c, m) -> lag[c] - 1
    [] OTHER -> lag[c]

\* waitAndPullRespFromQueue: m is displayed as the answer, except for an
\* AuthorizationAccepted, for which formAnswerToUser throws and nothing is.
Take(c, d) ==
  /\ Pulls(c, d)
  /\ lag' = [lag EXCEPT ![c] = LagAfter(c, Head(down[d]))]
  /\ awaits' = [awaits EXCEPT ![c] = FALSE]
  /\ took' = [took EXCEPT ![c] =
                [type |-> pc[c], lag |-> lag[c], msg |-> Head(down[d])]]
  /\ UNCHANGED asked

\* A mutant of TakeAnswer: what is not the client's own answer is passed over.
TakeOwnAnswer(c) ==
  \E d \in Clients :
    /\ pc[c] = "waiting"
    /\ Take(c, d)
    /\ pc' = [pc EXCEPT ![c] = IF IsOwnAnswer(c, Head(down[d]))
                               THEN "prompt" ELSE "waiting"]

TakeAnswer(c) ==
  \E d \in Clients :
    /\ pc[c] = "waiting"
    /\ Take(c, d)
    /\ pc' = [pc EXCEPT ![c] = "prompt"]

\* pass: display what is there until the time is over.
Pass(c) ==
  /\ pc[c] = "prompt"
  /\ pc' = [pc EXCEPT ![c] = "passing"]
  /\ took' = [took EXCEPT ![c] = Nothing]
  /\ UNCHANGED <<asked, sent, events, treeVars, serverVars, down, observers,
                 restarts>>

TakeInPass(c) ==
  \E d \in Clients :
    /\ pc[c] = "passing"
    /\ Take(c, d)
    /\ UNCHANGED pc

PassEnds(c) ==
  /\ pc[c] = "passing"
  /\ pc' = [pc EXCEPT ![c] = "prompt"]
  /\ took' = [took EXCEPT ![c] = Nothing]
  /\ UNCHANGED <<asked, sent, events, treeVars, serverVars, down, observers,
                 restarts>>

\* The user ends the client.  A last part of what it pushed was not sent, a
\* first part of what was sent to it has arrived there and is lost: the whole
\* of it on a path whose PushQueue is closed.
End(c) ==
  /\ Running(c)
  /\ Ended < MaxEnds
  /\ pc' = [pc EXCEPT ![c] = "gone"]
  /\ \E rest \in Prefixes(sent[c]) : sent' = [sent EXCEPT ![c] = rest]
  /\ \E rest \in [{d \in {pusher, leaving} \ {NoClient} :
                     EndpointOf[d] = EndpointOf[c]}
                   -> UNION {Suffixes(down[d]) : d \in Clients}] :
        /\ \A d \in DOMAIN rest : rest[d] \in Suffixes(down[d])
        /\ down' = [d \in Clients |->
                      IF EndpointOf[d] # EndpointOf[c] THEN down[d]
                      ELSE IF d \in DOMAIN rest THEN rest[d] ELSE <<>>]
  /\ UNCHANGED <<asked, took, events, treeVars, serverVars, observers, restarts>>

-----------------------------------------------------------------------------
(***************************************************************************)
(* The server.                                                             *)
(***************************************************************************)
\* Validator::launch
Forward(c) ==
  /\ server # "gone"
  /\ sent[c] # <<>>
  /\ events' = Append(events, Head(sent[c]))
  /\ sent' = [sent EXCEPT ![c] = Tail(@)]
  /\ UNCHANGED <<clientVars, treeVars, serverVars, down, observers, restarts>>

\* getEvent
NextEvent(types) ==
  /\ server = "running"
  /\ events # <<>>
  /\ Head(events).type \in types
  /\ events' = Tail(events)

\* A mutant of RedirectToClient: a response is pushed twice.
RedirectTwiceToClient(resp) ==
  IF pusher = NoClient
  THEN server' = "gone" /\ UNCHANGED down
  ELSE /\ down' = [down EXCEPT ![pusher] = @ \o <<resp, resp>>]
       /\ UNCHANGED server

\* redirectToClient, with the null pusher the end of the process.
RedirectToClient(resp) ==
  IF pusher = NoClient
  THEN server' = "gone" /\ UNCHANGED down
  ELSE /\ down' = [down EXCEPT ![pusher] = Append(@, resp)]
       /\ UNCHANGED server

\* authorizeByRequest up to the assignment, whose last part is ~PushQueue of
\* the old pusher: what its dispatch thread has not sent is lost.
AuthorizeByRequest ==
  /\ NextEvent({"AuthorizationWithName"})
  /\ pusher' = Head(events).from
  /\ hosts' = [c \in Clients |->
                 IF hosts[c] # {} \/ c = pusher'
                 THEN hosts[c] \cup {EndpointOf[pusher']} ELSE {}]
  /\ leaving' = pusher
  /\ server' = "replacing"
  /\ IF pusher = NoClient THEN UNCHANGED down
     ELSE \E rest \in Prefixes(down[pusher]) :
             down' = [down EXCEPT ![pusher] = rest]
  /\ UNCHANGED <<clientVars, sent, treeVars, awaits, lag, restarts>>

\* The old socket's context waits until the peer has all that was sent.
MayClose(d) == down[d] = <<>> \/ Bound(EndpointOf[d])

\* A mutant of AcceptAuthorization: the response is forgotten.
AcceptSilently ==
  /\ server = "replacing"
  /\ \A d \in {leaving} \ {NoClient} : MayClose(d)
  /\ server' = "running"
  /\ leaving' = NoClient
  /\ UNCHANGED <<clientVars, sent, events, treeVars, pusher, down, observers,
                 restarts>>

\* A mutant of AcceptAuthorization: who authorized first keeps the server.
AcceptAndForget ==
  /\ server = "replacing"
  /\ \A d \in {leaving} \ {NoClient} : MayClose(d)
  /\ server' = "running"
  /\ pusher' = IF leaving = NoClient THEN pusher ELSE leaving
  /\ leaving' = NoClient
  /\ down' = [down EXCEPT ![pusher] = Append(@, AuthorizationAccepted)]
  /\ UNCHANGED <<clientVars, sent, events, treeVars, observers, restarts>>

AcceptAuthorization ==
  /\ server = "replacing"
  /\ \A d \in {leaving} \ {NoClient} : MayClose(d)
  /\ server' = "running"
  /\ leaving' = NoClient
  /\ down' = [down EXCEPT ![pusher] = Append(@, AuthorizationAccepted)]
  /\ UNCHANGED <<clientVars, sent, events, treeVars, pusher, observers, restarts>>

\* A mutant of RedirectToCalcTree: an authorization may be taken for a command.
RedirectAllToCalcTree ==
  /\ NextEvent({"AuthorizationWithName", "Command", "CommandPrintTree"})
  /\ commands' = Append(commands, Head(events))
  /\ UNCHANGED <<clientVars, sent, open, worked, unasked, serverVars, down,
                 observers, restarts>>

RedirectToCalcTree ==
  /\ NextEvent({"Command", "CommandPrintTree"})
  /\ commands' = Append(commands, Head(events))
  /\ UNCHANGED <<clientVars, sent, open, worked, unasked, serverVars, down,
                 observers, restarts>>

HandleResponse ==
  /\ NextEvent({"Answer", "NodeIsDeadResponse"})
  /\ RedirectToClient(Head(events))
  /\ UNCHANGED <<clientVars, sent, treeVars, pusher, leaving, observers, restarts>>

\* What may be left of the path to client c when the server ends: nothing where
\* nobody reads, all of it if its PushQueue was closed before.
KeptOf(c) ==
  IF ~Bound(EndpointOf[c]) THEN {<<>>}
  ELSE IF c \in {pusher, leaving} THEN Prefixes(down[c])
  ELSE {down[c]}

\* The process ends, by a signal or over its null pusher, and is started again.
\* What the validator had taken is lost, the rest of a path to it is kept.
Restart ==
  /\ Ended < MaxEnds
  /\ restarts' = restarts + 1
  /\ \E rest \in [Clients -> UNION {Suffixes(sent[c]) : c \in Clients}] :
        /\ \A c \in Clients : rest[c] \in Suffixes(sent[c])
        /\ sent' = rest
  /\ \E rest \in [Clients -> UNION {Prefixes(down[c]) : c \in Clients}] :
        /\ \A c \in Clients : rest[c] \in KeptOf(c)
        /\ down' = rest
  /\ events' = <<>> /\ commands' = <<>> /\ open' = {} /\ worked' = FALSE
  /\ server' = "running" /\ pusher' = NoClient /\ leaving' = NoClient
  /\ UNCHANGED <<clientVars, observers, unasked>>

-----------------------------------------------------------------------------
(***************************************************************************)
(* The CalcTree thread.  print has no handler and is dropped.              *)
(***************************************************************************)
\* What the tree's taking cmd does to the observers, when n answers will come.
Expects(cmd, n) ==
  LET c == cmd.from
      unanswered == n = 0 /\ awaits[c] /\ asked[c] = cmd
  IN  /\ awaits' = [awaits EXCEPT ![c] = @ /\ ~unanswered]
      /\ lag' = [lag EXCEPT ![c] = IF unanswered THEN @ ELSE @ + n - 1]
      /\ hosts' = hosts

\* handleCommand; n is the number of answers that will come of it.
TreeHandles ==
  /\ server # "gone"
  /\ commands # <<>>
  /\ commands' = Tail(commands)
  /\ IF Head(commands).type = "Command"
     THEN /\ \E n \in 0..MaxAnswers :
               /\ unasked' = unasked + (IF n > 1 THEN n - 1 ELSE 0)
               /\ unasked' <= MaxUnasked
               /\ open' = open \cup {Answer(Head(commands), i) : i \in 1..n}
               /\ Expects(Head(commands), n)
          /\ worked' = TRUE
     ELSE UNCHANGED <<open, worked, unasked, observers>>
  /\ UNCHANGED <<clientVars, sent, events, serverVars, down, restarts>>

\* handleCommand itself, or handleResponse when the nodes' responses are there.
TreeAnswers ==
  \E answer \in open :
    /\ server # "gone"
    /\ open' = open \ {answer}
    /\ events' = Append(events, answer)
    /\ UNCHANGED <<clientVars, sent, commands, worked, unasked, serverVars,
                   down, observers, restarts>>

TreeReports ==
  /\ server # "gone"
  /\ worked /\ unasked < MaxUnasked
  /\ unasked' = unasked + 1
  /\ events' = Append(events, NodeIsDeadResponse)
  /\ UNCHANGED <<clientVars, sent, commands, open, worked, serverVars, down,
                 observers, restarts>>

-----------------------------------------------------------------------------
User == \E c \in Clients :
  Start(c) \/ StartFails(c) \/ TypeLine(c) \/ Pass(c) \/ End(c)

Server == AuthorizeByRequest \/ AcceptAuthorization \/ RedirectToCalcTree
            \/ HandleResponse

Next ==
  \/ User
  \/ \E c \in Clients :
        \/ WaitTillAuthAccepted(c) \/ TakeAnswer(c) \/ TakeInPass(c)
        \/ PassEnds(c) \/ Forward(c)
  \/ Server \/ Restart
  \/ TreeHandles \/ TreeAnswers \/ TreeReports

\* Threads go on; nobody has to type, start, end, or die.
Fairness ==
  /\ \A c \in Clients :
        /\ WF_vars(WaitTillAuthAccepted(c)) /\ WF_vars(TakeAnswer(c))
        /\ WF_vars(PassEnds(c)) /\ WF_vars(Forward(c))
  /\ WF_vars(Server) /\ WF_vars(TreeHandles) /\ WF_vars(TreeAnswers)

Spec == Init /\ [][Next]_vars /\ Fairness

-----------------------------------------------------------------------------
TypeOK ==
  /\ pc \in [Clients ->
       {"off", "connecting", "prompt", "waiting", "passing", "gone"}]
  /\ asked \in [Clients -> Lines]
  /\ took \in [Clients -> {Nothing} \cup
       [type : {"waiting", "passing"}, lag : Int, msg : Responses]]
  /\ awaits \in [Clients -> BOOLEAN] /\ lag \in [Clients -> Int]
  /\ hosts \in [Clients -> SUBSET Endpoints]
  /\ sent \in [Clients -> Seq(Requests)]
  /\ events \in Seq(Requests \cup Responses)
  /\ commands \in Seq(Lines)
  /\ open \in SUBSET Answers
  /\ worked \in BOOLEAN
  /\ unasked \in Nat /\ restarts \in Nat
  /\ server \in {"running", "replacing", "gone"}
  /\ pusher \in Clients \cup {NoClient}
  /\ leaving \in Clients \cup {NoClient}
  /\ server = "replacing" => pusher # NoClient
  /\ down \in [Clients -> Seq(Responses)]

\* Nothing is redirected to a client before one has authorized: only a server
\* that was started anew under clients that go on typing has a null pusher when
\* a response comes (Server::redirectToClient).
OnlyARestartBreaksIt == server = "gone" => restarts > 0

\* A client in step displays, for a command, an answer to that command.  What gets
\* it out of step are messages that nobody asked for, taken in a wait for an answer
\* (Client::waitAndPullRespFromQueue), and second answers; an answer taken where none
\* is waited for brings it back, and nothing else changes its step.
AnswersInStep ==
  \A c \in Clients :
    /\ lag[c] >= 0
    /\ /\ took[c].type = "waiting" /\ took[c].lag = 0
       /\ asked[c].type = "Command" /\ IsOwnAnswer(c, took[c].msg)
       => took[c].msg.line = asked[c].line

\* The answer to a command is displayed only on hosts whose clients authorized when
\* the one that asked did, or later, but never on one that it took the server from
\* (Server::authorizeByRequest replaces the pusher).  A server that lost the
\* authorization in a restart knows no such order.
AnswersGoForward ==
  \A c \in Clients :
    took[c].type # "Nothing" /\ took[c].msg.type = "Answer"
    => LET asker == took[c].msg.from
       IN  EndpointOf[c] \in hosts[asker] \/ (hosts[asker] = {} /\ restarts > 0)

\* Some client of another host was started, and may have taken the server over.
Overtaken(c) ==
  \E d \in Clients : pc[d] # "off" /\ EndpointOf[d] # EndpointOf[c]

\* A client that connects is accepted in the end, whatever is left of clients
\* before it on its host (Client::waitTillAuthAccepted).
ConnectingEnds ==
  \A c \in Clients :
    pc[c] = "connecting"
    ~> pc[c] # "connecting" \/ Overtaken(c) \/ restarts > 0

\* A client that waits for an answer that the tree gives takes some response in the
\* end (Client::handle).
WaitEnds ==
  \A c \in Clients :
    /\ pc[c] = "waiting"
    /\ \E answer \in open \cup Range(events) :
         IsOwnAnswer(c, answer) /\ answer.line = asked[c].line
    ~> pc[c] # "waiting" \/ Overtaken(c) \/ restarts > 0
=============================================================================
