---------------------------- MODULE ClientsProofs ----------------------------
(***************************************************************************)
(* Theorems about the tree with the clients of Clients.tla: those who use  *)
(* an identifier once, those who ask for nodes under the root only, and    *)
(* those who keep the tree a chain, which implements TreeService.tla.      *)
(***************************************************************************)
EXTENDS Reports, CalcTreeProofs

-----------------------------------------------------------------------------
(***************************************************************************)
(* Clients that never ask twice for an identifier: the tags of answers and *)
(* of reports with the same identifier are the same process.               *)
(***************************************************************************)
FreshCreates ==
  \A i \in DOMAIN submitted : submitted[i].type = "CommandCreate" =>
    /\ submitted[i].newNodeId # 0
    /\ \A j \in DOMAIN submitted :
         /\ submitted[j].type = "CommandCreate"
         /\ submitted[j].newNodeId = submitted[i].newNodeId
         => i = j

IdsAreUnique ==
  \A p, q \in Forked \cup {Root} : nodeId[p] = nodeId[q] => p = q

FreshInv == FreshCreates /\ nodeId[Root] = 0 /\ IdsAreUnique

LEMMA FreshInit == Init => FreshInv
<1> SUFFICES ASSUME Init PROVE FreshInv
  OBVIOUS
<1>1. Forked = {} /\ submitted = <<>> /\ nodeId[Root] = 0
  BY DEF Init, Forked, Processes
<1>2. QED
  BY <1>1 DEF FreshInv, FreshCreates, IdsAreUnique

\* A create that is submitted has a new identifier.
LEMMA FreshSubmit ==
  ASSUME TypeOK, TypeOK', FreshCreates, NEW cmd \in Commands, IsFresh(cmd),
         Submit(cmd)
  PROVE  FreshCreates'
<1>1. PICK c : /\ submitted' = Append(submitted, c)
               /\ c.type = "CommandCreate" => c = cmd
  <2>1. CASE cmd.type = "CommandExec"
    <3>1. PICK c : /\ c = [cmd EXCEPT !.k = Len(submitted) + 1]
                   /\ submitted' = Append(submitted, c)
      BY <2>1 DEF Submit
    <3>2. c.type = "CommandExec"
      <4>1. cmd \in [type : {"CommandExec"}, nodeId : Nat, k : Nat]
        BY <2>1, ConstantsAssumption DEF CommandMsg, CommandPrintTree
      <4>2. QED
        BY <3>1, <4>1
    <3>3. QED
      BY <3>1, <3>2
  <2>2. CASE cmd.type # "CommandExec"
    BY <2>2 DEF Submit
  <2>3. QED
    BY <2>1, <2>2
<1>2. /\ submitted \in Seq(CommandMsg) /\ Len(submitted) \in Nat
      /\ DOMAIN submitted = 1..Len(submitted)
      /\ submitted' \in Seq(CommandMsg) /\ DOMAIN submitted' = 1..Len(submitted')
  BY LenProperties DEF TypeOK
<1>3. submitted \in Seq(CommandMsg \cup {c}) /\ c \in CommandMsg \cup {c}
  BY <1>2
<1>4. /\ Len(submitted') = Len(submitted) + 1
      /\ \A i \in 1..Len(submitted) : submitted'[i] = submitted[i]
      /\ submitted'[Len(submitted) + 1] = c
  BY <1>1, <1>3, AppendProperties
<1>5. \A i \in DOMAIN submitted' :
        \/ i \in DOMAIN submitted /\ submitted'[i] = submitted[i]
        \/ i = Len(submitted) + 1 /\ submitted'[i] = c
  BY <1>2, <1>4
<1>6. c.type = "CommandCreate" =>
        /\ c.newNodeId # 0
        /\ \A i \in DOMAIN submitted :
             submitted[i].type = "CommandCreate" =>
               submitted[i].newNodeId # c.newNodeId
  BY <1>1 DEF IsFresh
<1>7. QED
  BY <1>5, <1>6 DEF FreshCreates

\* The first and only node with an identifier is created by the first and only
\* create with it.
LEMMA FreshFork ==
  ASSUME TypeOK, TreeShape, CommandsAreSubmitted, HistoryKept, FreshInv,
         NEW tagged, NEW passed, Provenance(tagged, passed),
         NEW p \in Processes, CreateHere(p)
  PROVE  IdsAreUnique'
<1>0. PICK c : c = forked + 1
  OBVIOUS
<1>1. PICK m : m = Head(down[p])
  OBVIOUS
<1>2. /\ m.type = "CommandCreate" /\ m.parentId = nodeId[p]
      /\ phase[p] = "running" /\ down[p] # <<>>
      /\ forked' = c /\ c <= MaxPid
      /\ nodeId' = [nodeId EXCEPT ![c] = m.newNodeId]
  BY <1>0, <1>1, ConstantsAssumption
     DEF CreateHere, ReceivesCreateHere, Receives, TypeOK
<1>3. c \in Processes /\ Forked' = Forked \cup {c}
  BY <1>0, <1>2, ConstantsAssumption DEF TypeOK, Forked, Processes, Pids
<1>4. /\ p \in Forked \cup {Root} /\ m \in DownMsg /\ m \in Range(down[p])
      /\ m # KillSignal /\ m \in Range(submitted)
  BY <1>1, <1>2, CommandTaken DEF IsSubmitted
<1>5. Once(m)
  BY <1>2 DEF FreshInv, FreshCreates, Once
<1>6. <<p, m>> \notin passed
  <2>1. PICK i \in 1..Len(down[p]) : down[p][i] = m
    BY <1>4, TypedPaths, PlaceInRange
  <2>2. QED
    BY <1>4, <1>5, <2>1 DEF Provenance, PassedInv, TakenOnce
<1>7. ASSUME NEW d \in Forked \cup {Root} PROVE nodeId[d] # m.newNodeId
  <2>1. CASE d = Root
    BY <1>2, <1>4, <2>1 DEF FreshInv, FreshCreates, Range
  <2>2. CASE d \in Forked
    <3> SUFFICES ASSUME nodeId[d] = m.newNodeId PROVE FALSE
      OBVIOUS
    <3>1. PICK x : x = CommandCreate(nodeId[d], nodeId[parent[d]])
      OBVIOUS
    <3>2. <<parent[d], x>> \in passed /\ x \in Range(submitted)
      BY <2>2, <3>1
         DEF Provenance, CommandedBy, PassedInv, OnlySubmitted
    <3>3. x.type = "CommandCreate" /\ x.newNodeId = m.newNodeId
      BY <3>1 DEF CommandCreate
    <3>4. x = m
      BY <1>2, <1>4, <3>2, <3>3 DEF FreshInv, FreshCreates, Range
    <3>5. nodeId[parent[d]] = nodeId[p]
      BY <1>2, <3>1, <3>4 DEF CommandCreate
    <3>6. parent[d] = p
      BY <1>4, <2>2, <3>5, ParentIsThere DEF FreshInv, IdsAreUnique
    <3>7. QED
      BY <1>6, <3>2, <3>4, <3>6
  <2>3. QED
    BY <2>1, <2>2
<1>8. nodeId'[c] = m.newNodeId
  BY <1>2, <1>3 DEF TypeOK
<1>9. \A d \in Forked \cup {Root} : nodeId'[d] = nodeId[d]
  BY DEF HistoryKept
<1>10. \A d \in Forked' \cup {Root} : d = c \/ d \in Forked \cup {Root}
  BY <1>3
<1>11. QED
  BY <1>7, <1>8, <1>9, <1>10 DEF FreshInv, IdsAreUnique

LEMMA FreshStep ==
  ASSUME TypeOK, TreeShape, GenuineInv, TypeOK', ProvenanceInv, FreshInv,
         [FreshNext]_vars
  PROVE  FreshInv'
<1>1. PICK tagged, passed : Provenance(tagged, passed)
  BY DEF ProvenanceInv
<1>2. [Next]_vars
  BY DEF FreshNext, SubmitFresh, Next
<1>3. HistoryKept /\ CommandsAreSubmitted
  BY <1>2, HistoryLemma DEF GenuineInv
<1>4. nodeId'[Root] = 0
  BY <1>3 DEF FreshInv, HistoryKept
<1>5. CASE UNCHANGED <<forked, submitted>>
  <2>1. FreshCreates'
    BY <1>5 DEF FreshInv, FreshCreates
  <2>2. IdsAreUnique'
    BY <1>3, <1>5 DEF FreshInv, IdsAreUnique, HistoryKept, Forked
  <2>3. QED
    BY <1>4, <2>1, <2>2 DEF FreshInv
<1>6. ASSUME NEW cmd \in Commands, IsFresh(cmd), Submit(cmd) PROVE FreshInv'
  <2>1. FreshCreates'
    BY <1>6, FreshSubmit DEF FreshInv
  <2>2. IdsAreUnique'
    BY <1>3, <1>6 DEF FreshInv, IdsAreUnique, HistoryKept, Submit, Forked
  <2>3. QED
    BY <1>4, <2>1, <2>2 DEF FreshInv
<1>7. ASSUME NEW p \in Processes, CreateHere(p) PROVE FreshInv'
  <2>1. FreshCreates'
    BY <1>7 DEF FreshInv, FreshCreates, CreateHere
  <2>2. IdsAreUnique'
    BY <1>1, <1>3, <1>7, FreshFork
  <2>3. QED
    BY <1>4, <2>1, <2>2 DEF FreshInv
<1>8. ASSUME NEW p \in Processes, HandleCommand(p) PROVE FreshInv'
  BY <1>5, <1>7, <1>8, TakesCommand
<1>9. ASSUME NEW p \in Processes,
             \/ HandleKillSignal(p) \/ Exit(p) \/ Crash(p)
             \/ \E c \in Pids : HandleResponse(p, c) \/ EraseOverdue(p, c)
      PROVE  UNCHANGED <<forked, submitted>>
  BY <1>9 DEF HandleKillSignal, Exit, Crash, HandleResponse, AccountBadResp,
              AccountGoodResp, RedirectResponse, CloseRecordAndRedirectResp,
              RunOffTheEnd, EraseOverdue
<1>10. CASE UNCHANGED vars
  BY <1>5, <1>10 DEF vars
<1>11. QED
  BY <1>5, <1>6, <1>8, <1>9, <1>10
     DEF FreshNext, SubmitFresh, TreeNext, Processes

\* Clients that keep to new identifiers keep the identifiers of the nodes, all
\* that was ever forked included, apart.
THEOREM FreshInvariant == FreshSpec => [](FreshInv /\ TypeOK /\ ProvenanceInv)
<1>1. Init => FreshInv
  BY FreshInit
<1>2. [FreshNext]_vars => [Next]_vars
  BY DEF FreshNext, SubmitFresh, Next
<1>3. FreshSpec => Spec
  BY <1>2, PTL DEF FreshSpec, Spec
<1>4. /\ TypeOK /\ TreeShape /\ GenuineInv /\ TypeOK' /\ ProvenanceInv
      /\ FreshInv /\ [FreshNext]_vars
      => FreshInv'
  BY FreshStep
<1>5. QED
  BY <1>1, <1>3, <1>4, TypeCorrect, TreeShapeInvariant, GenuineInvariant,
     ProvenanceInvariant, PTL DEF FreshSpec

-----------------------------------------------------------------------------
(***************************************************************************)
(* What a node that was reported dead may still execute.                   *)
(***************************************************************************)

\* Nothing reaches a process whose death was reported but what was submitted
\* by the time of the report.
NoneAfter(asked, tagged, passed, path) ==
  /\ asked \in [1..Len(tagged[Root]) -> Nat]
  /\ \A i \in 1..Len(tagged[Root]) : IsDeath(tagged[Root][i][1]) =>
       \A m : /\ m.type = "CommandExec"
              /\ Reaches(passed, path, tagged[Root][i][2], m)
              => m.k \in 0..asked[i]

ReportsInv ==
  \E tagged, passed : /\ Provenance(tagged, passed)
                      /\ NoneAfter(askedBy, tagged, passed, down)

\* What reaches a process after a step was submitted.
LEMMA ReachedWasSubmitted ==
  ASSUME TypeOK', CommandsAreSubmitted', SubmittedInv',
         NEW tagged, NEW passed, Provenance(tagged, passed)',
         NEW c \in Processes, NEW m, m.type = "CommandExec",
         Reaches(passed, down', c, m)
  PROVE  m.k \in 0..Len(submitted')
<1>1. m \in Range(submitted')
  <2>1. CASE <<c, m>> \in passed
    BY <2>1 DEF Provenance, PassedInv, OnlySubmitted
  <2>2. CASE m \in Range(down'[c])
    <3>1. m # KillSignal
      BY DEF KillSignal
    <3>2. QED
      BY <2>2, <3>1 DEF CommandsAreSubmitted, On, IsSubmitted
  <2>3. QED
    BY <2>1, <2>2 DEF Reaches
<1>2. PICK i \in DOMAIN submitted' : submitted'[i] = m
  BY <1>1 DEF Range
<1>3. m.k = i
  BY <1>2 DEF SubmittedInv
<1>4. i \in 1..Len(submitted') /\ Len(submitted') \in Nat
  BY LenProperties DEF TypeOK
<1>5. QED
  BY <1>3, <1>4

\* What Observe notes: nothing is taken back, and a new answer comes when no
\* more than the commands of now were submitted.
LEMMA NoneAfterKept ==
  ASSUME TypeOK, TreeShape, HistoryKept,
         TypeOK', CommandsAreSubmitted', SubmittedInv', Observe,
         NEW tagged, NEW passed, NEW moreTagged, NEW morePassed, NEW new,
         Provenance(tagged, passed), NoneAfter(askedBy, tagged, passed, down),
         Provenance(moreTagged, morePassed)',
         DownStep(passed, morePassed), UpStep(tagged, moreTagged, new)
  PROVE  NoneAfter(askedBy, moreTagged, morePassed, down)'
<1>1. /\ Root \in Processes /\ tagged \in Paths(Tag) /\ moreTagged \in Paths(Tag)
      /\ Len(submitted') \in Nat
  BY LenProperties DEF Provenance, Tagged, TagsAgree, Processes, TypeOK
<1>2. /\ DOMAIN askedBy = 1..Len(tagged[Root])
      /\ \A i \in DOMAIN askedBy : askedBy[i] \in Nat
  BY DEF NoneAfter
<1>3. DOMAIN eventsList' = 1..Len(moreTagged[Root])
  BY <1>1, LenProperties DEF Provenance, Tagged, TagsAgree, Paths, eventsList
<1>4. /\ askedBy' \in [1..Len(moreTagged[Root]) -> Nat]
      /\ \A i \in 1..Len(moreTagged[Root]) :
           askedBy'[i] = IF i \in DOMAIN askedBy THEN askedBy[i]
                                                 ELSE Len(submitted')
  BY <1>1, <1>2, <1>3 DEF Observe
<1>5. ASSUME NEW i \in 1..Len(moreTagged[Root]), IsDeath(moreTagged[Root][i][1]),
             NEW m, m.type = "CommandExec",
             Reaches(morePassed, down', moreTagged[Root][i][2], m)
      PROVE  m.k \in 0..askedBy'[i]
  <2>1. CASE i \in DOMAIN askedBy
    <3>1. moreTagged[Root][i] = tagged[Root][i] /\ tagged[Root][i] \in On(tagged)
      BY <1>1, <1>2, <2>1, PlaceOnPath DEF UpStep, RootGrows
    <3>2. TrueTag(passed, tagged[Root][i])
      BY <3>1 DEF Provenance, TagsAreTrue
    <3>3. Reaches(passed, down, tagged[Root][i][2], m)
      BY <1>5, <3>1, <3>2 DEF TrueTag, DownStep
    <3>4. QED
      BY <1>2, <1>4, <1>5, <2>1, <3>1, <3>3 DEF NoneAfter
  <2>2. CASE i \notin DOMAIN askedBy
    <3>1. moreTagged[Root][i] \in On(moreTagged)
      BY <1>1, PlaceOnPath
    <3>2. moreTagged[Root][i][2] \in Processes
      <4>1. moreTagged[Root] \in Seq(Tag)
        BY <1>1 DEF Paths
      <4>2. moreTagged[Root][i] \in Tag
        BY <4>1, ElementOfSeq
      <4>3. QED
        BY <4>2 DEF Tag
    <3>3. m.k \in 0..Len(submitted')
      BY <1>5, <3>2, ReachedWasSubmitted
    <3>4. QED
      BY <1>4, <2>2, <3>3
  <2>3. QED
    BY <2>1, <2>2
<1>6. QED
  BY <1>4, <1>5 DEF NoneAfter

LEMMA ReportsStep ==
  ASSUME TypeOK, TreeShape, GenuineInv, KillInv, ProvenanceInv,
         TypeOK', GenuineInv', KillInv', ProvenanceInv',
         ReportsInv, [ReportsNext]_<<vars, askedBy>>
  PROVE  ReportsInv'
<1>1. PICK tagged, passed : /\ Provenance(tagged, passed)
                            /\ NoneAfter(askedBy, tagged, passed, down)
  BY DEF ReportsInv
<1>2. CASE UNCHANGED <<vars, askedBy>>
  <2>1. Provenance(tagged, passed)'
    <3>1. /\ Tagged(tagged, up)' /\ PassedInv(passed, down)' /\ CommandedBy(passed)'
      BY <1>1, <1>2
         DEF vars, Provenance, Tagged, TagsAgree, PassedInv, OnlySubmitted,
             FromTheParent, TakenOnce, Once, CommandedBy, Forked
    <3>2. TagsAreTrue(tagged, passed)'
      BY <1>1, <1>2 DEF vars, Provenance, TagsAreTrue, TrueTag, Forked, Children
    <3>3. QED
      BY <3>1, <3>2 DEF Provenance
  <2>2. NoneAfter(askedBy, tagged, passed, down)'
    BY <1>1, <1>2 DEF vars, NoneAfter
  <2>3. QED
    BY <2>1, <2>2 DEF ReportsInv
<1>3. CASE ReportsNext
  <2>1. [Next]_vars /\ Observe
    BY <1>3 DEF ReportsNext, FreshNext, SubmitFresh, Next
  <2>2. /\ HistoryKept /\ SubmittedInv /\ SubmittedInv' /\ CommandsAreSubmitted'
    BY <2>1, HistoryLemma DEF ProvenanceInv, GenuineInv
  <2>3. PICK moreTagged, new, morePassed :
          /\ DownStep(passed, morePassed)
          /\ UpStep(tagged, moreTagged, new)
          /\ \A x \in new : TrueTag(morePassed, x)'
    BY <1>1, <2>1, <2>2, ProvenanceStep
  <2>4. Provenance(moreTagged, morePassed)'
    BY <1>1, <2>1, <2>2, <2>3, ProvenanceKept
  <2>5. NoneAfter(askedBy, moreTagged, morePassed, down)'
    BY <1>1, <2>1, <2>2, <2>3, <2>4, NoneAfterKept
  <2>6. QED
    BY <2>4, <2>5 DEF ReportsInv
<1>4. QED
  BY <1>2, <1>3

LEMMA ReportsStart == ReportsInit => ReportsInv
<1> SUFFICES ASSUME ReportsInit PROVE ReportsInv
  OBVIOUS
<1>1. Init /\ askedBy = <<>> /\ up[Root] = <<>>
  BY DEF ReportsInit, Init, Processes
<1>2. PICK tagged, passed : Provenance(tagged, passed)
  BY <1>1, ProvenanceInit DEF ProvenanceInv
<1>3. Len(tagged[Root]) = 0
  BY <1>1, <1>2 DEF Provenance, Tagged, TagsAgree, Processes
<1>4. askedBy \in [1..0 -> Nat]
  BY <1>1
<1>5. NoneAfter(askedBy, tagged, passed, down)
  BY <1>3, <1>4 DEF NoneAfter
<1>6. QED
  BY <1>2, <1>5 DEF ReportsInv

\* A node that was reported dead executes nothing that was submitted after the
\* report, however long its process runs on and whatever is still on its path,
\* when clients use each identifier once.
THEOREM DeadStaysSilentTheorem == ReportsSpec => []DeadStaysSilent
<1>1. FreshInv /\ TypeOK /\ ReportsInv => DeadStaysSilent
  <2> SUFFICES ASSUME FreshInv, TypeOK, ReportsInv,
                      NEW i \in DOMAIN eventsList, NEW j \in DOMAIN eventsList,
                      eventsList[i].type = "NodeIsDeadResponse",
                      eventsList[j].type = "GoodExecResp",
                      eventsList[j].id = eventsList[i].id
               PROVE  eventsList[j].sum <= askedBy[i]
    BY DEF DeadStaysSilent
  <2>1. PICK tagged, passed : /\ Provenance(tagged, passed)
                              /\ NoneAfter(askedBy, tagged, passed, down)
    BY DEF ReportsInv
  <2>2. /\ tagged \in Paths(Tag) /\ Root \in Processes
        /\ Len(tagged[Root]) = Len(eventsList)
        /\ DOMAIN eventsList = 1..Len(eventsList)
        /\ \A n \in 1..Len(eventsList) : tagged[Root][n][1] = eventsList[n]
    BY <2>1, LenProperties
       DEF Provenance, Tagged, TagsAgree, TypeOK, eventsList, Processes
  <2>3. PICK x : x = tagged[Root][i]
    OBVIOUS
  <2>4. PICK y : y = tagged[Root][j]
    OBVIOUS
  <2>5. x \in On(tagged) /\ y \in On(tagged)
    BY <2>2, <2>3, <2>4, PlaceOnPath
  <2>6. TrueTag(passed, x) /\ TrueTag(passed, y)
    BY <2>1, <2>5 DEF Provenance, TagsAreTrue
  <2>7. x[1] = eventsList[i] /\ y[1] = eventsList[j]
    BY <2>2, <2>3, <2>4
  <2>8. /\ x[2] \in Forked /\ nodeId[x[2]] = eventsList[i].id
        /\ y[2] \in Forked /\ nodeId[y[2]] = eventsList[j].id
        /\ <<y[2], CommandExec(y[1].id, y[1].sum)>> \in passed
    BY <2>6, <2>7 DEF TrueTag, IsExecOk, IsDeath
  <2>9. x[2] = y[2]
    BY <2>8 DEF FreshInv, IdsAreUnique
  <2>10. eventsList[j].sum \in 0..askedBy[i] /\ askedBy[i] \in Nat
    <3>1. PICK m : m = CommandExec(y[1].id, y[1].sum)
      OBVIOUS
    <3>2. m.type = "CommandExec" /\ m.k = eventsList[j].sum
      BY <2>7, <3>1 DEF CommandExec
    <3>3. Reaches(passed, down, tagged[Root][i][2], m) /\ IsDeath(tagged[Root][i][1])
      BY <2>3, <2>7, <2>8, <2>9, <3>1 DEF Reaches, IsDeath
    <3>4. i \in 1..Len(tagged[Root])
      BY <2>2
    <3>5. QED
      BY <2>1, <3>2, <3>3, <3>4 DEF NoneAfter
  <2>11. QED
    BY <2>10
<1>2. [ReportsNext]_<<vars, askedBy>> => [FreshNext]_vars
  BY DEF ReportsNext, vars
<1>3. ReportsSpec => FreshSpec
  BY <1>2, PTL DEF ReportsSpec, ReportsInit, FreshSpec
<1>4. [FreshNext]_vars => [Next]_vars
  BY DEF FreshNext, SubmitFresh, Next
<1>5. FreshSpec => Spec
  BY <1>4, PTL DEF FreshSpec, Spec
<1>6. ReportsSpec => []ReportsInv
  <2>1. ReportsInit => ReportsInv
    BY ReportsStart
  <2>2. /\ TypeOK /\ TreeShape /\ GenuineInv /\ KillInv /\ ProvenanceInv
        /\ TypeOK' /\ GenuineInv' /\ KillInv' /\ ProvenanceInv'
        /\ ReportsInv /\ [ReportsNext]_<<vars, askedBy>>
        => ReportsInv'
    BY ReportsStep
  <2>3. QED
    BY <1>3, <1>5, <2>1, <2>2, TypeCorrect, TreeShapeInvariant,
       GenuineInvariant, KillInvariant, ProvenanceInvariant,
       PTL DEF ReportsSpec
<1>7. QED
  BY <1>1, <1>3, <1>6, FreshInvariant, PTL

-----------------------------------------------------------------------------
(***************************************************************************)
(* When findRecord finds a record: in a tree of depth one that loses no    *)
(* node.  A record carries no identity and is not told how many answers    *)
(* its command gets; what holds is a sum over all the open records of a    *)
(* type, which are good for at least as many responses as are due.         *)
(***************************************************************************)

-----------------------------------------------------------------------------
(***************************************************************************)
(* The messages of some types that are under way to or from the nodes.     *)
(***************************************************************************)
UnderWay(path, types) ==
  {x \in Pids \X Nat :
     x[2] \in 1..Len(path[x[1]]) /\ path[x[1]][x[2]].type \in types}

LEMMA UnderWayIsFinite ==
  ASSUME NEW S, NEW path \in Paths(S), NEW types
  PROVE  /\ IsFiniteSet(UnderWay(path, types))
         /\ Cardinality(UnderWay(path, types)) \in Nat
<1> DEFINE placesOf(c) == {c} \X (1..Len(path[c]))
           all == UNION {placesOf(c) : c \in Pids}
<1>1. IsFiniteSet(Pids)
  BY FS_Interval, ConstantsAssumption DEF Pids
<1>2. ASSUME NEW c \in Pids PROVE IsFiniteSet(placesOf(c))
  <2>1. Len(path[c]) \in Nat
    BY LenProperties DEF Paths, Processes
  <2>2. IsFiniteSet(1..Len(path[c]))
    BY <2>1, FS_Interval
  <2>3. IsFiniteSet({c})
    BY FS_Singleton
  <2>4. QED
    BY <2>2, <2>3, FS_Product
<1>3. IsFiniteSet({placesOf(c) : c \in Pids})
  <2> DEFINE g == [c \in Pids |-> placesOf(c)]
             T == {placesOf(c) : c \in Pids}
  <2>1. g \in Surjection(Pids, T)
    BY DEF Surjection
  <2> HIDE DEF g, T
  <2>2. IsFiniteSet(T)
    BY <1>1, <2>1, FS_Surjection
  <2>3. QED
    BY <2>2 DEF T
<1>4. IsFiniteSet(all)
  BY <1>2, <1>3, FS_UNION
<1>5. UnderWay(path, types) \subseteq all
  <2> SUFFICES ASSUME NEW x \in UnderWay(path, types) PROVE x \in all
    OBVIOUS
  <2>1. x[1] \in Pids /\ x = <<x[1], x[2]>> /\ x[2] \in 1..Len(path[x[1]])
    BY DEF UnderWay
  <2>2. x \in placesOf(x[1])
    BY <2>1
  <2>3. QED
    BY <2>1, <2>2
<1>6. QED
  BY <1>4, <1>5, FS_Subset, FS_CardinalityType

\* Only the paths of nodes count.
LEMMA UnderWayKept ==
  ASSUME NEW path, NEW path2, NEW types, \A c \in Pids : path2[c] = path[c]
  PROVE  UnderWay(path2, types) = UnderWay(path, types)
BY DEF UnderWay

\* A message that is taken is under way no more.
LEMMA UnderWayTaken ==
  ASSUME NEW S, NEW path \in Paths(S), NEW p \in Pids, path[p] # <<>>,
         NEW types
  PROVE  Cardinality(UnderWay(Consumed(path, p), types))
           + (IF Head(path[p]).type \in types THEN 1 ELSE 0)
           <= Cardinality(UnderWay(path, types))
<1>0. p \in Processes /\ Pids \subseteq Processes
  BY DEF Processes
<1>1. /\ Len(path[p]) \in Nat \ {0} /\ Head(path[p]) = path[p][1]
      /\ \A q \in Processes : Len(path[q]) \in Nat
      /\ \A q \in Processes :
           Len(Consumed(path, p)[q]) =
              IF q = p THEN Len(path[q]) - 1 ELSE Len(path[q])
      /\ \A q \in Processes : \A i \in 1..Len(Consumed(path, p)[q]) :
           Consumed(path, p)[q][i] =
              IF q = p THEN path[q][i + 1] ELSE path[q][i]
  BY <1>0, ConsumedPlaces
<1> DEFINE A == UnderWay(path, types)
           B == UnderWay(Consumed(path, p), types)
           f == [x \in B |-> IF x[1] = p THEN <<p, x[2] + 1>> ELSE x]
<1>2. ASSUME NEW x \in B
      PROVE  /\ x[1] \in Pids /\ x[2] \in Nat \ {0} /\ x = <<x[1], x[2]>>
             /\ f[x] = <<x[1], IF x[1] = p THEN x[2] + 1 ELSE x[2]>>
             /\ f[x] \in A \ {<<p, 1>>}
  <2>1. /\ x[1] \in Pids /\ x[2] \in Nat /\ x = <<x[1], x[2]>>
        /\ x[2] \in 1..Len(Consumed(path, p)[x[1]])
        /\ Consumed(path, p)[x[1]][x[2]].type \in types
    BY DEF UnderWay
  <2>2. CASE x[1] = p
    <3>1. /\ x[2] + 1 \in 1..Len(path[p]) /\ x[2] + 1 # 1 /\ x[2] + 1 \in Nat
          /\ path[p][x[2] + 1].type \in types
      BY <1>0, <1>1, <2>1, <2>2
    <3>2. f[x] = <<p, x[2] + 1>>
      BY <2>2
    <3>3. <<p, x[2] + 1>> \in A /\ <<p, x[2] + 1>> # <<p, 1>>
      BY <2>1, <2>2, <3>1 DEF UnderWay
    <3>4. x[2] \in Nat \ {0}
      BY <1>0, <1>1, <2>1
    <3>5. QED
      BY <2>1, <2>2, <3>2, <3>3, <3>4
  <2>3. CASE x[1] # p
    <3>1. /\ x[2] \in 1..Len(path[x[1]])
          /\ path[x[1]][x[2]].type \in types
      BY <1>0, <1>1, <2>1, <2>3
    <3>2. f[x] = x
      BY <2>3
    <3>3. <<x[1], x[2]>> \in A /\ <<x[1], x[2]>> # <<p, 1>>
      BY <2>1, <2>3, <3>1 DEF UnderWay
    <3>4. x[2] \in Nat \ {0}
      BY <1>0, <1>1, <2>1
    <3>5. QED
      BY <2>1, <2>3, <3>2, <3>3, <3>4
  <2>4. QED
    BY <2>2, <2>3
<1>3. ASSUME NEW x \in B, NEW y \in B, f[x] = f[y] PROVE x = y
  <2>1. /\ x = <<x[1], x[2]>> /\ y = <<y[1], y[2]>>
        /\ x[2] \in Nat /\ y[2] \in Nat
        /\ f[x] = <<x[1], IF x[1] = p THEN x[2] + 1 ELSE x[2]>>
        /\ f[y] = <<y[1], IF y[1] = p THEN y[2] + 1 ELSE y[2]>>
    BY <1>2
  <2>2. /\ x[1] = y[1]
        /\ (IF x[1] = p THEN x[2] + 1 ELSE x[2])
             = (IF y[1] = p THEN y[2] + 1 ELSE y[2])
    BY <1>3, <2>1
  <2>3. x[2] = y[2]
    BY <2>1, <2>2
  <2>4. QED
    BY <2>1, <2>2, <2>3
<1>4. f \in Injection(B, A \ {<<p, 1>>})
  <2>1. f \in [B -> A \ {<<p, 1>>}]
    BY <1>2
  <2>2. QED
    BY <1>3, <2>1 DEF Injection, IsInjective
<1>5. Head(path[p]).type \in types => <<p, 1>> \in A
  BY <1>1 DEF UnderWay
<1>6. IsFiniteSet(A) /\ Cardinality(A) \in Nat
  BY UnderWayIsFinite
<1> HIDE DEF A, B, f
<1>7. /\ IsFiniteSet(A \ {<<p, 1>>})
      /\ Cardinality(A \ {<<p, 1>>}) =
           IF <<p, 1>> \in A THEN Cardinality(A) - 1 ELSE Cardinality(A)
  BY <1>6, FS_RemoveElement
<1>8. /\ Cardinality(B) <= Cardinality(A \ {<<p, 1>>})
      /\ Cardinality(B) \in Nat
  BY <1>4, <1>7, FS_Injection, FS_CardinalityType
<1>9. Cardinality(B) + (IF Head(path[p]).type \in types THEN 1 ELSE 0)
        <= Cardinality(A)
  BY <1>5, <1>6, <1>7, <1>8
<1>10. QED
  BY <1>9 DEF A, B

\* A message that is pushed is one more, when it is one of a node.
LEMMA UnderWayPushed ==
  ASSUME NEW S, NEW path \in Paths(S), NEW p \in Processes, NEW m \in S,
         NEW types
  PROVE  Cardinality(UnderWay(redirectToAncestor(path, p, m), types))
           <= Cardinality(UnderWay(path, types))
                + (IF p \in Pids /\ m.type \in types THEN 1 ELSE 0)
<1> DEFINE A == UnderWay(path, types)
           B == UnderWay(redirectToAncestor(path, p, m), types)
           x == <<p, Len(path[p]) + 1>>
<1>0. Pids \subseteq Processes
  BY DEF Processes
<1>1. /\ \A q \in Processes : Len(path[q]) \in Nat
      /\ \A q \in Processes :
           Len(redirectToAncestor(path, p, m)[q]) =
              IF q = p THEN Len(path[q]) + 1 ELSE Len(path[q])
      /\ \A q \in Processes : \A i \in 1..Len(path[q]) :
           redirectToAncestor(path, p, m)[q][i] = path[q][i]
      /\ redirectToAncestor(path, p, m)[p][Len(path[p]) + 1] = m
  BY RedirectedPlaces
<1>2. ASSUME NEW y \in B
      PROVE  \/ y \in A
             \/ p \in Pids /\ m.type \in types /\ y = x
  <2>1. /\ y[1] \in Pids /\ y[2] \in Nat /\ y = <<y[1], y[2]>>
        /\ y[2] \in 1..Len(redirectToAncestor(path, p, m)[y[1]])
        /\ redirectToAncestor(path, p, m)[y[1]][y[2]].type \in types
    BY DEF UnderWay
  <2>2. CASE y[2] \in 1..Len(path[y[1]])
    <3>1. path[y[1]][y[2]].type \in types
      BY <1>0, <1>1, <2>1, <2>2
    <3>2. QED
      BY <2>1, <2>2, <3>1 DEF UnderWay
  <2>3. CASE y[2] \notin 1..Len(path[y[1]])
    <3>1. y[1] = p /\ y[2] = Len(path[p]) + 1
      BY <1>0, <1>1, <2>1, <2>3
    <3>2. QED
      BY <1>1, <2>1, <3>1
  <2>4. QED
    BY <2>2, <2>3
<1>3. IsFiniteSet(A) /\ Cardinality(A) \in Nat
  BY UnderWayIsFinite
<1> HIDE DEF A, B, x
<1>4. CASE p \in Pids /\ m.type \in types
  <2>1. /\ IsFiniteSet(A \cup {x})
        /\ Cardinality(A \cup {x}) <= Cardinality(A) + 1
    <3>1. /\ IsFiniteSet(A \cup {x})
          /\ Cardinality(A \cup {x}) =
               IF x \in A THEN Cardinality(A) ELSE Cardinality(A) + 1
      BY <1>3, FS_AddElement
    <3>2. QED
      BY <1>3, <3>1
  <2>2. B \subseteq A \cup {x}
    BY <1>2
  <2>3. Cardinality(B) <= Cardinality(A \cup {x}) /\ IsFiniteSet(B)
    BY <2>1, <2>2, FS_Subset
  <2>4. /\ Cardinality(B) \in Nat /\ Cardinality(A \cup {x}) \in Nat
    BY <2>1, <2>3, FS_CardinalityType
  <2>5. Cardinality(B) <= Cardinality(A) + 1
    BY <1>3, <2>1, <2>3, <2>4
  <2>6. QED
    BY <1>4, <2>5 DEF A, B
<1>5. CASE ~(p \in Pids /\ m.type \in types)
  <2>1. B \subseteq A
    BY <1>2, <1>5
  <2>2. Cardinality(B) <= Cardinality(A)
    BY <1>3, <2>1, FS_Subset
  <2>3. QED
    BY <1>3, <1>5, <2>2 DEF A, B
<1>6. QED
  BY <1>4, <1>5

\* A command that is broadcast is one more for each child.
LEMMA UnderWayRedirected ==
  ASSUME NEW S, NEW path \in Paths(S), NEW p \in Processes, NEW m \in S,
         NEW types, children[p] \in Seq(Pids)
  PROVE  Cardinality(UnderWay(redirectToNodes(path, p, m), types))
           <= Cardinality(UnderWay(path, types))
                + (IF m.type \in types THEN Len(children[p]) ELSE 0)
<1>0. PICK n : n = Len(children[p])
  OBVIOUS
<1> DEFINE A == UnderWay(path, types)
           B == UnderWay(redirectToNodes(path, p, m), types)
           f == [i \in 1..n |->
                   <<children[p][i], Len(path[children[p][i]]) + 1>>]
           N == {f[i] : i \in 1..n}
<1>1. /\ n \in Nat /\ DOMAIN children[p] = 1..n
      /\ Pids \subseteq Processes
  BY <1>0, LenProperties DEF Processes
<1>2. ASSUME NEW c \in Processes
      PROVE  /\ Len(path[c]) \in Nat
             /\ Len(redirectToNodes(path, p, m)[c]) =
                  IF c \in Children(p) THEN Len(path[c]) + 1 ELSE Len(path[c])
             /\ \A i \in 1..Len(path[c]) :
                  redirectToNodes(path, p, m)[c][i] = path[c][i]
             /\ c \in Children(p) =>
                  redirectToNodes(path, p, m)[c][Len(path[c]) + 1] = m
  <2>1. path[c] \in Seq(S) /\ Len(path[c]) \in Nat
    BY LenProperties DEF Paths
  <2>2. /\ Len(Append(path[c], m)) = Len(path[c]) + 1
        /\ \A i \in 1..Len(path[c]) : Append(path[c], m)[i] = path[c][i]
        /\ Append(path[c], m)[Len(path[c]) + 1] = m
    BY <2>1, AppendProperties
  <2>3. redirectToNodes(path, p, m)[c] =
          IF c \in Children(p) THEN Append(path[c], m) ELSE path[c]
    BY DEF redirectToNodes
  <2>4. QED
    BY <2>1, <2>2, <2>3
<1>3. ASSUME NEW y \in B
      PROVE  y \in A \/ (m.type \in types /\ y \in N)
  <2>1. /\ y[1] \in Pids /\ y[2] \in Nat /\ y = <<y[1], y[2]>>
        /\ y[2] \in 1..Len(redirectToNodes(path, p, m)[y[1]])
        /\ redirectToNodes(path, p, m)[y[1]][y[2]].type \in types
    BY DEF UnderWay
  <2>2. CASE y[2] \in 1..Len(path[y[1]])
    <3>1. path[y[1]][y[2]].type \in types
      BY <1>1, <1>2, <2>1, <2>2
    <3>2. QED
      BY <2>1, <2>2, <3>1 DEF UnderWay
  <2>3. CASE y[2] \notin 1..Len(path[y[1]])
    <3>1. y[1] \in Children(p) /\ y[2] = Len(path[y[1]]) + 1
      BY <1>1, <1>2, <2>1, <2>3
    <3>2. PICK i \in 1..n : children[p][i] = y[1]
      BY <1>1, <3>1 DEF Children, Range
    <3>3. m.type \in types
      BY <1>1, <1>2, <2>1, <3>1
    <3>4. f[i] = <<y[1], y[2]>>
      BY <3>1, <3>2
    <3>5. QED
      BY <2>1, <3>3, <3>4
  <2>4. QED
    BY <2>2, <2>3
<1>4. IsFiniteSet(A) /\ Cardinality(A) \in Nat
  BY UnderWayIsFinite
<1>5. /\ IsFiniteSet(1..n) /\ Cardinality(1..n) = n
  BY <1>1, FS_Interval
<1>6. f \in Surjection(1..n, N)
  BY DEF Surjection
<1> HIDE DEF A, B, f, N
<1>7. IsFiniteSet(N) /\ Cardinality(N) <= n
  BY <1>5, <1>6, FS_Surjection
<1>8. CASE m.type \in types
  <2>1. B \subseteq A \cup N
    BY <1>3
  <2>2. /\ IsFiniteSet(A \cup N)
        /\ Cardinality(A \cup N) =
             Cardinality(A) + Cardinality(N) - Cardinality(A \cap N)
    BY <1>4, <1>7, FS_Union
  <2>3. Cardinality(A \cap N) \in Nat /\ Cardinality(N) \in Nat
    BY <1>4, <1>7, FS_Intersection, FS_CardinalityType
  <2>4. Cardinality(B) <= Cardinality(A \cup N) /\ IsFiniteSet(B)
    BY <2>1, <2>2, FS_Subset
  <2>5. Cardinality(B) \in Nat
    BY <2>4, FS_CardinalityType
  <2>6. Cardinality(B) <= Cardinality(A) + n
    BY <1>1, <1>4, <1>7, <2>2, <2>3, <2>4, <2>5
  <2>7. QED
    BY <1>0, <1>8, <2>6 DEF A, B
<1>9. CASE m.type \notin types
  <2>1. B \subseteq A
    BY <1>3, <1>9
  <2>2. Cardinality(B) <= Cardinality(A)
    BY <1>4, <2>1, FS_Subset
  <2>3. QED
    BY <1>4, <1>9, <2>2 DEF A, B
<1>10. QED
  BY <1>8, <1>9

-----------------------------------------------------------------------------
(***************************************************************************)
(* The responses that the open records of a type are good for: a record    *)
(* that has been given r of n responses has a slot for each of r + 1 .. n, *)
(* and one that was given more than there are children has none.           *)
(***************************************************************************)
Slots(recs, type, n) ==
  {x \in Nat \X (1..n) :
     /\ x[1] \in 1..Len(recs)
     /\ recs[x[1]].type = type
     /\ recs[x[1]].recievedResponses < x[2]}

LEMMA SlotsAreFinite ==
  ASSUME NEW recs \in Seq(RecordSet), NEW type, NEW n \in Nat
  PROVE  /\ IsFiniteSet(Slots(recs, type, n))
         /\ Cardinality(Slots(recs, type, n)) \in Nat
<1>1. Len(recs) \in Nat
  BY LenProperties
<1>2. IsFiniteSet(1..Len(recs)) /\ IsFiniteSet(1..n)
  <2>1. IsFiniteSet(1..n)
    BY FS_Interval
  <2>2. IsFiniteSet(1..Len(recs))
    BY <1>1, FS_Interval
  <2>3. QED
    BY <2>1, <2>2
<1>3. IsFiniteSet((1..Len(recs)) \X (1..n))
  BY <1>2, FS_Product
<1>4. Slots(recs, type, n) \subseteq (1..Len(recs)) \X (1..n)
  BY DEF Slots
<1>5. IsFiniteSet(Slots(recs, type, n))
  BY <1>3, <1>4, FS_Subset
<1>6. QED
  BY <1>5, FS_CardinalityType

\* Records as the list has them.
LEMMA RecordAt ==
  ASSUME NEW recs \in Seq(RecordSet), NEW i \in 1..Len(recs)
  PROVE  recs[i] \in RecordSet /\ recs[i].recievedResponses \in Nat
<1>1. recs[i] \in RecordSet
  BY ElementOfSeq
<1>2. QED
  BY <1>1 DEF RecordSet

\* Whoever has a slot can be found.
LEMMA SlotIsFound ==
  ASSUME NEW recs \in Seq(RecordSet), NEW type, NEW n \in Nat,
         Cardinality(Slots(recs, type, n)) >= 1
  PROVE  ~RunsOffTheEnd(recs, type)
<1>1. Slots(recs, type, n) # {}
  <2>1. Cardinality({}) = 0
    BY FS_EmptySet
  <2>2. PICK slots : slots = Slots(recs, type, n)
    OBVIOUS
  <2>3. slots = {} => Cardinality(slots) = 0
    BY <2>1
  <2>4. QED
    BY <2>2, <2>3
<1>2. PICK x \in Slots(recs, type, n) : TRUE
  BY <1>1
<1>3. x[1] \in DOMAIN recs /\ recs[x[1]].type = type
  BY <1>2, LenProperties DEF Slots
<1>4. QED
  BY <1>3 DEF RunsOffTheEnd, RecordsOf

\* A new child is one more response for each record.
LEMMA SlotsGrow ==
  ASSUME NEW recs \in Seq(RecordSet), NEW type, NEW n \in Nat
  PROVE  Cardinality(Slots(recs, type, n))
           <= Cardinality(Slots(recs, type, n + 1))
<1>1. IsFiniteSet(Slots(recs, type, n + 1))
  BY SlotsAreFinite
<1>2. Slots(recs, type, n) \subseteq Slots(recs, type, n + 1)
  BY DEF Slots
<1>3. QED
  BY <1>1, <1>2, FS_Subset

\* A new record has a slot for each child.
LEMMA SlotsOfNewRecord ==
  ASSUME NEW recs \in Seq(RecordSet), NEW type, NEW n \in Nat,
         NEW new \in CommandType
  PROVE  Cardinality(Slots(recs, type, n)) + (IF new = type THEN n ELSE 0)
           <= Cardinality(Slots(Append(recs, CommandRecord(new)), type, n))
<1>0. CommandRecord(new) \in RecordSet /\ Len(recs) \in Nat
  BY LenProperties DEF CommandRecord, RecordSet
<1>1. PICK recs2 : recs2 = Append(recs, CommandRecord(new))
  OBVIOUS
<1>2. /\ recs2 \in Seq(RecordSet) /\ Len(recs2) = Len(recs) + 1
      /\ \A i \in 1..Len(recs) : recs2[i] = recs[i]
      /\ recs2[Len(recs) + 1] = CommandRecord(new)
  BY <1>0, <1>1, AppendProperties
<1> DEFINE A == Slots(recs, type, n)
           B == Slots(recs2, type, n)
           N == {Len(recs) + 1} \X (1..n)
<1>3. /\ IsFiniteSet(A) /\ Cardinality(A) \in Nat
      /\ IsFiniteSet(B) /\ Cardinality(B) \in Nat
  BY <1>2, SlotsAreFinite
<1>4. A \subseteq B
  BY <1>0, <1>2 DEF Slots
<1>5. IsFiniteSet(N) /\ Cardinality(N) = n
  <2>1. IsFiniteSet(1..n) /\ Cardinality(1..n) = n
    BY FS_Interval
  <2>2. IsFiniteSet({Len(recs) + 1}) /\ Cardinality({Len(recs) + 1}) = 1
    BY FS_Singleton
  <2>3. IsFiniteSet(N) /\ Cardinality(N) = 1 * n
    <3>1. PICK S, T : S = {Len(recs) + 1} /\ T = 1..n
      BY Zenon
    <3>2. /\ IsFiniteSet(S) /\ IsFiniteSet(T)
          /\ Cardinality(S) = 1 /\ Cardinality(T) = n
      BY <2>1, <2>2, <3>1, Zenon
    <3>3. IsFiniteSet(S \X T) /\ Cardinality(S \X T) = Cardinality(S) * Cardinality(T)
      BY <3>2, FS_Product, Zenon
    <3>4. QED
      BY <3>1, <3>2, <3>3, Zenon
  <2>4. QED
    BY <2>3
<1>6. CASE new = type
  <2>1. N \subseteq B
    BY <1>0, <1>2, <1>6 DEF Slots, CommandRecord
  <2>2. A \cap N = {}
    BY <1>0 DEF Slots
  <2> HIDE DEF A, B, N
  <2>3. /\ IsFiniteSet(A \cup N)
        /\ Cardinality(A \cup N) = Cardinality(A) + n
    <3>1. /\ IsFiniteSet(A \cup N)
          /\ Cardinality(A \cup N) =
               Cardinality(A) + Cardinality(N) - Cardinality(A \cap N)
      BY <1>3, <1>5, FS_Union
    <3>2. Cardinality(A \cap N) = 0
      BY <2>2, FS_EmptySet
    <3>3. QED
      BY <1>3, <1>5, <3>1, <3>2
  <2>4. A \cup N \subseteq B
    BY <1>4, <2>1
  <2>5. Cardinality(A \cup N) <= Cardinality(B)
    BY <1>3, <2>4, FS_Subset
  <2>6. Cardinality(A) + n <= Cardinality(B)
    BY <2>3, <2>5
  <2>7. QED
    BY <1>1, <1>6, <2>6 DEF A, B
<1>7. CASE new # type
  <2> HIDE DEF A, B
  <2>1. Cardinality(A) <= Cardinality(B)
    BY <1>3, <1>4, FS_Subset
  <2>2. QED
    BY <1>1, <1>3, <1>7, <2>1 DEF A, B
<1>8. QED
  BY <1>6, <1>7

\* A response that a record is given takes one of its slots, if it has any.
LEMMA SlotTaken ==
  ASSUME NEW recs \in Seq(RecordSet), NEW type, NEW n \in Nat,
         NEW i \in 1..Len(recs), NEW r \in RecordSet, r.type = recs[i].type,
         r.recievedResponses = recs[i].recievedResponses + 1
  PROVE  Cardinality(Slots(recs, type, n))
           <= Cardinality(Slots([recs EXCEPT ![i] = r], type, n))
                + (IF recs[i].type = type THEN 1 ELSE 0)
<1>1. PICK recs2 : recs2 = [recs EXCEPT ![i] = r]
  OBVIOUS
<1>2. /\ recs2 \in Seq(RecordSet) /\ Len(recs2) = Len(recs)
      /\ \A j \in 1..Len(recs) : recs2[j] = IF j = i THEN r ELSE recs[j]
  BY <1>1, ExceptSeq, LenProperties
<1>3. r.recievedResponses \in Nat /\ recs[i].recievedResponses \in Nat
  BY RecordAt DEF RecordSet
<1> DEFINE A == Slots(recs, type, n)
           B == Slots(recs2, type, n)
           x == <<i, r.recievedResponses>>
<1>4. ASSUME NEW y \in A
      PROVE  y \in B \/ (y = x /\ recs[i].type = type)
  <2>1. /\ y[1] \in 1..Len(recs) /\ y[2] \in 1..n /\ y = <<y[1], y[2]>>
        /\ y[1] \in Nat
        /\ recs[y[1]].type = type /\ recs[y[1]].recievedResponses < y[2]
    BY DEF Slots
  <2>2. CASE y[1] = i
    <3>1. y[2] = r.recievedResponses \/ r.recievedResponses < y[2]
      BY <1>3, <2>1, <2>2
    <3>2. recs2[y[1]] = r /\ r.type = type
      BY <1>2, <2>1, <2>2
    <3>3. QED
      BY <1>2, <2>1, <2>2, <3>1, <3>2 DEF Slots
  <2>3. CASE y[1] # i
    <3>1. recs2[y[1]] = recs[y[1]]
      BY <1>2, <2>1, <2>3
    <3>2. QED
      BY <1>2, <2>1, <3>1 DEF Slots
  <2>4. QED
    BY <2>2, <2>3
<1>5. IsFiniteSet(B) /\ Cardinality(B) \in Nat
  BY <1>2, SlotsAreFinite
<1>6. Cardinality(A) \in Nat
  BY SlotsAreFinite
<1> HIDE DEF A, B, x
<1>7. CASE recs[i].type = type
  <2>1. /\ IsFiniteSet(B \cup {x})
        /\ Cardinality(B \cup {x}) =
             IF x \in B THEN Cardinality(B) ELSE Cardinality(B) + 1
    BY <1>5, FS_AddElement
  <2>2. A \subseteq B \cup {x}
    BY <1>4
  <2>3. Cardinality(A) <= Cardinality(B \cup {x})
    BY <2>1, <2>2, FS_Subset
  <2>4. Cardinality(A) <= Cardinality(B) + 1
    BY <1>5, <1>6, <2>1, <2>3
  <2>5. QED
    BY <1>1, <1>7, <2>4 DEF A, B
<1>8. CASE recs[i].type # type
  <2>1. A \subseteq B
    BY <1>4, <1>8
  <2>2. Cardinality(A) <= Cardinality(B)
    BY <1>5, <2>1, FS_Subset
  <2>3. QED
    BY <1>1, <1>5, <1>8, <2>2 DEF A, B
<1>9. QED
  BY <1>7, <1>8

\* A record that is closed with its last response had one slot left.
LEMMA SlotClosed ==
  ASSUME NEW recs \in Seq(RecordSet), NEW type, NEW n \in Nat,
         NEW i \in 1..Len(recs), recs[i].recievedResponses + 1 = n
  PROVE  Cardinality(Slots(recs, type, n))
           <= Cardinality(Slots(RemoveAt(recs, i), type, n))
                + (IF recs[i].type = type THEN 1 ELSE 0)
<1>1. PICK recs2 : recs2 = RemoveAt(recs, i)
  OBVIOUS
<1>2. /\ recs2 \in Seq(RecordSet) /\ Len(recs2) = Len(recs) - 1
      /\ \A j \in 1..(Len(recs) - 1) :
            recs2[j] = IF j < i THEN recs[j] ELSE recs[j + 1]
  BY <1>1, RemoveAtProperties
<1>3. recs[i].recievedResponses \in Nat /\ Len(recs) \in Nat
  BY RecordAt, LenProperties
<1> DEFINE A == Slots(recs, type, n)
           B == Slots(recs2, type, n)
           x == <<i, n>>
           f == [y \in A \ {x} |->
                   <<IF y[1] < i THEN y[1] ELSE y[1] - 1, y[2]>>]
<1>4. ASSUME NEW y \in A
      PROVE  /\ y[1] \in 1..Len(recs) /\ y[2] \in 1..n /\ y = <<y[1], y[2]>>
             /\ recs[y[1]].type = type /\ recs[y[1]].recievedResponses < y[2]
             /\ y[1] = i => y = x /\ recs[i].type = type
  <2>1. /\ y[1] \in 1..Len(recs) /\ y[2] \in 1..n /\ y = <<y[1], y[2]>>
        /\ recs[y[1]].type = type /\ recs[y[1]].recievedResponses < y[2]
    BY DEF Slots
  <2>2. y[1] = i => y[2] = n
    BY <1>3, <2>1
  <2>3. QED
    BY <2>1, <2>2
<1>5. ASSUME NEW y \in A \ {x}
      PROVE  /\ y[1] \in Nat /\ y[1] # i
             /\ f[y] = <<IF y[1] < i THEN y[1] ELSE y[1] - 1, y[2]>>
             /\ f[y] \in B
  <2>1. y[1] \in 1..Len(recs) /\ y[1] # i /\ y[1] \in Nat /\ y[2] \in 1..n
    BY <1>3, <1>4
  <2>2. CASE y[1] < i
    <3>1. y[1] \in 1..Len(recs2) /\ y[1] \in 1..(Len(recs) - 1)
      BY <1>2, <1>3, <2>1, <2>2
    <3>2. recs2[y[1]] = recs[y[1]]
      BY <1>2, <2>2, <3>1
    <3>3. <<y[1], y[2]>> \in B
      BY <1>4, <2>1, <3>1, <3>2 DEF Slots
    <3>4. QED
      BY <2>1, <2>2, <3>3
  <2>3. CASE ~(y[1] < i)
    <3>1. /\ y[1] - 1 \in 1..Len(recs2) /\ y[1] - 1 \in Nat
          /\ ~(y[1] - 1 < i) /\ y[1] - 1 + 1 = y[1]
          /\ y[1] - 1 \in 1..(Len(recs) - 1)
      BY <1>2, <1>3, <2>1, <2>3
    <3>2. recs2[y[1] - 1] = recs[y[1]]
      BY <1>2, <3>1
    <3>3. <<y[1] - 1, y[2]>> \in B
      BY <1>4, <2>1, <3>1, <3>2 DEF Slots
    <3>4. QED
      BY <2>1, <2>3, <3>3
  <2>4. QED
    BY <2>2, <2>3
<1>6. ASSUME NEW y \in A \ {x}, NEW z \in A \ {x}, f[y] = f[z] PROVE y = z
  <2>1. /\ y = <<y[1], y[2]>> /\ z = <<z[1], z[2]>>
        /\ y[1] \in Nat /\ z[1] \in Nat /\ y[1] # i /\ z[1] # i
        /\ f[y] = <<IF y[1] < i THEN y[1] ELSE y[1] - 1, y[2]>>
        /\ f[z] = <<IF z[1] < i THEN z[1] ELSE z[1] - 1, z[2]>>
    <3>1. y = <<y[1], y[2]>> /\ z = <<z[1], z[2]>>
      BY <1>4
    <3>2. QED
      BY <1>5, <3>1
  <2>2. /\ y[2] = z[2]
        /\ (IF y[1] < i THEN y[1] ELSE y[1] - 1)
             = (IF z[1] < i THEN z[1] ELSE z[1] - 1)
    BY <1>6, <2>1
  <2>3. y[1] = z[1]
    BY <2>1, <2>2
  <2>4. QED
    BY <2>1, <2>2, <2>3
<1>7. f \in Injection(A \ {x}, B)
  <2>1. f \in [A \ {x} -> B]
    BY <1>5
  <2>2. QED
    BY <1>6, <2>1 DEF Injection, IsInjective
<1>8. IsFiniteSet(B) /\ Cardinality(B) \in Nat
  BY <1>2, SlotsAreFinite
<1>9. IsFiniteSet(A) /\ Cardinality(A) \in Nat
  BY SlotsAreFinite
<1>10. x \in A => recs[i].type = type
  BY <1>4
<1> HIDE DEF A, B, x, f
<1>11. Cardinality(A \ {x}) <= Cardinality(B)
  BY <1>7, <1>8, FS_Injection
<1>12. Cardinality(A \ {x}) =
         IF x \in A THEN Cardinality(A) - 1 ELSE Cardinality(A)
  BY <1>9, FS_RemoveElement
<1>13. Cardinality(A) <=
         Cardinality(B) + (IF recs[i].type = type THEN 1 ELSE 0)
  BY <1>8, <1>9, <1>10, <1>11, <1>12
<1>14. QED
  BY <1>1, <1>13 DEF A, B

\* Accounting a response takes one slot of its type at most.
LEMMA SlotsAccounted ==
  ASSUME NEW recs \in Seq(RecordSet), NEW type, NEW n \in Nat,
         NEW of, ~RunsOffTheEnd(recs, of),
         NEW recs2 \in {AccountBad(recs, of, n), AccountGood(recs, of, n)}
  PROVE  Cardinality(Slots(recs, type, n))
           <= Cardinality(Slots(recs2, type, n))
                + (IF of = type THEN 1 ELSE 0)
<1>1. PICK i : i = findRecord(recs, of)
  OBVIOUS
<1>2. i \in 1..Len(recs) /\ recs[i].type = of
  BY <1>1, FindRecordFinds
<1>3. recs[i] \in RecordSet /\ recs[i].recievedResponses \in Nat
  BY <1>2, RecordAt
<1>4. ASSUME NEW r \in {accountBadResp(recs[i]), accountGoodResp(recs[i])}
      PROVE  /\ r \in RecordSet /\ r.type = recs[i].type
             /\ r.recievedResponses = recs[i].recievedResponses + 1
  <2>1. r \in RecordSet
    BY <1>3, <1>4, AccountedIsRecord
  <2>2. /\ r.type = recs[i].type
        /\ r.recievedResponses = recs[i].recievedResponses + 1
    BY <1>3, <1>4 DEF accountBadResp, accountGoodResp, RecordSet
  <2>3. QED
    BY <2>1, <2>2
<1>5. PICK r \in {accountBadResp(recs[i]), accountGoodResp(recs[i])} :
        \/ recs2 = [recs EXCEPT ![i] = r]
        \/ recs2 = RemoveAt(recs, i) /\ r.recievedResponses = n
  BY <1>1 DEF AccountBad, AccountGood, recordIsBad, recordIsFull
<1>6. CASE recs2 = [recs EXCEPT ![i] = r]
  BY <1>2, <1>4, <1>6, SlotTaken
<1>7. CASE recs2 = RemoveAt(recs, i) /\ r.recievedResponses = n
  BY <1>2, <1>4, <1>7, SlotClosed
<1>8. QED
  BY <1>5, <1>6, <1>7

-----------------------------------------------------------------------------
(***************************************************************************)
(* A tree of depth one that loses no node.                                 *)
(***************************************************************************)
RootGoesOn == phase[Root] \in {"running", "gone"}

NodesRun ==
  \A c \in Forked : phase[c] = "running" /\ parent[c] = Root /\ c \in Children(Root)

NoGrandchildren == \A c \in Pids : children[c] = <<>>

NobodyIsKilled == \A p \in Processes : KillSignal \notin Range(down[p])

\* The root has creates under itself done, and passes on the others.
OthersCreates ==
  \A c \in Pids : \A m \in Range(down[c]) :
    m.type = "CommandCreate" => m.parentId # 0

NobodyExists ==
  \A c \in Pids : \A m \in Range(up[c]) : m.type # "NodeExistResponse"

StarShape ==
  /\ RootGoesOn
  /\ NodesRun
  /\ NoGrandchildren
  /\ NobodyIsKilled
  /\ OthersCreates
  /\ NobodyExists

\* Creates reach the list of the submitted as they are.
CreatesAreCommands ==
  \A m \in Range(submitted) : m.type = "CommandCreate" => m \in Commands

CommandTypes(type) ==
  IF type = "Exec" THEN {"CommandExec"} ELSE {"CommandCreate"}

AnswerTypes(type) ==
  IF type = "Exec" THEN {"GoodExecResp", "BadExecResp"}
  ELSE {"GoodCreateResp", "BadCreateResp"}

\* The responses of a type that the root will get, and those for which it has
\* a record.
Due(type) ==
  Cardinality(UnderWay(down, CommandTypes(type)))
    + Cardinality(UnderWay(up, AnswerTypes(type)))

Expected(type) == Cardinality(Slots(records[Root], type, Len(children[Root])))

Credit == \A type \in CommandType : Due(type) <= Expected(type)

RecordsInv ==
  CreatesAreCommands /\ StarShape /\ Credit /\ AlwaysFindsARecord

\* What is known of any tree of clients that use an identifier once.
TreeInv == TypeOK /\ TreeShape /\ GenuineInv /\ FreshInv

LEMMA NumbersTyped ==
  ASSUME TypeOK, NEW type
  PROVE  /\ Cardinality(UnderWay(down, CommandTypes(type))) \in Nat
         /\ Cardinality(UnderWay(up, AnswerTypes(type))) \in Nat
         /\ Due(type) \in Nat
         /\ Expected(type) \in Nat
         /\ Len(children[Root]) \in Nat
         /\ children[Root] \in Seq(Pids)
         /\ records[Root] \in Seq(RecordSet)
<1>1. /\ Cardinality(UnderWay(down, CommandTypes(type))) \in Nat
      /\ Cardinality(UnderWay(up, AnswerTypes(type))) \in Nat
  BY TypedPaths, UnderWayIsFinite
<1>2. /\ children[Root] \in Seq(Pids) /\ records[Root] \in Seq(RecordSet)
  BY DEF TypeOK, Processes
<1>3. Len(children[Root]) \in Nat
  BY <1>2, LenProperties
<1>4. Expected(type) \in Nat
  BY <1>2, <1>3, SlotsAreFinite DEF Expected
<1>5. QED
  BY <1>1, <1>2, <1>3, <1>4 DEF Due

LEMMA RecordsInit == Init => RecordsInv
<1> SUFFICES ASSUME Init PROVE RecordsInv
  OBVIOUS
<1>1. Forked = {} /\ Pids \subseteq Processes /\ Root \in Processes
  BY DEF Init, Forked, Processes
<1>2. \A p \in Processes : down[p] = <<>> /\ up[p] = <<>> /\ children[p] = <<>>
  BY DEF Init
<1>3. CreatesAreCommands
  BY DEF Init, CreatesAreCommands, Range
<1>4. \A p \in Processes : Range(down[p]) = {} /\ Range(up[p]) = {}
  BY <1>2 DEF Range
<1>5. StarShape
  BY <1>1, <1>2, <1>4
     DEF StarShape, RootGoesOn, NodesRun, NoGrandchildren, NobodyIsKilled,
         OthersCreates, NobodyExists, Init
<1>6. ASSUME NEW type \in CommandType PROVE Due(type) <= Expected(type)
  <2>1. \A c \in Pids : Len(down[c]) = 0 /\ Len(up[c]) = 0
    BY <1>1, <1>2, EmptySeq
  <2>2. /\ UnderWay(down, CommandTypes(type)) = {}
        /\ UnderWay(up, AnswerTypes(type)) = {}
    BY <2>1 DEF UnderWay
  <2>3. Due(type) = 0
    BY <2>2, FS_EmptySet DEF Due
  <2>4. Expected(type) \in Nat
    BY TypedInit, NumbersTyped
  <2>5. QED
    BY <2>3, <2>4
<1>7. AlwaysFindsARecord
  BY DEF Init, AlwaysFindsARecord
<1>8. QED
  BY <1>3, <1>5, <1>6, <1>7 DEF RecordsInv, Credit

\* A step that changes nobody's place in the tree.
LEMMA StarShapeKept ==
  ASSUME StarShape, UNCHANGED <<forked, phase, parent, children>>,
         \A p \in Processes :
           KillSignal \in Range(down'[p]) => KillSignal \in Range(down[p]),
         \A c \in Pids : \A m \in Range(down'[c]) :
           \/ m \in Range(down[c])
           \/ m.type = "CommandCreate" => m.parentId # 0,
         \A c \in Pids : \A m \in Range(up'[c]) :
           m \in Range(up[c]) \/ m.type # "NodeExistResponse"
  PROVE  StarShape'
<1>1. RootGoesOn'
  BY DEF StarShape, RootGoesOn
<1>2. NodesRun'
  BY DEF StarShape, NodesRun, Forked, Children
<1>3. NoGrandchildren'
  BY DEF StarShape, NoGrandchildren
<1>4. NobodyIsKilled' /\ OthersCreates' /\ NobodyExists'
  BY DEF StarShape, NobodyIsKilled, OthersCreates, NobodyExists
<1>5. QED
  BY <1>1, <1>2, <1>3, <1>4 DEF StarShape

-----------------------------------------------------------------------------
(***************************************************************************)
(* The commands.                                                           *)
(***************************************************************************)

\* What a node takes is not for it, when it is a create.
LEMMA NodeTakes ==
  ASSUME OnlyUnderTheRoot, TreeInv, RecordsInv, NEW p \in Pids,
         phase[p] = "running", down[p] # <<>>
  PROVE  /\ Head(down[p]) \in DownMsg
         /\ Head(down[p]).type # "KillSignal"
         /\ Head(down[p]).type = "CommandCreate" =>
              /\ Head(down[p]).newNodeId # nodeId[p]
              /\ Head(down[p]).parentId # nodeId[p]
<1>0. PICK m : m = Head(down[p])
  OBVIOUS
<1>1. p \in Processes /\ p # Root
  BY ConstantsAssumption DEF Processes, Pids, Root
<1>2. m \in DownMsg /\ m \in Range(down[p])
  BY <1>0, <1>1, TypedPaths, ConsumedIsPath, ConsumedCarries DEF TreeInv
<1>3. m # KillSignal
  BY <1>1, <1>2 DEF RecordsInv, StarShape, NobodyIsKilled
<1>4. m.type # "KillSignal"
  BY <1>2, <1>3 DEF DownMsg, CommandMsg, CommandPrintTree, KillSignal
<1>5. ASSUME m.type = "CommandCreate"
      PROVE  m.newNodeId # nodeId[p] /\ m.parentId # nodeId[p]
  <2>1. m \in Range(submitted) /\ p \in Forked
    BY <1>0, <1>1, <1>4, CommandTaken DEF TreeInv, GenuineInv, IsSubmitted
  <2>2. PICK x : x = CommandCreate(nodeId[p], nodeId[parent[p]])
    OBVIOUS
  <2>3. x \in Range(submitted)
    BY <2>1, <2>2 DEF TreeInv, GenuineInv, TreeAsCommanded
  <2>4. nodeId[parent[p]] = 0
    BY <2>1 DEF RecordsInv, StarShape, NodesRun, TreeInv, FreshInv
  <2>5. x.type = "CommandCreate" /\ x.newNodeId = nodeId[p] /\ x.parentId = 0
    BY <2>2, <2>4 DEF CommandCreate
  <2>6. m.parentId # 0
    BY <1>2, <1>5 DEF RecordsInv, StarShape, OthersCreates
  <2>7. m.newNodeId # nodeId[p]
    <3>1. m.newNodeId = x.newNodeId => m = x
      BY <1>5, <2>1, <2>3, <2>5 DEF TreeInv, FreshInv, FreshCreates, Range
    <3>2. QED
      BY <2>5, <2>6, <3>1
  <2>8. m \in Commands /\ x \in Commands
    BY <1>5, <2>1, <2>3, <2>5 DEF RecordsInv, CreatesAreCommands
  <2>9. m.parentId # nodeId[p]
    BY <1>5, <2>5, <2>6, <2>8 DEF OnlyUnderTheRoot
  <2>10. QED
    BY <2>7, <2>9
<1>6. QED
  BY <1>0, <1>2, <1>4, <1>5

\* A node answers a command with one response of the command's type.
IsAnswer(r, m) ==
  /\ r \in ResponseMsg
  /\ r.type # "NodeExistResponse"
  /\ \A type \in CommandType :
       r.type \in AnswerTypes(type) => m.type \in CommandTypes(type)

LEMMA NodeAnswers ==
  ASSUME OnlyUnderTheRoot, TreeInv, RecordsInv, NEW p \in Pids,
         HandleCommand(p)
  PROVE  /\ down[p] # <<>>
         /\ down' = Consumed(down, p)
         /\ UNCHANGED <<forked, phase, parent, children, submitted, ranOff>>
         /\ records'[Root] = records[Root]
         /\ \/ up' = up
            \/ \E r : /\ IsAnswer(r, Head(down[p]))
                      /\ up' = redirectToAncestor(up, p, r)
<1>1. /\ phase[p] = "running" /\ down[p] # <<>>
      /\ p \in Processes /\ p # Root /\ Root \in Processes
  BY TakesCommand, ConstantsAssumption DEF Processes, Pids, Root
<1>2. PICK m : m = Head(down[p])
  OBVIOUS
<1>3. /\ m \in DownMsg
      /\ m.type = "CommandCreate" =>
           m.newNodeId # nodeId[p] /\ m.parentId # nodeId[p]
  BY <1>1, <1>2, NodeTakes
<1>4. CASE ExecuteHere(p)
  <2>1. PICK r : r = GoodExecResp(nodeId[p], m.k)
    OBVIOUS
  <2>2. m.type = "CommandExec" /\ m.k \in Nat /\ nodeId[p] \in Nat
    BY <1>1, <1>2, <1>3, <1>4, DownMsgFields
       DEF ExecuteHere, Receives, TreeInv, TypeOK
  <2>3. r \in ResponseMsg /\ r.type = "GoodExecResp"
    BY <2>1, <2>2, ResponseMsgs DEF GoodExecResp
  <2>4. IsAnswer(r, m)
    BY <2>2, <2>3 DEF IsAnswer, AnswerTypes, CommandTypes
  <2>5. QED
    BY <1>1, <1>2, <1>4, <2>1, <2>4 DEF ExecuteHere
<1>5. ASSUME NEW type \in CommandType, RedirectCommand(p, type),
             m.type \in {"CommandExec", "CommandCreate"}
      PROVE  /\ down' = Consumed(down, p)
             /\ UNCHANGED <<forked, phase, parent, children, submitted, ranOff>>
             /\ records'[Root] = records[Root]
             /\ \E r : IsAnswer(r, m) /\ up' = redirectToAncestor(up, p, r)
  <2>1. children[p] = <<>> /\ Children(p) = {}
    <3>1. children[p] = <<>>
      BY DEF RecordsInv, StarShape, NoGrandchildren
    <3>2. QED
      BY <3>1 DEF Children, Range
  <2>2. down' = Consumed(down, p)
    <3>1. Consumed(down, p) \in Paths(DownMsg)
      BY <1>1, TypedPaths, ConsumedIsPath DEF TreeInv
    <3>2. redirectToNodes(Consumed(down, p), p, m) = Consumed(down, p)
      BY <2>1, <3>1 DEF redirectToNodes, Paths
    <3>3. QED
      BY <1>2, <1>5, <3>2 DEF RedirectCommand
  <2>3. PICK r : r = handleDeadEnd(m)
    OBVIOUS
  <2>4. r \in ResponseMsg
    BY <1>3, <1>5, <2>3, DeadEndResponds
  <2>5. \/ r.type = "BadExecResp" /\ m.type = "CommandExec"
        \/ r.type = "BadCreateResp" /\ m.type = "CommandCreate"
    BY <1>5, <2>3 DEF handleDeadEnd, BadExecResp, BadCreateResp
  <2>6. IsAnswer(r, m)
    BY <2>4, <2>5 DEF IsAnswer, AnswerTypes, CommandTypes, CommandType
  <2>7. up' = redirectToAncestor(up, p, r)
    BY <1>2, <1>5, <2>1, <2>3 DEF RedirectCommand
  <2>8. records'[Root] = records[Root]
    BY <1>1, <1>5 DEF RedirectCommand, TreeInv, TypeOK
  <2>9. QED
    BY <1>5, <2>2, <2>6, <2>7, <2>8 DEF RedirectCommand
<1>6. CASE CreateElsewhere(p)
  BY <1>1, <1>2, <1>5, <1>6 DEF CreateElsewhere, Receives, CommandType
<1>7. CASE ExecElsewhere(p)
  BY <1>1, <1>2, <1>5, <1>7 DEF ExecElsewhere, Receives, CommandType
<1>8. CASE IgnoreCommand(p)
  BY <1>1, <1>8 DEF IgnoreCommand
<1>9. ~CreateNodeExists(p) /\ ~CreateHere(p) /\ ~CreateForkFails(p)
  BY <1>2, <1>3 DEF CreateNodeExists, CreateHere, CreateForkFails,
                    ReceivesCreateHere, Receives
<1>10. QED
  BY <1>4, <1>6, <1>7, <1>8, <1>9 DEF HandleCommand

\* One thing taken and one answered leave the sum of what is due.
LEMMA NodeHandles ==
  ASSUME OnlyUnderTheRoot, TreeInv, RecordsInv, NEW p \in Pids,
         HandleCommand(p)
  PROVE  RecordsInv'
<1>1. PICK m : m = Head(down[p])
  OBVIOUS
<1>2. /\ down[p] # <<>>
      /\ down' = Consumed(down, p)
      /\ UNCHANGED <<forked, phase, parent, children, submitted, ranOff>>
      /\ records'[Root] = records[Root]
      /\ up' = up \/ \E r : IsAnswer(r, m) /\ up' = redirectToAncestor(up, p, r)
  BY <1>1, NodeAnswers
<1>3. /\ p \in Processes /\ Pids \subseteq Processes
      /\ down \in Paths(DownMsg) /\ up \in Paths(ResponseMsg)
  BY TypedPaths DEF Processes, TreeInv
<1>4. \A q \in Processes : Range(down'[q]) \subseteq Range(down[q])
  BY <1>2, <1>3, ConsumedCarries
<1>5. \A c \in Pids : \A n \in Range(up'[c]) :
        n \in Range(up[c]) \/ n.type # "NodeExistResponse"
  <2>1. CASE up' = up
    BY <2>1
  <2>2. ASSUME NEW r, IsAnswer(r, m), up' = redirectToAncestor(up, p, r)
        PROVE  \A c \in Pids : Range(up'[c]) \subseteq Range(up[c]) \cup {r}
    <3>1. r \in ResponseMsg
      BY <2>2 DEF IsAnswer
    <3>2. \A c \in Pids : Range(redirectToAncestor(up, p, r)[c])
             \subseteq Range(up[c]) \cup (IF c = p THEN {r} ELSE {})
      BY <1>3, <3>1, RedirectedCarries
    <3>3. QED
      BY <2>2, <3>2
  <2>3. QED
    BY <1>2, <2>1, <2>2 DEF IsAnswer
<1>6. StarShape'
  BY <1>2, <1>3, <1>4, <1>5, StarShapeKept DEF RecordsInv
<1>7. ASSUME NEW type \in CommandType PROVE Due(type)' <= Expected(type)'
  <2>1. PICK C : C = CommandTypes(type)
    OBVIOUS
  <2>2. PICK A : A = AnswerTypes(type)
    OBVIOUS
  <2>3. /\ Cardinality(UnderWay(down, C)) \in Nat
        /\ Cardinality(UnderWay(down', C)) \in Nat
        /\ Cardinality(UnderWay(up, A)) \in Nat
        /\ Cardinality(UnderWay(up', A)) \in Nat
    <3>1. down' \in Paths(DownMsg)
      BY <1>2, <1>3, ConsumedIsPath
    <3>2. up' \in Paths(ResponseMsg)
      BY <1>2, <1>3, RedirectedIsPath DEF IsAnswer
    <3>3. QED
      BY <1>3, <3>1, <3>2, UnderWayIsFinite
  <2>4. Cardinality(UnderWay(down', C)) + (IF m.type \in C THEN 1 ELSE 0)
          <= Cardinality(UnderWay(down, C))
    BY <1>1, <1>2, <1>3, UnderWayTaken
  <2>5. Cardinality(UnderWay(up', A))
          <= Cardinality(UnderWay(up, A)) + (IF m.type \in C THEN 1 ELSE 0)
    <3>1. CASE up' = up
      BY <2>3, <3>1
    <3>2. ASSUME NEW r, IsAnswer(r, m), up' = redirectToAncestor(up, p, r)
          PROVE  Cardinality(UnderWay(up', A)) <=
                   Cardinality(UnderWay(up, A)) + (IF m.type \in C THEN 1 ELSE 0)
      <4>1. r \in ResponseMsg /\ (r.type \in A => m.type \in C)
        BY <2>1, <2>2, <3>2 DEF IsAnswer
      <4>2. Cardinality(UnderWay(redirectToAncestor(up, p, r), A))
              <= Cardinality(UnderWay(up, A))
                   + (IF p \in Pids /\ r.type \in A THEN 1 ELSE 0)
        BY <1>3, <4>1, UnderWayPushed
      <4>3. QED
        BY <2>3, <3>2, <4>1, <4>2
    <3>3. QED
      BY <1>2, <3>1, <3>2
  <2>6. Due(type)' <= Due(type)
    BY <2>1, <2>2, <2>3, <2>4, <2>5 DEF Due
  <2>7. Expected(type)' = Expected(type)
    BY <1>2 DEF Expected
  <2>8. Due(type) <= Expected(type)
    BY DEF RecordsInv, Credit
  <2>9. Due(type)' \in Nat /\ Due(type) \in Nat /\ Expected(type) \in Nat
    BY <2>1, <2>2, <2>3, NumbersTyped DEF Due, TreeInv
  <2>10. QED
    BY <2>6, <2>7, <2>8, <2>9
<1>8. CreatesAreCommands' /\ AlwaysFindsARecord'
  BY <1>2 DEF RecordsInv, CreatesAreCommands, AlwaysFindsARecord
<1>9. QED
  BY <1>6, <1>7, <1>8 DEF RecordsInv, Credit

\* What the root does to its own paths does not matter to the nodes.
LEMMA RootPathsKeep ==
  ASSUME TreeInv, NEW down2, NEW up2, NEW type,
         \A c \in Pids : down2[c] = down[c] /\ up2[c] = up[c]
  PROVE  Cardinality(UnderWay(down2, CommandTypes(type)))
           + Cardinality(UnderWay(up2, AnswerTypes(type))) = Due(type)
BY UnderWayKept DEF Due

\* A command that the root broadcasts comes with a record.
LEMMA RootRedirects ==
  ASSUME TreeInv, RecordsInv, NEW of \in CommandType, down[Root] # <<>>,
         Head(down[Root]).type \in CommandTypes(of),
         Head(down[Root]).type = "CommandCreate"
           => Head(down[Root]).parentId # 0,
         RedirectCommand(Root, of)
  PROVE  RecordsInv'
<1>1. PICK m : m = Head(down[Root])
  OBVIOUS
<1>2. PICK path : path = Consumed(down, Root)
  OBVIOUS
<1>3. /\ Root \in Processes /\ Pids \subseteq Processes
      /\ down \in Paths(DownMsg) /\ up \in Paths(ResponseMsg)
      /\ \A c \in Pids : c # Root
  BY TypedPaths, ConstantsAssumption DEF Processes, Pids, Root, TreeInv
<1>4. /\ path \in Paths(DownMsg) /\ m \in DownMsg
      /\ \A q \in Processes : Range(path[q]) \subseteq Range(down[q])
      /\ \A c \in Pids : path[c] = down[c]
  <2>1. path \in Paths(DownMsg) /\ m \in DownMsg
    BY <1>1, <1>2, <1>3, ConsumedIsPath
  <2>2. \A q \in Processes : Range(path[q]) \subseteq Range(down[q])
    BY <1>2, <1>3, ConsumedCarries
  <2>3. \A c \in Pids : path[c] = down[c]
    BY <1>2, <1>3 DEF Consumed, Paths
  <2>4. QED
    BY <2>1, <2>2, <2>3
<1>5. /\ down' = redirectToNodes(path, Root, m)
      /\ \A c \in Pids : up'[c] = up[c]
      /\ records' = [records EXCEPT ![Root] = Append(@, CommandRecord(of))]
      /\ UNCHANGED <<forked, phase, parent, children, submitted, ranOff>>
  <2>1. \A c \in Pids : up'[c] = up[c]
    BY <1>3 DEF RedirectCommand, redirectToAncestor, Paths
  <2>2. QED
    BY <1>1, <1>2, <2>1 DEF RedirectCommand
<1>6. m # KillSignal /\ (m.type = "CommandCreate" => m.parentId # 0)
  BY <1>1 DEF CommandTypes, KillSignal
<1>7. \A q \in Processes : Range(down'[q]) \subseteq Range(down[q]) \cup {m}
  <2>1. \A q \in Processes : Range(redirectToNodes(path, Root, m)[q])
          \subseteq Range(path[q]) \cup (IF q \in Children(Root) THEN {m} ELSE {})
    BY <1>3, <1>4, RedirectedCarries
  <2>2. QED
    BY <1>4, <1>5, <2>1
<1>8. StarShape'
  BY <1>3, <1>5, <1>6, <1>7, StarShapeKept DEF RecordsInv
<1>9. ASSUME NEW type \in CommandType PROVE Due(type)' <= Expected(type)'
  <2>1. PICK C : C = CommandTypes(type)
    OBVIOUS
  <2>2. PICK n : n = Len(children[Root])
    OBVIOUS
  <2>3. m.type \in C => of = type
    BY <1>1, <2>1 DEF CommandTypes, CommandType
  <2>4. /\ n \in Nat /\ Due(type) \in Nat /\ Expected(type) \in Nat
        /\ children[Root] \in Seq(Pids) /\ records[Root] \in Seq(RecordSet)
        /\ Cardinality(UnderWay(down, C)) \in Nat
        /\ Cardinality(UnderWay(up, AnswerTypes(type))) \in Nat
    BY <2>1, <2>2, NumbersTyped DEF TreeInv
  <2>5. Cardinality(UnderWay(down', C))
          <= Cardinality(UnderWay(down, C)) + (IF m.type \in C THEN n ELSE 0)
    <3>1. Cardinality(UnderWay(redirectToNodes(path, Root, m), C))
            <= Cardinality(UnderWay(path, C))
                 + (IF m.type \in C THEN Len(children[Root]) ELSE 0)
      BY <1>3, <1>4, <2>4, UnderWayRedirected
    <3>2. UnderWay(path, C) = UnderWay(down, C)
      BY <1>4, UnderWayKept
    <3>3. QED
      BY <1>5, <2>2, <3>1, <3>2
  <2>6. UnderWay(up', AnswerTypes(type)) = UnderWay(up, AnswerTypes(type))
    BY <1>5, UnderWayKept
  <2>7. Expected(type) + (IF of = type THEN n ELSE 0) <= Expected(type)'
    <3>1. /\ records'[Root] = Append(records[Root], CommandRecord(of))
          /\ Len(children'[Root]) = n
      BY <1>3, <1>5, <2>2 DEF TreeInv, TypeOK
    <3>2. Cardinality(Slots(records[Root], type, n))
             + (IF of = type THEN n ELSE 0)
            <= Cardinality(Slots(Append(records[Root], CommandRecord(of)), type, n))
      BY <2>4, SlotsOfNewRecord
    <3>3. QED
      BY <2>2, <3>1, <3>2 DEF Expected
  <2>8. Due(type) <= Expected(type)
    BY DEF RecordsInv, Credit
  <2>9. Cardinality(UnderWay(down', C)) \in Nat
    BY <1>3, <1>4, <1>5, RedirectedIsPath, UnderWayIsFinite
  <2>10. Expected(type)' \in Nat
    <3>1. Append(records[Root], CommandRecord(of)) \in Seq(RecordSet)
      BY <2>4 DEF CommandRecord, RecordSet
    <3>2. records'[Root] = Append(records[Root], CommandRecord(of))
      BY <1>3, <1>5 DEF TreeInv, TypeOK
    <3>3. QED
      BY <1>5, <2>2, <2>4, <3>1, <3>2, SlotsAreFinite DEF Expected
  <2>11. Due(type)' <= Due(type) + (IF m.type \in C THEN n ELSE 0)
    BY <2>1, <2>4, <2>5, <2>6, <2>9 DEF Due
  <2>12. Due(type)' \in Nat
    BY <2>1, <2>4, <2>6, <2>9 DEF Due
  <2>13. QED
    BY <2>3, <2>4, <2>7, <2>8, <2>10, <2>11, <2>12
<1>10. CreatesAreCommands' /\ AlwaysFindsARecord'
  BY <1>5 DEF RecordsInv, CreatesAreCommands, AlwaysFindsARecord
<1>11. QED
  BY <1>8, <1>9, <1>10 DEF RecordsInv, Credit

\* What the root does to its own paths, or with a new child, leaves the sum.
LEMMA CreditOfNodesKept ==
  ASSUME TreeInv, Credit,
         \A c \in Pids : down'[c] = down[c] /\ up'[c] = up[c],
         records'[Root] = records[Root],
         Len(children'[Root]) \in {Len(children[Root]), Len(children[Root]) + 1}
  PROVE  Credit'
<1> SUFFICES ASSUME NEW type \in CommandType PROVE Due(type)' <= Expected(type)'
  BY DEF Credit
<1>1. Due(type)' = Due(type)
  BY RootPathsKeep DEF Due
<1>2. PICK n : n = Len(children[Root])
  OBVIOUS
<1>3. /\ n \in Nat /\ Due(type) \in Nat /\ Expected(type) \in Nat
      /\ records[Root] \in Seq(RecordSet)
  BY <1>2, NumbersTyped DEF TreeInv
<1>4. PICK n2 : n2 = Len(children'[Root])
  OBVIOUS
<1>5. /\ Cardinality(Slots(records[Root], type, n))
            <= Cardinality(Slots(records[Root], type, n2))
      /\ Cardinality(Slots(records[Root], type, n2)) \in Nat
  <2>1. n2 \in {n, n + 1} /\ n2 \in Nat
    BY <1>2, <1>3, <1>4
  <2>2. Cardinality(Slots(records[Root], type, n2)) \in Nat
    BY <1>3, <2>1, SlotsAreFinite
  <2>3. Cardinality(Slots(records[Root], type, n))
          <= Cardinality(Slots(records[Root], type, n + 1))
    BY <1>3, SlotsGrow
  <2>4. CASE n2 = n
    BY <2>2, <2>4
  <2>5. CASE n2 = n + 1
    BY <2>2, <2>3, <2>5
  <2>6. QED
    BY <2>1, <2>4, <2>5
<1>6. Expected(type) = Cardinality(Slots(records[Root], type, n))
  BY <1>2 DEF Expected
<1>7. Expected(type)' = Cardinality(Slots(records[Root], type, n2))
  BY <1>4 DEF Expected
<1>8. Due(type) <= Expected(type)
  BY DEF Credit
<1>9. QED
  BY <1>1, <1>3, <1>5, <1>6, <1>7, <1>8

\* The root takes a command from its path and leaves the nodes alone.
LEMMA RootTakes ==
  ASSUME TreeInv, RecordsInv, down[Root] # <<>>,
         down' = Consumed(down, Root),
         \A c \in Pids : up'[c] = up[c]
  PROVE  /\ \A c \in Pids : down'[c] = down[c]
         /\ NobodyIsKilled' /\ OthersCreates' /\ NobodyExists'
<1>1. /\ Root \in Processes /\ down \in Paths(DownMsg)
      /\ \A c \in Pids : c # Root
  BY TypedPaths, ConstantsAssumption DEF Processes, Pids, Root, TreeInv
<1>2. \A c \in Pids : down'[c] = down[c]
  BY <1>1 DEF Consumed
<1>3. \A q \in Processes : Range(down'[q]) \subseteq Range(down[q])
  BY <1>1, ConsumedCarries
<1>4. QED
  BY <1>2, <1>3
     DEF RecordsInv, StarShape, NobodyIsKilled, OthersCreates, NobodyExists

LEMMA RootCreates ==
  ASSUME TreeInv, RecordsInv, CreateHere(Root)
  PROVE  RecordsInv'
<1>1. PICK c : c = forked + 1
  OBVIOUS
<1>2. /\ forked' = c /\ c <= MaxPid
      /\ phase' = [phase EXCEPT ![c] = "running"]
      /\ parent' = [parent EXCEPT ![c] = Root]
      /\ children' = [children EXCEPT ![Root] = Append(@, c)]
      /\ down[Root] # <<>> /\ down' = Consumed(down, Root)
      /\ UNCHANGED <<records, submitted, ranOff>>
  BY <1>1, ConstantsAssumption
     DEF CreateHere, ReceivesCreateHere, Receives, emplaceBack, TreeInv, TypeOK
<1>3. /\ c \in Pids /\ c \in Processes /\ Forked' = Forked \cup {c}
      /\ Pids \subseteq Processes /\ Root \in Processes
      /\ \A d \in Pids : d # Root
      /\ Forked \subseteq Pids
  <2>1. forked \in Nat /\ MaxPid \in Nat /\ c \in 1..MaxPid
    BY <1>1, <1>2, ConstantsAssumption DEF TreeInv, TypeOK
  <2>2. Forked' = Forked \cup {c}
    BY <1>1, <1>2, <2>1 DEF Forked
  <2>3. Forked \subseteq Pids
    BY ForkedAreProcesses DEF TreeInv
  <2>4. QED
    BY <2>1, <2>2, <2>3 DEF Processes, Pids, Root
<1>4. \A d \in Pids : up'[d] = up[d]
  BY <1>3 DEF CreateHere, redirectToAncestor, TreeInv, TypeOK
<1>5. /\ \A d \in Pids : down'[d] = down[d]
      /\ NobodyIsKilled' /\ OthersCreates' /\ NobodyExists'
  BY <1>2, <1>4, RootTakes
<1>6. /\ children[Root] \in Seq(Pids)
      /\ children'[Root] = Append(children[Root], c)
      /\ \A d \in Pids : children'[d] = children[d]
  BY <1>2, <1>3 DEF TreeInv, TypeOK
<1>7. /\ Len(children'[Root]) = Len(children[Root]) + 1
      /\ Len(children[Root]) \in Nat
      /\ \A i \in 1..Len(children[Root]) : children'[Root][i] = children[Root][i]
      /\ children'[Root][Len(children[Root]) + 1] = c
      /\ DOMAIN children[Root] = 1..Len(children[Root])
      /\ DOMAIN children'[Root] = 1..(Len(children[Root]) + 1)
  BY <1>3, <1>6, AppendProperties, LenProperties
<1>8. Children(Root) \cup {c} \subseteq Children(Root)'
  BY <1>7 DEF Children, Range
<1>9. NodesRun'
  <2>1. phase'[c] = "running" /\ parent'[c] = Root
    BY <1>2, <1>3 DEF TreeInv, TypeOK
  <2>2. \A d \in Forked : d # c => phase'[d] = phase[d] /\ parent'[d] = parent[d]
    BY <1>2, <1>3 DEF TreeInv, TypeOK
  <2>3. QED
    BY <1>3, <1>8, <2>1, <2>2 DEF RecordsInv, StarShape, NodesRun
<1>10. RootGoesOn' /\ NoGrandchildren'
  BY <1>2, <1>3, <1>6
     DEF RecordsInv, StarShape, RootGoesOn, NoGrandchildren, TreeInv, TypeOK
<1>11. Credit'
  BY <1>2, <1>4, <1>5, <1>7, CreditOfNodesKept DEF RecordsInv
<1>12. QED
  BY <1>2, <1>5, <1>9, <1>10, <1>11
     DEF RecordsInv, StarShape, CreatesAreCommands, AlwaysFindsARecord

LEMMA RootHandles ==
  ASSUME TreeInv, RecordsInv, HandleCommand(Root)
  PROVE  RecordsInv'
<1>1. /\ Root \in Processes /\ \A c \in Pids : c # Root /\ c \in Processes
      /\ up \in Paths(ResponseMsg)
  BY TypedPaths, ConstantsAssumption DEF Processes, Pids, Root, TreeInv
<1>2. nodeId[Root] = 0
  BY DEF TreeInv, FreshInv
<1>3. ASSUME down[Root] # <<>>, down' = Consumed(down, Root),
             \A c \in Pids : up'[c] = up[c],
             UNCHANGED <<forked, parent, children, records, submitted, ranOff>>,
             phase' = phase \/ phase' = [phase EXCEPT ![Root] = "gone"]
      PROVE  RecordsInv'
  <2>1. /\ \A c \in Pids : down'[c] = down[c]
        /\ NobodyIsKilled' /\ OthersCreates' /\ NobodyExists'
    BY <1>3, RootTakes
  <2>2. Credit'
    BY <1>3, <2>1, CreditOfNodesKept DEF RecordsInv
  <2>3. \A c \in Pids : phase'[c] = phase[c]
    BY <1>1, <1>3 DEF TreeInv, TypeOK
  <2>4. RootGoesOn'
    BY <1>1, <1>3 DEF RecordsInv, StarShape, RootGoesOn, TreeInv, TypeOK
  <2>5. NodesRun' /\ NoGrandchildren'
    <3>1. Forked \subseteq Pids
      BY ForkedAreProcesses DEF TreeInv
    <3>2. QED
      BY <1>3, <2>3, <3>1
         DEF RecordsInv, StarShape, NodesRun, NoGrandchildren, Forked, Children
  <2>6. QED
    BY <1>3, <2>1, <2>2, <2>4, <2>5
       DEF RecordsInv, StarShape, CreatesAreCommands, AlwaysFindsARecord
<1>4. CASE CreateNodeExists(Root)
  <2>1. \A c \in Pids : up'[c] = up[c]
    BY <1>1, <1>4 DEF CreateNodeExists, redirectToAncestor, Paths
  <2>2. QED
    BY <1>3, <1>4, <2>1 DEF CreateNodeExists, Receives
<1>5. CASE CreateForkFails(Root)
  <2>1. up' = up
    BY <1>5 DEF CreateForkFails, Dies
  <2>2. QED
    BY <1>3, <1>5, <2>1
       DEF CreateForkFails, ReceivesCreateHere, Receives, Dies
<1>6. CASE IgnoreCommand(Root)
  BY <1>3, <1>6 DEF IgnoreCommand, Receives
<1>7. CASE CreateElsewhere(Root)
  BY <1>2, <1>7, RootRedirects
     DEF CreateElsewhere, Receives, CommandType, CommandTypes
<1>8. CASE ExecElsewhere(Root)
  BY <1>8, RootRedirects
     DEF ExecElsewhere, Receives, CommandType, CommandTypes
<1>9. CASE ExecuteHere(Root)
  BY <1>9 DEF ExecuteHere, IsExecutor
<1>10. CASE CreateHere(Root)
  BY <1>10, RootCreates
<1>11. QED
  BY <1>4, <1>5, <1>6, <1>7, <1>8, <1>9, <1>10 DEF HandleCommand

-----------------------------------------------------------------------------
(***************************************************************************)
(* The responses.                                                          *)
(***************************************************************************)

\* A response that the root takes is one that it has a record for.
LEMMA RootAnswered ==
  ASSUME TreeInv, RecordsInv, NEW p \in Processes, NEW c \in Pids,
         HandleResponse(p, c)
  PROVE  RecordsInv'
<1>1. PICK m : m = Head(up[c])
  OBVIOUS
<1>2. /\ c \in Forked /\ parent[c] = p /\ up[c] # <<>>
      /\ UNCHANGED <<forked, parent, children, down, submitted>>
  BY DEF HandleResponse, AccountBadResp, AccountGoodResp, RedirectResponse,
         CloseRecordAndRedirectResp, RunOffTheEnd, Answers
<1>3. /\ p = Root /\ Root \in Processes /\ c \in Processes /\ c # Root
      /\ Pids \subseteq Processes /\ \A d \in Pids : d # Root
      /\ up \in Paths(ResponseMsg) /\ down \in Paths(DownMsg)
  <2>1. p = Root
    BY <1>2 DEF RecordsInv, StarShape, NodesRun
  <2>2. QED
    BY <2>1, TypedPaths, ConstantsAssumption
       DEF Processes, Pids, Root, TreeInv
<1>4. m \in ResponseMsg /\ m \in Range(up[c]) /\ m.type # "NodeExistResponse"
  <2>1. m \in ResponseMsg /\ m \in Range(up[c])
    BY <1>1, <1>2, <1>3, ConsumedIsPath, ConsumedCarries
  <2>2. QED
    BY <2>1 DEF RecordsInv, StarShape, NobodyExists
<1>5. PICK path : path = Consumed(up, c)
  OBVIOUS
<1>6. /\ path \in Paths(ResponseMsg)
      /\ \A q \in Processes : Range(path[q]) \subseteq Range(up[q])
      /\ \A d \in Pids : PassedOn(p, c)[d] = path[d]
  <2>1. path \in Paths(ResponseMsg)
    BY <1>2, <1>3, <1>5, ConsumedIsPath
  <2>2. \A q \in Processes : Range(path[q]) \subseteq Range(up[q])
    BY <1>2, <1>3, <1>5, ConsumedCarries
  <2>3. \A d \in Pids : PassedOn(p, c)[d] = path[d]
    BY <1>3, <1>5, <2>1 DEF PassedOn, redirectToAncestor, Paths
  <2>4. QED
    BY <2>1, <2>2, <2>3
<1>7. PICK of : of = RecordType(m)
  OBVIOUS
<1>8. of \in CommandType
  BY <1>7 DEF RecordType, CommandType
\* The sums, by what is left of them.
<1>9. ASSUME NEW type \in CommandType
      PROVE  /\ Cardinality(UnderWay(path, AnswerTypes(type)))
                  + (IF m.type \in AnswerTypes(type) THEN 1 ELSE 0)
                  <= Cardinality(UnderWay(up, AnswerTypes(type)))
             /\ Cardinality(UnderWay(path, AnswerTypes(type))) \in Nat
  BY <1>1, <1>2, <1>3, <1>5, <1>6, UnderWayTaken, UnderWayIsFinite
<1>10. ASSUME m.type \in AnswerTypes(of)
       PROVE  ~RunsOffTheEnd(records[Root], of)
  <2>1. /\ Cardinality(UnderWay(down, CommandTypes(of))) \in Nat
        /\ Cardinality(UnderWay(up, AnswerTypes(of))) \in Nat
        /\ Due(of) \in Nat /\ Expected(of) \in Nat
        /\ Len(children[Root]) \in Nat /\ records[Root] \in Seq(RecordSet)
    BY NumbersTyped DEF TreeInv
  <2>2. Cardinality(UnderWay(up, AnswerTypes(of))) >= 1
    BY <1>8, <1>9, <1>10, <2>1
  <2>3. Due(of) >= 1
    BY <2>1, <2>2 DEF Due
  <2>4. Due(of) <= Expected(of)
    BY <1>8 DEF RecordsInv, Credit
  <2>5. Expected(of) >= 1
    BY <2>1, <2>3, <2>4
  <2>6. QED
    BY <2>1, <2>5, SlotIsFound DEF Expected
<1>11. m.type \in {"GoodExecResp", "BadExecResp", "GoodCreateResp",
                   "BadCreateResp"}
         => /\ m.type \in AnswerTypes(of)
            /\ \A type \in CommandType : m.type \in AnswerTypes(type) <=> type = of
  BY <1>7 DEF RecordType, AnswerTypes, CommandType
<1>12. ~CloseRecordAndRedirectResp(p, c)
  BY <1>1, <1>4 DEF CloseRecordAndRedirectResp, Answers
<1>13. ~RunOffTheEnd(p, c)
  BY <1>1, <1>3, <1>4, <1>7, <1>10, <1>11 DEF RunOffTheEnd, Answers
<1>14. /\ UNCHANGED <<phase, ranOff>>
       /\ \A d \in Pids : up'[d] = path[d]
  BY <1>5, <1>6, <1>12, <1>13
     DEF HandleResponse, AccountBadResp, AccountGoodResp, RedirectResponse
<1>15. StarShape'
  <2>1. \A d \in Pids : Range(up'[d]) \subseteq Range(up[d])
    BY <1>3, <1>6, <1>14
  <2>2. QED
    BY <1>2, <1>3, <1>14, <2>1, StarShapeKept DEF RecordsInv
<1>16. \A type : /\ UnderWay(up', AnswerTypes(type)) = UnderWay(path, AnswerTypes(type))
                 /\ UnderWay(down', CommandTypes(type)) = UnderWay(down, CommandTypes(type))
  BY <1>2, <1>14, UnderWayKept
<1>17. ASSUME NEW type \in CommandType PROVE Due(type)' <= Expected(type)'
  <2>1. PICK n : n = Len(children[Root])
    OBVIOUS
  <2>2. PICK recs2 : recs2 = records'[Root]
    OBVIOUS
  <2>3. /\ Cardinality(UnderWay(down, CommandTypes(type))) \in Nat
        /\ Cardinality(UnderWay(up, AnswerTypes(type))) \in Nat
        /\ Due(type) \in Nat /\ Expected(type) \in Nat
        /\ n \in Nat /\ records[Root] \in Seq(RecordSet)
    BY <2>1, NumbersTyped DEF TreeInv
  <2>4. Due(type)' + (IF m.type \in AnswerTypes(type) THEN 1 ELSE 0) <= Due(type)
    BY <1>9, <1>16, <2>3 DEF Due
  <2>5. Due(type)' \in Nat
    BY <1>9, <1>16, <2>3 DEF Due
  <2>6. Due(type) <= Expected(type)
    BY DEF RecordsInv, Credit
  <2>7. CASE RedirectResponse(p, c)
    <3>1. Expected(type)' = Expected(type)
      BY <2>7 DEF RedirectResponse, Expected
    <3>2. QED
      BY <2>3, <2>4, <2>5, <2>6, <3>1
  <2>8. CASE AccountBadResp(p, c) \/ AccountGoodResp(p, c)
    <3>1. /\ m.type \in AnswerTypes(of)
          /\ m.type \in AnswerTypes(type) <=> type = of
      BY <1>1, <1>11, <2>8 DEF AccountBadResp, AccountGoodResp, Answers
    <3>2. recs2 \in {AccountBad(records[Root], of, n),
                     AccountGood(records[Root], of, n)}
      BY <1>1, <1>3, <1>7, <2>1, <2>2, <2>8
         DEF AccountBadResp, AccountGoodResp, TreeInv, TypeOK
    <3>3. Expected(type) = Cardinality(Slots(records[Root], type, n))
      BY <2>1 DEF Expected
    <3>4. Expected(type)' = Cardinality(Slots(recs2, type, n))
      BY <1>2, <2>1, <2>2 DEF Expected
    <3>5. ~RunsOffTheEnd(records[Root], of)
      BY <1>10, <3>1
    <3>6. Cardinality(Slots(records[Root], type, n))
            <= Cardinality(Slots(recs2, type, n)) + (IF of = type THEN 1 ELSE 0)
      BY <2>3, <3>2, <3>5, SlotsAccounted
    <3>7. Cardinality(Slots(recs2, type, n)) \in Nat
      BY <2>3, <3>2, <3>5, AccountingKeepsRecords, SlotsAreFinite
    <3>8. QED
      BY <2>3, <2>4, <2>5, <2>6, <3>1, <3>3, <3>4, <3>6, <3>7
  <2>9. QED
    BY <1>12, <1>13, <2>7, <2>8 DEF HandleResponse
<1>18. CreatesAreCommands' /\ AlwaysFindsARecord'
  BY <1>2, <1>14 DEF RecordsInv, CreatesAreCommands, AlwaysFindsARecord
<1>19. QED
  BY <1>15, <1>17, <1>18 DEF RecordsInv, Credit

-----------------------------------------------------------------------------
(***************************************************************************)
(* The client, and what does not happen in such a tree.                    *)
(***************************************************************************)
LEMMA RecordsSubmit ==
  ASSUME TreeInv, RecordsInv, NEW cmd \in Commands, Submit(cmd)
  PROVE  RecordsInv'
<1>1. PICK c : /\ submitted' = Append(submitted, c)
               /\ down' = redirectToAncestor(down, Root, c)
               /\ c = IF cmd.type = "CommandExec"
                      THEN [cmd EXCEPT !.k = Len(submitted) + 1] ELSE cmd
  BY DEF Submit, redirectToAncestor
<1>2. /\ UNCHANGED <<forked, phase, parent, children, records, up, ranOff>>
      /\ cmd \in CommandMsg
  BY ConstantsAssumption DEF Submit
<1>3. /\ submitted \in Seq(CommandMsg) /\ Len(submitted) \in Nat
      /\ Root \in Processes /\ down \in Paths(DownMsg)
      /\ \A d \in Pids : d # Root
  <2>1. submitted \in Seq(CommandMsg)
    BY DEF TreeInv, TypeOK
  <2>2. Len(submitted) \in Nat
    BY <2>1, LenProperties
  <2>3. down \in Paths(DownMsg)
    BY TypedPaths DEF TreeInv
  <2>4. QED
    BY <2>1, <2>2, <2>3, ConstantsAssumption DEF Processes, Pids, Root
<1>4. c \in CommandMsg /\ (c.type = "CommandCreate" => c = cmd)
  <2>1. CASE cmd.type = "CommandExec"
    <3>1. cmd \in [type : {"CommandExec"}, nodeId : Nat, k : Nat]
      BY <1>2, <2>1 DEF CommandMsg, CommandPrintTree
    <3>2. PICK n : n = Len(submitted) + 1
      OBVIOUS
    <3>3. n \in Nat
      BY <1>3, <3>2
    <3>4. c = [cmd EXCEPT !.k = n]
      BY <1>1, <2>1, <3>2
    <3>5. /\ c \in [type : {"CommandExec"}, nodeId : Nat, k : Nat]
          /\ c.type = "CommandExec"
      BY <3>1, <3>3, <3>4
    <3>6. QED
      BY <3>5 DEF CommandMsg
  <2>2. CASE cmd.type # "CommandExec"
    BY <1>1, <1>2, <2>2
  <2>3. QED
    BY <2>1, <2>2
<1>5. c \in DownMsg /\ c # KillSignal
  BY <1>4 DEF DownMsg, CommandMsg, CommandPrintTree, KillSignal
<1>6. \A d \in Pids : down'[d] = down[d]
  BY <1>1, <1>3 DEF redirectToAncestor
<1>7. \A q \in Processes : Range(down'[q]) \subseteq Range(down[q]) \cup {c}
  <2>1. \A q \in Processes : Range(redirectToAncestor(down, Root, c)[q])
          \subseteq Range(down[q]) \cup (IF q = Root THEN {c} ELSE {})
    BY <1>3, <1>5, RedirectedCarries
  <2>2. QED
    BY <1>1, <2>1
<1>8. StarShape'
  BY <1>2, <1>5, <1>6, <1>7, StarShapeKept DEF RecordsInv
<1>9. Credit'
  BY <1>2, <1>6, CreditOfNodesKept DEF RecordsInv
<1>10. CreatesAreCommands'
  <2>1. Range(submitted') \subseteq Range(submitted) \cup {c}
    BY <1>1, <1>3, <1>4, AppendCarries
  <2>2. QED
    BY <1>4, <2>1 DEF RecordsInv, CreatesAreCommands
<1>11. QED
  BY <1>2, <1>8, <1>9, <1>10 DEF RecordsInv, AlwaysFindsARecord

\* Every node is the only one with its identifier, and its heartbeats are heard.
LEMMA NobodyIsErased ==
  ASSUME NobodyIsLost, TreeInv, RecordsInv, NEW p \in Processes, NEW c \in Pids
  PROVE  ~EraseOverdue(p, c)
<1> SUFFICES ASSUME EraseOverdue(p, c) PROVE FALSE
  OBVIOUS
<1>1. PICK i \in DOMAIN children[p] : children[p][i] = c
  BY DEF EraseOverdue
<1>2. c \in Forked /\ parent[c] = p /\ phase[c] = "running"
  BY <1>1 DEF TreeInv, TreeShape, ListsAreOfChildren, RecordsInv, StarShape,
              NodesRun
<1>3. DOMAIN children[p] = 1..Len(children[p]) /\ Len(children[p]) \in Nat
  BY LenProperties DEF TreeInv, TypeOK
<1>4. ASSUME NEW j \in 1..(i - 1) PROVE nodeId[children[p][j]] # nodeId[c]
  <2>1. j \in DOMAIN children[p] /\ j # i
    BY <1>3
  <2>2. children[p][j] \in Forked /\ children[p][j] # c
    BY <1>1, <2>1 DEF TreeInv, TreeShape, ListsAreOfChildren, ListsAreOnce
  <2>3. QED
    BY <1>2, <2>2 DEF TreeInv, FreshInv, IdsAreUnique
<1>5. FirstWithItsId(p, c)
  BY <1>1, <1>4 DEF FirstWithItsId
<1>6. IsRefreshed(p, c)
  BY <1>2, <1>5 DEF IsRefreshed
<1>7. QED
  BY <1>6 DEF EraseOverdue, MayBeOverdue, NobodyIsLost

\* Nobody leaves the loop, and nobody dies.
LEMMA NobodyLeaves ==
  ASSUME NobodyIsLost, TreeInv, RecordsInv, NEW p \in Processes
  PROVE  ~HandleKillSignal(p) /\ ~Exit(p) /\ ~Crash(p)
<1>1. ~HandleKillSignal(p)
  <2> SUFFICES ASSUME HandleKillSignal(p) PROVE FALSE
    OBVIOUS
  <2>1. /\ down[p] # <<>> /\ Head(down[p]).type = "KillSignal"
    BY DEF HandleKillSignal, Receives
  <2>2. Head(down[p]) \in DownMsg /\ Head(down[p]) \in Range(down[p])
    BY <2>1, TypedPaths, ConsumedIsPath, ConsumedCarries DEF TreeInv
  <2>3. Head(down[p]) = KillSignal
    BY <2>1, <2>2 DEF DownMsg, CommandMsg, CommandPrintTree, KillSignal
  <2>4. QED
    BY <2>2, <2>3 DEF RecordsInv, StarShape, NobodyIsKilled
<1>2. phase[p] # "stopping"
  <2>1. CASE p = Root
    BY <2>1 DEF RecordsInv, StarShape, RootGoesOn
  <2>2. CASE p \in Forked
    BY <2>2 DEF RecordsInv, StarShape, NodesRun
  <2>3. CASE p \in Pids /\ p \notin Forked
    BY <2>3 DEF TreeInv, TreeShape, ForkedArePhased
  <2>4. QED
    BY <2>1, <2>2, <2>3 DEF Processes
<1>3. ~Crash(p)
  BY DEF Crash, NobodyIsLost, TreeInv, TypeOK
<1>4. QED
  BY <1>1, <1>2, <1>3 DEF Exit

LEMMA RecordsStep ==
  ASSUME OnlyUnderTheRoot, NobodyIsLost, TreeInv, RecordsInv,
         [FreshNext]_vars
  PROVE  RecordsInv'
<1>1. ASSUME NEW p \in Processes, HandleCommand(p) PROVE RecordsInv'
  <2>1. CASE p = Root
    BY <1>1, <2>1, RootHandles
  <2>2. CASE p \in Pids
    BY <1>1, <2>2, NodeHandles
  <2>3. QED
    BY <2>1, <2>2 DEF Processes
<1>2. ASSUME NEW p \in Processes, NEW c \in Pids, HandleResponse(p, c)
      PROVE  RecordsInv'
  BY <1>2, RootAnswered
<1>3. \A p \in Processes : ~HandleKillSignal(p) /\ ~Exit(p) /\ ~Crash(p)
  BY NobodyLeaves
<1>4. \A p \in Processes, c \in Pids : ~EraseOverdue(p, c)
  BY NobodyIsErased
<1>5. ASSUME NEW cmd \in Commands, Submit(cmd) PROVE RecordsInv'
  BY <1>5, RecordsSubmit
<1>6. CASE UNCHANGED vars
  BY <1>6
     DEF vars, RecordsInv, CreatesAreCommands, AlwaysFindsARecord, Credit, Due,
         Expected, UnderWay, Slots, StarShape, RootGoesOn, NodesRun,
         NoGrandchildren, NobodyIsKilled, OthersCreates, NobodyExists, Forked,
         Children
<1>7. CASE FreshNext
  <2>1. Pids \subseteq Processes
    BY DEF Processes
  <2>2. QED
    BY <1>1, <1>2, <1>3, <1>4, <1>5, <1>7, <2>1
       DEF FreshNext, SubmitFresh, TreeNext
<1>8. QED
  BY <1>6, <1>7

\* findRecord always finds a record when clients ask for nodes under the root
\* only, with an identifier of their own each, and no node is lost: for any
\* number of nodes, commands and commands at a time, and although records are
\* not told apart and are closed by the number of children at that moment.
THEOREM AlwaysFindsTheorem ==
  ASSUME OnlyUnderTheRoot, NobodyIsLost
  PROVE  FreshSpec => []AlwaysFindsARecord
<1>1. Init => RecordsInv
  BY RecordsInit
<1>2. TreeInv /\ RecordsInv /\ [FreshNext]_vars => RecordsInv'
  BY RecordsStep
<1>3. RecordsInv => AlwaysFindsARecord
  BY DEF RecordsInv
<1>4. FreshSpec => Spec
  <2>1. [FreshNext]_vars => [Next]_vars
    BY DEF FreshNext, SubmitFresh, Next
  <2>2. QED
    BY <2>1, PTL DEF FreshSpec, Spec
<1>5. FreshSpec => []TreeInv
  <2>1. TypeOK /\ TreeShape /\ GenuineInv /\ FreshInv => TreeInv
    BY DEF TreeInv
  <2>2. QED
    BY <1>4, <2>1, TypeCorrect, TreeShapeInvariant, GenuineInvariant,
       FreshInvariant, PTL
<1>6. QED
  BY <1>1, <1>2, <1>3, <1>5, PTL DEF FreshSpec

-----------------------------------------------------------------------------
(***************************************************************************)
(* A chain, and the service it implements.  First what the commands make   *)
(* of the identifiers in use, and of the chain, one after the other.       *)
(***************************************************************************)
AddedTo(nodes, cmd) ==
  IF cmd.type = "CommandCreate" /\ cmd.parentId \in nodes
  THEN nodes \cup {cmd.newNodeId}
  ELSE nodes

LEMMA AddedIsNodes ==
  ASSUME NEW nodes \in SUBSET Nat, NEW cmd \in CommandMsg
  PROVE  AddedTo(nodes, cmd) \in SUBSET Nat
<1>1. cmd.type = "CommandCreate" => cmd.newNodeId \in Nat
  BY DEF CommandMsg, CommandPrintTree
<1>2. QED
  BY <1>1 DEF AddedTo

LEMMA NodesAfterValues ==
  ASSUME NEW cmds \in Seq(CommandMsg), NEW n \in 0..Len(cmds)
  PROVE  \E f : /\ f[0] = {0}
                /\ \A i \in 1..n : f[i] = AddedTo(f[i - 1], cmds[i])
                /\ Service!NodesAfter(cmds, n) = f[n]
<1>1. n \in Nat /\ \A i \in 1..n : cmds[i] \in CommandMsg
  BY LenProperties, ElementOfSeq
<1> DEFINE l(f) == [i \in 0..n |->
              IF i = 0 THEN {0}
              ELSE IF /\ cmds[i].type = "CommandCreate"
                      /\ cmds[i].parentId \in f[i - 1]
                   THEN f[i - 1] \cup {cmds[i].newNodeId}
                   ELSE f[i - 1]]
<1>2. PICK next : next = [i \in 1..n |-> [x \in SUBSET Nat |-> AddedTo(x, cmds[i])]]
  OBVIOUS
<1>3. PICK f \in [0..n -> SUBSET Nat] :
        f[0] = {0} /\ \A i \in 1..n : f[i] = next[i][f[i - 1]]
  <2>1. PICK z, D : z = {0} /\ D = SUBSET Nat  OBVIOUS
  <2>2. next \in [1..n -> [D -> D]]
    BY <1>1, <1>2, <2>1, AddedIsNodes
  <2>3. z \in D
    BY <2>1
  <2>4. PICK f : Runs(f, n, D, z, next)
    BY <1>1, <2>2, <2>3, RunningValues, Zenon
  <2>5. QED
    BY <2>1, <2>4 DEF Runs
<1>4. ASSUME NEW i \in 1..n PROVE f[i] = AddedTo(f[i - 1], cmds[i])
  <2>1. PICK x \in SUBSET Nat : x = f[i - 1]
    <3>1. i - 1 \in 0..n
      OBVIOUS
    <3>2. QED
      BY <3>1
  <2>2. f[i] = next[i][x]
    BY <1>3, <2>1
  <2>3. QED
    BY <1>2, <2>1, <2>2
<1>5. f = l(f)
  <2>1. ASSUME NEW i \in 0..n PROVE f[i] = l(f)[i]
    <3>1. CASE i = 0
      BY <1>3, <3>1
    <3>2. CASE i # 0
      <4>1. i \in 1..n
        BY <1>1, <3>2
      <4>2. f[i] = AddedTo(f[i - 1], cmds[i])
        BY <1>4, <4>1
      <4>3. QED
        BY <3>2, <4>2 DEF AddedTo
    <3>3. QED
      BY <3>1, <3>2
  <2>2. DOMAIN f = 0..n /\ f = [i \in 0..n |-> f[i]]
    BY <1>3
  <2>3. l(f) = [i \in 0..n |-> l(f)[i]]
    OBVIOUS
  <2> HIDE DEF l
  <2>4. QED
    BY <2>1, <2>2, <2>3
<1>6. PICK c : c = CHOOSE g : g = l(g)
  OBVIOUS
<1>7. c = l(c)
  BY <1>5, <1>6, Zenon
<1>8. Service!NodesAfter(cmds, n) = c[n]
  BY <1>6, Zenon DEF Service!NodesAfter
<1>9. c[0] = {0}
  BY <1>7
<1>10. ASSUME NEW i \in 1..n PROVE c[i] = AddedTo(c[i - 1], cmds[i])
  <2>1. c[i] = l(c)[i]
    BY <1>7, Zenon
  <2>2. i \in 0..n /\ i # 0
    BY <1>1
  <2>3. QED
    BY <2>1, <2>2 DEF AddedTo
<1>11. QED
  BY <1>8, <1>9, <1>10

\* One command more.
LEMMA NodesAfterOne ==
  ASSUME NEW cmds \in Seq(CommandMsg)
  PROVE  /\ Service!NodesAfter(cmds, 0) = {0}
         /\ \A n \in 1..Len(cmds) :
              Service!NodesAfter(cmds, n) =
                AddedTo(Service!NodesAfter(cmds, n - 1), cmds[n])
<1>1. Service!NodesAfter(cmds, 0) = {0}
  <2>1. 0 \in 0..Len(cmds)
    BY LenProperties
  <2>2. QED
    BY <2>1, NodesAfterValues
<1>2. ASSUME NEW n \in 1..Len(cmds)
      PROVE  Service!NodesAfter(cmds, n) =
                AddedTo(Service!NodesAfter(cmds, n - 1), cmds[n])
  <2>0. n - 1 \in 0..Len(cmds) /\ n \in 0..Len(cmds) /\ n - 1 \in Nat
    BY LenProperties
  <2>1. PICK f : /\ f[0] = {0}
                 /\ \A i \in 1..n : f[i] = AddedTo(f[i - 1], cmds[i])
                 /\ Service!NodesAfter(cmds, n) = f[n]
    BY <2>0, NodesAfterValues
  <2>2. PICK g : /\ g[0] = {0}
                 /\ \A i \in 1..(n - 1) : g[i] = AddedTo(g[i - 1], cmds[i])
                 /\ Service!NodesAfter(cmds, n - 1) = g[n - 1]
    BY <2>0, NodesAfterValues
  <2> DEFINE G == {i \in 0..(n - 1) : f[i] = g[i]}
  <2>3. 0 \in G
    <3>1. 0 \in 0..(n - 1)
      BY <2>0
    <3>2. f[0] = g[0]
      BY <2>1, <2>2
    <3>3. QED
      BY <3>1, <3>2
  <2>4. ASSUME NEW i \in 1..(n - 1), i - 1 \in G PROVE i \in G
    <3>1. f[i - 1] = g[i - 1]
      BY <2>4
    <3>2. f[i] = AddedTo(f[i - 1], cmds[i]) /\ g[i] = AddedTo(g[i - 1], cmds[i])
      BY <2>1, <2>2
    <3>3. QED
      BY <3>1, <3>2
  <2> HIDE DEF G
  <2>5. n - 1 \in G
    <3>1. 0..(n - 1) \subseteq G
      BY <2>0, <2>3, <2>4, Upwards
    <3>2. QED
      BY <2>0, <3>1
  <2>6. f[n - 1] = g[n - 1]
    BY <2>5 DEF G
  <2>7. QED
    BY <2>1, <2>2, <2>6
<1>3. QED
  BY <1>1, <1>2

\* Later commands make no difference.
LEMMA NodesAfterKept ==
  ASSUME NEW cmds \in Seq(CommandMsg), NEW cmd \in CommandMsg,
         NEW n \in 0..Len(cmds)
  PROVE  Service!NodesAfter(Append(cmds, cmd), n) = Service!NodesAfter(cmds, n)
<1>1. PICK more : more = Append(cmds, cmd)
  OBVIOUS
<1>2. /\ more \in Seq(CommandMsg) /\ Len(more) = Len(cmds) + 1
      /\ Len(cmds) \in Nat /\ \A i \in 1..Len(cmds) : more[i] = cmds[i]
  BY <1>1, AppendProperties, LenProperties
<1> DEFINE a(i) == Service!NodesAfter(cmds, i)
           b(i) == Service!NodesAfter(more, i)
           G == {i \in 0..Len(cmds) : a(i) = b(i)}
<1>3. 0 \in G
  <2>1. a(0) = {0} /\ b(0) = {0}
    BY <1>2, NodesAfterOne
  <2>2. 0 \in 0..Len(cmds)
    BY <1>2
  <2> HIDE DEF a, b
  <2>3. QED
    BY <2>1, <2>2
<1>4. ASSUME NEW i \in 1..Len(cmds), i - 1 \in G PROVE i \in G
  <2>1. a(i) = AddedTo(a(i - 1), cmds[i]) /\ b(i) = AddedTo(b(i - 1), more[i])
    <3>1. i \in 1..Len(more)
      BY <1>2
    <3>2. a(i) = AddedTo(a(i - 1), cmds[i])
      BY NodesAfterOne, Zenon
    <3>3. b(i) = AddedTo(b(i - 1), more[i])
      BY <1>2, <3>1, NodesAfterOne, Zenon
    <3>4. QED
      BY <3>2, <3>3, Zenon
  <2>2. a(i - 1) = b(i - 1) /\ more[i] = cmds[i] /\ i \in 0..Len(cmds)
    BY <1>2, <1>4
  <2>3. QED
    BY <2>1, <2>2
<1> HIDE DEF G
<1>5. 0..Len(cmds) \subseteq G
  BY <1>2, <1>3, <1>4, Upwards
<1>6. QED
  BY <1>1, <1>5 DEF G


LengthenedBy(chain, cmd) ==
  IF /\ cmd.type = "CommandCreate"
     /\ cmd.parentId = Last(chain)
     /\ cmd.newNodeId \notin Range(chain)
  THEN Append(chain, cmd.newNodeId)
  ELSE chain

LEMMA LengthenedIsChain ==
  ASSUME NEW chain \in Seq(Nat), NEW cmd \in CommandMsg
  PROVE  LengthenedBy(chain, cmd) \in Seq(Nat)
<1>1. cmd.type = "CommandCreate" => cmd.newNodeId \in Nat
  BY DEF CommandMsg, CommandPrintTree
<1>2. cmd.type = "CommandCreate" => Append(chain, cmd.newNodeId) \in Seq(Nat)
  BY <1>1, AppendProperties
<1>3. QED
  BY <1>2 DEF LengthenedBy

LEMMA ChainOfValues ==
  ASSUME NEW cmds \in Seq(CommandMsg)
  PROVE  \E f : /\ f[0] = <<0>>
                /\ \A i \in 1..Len(cmds) : f[i] = LengthenedBy(f[i - 1], cmds[i])
                /\ ChainOf(cmds) = f[Len(cmds)]
<1>0. PICK n : n = Len(cmds)
  OBVIOUS
<1>1. n \in Nat /\ \A i \in 1..n : cmds[i] \in CommandMsg
  BY <1>0, LenProperties, ElementOfSeq
<1> DEFINE l(f) == [i \in 0..n |->
              IF i = 0 THEN <<0>>
              ELSE IF /\ cmds[i].type = "CommandCreate"
                      /\ cmds[i].parentId = Last(f[i - 1])
                      /\ cmds[i].newNodeId \notin Range(f[i - 1])
                   THEN Append(f[i - 1], cmds[i].newNodeId)
                   ELSE f[i - 1]]
<1>2. PICK next : next = [i \in 1..n |-> [x \in Seq(Nat) |-> LengthenedBy(x, cmds[i])]]
  OBVIOUS
<1>3. PICK f \in [0..n -> Seq(Nat)] :
        f[0] = <<0>> /\ \A i \in 1..n : f[i] = next[i][f[i - 1]]
  <2>1. PICK z, D : z = <<0>> /\ D = Seq(Nat)  OBVIOUS
  <2>2. next \in [1..n -> [D -> D]]
    BY <1>1, <1>2, <2>1, LengthenedIsChain
  <2>3. z \in D
    BY <2>1
  <2>4. PICK f : Runs(f, n, D, z, next)
    BY <1>1, <2>2, <2>3, RunningValues, Zenon
  <2>5. QED
    BY <2>1, <2>4 DEF Runs
<1>4. ASSUME NEW i \in 1..n PROVE f[i] = LengthenedBy(f[i - 1], cmds[i])
  <2>1. PICK x \in Seq(Nat) : x = f[i - 1]
    <3>1. i - 1 \in 0..n
      BY <1>1
    <3>2. QED
      BY <3>1
  <2>2. f[i] = next[i][x]
    BY <1>3, <2>1
  <2>3. QED
    BY <1>2, <2>1, <2>2
<1>5. f = l(f)
  <2>1. ASSUME NEW i \in 0..n PROVE f[i] = l(f)[i]
    <3>1. CASE i = 0
      BY <1>3, <3>1
    <3>2. CASE i # 0
      <4>1. i \in 1..n
        BY <1>1, <3>2
      <4>2. f[i] = LengthenedBy(f[i - 1], cmds[i])
        BY <1>4, <4>1
      <4>3. QED
        BY <3>2, <4>2 DEF LengthenedBy
    <3>3. QED
      BY <3>1, <3>2
  <2>2. DOMAIN f = 0..n /\ f = [i \in 0..n |-> f[i]]
    BY <1>3
  <2>3. l(f) = [i \in 0..n |-> l(f)[i]]
    OBVIOUS
  <2> HIDE DEF l
  <2>4. QED
    BY <2>1, <2>2, <2>3
<1>6. PICK c : c = CHOOSE g : g = l(g)
  OBVIOUS
<1>7. c = l(c)
  BY <1>5, <1>6, Zenon
<1>8. ChainOf(cmds) = c[n]
  BY <1>0, <1>6, Zenon DEF ChainOf
<1>9. c[0] = <<0>>
  BY <1>1, <1>7
<1>10. ASSUME NEW i \in 1..n PROVE c[i] = LengthenedBy(c[i - 1], cmds[i])
  <2>1. c[i] = l(c)[i]
    BY <1>7, Zenon
  <2>2. i \in 0..n /\ i # 0
    BY <1>1
  <2>3. QED
    BY <2>1, <2>2 DEF LengthenedBy
<1>11. QED
  BY <1>0, <1>8, <1>9, <1>10

LEMMA ChainOfOne ==
  ASSUME NEW cmds \in Seq(CommandMsg), NEW cmd \in CommandMsg
  PROVE  ChainOf(Append(cmds, cmd)) = LengthenedBy(ChainOf(cmds), cmd)
<1>1. PICK more : more = Append(cmds, cmd)
  OBVIOUS
<1>2. PICK n : n = Len(cmds)
  OBVIOUS
<1>3. /\ more \in Seq(CommandMsg) /\ Len(more) = n + 1 /\ n \in Nat
      /\ \A i \in 1..n : more[i] = cmds[i]
      /\ more[n + 1] = cmd
  BY <1>1, <1>2, AppendProperties, LenProperties
<1>4. PICK f : /\ f[0] = <<0>>
               /\ \A i \in 1..n : f[i] = LengthenedBy(f[i - 1], cmds[i])
               /\ ChainOf(cmds) = f[n]
  BY <1>2, ChainOfValues
<1>5. PICK g : /\ g[0] = <<0>>
               /\ \A i \in 1..(n + 1) : g[i] = LengthenedBy(g[i - 1], more[i])
               /\ ChainOf(more) = g[n + 1]
  BY <1>3, ChainOfValues
<1> DEFINE G == {i \in 0..n : f[i] = g[i]}
<1>6. 0 \in G
  <2>1. 0 \in 0..n
    BY <1>3
  <2>2. f[0] = g[0]
    BY <1>4, <1>5
  <2>3. QED
    BY <2>1, <2>2
<1>7. ASSUME NEW i \in 1..n, i - 1 \in G PROVE i \in G
  <2>1. f[i - 1] = g[i - 1] /\ i \in 1..(n + 1) /\ i \in 0..n
    BY <1>3, <1>7
  <2>2. f[i] = LengthenedBy(f[i - 1], cmds[i]) /\ g[i] = LengthenedBy(g[i - 1], cmds[i])
    BY <1>3, <1>4, <1>5, <2>1
  <2>3. QED
    BY <2>1, <2>2
<1> HIDE DEF G
<1>8. n \in G
  <2>1. 0..n \subseteq G
    BY <1>3, <1>6, <1>7, Upwards
  <2>2. QED
    BY <1>3, <2>1
<1>9. f[n] = g[n]
  BY <1>8 DEF G
<1>10. g[n + 1] = LengthenedBy(g[n], cmd)
  <2>1. n + 1 \in 1..(n + 1) /\ (n + 1) - 1 = n
    BY <1>3
  <2>2. QED
    BY <1>3, <1>5, <2>1
<1>11. QED
  BY <1>1, <1>4, <1>5, <1>9, <1>10

LEMMA ChainOfNone == ChainOf(<<>>) = <<0>>
<1>1. <<>> \in Seq(CommandMsg) /\ Len(<<>>) = 0
  BY EmptySeq
<1>2. PICK f : f[0] = <<0>> /\ ChainOf(<<>>) = f[Len(<<>>)]
  BY <1>1, ChainOfValues
<1>3. QED
  BY <1>1, <1>2


(***************************************************************************)
(* The nodes of the chain and the commands they are born by, of which the  *)
(* root has none.  Those of the first n commands are what is there after n *)
(* commands, and a create names one that is there and not below its        *)
(* parent, or is itself the birth of the next, or names nobody who is      *)
(* there.                                                                  *)
(***************************************************************************)
NamesOneAbove(cmd, n, chain, born) ==
  \E i \in 1..Len(chain) :
    /\ born[i] < n /\ chain[i] = cmd.newNodeId
    /\ \A j \in 1..Len(chain) :
          born[j] < n /\ chain[j] = cmd.parentId => i <= j

GivesBirth(cmd, n, chain, born) ==
  \E i \in 2..Len(chain) :
    born[i] = n /\ chain[i] = cmd.newNodeId /\ chain[i - 1] = cmd.parentId

NamesNobody(cmd, n, chain, born) ==
  \A j \in 1..Len(chain) :
    born[j] < n => chain[j] \notin {cmd.newNodeId, cmd.parentId}

IsKept(cmd, n, chain, born) ==
  cmd.type = "CommandCreate" =>
    \/ NamesOneAbove(cmd, n, chain, born)
    \/ GivesBirth(cmd, n, chain, born)
    \/ NamesNobody(cmd, n, chain, born)

\* The chain and the births are numbers, and in order.
Births(len, chain, born) ==
  /\ chain \in Seq(Nat) /\ Len(chain) >= 1 /\ chain[1] = 0
  /\ born \in [1..Len(chain) -> 0..len] /\ born[1] = 0
  /\ \A i, j \in 1..Len(chain) : i < j => born[i] < born[j] /\ chain[i] # chain[j]

\* What the order of births says of each of them.
LEMMA BirthsTyped ==
  ASSUME NEW len \in Nat, NEW chain, NEW born, Births(len, chain, born)
  PROVE  /\ Len(chain) \in Nat /\ Len(chain) >= 1 /\ chain[1] = 0
         /\ \A i \in 1..Len(chain) : born[i] \in Nat
         /\ \A i \in 1..Len(chain) : born[i] <= len
         /\ \A i, j \in 1..Len(chain) :
               i < j => born[i] < born[j] /\ chain[i] # chain[j]
<1>1. /\ chain \in Seq(Nat) /\ Len(chain) >= 1 /\ chain[1] = 0
      /\ born \in [1..Len(chain) -> 0..len]
      /\ \A i, j \in 1..Len(chain) :
            i < j => born[i] < born[j] /\ chain[i] # chain[j]
  BY Zenon DEF Births
<1>2. Len(chain) \in Nat
  BY <1>1, LenProperties, Zenon
<1>3. ASSUME NEW i \in 1..Len(chain) PROVE born[i] \in Nat /\ born[i] <= len
  <2>1. PICK b : b = born[i]
    BY Zenon
  <2>2. b \in 0..len
    BY <1>1, <2>1, Zenon
  <2>3. b \in Nat /\ b <= len
    BY <2>2
  <2>4. QED
    BY <2>1, <2>3, Zenon
<1>4. QED
  BY <1>1, <1>2, <1>3, Zenon

ChainKnown(cmds, chain, born) ==
  /\ Births(Len(cmds), chain, born)
  /\ chain = ChainOf(cmds)
  /\ \A n \in 0..Len(cmds) : \A x :
        x \in Service!NodesAfter(cmds, n) <=>
          \E i \in 1..Len(chain) : born[i] <= n /\ chain[i] = x
  /\ \A n \in 1..Len(cmds) : IsKept(cmds[n], n, chain, born)

LEMMA KnownAtFirst == ChainKnown(<<>>, <<0>>, [i \in 1..1 |-> 0])
<1>1. PICK cmds, chain, born : cmds = <<>> /\ chain = <<0>> /\ born = [i \in 1..1 |-> 0]
  OBVIOUS
<1>2. cmds \in Seq(CommandMsg) /\ Len(cmds) = 0
  BY <1>1, EmptySeq
<1>3. chain \in Seq(Nat) /\ Len(chain) = 1 /\ chain[1] = 0
  BY <1>1
<1>4. Births(0, chain, born)
  BY <1>1, <1>3 DEF Births
<1>5. chain = ChainOf(cmds)
  BY <1>1, ChainOfNone
<1>6. Service!NodesAfter(cmds, 0) = {0}
  BY <1>2, NodesAfterOne
<1>7. ASSUME NEW n \in 0..0, NEW x
      PROVE  x \in Service!NodesAfter(cmds, n) <=>
               \E i \in 1..Len(chain) : born[i] <= n /\ chain[i] = x
  <2>1. n = 0 /\ 1 \in 1..Len(chain) /\ born[1] = 0
    BY <1>1, <1>3
  <2>2. x = 0 <=> \E i \in 1..Len(chain) : born[i] <= n /\ chain[i] = x
    BY <1>1, <1>3, <2>1
  <2>3. QED
    BY <1>6, <2>1, <2>2
<1>8. ChainKnown(cmds, chain, born)
  BY <1>2, <1>4, <1>5, <1>7 DEF ChainKnown
<1>9. QED
  BY <1>1, <1>8

\* What a command is answered in a sequential execution.
LEMMA OutcomeIs ==
  ASSUME NEW cmds, NEW chain, NEW born, ChainKnown(cmds, chain, born),
         Len(cmds) \in Nat, NEW n \in 1..Len(cmds), NEW cmd, cmd = cmds[n]
  PROVE  /\ cmd.type = "CommandExec" =>
              IF \E i \in 2..Len(chain) : born[i] < n /\ chain[i] = cmd.nodeId
              THEN Service!Outcome(cmds, n) = Service!Ok(cmd.nodeId, cmd.k)
              ELSE Service!Outcome(cmds, n) = Service!Unavailable(cmd.nodeId)
         /\ cmd.type = "CommandCreate" =>
              /\ NamesOneAbove(cmd, n, chain, born) =>
                   Service!Outcome(cmds, n) = Service!Exists(cmd.newNodeId)
              /\ GivesBirth(cmd, n, chain, born) =>
                   Service!Outcome(cmds, n) = Service!Created(cmd.newNodeId)
              /\ NamesNobody(cmd, n, chain, born) =>
                   Service!Outcome(cmds, n) = Service!NotCreated
<1>1. PICK nodes : nodes = Service!NodesAfter(cmds, n - 1)
  OBVIOUS
<1>2. /\ Len(chain) \in Nat \ {0} /\ chain[1] = 0 /\ born[1] = 0
      /\ \A i \in 1..Len(chain) : born[i] \in Nat
      /\ \A i, j \in 1..Len(chain) : i < j => born[i] < born[j] /\ chain[i] # chain[j]
  BY LenProperties DEF ChainKnown, Births
<1>3. ASSUME NEW x
      PROVE  x \in nodes <=> \E i \in 1..Len(chain) : born[i] < n /\ chain[i] = x
  <2>1. n - 1 \in 0..Len(cmds)
    OBVIOUS
  <2>2. x \in nodes <=> \E i \in 1..Len(chain) : born[i] <= n - 1 /\ chain[i] = x
    BY <1>1, <2>1 DEF ChainKnown
  <2>3. \A i \in 1..Len(chain) : born[i] <= n - 1 <=> born[i] < n
    BY <1>2
  <2>4. QED
    BY <2>2, <2>3
<1>4. ASSUME cmd.type = "CommandExec"
      PROVE  IF \E i \in 2..Len(chain) : born[i] < n /\ chain[i] = cmd.nodeId
             THEN Service!Outcome(cmds, n) = Service!Ok(cmd.nodeId, cmd.k)
             ELSE Service!Outcome(cmds, n) = Service!Unavailable(cmd.nodeId)
  <2>1. cmd.nodeId \in nodes \ {0} <=>
          \E i \in 2..Len(chain) : born[i] < n /\ chain[i] = cmd.nodeId
    <3>1. ASSUME NEW i \in 2..Len(chain) PROVE i \in 1..Len(chain) /\ chain[i] # 0
      <4>1. 1 \in 1..Len(chain) /\ i \in 1..Len(chain) /\ 1 < i
        BY <1>2
      <4>2. QED
        BY <1>2, <4>1, Zenon
    <3>2. ASSUME cmd.nodeId \in nodes \ {0}
          PROVE  \E i \in 2..Len(chain) : born[i] < n /\ chain[i] = cmd.nodeId
      <4>1. PICK i \in 1..Len(chain) : born[i] < n /\ chain[i] = cmd.nodeId
        BY <1>3, <3>2, Zenon
      <4>2. i # 1
        BY <1>2, <3>2, <4>1, Zenon
      <4>3. i \in 2..Len(chain)
        BY <1>2, <4>2
      <4>4. QED
        BY <4>1, <4>3, Zenon
    <3>3. ASSUME NEW i \in 2..Len(chain), born[i] < n, chain[i] = cmd.nodeId
          PROVE  cmd.nodeId \in nodes \ {0}
      BY <1>3, <3>1, <3>3, Zenon
    <3>4. QED
      BY <3>2, <3>3, Zenon
  <2>2. CASE cmd.nodeId \in nodes \ {0}
    BY <1>1, <1>4, <2>1, <2>2 DEF Service!Outcome
  <2>3. CASE cmd.nodeId \notin nodes \ {0}
    BY <1>1, <1>4, <2>1, <2>3 DEF Service!Outcome
  <2>4. QED
    BY <2>2, <2>3
<1>5. ASSUME cmd.type = "CommandCreate"
      PROVE  /\ cmd.newNodeId \in nodes =>
                  Service!Outcome(cmds, n) = Service!Exists(cmd.newNodeId)
             /\ cmd.newNodeId \notin nodes /\ cmd.parentId \in nodes =>
                  Service!Outcome(cmds, n) = Service!Created(cmd.newNodeId)
             /\ cmd.newNodeId \notin nodes /\ cmd.parentId \notin nodes =>
                  Service!Outcome(cmds, n) = Service!NotCreated
  BY <1>1, <1>5 DEF Service!Outcome
<1>6. NamesOneAbove(cmd, n, chain, born) => cmd.newNodeId \in nodes
  BY <1>3 DEF NamesOneAbove
<1>7. NamesNobody(cmd, n, chain, born) =>
        cmd.newNodeId \notin nodes /\ cmd.parentId \notin nodes
  BY <1>3 DEF NamesNobody
<1>8. ASSUME GivesBirth(cmd, n, chain, born)
      PROVE  cmd.newNodeId \notin nodes /\ cmd.parentId \in nodes
  <2>1. PICK i \in 2..Len(chain) :
          born[i] = n /\ chain[i] = cmd.newNodeId /\ chain[i - 1] = cmd.parentId
    BY <1>8 DEF GivesBirth
  <2>2. i \in 1..Len(chain) /\ i - 1 \in 1..Len(chain) /\ i - 1 < i
    BY <1>2
  <2>3. cmd.parentId \in nodes
    BY <1>2, <1>3, <2>1, <2>2
  <2>4. ASSUME NEW j \in 1..Len(chain), born[j] < n, chain[j] = chain[i] PROVE FALSE
    <3>1. j = i
      BY <1>2, <2>2, <2>4
    <3>2. QED
      BY <1>2, <2>1, <2>2, <2>4, <3>1
  <2>5. QED
    BY <1>3, <2>1, <2>3, <2>4
<1>9. QED
  BY <1>4, <1>5, <1>6, <1>7, <1>8


\* What was kept before is kept, whether the chain has become longer or not.
LEMMA KeptStays ==
  ASSUME NEW len \in Nat, NEW chain, NEW born, Births(len, chain, born),
         NEW chain2, NEW born2, Births(len + 1, chain2, born2),
         Len(chain2) >= Len(chain),
         \A i \in 1..Len(chain) : chain2[i] = chain[i] /\ born2[i] = born[i],
         \A i \in 1..Len(chain2) : i > Len(chain) => born2[i] = len + 1,
         NEW n \in 0..len
  PROVE  /\ \A x : (\E i \in 1..Len(chain) : born[i] <= n /\ chain[i] = x)
                     <=> \E i \in 1..Len(chain2) : born2[i] <= n /\ chain2[i] = x
         /\ \A cmd : IsKept(cmd, n, chain, born) => IsKept(cmd, n, chain2, born2)
<1>1. PICK a, b : a = Len(chain) /\ b = Len(chain2)
  OBVIOUS
<1>2. a \in Nat \ {0} /\ b \in Nat /\ a <= b
  BY <1>1, LenProperties DEF Births
<1>3. /\ \A i \in 1..a : chain2[i] = chain[i] /\ born2[i] = born[i]
      /\ \A i \in 1..b : i \in 1..a \/ born2[i] > n
      /\ \A i \in 1..a : i \in 1..b
  BY <1>1, <1>2
<1>7. \A i \in 1..b : born2[i] \in Nat
  <2>1. born2 \in [1..b -> 0..(len + 1)]
    BY <1>1, Zenon DEF Births
  <2>2. QED
    BY <2>1
<1>4. ASSUME NEW x
      PROVE  (\E i \in 1..a : born[i] <= n /\ chain[i] = x)
               <=> \E i \in 1..b : born2[i] <= n /\ chain2[i] = x
  <2>1. \A i \in 1..b : born2[i] \in Nat
    BY <1>7
  <2>2. \A i \in 1..b : born2[i] <= n => i \in 1..a
    BY <1>3, <2>1
  <2>3. QED
    BY <1>3, <2>2
<1>5. ASSUME NEW cmd, IsKept(cmd, n, chain, born), cmd.type = "CommandCreate"
      PROVE  IsKept(cmd, n, chain2, born2)
  <2>0. \A i \in 1..b : born2[i] \in Nat
    BY <1>7
  <2>1. \A i \in 1..b : born2[i] < n => i \in 1..a
    BY <1>3, <2>0
  <2>2. CASE NamesOneAbove(cmd, n, chain, born)
    <3>1. NamesOneAbove(cmd, n, chain2, born2)
      BY <1>1, <1>3, <2>1, <2>2 DEF NamesOneAbove
    <3>2. QED
      BY <3>1 DEF IsKept
  <2>3. CASE GivesBirth(cmd, n, chain, born)
    <3>1. PICK i \in 2..a :
            born[i] = n /\ chain[i] = cmd.newNodeId /\ chain[i - 1] = cmd.parentId
      BY <1>1, <2>3 DEF GivesBirth
    <3>2. i \in 2..b /\ i \in 1..a /\ i - 1 \in 1..a
      BY <1>2
    <3>3. GivesBirth(cmd, n, chain2, born2)
      BY <1>1, <1>3, <3>1, <3>2 DEF GivesBirth
    <3>4. QED
      BY <3>3 DEF IsKept
  <2>4. CASE NamesNobody(cmd, n, chain, born)
    <3>1. NamesNobody(cmd, n, chain2, born2)
      BY <1>1, <1>3, <2>1, <2>4 DEF NamesNobody
    <3>2. QED
      BY <3>1 DEF IsKept
  <2>5. QED
    BY <1>5, <2>2, <2>3, <2>4 DEF IsKept
<1>6. QED
  BY <1>1, <1>4, <1>5 DEF IsKept

\* A client that keeps the chain lets us know it.
LEMMA KnownKept ==
  ASSUME NEW cmds \in Seq(CommandMsg), NEW cmd \in CommandMsg, NEW chain, NEW born,
         ChainKnown(cmds, chain, born),
         cmd.type = "CommandCreate" =>
           IF cmd.newNodeId \in Range(chain)
           THEN \A i, j \in DOMAIN chain :
                   chain[i] = cmd.newNodeId /\ chain[j] = cmd.parentId => i <= j
           ELSE cmd.parentId = Last(chain) \/ cmd.parentId \notin Range(chain)
  PROVE  \E chain2, born2 :
           /\ ChainKnown(Append(cmds, cmd), chain2, born2)
           /\ Len(chain2) >= Len(chain)
           /\ \A i \in 1..Len(chain) : chain2[i] = chain[i] /\ born2[i] = born[i]
           /\ \A i \in 1..Len(chain2) : i > Len(chain) => born2[i] = Len(cmds) + 1
<1>1. PICK more, n, a : more = Append(cmds, cmd) /\ n = Len(cmds) /\ a = Len(chain)
  OBVIOUS
<1>2. /\ more \in Seq(CommandMsg) /\ Len(more) = n + 1 /\ n \in Nat
      /\ \A i \in 1..n : more[i] = cmds[i]
      /\ more[n + 1] = cmd
  BY <1>1, AppendProperties, LenProperties
<1>3. /\ chain \in Seq(Nat) /\ a \in Nat \ {0} /\ DOMAIN chain = 1..a /\ chain[1] = 0
      /\ born \in [1..a -> 0..n] /\ born[1] = 0 /\ chain = ChainOf(cmds)
      /\ \A i, j \in 1..a : i < j => born[i] < born[j] /\ chain[i] # chain[j]
      /\ Last(chain) = chain[a]
  BY <1>1, LenProperties DEF ChainKnown, Births, Last
<1>4. \A x : x \in Range(chain) <=> \E i \in 1..a : chain[i] = x
  BY <1>3 DEF Range
<1>5. ChainOf(more) = LengthenedBy(chain, cmd)
  BY <1>1, <1>3, ChainOfOne
<1>6. \A i \in 0..n : Service!NodesAfter(more, i) = Service!NodesAfter(cmds, i)
  BY <1>1, NodesAfterKept
<1>7. \A x : x \in Service!NodesAfter(cmds, n) <=> x \in Range(chain)
  <2>1. n \in 0..n /\ \A i \in 1..a : born[i] <= n
    BY <1>2, <1>3
  <2>2. \A x : x \in Service!NodesAfter(cmds, n) <=>
                  \E i \in 1..a : born[i] <= n /\ chain[i] = x
    BY <1>1, <2>1 DEF ChainKnown
  <2>3. QED
    BY <1>4, <2>1, <2>2
<1>8. Service!NodesAfter(more, n + 1) = AddedTo(Service!NodesAfter(cmds, n), cmd)
  <2>1. n + 1 \in 1..Len(more) /\ (n + 1) - 1 = n /\ n \in 0..n
    BY <1>2
  <2>2. Service!NodesAfter(more, n + 1) = AddedTo(Service!NodesAfter(more, n), cmd)
    BY <1>2, <2>1, NodesAfterOne
  <2>3. QED
    BY <1>6, <2>1, <2>2
\* Whatever chain2 is, if it is what the command makes of the chain.
<1>9. ASSUME NEW chain2, NEW born2, chain2 = LengthenedBy(chain, cmd),
             Births(n + 1, chain2, born2), Len(chain2) >= a,
             \A i \in 1..a : chain2[i] = chain[i] /\ born2[i] = born[i],
             \A i \in 1..Len(chain2) : i > a => born2[i] = n + 1,
             \A x : x \in AddedTo(Service!NodesAfter(cmds, n), cmd)
                      <=> \E i \in 1..Len(chain2) : chain2[i] = x,
             IsKept(cmd, n + 1, chain2, born2)
      PROVE  ChainKnown(more, chain2, born2)
  <2>1. chain2 = ChainOf(more)
    BY <1>5, <1>9
  <2>2. Births(n, chain, born)
    BY <1>1 DEF ChainKnown
  <2>3. ASSUME NEW m \in 0..n
        PROVE  /\ \A x : (\E i \in 1..a : born[i] <= m /\ chain[i] = x)
                     <=> \E i \in 1..Len(chain2) : born2[i] <= m /\ chain2[i] = x
               /\ \A c : IsKept(c, m, chain, born) => IsKept(c, m, chain2, born2)
    <3>1. /\ Len(chain2) >= Len(chain)
          /\ \A i \in 1..Len(chain) : chain2[i] = chain[i] /\ born2[i] = born[i]
          /\ \A i \in 1..Len(chain2) : i > Len(chain) => born2[i] = n + 1
      BY <1>1, <1>9
    <3>2. /\ \A x : (\E i \in 1..Len(chain) : born[i] <= m /\ chain[i] = x)
                     <=> \E i \in 1..Len(chain2) : born2[i] <= m /\ chain2[i] = x
          /\ \A c : IsKept(c, m, chain, born) => IsKept(c, m, chain2, born2)
      <4>1. n \in Nat /\ Births(n + 1, chain2, born2) /\ Births(n, chain, born)
        BY <1>2, <1>9, <2>2
      <4>2. QED
        BY <3>1, <4>1, KeptStays
    <3>3. QED
      BY <1>1, <3>2
  <2>4. ASSUME NEW m \in 0..(n + 1), NEW x
        PROVE  x \in Service!NodesAfter(more, m) <=>
                 \E i \in 1..Len(chain2) : born2[i] <= m /\ chain2[i] = x
    <3>1. CASE m \in 0..n
      <4>1. x \in Service!NodesAfter(cmds, m) <=>
              \E i \in 1..a : born[i] <= m /\ chain[i] = x
        BY <1>1, <3>1 DEF ChainKnown
      <4>2. QED
        BY <1>6, <2>3, <3>1, <4>1
    <3>2. CASE m = n + 1
      <4>1. \A i \in 1..Len(chain2) : born2[i] <= n + 1
        <5>1. n + 1 \in Nat
          BY <1>2
        <5>2. QED
          BY <1>9, <5>1, BirthsTyped, Zenon
      <4>2. QED
        BY <1>8, <1>9, <3>2, <4>1
    <3>3. QED
      BY <1>2, <3>1, <3>2
  <2>5. ASSUME NEW m \in 1..(n + 1) PROVE IsKept(more[m], m, chain2, born2)
    <3>1. CASE m \in 1..n
      <4>1. IsKept(cmds[m], m, chain, born) /\ m \in 0..n
        BY <1>1, <3>1 DEF ChainKnown
      <4>2. IsKept(cmds[m], m, chain2, born2)
        BY <2>3, <4>1
      <4>3. QED
        BY <1>2, <3>1, <4>2
    <3>2. CASE m = n + 1
      BY <1>2, <1>9, <3>2
    <3>3. QED
      BY <1>2, <3>1, <3>2
  <2>6. QED
    BY <1>2, <1>9, <2>1, <2>4, <2>5 DEF ChainKnown
<1>10. CASE /\ cmd.type = "CommandCreate" /\ cmd.parentId = chain[a]
            /\ cmd.newNodeId \notin Range(chain)
  <2>0. cmd.newNodeId \in Nat
    BY <1>10 DEF CommandMsg, CommandPrintTree
  <2>1. PICK chain2 : chain2 = Append(chain, cmd.newNodeId)
    OBVIOUS
  <2>2. PICK born2 : born2 = [i \in 1..(a + 1) |-> IF i = a + 1 THEN n + 1 ELSE born[i]]
    OBVIOUS
  <2>3. /\ chain2 \in Seq(Nat) /\ Len(chain2) = a + 1
        /\ \A i \in 1..a : chain2[i] = chain[i]
        /\ chain2[a + 1] = cmd.newNodeId
    BY <1>1, <1>3, <2>0, <2>1, AppendProperties
  <2>4. /\ \A i \in 1..a : i \in 1..(a + 1) /\ born2[i] = born[i] /\ born[i] \in 0..n
        /\ a + 1 \in 1..(a + 1) /\ born2[a + 1] = n + 1
        /\ \A i \in 1..(a + 1) : i \in 1..a \/ i = a + 1
    BY <1>3, <2>2
  <2>5. \A i \in 1..a : chain[i] # cmd.newNodeId
    BY <1>4, <1>10
  <2>6. Births(n + 1, chain2, born2)
    <3>1. born2 \in [1..(a + 1) -> 0..(n + 1)]
      <4>1. \A i \in 1..(a + 1) : born2[i] \in 0..(n + 1)
        BY <1>2, <2>4
      <4>2. QED
        BY <2>2, <4>1
    <3>2. ASSUME NEW i \in 1..(a + 1), NEW j \in 1..(a + 1), i < j
          PROVE  born2[i] < born2[j] /\ chain2[i] # chain2[j]
      <4>1. i \in 1..a
        BY <1>3, <3>2
      <4>2. CASE j \in 1..a
        BY <1>3, <2>3, <2>4, <3>2, <4>1, <4>2
      <4>3. CASE j = a + 1
        <5>1. PICK b \in 0..n : b = born2[i]
          BY <2>4, <4>1, Zenon
        <5>2. b < n + 1
          BY <1>2, <5>1
        <5>3. born2[j] = n + 1 /\ chain2[j] = cmd.newNodeId
          BY <2>3, <2>4, <4>3, Zenon
        <5>4. chain2[i] # cmd.newNodeId
          BY <2>3, <2>5, <4>1, Zenon
        <5>5. QED
          BY <5>1, <5>2, <5>3, <5>4, Zenon
      <4>4. QED
        BY <2>4, <4>2, <4>3
    <3>3. 1 \in 1..a
      BY <1>3
    <3>4. QED
      BY <1>3, <2>3, <2>4, <3>1, <3>2, <3>3 DEF Births
  <2>7. chain2 = LengthenedBy(chain, cmd)
    BY <1>3, <1>10, <2>1 DEF LengthenedBy
  <2>8. a \in 1..a /\ cmd.parentId \in Service!NodesAfter(cmds, n)
    BY <1>3, <1>4, <1>7, <1>10
  <2>9. ASSUME NEW x
        PROVE  x \in AddedTo(Service!NodesAfter(cmds, n), cmd)
                 <=> \E i \in 1..Len(chain2) : chain2[i] = x
    <3>1. x \in AddedTo(Service!NodesAfter(cmds, n), cmd)
            <=> x \in Range(chain) \/ x = cmd.newNodeId
      BY <1>7, <1>10, <2>8 DEF AddedTo
    <3>2. QED
      BY <1>4, <2>3, <2>4, <3>1
  <2>10. IsKept(cmd, n + 1, chain2, born2)
    <3>1. a + 1 \in 2..(a + 1) /\ (a + 1) - 1 = a /\ a \in 1..a
      BY <1>3
    <3>2. GivesBirth(cmd, n + 1, chain2, born2)
      BY <1>10, <2>3, <2>4, <3>1 DEF GivesBirth
    <3>3. QED
      BY <3>2 DEF IsKept
  <2>11. Len(chain2) >= a /\ \A i \in 1..Len(chain2) : i > a => born2[i] = n + 1
    BY <1>3, <2>3, <2>4
  <2>12. ChainKnown(more, chain2, born2)
    BY <1>9, <2>3, <2>4, <2>6, <2>7, <2>9, <2>10, <2>11
  <2>13. QED
    BY <1>1, <2>3, <2>4, <2>11, <2>12
<1>11. CASE ~(/\ cmd.type = "CommandCreate" /\ cmd.parentId = chain[a]
              /\ cmd.newNodeId \notin Range(chain))
  <2>1. chain = LengthenedBy(chain, cmd)
    BY <1>3, <1>11 DEF LengthenedBy
  <2>2. Births(n + 1, chain, born)
    <3>1. born \in [1..a -> 0..(n + 1)]
      BY <1>2, <1>3
    <3>2. QED
      BY <1>1, <1>3, <3>1 DEF Births
  <2>3. cmd.type = "CommandCreate" =>
          cmd.newNodeId \in Range(chain) \/ cmd.parentId \notin Range(chain)
    BY <1>3, <1>11
  <2>4. ASSUME NEW x
        PROVE  x \in AddedTo(Service!NodesAfter(cmds, n), cmd)
                 <=> \E i \in 1..Len(chain) : chain[i] = x
    <3>1. x \in AddedTo(Service!NodesAfter(cmds, n), cmd) <=> x \in Range(chain)
      BY <1>7, <2>3 DEF AddedTo
    <3>2. QED
      BY <1>1, <1>4, <3>1
  <2>5. IsKept(cmd, n + 1, chain, born)
    <3>1. \A i \in 1..a : born[i] < n + 1
      BY <1>2, <1>3
    <3>2. SUFFICES ASSUME cmd.type = "CommandCreate"
                   PROVE  \/ NamesOneAbove(cmd, n + 1, chain, born)
                          \/ NamesNobody(cmd, n + 1, chain, born)
      BY DEF IsKept
    <3>3. CASE cmd.newNodeId \in Range(chain)
      <4>1. PICK i \in 1..a : chain[i] = cmd.newNodeId
        BY <1>4, <3>3
      <4>2. \A j \in 1..a : chain[j] = cmd.parentId => i <= j
        BY <1>3, <3>2, <3>3, <4>1
      <4>3. QED
        BY <1>1, <3>1, <4>1, <4>2 DEF NamesOneAbove
    <3>4. CASE cmd.newNodeId \notin Range(chain)
      BY <1>1, <1>4, <2>3, <3>2, <3>4 DEF NamesNobody
    <3>5. QED
      BY <3>3, <3>4
  <2>6. Len(chain) >= a /\ \A i \in 1..Len(chain) : i > a => born[i] = n + 1
    BY <1>1, <1>3
  <2>7. ChainKnown(more, chain, born)
    BY <1>9, <2>1, <2>2, <2>4, <2>5, <2>6
  <2>8. QED
    BY <1>1, <2>6, <2>7
<1>12. QED
  BY <1>10, <1>11


-----------------------------------------------------------------------------
(***************************************************************************)
(* What a process of the chain makes of a command, and a sequential        *)
(* execution.  Process q is the node chain[q + 1].                         *)
(***************************************************************************)

\* A command that the q-th process of the chain does not pass on.
IsFor(cmd, q, chain) ==
  \/ cmd.type = "CommandCreate" /\ chain[q + 1] \in {cmd.newNodeId, cmd.parentId}
  \/ cmd.type = "CommandExec" /\ q > 0 /\ chain[q + 1] = cmd.nodeId

\* The n-th command has been passed on by the processes above p, and those up
\* to f are older than it.
Reached(cmd, n, p, f, chain, born) ==
  /\ \A q \in 0..(p - 1) : ~IsFor(cmd, q, chain)
  /\ \A i \in 1..(f + 1) : born[i] < n

LEMMA CreateIsHere ==
  ASSUME NEW len \in Nat, NEW chain, NEW born, Births(len, chain, born),
         NEW f \in Nat, f + 1 <= Len(chain), NEW p \in 0..f, NEW n \in Nat,
         NEW cmd, cmd.type = "CommandCreate", Reached(cmd, n, p, f, chain, born)
  PROVE  /\ cmd.newNodeId = chain[p + 1] => NamesOneAbove(cmd, n, chain, born)
         /\ /\ IsKept(cmd, n, chain, born)
            /\ cmd.newNodeId # chain[p + 1] /\ cmd.parentId = chain[p + 1]
            => /\ GivesBirth(cmd, n, chain, born)
               /\ p = f /\ f + 2 <= Len(chain)
               /\ born[f + 2] = n /\ chain[f + 2] = cmd.newNodeId
<1>1. /\ Len(chain) \in Nat
      /\ \A i \in 1..Len(chain) : born[i] \in Nat
      /\ \A i, j \in 1..Len(chain) : i < j => born[i] < born[j] /\ chain[i] # chain[j]
  BY BirthsTyped, Zenon
<1>2. \A q \in 0..(p - 1) : chain[q + 1] # cmd.newNodeId /\ chain[q + 1] # cmd.parentId
  BY DEF Reached, IsFor
<1>3. \A i \in 1..p : chain[i] # cmd.newNodeId /\ chain[i] # cmd.parentId
  <2>1. SUFFICES ASSUME NEW i \in 1..p
                 PROVE  chain[i] # cmd.newNodeId /\ chain[i] # cmd.parentId
    OBVIOUS
  <2>2. i - 1 \in 0..(p - 1) /\ (i - 1) + 1 = i
    OBVIOUS
  <2>3. QED
    BY <1>2, <2>2
<1>4. p + 1 \in 1..Len(chain) /\ p + 1 \in 1..(f + 1) /\ born[p + 1] < n
  BY <1>1 DEF Reached
<1>5. ASSUME cmd.newNodeId = chain[p + 1] PROVE NamesOneAbove(cmd, n, chain, born)
  <2>1. \A j \in 1..Len(chain) : chain[j] = cmd.parentId => p + 1 <= j
    BY <1>1, <1>3
  <2>2. QED
    BY <1>4, <1>5, <2>1 DEF NamesOneAbove
<1>6. ASSUME IsKept(cmd, n, chain, born), cmd.newNodeId # chain[p + 1],
             cmd.parentId = chain[p + 1]
      PROVE  /\ GivesBirth(cmd, n, chain, born)
             /\ p = f /\ f + 2 <= Len(chain)
             /\ born[f + 2] = n /\ chain[f + 2] = cmd.newNodeId
  <2>1. ~NamesNobody(cmd, n, chain, born)
    BY <1>4, <1>6 DEF NamesNobody
  <2>2. ASSUME NamesOneAbove(cmd, n, chain, born) PROVE FALSE
    <3>1. PICK i \in 1..Len(chain) : chain[i] = cmd.newNodeId /\ i <= p + 1
      BY <1>4, <1>6, <2>2 DEF NamesOneAbove
    <3>2. i \in 1..p
      BY <1>6, <3>1
    <3>3. QED
      BY <1>3, <3>1, <3>2
  <2>3. GivesBirth(cmd, n, chain, born)
    BY <1>6, <2>1, <2>2 DEF IsKept
  <2>4. PICK i \in 2..Len(chain) :
          born[i] = n /\ chain[i] = cmd.newNodeId /\ chain[i - 1] = cmd.parentId
    BY <2>3 DEF GivesBirth
  <2>5. i - 1 = p + 1
    BY <1>1, <1>4, <1>6, <2>4
  <2>6. i > f + 1
    <3>1. SUFFICES ASSUME i \in 1..(f + 1) PROVE FALSE
      BY <1>1
    <3>2. born[i] < n
      BY <3>1 DEF Reached
    <3>3. QED
      BY <2>4, <3>2
  <2>7. p = f /\ i = f + 2
    BY <1>1, <2>5, <2>6
  <2>8. QED
    BY <1>1, <2>3, <2>4, <2>7
<1>7. QED
  BY <1>5, <1>6

LEMMA CreateIsNowhere ==
  ASSUME NEW len \in Nat, NEW chain, NEW born, Births(len, chain, born),
         NEW f \in Nat, f + 1 <= Len(chain), NEW n \in Nat,
         NEW cmd, cmd.type = "CommandCreate", Reached(cmd, n, f, f, chain, born),
         \A i \in (f + 2)..Len(chain) : born[i] >= n,
         IsKept(cmd, n, chain, born), ~IsFor(cmd, f, chain)
  PROVE  NamesNobody(cmd, n, chain, born)
<1>1. /\ Len(chain) \in Nat
      /\ \A i \in 1..Len(chain) : born[i] \in Nat
      /\ \A i, j \in 1..Len(chain) : i < j => born[i] < born[j] /\ chain[i] # chain[j]
  BY BirthsTyped, Zenon
<1>2. \A q \in 0..f : chain[q + 1] # cmd.newNodeId /\ chain[q + 1] # cmd.parentId
  BY DEF Reached, IsFor
<1>3. \A i \in 1..(f + 1) : chain[i] # cmd.newNodeId /\ chain[i] # cmd.parentId
  <2>1. SUFFICES ASSUME NEW i \in 1..(f + 1)
                 PROVE  chain[i] # cmd.newNodeId /\ chain[i] # cmd.parentId
    OBVIOUS
  <2>2. i - 1 \in 0..f /\ (i - 1) + 1 = i
    OBVIOUS
  <2>3. QED
    BY <1>2, <2>2
<1>4. ASSUME NEW i \in 1..Len(chain), born[i] < n PROVE i \in 1..(f + 1)
  BY <1>1, <1>4
<1>5. QED
  BY <1>3, <1>4 DEF NamesNobody

LEMMA ExecIsNowhere ==
  ASSUME NEW len \in Nat, NEW chain, NEW born, Births(len, chain, born),
         NEW f \in Nat, f + 1 <= Len(chain), NEW n \in Nat,
         NEW cmd, cmd.type = "CommandExec", Reached(cmd, n, f, f, chain, born),
         \A i \in (f + 2)..Len(chain) : born[i] >= n,
         ~IsFor(cmd, f, chain)
  PROVE  ~\E i \in 2..Len(chain) : born[i] < n /\ chain[i] = cmd.nodeId
<1>1. /\ Len(chain) \in Nat
      /\ \A i \in 1..Len(chain) : born[i] \in Nat
  BY BirthsTyped, Zenon
<1>2. SUFFICES ASSUME NEW i \in 2..Len(chain), born[i] < n, chain[i] = cmd.nodeId
               PROVE  FALSE
  OBVIOUS
<1>3. i \in 2..(f + 1)
  BY <1>1, <1>2
<1>4. i - 1 \in 0..f /\ i - 1 > 0 /\ (i - 1) + 1 = i
  BY <1>3
<1>5. ~IsFor(cmd, i - 1, chain)
  BY <1>4 DEF Reached
<1>6. QED
  BY <1>2, <1>4, <1>5 DEF IsFor


-----------------------------------------------------------------------------
(***************************************************************************)
(* The note of where each command is: for each path a sequence of numbers, *)
(* those of the commands, or of the commands that its responses answer.    *)
(***************************************************************************)
OnceEach(note) ==
  \A p \in Processes : \A i, j \in 1..Len(note[p]) :
    note[p][i] = note[p][j] => i = j

Ascending(note) ==
  \A p \in Processes : \A i, j \in 1..Len(note[p]) :
    i < j => note[p][i] < note[p][j]

LEMMA NoteAt ==
  ASSUME NEW note \in Paths(Nat), NEW p \in Processes
  PROVE  /\ Len(note[p]) \in Nat
         /\ \A i \in 1..Len(note[p]) : note[p][i] \in Nat /\ note[p][i] \in Range(note[p])
         /\ \A n \in Range(note[p]) : \E i \in 1..Len(note[p]) : note[p][i] = n
<1>1. note[p] \in Seq(Nat)
  BY DEF Paths
<1>2. DOMAIN note[p] = 1..Len(note[p]) /\ Len(note[p]) \in Nat
  BY <1>1, LenProperties
<1>3. QED
  BY <1>1, <1>2, ElementOfSeq DEF Range

LEMMA AscendingIsOnce ==
  ASSUME NEW note \in Paths(Nat), Ascending(note)
  PROVE  OnceEach(note)
<1>1. SUFFICES ASSUME NEW p \in Processes, NEW i \in 1..Len(note[p]),
                      NEW j \in 1..Len(note[p]), note[p][i] = note[p][j], i # j
               PROVE  FALSE
  BY DEF OnceEach
<1>2. note[p][i] \in Nat
  BY NoteAt
<1>3. i < j \/ j < i
  BY <1>1
<1>4. QED
  BY <1>1, <1>2, <1>3 DEF Ascending

NumbersOn(note) == [p \in Processes |-> Range(note[p])]

Without(A, p, n, A2) ==
  \A q \in Processes : A2[q] = IF q = p THEN A[q] \ {n} ELSE A[q]

With(A, p, n, A2) ==
  \A q \in Processes : A2[q] = IF q = p THEN A[q] \cup {n} ELSE A[q]

IsFirst(A, p, n) == n \in A[p] /\ \A m \in A[p] : m = n \/ n < m

TakenFrom(note, p, n, rest) ==
  /\ rest \in Paths(Nat) /\ OnceEach(rest)
  /\ n \in Nat /\ n \in NumbersOn(note)[p]
  /\ Without(NumbersOn(note), p, n, NumbersOn(rest))
  /\ Ascending(note) => Ascending(rest) /\ IsFirst(NumbersOn(note), p, n)

PushedOn(note, p, n, more) ==
  /\ more \in Paths(Nat) /\ OnceEach(more)
  /\ With(NumbersOn(note), p, n, NumbersOn(more))
  /\ Ascending(note) /\ (\A m \in NumbersOn(note)[p] : m < n) => Ascending(more)

\* The first number is taken.
LEMMA NoteTaken ==
  ASSUME NEW note \in Paths(Nat), OnceEach(note),
         NEW p \in Processes, note[p] # <<>>,
         NEW rest, rest = Consumed(note, p), NEW n, n = Head(note[p])
  PROVE  TakenFrom(note, p, n, rest)
<1>1. /\ Len(note[p]) \in Nat \ {0} /\ n = note[p][1]
      /\ \A q \in Processes : Len(note[q]) \in Nat
      /\ \A q \in Processes :
           Len(rest[q]) = IF q = p THEN Len(note[q]) - 1 ELSE Len(note[q])
      /\ \A q \in Processes : \A i \in 1..Len(rest[q]) :
           rest[q][i] = IF q = p THEN note[q][i + 1] ELSE note[q][i]
  BY ConsumedPlaces
<1>2. rest \in Paths(Nat) /\ n \in Nat
  BY ConsumedIsPath
<1>3. \A q \in Processes : \A i \in 1..Len(rest[q]) : q = p => i + 1 \in 1..Len(note[q])
  BY <1>1
<1>4. OnceEach(rest)
  <2>1. SUFFICES ASSUME NEW q \in Processes, NEW i \in 1..Len(rest[q]),
                        NEW j \in 1..Len(rest[q]), rest[q][i] = rest[q][j]
                 PROVE  i = j
    BY DEF OnceEach
  <2>2. CASE q = p
    <3>1. i + 1 \in 1..Len(note[p]) /\ j + 1 \in 1..Len(note[p])
      BY <1>3, <2>2
    <3>2. note[p][i + 1] = note[p][j + 1]
      BY <1>1, <2>1, <2>2
    <3>3. i + 1 = j + 1
      BY <3>1, <3>2 DEF OnceEach
    <3>4. QED
      BY <3>3
  <2>3. CASE q # p
    BY <1>1, <2>1, <2>3 DEF OnceEach
  <2>4. QED
    BY <2>2, <2>3
<1>5. 1 \in 1..Len(note[p]) /\ n \in Range(note[p])
  BY <1>1, NoteAt
<1>6. ASSUME NEW q \in Processes
      PROVE  Range(rest[q]) = IF q = p THEN Range(note[p]) \ {n} ELSE Range(note[q])
  <2>1. CASE q = p
    <3>1. ASSUME NEW m \in Range(rest[p]) PROVE m \in Range(note[p]) /\ m # n
      <4>1. PICK i \in 1..Len(rest[p]) : rest[p][i] = m
        BY <1>2, NoteAt
      <4>2. i + 1 \in 1..Len(note[p]) /\ note[p][i + 1] = m
        BY <1>1, <1>3, <4>1
      <4>3. m = n => i + 1 = 1
        BY <1>1, <1>5, <4>2 DEF OnceEach
      <4>4. QED
        BY <4>2, <4>3, NoteAt
    <3>2. ASSUME NEW m \in Range(note[p]), m # n PROVE m \in Range(rest[p])
      <4>1. PICK i \in 1..Len(note[p]) : note[p][i] = m
        BY NoteAt
      <4>2. i # 1
        BY <1>1, <3>2, <4>1
      <4>3. i - 1 \in 1..Len(rest[p]) /\ (i - 1) + 1 = i
        BY <1>1, <4>2
      <4>4. rest[p][i - 1] = m
        BY <1>1, <4>1, <4>3
      <4>5. QED
        BY <1>2, <4>3, <4>4, NoteAt
    <3>3. QED
      BY <2>1, <3>1, <3>2
  <2>2. CASE q # p
    <3>1. rest[q] = note[q]
      BY <2>2 DEF Consumed, Paths
    <3>2. QED
      BY <2>2, <3>1
  <2>3. QED
    BY <2>1, <2>2
<1>7. ASSUME Ascending(note) PROVE Ascending(rest) /\ \A m \in Range(rest[p]) : n < m
  <2>1. Ascending(rest)
    <3>1. SUFFICES ASSUME NEW q \in Processes, NEW i \in 1..Len(rest[q]),
                          NEW j \in 1..Len(rest[q]), i < j
                   PROVE  rest[q][i] < rest[q][j]
      BY DEF Ascending
    <3>2. CASE q = p
      <4>1. /\ i + 1 \in 1..Len(note[p]) /\ j + 1 \in 1..Len(note[p])
            /\ i + 1 < j + 1
        BY <1>3, <3>1, <3>2
      <4>2. note[p][i + 1] < note[p][j + 1]
        BY <1>7, <4>1 DEF Ascending
      <4>3. QED
        BY <1>1, <3>2, <4>2
    <3>3. CASE q # p
      BY <1>1, <1>7, <3>1, <3>3 DEF Ascending
    <3>4. QED
      BY <3>2, <3>3
  <2>2. ASSUME NEW m \in Range(rest[p]) PROVE n < m
    <3>1. PICK i \in 1..Len(rest[p]) : rest[p][i] = m
      BY <1>2, NoteAt
    <3>2. i + 1 \in 1..Len(note[p]) /\ note[p][i + 1] = m /\ 1 < i + 1
      BY <1>1, <1>3, <3>1
    <3>3. note[p][1] < note[p][i + 1]
      BY <1>5, <1>7, <3>2 DEF Ascending
    <3>4. QED
      BY <1>1, <3>2, <3>3
  <2>3. QED
    BY <2>1, <2>2
<1>8. Without(NumbersOn(note), p, n, NumbersOn(rest)) /\ n \in NumbersOn(note)[p]
  BY <1>5, <1>6 DEF NumbersOn, Without
<1>9. ASSUME Ascending(note) PROVE IsFirst(NumbersOn(note), p, n)
  <2>1. ASSUME NEW m \in Range(note[p]), m # n PROVE n < m
    BY <1>6, <1>7, <1>9, <2>1
  <2>2. QED
    BY <1>8, <2>1 DEF NumbersOn, IsFirst
<1>10. QED
  BY <1>2, <1>4, <1>7, <1>8, <1>9 DEF TakenFrom

\* A number is added.
LEMMA NotePushed ==
  ASSUME NEW note \in Paths(Nat), OnceEach(note), NEW p \in Processes, NEW n \in Nat,
         n \notin NumbersOn(note)[p], NEW more, more = redirectToAncestor(note, p, n)
  PROVE  PushedOn(note, p, n, more)
<1>0. n \notin Range(note[p])
  BY DEF NumbersOn
<1>1. /\ \A q \in Processes : Len(note[q]) \in Nat
      /\ \A q \in Processes :
           Len(more[q]) = IF q = p THEN Len(note[q]) + 1 ELSE Len(note[q])
      /\ \A q \in Processes : \A i \in 1..Len(note[q]) : more[q][i] = note[q][i]
      /\ more[p][Len(note[p]) + 1] = n
  BY RedirectedPlaces
<1>2. more \in Paths(Nat)
  BY RedirectedIsPath
<1>3. \A q \in Processes : q # p => more[q] = note[q]
  BY DEF redirectToAncestor, Paths
<1>4. \A i \in 1..Len(more[p]) : i \in 1..Len(note[p]) \/ i = Len(note[p]) + 1
  BY <1>1
<1>5. \A i \in 1..Len(note[p]) : note[p][i] \in Range(note[p]) /\ more[p][i] = note[p][i]
  BY <1>1, NoteAt
<1>6. OnceEach(more)
  <2>1. SUFFICES ASSUME NEW q \in Processes, NEW i \in 1..Len(more[q]),
                        NEW j \in 1..Len(more[q]), more[q][i] = more[q][j]
                 PROVE  i = j
    BY DEF OnceEach
  <2>2. CASE q = p
    <3>1. CASE i \in 1..Len(note[p]) /\ j \in 1..Len(note[p])
      BY <1>5, <2>1, <2>2, <3>1 DEF OnceEach
    <3>2. CASE i = Len(note[p]) + 1 \/ j = Len(note[p]) + 1
      BY <1>0, <1>1, <1>4, <1>5, <2>1, <2>2, <3>2
    <3>3. QED
      BY <1>4, <2>2, <3>1, <3>2
  <2>3. CASE q # p
    BY <1>3, <2>1, <2>3 DEF OnceEach
  <2>4. QED
    BY <2>2, <2>3
<1>7. ASSUME NEW q \in Processes
      PROVE  Range(more[q]) = IF q = p THEN Range(note[p]) \cup {n} ELSE Range(note[q])
  <2>1. CASE q = p
    <3>1. ASSUME NEW m \in Range(more[p]) PROVE m \in Range(note[p]) \cup {n}
      <4>0. \A k \in Range(more[p]) : \E i \in 1..Len(more[p]) : more[p][i] = k
        BY <1>2, NoteAt, Zenon
      <4>1. PICK i \in 1..Len(more[p]) : more[p][i] = m
        BY <3>1, <4>0, Zenon
      <4>2. QED
        BY <1>1, <1>4, <1>5, <4>1
    <3>2. ASSUME NEW m \in Range(note[p]) PROVE m \in Range(more[p])
      <4>1. PICK i \in 1..Len(note[p]) : note[p][i] = m
        BY NoteAt
      <4>2. i \in 1..Len(more[p]) /\ more[p][i] = m
        BY <1>1, <4>1
      <4>3. QED
        BY <1>2, <4>2, NoteAt
    <3>3. n \in Range(more[p])
      <4>1. Len(note[p]) + 1 \in 1..Len(more[p])
        BY <1>1
      <4>2. QED
        BY <1>1, <1>2, <4>1, NoteAt
    <3>4. QED
      BY <2>1, <3>1, <3>2, <3>3
  <2>2. CASE q # p
    BY <1>3, <2>2
  <2>3. QED
    BY <2>1, <2>2
<1>8. ASSUME Ascending(note), \A m \in Range(note[p]) : m < n PROVE Ascending(more)
  <2>1. SUFFICES ASSUME NEW q \in Processes, NEW i \in 1..Len(more[q]),
                        NEW j \in 1..Len(more[q]), i < j
                 PROVE  more[q][i] < more[q][j]
    BY DEF Ascending
  <2>2. CASE q = p
    <3>1. i \in 1..Len(note[p])
      BY <1>1, <1>4, <2>1, <2>2
    <3>2. CASE j \in 1..Len(note[p])
      BY <1>5, <1>8, <2>1, <2>2, <3>1, <3>2 DEF Ascending
    <3>3. CASE j = Len(note[p]) + 1
      BY <1>1, <1>5, <1>8, <2>2, <3>1, <3>3
    <3>4. QED
      BY <1>4, <2>2, <3>2, <3>3
  <2>3. CASE q # p
    BY <1>3, <1>8, <2>1, <2>3 DEF Ascending
  <2>4. QED
    BY <2>2, <2>3
<1>9. With(NumbersOn(note), p, n, NumbersOn(more))
  BY <1>7 DEF NumbersOn, With
<1>10. Ascending(note) /\ (\A m \in NumbersOn(note)[p] : m < n) => Ascending(more)
  BY <1>8 DEF NumbersOn
<1>11. QED
  BY <1>2, <1>6, <1>9, <1>10 DEF PushedOn


\* The note is about the messages, in their places, and nothing is on the way
\* to or from a process after f.
Noted(note, path, rel, f) ==
  /\ note \in Paths(Nat)
  /\ \A p \in Processes :
        /\ Len(note[p]) = Len(path[p])
        /\ p > f => note[p] = <<>>
        /\ \A i \in 1..Len(note[p]) : <<path[p][i], note[p][i]>> \in rel

LEMMA NotedTaken ==
  ASSUME NEW S, NEW path \in Paths(S), NEW note, NEW rel, NEW f,
         Noted(note, path, rel, f), NEW p \in Processes, path[p] # <<>>
  PROVE  /\ note \in Paths(Nat) /\ note[p] # <<>> /\ ~(p > f)
         /\ <<Head(path[p]), Head(note[p])>> \in rel
         /\ Noted(Consumed(note, p), Consumed(path, p), rel, f)
<1>1. /\ note \in Paths(Nat)
      /\ \A q \in Processes : Len(note[q]) = Len(path[q])
      /\ \A q \in Processes : q > f => note[q] = <<>>
      /\ \A q \in Processes : \A i \in 1..Len(note[q]) :
            <<path[q][i], note[q][i]>> \in rel
  BY DEF Noted
<1>2. PICK rest : rest = Consumed(path, p)
  OBVIOUS
<1>3. /\ Len(path[p]) \in Nat \ {0} /\ Head(path[p]) = path[p][1]
      /\ \A q \in Processes : Len(path[q]) \in Nat
      /\ \A q \in Processes :
           Len(rest[q]) = IF q = p THEN Len(path[q]) - 1 ELSE Len(path[q])
      /\ \A q \in Processes : \A i \in 1..Len(rest[q]) :
           rest[q][i] = IF q = p THEN path[q][i + 1] ELSE path[q][i]
  BY <1>2, ConsumedPlaces
<1>4. note[p] # <<>>
  <2>1. note[p] \in Seq(Nat) /\ Len(note[p]) # 0
    BY <1>1, <1>3 DEF Paths
  <2>2. QED
    BY <2>1, EmptySeq
<1>5. PICK less : less = Consumed(note, p)
  OBVIOUS
<1>6. /\ Head(note[p]) = note[p][1]
      /\ \A q \in Processes :
           Len(less[q]) = IF q = p THEN Len(note[q]) - 1 ELSE Len(note[q])
      /\ \A q \in Processes : \A i \in 1..Len(less[q]) :
           less[q][i] = IF q = p THEN note[q][i + 1] ELSE note[q][i]
  BY <1>1, <1>4, <1>5, ConsumedPlaces
<1>7. less \in Paths(Nat)
  BY <1>1, <1>4, <1>5, ConsumedIsPath
<1>8. <<Head(path[p]), Head(note[p])>> \in rel
  <2>1. 1 \in 1..Len(note[p])
    BY <1>1, <1>3
  <2>2. QED
    BY <1>1, <1>3, <1>6, <2>1
<1>9. ASSUME NEW q \in Processes
      PROVE  /\ Len(less[q]) = Len(rest[q])
             /\ q > f => less[q] = <<>>
             /\ \A i \in 1..Len(less[q]) : <<rest[q][i], less[q][i]>> \in rel
  <2>1. CASE q = p
    <3>1. Len(less[q]) = Len(rest[q])
      BY <1>1, <1>3, <1>6, <2>1
    <3>2. ASSUME NEW i \in 1..Len(less[q]) PROVE <<rest[q][i], less[q][i]>> \in rel
      <4>1. i + 1 \in 1..Len(note[p])
        BY <1>1, <1>3, <1>6, <2>1
      <4>2. rest[q][i] = path[p][i + 1] /\ less[q][i] = note[p][i + 1]
        BY <1>3, <1>6, <2>1, <3>1
      <4>3. QED
        BY <1>1, <4>1, <4>2
    <3>3. ~(q > f)
      BY <1>1, <1>4, <2>1
    <3>4. QED
      BY <3>1, <3>2, <3>3
  <2>2. CASE q # p
    <3>1. rest[q] = path[q] /\ less[q] = note[q]
      BY <1>1, <1>2, <1>5, <2>2 DEF Consumed, Paths
    <3>2. QED
      BY <1>1, <3>1
  <2>3. QED
    BY <2>1, <2>2
<1>10. Noted(less, rest, rel, f)
  BY <1>7, <1>9 DEF Noted
<1>11. QED
  BY <1>1, <1>2, <1>4, <1>5, <1>8, <1>10

LEMMA NotedPushed ==
  ASSUME NEW S, NEW path \in Paths(S), NEW note, NEW rel, NEW f,
         Noted(note, path, rel, f), NEW p \in Processes, ~(p > f),
         NEW m \in S, NEW n \in Nat, <<m, n>> \in rel
  PROVE  Noted(redirectToAncestor(note, p, n), redirectToAncestor(path, p, m), rel, f)
<1>1. /\ note \in Paths(Nat)
      /\ \A q \in Processes : Len(note[q]) = Len(path[q])
      /\ \A q \in Processes : q > f => note[q] = <<>>
      /\ \A q \in Processes : \A i \in 1..Len(note[q]) :
            <<path[q][i], note[q][i]>> \in rel
  BY DEF Noted
<1>2. PICK more : more = redirectToAncestor(path, p, m)
  OBVIOUS
<1>3. /\ \A q \in Processes : Len(path[q]) \in Nat
      /\ \A q \in Processes :
           Len(more[q]) = IF q = p THEN Len(path[q]) + 1 ELSE Len(path[q])
      /\ \A q \in Processes : \A i \in 1..Len(path[q]) : more[q][i] = path[q][i]
      /\ more[p][Len(path[p]) + 1] = m
  BY <1>2, RedirectedPlaces
<1>4. PICK longer : longer = redirectToAncestor(note, p, n)
  OBVIOUS
<1>5. /\ \A q \in Processes :
           Len(longer[q]) = IF q = p THEN Len(note[q]) + 1 ELSE Len(note[q])
      /\ \A q \in Processes : \A i \in 1..Len(note[q]) : longer[q][i] = note[q][i]
      /\ longer[p][Len(note[p]) + 1] = n
  BY <1>1, <1>4, RedirectedPlaces
<1>6. longer \in Paths(Nat)
  BY <1>1, <1>4, RedirectedIsPath
<1>7. ASSUME NEW q \in Processes
      PROVE  /\ Len(longer[q]) = Len(more[q])
             /\ q > f => longer[q] = <<>>
             /\ \A i \in 1..Len(longer[q]) : <<more[q][i], longer[q][i]>> \in rel
  <2>1. CASE q = p
    <3>1. Len(longer[q]) = Len(more[q])
      BY <1>1, <1>3, <1>5, <2>1
    <3>2. ASSUME NEW i \in 1..Len(longer[q]) PROVE <<more[q][i], longer[q][i]>> \in rel
      <4>1. CASE i = Len(note[p]) + 1
        BY <1>1, <1>3, <1>5, <2>1, <4>1
      <4>2. CASE i # Len(note[p]) + 1
        <5>1. i \in 1..Len(note[p]) /\ i \in 1..Len(path[p])
          BY <1>1, <1>3, <1>5, <2>1, <4>2
        <5>2. QED
          BY <1>1, <1>3, <1>5, <2>1, <5>1
      <4>3. QED
        BY <4>1, <4>2
    <3>3. QED
      BY <2>1, <3>1, <3>2
  <2>2. CASE q # p
    <3>1. more[q] = path[q] /\ longer[q] = note[q]
      BY <1>1, <1>2, <1>4, <2>2 DEF redirectToAncestor, Paths
    <3>2. QED
      BY <1>1, <3>1
  <2>3. QED
    BY <2>1, <2>2
<1>8. QED
  BY <1>2, <1>4, <1>6, <1>7 DEF Noted

LEMMA NotedStays ==
  ASSUME NEW note, NEW path, NEW rel, NEW f \in Nat, Noted(note, path, rel, f),
         NEW rel2, rel \subseteq rel2, NEW f2 \in Nat, f <= f2, Processes \subseteq Nat
  PROVE  Noted(note, path, rel2, f2)
<1>1. \A p \in Processes : p > f2 => p > f
  OBVIOUS
<1>2. QED
  BY <1>1 DEF Noted

\* The command born[i] creates the i-th node under the one before it.
CreatesNext(cmds, chain, born, i) ==
  /\ born[i] \in 1..Len(cmds)
  /\ cmds[born[i]].type = "CommandCreate"
  /\ cmds[born[i]].newNodeId = chain[i]
  /\ cmds[born[i]].parentId = chain[i - 1]

\* Who is born by a command is born by a create that names it and its parent.
LEMMA BirthIsCreate ==
  ASSUME NEW cmds \in Seq(CommandMsg), NEW chain, NEW born,
         ChainKnown(cmds, chain, born), NEW i \in 2..Len(chain)
  PROVE  CreatesNext(cmds, chain, born, i)
<1>1. /\ Len(chain) \in Nat /\ Len(cmds) \in Nat
      /\ \A j \in 1..Len(chain) : born[j] \in 0..Len(cmds)
      /\ \A j, k \in 1..Len(chain) : j < k => born[j] < born[k] /\ chain[j] # chain[k]
  BY LenProperties DEF ChainKnown, Births
<1>2. PICK n : n = born[i]
  OBVIOUS
<1>3. n \in 1..Len(cmds) /\ n - 1 \in 0..Len(cmds) /\ n \in 0..Len(cmds)
  <2>1. 1 \in 1..Len(chain) /\ i \in 1..Len(chain) /\ 1 < i
    BY <1>1
  <2>2. born[1] < born[i]
    BY <1>1, <2>1
  <2>3. QED
    BY <1>1, <1>2, <2>1, <2>2
<1>4. i \in 1..Len(chain)
  BY <1>1
<1>5. PICK c : c = cmds[n]
  OBVIOUS
<1>6. chain[i] \in Service!NodesAfter(cmds, n)
  BY <1>1, <1>2, <1>3, <1>4 DEF ChainKnown
<1>7. chain[i] \notin Service!NodesAfter(cmds, n - 1)
  <2>1. SUFFICES ASSUME NEW j \in 1..Len(chain), born[j] <= n - 1, chain[j] = chain[i]
                 PROVE  FALSE
    BY <1>3 DEF ChainKnown
  <2>2. j = i
    BY <1>1, <1>4, <2>1
  <2>3. QED
    BY <1>2, <1>3, <2>1, <2>2
<1>8. Service!NodesAfter(cmds, n) = AddedTo(Service!NodesAfter(cmds, n - 1), c)
  BY <1>3, <1>5, NodesAfterOne
<1>9. c.type = "CommandCreate" /\ c.newNodeId = chain[i]
      /\ c.parentId \in Service!NodesAfter(cmds, n - 1)
  BY <1>6, <1>7, <1>8 DEF AddedTo
<1>10. IsKept(c, n, chain, born)
  BY <1>3, <1>5 DEF ChainKnown
<1>11. ~NamesOneAbove(c, n, chain, born)
  <2>1. SUFFICES ASSUME NEW j \in 1..Len(chain), born[j] < n, chain[j] = chain[i]
                 PROVE  FALSE
    BY <1>9 DEF NamesOneAbove
  <2>2. j = i
    BY <1>1, <1>4, <2>1
  <2>3. QED
    BY <1>2, <1>3, <2>1, <2>2
<1>12. ~NamesNobody(c, n, chain, born)
  <2>1. PICK j \in 1..Len(chain) : born[j] <= n - 1 /\ chain[j] = c.parentId
    BY <1>3, <1>9 DEF ChainKnown
  <2>2. born[j] < n
    BY <1>1, <1>3, <2>1
  <2>3. QED
    BY <2>1, <2>2 DEF NamesNobody
<1>13. PICK j \in 2..Len(chain) :
         born[j] = n /\ chain[j] = c.newNodeId /\ chain[j - 1] = c.parentId
  BY <1>9, <1>10, <1>11, <1>12 DEF IsKept, GivesBirth
<1>14. j = i
  BY <1>1, <1>4, <1>9, <1>13
<1>15. QED
  BY <1>2, <1>3, <1>5, <1>9, <1>13, <1>14 DEF CreatesNext

-----------------------------------------------------------------------------
(***************************************************************************)
(* What the notes are of: a command, and a response that a sequential      *)
(* execution would give, of the type that its record has.                  *)
(***************************************************************************)
KindOf(cmd) ==
  CASE cmd.type = "CommandExec" -> "Exec"
    [] cmd.type = "CommandCreate" -> "Create"
    [] OTHER -> "None"

CommandRel(cmds) ==
  {x \in DownMsg \X Nat : x[2] \in 1..Len(cmds) /\ x[1] = cmds[x[2]]}

AnswerRel(cmds) ==
  {x \in ResponseMsg \X Nat :
     /\ x[2] \in 1..Len(cmds)
     /\ x[1].type # "NodeIsDeadResponse"
     /\ RecordType(x[1]) = KindOf(cmds[x[2]])
     /\ OutcomeOf(x[1]) = Service!Outcome(cmds, x[2])}

\* Neither is changed by a command more.
LEMMA RelsGrow ==
  ASSUME NEW cmds \in Seq(CommandMsg), NEW cmd \in CommandMsg
  PROVE  /\ CommandRel(cmds) \subseteq CommandRel(Append(cmds, cmd))
         /\ AnswerRel(cmds) \subseteq AnswerRel(Append(cmds, cmd))
         /\ <<cmd, Len(cmds) + 1>> \in CommandRel(Append(cmds, cmd))
<1>1. PICK more : more = Append(cmds, cmd)
  OBVIOUS
<1>2. /\ more \in Seq(CommandMsg) /\ Len(more) = Len(cmds) + 1 /\ Len(cmds) \in Nat
      /\ \A i \in 1..Len(cmds) : more[i] = cmds[i]
      /\ more[Len(cmds) + 1] = cmd
  BY <1>1, AppendProperties, LenProperties
<1>3. CommandRel(cmds) \subseteq CommandRel(more)
  BY <1>2 DEF CommandRel
<1>4. <<cmd, Len(cmds) + 1>> \in CommandRel(more)
  BY <1>2 DEF CommandRel, DownMsg
<1>5. ASSUME NEW n \in 1..Len(cmds)
      PROVE  Service!Outcome(more, n) = Service!Outcome(cmds, n)
  <2>1. n - 1 \in 0..Len(cmds)
    BY <1>2
  <2>2. Service!NodesAfter(more, n - 1) = Service!NodesAfter(cmds, n - 1)
    BY <1>1, <2>1, NodesAfterKept
  <2>3. more[n] = cmds[n]
    BY <1>2
  <2>4. QED
    BY <2>2, <2>3, Zenon DEF Service!Outcome
<1>6. AnswerRel(cmds) \subseteq AnswerRel(more)
  <2>1. SUFFICES ASSUME NEW x \in AnswerRel(cmds) PROVE x \in AnswerRel(more)
    OBVIOUS
  <2>2. /\ x \in ResponseMsg \X Nat
        /\ x[2] \in 1..Len(cmds)
        /\ x[1].type # "NodeIsDeadResponse"
        /\ RecordType(x[1]) = KindOf(cmds[x[2]])
        /\ OutcomeOf(x[1]) = Service!Outcome(cmds, x[2])
    BY DEF AnswerRel
  <2>3. /\ x[2] \in 1..Len(more) /\ more[x[2]] = cmds[x[2]]
        /\ Service!Outcome(more, x[2]) = Service!Outcome(cmds, x[2])
    BY <1>2, <1>5, <2>2
  <2>4. QED
    BY <2>2, <2>3 DEF AnswerRel
<1>7. QED
  BY <1>1, <1>3, <1>4, <1>6

-----------------------------------------------------------------------------
(***************************************************************************)
(* Where the commands are: A[p] are the numbers of those on the way to p,  *)
(* B[p] of those whose answer is on the way from p.  Commands do not       *)
(* overtake each other, each is in one place, none is past who it is for,  *)
(* and the nodes that are there are older than the commands under way,     *)
(* among which are the births of the others.                               *)
(***************************************************************************)
InOrder(A) ==
  \A p, q \in Processes : q < p => \A m \in A[p], n \in A[q] : m < n

OnePlace(A, B) ==
  \A p, q \in Processes : \A n \in B[p] : n \notin A[q] /\ (n \in B[q] => p = q)

NotPast(A, cmds, chain) ==
  \A p \in Processes : \A n \in A[p], q \in 0..(p - 1) : ~IsFor(cmds[n], q, chain)

BornByThen(A, chain, born, f) ==
  /\ \A i \in 1..(f + 1), p \in Processes : \A n \in A[p] : born[i] < n
  /\ \A i \in (f + 2)..Len(chain) : \E p \in Processes : born[i] \in A[p]

Placed(A, B, cmds, chain, born, f) ==
  /\ \A p \in Processes : A[p] \subseteq Nat /\ B[p] \subseteq Nat
  /\ InOrder(A)
  /\ OnePlace(A, B)
  /\ NotPast(A, cmds, chain)
  /\ BornByThen(A, chain, born, f)

Nowhere(A, B, n) == \A q \in Processes : n \notin A[q] /\ n \notin B[q]

\* Pids are numbers.
LEMMA PidsAreNumbers ==
  Processes \subseteq Nat /\ Root = 0 /\ Root \in Processes
  /\ (\A p \in Processes : p > 0 <=> p \in Pids)
BY ConstantsAssumption DEF Processes, Pids, Root

LEMMA PlacedTaken ==
  ASSUME NEW A, NEW B, NEW cmds, NEW chain, NEW born, NEW f \in Nat,
         Placed(A, B, cmds, chain, born, f),
         NEW p \in Processes, NEW n \in A[p], NEW A2, Without(A, p, n, A2),
         \A i \in (f + 2)..Len(chain) : born[i] # n
  PROVE  Placed(A2, B, cmds, chain, born, f) /\ Nowhere(A2, B, n)
<1>1. \A q \in Processes : A2[q] \subseteq A[q] /\ (q = p => n \notin A2[q])
  BY DEF Without
<1>2. n \in Nat /\ Processes \subseteq Nat
  BY PidsAreNumbers DEF Placed
<1>3. InOrder(A2)
  BY <1>1 DEF Placed, InOrder
<1>4. OnePlace(A2, B)
  BY <1>1 DEF Placed, OnePlace
<1>5. NotPast(A2, cmds, chain)
  BY <1>1 DEF Placed, NotPast
<1>6. BornByThen(A2, chain, born, f)
  <2>1. ASSUME NEW i \in (f + 2)..Len(chain) PROVE \E q \in Processes : born[i] \in A2[q]
    <3>1. PICK q \in Processes : born[i] \in A[q]
      BY DEF Placed, BornByThen
    <3>2. born[i] \in A2[q]
      BY <3>1 DEF Without
    <3>3. QED
      BY <3>2
  <2>2. QED
    BY <1>1, <2>1 DEF Placed, BornByThen
<1>7. ASSUME NEW q \in Processes PROVE n \notin A2[q] /\ n \notin B[q]
  <2>1. n \notin B[q]
    BY DEF Placed, OnePlace
  <2>2. CASE q # p
    <3>1. q < p \/ p < q
      BY <1>2, <2>2
    <3>2. n \notin A[q]
      BY <1>2, <3>1 DEF Placed, InOrder
    <3>3. QED
      BY <1>1, <2>1, <3>2
  <2>3. QED
    BY <1>1, <2>1, <2>2
<1>8. QED
  BY <1>1, <1>3, <1>4, <1>5, <1>6, <1>7 DEF Placed, Nowhere

LEMMA PlacedAnswered ==
  ASSUME NEW A, NEW B, NEW cmds, NEW chain, NEW born, NEW f,
         Placed(A, B, cmds, chain, born, f),
         NEW p \in Processes, NEW n \in Nat, Nowhere(A, B, n),
         NEW B2, With(B, p, n, B2)
  PROVE  Placed(A, B2, cmds, chain, born, f)
<1>1. \A q \in Processes : \A m \in B2[q] : m \in B[q] \/ (m = n /\ q = p)
  BY DEF With
<1>2. OnePlace(A, B2)
  BY <1>1 DEF Placed, OnePlace, Nowhere
<1>3. QED
  BY <1>1, <1>2 DEF Placed

LEMMA PlacedForgotten ==
  ASSUME NEW A, NEW B, NEW cmds, NEW chain, NEW born, NEW f,
         Placed(A, B, cmds, chain, born, f),
         NEW p \in Processes, NEW n \in B[p], NEW B2, Without(B, p, n, B2)
  PROVE  Placed(A, B2, cmds, chain, born, f) /\ Nowhere(A, B2, n)
<1>1. \A q \in Processes : B2[q] \subseteq B[q] /\ (q = p => n \notin B2[q])
  BY DEF Without
<1>2. Nowhere(A, B2, n)
  BY <1>1 DEF Placed, OnePlace, Nowhere
<1>3. OnePlace(A, B2)
  BY <1>1 DEF Placed, OnePlace
<1>4. QED
  BY <1>1, <1>2, <1>3 DEF Placed

LEMMA PlacedPassed ==
  ASSUME NEW A, NEW B, NEW cmds, NEW chain, NEW born, NEW f,
         Placed(A, B, cmds, chain, born, f),
         NEW p \in Processes, NEW n, IsFirst(A, p, n), p + 1 \in Processes,
         ~IsFor(cmds[n], p, chain),
         NEW A1, Without(A, p, n, A1), NEW A2, With(A1, p + 1, n, A2)
  PROVE  Placed(A2, B, cmds, chain, born, f)
<1>1. /\ Processes \subseteq Nat /\ n \in A[p] /\ n \in Nat
      /\ \A m \in A[p] : m \in Nat /\ (m = n \/ n < m)
  BY PidsAreNumbers DEF Placed, IsFirst
<1>2. \A q \in Processes : \A m \in A2[q] :
        \/ m \in A[q] /\ (q = p => m # n)
        \/ m = n /\ q = p + 1
  BY DEF Without, With
<1>3. \A q \in Processes : \A m \in A[q] : m \in A2[q] \/ (m = n /\ n \in A2[p + 1])
  BY <1>1 DEF Without, With
<1>4. InOrder(A2)
  <2>1. SUFFICES ASSUME NEW r \in Processes, NEW q \in Processes, q < r,
                        NEW k \in A2[r], NEW m \in A2[q]
                 PROVE  k < m
    BY DEF InOrder
  <2>2. CASE k \in A[r] /\ m \in A[q]
    BY <2>1, <2>2 DEF Placed, InOrder
  <2>3. CASE k = n /\ r = p + 1 /\ m \in A[q] /\ (q = p => m # n)
    <3>1. CASE q = p
      BY <1>1, <2>3, <3>1
    <3>2. CASE q # p
      <4>1. q < p
        BY <1>1, <2>1, <2>3, <3>2
      <4>2. QED
        BY <1>1, <2>3, <4>1 DEF Placed, InOrder
    <3>3. QED
      BY <3>1, <3>2
  <2>4. CASE m = n /\ q = p + 1 /\ k \in A[r]
    <3>1. p < r
      BY <1>1, <2>1, <2>4
    <3>2. QED
      BY <1>1, <2>4, <3>1 DEF Placed, InOrder
  <2>5. ~(r = p + 1 /\ q = p + 1)
    BY <1>1, <2>1
  <2>6. QED
    BY <1>2, <2>2, <2>3, <2>4, <2>5
<1>5. OnePlace(A2, B)
  BY <1>1, <1>2 DEF Placed, OnePlace
<1>6. NotPast(A2, cmds, chain)
  <2>1. SUFFICES ASSUME NEW r \in Processes, NEW m \in A2[r], NEW q \in 0..(r - 1)
                 PROVE  ~IsFor(cmds[m], q, chain)
    BY DEF NotPast
  <2>2. CASE m \in A[r]
    BY <2>2 DEF Placed, NotPast
  <2>3. CASE m = n /\ r = p + 1
    <3>1. q = p \/ q \in 0..(p - 1)
      BY <1>1, <2>3
    <3>2. QED
      BY <1>1, <2>3, <3>1 DEF Placed, NotPast
  <2>4. QED
    BY <1>2, <2>2, <2>3
<1>7. BornByThen(A2, chain, born, f)
  BY <1>1, <1>2, <1>3 DEF Placed, BornByThen
<1>8. QED
  BY <1>1, <1>2, <1>4, <1>5, <1>6, <1>7 DEF Placed

LEMMA PlacedBorn ==
  ASSUME NEW A, NEW B, NEW cmds, NEW chain, NEW born, NEW f \in Processes,
         Placed(A, B, cmds, chain, born, f), NEW len \in Nat, Births(len, chain, born),
         NEW n, IsFirst(A, f, n), \A q \in Processes : q > f => A[q] = {},
         f + 2 <= Len(chain), born[f + 2] = n,
         NEW A2, Without(A, f, n, A2)
  PROVE  Placed(A2, B, cmds, chain, born, f + 1) /\ Nowhere(A2, B, n)
<1>1. /\ Processes \subseteq Nat /\ n \in A[f] /\ n \in Nat /\ f \in Nat
      /\ \A m \in A[f] : m \in Nat /\ (m = n \/ n < m)
  BY PidsAreNumbers DEF Placed, IsFirst
<1>2. /\ Len(chain) \in Nat
      /\ \A i, j \in 1..Len(chain) : i < j => born[i] < born[j]
      /\ \A i \in 1..Len(chain) : born[i] \in Nat
  BY LenProperties DEF Births
<1>3. \A q \in Processes : A2[q] \subseteq A[q] /\ (q = f => n \notin A2[q])
  BY DEF Without
<1>4. \A q \in Processes : \A m \in A[q] : q = f \/ q < f
  BY <1>1
<1>5. \A q \in Processes : \A m \in A2[q] : n < m
  <2>1. SUFFICES ASSUME NEW q \in Processes, NEW m \in A2[q] PROVE n < m
    OBVIOUS
  <2>2. CASE q = f
    BY <1>1, <1>3, <2>2
  <2>3. CASE q < f
    BY <1>1, <1>3, <2>3 DEF Placed, InOrder
  <2>4. QED
    BY <1>3, <1>4, <2>2, <2>3
<1>6. InOrder(A2)
  BY <1>3 DEF Placed, InOrder
<1>7. OnePlace(A2, B)
  BY <1>3 DEF Placed, OnePlace
<1>8. NotPast(A2, cmds, chain)
  BY <1>3 DEF Placed, NotPast
<1>9. BornByThen(A2, chain, born, f + 1)
  <2>1. ASSUME NEW i \in 1..((f + 1) + 1), NEW q \in Processes, NEW m \in A2[q]
        PROVE  born[i] < m
    <3>1. CASE i = f + 2
      BY <1>5, <3>1
    <3>2. CASE i # f + 2
      <4>1. i \in 1..(f + 1) /\ m \in A[q]
        BY <1>1, <1>3, <3>2
      <4>2. QED
        BY <4>1 DEF Placed, BornByThen
    <3>3. QED
      BY <3>1, <3>2
  <2>2. ASSUME NEW i \in ((f + 1) + 2)..Len(chain)
        PROVE  \E q \in Processes : born[i] \in A2[q]
    <3>1. i \in (f + 2)..Len(chain) /\ f + 2 < i /\ f + 2 \in 1..Len(chain) /\ i \in 1..Len(chain)
      BY <1>1, <1>2
    <3>2. born[i] # n
      BY <1>2, <3>1
    <3>3. PICK q \in Processes : born[i] \in A[q]
      BY <3>1 DEF Placed, BornByThen
    <3>4. born[i] \in A2[q]
      BY <3>2, <3>3 DEF Without
    <3>5. QED
      BY <3>4
  <2>3. QED
    BY <2>1, <2>2 DEF BornByThen
<1>10. Nowhere(A2, B, n)
  BY <1>1, <1>5 DEF Placed, OnePlace, Nowhere
<1>11. QED
  BY <1>3, <1>6, <1>7, <1>8, <1>9, <1>10 DEF Placed

\* The numbers are those of the first len commands.
Among(A, B, len, f) ==
  \A q \in Processes :
    /\ A[q] \subseteq 1..len /\ B[q] \subseteq 1..len
    /\ q > f => A[q] = {} /\ B[q] = {}

\* One more command has at most one more node born.
Grown(len, chain, born, chain2, born2) ==
  /\ Births(len, chain, born) /\ Births(len + 1, chain2, born2)
  /\ Len(chain2) >= Len(chain)
  /\ \A i \in 1..Len(chain) : chain2[i] = chain[i] /\ born2[i] = born[i]
  /\ \A i \in 1..Len(chain2) : i > Len(chain) => born2[i] = len + 1

LEMMA PlacedSubmitted ==
  ASSUME NEW A, NEW B, NEW cmds, NEW chain, NEW born, NEW f \in Nat, NEW len \in Nat,
         NEW cmds2, NEW chain2, NEW born2, NEW A2,
         Placed(A, B, cmds, chain, born, f), Among(A, B, len, f), f + 1 <= Len(chain),
         \A i \in 1..len : cmds2[i] = cmds[i],
         Grown(len, chain, born, chain2, born2), With(A, Root, len + 1, A2)
  PROVE  Placed(A2, B, cmds2, chain2, born2, f)
<1>0. /\ Births(len, chain, born) /\ Births(len + 1, chain2, born2)
      /\ \A i \in 1..Len(chain) : chain2[i] = chain[i] /\ born2[i] = born[i]
      /\ \A i \in 1..Len(chain2) : i > Len(chain) => born2[i] = len + 1
      /\ \A q \in Processes : A[q] \subseteq 1..len /\ B[q] \subseteq 1..len
      /\ \A q \in Processes : q > f => A[q] = {}
  BY DEF Grown, Among
<1>1. /\ Processes \subseteq Nat /\ Root = 0 /\ Root \in Processes
      /\ Len(chain) \in Nat /\ Len(chain2) \in Nat
      /\ \A i \in 1..Len(chain) : born[i] \in 0..len
  BY <1>0, PidsAreNumbers, LenProperties DEF Births
<1>2. \A q \in Processes : \A m \in A2[q] :
        m \in A[q] \/ (m = len + 1 /\ q = 0)
  <2>1. ASSUME NEW q \in Processes, NEW m \in A2[q]
        PROVE  m \in A[q] \/ (m = len + 1 /\ q = Root)
    <3>1. PICK n : n = len + 1
      OBVIOUS
    <3>2. A2[q] = IF q = Root THEN A[q] \cup {n} ELSE A[q]
      BY <1>0, <3>1, Zenon DEF With
    <3>3. QED
      BY <1>0, <3>1, <3>2
  <2>2. QED
    BY <1>0, <1>1, <2>1
<1>3. \A q \in Processes : A[q] \subseteq A2[q]
  BY <1>0 DEF With
<1>4. len + 1 \in A2[0]
  BY <1>0, <1>1 DEF With
<1>5. InOrder(A2)
  <2>1. SUFFICES ASSUME NEW r \in Processes, NEW q \in Processes, q < r,
                        NEW k \in A2[r], NEW m \in A2[q]
                 PROVE  k < m
    BY <1>0 DEF InOrder
  <2>2. k \in A[r] /\ k \in 1..len
    BY <1>0, <1>1, <1>2, <2>1
  <2>3. CASE m = len + 1
    BY <1>0, <2>2, <2>3
  <2>4. CASE m \in A[q]
    BY <1>0, <2>1, <2>2, <2>4 DEF Placed, InOrder
  <2>5. QED
    BY <1>0, <1>2, <2>3, <2>4
<1>6. OnePlace(A2, B)
  <2>1. \A q \in Processes : len + 1 \notin B[q]
    BY <1>0
  <2>2. QED
    BY <1>0, <1>2, <2>1 DEF Placed, OnePlace
<1>7. NotPast(A2, cmds2, chain2)
  <2>1. SUFFICES ASSUME NEW r \in Processes, NEW m \in A2[r], NEW q \in 0..(r - 1)
                 PROVE  ~IsFor(cmds2[m], q, chain2)
    BY <1>0 DEF NotPast
  <2>2. m \in A[r] /\ m \in 1..len /\ r <= f
    BY <1>0, <1>1, <1>2, <2>1
  <2>3. cmds2[m] = cmds[m] /\ chain2[q + 1] = chain[q + 1]
    BY <1>0, <1>1, <2>2
  <2>4. ~IsFor(cmds[m], q, chain)
    BY <1>0, <2>2 DEF Placed, NotPast
  <2>5. QED
    BY <1>0, <2>3, <2>4 DEF IsFor
<1>8. BornByThen(A2, chain2, born2, f)
  <2>1. ASSUME NEW i \in 1..(f + 1), NEW q \in Processes, NEW m \in A2[q]
        PROVE  born2[i] < m
    <3>1. i \in 1..Len(chain) /\ born2[i] = born[i] /\ born[i] \in 0..len
      BY <1>0, <1>1
    <3>2. CASE m = len + 1
      BY <1>0, <3>1, <3>2
    <3>3. CASE m \in A[q]
      BY <1>0, <3>1, <3>3 DEF Placed, BornByThen
    <3>4. QED
      BY <1>0, <1>2, <3>2, <3>3
  <2>2. ASSUME NEW i \in (f + 2)..Len(chain2)
        PROVE  \E q \in Processes : born2[i] \in A2[q]
    <3>1. CASE i <= Len(chain)
      <4>1. i \in (f + 2)..Len(chain) /\ i \in 1..Len(chain)
        BY <1>0, <1>1, <3>1
      <4>2. PICK q \in Processes : born[i] \in A[q]
        BY <1>0, <4>1 DEF Placed, BornByThen
      <4>3. QED
        BY <1>0, <1>3, <4>1, <4>2
    <3>2. CASE i > Len(chain)
      <4>1. i \in 1..Len(chain2) /\ born2[i] = len + 1
        BY <1>0, <1>1, <3>2
      <4>2. QED
        BY <1>0, <1>1, <1>4, <4>1
    <3>3. QED
      BY <1>0, <1>1, <3>1, <3>2
  <2>3. QED
    BY <1>0, <2>1, <2>2 DEF BornByThen
<1>9. \A q \in Processes : A2[q] \subseteq Nat
  BY <1>0, <1>2 DEF Placed
<1>10. QED
  BY <1>0, <1>5, <1>6, <1>7, <1>8, <1>9 DEF Placed

-----------------------------------------------------------------------------
(***************************************************************************)
(* Commands that are below p, or are answered from below p, and the        *)
(* records that p has for them.                                            *)
(***************************************************************************)
Waiting(A, B, cmds, p, type) ==
  {n \in 1..Len(cmds) :
     /\ KindOf(cmds[n]) = type
     /\ \E q \in Processes : q > p /\ (n \in A[q] \/ n \in B[q])}

Covered(A, B, cmds, recs) ==
  \A p \in Processes, type \in CommandType :
    Cardinality(Waiting(A, B, cmds, p, type)) <= Cardinality(Slots(recs[p], type, 1))

LEMMA WaitingIsFinite ==
  ASSUME NEW A, NEW B, NEW cmds, Len(cmds) \in Nat, NEW p, NEW type
  PROVE  /\ IsFiniteSet(Waiting(A, B, cmds, p, type))
         /\ Cardinality(Waiting(A, B, cmds, p, type)) \in Nat
<1>1. IsFiniteSet(1..Len(cmds))
  BY FS_Interval
<1>2. Waiting(A, B, cmds, p, type) \subseteq 1..Len(cmds)
  BY DEF Waiting
<1>3. IsFiniteSet(Waiting(A, B, cmds, p, type))
  BY <1>1, <1>2, FS_Subset
<1>4. QED
  BY <1>3, FS_CardinalityType

\* Slots of one record for each child, when there is one child.
LEMMA OneSlotEach ==
  ASSUME NEW recs \in [Processes -> Seq(RecordSet)], NEW p \in Processes, NEW type
  PROVE  Cardinality(Slots(recs[p], type, 1)) \in Nat
<1>1. recs[p] \in Seq(RecordSet) /\ 1 \in Nat
  OBVIOUS
<1>2. QED
  BY <1>1, SlotsAreFinite

LEMMA CoveredKept ==
  ASSUME NEW A, NEW B, NEW cmds, Len(cmds) \in Nat,
         NEW recs \in [Processes -> Seq(RecordSet)], Covered(A, B, cmds, recs),
         NEW A2, NEW B2, NEW cmds2,
         \A p \in Processes, type \in CommandType :
           Waiting(A2, B2, cmds2, p, type) \subseteq Waiting(A, B, cmds, p, type)
  PROVE  Covered(A2, B2, cmds2, recs)
<1>1. SUFFICES ASSUME NEW p \in Processes, NEW type \in CommandType
               PROVE  Cardinality(Waiting(A2, B2, cmds2, p, type))
                        <= Cardinality(Slots(recs[p], type, 1))
  BY DEF Covered
<1>2. PICK W : W = Waiting(A, B, cmds, p, type)
  OBVIOUS
<1>3. PICK W2 : W2 = Waiting(A2, B2, cmds2, p, type)
  OBVIOUS
<1>4. IsFiniteSet(W) /\ Cardinality(W) \in Nat /\ W2 \subseteq W
  BY <1>2, <1>3, WaitingIsFinite
<1>5. Cardinality(W2) <= Cardinality(W) /\ Cardinality(W2) \in Nat
  BY <1>4, FS_Subset, FS_CardinalityType
<1>6. Cardinality(W) <= Cardinality(Slots(recs[p], type, 1))
  BY <1>2 DEF Covered
<1>7. Cardinality(Slots(recs[p], type, 1)) \in Nat
  BY OneSlotEach
<1>8. QED
  BY <1>3, <1>4, <1>5, <1>6, <1>7

\* Nobody but k has to wait for more, and k for n.
MoreForOne(A, B, A2, B2, cmds, n, k, kind) ==
  \A p \in Processes, type \in CommandType :
    Waiting(A2, B2, cmds, p, type) \subseteq
      Waiting(A, B, cmds, p, type) \cup (IF p = k /\ type = kind THEN {n} ELSE {})

\* A record more, and perhaps a command.
LEMMA CoveredByNew ==
  ASSUME NEW A, NEW B, NEW cmds, Len(cmds) \in Nat,
         NEW recs \in [Processes -> Seq(RecordSet)], Covered(A, B, cmds, recs),
         NEW A2, NEW B2, NEW n, NEW k \in Processes, NEW kind \in CommandType,
         MoreForOne(A, B, A2, B2, cmds, n, k, kind),
         NEW recs2, recs2 = [recs EXCEPT ![k] = Append(@, CommandRecord(kind))]
  PROVE  Covered(A2, B2, cmds, recs2)
<1>1. SUFFICES ASSUME NEW p \in Processes, NEW type \in CommandType
               PROVE  Cardinality(Waiting(A2, B2, cmds, p, type))
                        <= Cardinality(Slots(recs2[p], type, 1))
  BY DEF Covered
<1>2. PICK W : W = Waiting(A, B, cmds, p, type)
  OBVIOUS
<1>3. PICK W2 : W2 = Waiting(A2, B2, cmds, p, type)
  OBVIOUS
<1>4. IsFiniteSet(W) /\ Cardinality(W) \in Nat /\ IsFiniteSet(W2) /\ Cardinality(W2) \in Nat
  BY <1>2, <1>3, WaitingIsFinite
<1>5. W2 \subseteq W \cup (IF p = k /\ type = kind THEN {n} ELSE {})
  BY <1>2, <1>3 DEF MoreForOne
<1>6. Cardinality(W) <= Cardinality(Slots(recs[p], type, 1))
  BY <1>2 DEF Covered
<1>7. Cardinality(Slots(recs[p], type, 1)) \in Nat /\ recs[p] \in Seq(RecordSet) /\ 1 \in Nat
  BY OneSlotEach
<1>8. CommandRecord(kind) \in RecordSet
  BY DEF CommandRecord, RecordSet
<1>9. Append(recs[k], CommandRecord(kind)) \in Seq(RecordSet)
  BY <1>8, AppendProperties
<1>10. recs2 \in [Processes -> Seq(RecordSet)]
       /\ recs2[p] = IF p = k THEN Append(recs[p], CommandRecord(kind)) ELSE recs[p]
  BY <1>9
<1>11. Cardinality(Slots(recs2[p], type, 1)) \in Nat
  BY <1>10, OneSlotEach
<1>12. CASE p = k
  <2>1. Cardinality(Slots(recs[p], type, 1)) + (IF kind = type THEN 1 ELSE 0)
          <= Cardinality(Slots(recs2[p], type, 1))
    BY <1>7, <1>10, <1>12, SlotsOfNewRecord
  <2>2. /\ IsFiniteSet(W \cup {n})
        /\ Cardinality(W \cup {n}) = IF n \in W THEN Cardinality(W) ELSE Cardinality(W) + 1
    BY <1>4, FS_AddElement
  <2>3. CASE kind = type
    <3>1. W2 \subseteq W \cup {n}
      BY <1>5, <1>12, <2>3
    <3>2. Cardinality(W2) <= Cardinality(W \cup {n})
      BY <2>2, <3>1, FS_Subset
    <3>3. QED
      BY <1>3, <1>4, <1>6, <1>7, <1>11, <2>1, <2>2, <2>3, <3>2
  <2>4. CASE kind # type
    <3>1. W2 \subseteq W
      BY <1>5, <2>4
    <3>2. Cardinality(W2) <= Cardinality(W)
      BY <1>4, <3>1, FS_Subset
    <3>3. QED
      BY <1>3, <1>4, <1>6, <1>7, <1>11, <2>1, <2>4, <3>2
  <2>5. QED
    BY <2>3, <2>4
<1>13. CASE p # k
  <2>1. W2 \subseteq W
    BY <1>5, <1>13
  <2>2. Cardinality(W2) <= Cardinality(W)
    BY <1>4, <2>1, FS_Subset
  <2>3. recs2[p] = recs[p]
    BY <1>10, <1>13
  <2>4. QED
    BY <1>3, <1>4, <1>6, <1>7, <2>2, <2>3
<1>14. QED
  BY <1>12, <1>13

\* A command and a record less.
Settles(A, B, A2, B2, cmds, recs, recs2, k, kind, n, i) ==
  /\ Len(cmds) \in Nat /\ recs \in [Processes -> Seq(RecordSet)]
  /\ Covered(A, B, cmds, recs)
  /\ k \in Processes /\ kind \in CommandType /\ n \in Waiting(A, B, cmds, k, kind)
  /\ \A p \in Processes, type \in CommandType :
        Waiting(A2, B2, cmds, p, type) \subseteq
          IF p = k /\ type = kind
          THEN Waiting(A, B, cmds, p, type) \ {n} ELSE Waiting(A, B, cmds, p, type)
  /\ i \in 1..Len(recs[k]) /\ recs[k][i].type = kind
  /\ recs[k][i].recievedResponses = 0
  /\ recs2 = [recs EXCEPT ![k] = RemoveAt(@, i)]

LEMMA CoveredByOthers ==
  ASSUME NEW A, NEW B, NEW A2, NEW B2, NEW cmds, NEW recs, NEW recs2,
         NEW k, NEW kind, NEW n, NEW i,
         Settles(A, B, A2, B2, cmds, recs, recs2, k, kind, n, i)
  PROVE  Covered(A2, B2, cmds, recs2)
<1> /\ Len(cmds) \in Nat /\ recs \in [Processes -> Seq(RecordSet)]
    /\ Covered(A, B, cmds, recs)
    /\ k \in Processes /\ kind \in CommandType /\ n \in Waiting(A, B, cmds, k, kind)
    /\ \A p \in Processes, type \in CommandType :
          Waiting(A2, B2, cmds, p, type) \subseteq
            IF p = k /\ type = kind
            THEN Waiting(A, B, cmds, p, type) \ {n} ELSE Waiting(A, B, cmds, p, type)
    /\ i \in 1..Len(recs[k]) /\ recs[k][i].type = kind
    /\ recs[k][i].recievedResponses = 0
    /\ recs2 = [recs EXCEPT ![k] = RemoveAt(@, i)]
  BY Zenon DEF Settles
<1>1. SUFFICES ASSUME NEW p \in Processes, NEW type \in CommandType
               PROVE  Cardinality(Waiting(A2, B2, cmds, p, type))
                        <= Cardinality(Slots(recs2[p], type, 1))
  BY DEF Covered
<1>2. PICK W : W = Waiting(A, B, cmds, p, type)
  OBVIOUS
<1>3. PICK W2 : W2 = Waiting(A2, B2, cmds, p, type)
  OBVIOUS
<1>4. IsFiniteSet(W) /\ Cardinality(W) \in Nat /\ IsFiniteSet(W2) /\ Cardinality(W2) \in Nat
  BY <1>2, <1>3, WaitingIsFinite
<1>5. W2 \subseteq IF p = k /\ type = kind THEN W \ {n} ELSE W
  BY <1>2, <1>3
<1>6. Cardinality(W) <= Cardinality(Slots(recs[p], type, 1))
  BY <1>2 DEF Covered
<1>7. Cardinality(Slots(recs[p], type, 1)) \in Nat
      /\ recs[p] \in Seq(RecordSet) /\ recs[k] \in Seq(RecordSet) /\ 1 \in Nat
  BY OneSlotEach
<1>8. RemoveAt(recs[k], i) \in Seq(RecordSet)
  BY <1>7, RemoveAtProperties
<1>9. recs2 \in [Processes -> Seq(RecordSet)]
      /\ recs2[p] = IF p = k THEN RemoveAt(recs[p], i) ELSE recs[p]
  BY <1>8
<1>10. Cardinality(Slots(recs2[p], type, 1)) \in Nat
  BY <1>9, OneSlotEach
<1>11. CASE p = k
  <2>1. Cardinality(Slots(recs[p], type, 1))
          <= Cardinality(Slots(recs2[p], type, 1)) + (IF kind = type THEN 1 ELSE 0)
    <3>1. recs[k][i].recievedResponses + 1 = 1
      OBVIOUS
    <3>2. QED
      BY <1>7, <1>9, <1>11, <3>1, SlotClosed
  <2>2. CASE kind = type
    <3>1. n \in W /\ W2 \subseteq W \ {n}
      BY <1>2, <1>5, <1>11, <2>2
    <3>2. /\ IsFiniteSet(W \ {n})
          /\ Cardinality(W \ {n}) = Cardinality(W) - 1
      BY <1>4, <3>1, FS_RemoveElement
    <3>3. Cardinality(W2) <= Cardinality(W \ {n})
      BY <3>1, <3>2, FS_Subset
    <3>4. QED
      BY <1>3, <1>4, <1>6, <1>7, <1>10, <2>1, <2>2, <3>2, <3>3
  <2>3. CASE kind # type
    <3>1. W2 \subseteq W
      BY <1>5, <2>3
    <3>2. Cardinality(W2) <= Cardinality(W)
      BY <1>4, <3>1, FS_Subset
    <3>3. QED
      BY <1>3, <1>4, <1>6, <1>7, <1>10, <2>1, <2>3, <3>2
  <2>4. QED
    BY <2>2, <2>3
<1>12. CASE p # k
  <2>1. W2 \subseteq W
    BY <1>5, <1>12
  <2>2. Cardinality(W2) <= Cardinality(W)
    BY <1>4, <2>1, FS_Subset
  <2>3. recs2[p] = recs[p]
    BY <1>9, <1>12
  <2>4. QED
    BY <1>3, <1>4, <1>6, <1>7, <2>2, <2>3
<1>13. QED
  BY <1>11, <1>12

-----------------------------------------------------------------------------
(***************************************************************************)
(* The notes of both paths together, and what happens to them.             *)
(***************************************************************************)
NotesAgree(D, U, cmds, chain, born, f, dn, upw) ==
  /\ Ascending(D) /\ OnceEach(U)
  /\ Noted(D, dn, CommandRel(cmds), f)
  /\ Noted(U, upw, AnswerRel(cmds), f)
  /\ Placed(NumbersOn(D), NumbersOn(U), cmds, chain, born, f)

\* What is on the path of p is a command that was submitted, has been passed on
\* by the processes above p, and is the first of all that p and those below it
\* have not handled.
TakesFirst(D, cmds, chain, born, f, dn, p, n) ==
  /\ D \in Paths(Nat) /\ D[p] # <<>> /\ p \in 0..f
  /\ n \in 1..Len(cmds) /\ Head(dn[p]) = cmds[n] /\ cmds[n] \in CommandMsg
  /\ n \in NumbersOn(D)[p] /\ IsFirst(NumbersOn(D), p, n)
  /\ Without(NumbersOn(D), p, n, NumbersOn(Consumed(D, p)))
  /\ Ascending(Consumed(D, p))
  /\ Noted(Consumed(D, p), Consumed(dn, p), CommandRel(cmds), f)
  /\ Reached(cmds[n], n, p, f, chain, born)
  /\ \A q \in Processes : q > f => NumbersOn(D)[q] = {}

LEMMA NoteOfCommand ==
  ASSUME NEW D, NEW U, NEW cmds \in Seq(CommandMsg), NEW chain, NEW born,
         NEW f \in Nat, NEW dn \in Paths(DownMsg), NEW upw,
         NotesAgree(D, U, cmds, chain, born, f, dn, upw),
         NEW p \in Processes, dn[p] # <<>>, NEW n, n = Head(D[p])
  PROVE  TakesFirst(D, cmds, chain, born, f, dn, p, n)
<1>1. /\ Noted(D, dn, CommandRel(cmds), f) /\ Ascending(D)
      /\ Placed(NumbersOn(D), NumbersOn(U), cmds, chain, born, f)
  BY DEF NotesAgree
<1>2. /\ D \in Paths(Nat) /\ D[p] # <<>> /\ ~(p > f)
      /\ <<Head(dn[p]), n>> \in CommandRel(cmds)
      /\ Noted(Consumed(D, p), Consumed(dn, p), CommandRel(cmds), f)
  BY <1>1, NotedTaken
<1>3. n \in 1..Len(cmds) /\ Head(dn[p]) = cmds[n] /\ p \in 0..f /\ Len(cmds) \in Nat
  BY <1>2, PidsAreNumbers, LenProperties DEF CommandRel
<1>4. cmds[n] \in CommandMsg
  BY <1>3, ElementOfSeq
<1>5. TakenFrom(D, p, n, Consumed(D, p))
  <2>1. OnceEach(D)
    BY <1>1, <1>2, AscendingIsOnce
  <2>2. QED
    BY <1>1, <1>2, <2>1, NoteTaken
<1>6. n \in NumbersOn(D)[p] /\ Without(NumbersOn(D), p, n, NumbersOn(Consumed(D, p)))
  BY <1>5 DEF TakenFrom
<1>7. IsFirst(NumbersOn(D), p, n) /\ Ascending(Consumed(D, p))
  BY <1>1, <1>5 DEF TakenFrom
<1>8. Reached(cmds[n], n, p, f, chain, born)
  BY <1>1, <1>6 DEF Reached, Placed, NotPast, BornByThen
<1>9. ASSUME NEW q \in Processes, q > f PROVE NumbersOn(D)[q] = {}
  <2>1. D[q] = <<>>
    BY <1>1, <1>9 DEF Noted
  <2>2. Range(D[q]) = {}
    BY <2>1 DEF Range
  <2>3. QED
    BY <2>2 DEF NumbersOn
<1>10. QED
  BY <1>2, <1>3, <1>4, <1>6, <1>7, <1>8, <1>9 DEF TakesFirst

\* The last process has the first of all commands that are under way.
LEMMA NoneBornBefore ==
  ASSUME NEW A, NEW B, NEW cmds, NEW chain, NEW born, NEW f \in Processes,
         Placed(A, B, cmds, chain, born, f), NEW n, IsFirst(A, f, n),
         \A q \in Processes : q > f => A[q] = {}
  PROVE  \A i \in (f + 2)..Len(chain) : born[i] >= n
<1>1. SUFFICES ASSUME NEW i \in (f + 2)..Len(chain) PROVE born[i] >= n
  OBVIOUS
<1>2. PICK q \in Processes : born[i] \in A[q]
  BY DEF Placed, BornByThen
<1>3. n \in A[f] /\ \A m \in A[f] : m = n \/ n < m
  BY DEF IsFirst
<1>8. n \in Nat /\ born[i] \in Nat
  BY <1>2, <1>3 DEF Placed
<1>4. q = f \/ q < f
  <2>1. q \in Nat /\ f \in Nat
    BY PidsAreNumbers
  <2>2. ~(q > f)
    BY <1>2
  <2>3. QED
    BY <2>1, <2>2
<1>5. CASE q = f
  BY <1>2, <1>3, <1>5, <1>8
<1>6. CASE q < f
  <2>1. n < born[i]
    BY <1>2, <1>3, <1>6 DEF Placed, InOrder
  <2>2. QED
    BY <1>8, <2>1
<1>7. QED
  BY <1>4, <1>5, <1>6

\* A command is taken that nobody is born by.
CanTake(D, U, cmds, chain, born, f, dn, upw, p, n) ==
  /\ cmds \in Seq(CommandMsg) /\ f \in Nat /\ dn \in Paths(DownMsg)
  /\ NotesAgree(D, U, cmds, chain, born, f, dn, upw)
  /\ p \in Processes /\ dn[p] # <<>> /\ n = Head(D[p])
  /\ \A i \in (f + 2)..Len(chain) : born[i] # n

LEMMA AgreeTaken ==
  ASSUME NEW D, NEW U, NEW cmds, NEW chain, NEW born, NEW f, NEW dn, NEW upw,
         NEW p, NEW n, CanTake(D, U, cmds, chain, born, f, dn, upw, p, n)
  PROVE  /\ NotesAgree(Consumed(D, p), U, cmds, chain, born, f, Consumed(dn, p), upw)
         /\ Nowhere(NumbersOn(Consumed(D, p)), NumbersOn(U), n)
<1> /\ cmds \in Seq(CommandMsg) /\ f \in Nat /\ dn \in Paths(DownMsg)
    /\ NotesAgree(D, U, cmds, chain, born, f, dn, upw)
    /\ p \in Processes /\ dn[p] # <<>> /\ n = Head(D[p])
    /\ \A i \in (f + 2)..Len(chain) : born[i] # n
  BY Zenon DEF CanTake
<1>0. TakesFirst(D, cmds, chain, born, f, dn, p, n)
  BY NoteOfCommand
<1>1. /\ n \in NumbersOn(D)[p]
      /\ Without(NumbersOn(D), p, n, NumbersOn(Consumed(D, p)))
      /\ Ascending(Consumed(D, p))
      /\ Noted(Consumed(D, p), Consumed(dn, p), CommandRel(cmds), f)
  BY <1>0 DEF TakesFirst
<1>2. Placed(NumbersOn(D), NumbersOn(U), cmds, chain, born, f)
  BY DEF NotesAgree
<1>3. /\ Placed(NumbersOn(Consumed(D, p)), NumbersOn(U), cmds, chain, born, f)
      /\ Nowhere(NumbersOn(Consumed(D, p)), NumbersOn(U), n)
  BY <1>1, <1>2, PlacedTaken
<1>4. QED
  BY <1>1, <1>3 DEF NotesAgree

\* The last process takes the command that the next is born by.
LEMMA AgreeBorn ==
  ASSUME NEW D, NEW U, NEW cmds \in Seq(CommandMsg), NEW chain, NEW born,
         NEW f \in Processes, NEW dn \in Paths(DownMsg), NEW upw,
         NotesAgree(D, U, cmds, chain, born, f, dn, upw), dn[f] # <<>>,
         NEW n, n = Head(D[f]), Births(Len(cmds), chain, born),
         f + 2 <= Len(chain), born[f + 2] = n
  PROVE  /\ NotesAgree(Consumed(D, f), U, cmds, chain, born, f + 1, Consumed(dn, f), upw)
         /\ Nowhere(NumbersOn(Consumed(D, f)), NumbersOn(U), n)
<1>0. f \in Nat /\ f + 1 \in Nat /\ f <= f + 1 /\ Processes \subseteq Nat /\ Len(cmds) \in Nat
  BY PidsAreNumbers, LenProperties
<1>1. /\ IsFirst(NumbersOn(D), f, n)
      /\ Without(NumbersOn(D), f, n, NumbersOn(Consumed(D, f)))
      /\ Ascending(Consumed(D, f))
      /\ Noted(Consumed(D, f), Consumed(dn, f), CommandRel(cmds), f)
      /\ \A q \in Processes : q > f => NumbersOn(D)[q] = {}
  <2>1. TakesFirst(D, cmds, chain, born, f, dn, f, n)
    BY <1>0, NoteOfCommand
  <2>2. QED
    BY <2>1 DEF TakesFirst
<1>2. /\ Placed(NumbersOn(D), NumbersOn(U), cmds, chain, born, f)
      /\ Noted(U, upw, AnswerRel(cmds), f) /\ OnceEach(U)
  BY DEF NotesAgree
<1>3. /\ Placed(NumbersOn(Consumed(D, f)), NumbersOn(U), cmds, chain, born, f + 1)
      /\ Nowhere(NumbersOn(Consumed(D, f)), NumbersOn(U), n)
  BY <1>0, <1>1, <1>2, PlacedBorn
<1>4. Noted(Consumed(D, f), Consumed(dn, f), CommandRel(cmds), f + 1)
  <2>1. PICK rel : rel = CommandRel(cmds)
    OBVIOUS
  <2>2. Noted(Consumed(D, f), Consumed(dn, f), rel, f + 1)
    BY <1>0, <1>1, <2>1, NotedStays
  <2>3. QED
    BY <2>1, <2>2
<1>5. Noted(U, upw, AnswerRel(cmds), f + 1)
  <2>1. PICK rel : rel = AnswerRel(cmds)
    OBVIOUS
  <2>2. Noted(U, upw, rel, f + 1)
    BY <1>0, <1>2, <2>1, NotedStays
  <2>3. QED
    BY <2>1, <2>2
<1>6. QED
  BY <1>1, <1>2, <1>3, <1>4, <1>5 DEF NotesAgree

\* p answers a command that was taken.
LEMMA AgreeAnswered ==
  ASSUME NEW D, NEW U, NEW cmds, NEW chain, NEW born,
         NEW f \in Nat, NEW dn, NEW upw \in Paths(ResponseMsg),
         NotesAgree(D, U, cmds, chain, born, f, dn, upw),
         NEW p \in Processes, ~(p > f), NEW m, NEW n, <<m, n>> \in AnswerRel(cmds),
         Nowhere(NumbersOn(D), NumbersOn(U), n)
  PROVE  /\ NotesAgree(D, redirectToAncestor(U, p, n), cmds, chain, born, f, dn,
                       redirectToAncestor(upw, p, m))
         /\ With(NumbersOn(U), p, n, NumbersOn(redirectToAncestor(U, p, n)))
<1>1. /\ OnceEach(U) /\ Noted(U, upw, AnswerRel(cmds), f)
      /\ Placed(NumbersOn(D), NumbersOn(U), cmds, chain, born, f)
  BY DEF NotesAgree
<1>2. U \in Paths(Nat) /\ m \in ResponseMsg /\ n \in Nat
  BY <1>1 DEF Noted, AnswerRel
<1>3. n \notin NumbersOn(U)[p]
  BY DEF Nowhere
<1>4. PushedOn(U, p, n, redirectToAncestor(U, p, n))
  BY <1>1, <1>2, <1>3, NotePushed
<1>5. /\ OnceEach(redirectToAncestor(U, p, n))
      /\ With(NumbersOn(U), p, n, NumbersOn(redirectToAncestor(U, p, n)))
  BY <1>4 DEF PushedOn
<1>6. Placed(NumbersOn(D), NumbersOn(redirectToAncestor(U, p, n)), cmds, chain, born, f)
  BY <1>1, <1>2, <1>5, PlacedAnswered
<1>7. Noted(redirectToAncestor(U, p, n), redirectToAncestor(upw, p, m), AnswerRel(cmds), f)
  <2>1. PICK rel : rel = AnswerRel(cmds)
    OBVIOUS
  <2>2. Noted(redirectToAncestor(U, p, n), redirectToAncestor(upw, p, m), rel, f)
    BY <1>1, <1>2, <2>1, NotedPushed
  <2>3. QED
    BY <2>1, <2>2
<1>8. QED
  BY <1>5, <1>6, <1>7 DEF NotesAgree

\* p passes a command on to its child.
LEMMA AgreePassed ==
  ASSUME NEW D, NEW U, NEW cmds \in Seq(CommandMsg), NEW chain, NEW born,
         NEW f \in Nat, NEW dn \in Paths(DownMsg), NEW upw,
         NotesAgree(D, U, cmds, chain, born, f, dn, upw),
         NEW p \in Processes, p + 1 \in Processes, p < f, dn[p] # <<>>,
         NEW n, n = Head(D[p]), ~IsFor(cmds[n], p, chain),
         NEW D2, D2 = redirectToAncestor(Consumed(D, p), p + 1, n)
  PROVE  /\ NotesAgree(D2, U, cmds, chain, born, f,
              redirectToAncestor(Consumed(dn, p), p + 1, Head(dn[p])), upw)
         /\ With(NumbersOn(Consumed(D, p)), p + 1, n, NumbersOn(D2))
<1>1. PICK D1, c, m : D1 = Consumed(D, p) /\ c = p + 1 /\ m = Head(dn[p])
  OBVIOUS
<1>2. /\ D \in Paths(Nat) /\ D[p] # <<>> /\ m = cmds[n] /\ n \in 1..Len(cmds)
      /\ IsFirst(NumbersOn(D), p, n)
      /\ Without(NumbersOn(D), p, n, NumbersOn(D1))
      /\ Ascending(D1)
      /\ Noted(D1, Consumed(dn, p), CommandRel(cmds), f)
  <2>1. TakesFirst(D, cmds, chain, born, f, dn, p, n)
    BY NoteOfCommand
  <2>2. QED
    BY <1>1, <2>1 DEF TakesFirst
<1>3. Placed(NumbersOn(D), NumbersOn(U), cmds, chain, born, f)
  BY DEF NotesAgree
<1>4. /\ D1 \in Paths(Nat) /\ n \in Nat /\ c \in Processes /\ p \in Nat /\ c \in Nat
      /\ Len(cmds) \in Nat /\ p < c /\ c # p
  BY <1>1, <1>2, ConsumedIsPath, PidsAreNumbers, LenProperties
<1>5. \A k \in NumbersOn(D1)[c] : k < n
  <2>1. SUFFICES ASSUME NEW k \in NumbersOn(D1)[c] PROVE k < n
    OBVIOUS
  <2>2. k \in NumbersOn(D)[c] /\ n \in NumbersOn(D)[p]
    BY <1>2, <1>4, <2>1 DEF Without, IsFirst
  <2>3. QED
    BY <1>3, <1>4, <2>2 DEF Placed, InOrder
<1>6. n \notin NumbersOn(D1)[c]
  BY <1>4, <1>5
<1>7. PushedOn(D1, c, n, D2)
  <2>1. D2 = redirectToAncestor(D1, c, n)
    BY <1>1
  <2>2. OnceEach(D1)
    BY <1>2, <1>4, AscendingIsOnce
  <2>3. QED
    BY <1>4, <1>6, <2>1, <2>2, NotePushed
<1>8. /\ OnceEach(D2) /\ Ascending(D2)
      /\ With(NumbersOn(D1), c, n, NumbersOn(D2))
  BY <1>2, <1>5, <1>7 DEF PushedOn
<1>9. Placed(NumbersOn(D2), NumbersOn(U), cmds, chain, born, f)
  BY <1>1, <1>2, <1>3, <1>4, <1>8, PlacedPassed
<1>10. Noted(D2, redirectToAncestor(Consumed(dn, p), c, m), CommandRel(cmds), f)
  <2>1. PICK rel : rel = CommandRel(cmds)
    OBVIOUS
  <2>2. m \in DownMsg /\ Consumed(dn, p) \in Paths(DownMsg)
    BY <1>1, ConsumedIsPath
  <2>3. <<m, n>> \in rel
    BY <1>2, <1>4, <2>1, <2>2 DEF CommandRel
  <2>4. ~(c > f)
    BY <1>1, <1>4
  <2>5. Noted(D1, Consumed(dn, p), rel, f)
    BY <1>2, <2>1
  <2>6. Noted(redirectToAncestor(D1, c, n), redirectToAncestor(Consumed(dn, p), c, m), rel, f)
    BY <1>4, <2>2, <2>3, <2>4, <2>5, NotedPushed
  <2>7. QED
    BY <1>1, <2>1, <2>6
<1>11. QED
  BY <1>1, <1>8, <1>9, <1>10 DEF NotesAgree

\* A response is taken.
LEMMA AgreeForgotten ==
  ASSUME NEW D, NEW U, NEW cmds, NEW chain, NEW born,
         NEW f \in Nat, NEW dn, NEW upw \in Paths(ResponseMsg),
         NotesAgree(D, U, cmds, chain, born, f, dn, upw),
         NEW p \in Processes, upw[p] # <<>>, NEW n, n = Head(U[p])
  PROVE  /\ NotesAgree(D, Consumed(U, p), cmds, chain, born, f, dn, Consumed(upw, p))
         /\ Nowhere(NumbersOn(D), NumbersOn(Consumed(U, p)), n)
         /\ <<Head(upw[p]), n>> \in AnswerRel(cmds)
         /\ n \in NumbersOn(U)[p] /\ ~(p > f)
         /\ Without(NumbersOn(U), p, n, NumbersOn(Consumed(U, p)))
<1>1. /\ OnceEach(U) /\ Noted(U, upw, AnswerRel(cmds), f)
      /\ Placed(NumbersOn(D), NumbersOn(U), cmds, chain, born, f)
  BY DEF NotesAgree
<1>2. /\ U \in Paths(Nat) /\ U[p] # <<>> /\ ~(p > f)
      /\ <<Head(upw[p]), n>> \in AnswerRel(cmds)
      /\ Noted(Consumed(U, p), Consumed(upw, p), AnswerRel(cmds), f)
  BY <1>1, NotedTaken
<1>3. TakenFrom(U, p, n, Consumed(U, p))
  BY <1>1, <1>2, NoteTaken
<1>4. /\ n \in NumbersOn(U)[p] /\ OnceEach(Consumed(U, p))
      /\ Without(NumbersOn(U), p, n, NumbersOn(Consumed(U, p)))
  BY <1>3 DEF TakenFrom
<1>5. /\ Placed(NumbersOn(D), NumbersOn(Consumed(U, p)), cmds, chain, born, f)
      /\ Nowhere(NumbersOn(D), NumbersOn(Consumed(U, p)), n)
  BY <1>1, <1>4, PlacedForgotten
<1>6. QED
  BY <1>2, <1>4, <1>5 DEF NotesAgree

\* The numbers are those of commands.
LEMMA NumbersNoted ==
  ASSUME NEW note, NEW path, NEW rel, NEW f, Noted(note, path, rel, f), NEW len \in Nat,
         \A x \in rel : x[2] \in 1..len, NEW q \in Processes
  PROVE  /\ NumbersOn(note)[q] \subseteq 1..len
         /\ q > f => NumbersOn(note)[q] = {}
<1>1. /\ note \in Paths(Nat)
      /\ \A i \in 1..Len(note[q]) : <<path[q][i], note[q][i]>> \in rel
      /\ q > f => note[q] = <<>>
  BY DEF Noted
<1>2. \A i \in 1..Len(note[q]) : note[q][i] \in 1..len
  <2>1. SUFFICES ASSUME NEW i \in 1..Len(note[q]) PROVE note[q][i] \in 1..len
    OBVIOUS
  <2>2. PICK x : x = <<path[q][i], note[q][i]>>
    OBVIOUS
  <2>3. x \in rel /\ x[2] = note[q][i]
    BY <1>1, <2>2
  <2>4. QED
    BY <2>3
<1>3. ASSUME NEW m \in Range(note[q]) PROVE m \in 1..len
  <2>1. PICK i \in 1..Len(note[q]) : note[q][i] = m
    BY <1>1, NoteAt
  <2>2. QED
    BY <1>2, <2>1
<1>4. q > f => Range(note[q]) = {}
  <2>1. ASSUME q > f PROVE Range(note[q]) = {}
    <3>1. note[q] = <<>>
      BY <1>1, <2>1
    <3>2. QED
      BY <3>1 DEF Range
  <2>2. QED
    BY <2>1
<1>5. QED
  BY <1>3, <1>4 DEF NumbersOn

LEMMA NumbersAgree ==
  ASSUME NEW D, NEW U, NEW cmds \in Seq(CommandMsg), NEW chain, NEW born,
         NEW f, NEW dn, NEW upw, NotesAgree(D, U, cmds, chain, born, f, dn, upw)
  PROVE  Among(NumbersOn(D), NumbersOn(U), Len(cmds), f)
<1>0. SUFFICES ASSUME NEW q \in Processes
               PROVE  /\ NumbersOn(D)[q] \subseteq 1..Len(cmds)
                      /\ NumbersOn(U)[q] \subseteq 1..Len(cmds)
                      /\ q > f => NumbersOn(D)[q] = {} /\ NumbersOn(U)[q] = {}
  BY DEF Among
<1>1. /\ Noted(D, dn, CommandRel(cmds), f) /\ Noted(U, upw, AnswerRel(cmds), f)
  BY DEF NotesAgree
<1>2. PICK len \in Nat : len = Len(cmds)
  BY LenProperties
<1>3. PICK rel : rel = CommandRel(cmds)
  OBVIOUS
<1>4. \A x \in rel : x[2] \in 1..len
  BY <1>2, <1>3 DEF CommandRel
<1>5. NumbersOn(D)[q] \subseteq 1..len /\ (q > f => NumbersOn(D)[q] = {})
  BY <1>1, <1>3, <1>4, NumbersNoted
<1>6. PICK rel2 : rel2 = AnswerRel(cmds)
  OBVIOUS
<1>7. \A x \in rel2 : x[2] \in 1..len
  BY <1>2, <1>6 DEF AnswerRel
<1>8. NumbersOn(U)[q] \subseteq 1..len /\ (q > f => NumbersOn(U)[q] = {})
  BY <1>1, <1>6, <1>7, NumbersNoted
<1>9. QED
  BY <1>2, <1>5, <1>8

\* A command is submitted.
LEMMA AgreeSubmitted ==
  ASSUME NEW D, NEW U, NEW cmds \in Seq(CommandMsg), NEW cmd \in CommandMsg,
         NEW chain, NEW born, NEW f \in Nat, NEW dn \in Paths(DownMsg), NEW upw,
         NotesAgree(D, U, cmds, chain, born, f, dn, upw),
         f + 1 <= Len(chain),
         NEW chain2, NEW born2, Grown(Len(cmds), chain, born, chain2, born2)
  PROVE  NotesAgree(redirectToAncestor(D, Root, Len(cmds) + 1), U, Append(cmds, cmd),
                    chain2, born2, f, redirectToAncestor(dn, Root, cmd), upw)
<1>1. PICK len \in Nat : len = Len(cmds)
  BY LenProperties
<1>2. PICK more, n, D2 : /\ more = Append(cmds, cmd) /\ n = len + 1
                         /\ D2 = redirectToAncestor(D, Root, n)
  OBVIOUS
<1>3. /\ Noted(D, dn, CommandRel(cmds), f) /\ Noted(U, upw, AnswerRel(cmds), f)
      /\ Placed(NumbersOn(D), NumbersOn(U), cmds, chain, born, f)
      /\ Ascending(D) /\ OnceEach(U)
  BY DEF NotesAgree
<1>4. /\ Processes \subseteq Nat /\ Root \in Processes /\ Root = 0 /\ ~(Root > f)
      /\ n \in Nat
  BY <1>1, <1>2, PidsAreNumbers
<1>5. Among(NumbersOn(D), NumbersOn(U), len, f)
  BY <1>1, NumbersAgree
<1>6. D \in Paths(Nat)
  BY <1>3 DEF Noted
<1>7. PushedOn(D, Root, n, D2)
  <2>1. n \notin NumbersOn(D)[Root]
    BY <1>1, <1>2, <1>4, <1>5 DEF Among
  <2>2. OnceEach(D)
    BY <1>3, <1>6, AscendingIsOnce
  <2>3. QED
    BY <1>2, <1>4, <1>6, <2>1, <2>2, NotePushed
<1>8. Ascending(D2) /\ With(NumbersOn(D), Root, n, NumbersOn(D2))
  <2>1. \A m \in NumbersOn(D)[Root] : m < n
    BY <1>1, <1>2, <1>4, <1>5 DEF Among
  <2>2. QED
    BY <1>3, <1>7, <2>1 DEF PushedOn
<1>9. /\ CommandRel(cmds) \subseteq CommandRel(more)
      /\ AnswerRel(cmds) \subseteq AnswerRel(more)
      /\ <<cmd, n>> \in CommandRel(more)
  BY <1>1, <1>2, RelsGrow
<1>10. Noted(D2, redirectToAncestor(dn, Root, cmd), CommandRel(more), f)
  <2>1. PICK rel, rel2 : rel = CommandRel(cmds) /\ rel2 = CommandRel(more)
    OBVIOUS
  <2>2. Noted(D, dn, rel2, f)
    BY <1>3, <1>4, <1>9, <2>1, NotedStays
  <2>3. cmd \in DownMsg
    BY DEF DownMsg
  <2>4. Noted(redirectToAncestor(D, Root, n), redirectToAncestor(dn, Root, cmd), rel2, f)
    BY <1>4, <1>9, <2>1, <2>2, <2>3, NotedPushed
  <2>5. QED
    BY <1>2, <2>1, <2>4
<1>11. Noted(U, upw, AnswerRel(more), f)
  <2>1. PICK rel, rel2 : rel = AnswerRel(cmds) /\ rel2 = AnswerRel(more)
    OBVIOUS
  <2>2. Noted(U, upw, rel2, f)
    BY <1>3, <1>4, <1>9, <2>1, NotedStays
  <2>3. QED
    BY <2>1, <2>2
<1>12. Placed(NumbersOn(D2), NumbersOn(U), more, chain2, born2, f)
  <2>1. \A i \in 1..len : more[i] = cmds[i]
    BY <1>1, <1>2, AppendProperties
  <2>2. PICK A, B, A2 : A = NumbersOn(D) /\ B = NumbersOn(U) /\ A2 = NumbersOn(D2)
    OBVIOUS
  <2>3. /\ Placed(A, B, cmds, chain, born, f) /\ Among(A, B, len, f)
        /\ With(A, Root, len + 1, A2) /\ Grown(len, chain, born, chain2, born2)
    BY <1>1, <1>2, <1>3, <1>5, <1>8, <2>2
  <2>4. Placed(A2, B, more, chain2, born2, f)
    BY <2>1, <2>3, PlacedSubmitted
  <2>5. QED
    BY <2>2, <2>4
<1>13. NotesAgree(D2, U, more, chain2, born2, f, redirectToAncestor(dn, Root, cmd), upw)
  BY <1>3, <1>8, <1>10, <1>11, <1>12 DEF NotesAgree
<1>14. QED
  BY <1>1, <1>2, <1>13

-----------------------------------------------------------------------------
(***************************************************************************)
(* The tree is the chain as far as it has been forked, no record is        *)
(* answered in part, and for every command under way below a process, or   *)
(* whose answer is, the process has a record.                              *)
(***************************************************************************)
RecordsAreNew ==
  \A p \in Processes : \A i \in 1..Len(records[p]) :
    records[p][i].recievedResponses = 0 /\ ~records[p][i].wasGoodResponse

ChainShape(chain) ==
  /\ forked + 1 <= Len(chain)
  /\ \A p \in Processes :
       /\ phase[p] = (IF p <= forked THEN "running" ELSE "none")
       /\ children[p] = (IF p < forked THEN <<p + 1>> ELSE <<>>)
       /\ p <= forked => nodeId[p] = chain[p + 1]
  /\ \A c \in Forked : parent[c] = c - 1

ChainState(chain, born, D, U) ==
  /\ ChainKnown(submitted, chain, born)
  /\ ChainShape(chain)
  /\ RecordsAreNew
  /\ NotesAgree(D, U, submitted, chain, born, forked, down, up)
  /\ Covered(NumbersOn(D), NumbersOn(U), submitted, records)
  /\ AlwaysFindsARecord

\* The client gets no answer, or the one to a command that it got none to.
RootAnswers(U) ==
  \/ UNCHANGED eventsList
  \/ \E m, n : /\ eventsList' = Append(eventsList, m)
               /\ <<m, n>> \in AnswerRel(submitted)
               /\ n \notin NumbersOn(U)[Root]

ChainStep(chain, born, D, U) ==
  /\ UNCHANGED submitted
  /\ \E D2, U2 : ChainState(chain, born, D2, U2)'
  /\ RootAnswers(U)

\* Who waits for what, when a command is taken, answered or passed on.
LEMMA WaitingTaken ==
  ASSUME NEW A, NEW B, NEW cmds, NEW p \in Processes, NEW n, n \in A[p],
         NEW A1, Without(A, p, n, A1),
         NEW B2, B2 = B \/ With(B, p, n, B2), NEW r \in Processes, NEW type
  PROVE  Waiting(A1, B2, cmds, r, type) \subseteq Waiting(A, B, cmds, r, type)
<1>1. \A q \in Processes : A1[q] \subseteq A[q]
  BY DEF Without
<1>2. \A q \in Processes : \A k \in B2[q] : k \in B[q] \/ (k = n /\ q = p)
  BY DEF With
<1>3. QED
  BY <1>1, <1>2 DEF Waiting

LEMMA WaitingPassed ==
  ASSUME NEW A, NEW B, NEW cmds, NEW p \in Processes, p + 1 \in Processes,
         NEW n, n \in A[p], NEW A1, Without(A, p, n, A1),
         NEW A2, With(A1, p + 1, n, A2), NEW r \in Processes, NEW type
  PROVE  Waiting(A2, B, cmds, r, type) \subseteq
           Waiting(A, B, cmds, r, type)
             \cup (IF r = p /\ type = KindOf(cmds[n]) THEN {n} ELSE {})
<1>1. \A q \in Processes : \A k \in A2[q] : k \in A[q] \/ (k = n /\ q = p + 1)
  BY DEF Without, With
<1>2. p \in Nat /\ r \in Nat
  BY PidsAreNumbers
<1>3. SUFFICES ASSUME NEW k \in Waiting(A2, B, cmds, r, type),
                      k \notin Waiting(A, B, cmds, r, type)
               PROVE  r = p /\ type = KindOf(cmds[n]) /\ k = n
  OBVIOUS
<1>4. PICK q \in Processes : q > r /\ (k \in A2[q] \/ k \in B[q])
  BY <1>3 DEF Waiting
<1>5. k \in 1..Len(cmds) /\ KindOf(cmds[k]) = type
  BY <1>3 DEF Waiting
<1>6. k \notin A[q] /\ k \notin B[q]
  BY <1>3, <1>4, <1>5 DEF Waiting
<1>7. k = n /\ q = p + 1
  BY <1>1, <1>4, <1>6
<1>8. ~(p > r)
  BY <1>3, <1>5, <1>7 DEF Waiting
<1>9. QED
  BY <1>2, <1>4, <1>5, <1>7, <1>8

\* There is a record for a command that is passed on.
LEMMA CoveredPassed ==
  ASSUME NEW A, NEW B, NEW cmds, Len(cmds) \in Nat,
         NEW recs \in [Processes -> Seq(RecordSet)], Covered(A, B, cmds, recs),
         NEW p \in Processes, p + 1 \in Processes, NEW n, n \in A[p],
         NEW A1, Without(A, p, n, A1), NEW A2, With(A1, p + 1, n, A2),
         NEW kind \in CommandType, kind = KindOf(cmds[n]),
         NEW recs2, recs2 = [recs EXCEPT ![p] = Append(@, CommandRecord(kind))]
  PROVE  Covered(A2, B, cmds, recs2)
<1>1. MoreForOne(A, B, A2, B, cmds, n, p, kind)
  BY WaitingPassed DEF MoreForOne
<1>2. QED
  BY <1>1, CoveredByNew

LEMMA WaitingAnswered ==
  ASSUME NEW A, NEW B, NEW cmds, NEW p \in Processes, NEW c \in Processes, c > p,
         NEW n, n \in B[c], NEW B1, Without(B, c, n, B1), Nowhere(A, B1, n),
         NEW B2, With(B1, p, n, B2), NEW r \in Processes, NEW type
  PROVE  Waiting(A, B2, cmds, r, type) \subseteq
           IF r = p /\ type = KindOf(cmds[n])
           THEN Waiting(A, B, cmds, r, type) \ {n} ELSE Waiting(A, B, cmds, r, type)
<1>1. \A q \in Processes : \A k \in B2[q] :
        (k \in B[q] /\ k \in B1[q]) \/ (k = n /\ q = p)
  BY DEF Without, With
<1>2. p \in Nat /\ r \in Nat /\ c \in Nat
  BY PidsAreNumbers
<1>3. SUFFICES ASSUME NEW k \in Waiting(A, B2, cmds, r, type)
               PROVE  /\ k \in Waiting(A, B, cmds, r, type)
                      /\ r = p => k # n
  OBVIOUS
<1>4. PICK q \in Processes : q > r /\ (k \in A[q] \/ k \in B2[q])
  BY <1>3 DEF Waiting
<1>5. k \in 1..Len(cmds) /\ KindOf(cmds[k]) = type /\ q \in Nat
  BY <1>3, PidsAreNumbers DEF Waiting
<1>6. CASE k = n /\ q = p
  <2>1. c > r /\ r # p
    BY <1>2, <1>4, <1>5, <1>6
  <2>2. QED
    BY <1>5, <1>6, <2>1 DEF Waiting
<1>7. CASE k \in A[q] \/ (k \in B[q] /\ k \in B1[q])
  <2>1. k # n
    BY <1>7 DEF Nowhere
  <2>2. QED
    BY <1>4, <1>5, <1>7, <2>1 DEF Waiting
<1>8. QED
  BY <1>1, <1>4, <1>6, <1>7

\* What is known of a process that takes a command.
AtHead(chain, born, D, U, p, n) ==
  /\ forked \in Nat /\ forked \in Processes /\ p \in 0..forked
  /\ forked + 1 <= Len(chain) /\ Births(Len(submitted), chain, born)
  /\ n \in 1..Len(submitted) /\ Head(down[p]) = submitted[n]
  /\ submitted[n] \in CommandMsg
  /\ n \in NumbersOn(D)[p]
  /\ Without(NumbersOn(D), p, n, NumbersOn(Consumed(D, p)))
  /\ Reached(submitted[n], n, p, forked, chain, born)
  /\ IsKept(submitted[n], n, chain, born)
  /\ p = forked => \A i \in (forked + 2)..Len(chain) : born[i] >= n
  /\ nodeId[p] = chain[p + 1]
  /\ children[p] = (IF p < forked THEN <<p + 1>> ELSE <<>>)

LEMMA CommandAtHead ==
  ASSUME TypeOK, NEW chain, NEW born, NEW D, NEW U, ChainState(chain, born, D, U),
         NEW p \in Processes, down[p] # <<>>, NEW n, n = Head(D[p])
  PROVE  AtHead(chain, born, D, U, p, n)
<1>1. /\ ChainKnown(submitted, chain, born) /\ ChainShape(chain)
      /\ NotesAgree(D, U, submitted, chain, born, forked, down, up)
  BY DEF ChainState
<1>2. forked \in Nat /\ forked \in Processes /\ submitted \in Seq(CommandMsg)
  BY ConstantsAssumption DEF TypeOK, Processes, Pids, Root
<1>3. TakesFirst(D, submitted, chain, born, forked, down, p, n)
  <2>1. down \in Paths(DownMsg)
    BY TypedPaths
  <2>2. QED
    BY <1>1, <1>2, <2>1, NoteOfCommand
<1>4. /\ p \in 0..forked
      /\ n \in 1..Len(submitted) /\ Head(down[p]) = submitted[n]
      /\ submitted[n] \in CommandMsg
      /\ n \in NumbersOn(D)[p] /\ IsFirst(NumbersOn(D), p, n)
      /\ Without(NumbersOn(D), p, n, NumbersOn(Consumed(D, p)))
      /\ Reached(submitted[n], n, p, forked, chain, born)
      /\ \A q \in Processes : q > forked => NumbersOn(D)[q] = {}
  BY <1>3 DEF TakesFirst
<1>5. ASSUME p = forked PROVE \A i \in (forked + 2)..Len(chain) : born[i] >= n
  <2>1. Placed(NumbersOn(D), NumbersOn(U), submitted, chain, born, forked)
    BY <1>1 DEF NotesAgree
  <2>2. IsFirst(NumbersOn(D), forked, n)
    BY <1>4, <1>5
  <2>3. QED
    BY <1>2, <1>4, <2>1, <2>2, NoneBornBefore
<1>6. /\ Births(Len(submitted), chain, born)
      /\ IsKept(submitted[n], n, chain, born)
  BY <1>1, <1>4 DEF ChainKnown
<1>7. /\ forked + 1 <= Len(chain)
      /\ nodeId[p] = chain[p + 1]
      /\ children[p] = (IF p < forked THEN <<p + 1>> ELSE <<>>)
  BY <1>1, <1>4 DEF ChainShape
<1>8. QED
  BY <1>2, <1>4, <1>5, <1>6, <1>7 DEF AtHead

\* Who is yet to be born by the command that p has.
LEMMA BirthAtHead ==
  ASSUME NEW chain, NEW born, NEW D, NEW U, NEW p, NEW n,
         AtHead(chain, born, D, U, p, n), ChainKnown(submitted, chain, born),
         submitted \in Seq(CommandMsg),
         NEW i \in (forked + 2)..Len(chain), born[i] = n
  PROVE  /\ submitted[n].type = "CommandCreate"
         /\ submitted[n].newNodeId # nodeId[p]
         /\ p = forked => IsFor(submitted[n], p, chain)
<1>1. /\ forked \in Nat /\ p \in 0..forked /\ nodeId[p] = chain[p + 1]
      /\ Births(Len(submitted), chain, born)
      /\ p = forked => \A j \in (forked + 2)..Len(chain) : born[j] >= n
  BY DEF AtHead
<1>2. /\ Len(chain) \in Nat
      /\ \A j \in 1..Len(chain) : born[j] \in Nat
      /\ \A j, k \in 1..Len(chain) : j < k => born[j] < born[k] /\ chain[j] # chain[k]
  <2>1. PICK len \in Nat : len = Len(submitted)
    BY LenProperties
  <2>2. Births(len, chain, born)
    BY <1>1, <2>1
  <2>3. QED
    BY <2>2, BirthsTyped, Zenon
<1>3. i \in 2..Len(chain) /\ i \in 1..Len(chain) /\ p + 1 \in 1..Len(chain) /\ p + 1 < i
  BY <1>1, <1>2
<1>4. /\ submitted[n].type = "CommandCreate"
      /\ submitted[n].newNodeId = chain[i]
      /\ submitted[n].parentId = chain[i - 1]
  <2>1. CreatesNext(submitted, chain, born, i)
    BY <1>3, BirthIsCreate, Zenon
  <2>2. QED
    BY <2>1, Zenon DEF CreatesNext
<1>5. chain[p + 1] # chain[i]
  BY <1>2, <1>3
<1>6. ASSUME p = forked PROVE IsFor(submitted[n], p, chain)
  <2>1. i = forked + 2
    <3>1. SUFFICES ASSUME i # forked + 2 PROVE FALSE
      OBVIOUS
    <3>2. forked + 2 \in (forked + 2)..Len(chain) /\ forked + 2 \in 1..Len(chain)
          /\ forked + 2 < i
      BY <1>1, <1>2, <3>1
    <3>3. born[forked + 2] < n /\ born[forked + 2] \in Nat /\ born[i] \in Nat
      BY <1>2, <1>3, <3>2
    <3>4. QED
      BY <1>1, <1>6, <3>2, <3>3
  <2>2. i - 1 = p + 1
    BY <1>1, <1>6, <2>1
  <2>3. QED
    BY <1>4, <2>2 DEF IsFor
<1>7. QED
  BY <1>1, <1>4, <1>5, <1>6

\* A response that a command has, and what it is in the service.
LEMMA AnswerIsRight ==
  ASSUME NEW m \in ResponseMsg, NEW n \in 1..Len(submitted),
         submitted \in Seq(CommandMsg), m.type # "NodeIsDeadResponse",
         RecordType(m) = KindOf(submitted[n]),
         OutcomeOf(m) = Service!Outcome(submitted, n)
  PROVE  <<m, n>> \in AnswerRel(submitted)
<1>1. n \in Nat
  BY LenProperties
<1>2. PICK x : x = <<m, n>>
  OBVIOUS
<1>3. x \in ResponseMsg \X Nat /\ x[1] = m /\ x[2] = n
  BY <1>1, <1>2
<1>4. QED
  BY <1>2, <1>3 DEF AnswerRel

\* p is the last process, which gives birth to the next one.
GivesBirthNext(cmd, n, p, chain, born) ==
  /\ p = forked /\ forked + 2 <= Len(chain)
  /\ born[forked + 2] = n /\ chain[forked + 2] = cmd.newNodeId
  /\ \A pid \in Nat : <<GoodCreateResp(cmd.newNodeId, pid), n>> \in AnswerRel(submitted)

LEMMA AnswersAtHead ==
  ASSUME TypeOK, NEW chain, NEW born, NEW D, NEW U, NEW p \in Processes, NEW n,
         AtHead(chain, born, D, U, p, n), ChainKnown(submitted, chain, born),
         NEW cmd, cmd = submitted[n]
  PROVE  /\ cmd.type = "CommandCreate" /\ cmd.newNodeId = nodeId[p] =>
              <<NodeExistResponse(nodeId[p]), n>> \in AnswerRel(submitted)
         /\ /\ cmd.type = "CommandCreate"
            /\ cmd.newNodeId # nodeId[p] /\ cmd.parentId = nodeId[p]
            => GivesBirthNext(cmd, n, p, chain, born)
         /\ cmd.type = "CommandExec" /\ p # Root /\ cmd.nodeId = nodeId[p] =>
              <<GoodExecResp(nodeId[p], cmd.k), n>> \in AnswerRel(submitted)
         /\ /\ cmd.type \in {"CommandExec", "CommandCreate"}
            /\ p = forked /\ ~IsFor(cmd, p, chain)
            => <<handleDeadEnd(cmd), n>> \in AnswerRel(submitted)
<1>1. /\ forked \in Nat /\ p \in 0..forked /\ p \in Nat /\ forked + 1 <= Len(chain)
      /\ Births(Len(submitted), chain, born)
      /\ n \in 1..Len(submitted) /\ cmd \in CommandMsg
      /\ Reached(cmd, n, p, forked, chain, born) /\ IsKept(cmd, n, chain, born)
      /\ p = forked => \A i \in (forked + 2)..Len(chain) : born[i] >= n
      /\ nodeId[p] = chain[p + 1]
  BY DEF AtHead
<1>2. PICK len \in Nat : len = Len(submitted)
  BY LenProperties DEF TypeOK
<1>3. n \in Nat /\ submitted \in Seq(CommandMsg) /\ Len(chain) \in Nat /\ nodeId[p] \in Nat
  BY <1>1, <1>2, LenProperties DEF TypeOK, Births
<1>4. /\ cmd.type = "CommandExec" => cmd.nodeId \in Nat /\ cmd.k \in Nat
      /\ cmd.type = "CommandCreate" => cmd.newNodeId \in Nat /\ cmd.parentId \in Nat
  BY <1>1 DEF CommandMsg, CommandPrintTree
<1>5. /\ cmd.type = "CommandExec" =>
           IF \E i \in 2..Len(chain) : born[i] < n /\ chain[i] = cmd.nodeId
           THEN Service!Outcome(submitted, n) = Service!Ok(cmd.nodeId, cmd.k)
           ELSE Service!Outcome(submitted, n) = Service!Unavailable(cmd.nodeId)
      /\ cmd.type = "CommandCreate" =>
           /\ NamesOneAbove(cmd, n, chain, born) =>
                Service!Outcome(submitted, n) = Service!Exists(cmd.newNodeId)
           /\ GivesBirth(cmd, n, chain, born) =>
                Service!Outcome(submitted, n) = Service!Created(cmd.newNodeId)
           /\ NamesNobody(cmd, n, chain, born) =>
                Service!Outcome(submitted, n) = Service!NotCreated
  BY <1>1, <1>2, OutcomeIs
<1>6. /\ cmd.type = "CommandExec" => KindOf(submitted[n]) = "Exec"
      /\ cmd.type = "CommandCreate" => KindOf(submitted[n]) = "Create"
  BY DEF KindOf
<1>7. ASSUME cmd.type = "CommandCreate", cmd.newNodeId = nodeId[p]
      PROVE  <<NodeExistResponse(nodeId[p]), n>> \in AnswerRel(submitted)
  <2>1. NamesOneAbove(cmd, n, chain, born)
    BY <1>1, <1>2, <1>3, <1>7, CreateIsHere
  <2>2. PICK m : m = NodeExistResponse(nodeId[p])
    OBVIOUS
  <2>3. m \in ResponseMsg
    BY <1>3, <2>2, ResponseMsgs
  <2>4. RecordType(m) = "Create" /\ m.type # "NodeIsDeadResponse"
    BY <2>2 DEF RecordType, NodeExistResponse
  <2>5. OutcomeOf(m) = Service!Exists(cmd.newNodeId)
    BY <1>7, <2>2 DEF OutcomeOf, NodeExistResponse, Service!Exists
  <2>6. QED
    BY <1>1, <1>3, <1>5, <1>6, <1>7, <2>1, <2>2, <2>3, <2>4, <2>5, AnswerIsRight
<1>8. ASSUME cmd.type = "CommandCreate", cmd.newNodeId # nodeId[p], cmd.parentId = nodeId[p]
      PROVE  GivesBirthNext(cmd, n, p, chain, born)
  <2>1. /\ GivesBirth(cmd, n, chain, born)
        /\ p = forked /\ forked + 2 <= Len(chain)
        /\ born[forked + 2] = n /\ chain[forked + 2] = cmd.newNodeId
    BY <1>1, <1>2, <1>3, <1>8, CreateIsHere
  <2>2. ASSUME NEW pid \in Nat
        PROVE  <<GoodCreateResp(cmd.newNodeId, pid), n>> \in AnswerRel(submitted)
    <3>1. PICK m : m = GoodCreateResp(cmd.newNodeId, pid)
      OBVIOUS
    <3>2. m \in ResponseMsg
      BY <1>4, <1>8, <3>1, ResponseMsgs
    <3>3. RecordType(m) = "Create" /\ m.type # "NodeIsDeadResponse"
      BY <3>1 DEF RecordType, GoodCreateResp
    <3>4. OutcomeOf(m) = Service!Created(cmd.newNodeId)
      BY <3>1 DEF OutcomeOf, GoodCreateResp, Service!Created
    <3>5. QED
      BY <1>1, <1>3, <1>5, <1>6, <1>8, <2>1, <3>1, <3>2, <3>3, <3>4, AnswerIsRight
  <2>3. QED
    BY <2>1, <2>2 DEF GivesBirthNext
<1>9. ASSUME cmd.type = "CommandExec", p # Root, cmd.nodeId = nodeId[p]
      PROVE  <<GoodExecResp(nodeId[p], cmd.k), n>> \in AnswerRel(submitted)
  <2>1. \E i \in 2..Len(chain) : born[i] < n /\ chain[i] = cmd.nodeId
    <3>1. p \in 1..forked
      BY <1>1, <1>9 DEF Root
    <3>2. cmd.nodeId = chain[p + 1]
      BY <1>1, <1>9
    <3>3. p + 1 \in 2..Len(chain) /\ p + 1 \in 1..(forked + 1)
      BY <1>1, <1>3, <3>1
    <3>4. born[p + 1] < n
      BY <1>1, <3>3 DEF Reached
    <3>5. QED
      BY <3>2, <3>3, <3>4
  <2>2. PICK m : m = GoodExecResp(nodeId[p], cmd.k)
    OBVIOUS
  <2>3. m \in ResponseMsg
    BY <1>3, <1>4, <1>9, <2>2, ResponseMsgs
  <2>4. RecordType(m) = "Exec" /\ m.type # "NodeIsDeadResponse"
    BY <2>2 DEF RecordType, GoodExecResp
  <2>5. OutcomeOf(m) = Service!Ok(cmd.nodeId, cmd.k)
    BY <1>9, <2>2 DEF OutcomeOf, GoodExecResp, Service!Ok
  <2>6. QED
    BY <1>1, <1>3, <1>5, <1>6, <1>9, <2>1, <2>2, <2>3, <2>4, <2>5, AnswerIsRight
<1>10. ASSUME cmd.type = "CommandExec", p = forked, ~IsFor(cmd, p, chain)
       PROVE  <<handleDeadEnd(cmd), n>> \in AnswerRel(submitted)
  <2>1. ~\E i \in 2..Len(chain) : born[i] < n /\ chain[i] = cmd.nodeId
    <3>1. PICK f : f = forked
      OBVIOUS
    <3>2. /\ f \in Nat /\ f + 1 <= Len(chain) /\ n \in Nat /\ len \in Nat
          /\ Births(len, chain, born) /\ Reached(cmd, n, f, f, chain, born)
          /\ ~IsFor(cmd, f, chain)
      BY <1>1, <1>2, <1>3, <1>10, <3>1
    <3>3. \A i \in (f + 2)..Len(chain) : born[i] >= n
      BY <1>1, <1>10, <3>1
    <3>4. QED
      BY <1>10, <3>2, <3>3, ExecIsNowhere
  <2>2. PICK m : m = BadExecResp(cmd.nodeId)
    OBVIOUS
  <2>3. m = handleDeadEnd(cmd) /\ m \in ResponseMsg
    BY <1>4, <1>10, <2>2, ResponseMsgs DEF handleDeadEnd
  <2>4. RecordType(m) = "Exec" /\ m.type # "NodeIsDeadResponse"
    BY <2>2 DEF RecordType, BadExecResp
  <2>5. OutcomeOf(m) = Service!Unavailable(cmd.nodeId)
    BY <1>10, <2>2 DEF OutcomeOf, BadExecResp, Service!Unavailable
  <2>6. QED
    BY <1>1, <1>3, <1>5, <1>6, <1>10, <2>1, <2>3, <2>4, <2>5, AnswerIsRight
<1>11. ASSUME cmd.type = "CommandCreate", p = forked, ~IsFor(cmd, p, chain)
       PROVE  <<handleDeadEnd(cmd), n>> \in AnswerRel(submitted)
  <2>1. NamesNobody(cmd, n, chain, born)
    BY <1>1, <1>2, <1>3, <1>11, CreateIsNowhere
  <2>2. PICK m : m = BadCreateResp(cmd.parentId, cmd.newNodeId)
    OBVIOUS
  <2>3. m = handleDeadEnd(cmd) /\ m \in ResponseMsg
    BY <1>4, <1>11, <2>2, ResponseMsgs DEF handleDeadEnd
  <2>4. RecordType(m) = "Create" /\ m.type # "NodeIsDeadResponse"
    BY <2>2 DEF RecordType, BadCreateResp
  <2>5. OutcomeOf(m) = Service!NotCreated
    BY <1>11, <2>2 DEF OutcomeOf, BadCreateResp, Service!NotCreated
  <2>6. QED
    BY <1>1, <1>3, <1>5, <1>6, <1>11, <2>1, <2>3, <2>4, <2>5, AnswerIsRight
<1>12. QED
  BY <1>7, <1>8, <1>9, <1>10, <1>11

-----------------------------------------------------------------------------
(***************************************************************************)
(* The steps of a chain.                                                   *)
(***************************************************************************)
LEMMA StateKept ==
  ASSUME NEW chain, NEW born, NEW D, NEW U, ChainState(chain, born, D, U),
         UNCHANGED <<forked, phase, nodeId, parent, children, submitted, ranOff>>,
         RecordsAreNew', NEW D2, NEW U2,
         NotesAgree(D2, U2, submitted, chain, born, forked, down', up'),
         Covered(NumbersOn(D2), NumbersOn(U2), submitted, records')
  PROVE  ChainState(chain, born, D2, U2)'
<1>1. ChainShape(chain)'
  BY DEF ChainState, ChainShape, Forked
<1>2. AlwaysFindsARecord'
  BY DEF ChainState, AlwaysFindsARecord
<1>3. ChainKnown(submitted, chain, born)
  BY DEF ChainState
<1>4. submitted' = submitted /\ forked' = forked
  OBVIOUS
<1>5. QED
  BY <1>1, <1>2, <1>3, <1>4 DEF ChainState

LEMMA AnswerReaches ==
  ASSUME TypeOK, NEW U, NEW path, path[Root] = up[Root],
         path \in Paths(ResponseMsg), NEW p \in Processes, NEW m, NEW n,
         <<m, n>> \in AnswerRel(submitted), n \notin NumbersOn(U)[Root],
         up' = redirectToAncestor(path, p, m)
  PROVE  RootAnswers(U)
<1>1. Root \in Processes
  BY PidsAreNumbers
<1>2. up'[Root] = IF p = Root THEN Append(up[Root], m) ELSE up[Root]
  BY <1>1 DEF redirectToAncestor, Paths
<1>3. QED
  BY <1>2 DEF RootAnswers, eventsList

LEMMA NewRecordIsNew ==
  ASSUME TypeOK, RecordsAreNew, NEW p \in Processes, NEW kind \in CommandType,
         records' = [records EXCEPT ![p] = Append(@, CommandRecord(kind))]
  PROVE  RecordsAreNew'
<1>1. SUFFICES ASSUME NEW q \in Processes, NEW i \in 1..Len(records'[q])
               PROVE  records'[q][i].recievedResponses = 0
                        /\ ~records'[q][i].wasGoodResponse
  BY DEF RecordsAreNew
<1>2. records \in [Processes -> Seq(RecordSet)] /\ CommandRecord(kind) \in RecordSet
  BY DEF TypeOK, CommandRecord, RecordSet, CommandType
<1>3. CASE q = p
  <2>1. PICK recs : recs = records[p]
    OBVIOUS
  <2>2. PICK new \in RecordSet : new = CommandRecord(kind)
    BY <1>2
  <2>7. recs \in Seq(RecordSet) /\ records'[q] = Append(recs, new)
    BY <1>2, <1>3, <2>1, <2>2
  <2>8. /\ Len(recs) \in Nat /\ Len(Append(recs, new)) = Len(recs) + 1
        /\ Append(recs, new)[Len(recs) + 1] = new
        /\ \A j \in 1..Len(recs) : Append(recs, new)[j] = recs[j]
    BY <2>7, AppendProperties, LenProperties
  <2>3. /\ Len(recs) \in Nat /\ Len(records'[q]) = Len(recs) + 1
        /\ records'[q][Len(recs) + 1] = CommandRecord(kind)
        /\ \A j \in 1..Len(recs) : records'[q][j] = recs[j]
    BY <2>2, <2>7, <2>8
  <2>4. CASE i \in 1..Len(recs)
    BY <2>1, <2>3, <2>4 DEF RecordsAreNew
  <2>5. CASE i = Len(recs) + 1
    BY <2>3, <2>5 DEF CommandRecord
  <2>6. QED
    BY <2>3, <2>4, <2>5
<1>4. CASE q # p
  <2>1. records'[q] = records[q]
    BY <1>2, <1>4
  <2>2. QED
    BY <2>1 DEF RecordsAreNew
<1>5. QED
  BY <1>3, <1>4

LEMMA OthersStayNew ==
  ASSUME TypeOK, RecordsAreNew, NEW p \in Processes, NEW i \in 1..Len(records[p]),
         records' = [records EXCEPT ![p] = RemoveAt(@, i)]
  PROVE  RecordsAreNew'
<1>1. SUFFICES ASSUME NEW q \in Processes, NEW j \in 1..Len(records'[q])
               PROVE  records'[q][j].recievedResponses = 0
                        /\ ~records'[q][j].wasGoodResponse
  BY DEF RecordsAreNew
<1>2. records \in [Processes -> Seq(RecordSet)]
  BY DEF TypeOK
<1>3. CASE q = p
  <2>1. PICK recs : recs = records[p]
    OBVIOUS
  <2>2. /\ recs \in Seq(RecordSet) /\ Len(recs) \in Nat /\ i \in 1..Len(recs)
        /\ records'[q] = RemoveAt(recs, i)
    BY <1>2, <1>3, <2>1, LenProperties
  <2>3. /\ Len(records'[q]) = Len(recs) - 1
        /\ \A k \in 1..(Len(recs) - 1) :
              records'[q][k] = IF k < i THEN recs[k] ELSE recs[k + 1]
    BY <2>2, RemoveAtProperties
  <2>4. j \in 1..(Len(recs) - 1) /\ j \in 1..Len(recs) /\ j + 1 \in 1..Len(recs)
    BY <2>2, <2>3
  <2>5. \A k \in 1..Len(recs) : recs[k].recievedResponses = 0 /\ ~recs[k].wasGoodResponse
    BY <2>1 DEF RecordsAreNew
  <2>6. QED
    BY <2>3, <2>4, <2>5
<1>4. CASE q # p
  <2>1. records'[q] = records[q]
    BY <1>2, <1>4
  <2>2. QED
    BY <2>1 DEF RecordsAreNew
<1>5. QED
  BY <1>3, <1>4

LEMMA StateTyped ==
  ASSUME TypeOK
  PROVE  /\ forked \in Nat /\ submitted \in Seq(CommandMsg) /\ down \in Paths(DownMsg)
         /\ up \in Paths(ResponseMsg) /\ records \in [Processes -> Seq(RecordSet)]
         /\ Len(submitted) \in Nat /\ Root \in Processes
<1>1. /\ forked \in Nat /\ submitted \in Seq(CommandMsg)
      /\ records \in [Processes -> Seq(RecordSet)]
  BY ConstantsAssumption DEF TypeOK
<1>2. down \in Paths(DownMsg) /\ up \in Paths(ResponseMsg)
  BY TypedPaths
<1>3. Len(submitted) \in Nat
  BY <1>1, LenProperties
<1>4. QED
  BY <1>1, <1>2, <1>3, PidsAreNumbers

\* The command is taken, and answered or not, and a record is added or not.
LEMMA StepTaken ==
  ASSUME TypeOK, NEW chain, NEW born, NEW D, NEW U, ChainState(chain, born, D, U),
         NEW p \in Processes, down[p] # <<>>, NEW n, n = Head(D[p]),
         \A i \in (forked + 2)..Len(chain) : born[i] # n,
         UNCHANGED <<forked, phase, nodeId, parent, children, submitted, ranOff>>,
         down' = Consumed(down, p),
         \/ up' = up
         \/ \E m : /\ <<m, n>> \in AnswerRel(submitted)
                   /\ up' = redirectToAncestor(up, p, m),
         \/ records' = records
         \/ \E kind \in CommandType :
              records' = [records EXCEPT ![p] = Append(@, CommandRecord(kind))]
  PROVE  ChainStep(chain, born, D, U)
<1>1. /\ NotesAgree(D, U, submitted, chain, born, forked, down, up)
      /\ Covered(NumbersOn(D), NumbersOn(U), submitted, records)
      /\ RecordsAreNew
  BY DEF ChainState
<1>2. /\ forked \in Nat /\ submitted \in Seq(CommandMsg) /\ down \in Paths(DownMsg)
      /\ up \in Paths(ResponseMsg) /\ records \in [Processes -> Seq(RecordSet)]
      /\ Len(submitted) \in Nat /\ Root \in Processes
  BY StateTyped
<1>3. PICK D2 : D2 = Consumed(D, p)
  OBVIOUS
<1>4. /\ NotesAgree(D2, U, submitted, chain, born, forked, down', up)
      /\ Nowhere(NumbersOn(D2), NumbersOn(U), n)
  <2>1. /\ NotesAgree(Consumed(D, p), U, submitted, chain, born, forked,
                      Consumed(down, p), up)
        /\ Nowhere(NumbersOn(Consumed(D, p)), NumbersOn(U), n)
    <3>1. PICK f, cmds, dn, upw : f = forked /\ cmds = submitted /\ dn = down /\ upw = up
      OBVIOUS
    <3>2. /\ f \in Nat /\ cmds \in Seq(CommandMsg) /\ dn \in Paths(DownMsg)
          /\ NotesAgree(D, U, cmds, chain, born, f, dn, upw)
          /\ dn[p] # <<>>
          /\ \A i \in (f + 2)..Len(chain) : born[i] # n
      BY <1>1, <1>2, <3>1
    <3>3. CanTake(D, U, cmds, chain, born, f, dn, upw, p, n)
      BY <3>2, Zenon DEF CanTake
    <3>4. /\ NotesAgree(Consumed(D, p), U, cmds, chain, born, f, Consumed(dn, p), upw)
          /\ Nowhere(NumbersOn(Consumed(D, p)), NumbersOn(U), n)
      BY <3>3, AgreeTaken, Zenon
    <3>5. QED
      BY <3>1, <3>4, Zenon
  <2>2. QED
    BY <1>3, <2>1
<1>5. /\ n \in NumbersOn(D)[p] /\ Without(NumbersOn(D), p, n, NumbersOn(D2))
      /\ p \in 0..forked
  BY <1>3, CommandAtHead DEF AtHead
<1>6. PICK U2 : /\ NotesAgree(D2, U2, submitted, chain, born, forked, down', up')
                /\ NumbersOn(U2) = NumbersOn(U) \/ With(NumbersOn(U), p, n, NumbersOn(U2))
  <2>1. CASE up' = up
    BY <1>4, <2>1
  <2>2. ASSUME NEW m, <<m, n>> \in AnswerRel(submitted),
               up' = redirectToAncestor(up, p, m)
        PROVE  \E U2 : /\ NotesAgree(D2, U2, submitted, chain, born, forked, down', up')
                       /\ With(NumbersOn(U), p, n, NumbersOn(U2))
    <3>1. ~(p > forked)
      BY <1>2, <1>5
    <3>2. PICK dn : dn = down'
      OBVIOUS
    <3>3. NotesAgree(D2, U, submitted, chain, born, forked, dn, up)
      BY <1>4, <3>2
    <3>4. /\ NotesAgree(D2, redirectToAncestor(U, p, n), submitted, chain, born, forked,
                        dn, redirectToAncestor(up, p, m))
          /\ With(NumbersOn(U), p, n, NumbersOn(redirectToAncestor(U, p, n)))
      BY <1>2, <1>4, <2>2, <3>1, <3>3, AgreeAnswered
    <3>5. QED
      BY <2>2, <3>2, <3>4
  <2>3. QED
    BY <2>1, <2>2
<1>7. \A r \in Processes, type \in CommandType :
        Waiting(NumbersOn(D2), NumbersOn(U2), submitted, r, type)
          \subseteq Waiting(NumbersOn(D), NumbersOn(U), submitted, r, type)
  BY <1>5, <1>6, WaitingTaken
<1>8. /\ Covered(NumbersOn(D2), NumbersOn(U2), submitted, records')
      /\ RecordsAreNew'
  <2>1. CASE records' = records
    <3>1. Covered(NumbersOn(D2), NumbersOn(U2), submitted, records)
      BY <1>1, <1>2, <1>7, CoveredKept
    <3>2. QED
      BY <1>1, <2>1, <3>1 DEF RecordsAreNew
  <2>2. ASSUME NEW kind \in CommandType,
               records' = [records EXCEPT ![p] = Append(@, CommandRecord(kind))]
        PROVE  /\ Covered(NumbersOn(D2), NumbersOn(U2), submitted, records')
               /\ RecordsAreNew'
    <3>1. MoreForOne(NumbersOn(D), NumbersOn(U), NumbersOn(D2), NumbersOn(U2),
                     submitted, n, p, kind)
      BY <1>7 DEF MoreForOne
    <3>2. Covered(NumbersOn(D2), NumbersOn(U2), submitted, records')
      BY <1>1, <1>2, <2>2, <3>1, CoveredByNew
    <3>3. QED
      BY <1>1, <2>2, <3>2, NewRecordIsNew
  <2>3. QED
    BY <2>1, <2>2
<1>9. ChainState(chain, born, D2, U2)'
  BY <1>6, <1>8, StateKept
<1>10. RootAnswers(U)
  <2>1. CASE up' = up
    BY <2>1 DEF RootAnswers, eventsList
  <2>2. ASSUME NEW m, <<m, n>> \in AnswerRel(submitted),
               up' = redirectToAncestor(up, p, m)
        PROVE  RootAnswers(U)
    <3>1. n \notin NumbersOn(U)[Root]
      BY <1>2, <1>4 DEF Nowhere
    <3>2. QED
      BY <1>2, <2>2, <3>1, AnswerReaches
  <2>3. QED
    BY <2>1, <2>2
<1>11. QED
  BY <1>9, <1>10 DEF ChainStep

\* The command is passed on to the child, and a record is kept of it.
LEMMA StepPassed ==
  ASSUME TypeOK, NEW chain, NEW born, NEW D, NEW U, ChainState(chain, born, D, U),
         NEW p \in Processes, down[p] # <<>>, NEW n, n = Head(D[p]),
         p < forked, ~IsFor(submitted[n], p, chain),
         UNCHANGED <<forked, phase, nodeId, parent, children, submitted, up, ranOff>>,
         down' = redirectToAncestor(Consumed(down, p), p + 1, Head(down[p])),
         NEW kind \in CommandType, kind = KindOf(submitted[n]),
         records' = [records EXCEPT ![p] = Append(@, CommandRecord(kind))]
  PROVE  ChainStep(chain, born, D, U)
<1>1. /\ NotesAgree(D, U, submitted, chain, born, forked, down, up)
      /\ Covered(NumbersOn(D), NumbersOn(U), submitted, records)
      /\ RecordsAreNew
  BY DEF ChainState
<1>2. /\ forked \in Nat /\ submitted \in Seq(CommandMsg) /\ down \in Paths(DownMsg)
      /\ up \in Paths(ResponseMsg) /\ records \in [Processes -> Seq(RecordSet)]
      /\ Len(submitted) \in Nat /\ Root \in Processes
  BY StateTyped
<1>3. PICK D1, D2 : /\ D1 = Consumed(D, p)
                    /\ D2 = redirectToAncestor(Consumed(D, p), p + 1, n)
  OBVIOUS
<1>4. p + 1 \in Processes
  <2>1. p \in Nat /\ MaxPid \in Nat /\ forked \in 0..MaxPid
    BY PidsAreNumbers, ConstantsAssumption DEF TypeOK
  <2>2. p + 1 \in 1..MaxPid
    BY <2>1
  <2>3. QED
    BY <2>2 DEF Processes, Pids
<1>5. /\ NotesAgree(D2, U, submitted, chain, born, forked, down', up)
      /\ With(NumbersOn(D1), p + 1, n, NumbersOn(D2))
  <2>1. PICK f, cmds, dn, upw : f = forked /\ cmds = submitted /\ dn = down /\ upw = up
    OBVIOUS
  <2>2. /\ f \in Nat /\ cmds \in Seq(CommandMsg) /\ dn \in Paths(DownMsg)
        /\ NotesAgree(D, U, cmds, chain, born, f, dn, upw)
        /\ p < f /\ dn[p] # <<>> /\ ~IsFor(cmds[n], p, chain)
    BY <1>1, <1>2, <2>1
  <2>3. /\ NotesAgree(D2, U, cmds, chain, born, f,
              redirectToAncestor(Consumed(dn, p), p + 1, Head(dn[p])), upw)
        /\ With(NumbersOn(Consumed(D, p)), p + 1, n, NumbersOn(D2))
    BY <1>3, <1>4, <2>2, AgreePassed
  <2>4. QED
    BY <1>3, <2>1, <2>3
<1>6. n \in NumbersOn(D)[p] /\ Without(NumbersOn(D), p, n, NumbersOn(D1))
  BY <1>3, CommandAtHead DEF AtHead
<1>8. Covered(NumbersOn(D2), NumbersOn(U), submitted, records')
  <2>1. PICK A, B, A1, A2, cmds, recs, recs2 :
          /\ A = NumbersOn(D) /\ B = NumbersOn(U)
          /\ A1 = NumbersOn(D1) /\ A2 = NumbersOn(D2)
          /\ cmds = submitted /\ recs = records /\ recs2 = records'
    OBVIOUS
  <2>2. /\ Covered(A, B, cmds, recs) /\ n \in A[p]
        /\ Without(A, p, n, A1) /\ With(A1, p + 1, n, A2)
        /\ Len(cmds) \in Nat /\ recs \in [Processes -> Seq(RecordSet)]
        /\ kind = KindOf(cmds[n])
        /\ recs2 = [recs EXCEPT ![p] = Append(@, CommandRecord(kind))]
    BY <1>1, <1>2, <1>5, <1>6, <2>1
  <2>3. Covered(A2, B, cmds, recs2)
    BY <1>4, <2>2, CoveredPassed
  <2>4. QED
    BY <2>1, <2>3
<1>9. RecordsAreNew'
  BY <1>1, NewRecordIsNew
<1>10. NotesAgree(D2, U, submitted, chain, born, forked, down', up')
  BY <1>5
<1>11. ChainState(chain, born, D2, U)'
  BY <1>8, <1>9, <1>10, StateKept
<1>12. RootAnswers(U)
  BY DEF RootAnswers, eventsList
<1>13. QED
  BY <1>11, <1>12 DEF ChainStep

\* The last process forks the next one.
LEMMA StepBorn ==
  ASSUME TypeOK, NEW chain, NEW born, NEW D, NEW U, ChainState(chain, born, D, U),
         down[forked] # <<>>, NEW n, n = Head(D[forked]),
         forked + 2 <= Len(chain), born[forked + 2] = n,
         UNCHANGED <<records, submitted, ranOff>>,
         forked' = forked + 1, ChainShape(chain)',
         down' = Consumed(down, forked),
         NEW m, <<m, n>> \in AnswerRel(submitted),
         up' = redirectToAncestor(up, forked, m)
  PROVE  ChainStep(chain, born, D, U)
<1>1. /\ NotesAgree(D, U, submitted, chain, born, forked, down, up)
      /\ Covered(NumbersOn(D), NumbersOn(U), submitted, records)
      /\ RecordsAreNew /\ AlwaysFindsARecord /\ ChainKnown(submitted, chain, born)
  BY DEF ChainState
<1>2. /\ forked \in Nat /\ submitted \in Seq(CommandMsg) /\ down \in Paths(DownMsg)
      /\ up \in Paths(ResponseMsg) /\ records \in [Processes -> Seq(RecordSet)]
      /\ Len(submitted) \in Nat /\ Root \in Processes
  BY StateTyped
<1>3. forked \in Processes
  BY <1>2, PidsAreNumbers DEF TypeOK, Processes, Pids
<1>4. PICK f, cmds, dn, upw, dn2 :
        /\ f = forked /\ cmds = submitted /\ dn = down /\ upw = up
        /\ dn2 = Consumed(down, forked)
  OBVIOUS
<1>5. PICK D2, U2 : D2 = Consumed(D, f) /\ U2 = redirectToAncestor(U, f, n)
  OBVIOUS
<1>6. /\ f \in Nat /\ f \in Processes /\ cmds \in Seq(CommandMsg) /\ dn \in Paths(DownMsg)
      /\ upw \in Paths(ResponseMsg)
      /\ NotesAgree(D, U, cmds, chain, born, f, dn, upw)
      /\ dn[f] # <<>> /\ n = Head(D[f]) /\ f + 2 <= Len(chain) /\ born[f + 2] = n
      /\ Births(Len(cmds), chain, born) /\ <<m, n>> \in AnswerRel(cmds)
  BY <1>1, <1>2, <1>3, <1>4 DEF ChainKnown
<1>7. /\ NotesAgree(D2, U, cmds, chain, born, f + 1, dn2, upw)
      /\ Nowhere(NumbersOn(D2), NumbersOn(U), n)
  <2>1. /\ NotesAgree(Consumed(D, f), U, cmds, chain, born, f + 1, Consumed(dn, f), upw)
        /\ Nowhere(NumbersOn(Consumed(D, f)), NumbersOn(U), n)
    BY <1>6, AgreeBorn
  <2>2. QED
    BY <1>4, <1>5, <2>1
<1>8. /\ NotesAgree(D2, U2, cmds, chain, born, f + 1, dn2, redirectToAncestor(upw, f, m))
      /\ With(NumbersOn(U), f, n, NumbersOn(U2))
  <2>1. f + 1 \in Nat /\ ~(f > f + 1)
    BY <1>6
  <2>2. PICK f2 : f2 = f + 1
    OBVIOUS
  <2>3. /\ NotesAgree(D2, redirectToAncestor(U, f, n), cmds, chain, born, f2, dn2,
                      redirectToAncestor(upw, f, m))
        /\ With(NumbersOn(U), f, n, NumbersOn(redirectToAncestor(U, f, n)))
    BY <1>6, <1>7, <2>1, <2>2, AgreeAnswered
  <2>4. QED
    BY <1>5, <2>2, <2>3
<1>9. NotesAgree(D2, U2, submitted, chain, born, forked + 1, down', up')
  BY <1>4, <1>8
<1>10. Covered(NumbersOn(D2), NumbersOn(U2), submitted, records)
  <2>1. n \in NumbersOn(D)[f] /\ Without(NumbersOn(D), f, n, NumbersOn(D2))
    BY <1>3, <1>4, <1>5, CommandAtHead DEF AtHead
  <2>2. \A r \in Processes, type \in CommandType :
          Waiting(NumbersOn(D2), NumbersOn(U2), submitted, r, type)
            \subseteq Waiting(NumbersOn(D), NumbersOn(U), submitted, r, type)
    BY <1>6, <1>8, <2>1, WaitingTaken
  <2>3. QED
    BY <1>1, <1>2, <2>2, CoveredKept
<1>11. ChainState(chain, born, D2, U2)'
  <2>1. RecordsAreNew' /\ AlwaysFindsARecord'
    BY <1>1 DEF RecordsAreNew, AlwaysFindsARecord
  <2>2. submitted' = submitted /\ records' = records /\ forked' = forked + 1
    OBVIOUS
  <2>3. QED
    BY <1>1, <1>9, <1>10, <2>1, <2>2 DEF ChainState
<1>12. RootAnswers(U)
  <2>1. n \notin NumbersOn(U)[Root]
    BY <1>2, <1>7 DEF Nowhere
  <2>2. QED
    BY <1>2, <1>3, <2>1, AnswerReaches
<1>13. QED
  BY <1>11, <1>12 DEF ChainStep

\* What is known of a response that the child of p has given.
LEMMA AnswerAtHead ==
  ASSUME TypeOK, NEW chain, NEW born, NEW D, NEW U, ChainState(chain, born, D, U),
         NEW p \in Processes, NEW c \in Processes, c > p, up[c] # <<>>,
         NEW n, n = Head(U[c])
  PROVE  /\ <<Head(up[c]), n>> \in AnswerRel(submitted)
         /\ n \in NumbersOn(U)[c]
         /\ c <= forked
         /\ RecordType(Head(up[c])) \in CommandType
         /\ n \in Waiting(NumbersOn(D), NumbersOn(U), submitted, p,
                          RecordType(Head(up[c])))
         /\ ~RunsOffTheEnd(records[p], RecordType(Head(up[c])))
<1>1. /\ NotesAgree(D, U, submitted, chain, born, forked, down, up)
      /\ Covered(NumbersOn(D), NumbersOn(U), submitted, records)
  BY DEF ChainState
<1>2. /\ forked \in Nat /\ submitted \in Seq(CommandMsg) /\ down \in Paths(DownMsg)
      /\ up \in Paths(ResponseMsg) /\ records \in [Processes -> Seq(RecordSet)]
      /\ Len(submitted) \in Nat /\ Root \in Processes
  BY StateTyped
<1>3. PICK f, cmds, dn, upw : f = forked /\ cmds = submitted /\ dn = down /\ upw = up
  OBVIOUS
<1>4. <<Head(upw[c]), n>> \in AnswerRel(cmds) /\ n \in NumbersOn(U)[c] /\ ~(c > f)
  <2>1. /\ f \in Nat /\ upw \in Paths(ResponseMsg)
        /\ NotesAgree(D, U, cmds, chain, born, f, dn, upw) /\ upw[c] # <<>>
    BY <1>1, <1>2, <1>3
  <2>2. QED
    BY <2>1, AgreeForgotten
<1>5. /\ n \in 1..Len(submitted)
      /\ RecordType(Head(up[c])) = KindOf(submitted[n])
  BY <1>3, <1>4 DEF AnswerRel
<1>6. PICK type : type = RecordType(Head(up[c]))
  OBVIOUS
<1>7. type \in CommandType
  BY <1>6 DEF RecordType, CommandType
<1>8. n \in Waiting(NumbersOn(D), NumbersOn(U), submitted, p, type)
  BY <1>4, <1>5, <1>6 DEF Waiting
<1>9. ~RunsOffTheEnd(records[p], type)
  <2>1. PICK W : W = Waiting(NumbersOn(D), NumbersOn(U), submitted, p, type)
    OBVIOUS
  <2>2. IsFiniteSet(W) /\ Cardinality(W) \in Nat
    BY <1>2, <2>1, WaitingIsFinite
  <2>3. Cardinality(W) # 0
    BY <1>8, <2>1, <2>2, FS_EmptySet
  <2>4. /\ Cardinality(W) <= Cardinality(Slots(records[p], type, 1))
        /\ Cardinality(Slots(records[p], type, 1)) \in Nat
    BY <1>1, <1>2, <1>7, <2>1, OneSlotEach DEF Covered
  <2>5. Cardinality(Slots(records[p], type, 1)) >= 1
    BY <2>2, <2>3, <2>4
  <2>6. records[p] \in Seq(RecordSet) /\ 1 \in Nat
    BY <1>2
  <2>7. QED
    BY <2>5, <2>6, SlotIsFound
<1>10. c <= forked
  BY <1>2, <1>3, <1>4, PidsAreNumbers
<1>11. QED
  BY <1>3, <1>4, <1>6, <1>7, <1>8, <1>9, <1>10

\* p settles its record, and passes the response on.
LEMMA StepAnswered ==
  ASSUME TypeOK, NEW chain, NEW born, NEW D, NEW U, ChainState(chain, born, D, U),
         NEW p \in Processes, NEW c \in Processes, c > p, up[c] # <<>>,
         UNCHANGED <<forked, phase, nodeId, parent, children, submitted, down, ranOff>>,
         up' = redirectToAncestor(Consumed(up, c), p, Head(up[c])),
         NEW i \in 1..Len(records[p]),
         records[p][i].type = RecordType(Head(up[c])),
         records' = [records EXCEPT ![p] = RemoveAt(@, i)]
  PROVE  ChainStep(chain, born, D, U)
<1>1. /\ NotesAgree(D, U, submitted, chain, born, forked, down, up)
      /\ Covered(NumbersOn(D), NumbersOn(U), submitted, records)
      /\ RecordsAreNew
  BY DEF ChainState
<1>2. /\ forked \in Nat /\ submitted \in Seq(CommandMsg) /\ down \in Paths(DownMsg)
      /\ up \in Paths(ResponseMsg) /\ records \in [Processes -> Seq(RecordSet)]
      /\ Len(submitted) \in Nat /\ Root \in Processes
  BY StateTyped
<1>3. PICK f, cmds, dn, upw, m, n :
        /\ f = forked /\ cmds = submitted /\ dn = down /\ upw = up
        /\ m = Head(up[c]) /\ n = Head(U[c])
  OBVIOUS
<1>4. /\ <<m, n>> \in AnswerRel(cmds) /\ n \in NumbersOn(U)[c] /\ c <= f
      /\ RecordType(m) \in CommandType /\ RecordType(m) = KindOf(submitted[n])
      /\ n \in Waiting(NumbersOn(D), NumbersOn(U), submitted, p, RecordType(m))
  <2>1. /\ <<m, n>> \in AnswerRel(cmds) /\ n \in NumbersOn(U)[c] /\ c <= f
        /\ RecordType(m) \in CommandType
        /\ n \in Waiting(NumbersOn(D), NumbersOn(U), submitted, p, RecordType(m))
    BY <1>3, AnswerAtHead
  <2>2. RecordType(m) = KindOf(submitted[n])
    BY <1>3, <2>1 DEF AnswerRel
  <2>3. QED
    BY <2>1, <2>2
<1>5. PICK U1, U2 : U1 = Consumed(U, c) /\ U2 = redirectToAncestor(U1, p, n)
  OBVIOUS
<1>6. /\ NotesAgree(D, U1, cmds, chain, born, f, dn, Consumed(upw, c))
      /\ Nowhere(NumbersOn(D), NumbersOn(U1), n)
      /\ Without(NumbersOn(U), c, n, NumbersOn(U1))
  <2>1. /\ f \in Nat /\ upw \in Paths(ResponseMsg)
        /\ NotesAgree(D, U, cmds, chain, born, f, dn, upw) /\ upw[c] # <<>>
    BY <1>1, <1>2, <1>3
  <2>2. /\ NotesAgree(D, Consumed(U, c), cmds, chain, born, f, dn, Consumed(upw, c))
        /\ Nowhere(NumbersOn(D), NumbersOn(Consumed(U, c)), n)
        /\ Without(NumbersOn(U), c, n, NumbersOn(Consumed(U, c)))
    BY <1>3, <2>1, AgreeForgotten
  <2>3. QED
    BY <1>5, <2>2
<1>7. /\ NotesAgree(D, U2, cmds, chain, born, f, dn,
                    redirectToAncestor(Consumed(upw, c), p, m))
      /\ With(NumbersOn(U1), p, n, NumbersOn(U2))
  <2>1. PICK less : less = Consumed(upw, c)
    OBVIOUS
  <2>2. less \in Paths(ResponseMsg)
    BY <1>2, <1>3, <2>1, ConsumedIsPath
  <2>3. ~(p > f)
    BY <1>2, <1>3, <1>4, PidsAreNumbers
  <2>4. /\ NotesAgree(D, redirectToAncestor(U1, p, n), cmds, chain, born, f, dn,
                      redirectToAncestor(less, p, m))
        /\ With(NumbersOn(U1), p, n, NumbersOn(redirectToAncestor(U1, p, n)))
    BY <1>2, <1>3, <1>4, <1>6, <2>1, <2>2, <2>3, AgreeAnswered
  <2>5. QED
    BY <1>5, <2>1, <2>4
<1>8. PICK kind : kind = RecordType(m)
  OBVIOUS
<1>9. \A r \in Processes, type \in CommandType :
        Waiting(NumbersOn(D), NumbersOn(U2), submitted, r, type) \subseteq
          IF r = p /\ type = kind
          THEN Waiting(NumbersOn(D), NumbersOn(U), submitted, r, type) \ {n}
          ELSE Waiting(NumbersOn(D), NumbersOn(U), submitted, r, type)
  BY <1>4, <1>6, <1>7, <1>8, WaitingAnswered
<1>10. Covered(NumbersOn(D), NumbersOn(U2), submitted, records')
  <2>1. /\ kind \in CommandType /\ records[p][i].type = kind
        /\ n \in Waiting(NumbersOn(D), NumbersOn(U), submitted, p, kind)
        /\ records[p][i].recievedResponses = 0
    BY <1>1, <1>3, <1>4, <1>8 DEF RecordsAreNew
  <2>2. PICK A, B, B2, cs, recs, old :
          /\ A = NumbersOn(D) /\ B = NumbersOn(U) /\ B2 = NumbersOn(U2)
          /\ cs = submitted /\ recs = records' /\ old = records
    BY Zenon
  <2>3. /\ Covered(A, B, cs, old) /\ Len(cs) \in Nat
        /\ old \in [Processes -> Seq(RecordSet)]
        /\ n \in Waiting(A, B, cs, p, kind)
        /\ i \in 1..Len(old[p]) /\ old[p][i].type = kind
        /\ old[p][i].recievedResponses = 0
        /\ recs = [old EXCEPT ![p] = RemoveAt(@, i)]
        /\ \A r \in Processes, type \in CommandType :
             Waiting(A, B2, cs, r, type) \subseteq
               IF r = p /\ type = kind
               THEN Waiting(A, B, cs, r, type) \ {n} ELSE Waiting(A, B, cs, r, type)
    BY <1>1, <1>2, <1>9, <2>1, <2>2, Zenon
  <2>4. Covered(A, B2, cs, recs)
    <3>1. Settles(A, B, A, B2, cs, old, recs, p, kind, n, i)
      BY <2>1, <2>3, Zenon DEF Settles
    <3>2. QED
      BY <3>1, CoveredByOthers, Zenon
  <2>5. QED
    BY <2>2, <2>4, Zenon
<1>11. RecordsAreNew'
  BY <1>1, OthersStayNew
<1>12. NotesAgree(D, U2, submitted, chain, born, forked, down', up')
  BY <1>3, <1>7
<1>13. ChainState(chain, born, D, U2)'
  BY <1>10, <1>11, <1>12, StateKept
<1>14. RootAnswers(U)
  <2>1. c # Root
    BY PidsAreNumbers
  <2>2. NumbersOn(U1)[Root] = NumbersOn(U)[Root]
    BY <1>2, <1>6, <2>1 DEF Without
  <2>3. n \notin NumbersOn(U)[Root]
    BY <1>2, <1>6, <2>2 DEF Nowhere
  <2>4. /\ Consumed(up, c) \in Paths(ResponseMsg)
        /\ Consumed(up, c)[Root] = up[Root]
    BY <1>2, <2>1, ConsumedIsPath DEF Consumed, Paths
  <2>5. QED
    BY <1>3, <1>4, <2>3, <2>4, AnswerReaches
<1>15. QED
  BY <1>13, <1>14 DEF ChainStep


-----------------------------------------------------------------------------
(***************************************************************************)
(* The actions of a chain.                                                 *)
(***************************************************************************)

\* Nobody is born by a command that is not handed over to who gives birth.
LEMMA NobodyIsBorn ==
  ASSUME NEW chain, NEW born, NEW D, NEW U, NEW p, NEW n,
         AtHead(chain, born, D, U, p, n), ChainKnown(submitted, chain, born),
         submitted \in Seq(CommandMsg),
         \/ submitted[n].type # "CommandCreate"
         \/ submitted[n].newNodeId = nodeId[p]
         \/ p = forked /\ ~IsFor(submitted[n], p, chain)
  PROVE  \A i \in (forked + 2)..Len(chain) : born[i] # n
<1>1. SUFFICES ASSUME NEW i \in (forked + 2)..Len(chain), born[i] = n PROVE FALSE
  OBVIOUS
<1>2. /\ submitted[n].type = "CommandCreate"
      /\ submitted[n].newNodeId # nodeId[p]
      /\ p = forked => IsFor(submitted[n], p, chain)
  BY <1>1, BirthAtHead
<1>3. QED
  BY <1>2

\* What p takes is a command, the first of those it has.
LEMMA Takes ==
  ASSUME TypeOK, NEW chain, NEW born, NEW D, NEW U, ChainState(chain, born, D, U),
         NEW p \in Processes, down[p] # <<>>, NEW n, n = Head(D[p])
  PROVE  /\ AtHead(chain, born, D, U, p, n)
         /\ ChainKnown(submitted, chain, born) /\ submitted \in Seq(CommandMsg)
         /\ n \in 1..Len(submitted) /\ Head(down[p]) = submitted[n]
<1>1. AtHead(chain, born, D, U, p, n)
  BY CommandAtHead
<1>2. QED
  BY <1>1 DEF AtHead, ChainState, TypeOK

LEMMA ChainIgnores ==
  ASSUME TypeOK, NEW chain, NEW born, NEW D, NEW U, ChainState(chain, born, D, U),
         NEW p \in Processes, IgnoreCommand(p)
  PROVE  ChainStep(chain, born, D, U)
<1>1. /\ down[p] # <<>> /\ Head(down[p]).type = "CommandPrintTree"
      /\ down' = Consumed(down, p)
      /\ UNCHANGED <<forked, phase, nodeId, parent, children, submitted, ranOff>>
      /\ up' = up /\ records' = records
  BY DEF IgnoreCommand, Receives
<1>2. PICK n : n = Head(D[p])
  OBVIOUS
<1>3. /\ AtHead(chain, born, D, U, p, n)
      /\ ChainKnown(submitted, chain, born) /\ submitted \in Seq(CommandMsg)
      /\ n \in 1..Len(submitted) /\ Head(down[p]) = submitted[n]
  BY <1>1, <1>2, Takes
<1>4. \A i \in (forked + 2)..Len(chain) : born[i] # n
  BY <1>1, <1>3, NobodyIsBorn
<1>5. QED
  BY <1>1, <1>2, <1>4, StepTaken

LEMMA ChainAnswers ==
  ASSUME TypeOK, NEW chain, NEW born, NEW D, NEW U, ChainState(chain, born, D, U),
         NEW p \in Processes, CreateNodeExists(p) \/ ExecuteHere(p)
  PROVE  ChainStep(chain, born, D, U)
<1>1. /\ down[p] # <<>> /\ down' = Consumed(down, p)
      /\ UNCHANGED <<forked, phase, nodeId, parent, children, submitted, ranOff>>
      /\ records' = records
  BY DEF CreateNodeExists, ExecuteHere, Receives
<1>2. PICK n : n = Head(D[p])
  OBVIOUS
<1>3. PICK cmd : cmd = submitted[n]
  OBVIOUS
<1>4. /\ AtHead(chain, born, D, U, p, n)
      /\ ChainKnown(submitted, chain, born) /\ submitted \in Seq(CommandMsg)
      /\ n \in 1..Len(submitted) /\ Head(down[p]) = cmd
  BY <1>1, <1>2, <1>3, Takes
<1>5. \/ /\ cmd.type = "CommandCreate" /\ cmd.newNodeId = nodeId[p]
         /\ up' = redirectToAncestor(up, p, NodeExistResponse(nodeId[p]))
      \/ /\ cmd.type = "CommandExec" /\ p # Root /\ cmd.nodeId = nodeId[p]
         /\ up' = redirectToAncestor(up, p, GoodExecResp(nodeId[p], cmd.k))
  BY <1>4 DEF CreateNodeExists, ExecuteHere, Receives, IsExecutor
<1>6. \A i \in (forked + 2)..Len(chain) : born[i] # n
  BY <1>3, <1>4, <1>5, NobodyIsBorn
<1>7. PICK m : /\ up' = redirectToAncestor(up, p, m)
               /\ <<m, n>> \in AnswerRel(submitted)
  <2>1. CASE cmd.type = "CommandCreate"
    <3>1. cmd.newNodeId = nodeId[p] /\ up' = redirectToAncestor(up, p, NodeExistResponse(nodeId[p]))
      BY <1>5, <2>1
    <3>2. <<NodeExistResponse(nodeId[p]), n>> \in AnswerRel(submitted)
      BY <1>3, <1>4, <2>1, <3>1, AnswersAtHead
    <3>3. QED
      BY <3>1, <3>2
  <2>2. CASE cmd.type = "CommandExec"
    <3>1. /\ p # Root /\ cmd.nodeId = nodeId[p]
          /\ up' = redirectToAncestor(up, p, GoodExecResp(nodeId[p], cmd.k))
      BY <1>5, <2>2
    <3>2. <<GoodExecResp(nodeId[p], cmd.k), n>> \in AnswerRel(submitted)
      BY <1>3, <1>4, <2>2, <3>1, AnswersAtHead
    <3>3. QED
      BY <3>1, <3>2
  <2>3. QED
    BY <1>5, <2>1, <2>2
<1>8. QED
  BY <1>1, <1>2, <1>6, <1>7, StepTaken


\* A broadcast to one child, and to none.
LEMMA OneChild ==
  ASSUME NEW S, NEW path \in Paths(S), NEW msg, NEW p, NEW c \in Processes
  PROVE  /\ children[p] = <<c>> =>
              redirectToNodes(path, p, msg) = redirectToAncestor(path, c, msg)
         /\ children[p] = <<>> => redirectToNodes(path, p, msg) = path
<1>1. path = [q \in Processes |-> path[q]] /\ DOMAIN path = Processes
  BY DEF Paths
<1>2. ASSUME children[p] = <<c>>
      PROVE  redirectToNodes(path, p, msg) = redirectToAncestor(path, c, msg)
  <2>1. Children(p) = {c}
    BY <1>2 DEF Children, Range
  <2>2. QED
    BY <1>1, <2>1 DEF redirectToNodes, redirectToAncestor
<1>3. ASSUME children[p] = <<>> PROVE redirectToNodes(path, p, msg) = path
  <2>1. Children(p) = {}
    BY <1>3 DEF Children, Range
  <2>2. QED
    BY <1>1, <2>1 DEF redirectToNodes
<1>4. QED
  BY <1>2, <1>3

LEMMA ChainRedirects ==
  ASSUME TypeOK, NEW chain, NEW born, NEW D, NEW U, ChainState(chain, born, D, U),
         NEW p \in Processes, CreateElsewhere(p) \/ ExecElsewhere(p)
  PROVE  ChainStep(chain, born, D, U)
<1>1. PICK n, cmd : n = Head(D[p]) /\ cmd = submitted[n]
  OBVIOUS
<1>2. down[p] # <<>>
  BY DEF CreateElsewhere, ExecElsewhere, Receives
<1>3. /\ AtHead(chain, born, D, U, p, n)
      /\ ChainKnown(submitted, chain, born) /\ submitted \in Seq(CommandMsg)
      /\ n \in 1..Len(submitted) /\ Head(down[p]) = cmd
  BY <1>1, <1>2, Takes
<1>4. /\ forked \in Nat /\ p \in 0..forked /\ nodeId[p] = chain[p + 1]
      /\ children[p] = (IF p < forked THEN <<p + 1>> ELSE <<>>)
  BY <1>3 DEF AtHead
<1>5. PICK kind \in CommandType :
        /\ kind = KindOf(cmd) /\ RedirectCommand(p, kind)
        /\ cmd.type \in {"CommandExec", "CommandCreate"}
  BY <1>3 DEF CreateElsewhere, ExecElsewhere, Receives, KindOf, CommandType
<1>6. ~IsFor(cmd, p, chain)
  <2>1. p > 0 => p # Root
    BY DEF Root
  <2>2. QED
    BY <1>3, <1>4, <2>1 
       DEF CreateElsewhere, ExecElsewhere, Receives, IsExecutor, IsFor
<1>7. /\ UNCHANGED <<forked, phase, nodeId, parent, children, submitted, ranOff>>
      /\ records' = [records EXCEPT ![p] = Append(@, CommandRecord(kind))]
      /\ down' = redirectToNodes(Consumed(down, p), p, cmd)
      /\ up' = IF children[p] = <<>> THEN redirectToAncestor(up, p, handleDeadEnd(cmd))
               ELSE up
  BY <1>3, <1>5 DEF RedirectCommand
<1>8. Consumed(down, p) \in Paths(DownMsg)
  BY <1>2, TypedPaths, ConsumedIsPath
<1>9. CASE p < forked
  <2>1. children[p] = <<p + 1>>
    BY <1>4, <1>9
  <2>2. p + 1 \in Processes
    <3>1. p \in Nat /\ MaxPid \in Nat /\ forked \in 0..MaxPid
      BY PidsAreNumbers, ConstantsAssumption DEF TypeOK
    <3>2. p + 1 \in 1..MaxPid
      BY <1>9, <3>1
    <3>3. QED
      BY <3>2 DEF Processes, Pids
  <2>3. down' = redirectToAncestor(Consumed(down, p), p + 1, Head(down[p]))
    BY <1>3, <1>7, <1>8, <2>1, <2>2, OneChild
  <2>4. up' = up
    BY <1>7, <2>1
  <2>5. QED
    BY <1>1, <1>2, <1>5, <1>6, <1>7, <1>9, <2>3, <2>4, StepPassed
<1>10. CASE p = forked
  <2>1. children[p] = <<>>
    BY <1>4, <1>10
  <2>2. down' = Consumed(down, p)
    BY <1>7, <1>8, <2>1, OneChild
  <2>3. <<handleDeadEnd(cmd), n>> \in AnswerRel(submitted)
    BY <1>1, <1>3, <1>5, <1>6, <1>10, AnswersAtHead
  <2>4. \A i \in (forked + 2)..Len(chain) : born[i] # n
    BY <1>1, <1>3, <1>6, <1>10, NobodyIsBorn
  <2>5. up' = redirectToAncestor(up, p, handleDeadEnd(cmd))
    BY <1>7, <2>1
  <2>6. QED
    BY <1>1, <1>2, <1>7, <2>2, <2>3, <2>4, <2>5, StepTaken
<1>11. QED
  BY <1>4, <1>9, <1>10


\* The tree is the chain with one node more.
LEMMA ShapeGrows ==
  ASSUME TypeOK, NEW chain, chain \in Seq(Nat), ChainShape(chain),
         forked < MaxPid, forked + 2 <= Len(chain),
         forked' = forked + 1,
         phase' = [phase EXCEPT ![forked + 1] = "running"],
         nodeId' = [nodeId EXCEPT ![forked + 1] = chain[forked + 2]],
         parent' = [parent EXCEPT ![forked + 1] = forked],
         children' = [children EXCEPT ![forked] = <<forked + 1>>]
  PROVE  ChainShape(chain)'
<1>1. /\ forked \in Nat /\ Processes \subseteq Nat /\ Len(chain) \in Nat
      /\ forked + 1 \in Processes /\ forked \in Processes
  <2>1. MaxPid \in Nat /\ forked \in 0..MaxPid /\ Len(chain) \in Nat
    BY ConstantsAssumption, LenProperties DEF TypeOK
  <2>2. forked \in 0..MaxPid /\ forked + 1 \in 1..MaxPid
    BY <2>1
  <2>3. QED
    BY <2>1, <2>2, PidsAreNumbers DEF Processes, Pids, Root
<1>2. /\ phase \in [Processes -> {"none", "running", "stopping", "stuck", "gone"}]
      /\ nodeId \in [Processes -> Nat] /\ parent \in [Processes -> Processes]
      /\ children \in [Processes -> Seq(Pids)]
  BY DEF TypeOK
<1>3. ASSUME NEW q \in Processes
      PROVE  /\ phase'[q] = (IF q <= forked + 1 THEN "running" ELSE "none")
             /\ children'[q] = (IF q < forked + 1 THEN <<q + 1>> ELSE <<>>)
             /\ q <= forked + 1 => nodeId'[q] = chain[q + 1]
  <2>1. /\ phase[q] = (IF q <= forked THEN "running" ELSE "none")
        /\ children[q] = (IF q < forked THEN <<q + 1>> ELSE <<>>)
        /\ q <= forked => nodeId[q] = chain[q + 1]
    BY DEF ChainShape
  <2>2. q \in Nat
    BY <1>1
  <2>3. CASE q = forked + 1
    BY <1>1, <1>2, <2>1, <2>2, <2>3
  <2>4. CASE q = forked
    BY <1>1, <1>2, <2>1, <2>2, <2>4
  <2>5. CASE q # forked + 1 /\ q # forked
    <3>1. /\ phase'[q] = phase[q] /\ children'[q] = children[q]
          /\ nodeId'[q] = nodeId[q]
      BY <1>2, <2>5
    <3>2. (q <= forked + 1 <=> q <= forked) /\ (q < forked + 1 <=> q < forked)
      BY <1>1, <2>2, <2>5
    <3>3. QED
      BY <2>1, <3>1, <3>2
  <2>6. QED
    BY <2>3, <2>4, <2>5
<1>4. ASSUME NEW c \in 1..(forked + 1) PROVE parent'[c] = c - 1
  <2>1. CASE c = forked + 1
    BY <1>1, <1>2, <2>1
  <2>2. CASE c # forked + 1
    <3>1. c \in Forked
      BY <1>1, <2>2 DEF Forked
    <3>2. QED
      BY <1>2, <2>2, <3>1 DEF ChainShape
  <2>3. QED
    BY <2>1, <2>2
<1>5. forked + 1 + 1 <= Len(chain)
  BY <1>1
<1>6. QED
  BY <1>3, <1>4, <1>5 DEF ChainShape, Forked

LEMMA ChainCreates ==
  ASSUME TypeOK, NEW chain, NEW born, NEW D, NEW U, ChainState(chain, born, D, U),
         NEW p \in Processes, CreateHere(p)
  PROVE  ChainStep(chain, born, D, U)
<1>1. PICK n, cmd : n = Head(D[p]) /\ cmd = submitted[n]
  OBVIOUS
<1>2. down[p] # <<>>
  BY DEF CreateHere, ReceivesCreateHere, Receives
<1>3. /\ AtHead(chain, born, D, U, p, n)
      /\ ChainKnown(submitted, chain, born) /\ submitted \in Seq(CommandMsg)
      /\ n \in 1..Len(submitted) /\ Head(down[p]) = cmd
  BY <1>1, <1>2, Takes
<1>4. /\ cmd.type = "CommandCreate"
      /\ cmd.newNodeId # nodeId[p] /\ cmd.parentId = nodeId[p]
  BY <1>3 DEF CreateHere, ReceivesCreateHere, Receives
<1>5. /\ p = forked /\ forked + 2 <= Len(chain)
      /\ born[forked + 2] = n /\ chain[forked + 2] = cmd.newNodeId
      /\ \A pid \in Nat : <<GoodCreateResp(cmd.newNodeId, pid), n>> \in AnswerRel(submitted)
  <2>1. GivesBirthNext(cmd, n, p, chain, born)
    BY <1>1, <1>3, <1>4, AnswersAtHead
  <2>2. QED
    BY <2>1 DEF GivesBirthNext
<1>6. PICK c, kids, ids, pid :
        /\ c = forked + 1
        /\ kids = emplaceBack(children[p], c)
        /\ ids = [nodeId EXCEPT ![c] = cmd.newNodeId]
        /\ pid = getProcessPidByNodeId(kids, ids, cmd.newNodeId)
        /\ forked < MaxPid /\ forked' = c
        /\ phase' = [phase EXCEPT ![c] = "running"]
        /\ nodeId' = ids
        /\ parent' = [parent EXCEPT ![c] = p]
        /\ children' = [children EXCEPT ![p] = kids]
        /\ down' = Consumed(down, p)
        /\ up' = redirectToAncestor(up, p, GoodCreateResp(cmd.newNodeId, pid))
        /\ UNCHANGED <<records, submitted, ranOff>>
  BY <1>3 DEF CreateHere
<1>7. c \in Pids /\ c \in Processes /\ kids = <<c>>
  <2>1. MaxPid \in Nat /\ forked \in 0..MaxPid
    BY ConstantsAssumption DEF TypeOK
  <2>2. c \in 1..MaxPid
    BY <1>6, <2>1
  <2>3. children[p] = <<>>
    BY <1>3, <1>5 DEF AtHead
  <2>4. QED
    BY <1>6, <2>2, <2>3 DEF emplaceBack, Processes, Pids
<1>8. pid \in Nat
  <2>1. kids \in Seq(Pids) /\ 1 \in DOMAIN kids /\ kids[1] = c
    BY <1>7
  <2>2. ids[c] = cmd.newNodeId
    BY <1>6, <1>7 DEF TypeOK
  <2>3. \E i \in DOMAIN kids : ids[kids[i]] = cmd.newNodeId
    BY <2>1, <2>2
  <2>4. pid \in Pids
    BY <1>6, <2>1, <2>3, PidFound
  <2>5. QED
    BY <2>4 DEF Pids
<1>9. ChainShape(chain)'
  <2>1. chain \in Seq(Nat) /\ ChainShape(chain)
    BY <1>3 DEF ChainKnown, Births, ChainState
  <2>2. QED
    BY <1>5, <1>6, <1>7, <2>1, ShapeGrows
<1>10. PICK m : /\ m = GoodCreateResp(cmd.newNodeId, pid)
                /\ <<m, n>> \in AnswerRel(submitted)
  BY <1>5, <1>8
<1>11. QED
  BY <1>1, <1>2, <1>5, <1>6, <1>9, <1>10, StepBorn


\* A record that waits for one response is settled by it, whichever it is.
LEMMA SettledAtOnce ==
  ASSUME NEW recs \in Seq(RecordSet), NEW type, ~RunsOffTheEnd(recs, type),
         NEW i, i = findRecord(recs, type),
         recs[i].recievedResponses = 0, ~recs[i].wasGoodResponse
  PROVE  /\ BadIsForwarded(recs, type, 1)
         /\ AccountBad(recs, type, 1) = RemoveAt(recs, i)
         /\ AccountGood(recs, type, 1) = RemoveAt(recs, i)
<1>1. recs[i] \in RecordSet
  <2>1. i \in DOMAIN recs
    BY FindRecordFinds
  <2>2. QED
    BY <2>1
<1>2. /\ accountBadResp(recs[i]).recievedResponses = 1
      /\ ~accountBadResp(recs[i]).wasGoodResponse
      /\ accountGoodResp(recs[i]).recievedResponses = 1
  BY <1>1 DEF accountBadResp, accountGoodResp, RecordSet
<1>3. recordIsBad(accountBadResp(recs[i]), 1) /\ recordIsFull(accountGoodResp(recs[i]), 1)
  BY <1>2 DEF recordIsBad, recordIsFull
<1>4. QED
  BY <1>3 DEF BadIsForwarded, AccountBad, AccountGood

LEMMA ChainPassesOn ==
  ASSUME TypeOK, NEW chain, NEW born, NEW D, NEW U, ChainState(chain, born, D, U),
         NEW p \in Processes, NEW c \in Pids, HandleResponse(p, c)
  PROVE  ChainStep(chain, born, D, U)
<1>1. c \in Forked /\ parent[c] = p /\ up[c] # <<>>
  BY DEF HandleResponse, AccountBadResp, AccountGoodResp, CloseRecordAndRedirectResp,
         RedirectResponse, RunOffTheEnd, Answers
<1>2. /\ c \in Processes /\ c > p /\ children[p] = <<c>> /\ Len(children[p]) = 1
  <2>1. p = c - 1 /\ c \in 1..forked /\ forked \in Nat
    BY <1>1, StateTyped DEF ChainState, ChainShape, Forked
  <2>2. p < forked /\ p + 1 = c
    BY <2>1
  <2>3. children[p] = <<c>>
    BY <2>2 DEF ChainState, ChainShape
  <2>4. QED
    BY <2>1, <2>2, <2>3 DEF Processes
<1>3. PICK n, m, type, recs : /\ n = Head(U[c]) /\ m = Head(up[c])
                              /\ type = RecordType(m) /\ recs = records[p]
  OBVIOUS
<1>4. /\ <<m, n>> \in AnswerRel(submitted) /\ type \in CommandType
      /\ ~RunsOffTheEnd(recs, type)
  BY <1>1, <1>2, <1>3, AnswerAtHead
<1>5. m.type # "NodeIsDeadResponse"
  BY <1>4 DEF AnswerRel
<1>6. PICK i : i = findRecord(recs, type)
  OBVIOUS
<1>7. /\ recs \in Seq(RecordSet) /\ i \in 1..Len(recs) /\ recs[i].type = type
      /\ recs[i].recievedResponses = 0 /\ ~recs[i].wasGoodResponse
  <2>1. recs \in Seq(RecordSet)
    BY <1>3 DEF TypeOK
  <2>2. i \in DOMAIN recs /\ recs[i].type = type
    BY <1>4, <1>6, <2>1, FindRecordFinds
  <2>3. i \in 1..Len(records[p])
    BY <1>3, <2>1, <2>2, LenProperties
  <2>4. QED
    BY <1>3, <2>1, <2>2, <2>3 DEF ChainState, RecordsAreNew
<1>8. /\ BadIsForwarded(recs, type, 1)
      /\ AccountBad(recs, type, 1) = RemoveAt(recs, i)
      /\ AccountGood(recs, type, 1) = RemoveAt(recs, i)
  BY <1>4, <1>6, <1>7, SettledAtOnce
<1>9. /\ UNCHANGED <<forked, phase, nodeId, parent, children, submitted, down, ranOff>>
      /\ up' = PassedOn(p, c)
      /\ records' = [records EXCEPT ![p] = RemoveAt(@, i)]
  <2>1. CASE AccountBadResp(p, c)
    BY <1>2, <1>3, <1>8, <2>1 DEF AccountBadResp
  <2>2. CASE AccountGoodResp(p, c)
    BY <1>2, <1>3, <1>8, <2>2 DEF AccountGoodResp
  <2>3. CASE CloseRecordAndRedirectResp(p, c)
    <3>1. type = "Create"
      BY <1>3, <2>3 DEF CloseRecordAndRedirectResp, Answers, RecordType
    <3>2. CloseRecord(records[p]) = RemoveAt(records[p], i)
      BY <1>3, <1>6, <3>1 DEF CloseRecord
    <3>3. QED
      BY <2>3, <3>2 DEF CloseRecordAndRedirectResp
  <2>4. ~RedirectResponse(p, c)
    BY <1>3, <1>5 DEF RedirectResponse, Answers
  <2>5. ~RunOffTheEnd(p, c)
    BY <1>3, <1>4 DEF RunOffTheEnd
  <2>6. QED
    BY <2>1, <2>2, <2>3, <2>4, <2>5 DEF HandleResponse
<1>10. up' = redirectToAncestor(Consumed(up, c), p, Head(up[c]))
  BY <1>9 DEF PassedOn
<1>11. QED
  BY <1>1, <1>2, <1>3, <1>7, <1>9, <1>10, StepAnswered


-----------------------------------------------------------------------------
(***************************************************************************)
(* What does not happen in a chain of which nobody is lost.                *)
(***************************************************************************)
LEMMA ChainGoesOn ==
  ASSUME NobodyIsLost, TypeOK, NEW chain, NEW born, NEW D, NEW U,
         ChainState(chain, born, D, U), NEW p \in Processes
  PROVE  /\ ~HandleKillSignal(p) /\ ~Exit(p) /\ ~Crash(p)
         /\ \A c \in Pids : ~EraseOverdue(p, c)
<1>1. ~HandleKillSignal(p)
  <2>1. SUFFICES ASSUME HandleKillSignal(p) PROVE FALSE
    OBVIOUS
  <2>2. PICK n : n = Head(D[p])
    OBVIOUS
  <2>3. down[p] # <<>> /\ Head(down[p]).type = "KillSignal"
    BY <2>1 DEF HandleKillSignal, Receives
  <2>4. AtHead(chain, born, D, U, p, n)
    BY <2>2, <2>3, Takes
  <2>5. Head(down[p]) \in CommandMsg
    BY <2>4 DEF AtHead
  <2>6. QED
    BY <2>3, <2>5 DEF CommandMsg, CommandPrintTree
<1>2. ~Exit(p)
  BY DEF Exit, ChainState, ChainShape
<1>3. ~Crash(p)
  BY DEF Crash, NobodyIsLost, TypeOK
<1>4. ASSUME NEW c \in Pids, EraseOverdue(p, c) PROVE FALSE
  <2>1. PICK i \in DOMAIN children[p] : children[p][i] = c
    BY <1>4 DEF EraseOverdue
  <2>2. children[p] = (IF p < forked THEN <<p + 1>> ELSE <<>>)
    BY DEF ChainState, ChainShape
  <2>3. p < forked /\ i = 1 /\ c = p + 1
    BY <2>1, <2>2
  <2>4. FirstWithItsId(p, c)
    BY <2>1, <2>3 DEF FirstWithItsId
  <2>5. c \in Forked /\ parent[c] = p /\ phase[c] = "running"
    <3>1. p \in Nat /\ forked \in Nat /\ c \in Processes
      BY PidsAreNumbers, StateTyped DEF Processes
    <3>2. c \in Forked /\ c <= forked /\ c - 1 = p
      BY <2>3, <3>1 DEF Forked
    <3>3. QED
      BY <3>1, <3>2 DEF ChainState, ChainShape
  <2>6. IsRefreshed(p, c)
    BY <2>4, <2>5 DEF IsRefreshed
  <2>7. QED
    BY <1>4, <2>6 DEF EraseOverdue, MayBeOverdue, NobodyIsLost
<1>5. QED
  BY <1>1, <1>2, <1>3, <1>4

\* There is room for whoever is yet to be born.
LEMMA ChainHasRoom ==
  ASSUME RoomForAll, CreatesAreCommands,
         NEW chain, NEW born, ChainKnown(submitted, chain, born),
         submitted \in Seq(CommandMsg)
  PROVE  Len(chain) - 1 <= MaxPid
<1> DEFINE asked == {cmd \in Commands : cmd.type = "CommandCreate"}
           ids == {cmd.newNodeId : cmd \in asked} \ {0}
           f == [i \in 2..Len(chain) |-> chain[i]]
<1>1. /\ Len(chain) \in Nat /\ Len(chain) >= 1 /\ chain[1] = 0
      /\ \A i, j \in 1..Len(chain) : i < j => chain[i] # chain[j]
  <2>1. PICK len \in Nat : Births(len, chain, born)
    BY LenProperties DEF ChainKnown
  <2>2. QED
    BY <2>1, BirthsTyped, Zenon
<1>2. ASSUME NEW i \in 2..Len(chain) PROVE chain[i] \in ids
  <2>1. PICK n \in 1..Len(submitted) :
          submitted[n].type = "CommandCreate" /\ submitted[n].newNodeId = chain[i]
    <3>1. /\ born[i] \in 1..Len(submitted)
          /\ submitted[born[i]].type = "CommandCreate"
          /\ submitted[born[i]].newNodeId = chain[i]
      <4>1. CreatesNext(submitted, chain, born, i)
        BY BirthIsCreate, Zenon
      <4>2. QED
        BY <4>1, Zenon DEF CreatesNext
    <3>2. QED
      BY <3>1, Zenon
  <2>2. submitted[n] \in Range(submitted)
    BY <2>1, LenProperties DEF Range
  <2>3. submitted[n] \in asked
    BY <2>1, <2>2 DEF CreatesAreCommands
  <2>4. chain[i] # 0
    BY <1>1
  <2>5. QED
    BY <2>1, <2>3, <2>4
<1>3. f \in Injection(2..Len(chain), ids)
  <2>1. f \in [2..Len(chain) -> ids]
    BY <1>2
  <2>2. \A i, j \in 2..Len(chain) : chain[i] = chain[j] => i = j
    BY <1>1
  <2>3. QED
    BY <2>1, <2>2 DEF Injection, IsInjective
<1>4. IsFiniteSet(ids) /\ Cardinality(ids) <= MaxPid
  BY DEF RoomForAll
<1>5. Cardinality(2..Len(chain)) <= Cardinality(ids)
  BY <1>3, <1>4, FS_Injection
<1>6. Cardinality(2..Len(chain)) = Len(chain) - 1
  <2>1. CASE Len(chain) >= 2
    BY <1>1, <2>1, FS_Interval
  <2>2. CASE Len(chain) = 1
    <3>1. 2..Len(chain) = {}
      BY <2>2
    <3>2. QED
      BY <2>2, <3>1, FS_EmptySet
  <2>3. Len(chain) = 1 \/ Len(chain) >= 2
    BY <1>1
  <2>4. QED
    BY <2>1, <2>2, <2>3
<1>7. Cardinality(ids) \in Nat
  BY <1>4, FS_CardinalityType
<1>8. QED
  BY <1>1, <1>4, <1>5, <1>6, <1>7, ConstantsAssumption

LEMMA ChainForks ==
  ASSUME NobodyIsLost, RoomForAll, CreatesAreCommands, TypeOK,
         NEW chain, NEW born, NEW D, NEW U,
         ChainState(chain, born, D, U), NEW p \in Processes
  PROVE  ~CreateForkFails(p)
<1>1. SUFFICES ASSUME CreateForkFails(p) PROVE FALSE
  OBVIOUS
<1>2. PICK n, cmd : n = Head(D[p]) /\ cmd = submitted[n]
  OBVIOUS
<1>3. down[p] # <<>>
  BY <1>1 DEF CreateForkFails, ReceivesCreateHere, Receives
<1>4. /\ AtHead(chain, born, D, U, p, n)
      /\ ChainKnown(submitted, chain, born) /\ submitted \in Seq(CommandMsg)
      /\ n \in 1..Len(submitted) /\ Head(down[p]) = cmd
  BY <1>2, <1>3, Takes
<1>5. /\ cmd.type = "CommandCreate"
      /\ cmd.newNodeId # nodeId[p] /\ cmd.parentId = nodeId[p]
  BY <1>1, <1>4 DEF CreateForkFails, ReceivesCreateHere, Receives
<1>6. GivesBirthNext(cmd, n, p, chain, born)
  BY <1>2, <1>4, <1>5, AnswersAtHead
<1>7. forked + 2 <= Len(chain) /\ forked = MaxPid /\ forked \in Nat
  BY <1>1, <1>6, StateTyped DEF GivesBirthNext, CreateForkFails, NobodyIsLost
<1>8. Len(chain) - 1 <= MaxPid /\ Len(chain) \in Nat
  <2>1. chain \in Seq(Nat)
    BY <1>4 DEF ChainKnown, Births
  <2>2. Len(chain) - 1 <= MaxPid
    BY <1>4, ChainHasRoom
  <2>3. QED
    BY <2>1, <2>2, LenProperties
<1>9. QED
  BY <1>7, <1>8


-----------------------------------------------------------------------------
(***************************************************************************)
(* The client.                                                             *)
(***************************************************************************)

\* The command as it is submitted: an exec gets its payload.
LEMMA SubmittedIs ==
  ASSUME TypeOK, NEW cmd \in Commands, Submit(cmd)
  PROVE  \E c \in CommandMsg :
           /\ submitted' = Append(submitted, c)
           /\ down' = redirectToAncestor(down, Root, c)
           /\ cmd.type = "CommandCreate" \/ c.type = "CommandCreate" => c = cmd
           /\ c = IF cmd.type = "CommandExec"
                  THEN [cmd EXCEPT !.k = Len(submitted) + 1] ELSE cmd
<1>1. PICK c : /\ submitted' = Append(submitted, c)
               /\ down' = redirectToAncestor(down, Root, c)
               /\ c = IF cmd.type = "CommandExec"
                      THEN [cmd EXCEPT !.k = Len(submitted) + 1] ELSE cmd
  BY DEF Submit, redirectToAncestor
<1>2. cmd \in CommandMsg /\ Len(submitted) \in Nat
  BY StateTyped, ConstantsAssumption
<1>3. c \in CommandMsg /\ (cmd.type = "CommandCreate" \/ c.type = "CommandCreate" => c = cmd)
  <2>1. CASE cmd.type = "CommandExec"
    <3>1. cmd \in [type : {"CommandExec"}, nodeId : Nat, k : Nat]
      BY <1>2, <2>1 DEF CommandMsg, CommandPrintTree
    <3>2. PICK n : n = Len(submitted) + 1
      OBVIOUS
    <3>3. n \in Nat
      BY <1>2, <3>2
    <3>4. c = [cmd EXCEPT !.k = n]
      BY <1>1, <2>1, <3>2
    <3>5. /\ c \in [type : {"CommandExec"}, nodeId : Nat, k : Nat]
          /\ c.type = "CommandExec"
      BY <3>1, <3>3, <3>4
    <3>6. QED
      BY <2>1, <3>5 DEF CommandMsg
  <2>2. CASE cmd.type # "CommandExec"
    BY <1>1, <1>2, <2>2
  <2>3. QED
    BY <2>1, <2>2
<1>4. QED
  BY <1>1, <1>3

LEMMA ShapeStays ==
  ASSUME TypeOK, NEW chain, NEW chain2, ChainShape(chain),
         chain \in Seq(Nat), chain2 \in Seq(Nat), Len(chain2) >= Len(chain),
         \A i \in 1..Len(chain) : chain2[i] = chain[i],
         UNCHANGED <<forked, phase, nodeId, parent, children>>
  PROVE  ChainShape(chain2)'
<1>1. /\ Len(chain) \in Nat /\ Len(chain2) \in Nat /\ forked \in Nat
      /\ Processes \subseteq Nat /\ forked + 1 <= Len(chain)
  BY LenProperties, StateTyped, PidsAreNumbers DEF ChainShape
<1>2. ASSUME NEW p \in Processes, p <= forked PROVE nodeId[p] = chain2[p + 1]
  <2>1. p \in Nat /\ p + 1 \in 1..Len(chain)
    BY <1>1, <1>2
  <2>2. QED
    BY <1>2, <2>1 DEF ChainShape
<1>3. forked + 1 <= Len(chain2)
  BY <1>1
<1>4. QED
  BY <1>2, <1>3 DEF ChainShape, Forked

\* Nobody waits for a command that the root has yet to take.
LEMMA WaitingSubmitted ==
  ASSUME NEW D, D \in Paths(Nat), NEW B, NEW cmds \in Seq(CommandMsg), NEW c,
         NEW f, Among(NumbersOn(D), B, Len(cmds), f), NEW n,
         NEW p \in Processes, NEW type
  PROVE  Waiting(NumbersOn(redirectToAncestor(D, Root, n)), B, Append(cmds, c), p, type)
           \subseteq Waiting(NumbersOn(D), B, cmds, p, type)
<1>1. SUFFICES
        ASSUME NEW k \in Waiting(NumbersOn(redirectToAncestor(D, Root, n)), B,
                                 Append(cmds, c), p, type)
        PROVE  k \in Waiting(NumbersOn(D), B, cmds, p, type)
  OBVIOUS
<1>2. PICK A2, more : /\ A2 = NumbersOn(redirectToAncestor(D, Root, n))
                      /\ more = Append(cmds, c)
  OBVIOUS
<1>3. PICK q \in Processes : q > p /\ (k \in A2[q] \/ k \in B[q])
  BY <1>1, <1>2 DEF Waiting
<1>4. KindOf(more[k]) = type
  BY <1>1, <1>2 DEF Waiting
<1>5. q # Root
  BY <1>3, PidsAreNumbers
<1>6. A2[q] = NumbersOn(D)[q]
  BY <1>2, <1>5 DEF NumbersOn, redirectToAncestor, Paths
<1>7. k \in 1..Len(cmds)
  BY <1>3, <1>6 DEF Among
<1>8. more[k] = cmds[k]
  BY <1>2, <1>7, AppendProperties
<1>9. QED
  BY <1>3, <1>4, <1>6, <1>7, <1>8 DEF Waiting


LEMMA ChainSubmits ==
  ASSUME TypeOK, NEW chain, NEW born, NEW D, NEW U, ChainState(chain, born, D, U),
         CreatesAreCommands, NEW cmd \in Commands, KeepsChain(cmd), Submit(cmd)
  PROVE  /\ \E chain2, born2, D2 : ChainState(chain2, born2, D2, U)'
         /\ CreatesAreCommands'
<1>1. PICK c \in CommandMsg :
        /\ submitted' = Append(submitted, c)
        /\ down' = redirectToAncestor(down, Root, c)
        /\ cmd.type = "CommandCreate" \/ c.type = "CommandCreate" => c = cmd
  BY SubmittedIs
<1>2. /\ UNCHANGED <<forked, phase, nodeId, parent, children, records, up, ranOff>>
  BY DEF Submit
<1>3. /\ forked \in Nat /\ submitted \in Seq(CommandMsg) /\ down \in Paths(DownMsg)
      /\ up \in Paths(ResponseMsg) /\ records \in [Processes -> Seq(RecordSet)]
      /\ Len(submitted) \in Nat /\ Root \in Processes
  BY StateTyped
<1>4. /\ NotesAgree(D, U, submitted, chain, born, forked, down, up)
      /\ Covered(NumbersOn(D), NumbersOn(U), submitted, records)
      /\ RecordsAreNew /\ AlwaysFindsARecord
      /\ ChainKnown(submitted, chain, born) /\ ChainShape(chain)
  BY DEF ChainState
<1>5. PICK f, cmds, dn, upw, recs, more :
        /\ f = forked /\ cmds = submitted /\ dn = down /\ upw = up /\ recs = records
        /\ more = Append(submitted, c)
  OBVIOUS
<1>6. /\ f \in Nat /\ cmds \in Seq(CommandMsg) /\ dn \in Paths(DownMsg)
      /\ NotesAgree(D, U, cmds, chain, born, f, dn, upw)
      /\ f + 1 <= Len(chain) /\ ChainKnown(cmds, chain, born)
      /\ more = Append(cmds, c)
  BY <1>3, <1>4, <1>5 DEF ChainShape
<1>7. c.type = "CommandCreate" =>
        IF c.newNodeId \in Range(chain)
        THEN \A i, j \in DOMAIN chain :
                chain[i] = c.newNodeId /\ chain[j] = c.parentId => i <= j
        ELSE c.parentId = Last(chain) \/ c.parentId \notin Range(chain)
  <2>1. ChainOf(submitted) = chain
    BY <1>4 DEF ChainKnown
  <2>2. ASSUME c.type = "CommandCreate"
        PROVE  IF c.newNodeId \in Range(chain)
               THEN \A i, j \in DOMAIN chain :
                       chain[i] = c.newNodeId /\ chain[j] = c.parentId => i <= j
               ELSE c.parentId = Last(chain) \/ c.parentId \notin Range(chain)
    <3>1. cmd.type = "CommandCreate" /\ c = cmd
      BY <1>1, <2>2
    <3>2. QED
      BY <2>1, <3>1 DEF KeepsChain
  <2>3. QED
    BY <2>2
<1>8. PICK chain2, born2 :
        /\ ChainKnown(more, chain2, born2)
        /\ Len(chain2) >= Len(chain)
        /\ \A i \in 1..Len(chain) : chain2[i] = chain[i] /\ born2[i] = born[i]
        /\ \A i \in 1..Len(chain2) : i > Len(chain) => born2[i] = Len(cmds) + 1
  BY <1>6, <1>7, KnownKept
<1>9. Grown(Len(cmds), chain, born, chain2, born2)
  <2>1. Len(more) = Len(cmds) + 1
    BY <1>6, AppendProperties
  <2>2. Births(Len(cmds), chain, born) /\ Births(Len(cmds) + 1, chain2, born2)
    BY <1>6, <1>8, <2>1 DEF ChainKnown
  <2>3. QED
    BY <1>8, <2>2 DEF Grown
<1>10. PICK D2 : D2 = redirectToAncestor(D, Root, Len(cmds) + 1)
  OBVIOUS
<1>11. NotesAgree(D2, U, more, chain2, born2, f, redirectToAncestor(dn, Root, c), upw)
  BY <1>6, <1>9, <1>10, AgreeSubmitted
<1>12. Covered(NumbersOn(D2), NumbersOn(U), more, recs)
  <2>1. Among(NumbersOn(D), NumbersOn(U), Len(cmds), f)
    BY <1>6, NumbersAgree
  <2>2. D \in Paths(Nat)
    BY <1>6 DEF NotesAgree, Noted
  <2>3. \A p \in Processes, type \in CommandType :
          Waiting(NumbersOn(D2), NumbersOn(U), more, p, type)
            \subseteq Waiting(NumbersOn(D), NumbersOn(U), cmds, p, type)
    BY <1>6, <1>10, <2>1, <2>2, WaitingSubmitted
  <2>4. /\ Len(cmds) \in Nat /\ recs \in [Processes -> Seq(RecordSet)]
        /\ Covered(NumbersOn(D), NumbersOn(U), cmds, recs)
    BY <1>3, <1>4, <1>5
  <2>5. QED
    BY <2>3, <2>4, CoveredKept
<1>13. ChainShape(chain2)'
  <2>1. chain \in Seq(Nat) /\ chain2 \in Seq(Nat)
    BY <1>9 DEF Grown, Births
  <2>2. QED
    BY <1>2, <1>4, <1>8, <2>1, ShapeStays
<1>14. ChainState(chain2, born2, D2, U)'
  <2>1. NotesAgree(D2, U, submitted', chain2, born2, forked', down', up')
    BY <1>1, <1>2, <1>5, <1>11
  <2>2. Covered(NumbersOn(D2), NumbersOn(U), submitted', records')
    BY <1>1, <1>2, <1>5, <1>12
  <2>3. ChainKnown(submitted', chain2, born2)
    BY <1>1, <1>5, <1>8
  <2>4. RecordsAreNew' /\ AlwaysFindsARecord'
    BY <1>2, <1>4 DEF RecordsAreNew, AlwaysFindsARecord
  <2>5. QED
    BY <1>13, <2>1, <2>2, <2>3, <2>4 DEF ChainState
<1>15. CreatesAreCommands'
  <2>1. Range(submitted') \subseteq Range(submitted) \cup {c}
    BY <1>1, <1>3, AppendCarries
  <2>2. QED
    BY <1>1, <2>1 DEF CreatesAreCommands
<1>16. QED
  BY <1>14, <1>15

-----------------------------------------------------------------------------
(***************************************************************************)
(* The invariant of a chain.                                               *)
(***************************************************************************)
ChainInv ==
  CreatesAreCommands /\ \E chain, born, D, U : ChainState(chain, born, D, U)

LEMMA ChainInit == Init => ChainInv
<1> SUFFICES ASSUME Init PROVE ChainInv
  OBVIOUS
<1>1. PICK chain, born, D, U, A :
        /\ chain = <<0>> /\ born = [i \in 1..1 |-> 0]
        /\ D = [p \in Processes |-> <<>>] /\ U = [p \in Processes |-> <<>>]
        /\ A = [p \in Processes |-> {}]
  OBVIOUS
<1>2. /\ forked = 0 /\ submitted = <<>> /\ Len(chain) = 1 /\ chain[1] = 0
      /\ Processes \subseteq Nat /\ Root = 0
      /\ \A p \in Processes : /\ D[p] = <<>> /\ U[p] = <<>> /\ Len(D[p]) = 0
                              /\ Len(U[p]) = 0 /\ A[p] = {}
                              /\ down[p] = <<>> /\ up[p] = <<>> /\ records[p] = <<>>
  BY <1>1, PidsAreNumbers DEF Init
<1>3. D \in Paths(Nat) /\ U \in Paths(Nat)
  BY <1>1 DEF Paths
<1>4. NumbersOn(D) = A /\ NumbersOn(U) = A
  <2>1. Range(<<>>) = {}
    BY DEF Range
  <2>2. QED
    BY <1>1, <1>2, <2>1 DEF NumbersOn
<1>5. ChainKnown(submitted, chain, born)
  BY <1>1, <1>2, KnownAtFirst
<1>6. ChainShape(chain)
  BY <1>2 DEF Init, ChainShape, Forked
<1>7. RecordsAreNew
  BY <1>2 DEF RecordsAreNew
<1>8. NotesAgree(D, U, submitted, chain, born, forked, down, up)
  <2>1. Ascending(D) /\ OnceEach(U)
    <3>1. \A p \in Processes : 1..Len(D[p]) = {} /\ 1..Len(U[p]) = {}
      BY <1>2
    <3>2. QED
      BY <3>1 DEF Ascending, OnceEach
  <2>2. /\ Noted(D, down, CommandRel(submitted), forked)
        /\ Noted(U, up, AnswerRel(submitted), forked)
    <3>1. ASSUME NEW p \in Processes
          PROVE  /\ Len(D[p]) = Len(down[p]) /\ Len(U[p]) = Len(up[p])
                 /\ D[p] = <<>> /\ U[p] = <<>>
                 /\ 1..Len(D[p]) = {} /\ 1..Len(U[p]) = {}
      BY <1>2
    <3>2. QED
      BY <1>3, <3>1, Zenon DEF Noted
  <2>3. Placed(A, A, submitted, chain, born, forked)
    <3>1. \A p \in Processes : A[p] = {}
      BY <1>2
    <3>2. InOrder(A) /\ OnePlace(A, A) /\ NotPast(A, submitted, chain)
      BY <3>1 DEF InOrder, OnePlace, NotPast
    <3>3. (forked + 2)..Len(chain) = {}
      BY <1>2
    <3>4. BornByThen(A, chain, born, forked)
      BY <3>1, <3>3 DEF BornByThen
    <3>5. QED
      BY <3>1, <3>2, <3>4 DEF Placed
  <2>4. QED
    BY <1>4, <2>1, <2>2, <2>3 DEF NotesAgree
<1>9. Covered(NumbersOn(D), NumbersOn(U), submitted, records)
  <2>1. ASSUME NEW p \in Processes, NEW type \in CommandType
        PROVE  Cardinality(Waiting(A, A, submitted, p, type))
                 <= Cardinality(Slots(records[p], type, 1))
    <3>1. Waiting(A, A, submitted, p, type) = {}
      BY <1>2 DEF Waiting
    <3>2. Cardinality(Slots(records[p], type, 1)) \in Nat
      <4>1. TypeOK
        BY TypedInit
      <4>2. records \in [Processes -> Seq(RecordSet)]
        BY <4>1, StateTyped
      <4>3. QED
        BY <4>2, OneSlotEach
    <3>3. QED
      BY <3>1, <3>2, FS_EmptySet
  <2>2. QED
    BY <1>4, <2>1 DEF Covered
<1>10. AlwaysFindsARecord /\ CreatesAreCommands
  BY DEF Init, AlwaysFindsARecord, CreatesAreCommands, Range
<1>11. ChainState(chain, born, D, U)
  BY <1>5, <1>6, <1>7, <1>8, <1>9, <1>10 DEF ChainState
<1>12. QED
  BY <1>10, <1>11 DEF ChainInv


LEMMA ChainMoves ==
  ASSUME NobodyIsLost, RoomForAll, CreatesAreCommands, TypeOK,
         NEW chain, NEW born, NEW D, NEW U, ChainState(chain, born, D, U), TreeNext
  PROVE  ChainStep(chain, born, D, U)
<1>1. ASSUME NEW p \in Processes, HandleCommand(p) PROVE ChainStep(chain, born, D, U)
  <2>1. ~CreateForkFails(p)
    BY ChainForks
  <2>2. QED
    BY <1>1, <2>1, ChainAnswers, ChainCreates, ChainRedirects, ChainIgnores
       DEF HandleCommand
<1>2. ASSUME NEW p \in Processes, NEW c \in Pids, HandleResponse(p, c)
      PROVE  ChainStep(chain, born, D, U)
  BY <1>2, ChainPassesOn
<1>3. \A p \in Processes : /\ ~HandleKillSignal(p) /\ ~Exit(p) /\ ~Crash(p)
                           /\ \A c \in Pids : ~EraseOverdue(p, c)
  BY ChainGoesOn
<1>4. Pids \subseteq Processes
  BY DEF Processes
<1>5. QED
  BY <1>1, <1>2, <1>3, <1>4 DEF TreeNext

LEMMA ChainStays ==
  ASSUME NobodyIsLost, RoomForAll, TypeOK, ChainInv, [ChainNext]_vars
  PROVE  ChainInv'
<1>1. PICK chain, born, D, U : ChainState(chain, born, D, U)
  BY DEF ChainInv
<1>2. CreatesAreCommands
  BY DEF ChainInv
<1>3. CASE TreeNext
  <2>1. ChainStep(chain, born, D, U)
    BY <1>1, <1>2, <1>3, ChainMoves
  <2>2. CreatesAreCommands'
    BY <1>2, <2>1 DEF ChainStep, CreatesAreCommands
  <2>3. QED
    BY <2>1, <2>2 DEF ChainStep, ChainInv
<1>4. CASE SubmitToChain
  <2>1. PICK cmd \in Commands : KeepsChain(cmd) /\ Submit(cmd)
    BY <1>4 DEF SubmitToChain
  <2>2. /\ \E chain2, born2, D2 : ChainState(chain2, born2, D2, U)'
        /\ CreatesAreCommands'
    BY <1>1, <1>2, <2>1, ChainSubmits
  <2>3. QED
    BY <2>2 DEF ChainInv
<1>5. CASE UNCHANGED vars
  <2>1. /\ UNCHANGED <<forked, phase, nodeId, parent, children, submitted, ranOff>>
        /\ down' = down /\ up' = up /\ records' = records
    BY <1>5 DEF vars
  <2>2. /\ NotesAgree(D, U, submitted, chain, born, forked, down', up')
        /\ Covered(NumbersOn(D), NumbersOn(U), submitted, records')
        /\ RecordsAreNew'
    BY <1>1, <2>1 DEF ChainState, RecordsAreNew
  <2>3. ChainState(chain, born, D, U)'
    BY <1>1, <2>1, <2>2, StateKept
  <2>4. CreatesAreCommands'
    BY <1>2, <2>1 DEF CreatesAreCommands
  <2>5. QED
    BY <2>3, <2>4 DEF ChainInv
<1>6. QED
  BY <1>3, <1>4, <1>5 DEF ChainNext


-----------------------------------------------------------------------------
(***************************************************************************)
(* The chain implements the service: what the client is answered.          *)
(***************************************************************************)
Outcomes(seq) == [i \in DOMAIN seq |-> OutcomeOf(seq[i])]

LEMMA OutcomesAppend ==
  ASSUME NEW seq \in Seq(ResponseMsg), NEW m \in ResponseMsg
  PROVE  /\ Len(Outcomes(seq)) = Len(seq)
         /\ DOMAIN Outcomes(seq) = 1..Len(seq)
         /\ Outcomes(Append(seq, m)) = Append(Outcomes(seq), OutcomeOf(m))
<1>1. PICK S : S = {OutcomeOf(x) : x \in ResponseMsg}
  OBVIOUS
<1>2. ASSUME NEW s \in Seq(ResponseMsg)
      PROVE  /\ Outcomes(s) \in Seq(S)
             /\ Len(Outcomes(s)) = Len(s) /\ Len(s) \in Nat
             /\ DOMAIN Outcomes(s) = 1..Len(s)
             /\ \A i \in 1..Len(s) : Outcomes(s)[i] = OutcomeOf(s[i])
  <2>1. Len(s) \in Nat /\ DOMAIN s = 1..Len(s)
    BY LenProperties
  <2>2. \A i \in 1..Len(s) : OutcomeOf(s[i]) \in S
    BY <1>1, ElementOfSeq
  <2>3. Outcomes(s) \in [1..Len(s) -> S]
    BY <2>1, <2>2 DEF Outcomes
  <2>4. QED
    BY <2>1, <2>3 DEF Outcomes
<1>3. PICK more : more = Append(seq, m)
  OBVIOUS
<1>4. /\ more \in Seq(ResponseMsg) /\ Len(more) = Len(seq) + 1
      /\ \A i \in 1..Len(seq) : more[i] = seq[i]
      /\ more[Len(seq) + 1] = m
  BY <1>3, AppendProperties
<1>5. PICK a, b, x : a = Outcomes(more) /\ b = Append(Outcomes(seq), x)
                     /\ x = OutcomeOf(m)
  OBVIOUS
<1>6. /\ a \in Seq(S) /\ Len(a) = Len(seq) + 1 /\ Len(seq) \in Nat
      /\ \A i \in 1..Len(seq) : a[i] = Outcomes(seq)[i]
      /\ a[Len(seq) + 1] = x
  BY <1>2, <1>4, <1>5
<1>7. /\ b \in Seq(S) /\ Len(b) = Len(seq) + 1
      /\ \A i \in 1..Len(seq) : b[i] = Outcomes(seq)[i]
      /\ b[Len(seq) + 1] = x
  <2>1. x \in S /\ Outcomes(seq) \in Seq(S) /\ Len(Outcomes(seq)) = Len(seq)
    BY <1>1, <1>2, <1>5
  <2>2. QED
    BY <1>5, <2>1, AppendProperties
<1>8. \A i \in 1..(Len(seq) + 1) : a[i] = b[i]
  BY <1>6, <1>7
<1>9. a = b
  BY <1>6, <1>7, <1>8, SeqEqual
<1>10. QED
  BY <1>2, <1>3, <1>5, <1>9

\* Fewer answers of outcome x came than commands have it.
SomeAreDue(cmds, seq, x) ==
  Cardinality({i \in 1..Len(seq) : Outcomes(seq)[i] = x})
    < Cardinality({k \in 1..Len(cmds) : Service!Outcome(cmds, k) = x})

\* The answers that the client has are to commands of their own, and none of
\* them to the n-th: one of the n-th's outcome is still due.
LEMMA OneIsDue ==
  ASSUME NEW cmds, Len(cmds) \in Nat, NEW seq \in Seq(ResponseMsg),
         NEW note \in Seq(Nat), Len(note) = Len(seq),
         \A i, j \in 1..Len(note) : note[i] = note[j] => i = j,
         \A i \in 1..Len(note) : <<seq[i], note[i]>> \in AnswerRel(cmds),
         NEW n \in 1..Len(cmds), \A i \in 1..Len(note) : note[i] # n,
         NEW x, x = Service!Outcome(cmds, n)
  PROVE  SomeAreDue(cmds, seq, x)
<1> DEFINE S == {i \in 1..Len(seq) : Outcomes(seq)[i] = x}
           T == {k \in 1..Len(cmds) : Service!Outcome(cmds, k) = x}
           f == [i \in S |-> note[i]]
<1>1. n \in T /\ IsFiniteSet(T)
  <2>1. IsFiniteSet(1..Len(cmds))
    BY FS_Interval
  <2>2. QED
    BY <2>1, FS_Subset
<1>2. /\ IsFiniteSet(T \ {n}) /\ Cardinality(T \ {n}) = Cardinality(T) - 1
      /\ Cardinality(T) \in Nat
  BY <1>1, FS_RemoveElement, FS_CardinalityType
<1>3. ASSUME NEW i \in S PROVE note[i] \in T \ {n}
  <2>1. i \in 1..Len(note) /\ DOMAIN seq = 1..Len(seq)
    BY LenProperties
  <2>2. PICK y : y = <<seq[i], note[i]>>
    OBVIOUS
  <2>3. y \in AnswerRel(cmds) /\ y[1] = seq[i] /\ y[2] = note[i]
    BY <2>1, <2>2
  <2>4. /\ note[i] \in 1..Len(cmds)
        /\ OutcomeOf(seq[i]) = Service!Outcome(cmds, note[i])
    BY <2>3 DEF AnswerRel
  <2>5. OutcomeOf(seq[i]) = x
    BY <2>1 DEF Outcomes
  <2>6. QED
    BY <2>1, <2>4, <2>5
<1>4. f \in Injection(S, T \ {n})
  <2>1. f \in [S -> T \ {n}]
    BY <1>3
  <2>2. \A i, j \in S : note[i] = note[j] => i = j
    OBVIOUS
  <2>3. QED
    BY <2>1, <2>2 DEF Injection, IsInjective
<1>5. Cardinality(S) <= Cardinality(T \ {n}) /\ IsFiniteSet(S)
  BY <1>2, <1>4, FS_Injection
<1>6. Cardinality(S) \in Nat
  BY <1>5, FS_CardinalityType
<1>7. Cardinality(S) < Cardinality(T)
  BY <1>2, <1>5, <1>6
<1>8. QED
  BY <1>7 DEF SomeAreDue

\* The service counts as we do.
LEMMA ServiceCounts ==
  ASSUME NEW S
  PROVE  Service!Cardinality(S) = Cardinality(S)
BY DEF Service!Cardinality, Cardinality

\* What the client is answered is what the service answers.
LEMMA AnswersAreServed ==
  ASSUME TypeOK, NEW chain, NEW born, NEW D, NEW U, ChainState(chain, born, D, U),
         UNCHANGED submitted, RootAnswers(U)
  PROVE  [Service!Next]_(Service!vars)
<1>1. /\ eventsList \in Seq(ResponseMsg) /\ submitted \in Seq(CommandMsg)
      /\ Len(submitted) \in Nat /\ Root \in Processes
  BY StateTyped DEF Paths, eventsList
<1>2. CASE UNCHANGED eventsList
  BY <1>2 DEF Service!vars
<1>3. ASSUME NEW m, NEW n, eventsList' = Append(eventsList, m),
             <<m, n>> \in AnswerRel(submitted), n \notin NumbersOn(U)[Root]
      PROVE  Service!Answer
  <2>1. PICK seq, more, cmds, note, x :
          /\ seq = eventsList /\ more = eventsList' /\ cmds = submitted
          /\ note = U[Root] /\ x = Service!Outcome(submitted, n)
    OBVIOUS
  <2>2. PICK y : y = <<m, n>>
    OBVIOUS
  <2>3. /\ m \in ResponseMsg /\ n \in 1..Len(submitted) /\ OutcomeOf(m) = x
    BY <1>3, <2>1, <2>2 DEF AnswerRel
  <2>4. Noted(U, up, AnswerRel(submitted), forked) /\ OnceEach(U)
    BY DEF ChainState, NotesAgree
  <2>5. /\ note \in Seq(Nat) /\ Len(note) = Len(seq)
        /\ \A i, j \in 1..Len(note) : note[i] = note[j] => i = j
        /\ \A i \in 1..Len(note) : <<seq[i], note[i]>> \in AnswerRel(cmds)
    BY <1>1, <2>1, <2>4 DEF Noted, OnceEach, Paths, eventsList
  <2>6. \A i \in 1..Len(note) : note[i] # n
    <3>1. \A i \in 1..Len(note) : note[i] \in Range(note)
      BY <2>5, LenProperties DEF Range
    <3>2. Range(note) = NumbersOn(U)[Root]
      BY <1>1, <2>1 DEF NumbersOn
    <3>3. QED
      BY <1>3, <3>1, <3>2
  <2>7. SomeAreDue(cmds, seq, x)
    <3>1. Len(cmds) \in Nat /\ seq \in Seq(ResponseMsg) /\ n \in 1..Len(cmds)
          /\ x = Service!Outcome(cmds, n)
      BY <1>1, <2>1, <2>3
    <3>2. QED
      BY <2>5, <2>6, <3>1, OneIsDue
  <2>8. /\ DOMAIN Outcomes(seq) = 1..Len(seq)
        /\ Outcomes(more) = Append(Outcomes(seq), x)
    BY <1>1, <1>3, <2>1, <2>3, OutcomesAppend
  <2>9. PICK due : due = [k \in DOMAIN cmds |-> Service!Outcome(cmds, k)]
    OBVIOUS
  <2>10. /\ DOMAIN due = 1..Len(cmds) /\ DOMAIN cmds = 1..Len(cmds) /\ due[n] = x
         /\ \A k \in 1..Len(cmds) : due[k] = Service!Outcome(cmds, k)
    BY <1>1, <2>1, <2>3, <2>9, LenProperties
  <2>11. Service!HowOften(Outcomes(seq), due[n]) < Service!HowOften(due, due[n])
    <3>1. {i \in DOMAIN Outcomes(seq) : Outcomes(seq)[i] = x}
            = {i \in 1..Len(seq) : Outcomes(seq)[i] = x}
      BY <2>8
    <3>2. {k \in DOMAIN due : due[k] = x}
            = {k \in 1..Len(cmds) : Service!Outcome(cmds, k) = x}
      BY <2>10
    <3>3. Service!HowOften(Outcomes(seq), x)
            = Cardinality({i \in 1..Len(seq) : Outcomes(seq)[i] = x})
      BY <3>1, ServiceCounts DEF Service!HowOften
    <3>4. Service!HowOften(due, x)
            = Cardinality({k \in 1..Len(cmds) : Service!Outcome(cmds, k) = x})
      BY <3>2, ServiceCounts DEF Service!HowOften
    <3>5. QED
      BY <2>7, <2>10, <3>3, <3>4 DEF SomeAreDue
  <2>12. \E k \in DOMAIN cmds :
           /\ Service!HowOften(Outcomes(seq), due[k]) < Service!HowOften(due, due[k])
           /\ Outcomes(more) = Append(Outcomes(seq), due[k])
    BY <2>1, <2>3, <2>8, <2>10, <2>11
  <2>13. QED
    BY <2>1, <2>9, <2>12 DEF Service!Answer, Outcomes
<1>4. QED
  BY <1>2, <1>3 DEF RootAnswers, Service!Next

\* A command that is submitted is submitted to the service.
LEMMA SubmitsToService ==
  ASSUME TypeOK, NEW cmd \in Commands, Submit(cmd)
  PROVE  Service!Submit
<1>1. Len(Outcomes(eventsList)) = Len(eventsList)
  <2>1. eventsList \in Seq(ResponseMsg)
    BY StateTyped DEF Paths, eventsList
  <2>2. PICK seq, m : seq = eventsList /\ m = NodeExistResponse(0)
    OBVIOUS
  <2>3. m \in ResponseMsg
    BY <2>2, ResponseMsgs
  <2>4. QED
    BY <2>1, <2>2, <2>3, OutcomesAppend
<1>2. UNCHANGED eventsList
  BY DEF Submit, eventsList
<1>3. QED
  BY <1>1, <1>2 DEF Submit, Service!Submit, Outcomes


LEMMA ChainServes ==
  ASSUME NobodyIsLost, RoomForAll, TypeOK, ChainInv, [ChainNext]_vars
  PROVE  [Service!Next]_(Service!vars)
<1>1. PICK chain, born, D, U : ChainState(chain, born, D, U)
  BY DEF ChainInv
<1>2. CASE TreeNext
  <2>1. CreatesAreCommands
    BY DEF ChainInv
  <2>2. ChainStep(chain, born, D, U)
    BY <1>1, <1>2, <2>1, ChainMoves
  <2>3. UNCHANGED submitted /\ RootAnswers(U)
    BY <2>2 DEF ChainStep
  <2>4. QED
    BY <1>1, <2>3, AnswersAreServed
<1>3. CASE SubmitToChain
  <2>1. PICK cmd \in Commands : Submit(cmd)
    BY <1>3 DEF SubmitToChain
  <2>2. Service!Submit
    BY <2>1, SubmitsToService
  <2>3. QED
    BY <2>2 DEF Service!Next
<1>4. CASE UNCHANGED vars
  <2>1. UNCHANGED <<submitted, eventsList>>
    BY <1>4 DEF vars, eventsList
  <2>2. QED
    BY <2>1 DEF Service!vars
<1>5. QED
  BY <1>2, <1>3, <1>4 DEF ChainNext

\* A chain of processes has a note of where every command and every answer is.
THEOREM ChainInvariant ==
  ASSUME NobodyIsLost, RoomForAll
  PROVE  ChainSpec => [](TypeOK /\ ChainInv)
<1>1. Init => ChainInv
  BY ChainInit
<1>2. TypeOK /\ ChainInv /\ [ChainNext]_vars => ChainInv'
  BY ChainStays
<1>3. [ChainNext]_vars => [Next]_vars
  BY DEF ChainNext, SubmitToChain, Next
<1>4. QED
  BY <1>1, <1>2, <1>3, TypeCorrect, PTL DEF ChainSpec, Spec

\* findRecord always finds a record in a chain, too.
THEOREM ChainFindsTheorem ==
  ASSUME NobodyIsLost, RoomForAll
  PROVE  ChainSpec => []AlwaysFindsARecord
<1>1. ChainInv => AlwaysFindsARecord
  BY DEF ChainInv, ChainState
<1>2. QED
  BY <1>1, ChainInvariant, PTL

\* A chain implements the service, but for its fairness: whatever the commands
\* of its clients and the interleaving of its processes, the answers are those
\* of a sequential execution, each to a command that has been submitted, and
\* none to the same command twice.
THEOREM ChainIsTheService ==
  ASSUME NobodyIsLost, RoomForAll
  PROVE  ChainSpec => Service!Init /\ [][Service!Next]_(Service!vars)
<1>1. Init => Service!Init
  <2>1. Init => submitted = <<>> /\ eventsList = <<>>
    BY PidsAreNumbers DEF Init, eventsList
  <2>2. QED
    BY <2>1 DEF Service!Init
<1>2. TypeOK /\ ChainInv /\ [ChainNext]_vars => [Service!Next]_(Service!vars)
  BY ChainServes
<1>3. QED
  BY <1>1, <1>2, ChainInvariant, PTL DEF ChainSpec
=============================================================================
