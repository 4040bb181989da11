--------------------------- MODULE TypedLineProofs ---------------------------
(***************************************************************************)
(* A line, its command and its answer on their way through every           *)
(* conversion: what the parser makes of a line, that a text is read back   *)
(* as what was written, and by how much the sum shown may be off.          *)
(***************************************************************************)
EXTENDS TypedLine, SequenceLemmas

-----------------------------------------------------------------------------
(***************************************************************************)
(* Texts.                                                                  *)
(***************************************************************************)
Authorizations == {m \in Others : m.type = "AuthorizationWithName"}

\* The words of a text.
Names ==
  {"Message", "Request", "Command", "Authorization", "Response",
   "AuthorizationResponse", "Create", "Exec", "PrintTree", "AuthorizationWithName",
   "AuthorizationAccepted", "GoodExecResp", "BadExecResp", "GoodCreateResp",
   "BadCreateResp", "NodeExistResponse", "NodeIsDeadResponse", "Heartbeat",
   "KillSignal", "inf"}
    \cup {m.endpoint : m \in Authorizations} \cup {m.name : m \in Authorizations}

Lexemes ==
  [word : Names] \cup [int : Nat] \cup [real : Int] \cup {Open, Close, Comma}

LEMMA KindsOfLexemes ==
  /\ \A w \in Names : Word(w) \in Lexemes
  /\ \A n \in Nat : Unsigned(n) \in Lexemes
  /\ {Open, Close, Comma} \subseteq Lexemes
BY DEF Lexemes, Word, Unsigned, Open, Close, Comma

LEMMA Enclosed ==
  ASSUME NEW S, NEW x \in S, NEW y \in S, NEW z \in S, NEW s \in Seq(S)
  PROVE  /\ <<x, y>> \o s \o <<z>> \in Seq(S)
         /\ Len(<<x, y>> \o s \o <<z>>) = Len(s) + 3
         /\ (<<x, y>> \o s \o <<z>>)[1] = x
         /\ (<<x, y>> \o s \o <<z>>)[2] = y
         /\ \A i \in 1..Len(s) : (<<x, y>> \o s \o <<z>>)[i + 2] = s[i]
<1>1. PICK a : a = <<x, y>>
  BY Zenon
<1>2. PICK c : c = <<z>>
  BY Zenon
<1>3. a \in Seq(S) /\ Len(a) = 2 /\ a[1] = x /\ a[2] = y
  BY <1>1
<1>4. c \in Seq(S) /\ Len(c) = 1
  BY <1>2
<1>5. Len(s) \in Nat
  BY LenProperties
<1>6. /\ a \o s \in Seq(S)
      /\ Len(a \o s) = Len(a) + Len(s)
      /\ \A i \in 1..(Len(a) + Len(s)) :
           (a \o s)[i] = IF i <= Len(a) THEN a[i] ELSE s[i - Len(a)]
  BY <1>3, ConcatProperties, Zenon
<1>7. PICK b : b = a \o s
  BY Zenon
<1>8. /\ b \in Seq(S) /\ Len(b) = 2 + Len(s)
      /\ \A i \in 1..(2 + Len(s)) : b[i] = IF i <= 2 THEN a[i] ELSE s[i - 2]
  BY <1>3, <1>6, <1>7
<1>9. /\ b \o c \in Seq(S)
      /\ Len(b \o c) = Len(b) + Len(c)
      /\ \A i \in 1..(Len(b) + Len(c)) :
           (b \o c)[i] = IF i <= Len(b) THEN b[i] ELSE c[i - Len(b)]
  BY <1>4, <1>8, ConcatProperties, Zenon
<1>10. PICK t : t = b \o c
  BY Zenon
<1>11. /\ t \in Seq(S) /\ Len(t) = 3 + Len(s)
       /\ \A i \in 1..(2 + Len(s)) : t[i] = b[i]
  <2>1. t \in Seq(S) /\ Len(t) = 3 + Len(s)
    BY <1>4, <1>5, <1>8, <1>9, <1>10
  <2>2. ASSUME NEW i \in 1..(2 + Len(s)) PROVE t[i] = b[i]
    <3>1. i \in 1..(Len(b) + Len(c)) /\ i <= Len(b)
      BY <1>4, <1>5, <1>8
    <3>2. QED
      BY <1>9, <1>10, <3>1
  <2>3. QED
    BY <2>1, <2>2
<1>12. t[1] = x /\ t[2] = y
  <2>1. {1, 2} \subseteq 1..(2 + Len(s))
    BY <1>5
  <2>2. t[1] = b[1] /\ t[2] = b[2]
    BY <1>11, <2>1
  <2>3. b[1] = a[1] /\ b[2] = a[2]
    BY <1>8, <2>1
  <2>4. QED
    BY <1>3, <2>2, <2>3
<1>13. \A i \in 1..Len(s) : t[i + 2] = s[i]
  BY <1>5, <1>8, <1>11
<1>14. t = <<x, y>> \o s \o <<z>>
  BY <1>1, <1>2, <1>7, <1>10, Zenon
<1>15. Len(t) = Len(s) + 3
  BY <1>5, <1>11
<1>16. QED
  BY <1>11, <1>12, <1>13, <1>14, <1>15, Zenon

LEMMA InHeader ==
  ASSUME NEW h \in Names, NEW inner \in Seq(Lexemes)
  PROVE  /\ In(h, inner) \in Seq(Lexemes)
         /\ Len(In(h, inner)) = Len(inner) + 3
         /\ In(h, inner)[1] = Word(h)
         /\ In(h, inner)[2] = Open
         /\ \A i \in 1..Len(inner) : In(h, inner)[i + 2] = inner[i]
<1>1. Word(h) \in Lexemes /\ Open \in Lexemes /\ Close \in Lexemes
  BY KindsOfLexemes
<1>2. PICK x : x = Word(h)
  BY Zenon
<1>3. PICK t : t = <<x, Open>> \o inner \o <<Close>>
  BY Zenon
<1>4. /\ t \in Seq(Lexemes) /\ Len(t) = Len(inner) + 3
      /\ t[1] = x /\ t[2] = Open
      /\ \A i \in 1..Len(inner) : t[i + 2] = inner[i]
  <2>1. x \in Lexemes /\ Open \in Lexemes /\ Close \in Lexemes
    BY <1>1, <1>2
  <2>2. QED
    BY <1>3, <2>1, Enclosed
<1>5. In(h, inner) = t
  BY <1>2, <1>3, Zenon DEF In
<1>6. QED
  BY <1>2, <1>4, <1>5, Zenon

LEMMA FirstOf ==
  ASSUME NEW I \in SUBSET Nat, NEW i \in I, \A j \in I : i <= j
  PROVE  Min(I) = i
<1>1. \A j \in I : (\A h \in I : j <= h) => j = i
  OBVIOUS
<1>2. QED
  BY <1>1, Zenon DEF Min

LEMMA TypeOfHeader ==
  ASSUME NEW h \in Names, NEW inner \in Seq(Lexemes)
  PROVE  extractType(In(h, inner)) = [type |-> h, rest |-> inner]
<1>1. PICK t : t = In(h, inner)
  BY Zenon
<1>2. /\ t \in Seq(Lexemes) /\ Len(t) = Len(inner) + 3
      /\ t[1] = Word(h) /\ t[2] = Open
      /\ \A i \in 1..Len(inner) : t[i + 2] = inner[i]
  BY <1>1, InHeader
<1>3. Len(inner) \in Nat
  BY LenProperties
<1> DEFINE I == {i \in 1..Len(t) : t[i] = Open}
<1>4. 2 \in I /\ 1 \notin I
  <2>1. Word(h) # Open
    BY DEF Word, Open
  <2>2. QED
    BY <1>2, <1>3, <2>1
<1>5. Min(I) = 2
  <2>1. I \in SUBSET Nat /\ \A j \in I : 2 <= j
    BY <1>4
  <2>2. QED
    BY <2>1, <1>4, FirstOf
<1>6. SelectInSeq(t, LAMBDA lexeme : lexeme = Open) = 2
  BY <1>4, <1>5 DEF SelectInSeq
<1>7. extractType(t) =
        [type |-> t[1].word, rest |-> SubSeq(t, 2 + 1, Len(t) - 1)]
  <2>1. 2 # 0
    OBVIOUS
  <2>2. QED
    BY <1>6, <2>1, Zenon DEF extractType
<1>8. SubSeq(t, 3, Len(t) - 1) = inner
  <2> DEFINE s == SubSeq(t, 3, Len(t) - 1)
  <2>1. s \in Seq(Lexemes) /\ Len(s) = Len(inner)
    BY <1>2, <1>3, SubSeqProperties
  <2>2. ASSUME NEW i \in 1..Len(inner) PROVE s[i] = inner[i]
    BY <1>2, <1>3, SubSeqProperties
  <2>3. QED
    BY <2>1, <2>2, SeqEqual
<1>9. t[1].word = h
  BY <1>2 DEF Word
<1>10. SubSeq(t, 2 + 1, Len(t) - 1) = inner
  BY <1>8
<1>11. QED
  BY <1>1, <1>7, <1>9, <1>10, Zenon


-----------------------------------------------------------------------------
(***************************************************************************)
(* The variables of a class.                                               *)
(***************************************************************************)
\* Variables and commas take turns.
LEMMA VariablesAndCommas ==
  ASSUME NEW v \in Seq(Lexemes), NEW n \in Nat \ {0}, n = Len(v)
  PROVE  /\ ClassVariables(v) \in Seq(Lexemes)
         /\ Len(ClassVariables(v)) = 2 * n - 1
         /\ DOMAIN ClassVariables(v) = 1..(2 * n - 1)
         /\ \A j \in 1..n : ClassVariables(v)[2 * j - 1] = v[j]
         /\ \A j \in 1..(n - 1) : ClassVariables(v)[2 * j] = Comma
<1> DEFINE N == 2 * n - 1
           at(i) == IF i % 2 = 1 THEN v[(i + 1) \div 2] ELSE Comma
<1>1. PICK t : t = [i \in 1..N |-> at(i)]
  BY Zenon
<1>2. ClassVariables(v) = t
  BY <1>1, Zenon DEF ClassVariables
<1>3. N \in Nat
  OBVIOUS
<1>4. ASSUME NEW i \in 1..N PROVE at(i) \in Lexemes
  <2>1. CASE i % 2 = 1
    <3>1. (i + 1) \div 2 \in 1..n
      BY <2>1
    <3>2. v[(i + 1) \div 2] \in Lexemes
      BY <3>1, ElementOfSeq
    <3>3. QED
      BY <2>1, <3>2
  <2>2. CASE ~(i % 2 = 1)
    BY <2>2, KindsOfLexemes
  <2>3. QED
    BY <2>1, <2>2
<1> HIDE DEF at
<1>5. t \in [1..N -> Lexemes]
  BY <1>1, <1>4
<1>6. t \in Seq(Lexemes) /\ Len(t) = N /\ DOMAIN t = 1..N
  <2>1. t \in Seq(Lexemes)
    BY <1>3, <1>5, SeqDef
  <2>2. DOMAIN t = 1..N
    BY <1>1
  <2>3. QED
    BY <1>3, <2>1, <2>2, LenProperties
<1>7. ASSUME NEW j \in 1..n PROVE t[2 * j - 1] = v[j]
  <2>1. PICK i : i = 2 * j - 1
    BY Zenon
  <2>2. i \in 1..N /\ i % 2 = 1 /\ (i + 1) \div 2 = j
    BY <2>1
  <2>3. QED
    BY <1>1, <2>1, <2>2 DEF at
<1>8. ASSUME NEW j \in 1..(n - 1) PROVE t[2 * j] = Comma
  <2>1. PICK i : i = 2 * j
    BY Zenon
  <2>2. i \in 1..N /\ ~(i % 2 = 1)
    BY <2>1
  <2>3. QED
    BY <1>1, <2>1, <2>2 DEF at
<1>9. QED
  BY <1>2, <1>6, <1>7, <1>8, Zenon

\* Each variable ends where the comma or the end of the text is.
LEMMA EdgeOfVariable ==
  ASSUME NEW v \in Seq(Lexemes), NEW n \in Nat \ {0}, n = Len(v),
         \A j \in 1..n : v[j] # Comma, NEW j \in 1..n
  PROVE  RightEdge(ClassVariables(v), 2 * j - 1) = 2 * j
<1>1. PICK t : t = ClassVariables(v)
  BY Zenon
<1>2. /\ Len(t) = 2 * n - 1
      /\ \A i \in 1..n : t[2 * i - 1] = v[i]
      /\ \A i \in 1..(n - 1) : t[2 * i] = Comma
  BY <1>1, VariablesAndCommas, Zenon
<1> DEFINE commas == {r \in (2 * j - 1)..Len(t) : t[r] = Comma}
<1>3. PICK l : l = 2 * j - 1
  BY Zenon
<1>4. t[l] # Comma
  BY <1>2, <1>3
<1>5. CASE j < n
  <2>1. 2 * j \in commas
    BY <1>2, <1>5
  <2>2. commas \in SUBSET Nat /\ \A r \in commas : 2 * j <= r
    BY <1>2, <1>3, <1>4
  <2>3. Min(commas) = 2 * j
    BY <2>1, <2>2, FirstOf
  <2>4. QED
    BY <1>1, <2>1, <2>3 DEF RightEdge
<1>6. CASE j = n
  <2>1. commas = {}
    BY <1>2, <1>3, <1>4, <1>6
  <2>2. QED
    BY <1>1, <1>2, <1>6, <2>1 DEF RightEdge
<1>7. QED
  BY <1>5, <1>6

\* The cursor goes from variable to variable, and then behind the text.
LEMMA CursorOfVariable ==
  ASSUME NEW v \in Seq(Lexemes), NEW n \in Nat \ {0}, n = Len(v),
         \A j \in 1..n : v[j] # Comma
  PROVE  \A m \in 1..(2 * n - 1) :
           Cursors(ClassVariables(v))[m] =
             IF m <= n THEN 2 * m - 1 ELSE 2 * n + 1
<1>1. PICK t : t = ClassVariables(v)
  BY Zenon
<1>2. Len(t) = 2 * n - 1 /\ DOMAIN t = 1..(2 * n - 1)
  BY <1>1, VariablesAndCommas, Zenon
<1>3. ASSUME NEW j \in 1..n PROVE RightEdge(t, 2 * j - 1) = 2 * j
  BY <1>1, EdgeOfVariable, Zenon
<1>4. RightEdge(t, 2 * n + 1) = 2 * n
  <2>1. {r \in (2 * n + 1)..Len(t) : t[r] = Comma} = {}
    BY <1>2
  <2>2. Len(t) + 1 = 2 * n
    BY <1>2
  <2>3. QED
    BY <2>1, <2>2, Zenon DEF RightEdge
<1> DEFINE at(m) == IF m <= n THEN 2 * m - 1 ELSE 2 * n + 1
           l(c) == [m \in DOMAIN t |->
                      IF m = 1 THEN 1 ELSE RightEdge(t, c[m - 1]) + 1]
<1>5. ASSUME NEW m \in 1..(2 * n - 1), m # 1
      PROVE  at(m) = RightEdge(t, at(m - 1)) + 1
  <2>1. CASE m <= n + 1
    <3>1. PICK j : j = m - 1
      BY Zenon
    <3>2. j \in 1..n /\ at(m - 1) = 2 * j - 1 /\ at(m) = 2 * j + 1
      BY <1>5, <2>1, <3>1
    <3>3. QED
      BY <1>3, <3>2
  <2>2. CASE m > n + 1
    BY <1>4, <1>5, <2>2
  <2>3. QED
    BY <2>1, <2>2
<1>6. at(1) = 1
  OBVIOUS
<1> HIDE DEF at
<1>7. PICK w : w = [m \in DOMAIN t |-> at(m)]
  BY Zenon
<1>8. w = l(w)
  <2>1. ASSUME NEW m \in DOMAIN t
        PROVE  at(m) = IF m = 1 THEN 1 ELSE RightEdge(t, w[m - 1]) + 1
    BY <1>2, <1>5, <1>6, <1>7
  <2>2. QED
    BY <1>7, <2>1
<1>9. PICK c : c = Cursors(t)
  BY Zenon
<1>10. c = CHOOSE f : f = l(f)
  BY <1>9, Zenon DEF Cursors
<1>11. c = l(c)
  BY <1>8, <1>10, Zenon
<1>12. ASSUME NEW bad \in 1..(2 * n - 1), c[bad] # at(bad) PROVE FALSE
  <2> DEFINE T == {m \in 1..(2 * n - 1) : c[m] # at(m)}
  <2>1. PICK m \in T : \A y \in T : m <= y
    <3>1. T \subseteq Nat /\ T # {}
      BY <1>12
    <3>2. QED
      BY <3>1, LeastElement, Zenon
  <2>2. m # 1
    BY <1>2, <1>6, <1>11
  <2>3. c[m - 1] = at(m - 1)
    BY <2>1, <2>2
  <2>4. c[m] = RightEdge(t, c[m - 1]) + 1
    BY <1>2, <1>11, <2>2
  <2>5. QED
    BY <1>5, <2>2, <2>3, <2>4
<1>13. QED
  BY <1>1, <1>9, <1>12 DEF at

\* What was written is what is found.
LEMMA VariablesSurvive ==
  ASSUME NEW v \in Seq(Lexemes), NEW n \in Nat \ {0}, n = Len(v),
         \A j \in 1..n : v[j] # Comma
  PROVE  getNextVars(ClassVariables(v)) = v
<1>1. PICK t : t = ClassVariables(v)
  BY Zenon
<1>2. /\ Len(t) = 2 * n - 1 /\ DOMAIN t = 1..(2 * n - 1)
      /\ \A j \in 1..n : t[2 * j - 1] = v[j]
  BY <1>1, VariablesAndCommas, Zenon
<1>3. PICK c : c = Cursors(t)
  BY Zenon
<1>4. \A m \in 1..(2 * n - 1) : c[m] = IF m <= n THEN 2 * m - 1 ELSE 2 * n + 1
  BY <1>1, <1>3, CursorOfVariable, Zenon
<1>5. {m \in DOMAIN t : c[m] <= Len(t)} = 1..n
  BY <1>2, <1>4
<1>6. getNextVars(t) = [m \in 1..n |-> t[c[m]]]
  BY <1>3, <1>5, Zenon DEF getNextVars
<1>7. ASSUME NEW m \in 1..n PROVE t[c[m]] = v[m]
  BY <1>2, <1>4
<1>8. v = [m \in 1..n |-> v[m]]
  BY LenProperties
<1>9. QED
  BY <1>1, <1>6, <1>7, <1>8

-----------------------------------------------------------------------------
(***************************************************************************)
(* Rounding to the last decimal.                                           *)
(***************************************************************************)
LEMMA DivisionBy ==
  ASSUME NEW x \in Int, NEW d \in Nat \ {0}
  PROVE  \E q \in Int, r \in 0..(d - 1) :
           x = q * d + r /\ x \div d = q /\ x % d = r
<1>1. PICK q : q = x \div d
  BY Zenon
<1>2. PICK r : r = x % d
  BY Zenon
<1>3. q \in Int
  BY <1>1
<1>4. r \in 0..(d - 1)
  BY <1>2
<1>5. x = q * d + r
  BY <1>1, <1>2
<1>6. QED
  BY <1>1, <1>2, <1>3, <1>4, <1>5

LEMMA DivisionByDecimal ==
  ASSUME NEW x \in Int
  PROVE  \E q \in Int, r \in 0..(Decimal - 1) :
           x = q * Decimal + r /\ x \div Decimal = q /\ x % Decimal = r
BY DivisionBy, NumbersAssumption

\* A quotient and a remainder are determined.
LEMMA QuotientIsUnique ==
  ASSUME NEW d \in Nat \ {0}, NEW p \in Int, NEW q \in Int,
         NEW r \in 0..(d - 1), NEW s \in 0..(d - 1),
         p * d + r = q * d + s
  PROVE  p = q /\ r = s
<1>1. (p - q) * d = s - r
  OBVIOUS
<1>2. PICK e \in Int : e = p - q  OBVIOUS
<1>3. e * d = s - r /\ -d < s - r /\ s - r < d
  BY <1>1, <1>2
<1>4. e < 1
  BY <1>3
<1>5. e > -1
  BY <1>3
<1>6. e = 0
  BY <1>4, <1>5
<1>7. QED
  BY <1>2, <1>3, <1>6

LEMMA RoundedToProperties ==
  ASSUME NEW x \in Int, NEW d \in Nat \ {0}
  PROVE  /\ RoundedTo(x, d) \in Int
         /\ \E q \in Int : RoundedTo(x, d) = q * d
         /\ -d <= 2 * (RoundedTo(x, d) - x) /\ 2 * (RoundedTo(x, d) - x) <= d
<1>1. PICK q \in Int, r \in 0..(d - 1) :
        x = q * d + r /\ x \div d = q /\ x % d = r
  BY DivisionBy, Zenon
<1>2. PICK e : e = (q % 2 = 0)
  BY Zenon
<1>3. PICK b \in Int : b = q * d
  OBVIOUS
<1>4. PICK y : y = RoundedTo(x, d)
  BY Zenon
<1>5. y = (q + (IF 2 * r < d \/ (2 * r = d /\ e) THEN 0 ELSE 1)) * d
  BY <1>1, <1>2, <1>4, Zenon DEF RoundedTo
<1>6. CASE 2 * r < d \/ (2 * r = d /\ e)
  <2>1. y = (q + 0) * d
    BY <1>5, <1>6, Zenon
  <2>2. y = b /\ x = b + r /\ 2 * r <= d
    BY <1>1, <1>3, <1>6, <2>1
  <2>3. QED
    BY <1>3, <1>4, <2>2
<1>7. CASE ~(2 * r < d \/ (2 * r = d /\ e))
  <2>1. y = (q + 1) * d
    BY <1>5, <1>7, Zenon
  <2>2. q + 1 \in Int /\ (q + 1) * d = b + d
    BY <1>3
  <2>3. y = b + d /\ x = b + r /\ d <= 2 * r
    BY <1>1, <1>3, <1>7, <2>1, <2>2
  <2>4. QED
    BY <1>4, <2>1, <2>2, <2>3
<1>8. QED
  BY <1>6, <1>7

LEMMA RoundedProperties ==
  ASSUME NEW x \in Int
  PROVE  /\ Rounded(x) \in Int
         /\ \E q \in Int : Rounded(x) = q * Decimal
         /\ -Decimal <= 2 * (Rounded(x) - x) /\ 2 * (Rounded(x) - x) <= Decimal
<1>1. Decimal \in Nat \ {0}
  BY NumbersAssumption
<1>2. Rounded(x) = RoundedTo(x, Decimal)
  BY Zenon DEF Rounded
<1>3. QED
  BY <1>1, <1>2, RoundedToProperties

\* What has six decimals stays as it is.
LEMMA RoundedTwice ==
  ASSUME NEW q \in Int
  PROVE  Rounded(q * Decimal) = q * Decimal
<1>1. Decimal \in Nat \ {0}
  BY NumbersAssumption
<1>2. q * Decimal \in Int
  BY <1>1
<1>3. PICK p \in Int, r \in 0..(Decimal - 1) :
        /\ q * Decimal = p * Decimal + r
        /\ (q * Decimal) \div Decimal = p /\ (q * Decimal) % Decimal = r
  BY <1>2, DivisionByDecimal
<1>4. p = q /\ r = 0
  <2>1. p * Decimal + r = q * Decimal + 0 /\ 0 \in 0..(Decimal - 1)
    BY <1>1, <1>3
  <2>2. QED
    BY <1>1, <2>1, QuotientIsUnique
<1>5. 2 * r < Decimal
  BY <1>1, <1>4
<1>6. Rounded(q * Decimal) = (p + 0) * Decimal
  BY <1>3, <1>5, Zenon DEF Rounded, RoundedTo
<1>7. QED
  BY <1>1, <1>4, <1>6

\* No number is rounded to one that no double can hold.
LEMMA RoundedIsFinite ==
  ASSUME NEW x \in -MaxDouble..MaxDouble
  PROVE  Rounded(x) \in -MaxDouble..MaxDouble
<1>1. Decimal \in Nat \ {0} /\ MaxDouble \in Nat /\ MaxDouble % Decimal = 0
  BY NumbersAssumption
<1>2. PICK m \in Int : MaxDouble = m * Decimal
  <2>1. PICK x0 \in Int : x0 = MaxDouble
    BY <1>1
  <2>2. PICK q \in Int, r \in 0..(Decimal - 1) :
          x0 = q * Decimal + r /\ x0 \div Decimal = q /\ x0 % Decimal = r
    BY DivisionByDecimal, Zenon
  <2>3. QED
    BY <1>1, <2>1, <2>2
<1>3. PICK q \in Int : Rounded(x) = q * Decimal
  BY RoundedProperties
<1>4. -Decimal < Rounded(x) - x /\ Rounded(x) - x < Decimal
  BY <1>1, RoundedProperties
<1>5. q * Decimal < (m + 1) * Decimal /\ (-m - 1) * Decimal < q * Decimal
  BY <1>1, <1>2, <1>3, <1>4
<1>6. q < m + 1 /\ -m - 1 < q
  BY <1>1, <1>5
<1>7. q * Decimal <= m * Decimal /\ -m * Decimal <= q * Decimal
  BY <1>1, <1>6
<1>8. QED
  BY <1>1, <1>2, <1>3, <1>7

-----------------------------------------------------------------------------
(***************************************************************************)
(* What is read back of one lexeme.                                        *)
(***************************************************************************)
Doubles == -Infinity..Infinity

\* The distance of the doubles of a size.
LEMMA SpacingTyped ==
  ASSUME NEW x \in Int
  PROVE  /\ Spacing(x) \in Spacings /\ Spacing(x) \in Nat \ {0}
         /\ x \in 1 - Precision..Precision - 1 => Spacing(x) = 1
<1>1. /\ Spacings \subseteq Nat \ {0} /\ 1 \in Spacings /\ Precision \in Nat \ {0}
      /\ \E s \in Spacings : \A t \in Spacings : s >= t
  BY NumbersAssumption, Zenon
<1>2. PICK largest \in Spacings : largest = Max(Spacings)
  BY <1>1, Zenon DEF Max
<1> DEFINE Fits(s) == x \in 1 - Precision * s..Precision * s - 1
           T == {s \in Spacings : Fits(s) \/ s = Max(Spacings)}
<1>3. T \subseteq Nat /\ largest \in T
  BY <1>1, <1>2
<1>4. Spacing(x) = CHOOSE s \in T : \A t \in T : s =< t
  BY Zenon DEF Spacing, Min
<1>5. \E s \in T : \A t \in T : s =< t
  <2> HIDE DEF T
  <2>1. QED
    BY <1>3, LeastElement
<1>6. Spacing(x) \in T /\ \A t \in T : Spacing(x) =< t
  <2> HIDE DEF T
  <2>1. QED
    BY <1>4, <1>5, Zenon
<1>7. Spacing(x) \in Spacings /\ Spacing(x) \in Nat \ {0}
  BY <1>1, <1>6
<1>8. ASSUME x \in 1 - Precision..Precision - 1 PROVE Spacing(x) = 1
  <2>1. Fits(1)
    BY <1>1, <1>8
  <2>2. 1 \in T
    BY <1>1, <2>1
  <2>3. QED
    BY <1>6, <1>7, <2>2
<1>9. QED
  BY <1>7, <1>8

LEMMA LostTyped ==
  ASSUME NEW x \in Int
  PROVE  Lost(x) \in Nat
BY SpacingTyped DEF Lost

\* The nearest double: whole grains are kept while doubles can tell them apart.
LEMMA NearestProperties ==
  ASSUME NEW x \in Int
  PROVE  /\ Nearest(x) \in Doubles
         /\ Nearest(x) \notin {Infinity, -Infinity} =>
              /\ Nearest(x) \in -MaxDouble..MaxDouble
              /\ -Lost(x) <= 2 * (Nearest(x) - x) /\ 2 * (Nearest(x) - x) <= Lost(x)
              /\ (\E p \in Int : x = p * Decimal)
                   => \E q \in Int : Nearest(x) = q * Decimal
         /\ x \in 1 - Precision..Precision - 1 => Nearest(x) = x
<1>1. /\ MaxDouble \in Nat \ {0} /\ Precision \in Nat \ {0} /\ Precision <= MaxDouble
      /\ Decimal \in Nat \ {0} /\ \A s \in Spacings \ {1} : s % Decimal = 0
  BY NumbersAssumption
<1>2. PICK s \in Nat \ {0} : s = Spacing(x) /\ s \in Spacings
  BY SpacingTyped
<1>3. PICK d \in Int : d = RoundedTo(x, s)
  BY RoundedToProperties
<1>4. (\E q \in Int : d = q * s) /\ -s <= 2 * (d - x) /\ 2 * (d - x) <= s
  BY <1>3, RoundedToProperties
<1>5. Nearest(x) = CASE d > MaxDouble -> Infinity
                     [] d < -MaxDouble -> -Infinity
                     [] OTHER -> d
  BY <1>2, <1>3, Zenon DEF Nearest
<1>6. \/ Nearest(x) = Infinity \/ Nearest(x) = -Infinity
      \/ Nearest(x) = d /\ d \in -MaxDouble..MaxDouble
  BY <1>1, <1>5
<1>7. Nearest(x) \in Doubles
  BY <1>1, <1>6 DEF Doubles, Infinity
<1>8. CASE s = 1
  <2>1. d = x
    BY <1>4, <1>8
  <2>2. Lost(x) = 0
    BY <1>2, <1>8, Zenon DEF Lost
  <2>3. ASSUME x \in 1 - Precision..Precision - 1 PROVE Nearest(x) = x
    BY <1>1, <1>5, <2>1, <2>3
  <2>4. QED
    BY <1>6, <1>7, <2>1, <2>2, <2>3
<1>9. CASE s # 1
  <2>1. Lost(x) = s
    BY <1>2, <1>9, Zenon DEF Lost
  <2>2. PICK q \in Int : d = q * s
    BY <1>4
  <2>3. PICK c \in Int : s = c * Decimal
    <3>1. s % Decimal = 0
      BY <1>1, <1>2, <1>9
    <3>2. PICK c \in Int, r \in 0..(Decimal - 1) :
            s = c * Decimal + r /\ s \div Decimal = c /\ s % Decimal = r
      <4>1. s \in Int
        OBVIOUS
      <4>2. QED
        BY <4>1, DivisionByDecimal, Zenon
    <3>3. QED
      BY <1>1, <3>1, <3>2
  <2>4. q * c \in Int /\ d = (q * c) * Decimal
    BY <1>1, <2>2, <2>3
  <2>5. x \notin 1 - Precision..Precision - 1
    BY <1>2, <1>9, SpacingTyped
  <2>6. QED
    BY <1>4, <1>6, <1>7, <2>1, <2>4, <2>5
<1>10. QED
  BY <1>8, <1>9

LEMMA LexemesSurvive ==
  /\ \A w \in Names : ToWord(Word(w)) = w /\ Word(w) # Comma
  /\ \A n \in Nat : ToUnsigned(Unsigned(n)) = n /\ Unsigned(n) # Comma
BY DEF ToWord, Word, ToUnsigned, Unsigned, Comma

LEMMA DoubleSurvives ==
  ASSUME NEW x \in Doubles
  PROVE  /\ Double(x) \in Lexemes /\ Double(x) # Comma
         /\ ToDouble(Double(x)) = Sent(x)
<1>1. MaxDouble \in Nat
  BY NumbersAssumption
<1>2. x \in Int
  BY <1>1 DEF Doubles, Infinity
<1>3. CASE x \in {Infinity, -Infinity}
  <2>1. PICK l : l = Word("inf")
    BY Zenon
  <2>2. Double(x) = l /\ Sent(x) = 0
    BY <1>3, <2>1, Zenon DEF Double, Sent
  <2>3. l \in Lexemes /\ l # Comma
    <3>1. "inf" \in Names
      BY DEF Names
    <3>2. QED
      BY <2>1, <3>1, KindsOfLexemes, LexemesSurvive
  <2>4. ToDouble(l) = 0
    BY <2>1 DEF ToDouble, Word
  <2>5. QED
    BY <2>2, <2>3, <2>4, Zenon
<1>4. CASE x \notin {Infinity, -Infinity}
  <2>1. PICK r \in Int : r = Rounded(x)
    BY <1>2, RoundedProperties
  <2>2. Double(x) = [real |-> r] /\ Sent(x) = r
    BY <1>4, <2>1, Zenon DEF Double, Sent
  <2>3. [real |-> r] \in Lexemes
    BY DEF Lexemes
  <2>4. [real |-> r] # Comma
    BY DEF Comma
  <2>5. ToDouble([real |-> r]) = r
    BY DEF ToDouble
  <2>6. QED
    BY <2>2, <2>3, <2>4, <2>5, Zenon
<1>5. QED
  BY <1>3, <1>4

\* A double that was sent once does not change any more.
LEMMA SentIsSettled ==
  ASSUME NEW x \in Doubles
  PROVE  /\ Sent(x) \in -MaxDouble..MaxDouble /\ Sent(x) \in Doubles
         /\ Sent(Sent(x)) = Sent(x)
<1>1. MaxDouble \in Nat \ {0}
  BY NumbersAssumption
<1>2. -MaxDouble..MaxDouble \subseteq Doubles
  BY <1>1 DEF Doubles, Infinity
<1>3. \E q \in Int : Sent(x) = q * Decimal
  <2>1. CASE x \in {Infinity, -Infinity}
    <3>1. Sent(x) = 0
      BY <2>1, Zenon DEF Sent
    <3>2. 0 = 0 * Decimal
      BY NumbersAssumption
    <3>3. QED
      BY <3>1, <3>2
  <2>2. CASE x \notin {Infinity, -Infinity}
    BY <1>1, <2>2, RoundedProperties DEF Sent, Doubles, Infinity
  <2>3. QED
    BY <2>1, <2>2
<1>4. Sent(x) \in -MaxDouble..MaxDouble
  <2>1. CASE x \in {Infinity, -Infinity}
    BY <1>1, <2>1 DEF Sent
  <2>2. CASE x \notin {Infinity, -Infinity}
    <3>1. x \in -MaxDouble..MaxDouble
      BY <1>1, <2>2 DEF Doubles, Infinity
    <3>2. Sent(x) = Rounded(x)
      BY <2>2, Zenon DEF Sent
    <3>3. QED
      BY <3>1, <3>2, RoundedIsFinite
  <2>3. QED
    BY <2>1, <2>2
<1>5. Sent(Sent(x)) = Sent(x)
  <2>1. Sent(x) \notin {Infinity, -Infinity}
    BY <1>1, <1>4 DEF Infinity
  <2>2. Rounded(Sent(x)) = Sent(x)
    BY <1>3, RoundedTwice
  <2>3. PICK s : s = Sent(x)
    BY Zenon
  <2>4. Sent(s) = Rounded(s)
    BY <2>1, <2>3, Zenon DEF Sent
  <2>5. QED
    BY <2>2, <2>3, <2>4
<1>6. QED
  BY <1>2, <1>4, <1>5

-----------------------------------------------------------------------------
(***************************************************************************)
(* The braces of the abstract classes.                                     *)
(***************************************************************************)
LEMMA Headers ==
  /\ {"Message", "Request", "Command", "Authorization", "Response",
      "AuthorizationResponse"} \subseteq Names
  /\ {"Create", "Exec", "PrintTree", "AuthorizationWithName",
      "AuthorizationAccepted", "GoodExecResp", "BadExecResp", "GoodCreateResp",
      "BadCreateResp", "NodeExistResponse", "NodeIsDeadResponse", "Heartbeat",
      "KillSignal"} \subseteq Names
BY DEF Names

LEMMA RequestIsRead ==
  ASSUME NEW s \in Seq(Lexemes)
  PROVE  /\ InRequest(s) \in Seq(Lexemes)
         /\ Deserialize(InRequest(s)) = RequestOf(s)
<1>1. PICK r : r = In("Request", s)
  BY Zenon
<1>2. r \in Seq(Lexemes) /\ extractType(r) = [type |-> "Request", rest |-> s]
  BY <1>1, Headers, InHeader, TypeOfHeader
<1>3. PICK t : t = In("Message", r)
  BY Zenon
<1>4. t \in Seq(Lexemes) /\ extractType(t) = [type |-> "Message", rest |-> r]
  BY <1>2, <1>3, Headers, InHeader, TypeOfHeader
<1>5. InRequest(s) = t
  BY <1>1, <1>3, Zenon DEF InRequest, InMessage
<1>6. Deserialize(t) = MessageOf(r)
  BY <1>4 DEF Deserialize
<1>7. MessageOf(r) = RequestOf(s)
  BY <1>2 DEF MessageOf
<1>8. QED
  BY <1>4, <1>5, <1>6, <1>7, Zenon

LEMMA ResponseIsRead ==
  ASSUME NEW s \in Seq(Lexemes)
  PROVE  /\ InResponse(s) \in Seq(Lexemes)
         /\ Deserialize(InResponse(s)) = ResponseOf(s)
<1>1. PICK r : r = In("Response", s)
  BY Zenon
<1>2. r \in Seq(Lexemes) /\ extractType(r) = [type |-> "Response", rest |-> s]
  BY <1>1, Headers, InHeader, TypeOfHeader
<1>3. PICK t : t = In("Message", r)
  BY Zenon
<1>4. t \in Seq(Lexemes) /\ extractType(t) = [type |-> "Message", rest |-> r]
  BY <1>2, <1>3, Headers, InHeader, TypeOfHeader
<1>5. InResponse(s) = t
  BY <1>1, <1>3, Zenon DEF InResponse, InMessage
<1>6. Deserialize(t) = MessageOf(r)
  BY <1>4 DEF Deserialize
<1>7. MessageOf(r) = ResponseOf(s)
  BY <1>2 DEF MessageOf
<1>8. QED
  BY <1>4, <1>5, <1>6, <1>7, Zenon

LEMMA CommandIsRead ==
  ASSUME NEW s \in Seq(Lexemes)
  PROVE  /\ InCommand(s) \in Seq(Lexemes)
         /\ Deserialize(InCommand(s)) = CommandOf(s)
<1>1. PICK r : r = In("Command", s)
  BY Zenon
<1>2. r \in Seq(Lexemes) /\ extractType(r) = [type |-> "Command", rest |-> s]
  BY <1>1, Headers, InHeader, TypeOfHeader
<1>3. InCommand(s) = InRequest(r)
  BY <1>1, Zenon DEF InCommand
<1>4. Deserialize(InRequest(r)) = RequestOf(r) /\ InRequest(r) \in Seq(Lexemes)
  BY <1>2, RequestIsRead
<1>5. RequestOf(r) = CommandOf(s)
  BY <1>2 DEF RequestOf
<1>6. QED
  BY <1>3, <1>4, <1>5, Zenon

\* A class in its own braces.
\* The text s is read as the class h with the variables v.
IsReadAs(s, h, v) ==
  /\ s \in Seq(Lexemes)
  /\ extractType(s).type = h
  /\ getNextVars(extractType(s).rest) = v

LEMMA ClassIsRead ==
  ASSUME NEW h \in Names, NEW v \in Seq(Lexemes), NEW n \in Nat \ {0}, n = Len(v),
         \A j \in 1..n : v[j] # Comma
  PROVE  IsReadAs(In(h, ClassVariables(v)), h, v)
<1>1. PICK t : t = ClassVariables(v)
  BY Zenon
<1>2. t \in Seq(Lexemes)
  BY <1>1, VariablesAndCommas, Zenon
<1>3. PICK s : s = In(h, t)
  BY Zenon
<1>4. s \in Seq(Lexemes) /\ extractType(s) = [type |-> h, rest |-> t]
  BY <1>2, <1>3, InHeader, TypeOfHeader
<1>5. getNextVars(t) = v
  BY <1>1, VariablesSurvive, Zenon
<1>6. IsReadAs(s, h, v)
  BY <1>4, <1>5 DEF IsReadAs
<1>7. QED
  BY <1>1, <1>3, <1>6

LEMMA PairIsRead ==
  ASSUME NEW h \in Names, NEW x \in Lexemes, NEW y \in Lexemes, x # Comma, y # Comma
  PROVE  IsReadAs(In(h, ClassVariables(<<x, y>>)), h, <<x, y>>)
<1>1. PICK v : v = <<x, y>>
  BY Zenon
<1>2. v \in Seq(Lexemes) /\ 2 = Len(v)
  BY <1>1
<1>3. \A j \in 1..2 : v[j] # Comma
  BY <1>1
<1>4. 2 \in Nat \ {0}
  OBVIOUS
<1>5. IsReadAs(In(h, ClassVariables(v)), h, v)
  BY <1>2, <1>3, <1>4, ClassIsRead, Zenon
<1>6. QED
  BY <1>1, <1>5

LEMMA SingleIsRead ==
  ASSUME NEW h \in Names, NEW x \in Lexemes, x # Comma
  PROVE  IsReadAs(In(h, <<x>>), h, <<x>>)
<1>1. PICK v : v = <<x>>
  BY Zenon
<1>2. v \in Seq(Lexemes) /\ 1 = Len(v)
  BY <1>1
<1>3. \A j \in 1..1 : v[j] # Comma
  BY <1>1
<1>4. 1 \in Nat \ {0}
  OBVIOUS
<1>5. ClassVariables(v) = v
  <2>1. PICK t : t = ClassVariables(v)
    BY Zenon
  <2>2. /\ t \in Seq(Lexemes) /\ Len(t) = 2 * 1 - 1
        /\ \A j \in 1..1 : t[2 * j - 1] = v[j]
    BY <1>2, <1>4, <2>1, VariablesAndCommas, Zenon
  <2>3. Len(t) = 1 /\ t[1] = v[1]
    BY <2>2
  <2>4. QED
    BY <1>2, <2>1, <2>2, <2>3, SeqEqual
<1>6. IsReadAs(In(h, ClassVariables(v)), h, v)
  BY <1>2, <1>3, <1>4, ClassIsRead, Zenon
<1>7. QED
  BY <1>1, <1>5, <1>6

-----------------------------------------------------------------------------
(***************************************************************************)
(* Every class is read back as it was written.                             *)
(***************************************************************************)
LEMMA PairResponsesSurvive ==
  ASSUME NEW a \in Nat, NEW b \in Nat
  PROVE  /\ Deserialize(Serialize(GoodCreateResp(a, b))) = GoodCreateResp(a, b)
         /\ Deserialize(Serialize(BadCreateResp(a, b))) = BadCreateResp(a, b)
         /\ Deserialize(Serialize(Heartbeat(a, b))) = Heartbeat(a, b)
<1>1. PICK x : x = Unsigned(a)
  BY Zenon
<1>2. PICK y : y = Unsigned(b)
  BY Zenon
<1>3. /\ x \in Lexemes /\ x # Comma /\ ToUnsigned(x) = a
      /\ y \in Lexemes /\ y # Comma /\ ToUnsigned(y) = b
  BY <1>1, <1>2, KindsOfLexemes, LexemesSurvive
<1>4. PICK v : v = <<x, y>>
  BY Zenon
<1>5. v[1] = x /\ v[2] = y
  BY <1>4
<1>6. Deserialize(Serialize(GoodCreateResp(a, b))) = GoodCreateResp(a, b)
  <2>1. PICK s : s = In("GoodCreateResp", ClassVariables(<<x, y>>))
    BY Zenon
  <2>2. /\ s \in Seq(Lexemes) /\ extractType(s).type = "GoodCreateResp"
        /\ getNextVars(extractType(s).rest) = v
    <3>1. "GoodCreateResp" \in Names
      BY Headers
    <3>2. IsReadAs(In("GoodCreateResp", ClassVariables(<<x, y>>)), "GoodCreateResp", <<x, y>>)
      BY <1>3, <3>1, PairIsRead
    <3>3. QED
      BY <1>4, <2>1, <3>2 DEF IsReadAs
  <2>3. Serialize(GoodCreateResp(a, b)) = InResponse(s)
    BY <1>1, <1>2, <2>1 DEF Serialize, GoodCreateResp, GoodCreateRespText
  <2>4. ResponseOf(s) = GoodCreateRespOf(v)
    BY <2>2 DEF ResponseOf
  <2>5. GoodCreateRespOf(v) = GoodCreateResp(a, b)
    BY <1>3, <1>5, Zenon DEF GoodCreateRespOf
  <2>6. QED
    BY <2>2, <2>3, <2>4, <2>5, ResponseIsRead, Zenon
<1>7. Deserialize(Serialize(BadCreateResp(a, b))) = BadCreateResp(a, b)
  <2>1. PICK s : s = In("BadCreateResp", ClassVariables(<<x, y>>))
    BY Zenon
  <2>2. /\ s \in Seq(Lexemes) /\ extractType(s).type = "BadCreateResp"
        /\ getNextVars(extractType(s).rest) = v
    <3>1. "BadCreateResp" \in Names
      BY Headers
    <3>2. IsReadAs(In("BadCreateResp", ClassVariables(<<x, y>>)), "BadCreateResp", <<x, y>>)
      BY <1>3, <3>1, PairIsRead
    <3>3. QED
      BY <1>4, <2>1, <3>2 DEF IsReadAs
  <2>3. Serialize(BadCreateResp(a, b)) = InResponse(s)
    BY <1>1, <1>2, <2>1 DEF Serialize, BadCreateResp, BadCreateRespText
  <2>4. ResponseOf(s) = BadCreateRespOf(v)
    BY <2>2 DEF ResponseOf
  <2>5. BadCreateRespOf(v) = BadCreateResp(a, b)
    BY <1>3, <1>5, Zenon DEF BadCreateRespOf
  <2>6. QED
    BY <2>2, <2>3, <2>4, <2>5, ResponseIsRead, Zenon
<1>8. Deserialize(Serialize(Heartbeat(a, b))) = Heartbeat(a, b)
  <2>1. PICK s : s = In("Heartbeat", ClassVariables(<<x, y>>))
    BY Zenon
  <2>2. /\ s \in Seq(Lexemes) /\ extractType(s).type = "Heartbeat"
        /\ getNextVars(extractType(s).rest) = v
    <3>1. "Heartbeat" \in Names
      BY Headers
    <3>2. IsReadAs(In("Heartbeat", ClassVariables(<<x, y>>)), "Heartbeat", <<x, y>>)
      BY <1>3, <3>1, PairIsRead
    <3>3. QED
      BY <1>4, <2>1, <3>2 DEF IsReadAs
  <2>3. Serialize(Heartbeat(a, b)) = InResponse(s)
    BY <1>1, <1>2, <2>1 DEF Serialize, Heartbeat, HeartbeatText
  <2>4. ResponseOf(s) = HeartbeatOf(v)
    BY <2>2 DEF ResponseOf
  <2>5. HeartbeatOf(v) = Heartbeat(a, b)
    BY <1>3, <1>5, Zenon DEF HeartbeatOf
  <2>6. QED
    BY <2>2, <2>3, <2>4, <2>5, ResponseIsRead, Zenon
<1>9. QED
  BY <1>6, <1>7, <1>8

LEMMA SingleResponsesSurvive ==
  ASSUME NEW a \in Nat
  PROVE  /\ Deserialize(Serialize(BadExecResp(a))) = BadExecResp(a)
         /\ Deserialize(Serialize(NodeExistResponse(a))) = NodeExistResponse(a)
         /\ Deserialize(Serialize(NodeIsDeadResponse(a))) = NodeIsDeadResponse(a)
<1>1. PICK x : x = Unsigned(a)
  BY Zenon
<1>2. x \in Lexemes /\ x # Comma /\ ToUnsigned(x) = a
  BY <1>1, KindsOfLexemes, LexemesSurvive
<1>3. PICK v : v = <<x>>
  BY Zenon
<1>4. v[1] = x
  BY <1>3
<1>5. Deserialize(Serialize(BadExecResp(a))) = BadExecResp(a)
  <2>1. PICK s : s = In("BadExecResp", <<x>>)
    BY Zenon
  <2>2. /\ s \in Seq(Lexemes) /\ extractType(s).type = "BadExecResp"
        /\ getNextVars(extractType(s).rest) = v
    <3>1. "BadExecResp" \in Names
      BY Headers
    <3>2. IsReadAs(In("BadExecResp", <<x>>), "BadExecResp", <<x>>)
      BY <1>2, <3>1, SingleIsRead
    <3>3. QED
      BY <1>3, <2>1, <3>2 DEF IsReadAs
  <2>3. Serialize(BadExecResp(a)) = InResponse(s)
    BY <1>1, <2>1 DEF Serialize, BadExecResp, BadExecRespText
  <2>4. ResponseOf(s) = BadExecRespOf(v)
    BY <2>2 DEF ResponseOf
  <2>5. BadExecRespOf(v) = BadExecResp(a)
    BY <1>2, <1>4, Zenon DEF BadExecRespOf
  <2>6. QED
    BY <2>2, <2>3, <2>4, <2>5, ResponseIsRead, Zenon
<1>6. Deserialize(Serialize(NodeExistResponse(a))) = NodeExistResponse(a)
  <2>1. PICK s : s = In("NodeExistResponse", <<x>>)
    BY Zenon
  <2>2. /\ s \in Seq(Lexemes) /\ extractType(s).type = "NodeExistResponse"
        /\ getNextVars(extractType(s).rest) = v
    <3>1. "NodeExistResponse" \in Names
      BY Headers
    <3>2. IsReadAs(In("NodeExistResponse", <<x>>), "NodeExistResponse", <<x>>)
      BY <1>2, <3>1, SingleIsRead
    <3>3. QED
      BY <1>3, <2>1, <3>2 DEF IsReadAs
  <2>3. Serialize(NodeExistResponse(a)) = InResponse(s)
    BY <1>1, <2>1 DEF Serialize, NodeExistResponse, NodeExistResponseText
  <2>4. ResponseOf(s) = NodeExistResponseOf(v)
    BY <2>2 DEF ResponseOf
  <2>5. NodeExistResponseOf(v) = NodeExistResponse(a)
    BY <1>2, <1>4, Zenon DEF NodeExistResponseOf
  <2>6. QED
    BY <2>2, <2>3, <2>4, <2>5, ResponseIsRead, Zenon
<1>7. Deserialize(Serialize(NodeIsDeadResponse(a))) = NodeIsDeadResponse(a)
  <2>1. PICK s : s = In("NodeIsDeadResponse", <<x>>)
    BY Zenon
  <2>2. /\ s \in Seq(Lexemes) /\ extractType(s).type = "NodeIsDeadResponse"
        /\ getNextVars(extractType(s).rest) = v
    <3>1. "NodeIsDeadResponse" \in Names
      BY Headers
    <3>2. IsReadAs(In("NodeIsDeadResponse", <<x>>), "NodeIsDeadResponse", <<x>>)
      BY <1>2, <3>1, SingleIsRead
    <3>3. QED
      BY <1>3, <2>1, <3>2 DEF IsReadAs
  <2>3. Serialize(NodeIsDeadResponse(a)) = InResponse(s)
    BY <1>1, <2>1 DEF Serialize, NodeIsDeadResponse, NodeIsDeadResponseText
  <2>4. ResponseOf(s) = NodeIsDeadResponseOf(v)
    BY <2>2 DEF ResponseOf
  <2>5. NodeIsDeadResponseOf(v) = NodeIsDeadResponse(a)
    BY <1>2, <1>4, Zenon DEF NodeIsDeadResponseOf
  <2>6. QED
    BY <2>2, <2>3, <2>4, <2>5, ResponseIsRead, Zenon
<1>8. QED
  BY <1>5, <1>6, <1>7

LEMMA GoodExecRespSurvives ==
  ASSUME NEW a \in Nat, NEW d \in Doubles
  PROVE  Deserialize(Serialize(GoodExecResp(a, d))) = GoodExecResp(a, Sent(d))
<1>1. PICK x : x = Unsigned(a)
  BY Zenon
<1>2. PICK y : y = Double(d)
  BY Zenon
<1>3. /\ x \in Lexemes /\ x # Comma /\ ToUnsigned(x) = a
      /\ y \in Lexemes /\ y # Comma /\ ToDouble(y) = Sent(d)
  BY <1>1, <1>2, KindsOfLexemes, LexemesSurvive, DoubleSurvives
<1>4. PICK v : v = <<x, y>>
  BY Zenon
<1>5. v[1] = x /\ v[2] = y
  BY <1>4
<1>6. PICK s : s = In("GoodExecResp", ClassVariables(<<x, y>>))
  BY Zenon
<1>7. /\ s \in Seq(Lexemes) /\ extractType(s).type = "GoodExecResp"
      /\ getNextVars(extractType(s).rest) = v
  <2>1. "GoodExecResp" \in Names
    BY Headers
  <2>2. IsReadAs(In("GoodExecResp", ClassVariables(<<x, y>>)), "GoodExecResp", <<x, y>>)
    BY <1>3, <2>1, PairIsRead
  <2>3. QED
    BY <1>4, <1>6, <2>2 DEF IsReadAs
<1>8. Serialize(GoodExecResp(a, d)) = InResponse(s)
  BY <1>1, <1>2, <1>6 DEF Serialize, GoodExecResp, GoodExecRespText
<1>9. ResponseOf(s) = GoodExecRespOf(v)
  BY <1>7 DEF ResponseOf
<1>10. GoodExecRespOf(v) = GoodExecResp(a, Sent(d))
  BY <1>3, <1>5, Zenon DEF GoodExecRespOf
<1>11. QED
  BY <1>7, <1>8, <1>9, <1>10, ResponseIsRead, Zenon

LEMMA CreateSurvives ==
  ASSUME NEW a \in Nat, NEW b \in Nat
  PROVE  Deserialize(Serialize(CommandCreate(a, b))) = CommandCreate(a, b)
<1>1. PICK x : x = Unsigned(a)
  BY Zenon
<1>2. PICK y : y = Unsigned(b)
  BY Zenon
<1>3. /\ x \in Lexemes /\ x # Comma /\ ToUnsigned(x) = a
      /\ y \in Lexemes /\ y # Comma /\ ToUnsigned(y) = b
  BY <1>1, <1>2, KindsOfLexemes, LexemesSurvive
<1>4. PICK v : v = <<x, y>>
  BY Zenon
<1>5. v[1] = x /\ v[2] = y
  BY <1>4
<1>6. PICK s : s = In("Create", ClassVariables(<<x, y>>))
  BY Zenon
<1>7. /\ s \in Seq(Lexemes) /\ extractType(s).type = "Create"
      /\ getNextVars(extractType(s).rest) = v
  <2>1. "Create" \in Names
    BY Headers
  <2>2. IsReadAs(In("Create", ClassVariables(<<x, y>>)), "Create", <<x, y>>)
    BY <1>3, <2>1, PairIsRead
  <2>3. QED
    BY <1>4, <1>6, <2>2 DEF IsReadAs
<1>8. Serialize(CommandCreate(a, b)) = InCommand(s)
  BY <1>1, <1>2, <1>6 DEF Serialize, CommandCreate, CommandCreateText
<1>9. CommandOf(s) = CommandCreateOf(v)
  BY <1>7 DEF CommandOf
<1>10. CommandCreateOf(v) = CommandCreate(a, b)
  BY <1>3, <1>5, Zenon DEF CommandCreateOf
<1>11. QED
  BY <1>7, <1>8, <1>9, <1>10, CommandIsRead, Zenon

\* The numbers of an exec, after its node and their count.
LEMMA ExecSurvives ==
  ASSUME NEW a \in Nat, NEW k \in Seq(Doubles)
  PROVE  Deserialize(Serialize(CommandExec(a, k))) =
           CommandExec(a, [i \in DOMAIN k |-> Sent(k[i])])
<1>1. PICK n \in Nat : n = Len(k)
  BY LenProperties
<1>2. PICK x : x = Unsigned(a)
  BY Zenon
<1>3. PICK y : y = Unsigned(n)
  BY Zenon
<1>4. PICK z : z = [i \in DOMAIN k |-> Double(k[i])]
  BY Zenon
<1>5. /\ x \in Lexemes /\ x # Comma /\ ToUnsigned(x) = a
      /\ y \in Lexemes /\ y # Comma /\ ToUnsigned(y) = n
  BY <1>2, <1>3, KindsOfLexemes, LexemesSurvive
<1>6. DOMAIN k = 1..n
  BY <1>1, LenProperties
<1>7. ASSUME NEW i \in 1..n
      PROVE  z[i] \in Lexemes /\ z[i] # Comma /\ ToDouble(z[i]) = Sent(k[i])
  <2>1. k[i] \in Doubles
    BY <1>1, ElementOfSeq
  <2>2. z[i] = Double(k[i])
    BY <1>4, <1>6
  <2>3. QED
    BY <2>1, <2>2, DoubleSurvives
<1>8. z \in Seq(Lexemes) /\ Len(z) = n
  <2>1. z \in [1..n -> Lexemes]
    BY <1>4, <1>6, <1>7
  <2>2. z \in Seq(Lexemes)
    BY <2>1, SeqDef
  <2>3. DOMAIN z = 1..n
    BY <2>1
  <2>4. QED
    BY <2>2, <2>3, LenProperties
<1>9. PICK p : p = <<x, y>>
  BY Zenon
<1>10. p \in Seq(Lexemes) /\ Len(p) = 2 /\ p[1] = x /\ p[2] = y
  BY <1>5, <1>9
<1>11. PICK v : v = p \o z
  BY Zenon
<1>12. /\ v \in Seq(Lexemes) /\ Len(v) = Len(p) + Len(z)
       /\ \A i \in 1..(Len(p) + Len(z)) :
            v[i] = IF i <= Len(p) THEN p[i] ELSE z[i - Len(p)]
  BY <1>8, <1>10, <1>11, ConcatProperties
<1>13. /\ Len(v) = n + 2
       /\ \A i \in 1..(n + 2) : v[i] = IF i <= 2 THEN p[i] ELSE z[i - 2]
  BY <1>8, <1>10, <1>12
<1>14. v[1] = x /\ v[2] = y
  <2>1. {1, 2} \subseteq 1..(n + 2)
    OBVIOUS
  <2>2. v[1] = p[1] /\ v[2] = p[2]
    BY <1>13, <2>1
  <2>3. QED
    BY <1>10, <2>2
<1>15. ASSUME NEW i \in 1..n PROVE v[i + 2] = z[i]
  BY <1>13
<1>16. ASSUME NEW j \in 1..(n + 2) PROVE v[j] # Comma
  <2>1. CASE j \in {1, 2}
    BY <1>5, <1>14, <2>1
  <2>2. CASE j \notin {1, 2}
    <3>1. PICK i \in 1..n : j = i + 2
      BY <2>2
    <3>2. QED
      BY <1>7, <1>15, <3>1
  <2>3. QED
    BY <2>1, <2>2
<1>17. PICK s : s = In("Exec", ClassVariables(v))
  BY Zenon
<1>18. /\ s \in Seq(Lexemes) /\ extractType(s).type = "Exec"
       /\ getNextVars(extractType(s).rest) = v
  <2>1. "Exec" \in Names
    BY Headers
  <2>2. PICK l \in Nat \ {0} : l = Len(v)
    BY <1>13
  <2>3. \A j \in 1..l : v[j] # Comma
    BY <1>13, <1>16, <2>2
  <2>4. IsReadAs(In("Exec", ClassVariables(v)), "Exec", v)
    BY <1>12, <2>1, <2>2, <2>3, ClassIsRead, Zenon
  <2>5. QED
    BY <1>17, <2>4 DEF IsReadAs
<1>19. Serialize(CommandExec(a, k)) = InCommand(s)
  <2>1. PICK m : m = CommandExec(a, k)
    BY Zenon
  <2>2. m.type = "CommandExec" /\ m.nodeId = a /\ m.k = k
    BY <2>1 DEF CommandExec
  <2>3. Serialize(m) = CommandExecText(m)
    BY <2>2 DEF Serialize
  <2>4. CommandExecText(m) = InCommand(s)
    BY <1>1, <1>2, <1>3, <1>4, <1>9, <1>11, <1>17, <2>2, Zenon DEF CommandExecText
  <2>5. QED
    BY <2>1, <2>3, <2>4
<1>20. CommandOf(s) = CommandExecOf(v)
  BY <1>18 DEF CommandOf
<1>21. CommandExecOf(v) = CommandExec(a, [i \in 1..n |-> ToDouble(v[i + 2])])
  BY <1>5, <1>14, Zenon DEF CommandExecOf
<1>22. [i \in 1..n |-> ToDouble(v[i + 2])] = [i \in DOMAIN k |-> Sent(k[i])]
  BY <1>6, <1>7, <1>15
<1>23. QED
  BY <1>18, <1>19, <1>20, <1>21, <1>22, CommandIsRead, Zenon

\* The classes without variables.
LEMMA EmptyClassesSurvive ==
  /\ Deserialize(Serialize(CommandPrintTree)) = CommandPrintTree
  /\ Deserialize(Serialize(AuthorizationAccepted)) = AuthorizationAccepted
  /\ Deserialize(Serialize(KillSignal)) = KillSignal
<1>1. PICK e : e = <<>>
  BY Zenon
<1>2. e \in Seq(Lexemes)
  BY <1>1
<1>3. ASSUME NEW h \in Names, NEW s, s = In(h, <<>>)
      PROVE  s \in Seq(Lexemes) /\ extractType(s) = [type |-> h, rest |-> e]
  <2>1. s = In(h, e)
    BY <1>1, <1>3
  <2>2. QED
    BY <1>2, <2>1, InHeader, TypeOfHeader
<1>4. Deserialize(Serialize(CommandPrintTree)) = CommandPrintTree
  <2>1. PICK s : s = In("PrintTree", <<>>)
    BY Zenon
  <2>2. s \in Seq(Lexemes) /\ extractType(s) = [type |-> "PrintTree", rest |-> e]
    BY <1>3, <2>1, Headers
  <2>3. Serialize(CommandPrintTree) = InCommand(s)
    BY <2>1 DEF Serialize, CommandPrintTree, CommandPrintTreeText
  <2>4. CommandOf(s) = CommandPrintTree
    BY <2>2 DEF CommandOf
  <2>5. QED
    BY <2>2, <2>3, <2>4, CommandIsRead, Zenon
<1>5. Deserialize(Serialize(AuthorizationAccepted)) = AuthorizationAccepted
  <2>1. PICK s : s = In("AuthorizationAccepted", <<>>)
    BY Zenon
  <2>2. /\ s \in Seq(Lexemes)
        /\ extractType(s) = [type |-> "AuthorizationAccepted", rest |-> e]
    BY <1>3, <2>1, Headers
  <2>3. PICK r : r = In("AuthorizationResponse", s)
    BY Zenon
  <2>4. /\ r \in Seq(Lexemes)
        /\ extractType(r) = [type |-> "AuthorizationResponse", rest |-> s]
    BY <2>2, <2>3, Headers, InHeader, TypeOfHeader
  <2>5. Serialize(AuthorizationAccepted) = InResponse(r)
    BY <2>1, <2>3 DEF Serialize, AuthorizationAccepted, AuthorizationAcceptedText,
                      InAuthorizationResponse
  <2>6. ResponseOf(r) = AuthorizationResponseOf(s)
    BY <2>4 DEF ResponseOf
  <2>7. AuthorizationResponseOf(s) = AuthorizationAccepted
    BY <2>2 DEF AuthorizationResponseOf
  <2>8. QED
    BY <2>4, <2>5, <2>6, <2>7, ResponseIsRead, Zenon
<1>6. Deserialize(Serialize(KillSignal)) = KillSignal
  <2>1. PICK s : s = In("KillSignal", <<>>)
    BY Zenon
  <2>2. s \in Seq(Lexemes) /\ extractType(s) = [type |-> "KillSignal", rest |-> e]
    BY <1>3, <2>1, Headers
  <2>3. PICK t : t = In("Message", s)
    BY Zenon
  <2>4. extractType(t) = [type |-> "Message", rest |-> s]
    BY <2>2, <2>3, Headers, TypeOfHeader
  <2>5. Serialize(KillSignal) = t
    BY <2>1, <2>3 DEF Serialize, KillSignal, KillSignalText, InMessage
  <2>6. Deserialize(t) = MessageOf(s)
    BY <2>4 DEF Deserialize
  <2>7. MessageOf(s) = KillSignal
    BY <2>2 DEF MessageOf
  <2>8. QED
    BY <2>5, <2>6, <2>7
<1>7. QED
  BY <1>4, <1>5, <1>6

LEMMA AuthorizationIsRead ==
  ASSUME NEW x \in Lexemes, NEW y \in Lexemes, x # Comma, y # Comma,
         NEW s, s = In("AuthorizationWithName", ClassVariables(<<x, y>>))
  PROVE  /\ s \in Seq(Lexemes)
         /\ extractType(s).type = "AuthorizationWithName"
         /\ getNextVars(extractType(s).rest) = <<x, y>>
<1>1. "AuthorizationWithName" \in Names
  BY Headers
<1>2. IsReadAs(In("AuthorizationWithName", ClassVariables(<<x, y>>)), "AuthorizationWithName", <<x, y>>)
  BY <1>1, PairIsRead
<1>3. QED
  BY <1>2 DEF IsReadAs

LEMMA AuthorizationSurvives ==
  ASSUME NEW a \in Names, NEW b \in Names
  PROVE  Deserialize(Serialize(AuthorizationWithName(a, b))) =
           AuthorizationWithName(a, b)
<1>1. PICK x : x = Word(a)
  BY Zenon
<1>2. PICK y : y = Word(b)
  BY Zenon
<1>3. /\ x \in Lexemes /\ x # Comma /\ ToWord(x) = a
      /\ y \in Lexemes /\ y # Comma /\ ToWord(y) = b
  BY <1>1, <1>2, KindsOfLexemes, LexemesSurvive
<1>4. PICK v : v = <<x, y>>
  BY Zenon
<1>5. v[1] = x /\ v[2] = y
  BY <1>4
<1>6. PICK s : s = In("AuthorizationWithName", ClassVariables(<<x, y>>))
  BY Zenon
<1>7. /\ s \in Seq(Lexemes) /\ extractType(s).type = "AuthorizationWithName"
      /\ getNextVars(extractType(s).rest) = v
  BY <1>3, <1>4, <1>6, AuthorizationIsRead, Zenon
<1>8. PICK r : r = In("Authorization", s)
  BY Zenon
<1>9. r \in Seq(Lexemes) /\ extractType(r) = [type |-> "Authorization", rest |-> s]
  BY <1>7, <1>8, Headers, InHeader, TypeOfHeader
<1>10. Serialize(AuthorizationWithName(a, b)) = InRequest(r)
  <2>1. PICK m : m = AuthorizationWithName(a, b)
    BY Zenon
  <2>2. m.type = "AuthorizationWithName" /\ m.endpoint = a /\ m.name = b
    BY <2>1 DEF AuthorizationWithName
  <2>3. Serialize(m) = AuthorizationWithNameText(m)
    BY <2>2 DEF Serialize
  <2>4. AuthorizationWithNameText(m) = InRequest(r)
    BY <1>1, <1>2, <1>6, <1>8, <2>2, Zenon
       DEF AuthorizationWithNameText, InAuthorization
  <2>5. QED
    BY <2>1, <2>3, <2>4
<1>11. RequestOf(r) = AuthorizationOf(s)
  BY <1>9 DEF RequestOf
<1>12. AuthorizationOf(s) = AuthorizationWithNameOf(v)
  BY <1>7 DEF AuthorizationOf
<1>13. AuthorizationWithNameOf(v) = AuthorizationWithName(a, b)
  BY <1>3, <1>5, Zenon DEF AuthorizationWithNameOf
<1>14. QED
  BY <1>9, <1>10, <1>11, <1>12, <1>13, RequestIsRead, Zenon

-----------------------------------------------------------------------------
(***************************************************************************)
(* The messages that travel.                                               *)
(***************************************************************************)
SentCommands ==
  [type : {"CommandCreate"}, newNodeId : 0..Max16, parentId : 0..Max16]
    \cup [type : {"CommandExec"}, nodeId : 0..Max16, k : Seq(-MaxDouble..MaxDouble)]
    \cup {CommandPrintTree}

SentAnswers ==
  [type : {"GoodExecResp"}, id : 0..Max16, sum : Doubles]
    \cup [type : {"BadExecResp"}, id : 0..Max16]
    \cup [type : {"GoodCreateResp"}, id : 0..Max16, pid : Pids]
    \cup [type : {"BadCreateResp"}, newNodeId : 0..Max16, parentId : 0..Max16]
    \cup [type : {"NodeExistResponse"}, id : 0..Max16]

Travelling == SentCommands \cup SentAnswers \cup Others

LEMMA Identifiers == 0..Max16 \subseteq Nat
BY DEF Max16

\* What one connection makes of a message.
Crosses(m) ==
  /\ Deserialize(Serialize(m)) = Settled(m)
  /\ Settled(Settled(m)) = Settled(m)
  /\ Settled(m).type = m.type
  /\ Settled(m) # Invalid

LEMMA OrdinaryCrosses ==
  ASSUME NEW m, Deserialize(Serialize(m)) = m,
         m.type \notin {"CommandExec", "GoodExecResp", "invalid"}
  PROVE  Crosses(m) /\ Settled(m) = m
<1>1. Settled(m) = m
  BY DEF Settled
<1>2. m # Invalid
  BY DEF Invalid
<1>3. QED
  BY <1>1, <1>2, Zenon DEF Crosses

LEMMA ExecCrosses ==
  ASSUME NEW a \in 0..Max16, NEW k \in Seq(-MaxDouble..MaxDouble)
  PROVE  /\ Crosses(CommandExec(a, k))
         /\ Settled(CommandExec(a, k)) \in SentCommands
         /\ Settled(CommandExec(a, k)) =
              CommandExec(a, [i \in DOMAIN k |-> Sent(k[i])])
<1>1. MaxDouble \in Nat /\ a \in Nat
  <2>1. MaxDouble \in Nat
    BY NumbersAssumption
  <2>2. a \in Nat
    BY Identifiers
  <2>3. QED
    BY <2>1, <2>2
<1>2. -MaxDouble..MaxDouble \subseteq Doubles
  BY <1>1 DEF Doubles, Infinity
<1>3. k \in Seq(Doubles)
  BY <1>2, SeqMonotonic
<1>4. PICK n \in Nat : n = Len(k)
  BY LenProperties
<1>5. DOMAIN k = 1..n
  BY <1>4, LenProperties
<1>6. PICK z : z = [i \in DOMAIN k |-> Sent(k[i])]
  BY Zenon
<1>7. ASSUME NEW i \in 1..n
      PROVE  z[i] \in -MaxDouble..MaxDouble /\ Sent(z[i]) = z[i]
  <2>1. k[i] \in Doubles
    BY <1>3, <1>4, ElementOfSeq
  <2>2. z[i] = Sent(k[i])
    BY <1>5, <1>6
  <2>3. QED
    BY <2>1, <2>2, SentIsSettled
<1>8. z \in [1..n -> -MaxDouble..MaxDouble] /\ DOMAIN z = 1..n
  BY <1>5, <1>6, <1>7
<1>9. z \in Seq(-MaxDouble..MaxDouble)
  BY <1>8, SeqDef
<1>10. [i \in DOMAIN z |-> Sent(z[i])] = z
  BY <1>7, <1>8
<1>11. ASSUME NEW f PROVE
         Settled(CommandExec(a, f)) = CommandExec(a, [i \in DOMAIN f |-> Sent(f[i])])
  <2>1. PICK m : m = CommandExec(a, f)
    BY Zenon
  <2>2. m = [type |-> "CommandExec", nodeId |-> a, k |-> f]
    BY <2>1 DEF CommandExec
  <2>3. Settled(m) = [m EXCEPT !.k = [i \in DOMAIN m.k |-> Sent(m.k[i])]]
    BY <2>2 DEF Settled
  <2>4. m.k = f
    BY <2>2
  <2>5. Settled(m) = [m EXCEPT !.k = [i \in DOMAIN f |-> Sent(f[i])]]
    BY <2>3, <2>4
  <2>6. PICK g : g = [i \in DOMAIN f |-> Sent(f[i])]
    BY Zenon
  <2>7. [m EXCEPT !.k = g] = [type |-> "CommandExec", nodeId |-> a, k |-> g]
    BY <2>2
  <2>8. QED
    BY <2>1, <2>5, <2>6, <2>7 DEF CommandExec
<1>12. Settled(CommandExec(a, k)) = CommandExec(a, z)
  BY <1>6, <1>11
<1>13. Settled(CommandExec(a, z)) = CommandExec(a, z)
  BY <1>10, <1>11
<1>14. Deserialize(Serialize(CommandExec(a, k))) = CommandExec(a, z)
  BY <1>1, <1>3, <1>6, ExecSurvives
<1>15. /\ CommandExec(a, z).type = "CommandExec"
       /\ CommandExec(a, k).type = "CommandExec"
       /\ CommandExec(a, z) # Invalid
  BY DEF CommandExec, Invalid
<1>16. CommandExec(a, z) \in SentCommands
  BY <1>9 DEF CommandExec, SentCommands
<1>17. QED
  BY <1>6, <1>12, <1>13, <1>14, <1>15, <1>16, Zenon DEF Crosses

LEMMA SumCrosses ==
  ASSUME NEW a \in 0..Max16, NEW d \in Doubles
  PROVE  /\ Crosses(GoodExecResp(a, d))
         /\ Settled(GoodExecResp(a, d)) = GoodExecResp(a, Sent(d))
         /\ Settled(GoodExecResp(a, d)) \in SentAnswers
<1>1. a \in Nat
  BY Identifiers
<1>2. ASSUME NEW x PROVE Settled(GoodExecResp(a, x)) = GoodExecResp(a, Sent(x))
  <2>1. PICK m : m = GoodExecResp(a, x)
    BY Zenon
  <2>2. m = [type |-> "GoodExecResp", id |-> a, sum |-> x]
    BY <2>1 DEF GoodExecResp
  <2>3. m.sum = x /\ m.type = "GoodExecResp"
    BY <2>2
  <2>4. Settled(m) = [m EXCEPT !.sum = Sent(m.sum)]
    BY <2>3 DEF Settled
  <2>5. PICK y : y = Sent(x)
    BY Zenon
  <2>6. [m EXCEPT !.sum = y] = [type |-> "GoodExecResp", id |-> a, sum |-> y]
    BY <2>2
  <2>7. QED
    BY <2>1, <2>3, <2>4, <2>5, <2>6 DEF GoodExecResp
<1>3. PICK s \in Doubles : s = Sent(d) /\ Sent(s) = s
  BY SentIsSettled
<1>4. Settled(GoodExecResp(a, d)) = GoodExecResp(a, s)
  BY <1>2, <1>3
<1>5. Settled(GoodExecResp(a, s)) = GoodExecResp(a, s)
  BY <1>2, <1>3
<1>6. Deserialize(Serialize(GoodExecResp(a, d))) = GoodExecResp(a, s)
  BY <1>1, <1>3, GoodExecRespSurvives
<1>7. /\ GoodExecResp(a, s).type = GoodExecResp(a, d).type
      /\ GoodExecResp(a, s) # Invalid
  BY DEF GoodExecResp, Invalid
<1>8. GoodExecResp(a, s) \in SentAnswers
  BY DEF GoodExecResp, SentAnswers
<1>9. QED
  BY <1>3, <1>4, <1>5, <1>6, <1>7, <1>8, Zenon DEF Crosses

LEMMA CommandsCross ==
  ASSUME NEW m \in SentCommands
  PROVE  Crosses(m) /\ Settled(m) \in SentCommands
<1>1. CASE m \in [type : {"CommandCreate"}, newNodeId : 0..Max16, parentId : 0..Max16]
  <2>1. m = CommandCreate(m.newNodeId, m.parentId)
    BY <1>1 DEF CommandCreate
  <2>2. m.newNodeId \in Nat /\ m.parentId \in Nat
    BY <1>1, Identifiers
  <2>3. Deserialize(Serialize(m)) = m
    BY <2>1, <2>2, CreateSurvives
  <2>4. m.type \notin {"CommandExec", "GoodExecResp", "invalid"}
    BY <1>1
  <2>5. QED
    BY <2>3, <2>4, OrdinaryCrosses
<1>2. CASE m \in [type : {"CommandExec"}, nodeId : 0..Max16,
                  k : Seq(-MaxDouble..MaxDouble)]
  <2>1. m = CommandExec(m.nodeId, m.k)
    BY <1>2 DEF CommandExec
  <2>2. m.nodeId \in 0..Max16 /\ m.k \in Seq(-MaxDouble..MaxDouble)
    BY <1>2
  <2>3. QED
    BY <2>1, <2>2, ExecCrosses
<1>3. CASE m = CommandPrintTree
  <2>1. m.type \notin {"CommandExec", "GoodExecResp", "invalid"}
    BY <1>3 DEF CommandPrintTree
  <2>2. QED
    BY <1>3, <2>1, EmptyClassesSurvive, OrdinaryCrosses
<1>4. QED
  BY <1>1, <1>2, <1>3 DEF SentCommands

LEMMA AnswersCross ==
  ASSUME NEW m \in SentAnswers
  PROVE  Crosses(m) /\ Settled(m) \in SentAnswers
<1> DEFINE strange == {"CommandExec", "GoodExecResp", "invalid"}
<1>1. CASE m \in [type : {"GoodExecResp"}, id : 0..Max16, sum : Doubles]
  <2>1. m = GoodExecResp(m.id, m.sum)
    BY <1>1 DEF GoodExecResp
  <2>2. m.id \in 0..Max16 /\ m.sum \in Doubles
    BY <1>1
  <2>3. QED
    BY <2>1, <2>2, SumCrosses
<1>2. CASE m \in [type : {"BadExecResp"}, id : 0..Max16]
  <2>1. m = BadExecResp(m.id) /\ m.type \notin strange
    BY <1>2 DEF BadExecResp
  <2>2. m.id \in Nat
    BY <1>2, Identifiers
  <2>3. QED
    BY <2>1, <2>2, SingleResponsesSurvive, OrdinaryCrosses
<1>3. CASE m \in [type : {"GoodCreateResp"}, id : 0..Max16, pid : Pids]
  <2>1. m = GoodCreateResp(m.id, m.pid) /\ m.type \notin strange
    BY <1>3 DEF GoodCreateResp
  <2>2. m.id \in Nat /\ m.pid \in Nat
    <3>1. m.id \in Nat
      BY <1>3, Identifiers
    <3>2. m.pid \in Nat
      BY <1>3, TypedLineAssumption
    <3>3. QED
      BY <3>1, <3>2
  <2>3. QED
    BY <2>1, <2>2, PairResponsesSurvive, OrdinaryCrosses
<1>4. CASE m \in [type : {"BadCreateResp"}, newNodeId : 0..Max16, parentId : 0..Max16]
  <2>1. m = BadCreateResp(m.newNodeId, m.parentId) /\ m.type \notin strange
    BY <1>4 DEF BadCreateResp
  <2>2. m.newNodeId \in Nat /\ m.parentId \in Nat
    BY <1>4, Identifiers
  <2>3. QED
    BY <2>1, <2>2, PairResponsesSurvive, OrdinaryCrosses
<1>5. CASE m \in [type : {"NodeExistResponse"}, id : 0..Max16]
  <2>1. m = NodeExistResponse(m.id) /\ m.type \notin strange
    BY <1>5 DEF NodeExistResponse
  <2>2. m.id \in Nat
    BY <1>5, Identifiers
  <2>3. QED
    BY <2>1, <2>2, SingleResponsesSurvive, OrdinaryCrosses
<1>6. QED
  BY <1>1, <1>2, <1>3, <1>4, <1>5 DEF SentAnswers

LEMMA OthersCross ==
  ASSUME NEW m \in Others
  PROVE  /\ Crosses(m) /\ Settled(m) = m
         /\ m.type \notin {"CommandExec", "CommandCreate", "GoodExecResp", "none"}
<1> DEFINE strange == {"CommandExec", "CommandCreate", "GoodExecResp", "none", "invalid"}
<1>1. CASE m \in {AuthorizationAccepted, KillSignal}
  <2>1. m.type \notin strange
    BY <1>1 DEF AuthorizationAccepted, KillSignal
  <2>2. Deserialize(Serialize(m)) = m
    BY <1>1, EmptyClassesSurvive
  <2>3. QED
    BY <2>1, <2>2, OrdinaryCrosses
<1>2. CASE m \in [type : {"AuthorizationWithName"}, endpoint : STRING, name : STRING]
  <2>1. m = AuthorizationWithName(m.endpoint, m.name) /\ m.type \notin strange
    BY <1>2 DEF AuthorizationWithName
  <2>2. m \in Authorizations
    BY <1>2 DEF Authorizations
  <2>3. m.endpoint \in Names /\ m.name \in Names
    BY <2>2 DEF Names
  <2>4. Deserialize(Serialize(m)) = m
    BY <2>1, <2>3, AuthorizationSurvives
  <2>5. QED
    BY <2>1, <2>4, OrdinaryCrosses
<1>3. CASE m \in [type : {"NodeIsDeadResponse"}, id : Nat]
  <2>1. m = NodeIsDeadResponse(m.id) /\ m.type \notin strange
    BY <1>3 DEF NodeIsDeadResponse
  <2>2. m.id \in Nat
    BY <1>3
  <2>3. QED
    BY <2>1, <2>2, SingleResponsesSurvive, OrdinaryCrosses
<1>4. CASE m \in [type : {"Heartbeat"}, nodeId : Nat, lastHeartbeatTime : Nat]
  <2>1. m = Heartbeat(m.nodeId, m.lastHeartbeatTime) /\ m.type \notin strange
    BY <1>4 DEF Heartbeat
  <2>2. m.nodeId \in Nat /\ m.lastHeartbeatTime \in Nat
    BY <1>4
  <2>3. QED
    BY <2>1, <2>2, PairResponsesSurvive, OrdinaryCrosses
<1>5. QED
  BY <1>1, <1>2, <1>3, <1>4, TypedLineAssumption

\* Whatever travels crosses a connection as it is, or as what it settles to.
LEMMA TravellersCross ==
  ASSUME NEW m \in Travelling
  PROVE  Crosses(m) /\ Settled(m) \in Travelling
BY CommandsCross, AnswersCross, OthersCross, Zenon DEF Travelling

-----------------------------------------------------------------------------
(***************************************************************************)
(* What the parser makes of a line.                                        *)
(***************************************************************************)
\* The lexemes of a line, the words of the commands among them.
LineParts ==
  LineLexemes
    \cup {Word("create"), Word("exec"), Word("print"), Word("tree"), Word("pass")}

LEMMA NumbersOfALine ==
  ASSUME NEW x \in LineParts, IsNumber(x)
  PROVE  /\ x = Number(x.negative, x.whole, x.fraction)
         /\ x.negative \in BOOLEAN /\ x.whole \in Nat \cup {Missing}
         /\ x.fraction \in Missing..(One - 1)
         /\ x.whole = Missing => x.fraction # Missing
BY NumbersAssumption DEF LineParts, LineLexemes, IsNumber, Number, Missing, Word

\* A line and what follows its first lexeme.
LEMMA TailOfLine ==
  ASSUME NEW S, NEW l \in Seq(S), l # <<>>
  PROVE  /\ Tail(l) \in Seq(S) /\ Len(l) \in Nat \ {0}
         /\ Len(Tail(l)) = Len(l) - 1
         /\ Head(l) = l[1] /\ l[1] \in S
         /\ \A i \in 1..(Len(l) - 1) : Tail(l)[i] = l[i + 1]
<1>1. Len(l) \in Nat \ {0}
  BY EmptySeq
<1>2. Tail(l) \in Seq(S) /\ Len(Tail(l)) = Len(l) - 1
  BY HeadTailProperties
<1>3. Head(l) = l[1]
  OBVIOUS
<1>4. \A i \in 1..Len(Tail(l)) : Tail(l)[i] = l[i + 1]
  BY HeadTailProperties
<1>5. l[1] \in S
  BY <1>1, ElementOfSeq
<1>6. QED
  BY <1>1, <1>2, <1>3, <1>4, <1>5

LEMMA ReadUnsignedGives ==
  ASSUME NEW l \in Seq(LineParts), NEW max \in Nat, ReadUnsigned(l, max).ok
  PROVE  /\ l # <<>> /\ IsNumber(Head(l))
         /\ ReadUnsigned(l, max).value \in 0..max
         /\ ReadUnsigned(l, max).rest \in Seq(LineParts)
         /\ ~Head(l).negative /\ Head(l).fraction = Missing =>
              /\ Head(l) = Numeral(ReadUnsigned(l, max).value)
              /\ ReadUnsigned(l, max).rest = Tail(l)
<1>1. /\ l # <<>> /\ IsNumber(Head(l)) /\ Head(l).whole \in 0..max
      /\ ReadUnsigned(l, max) =
           [ok |-> TRUE,
            value |-> IF Head(l).negative
                      THEN (max + 1 - Head(l).whole) % (max + 1)
                      ELSE Head(l).whole,
            rest |-> IF Head(l).fraction = Missing THEN Tail(l)
                     ELSE <<Number(FALSE, Missing, Head(l).fraction)>> \o Tail(l)]
  BY DEF ReadUnsigned, Failed
<1>2. PICK x \in LineParts : x = Head(l)
  BY <1>1, TailOfLine
<1>3. /\ x = Number(x.negative, x.whole, x.fraction)
      /\ x.negative \in BOOLEAN
  BY <1>1, <1>2, NumbersOfALine
<1>4. ReadUnsigned(l, max).value \in 0..max
  <2>1. PICK m \in Nat \ {0} : m = max + 1
    OBVIOUS
  <2>2. PICK z \in Int : z = max + 1 - x.whole
    BY <1>1, <1>2
  <2>3. z % m \in 0..(m - 1)
    OBVIOUS
  <2>4. QED
    BY <1>1, <1>2, <2>1, <2>2, <2>3
<1>5. ASSUME ~x.negative, x.fraction = Missing
      PROVE  /\ x = Numeral(ReadUnsigned(l, max).value)
             /\ ReadUnsigned(l, max).rest = Tail(l)
  <2>1. x.negative = FALSE
    BY <1>3, <1>5
  <2>2. ReadUnsigned(l, max).value = x.whole /\ ReadUnsigned(l, max).rest = Tail(l)
    BY <1>1, <1>2, <1>5
  <2>3. QED
    BY <1>3, <1>5, <2>1, <2>2, Zenon DEF Numeral
<1>6. ReadUnsigned(l, max).rest \in Seq(LineParts)
  <2>1. Tail(l) \in Seq(LineParts)
    BY <1>1, TailOfLine
  <2>2. CASE x.fraction = Missing
    BY <1>1, <1>2, <2>1, <2>2
  <2>3. CASE x.fraction # Missing
    <3>1. PICK y : y = Number(FALSE, Missing, x.fraction)
      BY Zenon
    <3>2. x.fraction \in Missing..(One - 1)
      BY <1>1, <1>2, NumbersOfALine
    <3>3. x.fraction \in 0..(One - 1)
      BY <2>3, <3>2 DEF Missing
    <3>4. y \in LineParts
      BY <3>1, <3>3 DEF LineParts, LineLexemes, Number
    <3>5. <<y>> \o Tail(l) \in Seq(LineParts)
      BY <2>1, <3>4
    <3>6. ReadUnsigned(l, max).rest =
            IF Head(l).fraction = Missing THEN Tail(l)
            ELSE <<Number(FALSE, Missing, Head(l).fraction)>> \o Tail(l)
      BY <1>1
    <3>7. QED
      BY <1>2, <2>3, <3>1, <3>5, <3>6, Zenon
  <2>4. QED
    BY <2>2, <2>3
<1>7. QED
  BY <1>1, <1>2, <1>4, <1>5, <1>6

LEMMA NumeralIsRead ==
  ASSUME NEW l \in Seq(LineParts), NEW max \in Nat, NEW n \in 0..max,
         l # <<>>, Head(l) = Numeral(n)
  PROVE  /\ ReadUnsigned(l, max).ok
         /\ ReadUnsigned(l, max).value = n
         /\ ReadUnsigned(l, max).rest = Tail(l)
<1>1. PICK x : x = Head(l)
  BY Zenon
<1>2. x = [negative |-> FALSE, whole |-> n, fraction |-> Missing]
  BY <1>1 DEF Numeral, Number
<1>3. IsNumber(x) /\ x.whole = n /\ x.negative = FALSE /\ x.fraction = Missing
  BY <1>2 DEF IsNumber
<1>4. ReadUnsigned(l, max) = [ok |-> TRUE, value |-> n, rest |-> Tail(l)]
  BY <1>1, <1>3 DEF ReadUnsigned
<1>5. QED
  BY <1>4

\* What is left of a line after its first three lexemes.
LEMMA AfterThree ==
  ASSUME NEW l \in Seq(LineParts), 3 <= Len(l)
  PROVE  /\ Tail(Tail(Tail(l))) \in Seq(LineParts)
         /\ Len(Tail(Tail(Tail(l)))) = Len(l) - 3
         /\ \A i \in 1..(Len(l) - 3) : Tail(Tail(Tail(l)))[i] = l[i + 3]
         /\ l # <<>> /\ Tail(l) # <<>> /\ Tail(Tail(l)) # <<>>
         /\ Head(l) = l[1] /\ Head(Tail(l)) = l[2] /\ Head(Tail(Tail(l))) = l[3]
<1>1. PICK n \in Nat : n = Len(l) /\ n >= 3
  BY LenProperties
<1>2. l # <<>>
  BY <1>1, EmptySeq
<1>3. PICK b : b = Tail(l)
  BY Zenon
<1>4. /\ b \in Seq(LineParts) /\ Len(b) = n - 1
      /\ Head(l) = l[1]
      /\ \A i \in 1..(n - 1) : b[i] = l[i + 1]
  BY <1>1, <1>2, <1>3, TailOfLine, Zenon
<1>5. b # <<>>
  BY <1>1, <1>4, EmptySeq
<1>6. PICK c : c = Tail(b)
  BY Zenon
<1>7. /\ c \in Seq(LineParts) /\ Len(c) = Len(b) - 1
      /\ Head(b) = b[1]
      /\ \A i \in 1..(Len(b) - 1) : c[i] = b[i + 1]
  BY <1>4, <1>5, <1>6, TailOfLine, Zenon
<1>8. /\ Len(c) = n - 2 /\ Head(b) = l[2]
      /\ \A i \in 1..(n - 2) : c[i] = l[i + 2]
  BY <1>1, <1>4, <1>7
<1>9. c # <<>>
  BY <1>1, <1>8, EmptySeq
<1>10. PICK d : d = Tail(c)
  BY Zenon
<1>11. /\ d \in Seq(LineParts) /\ Len(d) = Len(c) - 1
       /\ Head(c) = c[1]
       /\ \A i \in 1..(Len(c) - 1) : d[i] = c[i + 1]
  BY <1>7, <1>9, <1>10, TailOfLine, Zenon
<1>12. /\ Len(d) = n - 3 /\ Head(c) = l[3]
       /\ \A i \in 1..(n - 3) : d[i] = l[i + 3]
  BY <1>1, <1>8, <1>11
<1>13. QED
  BY <1>1, <1>2, <1>3, <1>4, <1>5, <1>6, <1>8, <1>9, <1>10, <1>11, <1>12

\* Two unsigned numbers after the word of a command.
PlainNumbers(l, a, c, r) ==
  /\ 3 <= Len(l) /\ l[2] = Numeral(a) /\ l[3] = Numeral(c)
  /\ r = Tail(Tail(Tail(l)))

LEMMA TwoNumbersAreRead ==
  ASSUME NEW l \in Seq(LineParts), l # <<>>,
         NEW max \in Nat, NEW most \in Nat,
         NEW first, first = ReadUnsigned(Tail(l), max), first.ok,
         NEW second, second = ReadUnsigned(first.rest, most), second.ok
  PROVE  /\ first.value \in 0..max /\ second.value \in 0..most
         /\ second.rest \in Seq(LineParts)
         /\ Sloppy(l) \/ PlainNumbers(l, first.value, second.value, second.rest)
<1>1. PICK b : b = Tail(l)
  BY Zenon
<1>2. PICK n \in Nat : n = Len(l)
  BY LenProperties
<1>3. /\ b \in Seq(LineParts) /\ Len(b) = n - 1
      /\ \A i \in 1..(n - 1) : b[i] = l[i + 1]
  BY <1>1, <1>2, TailOfLine
<1>4. first = ReadUnsigned(b, max)
  BY <1>1
<1>5. /\ b # <<>> /\ IsNumber(Head(b))
      /\ first.value \in 0..max /\ first.rest \in Seq(LineParts)
      /\ ~Head(b).negative /\ Head(b).fraction = Missing =>
           Head(b) = Numeral(first.value) /\ first.rest = Tail(b)
  BY <1>3, <1>4, ReadUnsignedGives, Zenon
<1>6. Len(b) \in Nat \ {0} /\ Head(b) = b[1]
  BY <1>3, <1>5, EmptySeq
<1>7. n >= 2 /\ Head(b) = l[2]
  BY <1>2, <1>3, <1>6
<1>8. PICK r : r = first.rest
  BY Zenon
<1>9. second = ReadUnsigned(r, most) /\ r \in Seq(LineParts)
  BY <1>5, <1>8
<1>10. /\ r # <<>> /\ IsNumber(Head(r))
       /\ second.value \in 0..most /\ second.rest \in Seq(LineParts)
       /\ ~Head(r).negative /\ Head(r).fraction = Missing =>
            Head(r) = Numeral(second.value) /\ second.rest = Tail(r)
  BY <1>9, ReadUnsignedGives, Zenon
<1>11. DOMAIN l = 1..n
  BY <1>2, LenProperties
<1>12. CASE Head(b).negative \/ Head(b).fraction # Missing
  <2>1. 2 \in {2, 3} \cap DOMAIN l
    BY <1>2, <1>7, <1>11
  <2>2. Sloppy(l)
    BY <1>5, <1>7, <1>12, <2>1, Zenon DEF Sloppy
  <2>3. QED
    BY <1>5, <1>10, <2>2
<1>13. CASE ~Head(b).negative /\ Head(b).fraction = Missing
  <2>1. r = Tail(b) /\ l[2] = Numeral(first.value)
    BY <1>5, <1>7, <1>8, <1>13
  <2>2. Len(r) = Len(b) - 1 /\ \A i \in 1..(Len(b) - 1) : r[i] = b[i + 1]
    BY <1>3, <1>5, <2>1, TailOfLine
  <2>3. Len(r) \in Nat \ {0} /\ Head(r) = r[1]
    BY <1>9, <1>10, EmptySeq
  <2>4. n >= 3 /\ Head(r) = l[3]
    BY <1>2, <1>3, <2>2, <2>3
  <2>5. CASE Head(r).negative \/ Head(r).fraction # Missing
    <3>1. 3 \in {2, 3} \cap DOMAIN l
      BY <1>2, <1>11, <2>4
    <3>2. Sloppy(l)
      BY <1>10, <2>4, <2>5, <3>1, Zenon DEF Sloppy
    <3>3. QED
      BY <1>5, <1>10, <3>2
  <2>6. CASE ~Head(r).negative /\ Head(r).fraction = Missing
    BY <1>1, <1>2, <1>5, <1>10, <2>1, <2>4, <2>6 DEF PlainNumbers
  <2>7. QED
    BY <2>5, <2>6
<1>14. QED
  BY <1>12, <1>13

LEMMA TwoNumeralsAreRead ==
  ASSUME NEW l \in Seq(LineParts), NEW max \in Nat, NEW most \in Nat,
         NEW a \in 0..max, NEW c \in 0..most, NEW e, PlainNumbers(l, a, c, e),
         NEW first, first = ReadUnsigned(Tail(l), max),
         NEW second, second = ReadUnsigned(first.rest, most)
  PROVE  /\ first.ok /\ first.value = a /\ second.ok /\ second.value = c
         /\ second.rest = e
<1>0. /\ 3 <= Len(l) /\ l[2] = Numeral(a) /\ l[3] = Numeral(c)
      /\ e = Tail(Tail(Tail(l)))
  BY Zenon DEF PlainNumbers
<1>1. PICK b : b = Tail(l)
  BY Zenon
<1>2. b \in Seq(LineParts) /\ b # <<>> /\ Head(b) = Numeral(a)
  <2>1. l # <<>>
    BY <1>0, AfterThree
  <2>2. QED
    BY <1>0, <1>1, <2>1, AfterThree, TailOfLine
<1>3. first.ok /\ first.value = a /\ first.rest = Tail(b)
  <2>1. first = ReadUnsigned(b, max)
    BY <1>1
  <2>2. QED
    BY <1>2, <2>1, NumeralIsRead, Zenon
<1>4. PICK r : r = Tail(b)
  BY Zenon
<1>5. r \in Seq(LineParts) /\ r # <<>> /\ Head(r) = Numeral(c)
  BY <1>1, <1>2, <1>4, <1>0, AfterThree, TailOfLine
<1>6. second = ReadUnsigned(r, most)
  BY <1>3, <1>4
<1>7. second.ok /\ second.value = c /\ second.rest = Tail(r)
  BY <1>5, <1>6, NumeralIsRead, Zenon
<1>8. QED
  BY <1>0, <1>1, <1>3, <1>4, <1>7

\* The notation of a number that is added up.
LEMMA RealIsItsValue ==
  ASSUME NEW v \in -MaxDouble..MaxDouble
  PROVE  /\ Real(v) \in LineParts /\ IsNumber(Real(v)) /\ ValueOf(Real(v)) = v
<1>1. One \in Nat \ {0} /\ MaxDouble \in Nat /\ v \in Int
  BY NumbersAssumption
<1>2. PICK z \in Nat : z = (IF v < 0 THEN -v ELSE v)
  BY <1>1
<1>3. PICK q : q = z \div One
  BY Zenon
<1>4. PICK r : r = z % One
  BY Zenon
<1>5. q \in Nat /\ r \in 0..(One - 1) /\ z = q * One + r
  BY <1>1, <1>2, <1>3, <1>4
<1>6. PICK b \in BOOLEAN : Real(v) = Number(b, q, r) /\ b = (v < 0)
  <2>1. CASE v < 0
    <3>1. z = -v
      BY <1>1, <1>2, <2>1
    <3>2. (v < 0) = TRUE
      BY <2>1, Zenon
    <3>3. Real(v) = Number(v < 0, (-v) \div One, (-v) % One)
      BY <2>1, Zenon DEF Real
    <3>4. Real(v) = Number(TRUE, q, r)
      BY <1>3, <1>4, <3>1, <3>2, <3>3, Zenon
    <3>5. QED
      BY <3>2, <3>4, Zenon
  <2>2. CASE ~(v < 0)
    <3>1. z = v
      BY <1>1, <1>2, <2>2
    <3>2. (v < 0) = FALSE
      BY <2>2
    <3>3. Real(v) = Number(v < 0, v \div One, v % One)
      BY <2>2, Zenon DEF Real
    <3>4. Real(v) = Number(FALSE, q, r)
      BY <1>3, <1>4, <3>1, <3>2, <3>3, Zenon
    <3>5. QED
      BY <3>2, <3>4, Zenon
  <2>3. QED
    BY <2>1, <2>2, Zenon
<1>7. b <=> v < 0
  BY <1>6, Zenon
<1>8. PICK x : x = [negative |-> b, whole |-> q, fraction |-> r]
  BY Zenon
<1>9. Real(v) = x
  BY <1>6, <1>8, Zenon DEF Number
<1>10. x \in LineParts /\ IsNumber(x)
  <2>1. r \in Missing..(One - 1)
    BY <1>1, <1>5 DEF Missing
  <2>2. QED
    BY <1>5, <1>8, <2>1 DEF LineParts, LineLexemes, IsNumber
<1>11. Part(x.whole) = q /\ Part(x.fraction) = r
  BY <1>5, <1>8 DEF Part, Missing
<1>12. ValueOf(x) = IF b THEN -(q * One + r) ELSE q * One + r
  <2>1. x.negative = b
    BY <1>8
  <2>2. QED
    BY <1>11, <2>1, Zenon DEF ValueOf
<1>13. ValueOf(x) = v
  <2>1. CASE b
    <3>1. ValueOf(x) = -(q * One + r)
      BY <1>12, <2>1, Zenon
    <3>2. ValueOf(x) = -z
      BY <1>5, <3>1, Zenon
    <3>3. QED
      BY <1>1, <1>2, <1>7, <2>1, <3>2
  <2>2. CASE ~b
    <3>1. ValueOf(x) = q * One + r
      BY <1>12, <2>2, Zenon
    <3>2. ValueOf(x) = z
      BY <1>5, <3>1, Zenon
    <3>3. QED
      BY <1>1, <1>2, <1>7, <2>2, <3>2
  <2>3. QED
    BY <2>1, <2>2
<1>14. QED
  BY <1>9, <1>10, <1>13

LEMMA NumeralIsItsValue ==
  ASSUME NEW n \in Nat
  PROVE  /\ Numeral(n) \in LineParts /\ IsNumber(Numeral(n))
         /\ ValueOf(Numeral(n)) = n * One
<1>1. One \in Nat \ {0}
  BY NumbersAssumption
<1>2. PICK x : x = Numeral(n)
  BY Zenon
<1>3. x = [negative |-> FALSE, whole |-> n, fraction |-> Missing]
  BY <1>2 DEF Numeral, Number
<1>4. Missing \in Missing..(One - 1)
  BY <1>1 DEF Missing
<1>5. x \in LineParts /\ IsNumber(x)
  BY <1>3, <1>4 DEF LineParts, LineLexemes, IsNumber
<1>6. Part(x.whole) = n /\ Part(x.fraction) = 0 /\ x.negative = FALSE
  BY <1>3 DEF Part, Missing
<1>7. ValueOf(x) = n * One + 0
  BY <1>6, Zenon DEF ValueOf
<1>8. QED
  BY <1>1, <1>2, <1>5, <1>7

\* The documented form of each command.
LEMMA WrittenCreate ==
  ASSUME NEW a \in 0..Max16, NEW c \in 0..Max16
  PROVE  /\ Written(CommandCreate(a, c)) \in Seq(LineParts)
         /\ Len(Written(CommandCreate(a, c))) = 3
         /\ Written(CommandCreate(a, c))[1] = Word("create")
         /\ Written(CommandCreate(a, c))[2] = Numeral(a)
         /\ Written(CommandCreate(a, c))[3] = Numeral(c)
<1>1. PICK w : w = Word("create")
  BY Zenon
<1>2. PICK x : x = Numeral(a)
  BY Zenon
<1>3. PICK y : y = Numeral(c)
  BY Zenon
<1>4. x \in LineParts /\ y \in LineParts
  BY <1>2, <1>3, Identifiers, NumeralIsItsValue
<1>5. w \in LineParts
  BY <1>1 DEF LineParts
<1>6. PICK m : m = CommandCreate(a, c)
  BY Zenon
<1>7. m.type = "CommandCreate" /\ m.newNodeId = a /\ m.parentId = c
  BY <1>6 DEF CommandCreate
<1>8. Written(m) = <<w, x, y>>
  BY <1>1, <1>2, <1>3, <1>7 DEF Written
<1>9. QED
  BY <1>1, <1>2, <1>3, <1>4, <1>5, <1>6, <1>8

LEMMA WrittenExec ==
  ASSUME NEW a \in 0..Max16, NEW k \in Seq(-MaxDouble..MaxDouble)
  PROVE  /\ Written(CommandExec(a, k)) \in Seq(LineParts)
         /\ Len(Written(CommandExec(a, k))) = Len(k) + 3
         /\ Written(CommandExec(a, k))[1] = Word("exec")
         /\ Written(CommandExec(a, k))[2] = Numeral(a)
         /\ Written(CommandExec(a, k))[3] = Numeral(Len(k))
         /\ \A i \in 1..Len(k) : Written(CommandExec(a, k))[i + 3] = Real(k[i])
<1>1. PICK w : w = Word("exec")
  BY Zenon
<1>2. PICK x : x = Numeral(a)
  BY Zenon
<1>3. PICK n \in Nat : n = Len(k)
  BY LenProperties
<1>4. PICK y : y = Numeral(n)
  BY Zenon
<1>5. x \in LineParts /\ y \in LineParts
  BY <1>2, <1>4, Identifiers, NumeralIsItsValue
<1>6. w \in LineParts
  BY <1>1 DEF LineParts
<1>7. PICK m : m = CommandExec(a, k)
  BY Zenon
<1>8. m.type = "CommandExec" /\ m.nodeId = a /\ m.k = k
  BY <1>7 DEF CommandExec
<1>9. PICK s : s = [i \in DOMAIN k |-> Real(k[i])]
  BY Zenon
<1>10. PICK h : h = <<w, x, y>>
  BY Zenon
<1>11. Written(m) = h \o s
  BY <1>1, <1>2, <1>3, <1>4, <1>8, <1>9, <1>10 DEF Written
<1>12. DOMAIN k = 1..n
  BY <1>3, LenProperties
<1>13. \A i \in 1..n : Real(k[i]) \in LineParts
  <2>1. SUFFICES ASSUME NEW i \in 1..n PROVE Real(k[i]) \in LineParts
    OBVIOUS
  <2>2. k[i] \in -MaxDouble..MaxDouble
    BY <1>3, ElementOfSeq
  <2>3. QED
    BY <2>2, RealIsItsValue
<1>14. s \in [1..n -> LineParts] /\ \A i \in 1..n : s[i] = Real(k[i])
  BY <1>9, <1>12, <1>13
<1>15. s \in Seq(LineParts) /\ Len(s) = n
  BY <1>14, SeqDef
<1>16. h \in Seq(LineParts) /\ Len(h) = 3 /\ h[1] = w /\ h[2] = x /\ h[3] = y
  BY <1>5, <1>6, <1>10
<1>17. /\ h \o s \in Seq(LineParts)
       /\ Len(h \o s) = Len(h) + Len(s)
       /\ \A i \in 1..(Len(h) + Len(s)) :
            (h \o s)[i] = IF i <= Len(h) THEN h[i] ELSE s[i - Len(h)]
  BY <1>15, <1>16, ConcatProperties, Zenon
<1>18. PICK f : f = h \o s
  BY Zenon
<1>19. /\ f \in Seq(LineParts) /\ Len(f) = n + 3
       /\ \A i \in 1..(n + 3) : f[i] = IF i <= 3 THEN h[i] ELSE s[i - 3]
  BY <1>15, <1>16, <1>17, <1>18
<1>20. f[1] = w /\ f[2] = x /\ f[3] = y /\ \A i \in 1..n : f[i + 3] = s[i]
  BY <1>16, <1>19
<1>21. QED
  BY <1>1, <1>2, <1>3, <1>4, <1>7, <1>11, <1>14, <1>18, <1>19, <1>20

\* A form without numbers that are added up.
LEMMA ShortForm ==
  ASSUME NEW l \in Seq(LineParts), NEW cmd, NEW n \in 0..3,
         n = Len(l), n = Len(Written(cmd)), \A i \in 1..n : l[i] = Written(cmd)[i]
  PROVE  IsFormOf(l, cmd)
<1>1. DOMAIN l = 1..n
  BY LenProperties
<1>2. \A i \in 1..n : ~(i > 3)
  OBVIOUS
<1>3. QED
  BY <1>1, <1>2, Zenon DEF IsFormOf

\* What a line may be taken for.
TakenFor(l, cmd) ==
  \/ IsFormOf(l, cmd) \/ Sloppy(l)
  \/ cmd = CommandPrintTree /\ l = <<Word("print")>>
  \/ cmd.type = "CommandPass" /\ l = Written(CommandPass(cmd.time + 1))

\* The attempts that fit give what the line is the documented form of.
LEMMA CreateIsUnderstood ==
  ASSUME NEW l \in Seq(LineParts), tryParseCreate(l) # Refused
  PROVE  /\ tryParseCreate(l) \in ParsedCommands
         /\ IsFormOf(l, tryParseCreate(l)) \/ Sloppy(l)
<1>1. PICK first : first = ReadUnsigned(Tail(l), Max16)
  BY Zenon
<1>2. PICK second : second = ReadUnsigned(first.rest, Max16)
  BY Zenon
<1>3. /\ tryParseCreate(l) = CommandCreate(first.value, second.value)
      /\ l # <<>> /\ Head(l) = Word("create")
      /\ first.ok /\ second.ok /\ second.rest = <<>>
  BY <1>1, <1>2, Zenon DEF tryParseCreate, check_command
<1>4. Max16 \in Nat
  BY DEF Max16
<1>5. /\ first.value \in 0..Max16 /\ second.value \in 0..Max16
      /\ second.rest \in Seq(LineParts)
      /\ Sloppy(l) \/ PlainNumbers(l, first.value, second.value, second.rest)
  BY <1>1, <1>2, <1>3, <1>4, TwoNumbersAreRead, Zenon
<1>6. tryParseCreate(l) \in ParsedCommands
  BY <1>3, <1>5 DEF CommandCreate, ParsedCommands
<1>7. ASSUME ~Sloppy(l) PROVE IsFormOf(l, tryParseCreate(l))
  <2>1. PICK n \in Nat : n = Len(l)
    BY LenProperties
  <2>2. /\ n >= 3 /\ second.rest = Tail(Tail(Tail(l)))
        /\ l[2] = Numeral(first.value) /\ l[3] = Numeral(second.value)
    BY <1>5, <1>7, <2>1 DEF PlainNumbers
  <2>3. Len(Tail(Tail(Tail(l)))) = n - 3 /\ Head(l) = l[1]
    BY <2>1, <2>2, AfterThree
  <2>4. n = 3
    <3>1. PICK d : d = Tail(Tail(Tail(l)))
      BY Zenon
    <3>2. Len(d) = n - 3 /\ d = <<>> /\ d \in Seq(LineParts)
      BY <1>3, <1>5, <2>2, <2>3, <3>1
    <3>3. Len(d) = 0
      BY <3>2, EmptySeq, Zenon
    <3>4. QED
      BY <3>2, <3>3
  <2>5. PICK form : form = Written(tryParseCreate(l))
    BY Zenon
  <2>6. /\ Len(form) = 3 /\ form[1] = Word("create")
        /\ form[2] = Numeral(first.value) /\ form[3] = Numeral(second.value)
    BY <1>3, <1>5, <2>5, WrittenCreate
  <2>7. \A i \in 1..3 : l[i] = form[i]
    <3>1. l[1] = form[1]
      BY <1>3, <2>3, <2>6
    <3>2. l[2] = form[2] /\ l[3] = form[3]
      BY <2>2, <2>6
    <3>3. QED
      BY <3>1, <3>2
  <2>8. 3 \in 0..3
    OBVIOUS
  <2>9. QED
    BY <2>1, <2>4, <2>5, <2>6, <2>7, <2>8, ShortForm, Zenon
<1>8. QED
  BY <1>6, <1>7

\* A vector is read to the end of the line.
LEMMA VectorIsRead ==
  ASSUME NEW r \in Seq(LineParts), NEW n \in Nat,
         ReadVector(r, n).ok, ReadVector(r, n).rest = <<>>
  PROVE  /\ Len(r) = n
         /\ ReadVector(r, n).value \in Seq(-MaxDouble..MaxDouble)
         /\ Len(ReadVector(r, n).value) = n
         /\ \A i \in 1..n : /\ IsNumber(r[i])
                            /\ ReadVector(r, n).value[i] = ReadAs(r[i])
<1>1. /\ ~(n > Len(r) \/ \E i \in 1..n : ~IsDouble(r[i]))
      /\ ReadVector(r, n) =
           [ok |-> TRUE, value |-> [i \in 1..n |-> ReadAs(r[i])],
            rest |-> SubSeq(r, n + 1, Len(r))]
  <2>1. ~Failed.ok
    BY DEF Failed
  <2>2. QED
    BY <2>1, Zenon DEF ReadVector
<1>2. PICK g : g = [i \in 1..n |-> ReadAs(r[i])]
  BY Zenon
<1>3. PICK m \in Nat : m = Len(r)
  BY LenProperties
<1>4. n <= m /\ \A i \in 1..n : IsDouble(r[i])
  BY <1>1, <1>3
<1>5. ReadVector(r, n).value = g /\ SubSeq(r, n + 1, m) = <<>>
  BY <1>1, <1>2, <1>3
<1>6. m = n
  <2>1. \A i \in 1..m : r[i] \in LineParts
    BY <1>3, ElementOfSeq
  <2>2. n + 1 \in 1..(m + 1)
    BY <1>3, <1>4
  <2>3. Len(SubSeq(r, n + 1, m)) = m - n
    BY <1>3, <1>4
  <2>4. PICK d : d = SubSeq(r, n + 1, m)
    BY Zenon
  <2>5. d = <<>> /\ Len(d) = m - n
    BY <1>5, <2>3, <2>4
  <2>6. QED
    BY <1>3, <2>5
<1>7. \A i \in 1..n : IsNumber(r[i]) /\ ReadAs(r[i]) \in -MaxDouble..MaxDouble
  BY <1>4 DEF IsDouble
<1>8. g \in [1..n -> -MaxDouble..MaxDouble] /\ \A i \in 1..n : g[i] = ReadAs(r[i])
  BY <1>2, <1>7
<1>9. g \in Seq(-MaxDouble..MaxDouble) /\ Len(g) = n
  <2>1. PICK S : S = -MaxDouble..MaxDouble
    BY Zenon
  <2>2. g \in [1..n -> S]
    BY <1>8, <2>1
  <2>3. g \in Seq(S) /\ Len(g) = n
    BY <2>2, SeqDef
  <2>4. QED
    BY <2>1, <2>3
<1>10. QED
  BY <1>3, <1>5, <1>6, <1>7, <1>8, <1>9, Zenon

LEMMA ExecIsUnderstood ==
  ASSUME NEW l \in Seq(LineParts), tryParseExec(l) # Refused
  PROVE  /\ tryParseExec(l) \in ParsedCommands
         /\ IsFormOf(l, tryParseExec(l)) \/ Sloppy(l)
<1>1. PICK first : first = ReadUnsigned(Tail(l), Max16)
  BY Zenon
<1>2. PICK second : second = ReadUnsigned(first.rest, MaxSize)
  BY Zenon
<1>3. PICK k : k = ReadVector(second.rest, second.value)
  BY Zenon
<1>4. /\ tryParseExec(l) = CommandExec(first.value, k.value)
      /\ l # <<>> /\ Head(l) = Word("exec")
      /\ first.ok /\ second.ok /\ k.ok /\ k.rest = <<>>
  BY <1>1, <1>2, <1>3, Zenon DEF tryParseExec, check_command
<1>5. Max16 \in Nat /\ MaxSize \in Nat
  BY DEF Max16, MaxSize
<1>6. /\ first.value \in 0..Max16 /\ second.value \in 0..MaxSize
      /\ second.rest \in Seq(LineParts)
      /\ Sloppy(l) \/ PlainNumbers(l, first.value, second.value, second.rest)
  BY <1>1, <1>2, <1>4, <1>5, TwoNumbersAreRead, Zenon
<1>7. PICK m \in Nat : m = second.value
  BY <1>5, <1>6
<1>8. PICK r \in Seq(LineParts) : r = second.rest
  BY <1>6
<1>9. PICK v : v = k.value
  BY Zenon
<1>10. /\ Len(r) = m /\ v \in Seq(-MaxDouble..MaxDouble) /\ Len(v) = m
       /\ \A i \in 1..m : IsNumber(r[i]) /\ v[i] = ReadAs(r[i])
  <2>1. k = ReadVector(r, m)
    BY <1>3, <1>7, <1>8
  <2>2. ReadVector(r, m).ok /\ ReadVector(r, m).rest = <<>>
    BY <1>4, <2>1
  <2>3. v = ReadVector(r, m).value
    BY <1>9, <2>1
  <2>4. QED
    BY <2>2, <2>3, VectorIsRead, Zenon
<1>11. tryParseExec(l) \in ParsedCommands
  BY <1>4, <1>6, <1>9, <1>10 DEF CommandExec, ParsedCommands
<1>12. ASSUME ~Sloppy(l) PROVE IsFormOf(l, tryParseExec(l))
  <2>1. PICK n \in Nat : n = Len(l)
    BY LenProperties
  <2>2. /\ n >= 3 /\ second.rest = Tail(Tail(Tail(l)))
        /\ l[2] = Numeral(first.value) /\ l[3] = Numeral(second.value)
    BY <1>6, <1>12, <2>1 DEF PlainNumbers
  <2>3. /\ Len(r) = n - 3 /\ Head(l) = l[1]
        /\ \A i \in 1..(n - 3) : r[i] = l[i + 3]
    BY <1>8, <2>1, <2>2, AfterThree
  <2>4. n = m + 3
    BY <1>10, <2>3
  <2>5. PICK form : form = Written(tryParseExec(l))
    BY Zenon
  <2>6. /\ Len(form) = m + 3 /\ form[1] = Word("exec")
        /\ form[2] = Numeral(first.value) /\ form[3] = Numeral(m)
        /\ \A i \in 1..m : form[i + 3] = Real(v[i])
    <3>1. PICK a \in 0..Max16 : a = first.value
      BY <1>6
    <3>2. form = Written(CommandExec(a, v))
      BY <1>4, <1>9, <2>5, <3>1
    <3>3. /\ Len(form) = Len(v) + 3 /\ form[1] = Word("exec")
          /\ form[2] = Numeral(a) /\ form[3] = Numeral(Len(v))
          /\ \A i \in 1..Len(v) : form[i + 3] = Real(v[i])
      <4>1. v \in Seq(-MaxDouble..MaxDouble)
        BY <1>10, Zenon
      <4>2. PICK w : w = Written(CommandExec(a, v))
        BY Zenon
      <4>3. /\ Len(w) = Len(v) + 3 /\ w[1] = Word("exec")
            /\ w[2] = Numeral(a) /\ w[3] = Numeral(Len(v))
            /\ \A i \in 1..Len(v) : w[i + 3] = Real(v[i])
        BY <4>1, <4>2, WrittenExec, Zenon
      <4>4. QED
        BY <3>2, <4>2, <4>3, Zenon
    <3>4. Len(v) = m
      BY <1>10
    <3>5. QED
      BY <3>1, <3>3, <3>4, Zenon
  <2>7. l[1] = form[1] /\ l[2] = form[2] /\ l[3] = form[3]
    BY <1>4, <1>7, <2>2, <2>3, <2>6
  <2>8. ASSUME NEW i \in 1..m
        PROVE  IsNumber(l[i + 3]) /\ ReadAs(l[i + 3]) = v[i]
    <3>1. i \in 1..(n - 3)
      BY <2>4
    <3>2. QED
      BY <1>10, <2>3, <3>1
  <2>9. DOMAIN l = 1..n
    BY <2>1, LenProperties
  <2>10. ASSUME NEW j \in 1..n
         PROVE  IF j > 3 THEN IsNumber(l[j]) /\ ReadAs(l[j]) = v[j - 3]
                ELSE l[j] = form[j]
    <3>1. CASE j \in {1, 2, 3}
      BY <2>7, <3>1
    <3>2. CASE j \notin {1, 2, 3}
      <4>1. PICK i \in 1..m : j = i + 3 /\ j - 3 = i
        <5>1. j - 3 \in 1..m /\ j = (j - 3) + 3
          BY <2>4, <3>2
        <5>2. QED
          BY <5>1
      <4>2. j > 3
        BY <4>1
      <4>3. QED
        BY <2>8, <4>1, <4>2
    <3>3. QED
      BY <3>1, <3>2
  <2>11. Len(l) = Len(form)
    BY <2>1, <2>4, <2>6
  <2>12. tryParseExec(l).k = v
    BY <1>4, <1>9 DEF CommandExec
  <2>13. QED
    BY <2>5, <2>9, <2>10, <2>11, <2>12, Zenon DEF IsFormOf
<1>13. QED
  BY <1>11, <1>12

LEMMA PassIsUnderstood ==
  ASSUME NEW l \in Seq(LineParts), NEW loss \in {0, 1},
         tryParsePass(l, loss) # Refused
  PROVE  /\ tryParsePass(l, loss) \in ParsedCommands
         /\ TakenFor(l, tryParsePass(l, loss))
<1>1. PICK ms : ms = ReadMilliseconds(Tail(l), loss)
  BY Zenon
<1>2. /\ tryParsePass(l, loss) = CommandPass(ms.value)
      /\ l # <<>> /\ Head(l) = Word("pass") /\ ms.ok /\ ms.rest = <<>>
  BY <1>1, Zenon DEF tryParsePass, check_command
<1>3. One \in Nat \ {0}
  BY NumbersAssumption
<1>4. PICK b : b = Tail(l)
  BY Zenon
<1>5. PICK n \in Nat \ {0} : n = Len(l)
  BY <1>2, EmptySeq
<1>6. /\ b \in Seq(LineParts) /\ Len(b) = n - 1 /\ Head(l) = l[1]
      /\ \A i \in 1..(n - 1) : b[i] = l[i + 1]
  BY <1>2, <1>4, <1>5, TailOfLine
<1>7. PICK d : d = ReadDouble(b)
  BY Zenon
<1>8. /\ d.ok
      /\ ms = [d EXCEPT !.value = IF @ < 0 THEN -Milliseconds(-@, loss)
                                  ELSE Milliseconds(@, loss)]
  <2>1. ~Failed.ok
    BY DEF Failed
  <2>2. QED
    BY <1>1, <1>2, <1>4, <1>7, <2>1, Zenon DEF ReadMilliseconds
<1>9. /\ b # <<>> /\ IsDouble(Head(b))
      /\ d = [ok |-> TRUE, value |-> ReadAs(Head(b)), rest |-> Tail(b)]
  <2>1. ~Failed.ok
    BY DEF Failed
  <2>2. QED
    BY <1>7, <1>8, <2>1, Zenon DEF ReadDouble
<1>10. PICK x : x = Head(b)
  BY Zenon
<1>11. /\ x \in LineParts /\ IsNumber(x) /\ ReadAs(x) \in -MaxDouble..MaxDouble
       /\ Len(Tail(b)) = Len(b) - 1 /\ x = b[1] /\ Tail(b) \in Seq(LineParts)
       /\ Len(b) \in Nat \ {0}
  BY <1>6, <1>9, <1>10, TailOfLine DEF IsDouble
<1>12. PICK y \in Int : y = ReadAs(x)
  BY <1>11, NumbersAssumption
<1>13. /\ ms.value = (IF y < 0 THEN -Milliseconds(-y, loss) ELSE Milliseconds(y, loss))
       /\ ms.rest = Tail(b)
  <2>1. d.value = y /\ d.rest = Tail(b)
    BY <1>9, <1>10, <1>12
  <2>2. PICK e : e = (IF y < 0 THEN -Milliseconds(-y, loss) ELSE Milliseconds(y, loss))
    BY Zenon
  <2>3. ms = [d EXCEPT !.value = e]
    BY <1>8, <2>1, <2>2, Zenon
  <2>4. ms.value = e /\ ms.rest = d.rest
    BY <1>9, <2>3
  <2>5. QED
    BY <2>1, <2>2, <2>4
<1>14. ms.value \in Int
  <2>1. \A z \in Int : Milliseconds(z, loss) \in Int
    BY <1>3 DEF Milliseconds
  <2>2. PICK p, q : p = Milliseconds(-y, loss) /\ q = Milliseconds(y, loss)
    BY Zenon
  <2>3. -y \in Int
    OBVIOUS
  <2>4. p \in Int /\ q \in Int
    BY <2>1, <2>2, <2>3, Zenon
  <2>5. -p \in Int
    BY <2>4
  <2>6. QED
    BY <1>13, <2>2, <2>4, <2>5, Zenon
<1>15. n = 2 /\ x = l[2]
  <2>1. Len(Tail(b)) = 0
    BY <1>2, <1>13, EmptySeq
  <2>2. n = 2
    <3>1. PICK c \in Nat : c = Len(b)
      BY <1>6, LenProperties
    <3>2. Len(Tail(b)) = c - 1
      BY <1>11, <3>1, Zenon
    <3>3. c - 1 = 0
      BY <2>1, <3>2, Zenon
    <3>4. c = n - 1
      BY <1>6, <3>1
    <3>5. QED
      BY <1>5, <3>3, <3>4
  <2>3. b[1] = l[1 + 1]
    BY <1>6, <2>2
  <2>4. QED
    BY <1>11, <2>2, <2>3
<1>16. tryParsePass(l, loss) \in ParsedCommands
  BY <1>2, <1>14 DEF CommandPass, ParsedCommands
<1>17. DOMAIN l = 1..2
  BY <1>5, <1>15, LenProperties
<1>18. ASSUME ~Sloppy(l) PROVE TakenFor(l, tryParsePass(l, loss))
  <2>1. ~x.negative /\ x.fraction = Missing /\ ~(ValueOf(x) >= Precision)
    <3>1. 2 \in {2, 3} \cap DOMAIN l
      BY <1>17
    <3>2. QED
      BY <1>2, <1>11, <1>15, <1>18, <3>1, Zenon DEF Sloppy
  <2>2. /\ x = Number(x.negative, x.whole, x.fraction)
        /\ x.negative \in BOOLEAN /\ x.whole \in Nat
    BY <1>11, <2>1, NumbersOfALine
  <2>3. x = Numeral(x.whole)
    <3>1. x.negative = FALSE
      BY <2>1, <2>2
    <3>2. QED
      BY <2>1, <2>2, <3>1, Zenon DEF Numeral
  <2>4. PICK w \in Nat : w = x.whole
    BY <2>2
  <2>5. y = w * One
    <3>1. ValueOf(x) = w * One
      BY <2>3, <2>4, NumeralIsItsValue
    <3>2. w * One \in 1 - Precision..Precision - 1
      BY <1>3, <2>1, <3>1, NumbersAssumption
    <3>3. Nearest(w * One) = w * One
      BY <3>2, NearestProperties
    <3>4. QED
      BY <1>12, <3>1, <3>3 DEF ReadAs
  <2>6. ms.value = w \/ ms.value + 1 = w
    <3>1. ~(y < 0) /\ (y = 0 <=> w = 0)
      BY <1>3, <2>5
    <3>2. ms.value = Milliseconds(y, loss)
      BY <1>13, <3>1, Zenon
    <3>3. CASE w = 0
      BY <3>1, <3>2, <3>3 DEF Milliseconds
    <3>4. CASE w # 0
      <4>1. ms.value = (y - loss) \div One
        BY <3>1, <3>2, <3>4, Zenon DEF Milliseconds
      <4>2. PICK u \in Int : u = y - loss
        OBVIOUS
      <4>3. PICK q \in Int, t \in 0..(One - 1) :
              u = q * One + t /\ u \div One = q /\ u % One = t
        BY <1>3, <4>2, DivisionBy, Zenon
      <4>4. CASE loss = 0
        <5>1. w * One + 0 = q * One + t /\ 0 \in 0..(One - 1)
          BY <1>3, <2>5, <4>2, <4>3, <4>4
        <5>2. q = w
          BY <1>3, <4>3, <5>1, QuotientIsUnique
        <5>3. QED
          BY <4>1, <4>2, <4>3, <5>2
      <4>5. CASE loss = 1
        <5>1. PICK o \in Int : o = w - 1
          OBVIOUS
        <5>2. o * One + (One - 1) = q * One + t /\ One - 1 \in 0..(One - 1)
          BY <1>3, <2>5, <4>2, <4>3, <4>5, <5>1
        <5>3. q = o
          BY <1>3, <4>3, <5>1, <5>2, QuotientIsUnique
        <5>4. QED
          BY <4>1, <4>2, <4>3, <5>1, <5>3
      <4>6. QED
        BY <4>4, <4>5
    <3>5. QED
      BY <3>3, <3>4
  <2>7. l = <<Word("pass"), Numeral(w)>>
    <3>1. PICK p, z : p = Word("pass") /\ z = Numeral(w)
      BY Zenon
    <3>2. l[1] = p /\ l[2] = z /\ Len(l) = 2
      BY <1>2, <1>5, <1>6, <1>15, <2>3, <2>4, <3>1
    <3>3. p \in LineParts /\ z \in LineParts
      BY <3>1, NumeralIsItsValue DEF LineParts
    <3>4. PICK f \in Seq(LineParts) : f = <<p, z>>
      <4>1. <<p, z>> \in Seq(LineParts)
        BY <3>3
      <4>2. QED
        BY <4>1, Zenon
    <3>5. Len(f) = 2 /\ f[1] = p /\ f[2] = z
      BY <3>4
    <3>6. \A i \in 1..Len(l) : l[i] = f[i]
      BY <3>2, <3>5
    <3>7. l = f
      BY <3>2, <3>5, <3>6, SeqEqual, Zenon
    <3>8. QED
      BY <3>1, <3>4, <3>7
  <2>8. l = Written(CommandPass(w))
    <3>1. PICK m : m = CommandPass(w)
      BY Zenon
    <3>2. m.type = "CommandPass" /\ m.time = w
      BY <3>1 DEF CommandPass
    <3>3. QED
      BY <2>7, <3>1, <3>2 DEF Written
  <2>9. CASE ms.value = w
    <3>1. PICK m : m = CommandPass(w)
      BY Zenon
    <3>2. \A i \in 1..2 : l[i] = Written(m)[i]
      BY <2>8, <3>1, Zenon
    <3>3. Len(l) = 2 /\ Len(Written(m)) = 2 /\ 2 \in 0..3
      <4>1. Len(l) = 2 /\ 2 \in 0..3
        BY <1>5, <1>15
      <4>2. QED
        BY <2>8, <3>1, <4>1, Zenon
    <3>4. IsFormOf(l, m)
      BY <3>2, <3>3, ShortForm, Zenon
    <3>5. QED
      BY <1>2, <2>9, <3>1, <3>4, Zenon DEF TakenFor
  <2>10. CASE ms.value + 1 = w
    <3>1. PICK m : m = CommandPass(ms.value)
      BY Zenon
    <3>2. m.type = "CommandPass" /\ m.time = ms.value
      BY <3>1 DEF CommandPass
    <3>3. QED
      BY <1>2, <2>8, <2>10, <3>1, <3>2, Zenon DEF TakenFor
  <2>11. QED
    BY <2>6, <2>9, <2>10
<1>19. ASSUME Sloppy(l) PROVE TakenFor(l, tryParsePass(l, loss))
  BY <1>19, Zenon DEF TakenFor
<1>20. QED
  BY <1>16, <1>18, <1>19

LEMMA PrintIsUnderstood ==
  ASSUME NEW l \in Seq(LineParts), tryParsePrintTree(l) # Refused
  PROVE  /\ tryParsePrintTree(l) \in ParsedCommands
         /\ TakenFor(l, tryParsePrintTree(l))
<1>1. /\ tryParsePrintTree(l) = CommandPrintTree
      /\ l # <<>> /\ Head(l) = Word("print") /\ Tail(l) = <<>>
  BY Zenon DEF tryParsePrintTree, check_command
<1>2. Len(l) = 1 /\ l[1] = Word("print")
  <2>1. Len(l) \in Nat \ {0} /\ Len(Tail(l)) = Len(l) - 1 /\ Head(l) = l[1]
    BY <1>1, TailOfLine
  <2>2. Len(Tail(l)) = 0
    BY <1>1, EmptySeq
  <2>3. QED
    BY <1>1, <2>1, <2>2
<1>3. l = <<Word("print")>>
  <2>1. PICK w : w = Word("print")
    BY Zenon
  <2>2. w \in LineParts
    BY <2>1 DEF LineParts
  <2>3. PICK f \in Seq(LineParts) : f = <<w>>
    <3>1. <<w>> \in Seq(LineParts)
      BY <2>2
    <3>2. QED
      BY <3>1, Zenon
  <2>4. Len(f) = 1 /\ f[1] = w
    BY <2>3
  <2>5. \A i \in 1..Len(l) : l[i] = f[i]
    BY <1>2, <2>1, <2>4
  <2>6. l = f
    BY <1>2, <2>4, <2>5, SeqEqual, Zenon
  <2>7. QED
    BY <2>1, <2>3, <2>6
<1>4. TakenFor(l, CommandPrintTree)
  BY <1>3, Zenon DEF TakenFor
<1>5. QED
  BY <1>1, <1>4 DEF ParsedCommands

Types == {"Create", "Exec", "PrintTree", "Pass"}

LEMMA AttemptIsUnderstood ==
  ASSUME NEW l \in Seq(LineParts), NEW type \in Types, NEW loss \in {0, 1},
         tryParse(type, l, loss) # Refused
  PROVE  /\ tryParse(type, l, loss) \in ParsedCommands
         /\ TakenFor(l, tryParse(type, l, loss))
<1>1. CASE type = "Create"
  <2>1. tryParse(type, l, loss) = tryParseCreate(l)
    BY <1>1 DEF tryParse
  <2>2. QED
    BY <2>1, CreateIsUnderstood, Zenon DEF TakenFor
<1>2. CASE type = "Exec"
  <2>1. tryParse(type, l, loss) = tryParseExec(l)
    BY <1>2 DEF tryParse
  <2>2. QED
    BY <2>1, ExecIsUnderstood, Zenon DEF TakenFor
<1>3. CASE type = "PrintTree"
  <2>1. tryParse(type, l, loss) = tryParsePrintTree(l)
    BY <1>3 DEF tryParse
  <2>2. QED
    BY <2>1, PrintIsUnderstood, Zenon
<1>4. CASE type = "Pass"
  <2>1. tryParse(type, l, loss) = tryParsePass(l, loss)
    BY <1>4 DEF tryParse
  <2>2. QED
    BY <2>1, PassIsUnderstood, Zenon
<1>5. QED
  BY <1>1, <1>2, <1>3, <1>4 DEF Types

\* The lexemes of a documented form are as documented.
LEMMA FormBegins ==
  ASSUME NEW l \in Seq(LineParts), NEW cmd, IsFormOf(l, cmd), Len(l) # 0
  PROVE  /\ l # <<>> /\ Len(l) = Len(Written(cmd)) /\ Len(l) \in Nat \ {0}
         /\ Head(l) = l[1] /\ l[1] = Written(cmd)[1]
         /\ \A i \in 1..Len(l) :
              IF i > 3 THEN IsNumber(l[i]) /\ ReadAs(l[i]) = cmd.k[i - 3]
              ELSE l[i] = Written(cmd)[i]
<1>1. PICK form : form = Written(cmd)
  BY Zenon
<1>2. PICK n \in Nat : n = Len(l)
  BY LenProperties
<1>3. l # <<>> /\ n # 0 /\ n \in Nat \ {0}
  BY <1>2, EmptySeq
<1>4. DOMAIN l = 1..n
  BY <1>2, LenProperties
<1>5. /\ Len(l) = Len(form)
      /\ \A i \in 1..n :
           IF i > 3 THEN IsNumber(l[i]) /\ ReadAs(l[i]) = cmd.k[i - 3]
           ELSE l[i] = form[i]
  BY <1>1, <1>4, Zenon DEF IsFormOf
<1>6. Head(l) = l[1]
  BY <1>3, TailOfLine
<1>7. l[1] = form[1]
  <2>1. 1 \in 1..n /\ ~(1 > 3)
    BY <1>3
  <2>2. QED
    BY <1>5, <2>1, Zenon
<1>8. QED
  BY <1>1, <1>2, <1>3, <1>5, <1>6, <1>7, Zenon

\* The bounds of the unsigned types are numbers.
LEMMA WidthsTyped == Max16 \in Nat /\ MaxSize \in Nat
BY DEF Max16, MaxSize

LEMMA CreateIsAccepted ==
  ASSUME NEW l \in Seq(LineParts), NEW a \in 0..Max16, NEW c \in 0..Max16,
         IsFormOf(l, CommandCreate(a, c))
  PROVE  tryParseCreate(l) # Refused
<1>1. PICK form : form = Written(CommandCreate(a, c))
  BY Zenon
<1>2. /\ Len(form) = 3 /\ form[1] = Word("create")
      /\ form[2] = Numeral(a) /\ form[3] = Numeral(c)
  BY <1>1, WrittenCreate
<1>3. Len(l) = 3
  BY <1>1, <1>2, Zenon DEF IsFormOf
<1>4. /\ l # <<>> /\ Head(l) = l[1] /\ l[1] = form[1]
      /\ \A i \in 1..3 : i > 3 \/ l[i] = form[i]
  <2>1. Len(l) # 0
    BY <1>3
  <2>2. QED
    BY <1>1, <1>3, <2>1, FormBegins, Zenon
<1>5. l[2] = Numeral(a) /\ l[3] = Numeral(c)
  BY <1>2, <1>4
<1>6. PICK first : first = ReadUnsigned(Tail(l), Max16)
  BY Zenon
<1>7. PICK second : second = ReadUnsigned(first.rest, Max16)
  BY Zenon
<1>8. Max16 \in Nat
  BY WidthsTyped, Zenon
<1>9. /\ first.ok /\ first.value = a /\ second.ok /\ second.value = c
      /\ second.rest = Tail(Tail(Tail(l)))
  <2>1. PICK z : z = Max16
    BY Zenon
  <2>2. z \in Nat /\ a \in 0..z /\ c \in 0..z /\ 3 <= Len(l)
    BY <1>3, <1>8, <2>1
  <2>3. first = ReadUnsigned(Tail(l), z) /\ second = ReadUnsigned(first.rest, z)
    BY <1>6, <1>7, <2>1
  <2>4. PICK e : e = Tail(Tail(Tail(l)))
    BY Zenon
  <2>5. PlainNumbers(l, a, c, e)
    BY <1>5, <2>2, <2>4 DEF PlainNumbers
  <2>6. first.ok /\ first.value = a /\ second.ok /\ second.value = c /\ second.rest = e
    BY <2>2, <2>3, <2>5, TwoNumeralsAreRead, SMT
  <2>7. QED
    BY <2>4, <2>6, Zenon
<1>10. second.rest = <<>>
  <2>1. 3 <= Len(l)
    BY <1>3
  <2>2. PICK d : d = Tail(Tail(Tail(l)))
    BY Zenon
  <2>3. d \in Seq(LineParts) /\ Len(d) = 0
    <3>1. d \in Seq(LineParts) /\ Len(d) = Len(l) - 3
      BY <2>1, <2>2, AfterThree, Zenon
    <3>2. QED
      BY <1>3, <3>1
  <2>4. d = <<>>
    BY <2>3, EmptySeq
  <2>5. QED
    BY <1>9, <2>2, <2>4
<1>11. tryParseCreate(l) = CommandCreate(first.value, second.value)
  BY <1>2, <1>4, <1>6, <1>7, <1>9, <1>10, Zenon DEF tryParseCreate, check_command
<1>12. QED
  BY <1>11 DEF CommandCreate, Refused

LEMMA ExecIsAccepted ==
  ASSUME NEW l \in Seq(LineParts), NEW a \in 0..Max16,
         NEW v \in Seq(-MaxDouble..MaxDouble), Len(v) <= MaxSize,
         IsFormOf(l, CommandExec(a, v))
  PROVE  tryParseExec(l) # Refused
<1>1. PICK form : form = Written(CommandExec(a, v))
  BY Zenon
<1>2. PICK n \in Nat : n = Len(v)
  BY LenProperties
<1>3. /\ Len(form) = n + 3 /\ form[1] = Word("exec")
      /\ form[2] = Numeral(a) /\ form[3] = Numeral(n)
      /\ \A i \in 1..n : form[i + 3] = Real(v[i])
  BY <1>1, <1>2, WrittenExec
<1>4. Len(l) = n + 3
  BY <1>1, <1>3, Zenon DEF IsFormOf
<1>5. /\ l # <<>> /\ Head(l) = l[1] /\ l[1] = form[1]
      /\ \A i \in 1..(n + 3) : IF i > 3 THEN IsNumber(l[i]) /\ ReadAs(l[i]) = v[i - 3]
                               ELSE l[i] = form[i]
  <2>1. PICK m : m = CommandExec(a, v)
    BY Zenon
  <2>2. m.k = v
    BY <2>1 DEF CommandExec
  <2>3. n + 3 # 0
    OBVIOUS
  <2>4. IsFormOf(l, m) /\ Len(l) # 0
    BY <1>4, <2>1, <2>3, Zenon
  <2>5. /\ l # <<>> /\ Head(l) = l[1] /\ l[1] = Written(m)[1]
        /\ \A i \in 1..Len(l) :
             IF i > 3 THEN IsNumber(l[i]) /\ ReadAs(l[i]) = m.k[i - 3]
             ELSE l[i] = Written(m)[i]
    BY <2>4, FormBegins, Zenon
  <2>6. Written(m) = form
    BY <1>1, <2>1, Zenon
  <2>7. QED
    BY <1>4, <2>2, <2>5, <2>6, Zenon
<1>6. l[2] = Numeral(a) /\ l[3] = Numeral(n)
  BY <1>3, <1>5
<1>7. PICK first : first = ReadUnsigned(Tail(l), Max16)
  BY Zenon
<1>8. PICK second : second = ReadUnsigned(first.rest, MaxSize)
  BY Zenon
<1>9. Max16 \in Nat /\ MaxSize \in Nat
  BY WidthsTyped, Zenon
<1>10. n \in 0..MaxSize
  <2>1. PICK most \in Nat : most = MaxSize
    BY <1>9, Zenon
  <2>2. n <= most
    BY <1>2, <2>1
  <2>3. n \in 0..most
    BY <2>2
  <2>4. QED
    BY <2>1, <2>3, Zenon
<1>11. /\ first.ok /\ first.value = a /\ second.ok /\ second.value = n
       /\ second.rest = Tail(Tail(Tail(l)))
  <2>1. PICK y, z : y = Max16 /\ z = MaxSize
    BY Zenon
  <2>2. y \in Nat /\ z \in Nat /\ a \in 0..y /\ n \in 0..z /\ 3 <= Len(l)
    BY <1>4, <1>9, <1>10, <2>1
  <2>3. first = ReadUnsigned(Tail(l), y) /\ second = ReadUnsigned(first.rest, z)
    BY <1>7, <1>8, <2>1
  <2>4. PICK e : e = Tail(Tail(Tail(l)))
    BY Zenon
  <2>5. PlainNumbers(l, a, n, e)
    BY <1>6, <2>2, <2>4 DEF PlainNumbers
  <2>6. first.ok /\ first.value = a /\ second.ok /\ second.value = n /\ second.rest = e
    BY <2>2, <2>3, <2>5, TwoNumeralsAreRead, SMT
  <2>7. QED
    BY <2>4, <2>6, Zenon
<1>12. PICK r \in Seq(LineParts) :
         /\ r = Tail(Tail(Tail(l))) /\ Len(r) = n
         /\ \A i \in 1..n : r[i] = l[i + 3]
  <2>1. PICK d : d = Tail(Tail(Tail(l)))
    BY Zenon
  <2>2. 3 <= Len(l)
    BY <1>4
  <2>3. /\ d \in Seq(LineParts) /\ Len(d) = Len(l) - 3
        /\ \A i \in 1..(Len(l) - 3) : d[i] = l[i + 3]
    BY <2>1, <2>2, AfterThree
  <2>4. Len(l) - 3 = n
    BY <1>4
  <2>5. QED
    BY <2>1, <2>3, <2>4
<1>13. ASSUME NEW i \in 1..n PROVE IsDouble(r[i])
  <2>1. v[i] \in -MaxDouble..MaxDouble
    BY <1>2, ElementOfSeq
  <2>2. i + 3 \in 1..(n + 3) /\ i + 3 > 3 /\ (i + 3) - 3 = i
    OBVIOUS
  <2>3. r[i] = l[i + 3]
    BY <1>12
  <2>4. IsNumber(r[i]) /\ ReadAs(r[i]) = v[i]
    BY <1>5, <2>2, <2>3
  <2>5. QED
    BY <2>1, <2>4, Zenon DEF IsDouble
<1>14. PICK k : k = ReadVector(r, n)
  BY Zenon
<1>15. k = [ok |-> TRUE, value |-> [i \in 1..n |-> ReadAs(r[i])],
            rest |-> SubSeq(r, n + 1, Len(r))]
  <2>1. PICK len \in Nat : len = Len(r)
    BY <1>12, Zenon
  <2>2. ~(n > len)
    <3>1. len = n
      BY <1>12, <2>1, Zenon
    <3>2. QED
      BY <3>1
  <2>3. ~(n > Len(r))
    BY <2>1, <2>2, Zenon
  <2>4. QED
    BY <1>13, <1>14, <2>3, Zenon DEF ReadVector
<1>16. k.ok /\ k.rest = <<>>
  <2>1. k.rest = SubSeq(r, n + 1, n)
    BY <1>12, <1>15
  <2>2. SubSeq(r, n + 1, n) = <<>>
    <3>1. n < n + 1 /\ n + 1 \in Int /\ n \in Int
      OBVIOUS
    <3>2. QED
      BY <3>1, SubSeqEmpty
  <2>3. QED
    BY <1>15, <2>1, <2>2
<1>17. k = ReadVector(second.rest, second.value)
  BY <1>11, <1>12, <1>14
<1>18. tryParseExec(l) = CommandExec(first.value, k.value)
  BY <1>3, <1>5, <1>7, <1>8, <1>11, <1>16, <1>17, Zenon
     DEF tryParseExec, check_command
<1>19. QED
  BY <1>18 DEF CommandExec, Refused

LEMMA PassIsAccepted ==
  ASSUME NEW l \in Seq(LineParts), NEW w \in Nat, w * One < Precision,
         NEW loss \in {0, 1}, IsFormOf(l, CommandPass(w))
  PROVE  tryParsePass(l, loss) # Refused
<1>1. One \in Nat \ {0} /\ MaxDouble \in Nat
  BY NumbersAssumption
<1>2. PICK m : m = CommandPass(w)
  BY Zenon
<1>3. m.type = "CommandPass" /\ m.time = w
  BY <1>2 DEF CommandPass
<1>4. PICK form : form = Written(m)
  BY Zenon
<1>5. form = <<Word("pass"), Numeral(w)>>
  BY <1>3, <1>4 DEF Written
<1>6. Len(form) = 2 /\ form[1] = Word("pass") /\ form[2] = Numeral(w)
  BY <1>5
<1>7. IsFormOf(l, m)
  BY <1>2
<1>8. Len(l) = 2
  BY <1>4, <1>6, <1>7, Zenon DEF IsFormOf
<1>9. /\ l # <<>> /\ Head(l) = l[1] /\ l[1] = form[1]
      /\ \A i \in 1..2 : i > 3 \/ l[i] = form[i]
  BY <1>4, <1>7, <1>8, FormBegins
<1>10. l[2] = Numeral(w)
  BY <1>6, <1>9
<1>11. PICK b : b = Tail(l)
  BY Zenon
<1>12. b \in Seq(LineParts) /\ Len(b) = 1 /\ b[1] = Numeral(w)
  <2>1. PICK len \in Nat : len = Len(l) /\ len = 2
    BY <1>8
  <2>2. /\ b \in Seq(LineParts) /\ Len(b) = len - 1
        /\ \A i \in 1..(len - 1) : b[i] = l[i + 1]
    BY <1>9, <1>11, <2>1, TailOfLine, Zenon
  <2>3. len - 1 = 1 /\ 1 \in 1..(len - 1) /\ 1 + 1 = 2
    BY <2>1
  <2>4. QED
    BY <1>10, <2>2, <2>3, Zenon
<1>13. b # <<>>
  <2>1. PICK len \in Nat : len = Len(b) /\ len = 1
    BY <1>12, Zenon
  <2>2. len # 0
    BY <2>1
  <2>3. QED
    BY <1>12, <2>1, <2>2, EmptySeq, Zenon
<1>14. Head(b) = Numeral(w) /\ Tail(b) \in Seq(LineParts) /\ Len(Tail(b)) = 0
  BY <1>12, <1>13, TailOfLine
<1>15. Tail(b) = <<>>
  BY <1>14, EmptySeq
<1>16. IsDouble(Numeral(w))
  <2>1. w * One \in 1 - Precision..Precision - 1 /\ Precision <= MaxDouble
    BY <1>1, NumbersAssumption
  <2>2. Nearest(w * One) = w * One /\ w * One \in -MaxDouble..MaxDouble
    BY <1>1, <2>1, NearestProperties, NumbersAssumption
  <2>3. PICK x : x = Numeral(w)
    BY Zenon
  <2>4. IsNumber(x) /\ ValueOf(x) = w * One
    BY <2>3, NumeralIsItsValue
  <2>5. QED
    BY <2>2, <2>3, <2>4, Zenon DEF IsDouble, ReadAs
<1>17. PICK d : d = ReadDouble(b)
  BY Zenon
<1>18. d = [ok |-> TRUE, value |-> ReadAs(Numeral(w)), rest |-> <<>>]
  BY <1>13, <1>14, <1>15, <1>16, <1>17, Zenon DEF ReadDouble
<1>19. PICK ms : ms = ReadMilliseconds(Tail(l), loss)
  BY Zenon
<1>20. ms.ok /\ ms.rest = <<>>
  <2>1. d.ok /\ d.rest = <<>>
    BY <1>18
  <2>2. PICK e : ms = [d EXCEPT !.value = e]
    BY <1>11, <1>17, <1>19, <2>1, Zenon DEF ReadMilliseconds
  <2>3. ms.ok = d.ok /\ ms.rest = d.rest
    BY <1>18, <2>2
  <2>4. QED
    BY <2>1, <2>3, Zenon
<1>21. tryParsePass(l, loss) = CommandPass(ms.value)
  BY <1>6, <1>9, <1>19, <1>20, Zenon DEF tryParsePass, check_command
<1>22. QED
  BY <1>21 DEF CommandPass, Refused

\* A documented form is accepted by the attempt for its type.
LEMMA FormIsAccepted ==
  ASSUME NEW l \in Seq(LineParts), NEW cmd \in Commands \ {CommandPrintTree},
         IsFormOf(l, cmd)
  PROVE  \E type \in Types : \A loss \in {0, 1} : tryParse(type, l, loss) # Refused
<1>1. /\ cmd \in ParsedCommands
      /\ cmd.type = "CommandExec" => Len(cmd.k) <= MaxSize
      /\ cmd.type = "CommandPass" => cmd.time \in Nat /\ cmd.time * One < Precision
  BY TypedLineAssumption
<1>2. CASE cmd \in [type : {"CommandCreate"}, newNodeId : 0..Max16, parentId : 0..Max16]
  <2>1. PICK a \in 0..Max16, c \in 0..Max16 : cmd = CommandCreate(a, c)
    <3>1. cmd = CommandCreate(cmd.newNodeId, cmd.parentId)
      BY <1>2 DEF CommandCreate
    <3>2. QED
      BY <1>2, <3>1
  <2>2. tryParseCreate(l) # Refused
    BY <2>1, CreateIsAccepted, Zenon
  <2>3. \A loss \in {0, 1} : tryParse("Create", l, loss) = tryParseCreate(l)
    BY DEF tryParse
  <2>4. QED
    BY <2>2, <2>3 DEF Types
<1>3. CASE cmd \in [type : {"CommandExec"}, nodeId : 0..Max16,
                    k : Seq(-MaxDouble..MaxDouble)]
  <2>1. PICK a \in 0..Max16, v \in Seq(-MaxDouble..MaxDouble) :
          cmd = CommandExec(a, v) /\ Len(v) <= MaxSize
    <3>1. cmd = CommandExec(cmd.nodeId, cmd.k)
      BY <1>3 DEF CommandExec
    <3>2. cmd.nodeId \in 0..Max16 /\ cmd.k \in Seq(-MaxDouble..MaxDouble)
      BY <1>3
    <3>3. Len(cmd.k) <= MaxSize
      BY <1>1, <1>3
    <3>4. QED
      BY <3>1, <3>2, <3>3
  <2>2. tryParseExec(l) # Refused
    BY <2>1, ExecIsAccepted, Zenon
  <2>3. \A loss \in {0, 1} : tryParse("Exec", l, loss) = tryParseExec(l)
    BY DEF tryParse
  <2>4. QED
    BY <2>2, <2>3 DEF Types
<1>4. CASE cmd \in [type : {"CommandPass"}, time : Int]
  <2>1. PICK w \in Nat : cmd = CommandPass(w) /\ w * One < Precision
    <3>1. cmd = CommandPass(cmd.time)
      BY <1>4 DEF CommandPass
    <3>2. cmd.time \in Nat /\ cmd.time * One < Precision
      BY <1>1, <1>4
    <3>3. QED
      BY <3>1, <3>2
  <2>2. \A loss \in {0, 1} : tryParsePass(l, loss) # Refused
    BY <2>1, PassIsAccepted, Zenon
  <2>3. \A loss \in {0, 1} : tryParse("Pass", l, loss) = tryParsePass(l, loss)
    BY DEF tryParse
  <2>4. QED
    BY <2>2, <2>3 DEF Types
<1>5. QED
  BY <1>1, <1>2, <1>3, <1>4 DEF ParsedCommands

\* What is typed is made of the lexemes of lines.
LEMMA TypedLines ==
  /\ OtherLines \subseteq Seq(LineParts)
  /\ \A cmd \in Commands : Written(cmd) \in Seq(LineParts)
<1>1. OtherLines \subseteq Seq(LineParts)
  <2>1. LineLexemes \subseteq LineParts
    BY DEF LineParts
  <2>2. \A l \in Seq(LineLexemes) : l \in Seq(LineParts)
    BY <2>1, SeqMonotonic
  <2>3. QED
    BY <2>2, TypedLineAssumption
<1>2. ASSUME NEW cmd \in Commands
      PROVE  Written(cmd) \in Seq(LineParts)
  <2>1. /\ cmd \in ParsedCommands
        /\ cmd.type = "CommandPass" => cmd.time \in Nat
    BY TypedLineAssumption
  <2>2. CASE cmd \in [type : {"CommandCreate"}, newNodeId : 0..Max16,
                      parentId : 0..Max16]
    <3>1. cmd = CommandCreate(cmd.newNodeId, cmd.parentId)
      BY <2>2 DEF CommandCreate
    <3>2. cmd.newNodeId \in 0..Max16 /\ cmd.parentId \in 0..Max16
      BY <2>2
    <3>3. QED
      BY <3>1, <3>2, WrittenCreate
  <2>3. CASE cmd \in [type : {"CommandExec"}, nodeId : 0..Max16,
                      k : Seq(-MaxDouble..MaxDouble)]
    <3>1. cmd = CommandExec(cmd.nodeId, cmd.k)
      BY <2>3 DEF CommandExec
    <3>2. cmd.nodeId \in 0..Max16 /\ cmd.k \in Seq(-MaxDouble..MaxDouble)
      BY <2>3
    <3>3. QED
      BY <3>1, <3>2, WrittenExec
  <2>4. CASE cmd = CommandPrintTree
    <3>1. cmd.type = "CommandPrintTree"
      BY <2>4 DEF CommandPrintTree
    <3>2. PICK w, x : w = Word("print") /\ x = Word("tree")
      BY Zenon
    <3>3. w \in LineParts /\ x \in LineParts /\ Written(cmd) = <<w, x>>
      BY <3>1, <3>2 DEF Written, LineParts
    <3>4. QED
      BY <3>3
  <2>5. CASE cmd \in [type : {"CommandPass"}, time : Int]
    <3>1. cmd.type = "CommandPass"
      BY <2>5
    <3>2. cmd.time \in Nat
      BY <2>1, <3>1
    <3>3. PICK w, x : w = Word("pass") /\ x = Numeral(cmd.time)
      BY Zenon
    <3>4. w \in LineParts /\ x \in LineParts
      BY <3>2, <3>3, NumeralIsItsValue DEF LineParts
    <3>5. Written(cmd) = <<w, x>>
      BY <3>1, <3>3 DEF Written
    <3>6. QED
      BY <3>4, <3>5
  <2>6. QED
    BY <2>1, <2>2, <2>3, <2>4, <2>5 DEF ParsedCommands
<1>3. QED
  BY <1>1, <1>2

-----------------------------------------------------------------------------
(***************************************************************************)
(* Running sums.                                                           *)
(***************************************************************************)
\* The sums of the numbers as they are.
Exact(k) == Sums(LAMBDA x, y : x + y, k)

LEMMA ExactSums ==
  ASSUME NEW k \in Seq(Int), NEW n \in Nat, n = Len(k)
  PROVE  /\ Exact(k)[0] = 0
         /\ \A i \in 0..n : Exact(k)[i] \in Int
         /\ \A i \in 1..n : Exact(k)[i] = Exact(k)[i - 1] + k[i] /\ k[i] \in Int
<1>1. \A i \in 1..n : k[i] \in Int
  BY ElementOfSeq
<1> DEFINE l(f) == [i \in 0..Len(k) |-> IF i = 0 THEN 0 ELSE f[i - 1] + k[i]]
<1>2. PICK next : next = [i \in 1..n |-> [x \in Int |-> x + k[i]]]
  BY Zenon
<1>3. next \in [1..n -> [Int -> Int]]
  BY <1>1, <1>2
<1>4. PICK f \in [0..n -> Int] :
        f[0] = 0 /\ \A i \in 1..n : f[i] = next[i][f[i - 1]]
  <2>1. PICK z, D : z = 0 /\ D = Int
    BY Zenon
  <2>2. z \in D /\ next \in [1..n -> [D -> D]]
    BY <1>3, <2>1
  <2>3. PICK f : Runs(f, n, D, z, next)
    BY <2>2, RunningValues, Zenon
  <2>4. QED
    BY <2>1, <2>3 DEF Runs
<1>5. ASSUME NEW i \in 1..n PROVE f[i] = f[i - 1] + k[i]
  <2>1. PICK x \in Int : x = f[i - 1]
    <3>1. i - 1 \in 0..n
      OBVIOUS
    <3>2. QED
      BY <3>1
  <2>2. f[i] = next[i][x]
    BY <1>4, <2>1
  <2>3. QED
    BY <1>2, <2>1, <2>2
<1>6. f = l(f)
  BY <1>4, <1>5
<1>7. PICK c : c = Exact(k)
  BY Zenon
<1>8. c = CHOOSE g : g = l(g)
  BY <1>7, Zenon DEF Exact, Sums
<1>9. c = l(c)
  BY <1>6, <1>8, Zenon
<1>10. c[0] = 0
  BY <1>9
<1>11. \A i \in 1..n : c[i] = c[i - 1] + k[i]
  BY <1>9
<1> DEFINE G == {i \in 0..n : c[i] \in Int}
<1>12. 0..n \subseteq G
  <2>1. 0 \in G
    BY <1>10
  <2>2. ASSUME NEW m \in 1..n, m - 1 \in G PROVE m \in G
    BY <1>1, <1>11, <2>2
  <2> HIDE DEF G
  <2>3. QED
    BY <2>1, <2>2, Upwards
<1>13. QED
  BY <1>1, <1>7, <1>10, <1>11, <1>12

LEMMA PlusIsADouble ==
  ASSUME NEW x \in Doubles, NEW y \in Doubles
  PROVE  Plus(x, y) \in Doubles
<1>1. MaxDouble \in Nat
  BY NumbersAssumption
<1>2. x + y \in Int
  BY <1>1 DEF Doubles, Infinity
<1>3. Nearest(x + y) \in Doubles
  BY <1>2, NearestProperties
<1>4. QED
  BY <1>3, Zenon DEF Plus

\* The sums that a node computes.
LEMMA DoubleSums ==
  ASSUME NEW k \in Seq(Doubles), NEW n \in Nat, n = Len(k)
  PROVE  /\ Sums(Plus, k)[0] = 0
         /\ \A i \in 0..n : Sums(Plus, k)[i] \in Doubles
         /\ \A i \in 1..n : Sums(Plus, k)[i] = Plus(Sums(Plus, k)[i - 1], k[i])
<1>0. 0 \in Doubles
  BY NumbersAssumption DEF Doubles, Infinity
<1>1. \A i \in 1..n : k[i] \in Doubles
  BY ElementOfSeq
<1> DEFINE l(f) == [i \in 0..Len(k) |-> IF i = 0 THEN 0 ELSE Plus(f[i - 1], k[i])]
<1>2. PICK next : next = [i \in 1..n |-> [x \in Doubles |-> Plus(x, k[i])]]
  BY Zenon
<1>3. next \in [1..n -> [Doubles -> Doubles]]
  BY <1>1, <1>2, PlusIsADouble
<1>4. PICK f \in [0..n -> Doubles] :
        f[0] = 0 /\ \A i \in 1..n : f[i] = next[i][f[i - 1]]
  <2>1. PICK z, D : z = 0 /\ D = Doubles
    BY Zenon
  <2>2. z \in D /\ next \in [1..n -> [D -> D]]
    BY <1>0, <1>3, <2>1
  <2>3. PICK f : Runs(f, n, D, z, next)
    BY <2>2, RunningValues, Zenon
  <2>4. QED
    BY <2>1, <2>3 DEF Runs
<1>5. \A i \in 1..n : f[i] = Plus(f[i - 1], k[i])
  BY <1>2, <1>4
<1>6. f = l(f)
  BY <1>4, <1>5
<1>7. PICK c : c = Sums(Plus, k)
  BY Zenon
<1>8. c = CHOOSE g : g = l(g)
  BY <1>7, Zenon DEF Sums
<1>9. c = l(c)
  BY <1>6, <1>8, Zenon
<1>10. c[0] = 0
  BY <1>9
<1>11. \A i \in 1..n : c[i] = Plus(c[i - 1], k[i])
  BY <1>9
<1> DEFINE G == {i \in 0..n : c[i] \in Doubles}
<1>12. 0..n \subseteq G
  <2>1. 0 \in G
    BY <1>0, <1>10
  <2>2. ASSUME NEW m \in 1..n, m - 1 \in G PROVE m \in G
    BY <1>1, <1>11, <2>2, PlusIsADouble
  <2> HIDE DEF G
  <2>3. QED
    BY <2>1, <2>2, Upwards
<1>13. QED
  BY <1>7, <1>10, <1>11, <1>12

\* What a number loses when it is sent.
LEMMA SentNumber ==
  ASSUME NEW x \in -MaxDouble..MaxDouble
  PROVE  /\ Sent(x) \in -MaxDouble..MaxDouble
         /\ \E q \in Int : Sent(x) = q * Decimal
         /\ -Decimal <= 2 * (Sent(x) - x) /\ 2 * (Sent(x) - x) <= Decimal
<1>1. MaxDouble \in Nat /\ x \in Int
  BY NumbersAssumption
<1>2. x \notin {Infinity, -Infinity}
  BY <1>1 DEF Infinity
<1>3. Sent(x) = Rounded(x)
  BY <1>2, Zenon DEF Sent
<1>4. QED
  BY <1>1, <1>3, RoundedProperties, RoundedIsFinite

\* The sums of what was sent are near the sums of what was typed, and end with
\* the last decimal.
LEMMA SumsAreNear ==
  ASSUME NEW k \in Seq(-MaxDouble..MaxDouble), NEW z \in Seq(-MaxDouble..MaxDouble),
         NEW n \in Nat, n = Len(k), n = Len(z),
         \A i \in 1..n : z[i] = Sent(k[i])
  PROVE  /\ \A i \in 0..n : Exact(k)[i] \in Int /\ Exact(z)[i] \in Int
         /\ \A i \in 0..n : \E q \in Int : Exact(z)[i] = q * Decimal
         /\ \A i \in 0..n : /\ -(i * Decimal) <= 2 * (Exact(z)[i] - Exact(k)[i])
                            /\ 2 * (Exact(z)[i] - Exact(k)[i]) <= i * Decimal
<1>1. Decimal \in Nat /\ MaxDouble \in Nat
  BY NumbersAssumption
<1>2. PICK t : t = Exact(k)
  BY Zenon
<1>3. PICK e : e = Exact(z)
  BY Zenon
<1>4. k \in Seq(Int) /\ z \in Seq(Int)
  <2>1. -MaxDouble..MaxDouble \subseteq Int
    BY <1>1
  <2>2. QED
    BY <2>1, SeqMonotonic
<1>5. /\ t[0] = 0 /\ \A i \in 0..n : t[i] \in Int
      /\ \A i \in 1..n : t[i] = t[i - 1] + k[i] /\ k[i] \in Int
  BY <1>2, <1>4, ExactSums, Zenon
<1>6. /\ e[0] = 0 /\ \A i \in 0..n : e[i] \in Int
      /\ \A i \in 1..n : e[i] = e[i - 1] + z[i] /\ z[i] \in Int
  BY <1>3, <1>4, ExactSums, Zenon
<1>7. ASSUME NEW i \in 1..n
      PROVE  /\ \E q \in Int : z[i] = q * Decimal
             /\ -Decimal <= 2 * (z[i] - k[i]) /\ 2 * (z[i] - k[i]) <= Decimal
  <2>1. k[i] \in -MaxDouble..MaxDouble
    BY ElementOfSeq
  <2>2. QED
    BY <2>1, SentNumber
<1> DEFINE G == {i \in 0..n : /\ \E q \in Int : e[i] = q * Decimal
                              /\ -(i * Decimal) <= 2 * (e[i] - t[i])
                              /\ 2 * (e[i] - t[i]) <= i * Decimal}
<1>8. 0 \in G
  <2>1. 0 * Decimal = 0
    BY <1>1
  <2>2. \E q \in Int : e[0] = q * Decimal
    BY <1>6, <2>1
  <2>3. -(0 * Decimal) <= 2 * (e[0] - t[0]) /\ 2 * (e[0] - t[0]) <= 0 * Decimal
    BY <1>5, <1>6, <2>1
  <2>4. QED
    BY <2>2, <2>3
<1>9. ASSUME NEW m \in 1..n, m - 1 \in G PROVE m \in G
  <2>1. PICK p \in Int : e[m - 1] = p * Decimal
    BY <1>9
  <2>2. PICK q \in Int : z[m] = q * Decimal
    BY <1>7
  <2>3. e[m] = (p + q) * Decimal
    BY <1>1, <1>6, <2>1, <2>2
  <2>4. m * Decimal = (m - 1) * Decimal + Decimal
    BY <1>1
  <2>5. PICK b \in Int : b = (m - 1) * Decimal
    BY <1>1
  <2>6. -b <= 2 * (e[m - 1] - t[m - 1]) /\ 2 * (e[m - 1] - t[m - 1]) <= b
    BY <1>9, <2>5
  <2>7. m - 1 \in 0..n /\ m \in 0..n
    OBVIOUS
  <2>8. PICK e0 \in Int, t0 \in Int, zm \in Int, km \in Int :
          /\ e0 = e[m - 1] /\ t0 = t[m - 1] /\ zm = z[m] /\ km = k[m]
          /\ e[m] = e0 + zm /\ t[m] = t0 + km
    <3>1. /\ e[m - 1] \in Int /\ t[m - 1] \in Int /\ z[m] \in Int /\ k[m] \in Int
          /\ e[m] = e[m - 1] + z[m] /\ t[m] = t[m - 1] + k[m]
      BY <1>5, <1>6, <2>7, Zenon
    <3>2. QED
      BY <3>1, Zenon
  <2>9. /\ e[m] - t[m] = (e0 + zm) - (t0 + km)
        /\ -b - Decimal <= 2 * ((e0 + zm) - (t0 + km))
        /\ 2 * ((e0 + zm) - (t0 + km)) <= b + Decimal
    <3>1. -b <= 2 * (e0 - t0) /\ 2 * (e0 - t0) <= b
      BY <2>6, <2>8, Zenon
    <3>2. -Decimal <= 2 * (zm - km) /\ 2 * (zm - km) <= Decimal
      BY <1>7, <2>8, Zenon
    <3>3. e[m] - t[m] = (e0 + zm) - (t0 + km)
      BY <2>8, Zenon
    <3>4. QED
      BY <1>1, <3>1, <3>2, <3>3
  <2>10. PICK c \in Int : c = m * Decimal /\ c = b + Decimal
    BY <1>1, <2>4, <2>5
  <2>11. -(m * Decimal) <= 2 * (e[m] - t[m]) /\ 2 * (e[m] - t[m]) <= m * Decimal
    <3>1. PICK u : u = (e0 + zm) - (t0 + km)
      BY Zenon
    <3>2. u \in Int /\ -b - Decimal <= 2 * u /\ 2 * u <= b + Decimal
      BY <2>9, <3>1
    <3>3. -c <= 2 * u /\ 2 * u <= c
      BY <1>1, <2>10, <3>2
    <3>4. QED
      BY <2>9, <2>10, <3>1, <3>3, Zenon
  <2>12. QED
    BY <2>3, <2>11
<1> HIDE DEF G
<1>10. 0..n \subseteq G
  BY <1>8, <1>9, Upwards
<1> USE DEF G
<1>11. QED
  BY <1>2, <1>3, <1>5, <1>6, <1>10

\* An addition that stays finite loses at most half of the distance of doubles.
LEMMA PlusIsNear ==
  ASSUME NEW x \in -MaxDouble..MaxDouble, NEW y \in -MaxDouble..MaxDouble,
         NEW unit \in Nat, Lost(x + y) <= unit,
         \E q \in Int : x = q * Decimal, \E q \in Int : y = q * Decimal,
         Plus(x, y) \notin {Infinity, -Infinity}
  PROVE  /\ Plus(x, y) \in -MaxDouble..MaxDouble
         /\ \E q \in Int : Plus(x, y) = q * Decimal
         /\ -unit <= 2 * (Plus(x, y) - (x + y)) /\ 2 * (Plus(x, y) - (x + y)) <= unit
<1>1. MaxDouble \in Nat /\ Decimal \in Nat
  BY NumbersAssumption
<1>2. PICK w \in Int : w = x + y
  BY <1>1
<1>3. x \notin {Infinity, -Infinity}
  BY <1>1 DEF Infinity
<1>4. Plus(x, y) = Nearest(w)
  BY <1>2, <1>3, Zenon DEF Plus
<1>5. \E q \in Int : w = q * Decimal
  <2>1. PICK p \in Int, q \in Int : x = p * Decimal /\ y = q * Decimal
    OBVIOUS
  <2>2. p + q \in Int /\ w = (p + q) * Decimal
    BY <1>1, <1>2, <2>1
  <2>3. QED
    BY <2>2
<1>6. PICK v : v = Nearest(w)
  BY Zenon
<1>7. /\ v \in -MaxDouble..MaxDouble
      /\ -Lost(w) <= 2 * (v - w) /\ 2 * (v - w) <= Lost(w)
      /\ \E q \in Int : v = q * Decimal
  BY <1>4, <1>5, <1>6, NearestProperties, Zenon
<1>8. Lost(w) \in Nat /\ Lost(w) <= unit
  BY <1>2, LostTyped
<1>9. -unit <= 2 * (v - w) /\ 2 * (v - w) <= unit
  BY <1>1, <1>7, <1>8
<1>10. QED
  BY <1>2, <1>4, <1>6, <1>7, <1>9, Zenon

\* The sum of a node is off by half of that for each addition, or infinite.
LEMMA SumsRound ==
  ASSUME NEW z \in Seq(-MaxDouble..MaxDouble), NEW n \in Nat, n = Len(z),
         NEW unit \in Nat,
         \A i \in 1..n : Lost(Sums(Plus, z)[i - 1] + z[i]) <= unit,
         \A i \in 1..n : \E q \in Int : z[i] = q * Decimal,
         Sums(Plus, z)[n] \notin {Infinity, -Infinity}
  PROVE  /\ Sums(Plus, z)[n] \in -MaxDouble..MaxDouble
         /\ \E q \in Int : Sums(Plus, z)[n] = q * Decimal
         /\ -(n * unit) <= 2 * (Sums(Plus, z)[n] - Exact(z)[n])
         /\ 2 * (Sums(Plus, z)[n] - Exact(z)[n]) <= n * unit
<1>1. /\ MaxDouble \in Nat /\ Decimal \in Nat
      /\ -MaxDouble..MaxDouble \subseteq Doubles
  <2>1. MaxDouble \in Nat /\ Decimal \in Nat
    BY NumbersAssumption
  <2>2. QED
    BY <2>1 DEF Doubles, Infinity
<1>2. PICK e : e = Exact(z)
  BY Zenon
<1>3. PICK s : s = Sums(Plus, z)
  BY Zenon
<1>4. z \in Seq(Int) /\ z \in Seq(Doubles)
  <2>1. -MaxDouble..MaxDouble \subseteq Int
    BY <1>1
  <2>2. QED
    BY <1>1, <2>1, SeqMonotonic
<1>5. /\ e[0] = 0 /\ \A i \in 0..n : e[i] \in Int
      /\ \A i \in 1..n : e[i] = e[i - 1] + z[i] /\ z[i] \in Int
  BY <1>2, <1>4, ExactSums, Zenon
<1>6. s[0] = 0 /\ \A i \in 1..n : s[i] = Plus(s[i - 1], z[i])
  BY <1>3, <1>4, DoubleSums, Zenon
<1>7. \A i \in 1..n : Lost(s[i - 1] + z[i]) <= unit
  BY <1>3, Zenon
<1> DEFINE Near(m) == /\ s[m] \in -MaxDouble..MaxDouble
                      /\ \E q \in Int : s[m] = q * Decimal
                      /\ -(m * unit) <= 2 * (s[m] - e[m])
                      /\ 2 * (s[m] - e[m]) <= m * unit
           G == {m \in 0..n : s[m] \in {Infinity, -Infinity} \/ Near(m)}
<1>8. 0 \in G
  <2>1. 0 = 0 * Decimal /\ 0 * unit = 0
    BY <1>1
  <2>2. \E q \in Int : s[0] = q * Decimal
    BY <1>6, <2>1
  <2>3. s[0] \in -MaxDouble..MaxDouble
    BY <1>1, <1>6
  <2>4. -(0 * unit) <= 2 * (s[0] - e[0]) /\ 2 * (s[0] - e[0]) <= 0 * unit
    BY <1>5, <1>6, <2>1
  <2>5. 0 \in 0..n
    OBVIOUS
  <2>6. QED
    BY <2>2, <2>3, <2>4, <2>5, Zenon
<1>9. ASSUME NEW m \in 1..n, m - 1 \in G PROVE m \in G
  <2>1. m - 1 \in 0..n /\ m \in 0..n
    OBVIOUS
  <2>2. PICK y \in -MaxDouble..MaxDouble : y = z[m]
    BY ElementOfSeq
  <2>3. PICK x : x = s[m - 1]
    BY Zenon
  <2>4. s[m] = Plus(x, y)
    BY <1>6, <2>2, <2>3
  <2>5. CASE x \in {Infinity, -Infinity}
    <3>1. s[m] = x
      BY <2>4, <2>5, Zenon DEF Plus
    <3>2. QED
      BY <2>1, <2>5, <3>1, Zenon
  <2>6. CASE s[m] \in {Infinity, -Infinity}
    BY <2>1, <2>6, Zenon
  <2>7. CASE x \notin {Infinity, -Infinity} /\ s[m] \notin {Infinity, -Infinity}
    <3>1. Near(m - 1)
      BY <1>9, <2>3, <2>7, Zenon
    <3>2. x \in -MaxDouble..MaxDouble /\ \E q \in Int : x = q * Decimal
      BY <2>3, <3>1, Zenon
    <3>3. Lost(x + y) <= unit /\ \E q \in Int : y = q * Decimal
      BY <1>7, <2>2, <2>3, Zenon
    <3>4. Plus(x, y) \notin {Infinity, -Infinity}
      BY <2>4, <2>7, Zenon
    <3>5. PICK v : v = Plus(x, y)
      BY Zenon
    <3>6. /\ v \in -MaxDouble..MaxDouble /\ \E q \in Int : v = q * Decimal
          /\ -unit <= 2 * (v - (x + y)) /\ 2 * (v - (x + y)) <= unit
      BY <3>2, <3>3, <3>4, <3>5, PlusIsNear, Zenon
    <3>7. PICK f \in Int : f = e[m - 1] /\ e[m] = f + y
      <4>1. e[m - 1] \in Int /\ e[m] = e[m - 1] + z[m]
        BY <1>5, <2>1, Zenon
      <4>2. QED
        BY <2>2, <4>1, Zenon
    <3>8. PICK b \in Int, c \in Int :
            b = (m - 1) * unit /\ c = m * unit /\ c = b + unit
      <4>1. m * unit = (m - 1) * unit + unit
        OBVIOUS
      <4>2. QED
        BY <4>1
    <3>9. -b <= 2 * (x - f) /\ 2 * (x - f) <= b
      BY <2>3, <3>1, <3>7, <3>8, Zenon
    <3>10. -c <= 2 * (v - (f + y)) /\ 2 * (v - (f + y)) <= c
      <4>1. x \in Int /\ y \in Int /\ v \in Int
        BY <1>1, <3>2, <3>6
      <4>2. -unit <= 2 * (v - (x + y)) /\ 2 * (v - (x + y)) <= unit /\ c = b + unit
        BY <3>6, <3>8, Zenon
      <4>3. QED
        BY <3>9, <4>1, <4>2
    <3>11. Near(m)
      BY <2>4, <3>5, <3>6, <3>7, <3>8, <3>10, Zenon
    <3>12. QED
      BY <2>1, <3>11, Zenon
  <2>8. QED
    BY <2>5, <2>6, <2>7, Zenon
<1> HIDE DEF G
<1>10. n \in G
  <2>1. 0..n \subseteq G
    BY <1>8, <1>9, Upwards
  <2>2. QED
    BY <2>1
<1>11. Near(n)
  BY <1>3, <1>10, Zenon DEF G
<1>12. QED
  BY <1>2, <1>3, <1>11, Zenon

\* What is displayed for the sum of a node.
IsSumOf(l, k, z, n) ==
  IF Sums(Plus, z)[n] \in {Infinity, -Infinity} THEN l = Double(0)
  ELSE \A unit \in {0} \cup Spacings :
         (\A i \in 1..n : Lost(Sums(Plus, z)[i - 1] + z[i]) <= unit) =>
           /\ -(n * (Decimal + unit)) <= 2 * (ToDouble(l) - Exact(k)[n])
           /\ 2 * (ToDouble(l) - Exact(k)[n]) <= n * (Decimal + unit)

LEMMA DisplayedSum ==
  ASSUME NEW k \in Seq(-MaxDouble..MaxDouble), NEW z \in Seq(-MaxDouble..MaxDouble),
         NEW n \in Nat, n = Len(k), n = Len(z),
         \A i \in 1..n : z[i] = Sent(k[i]),
         NEW d, d = Sent(Sums(Plus, z)[n])
  PROVE  IsSumOf(Double(d), k, z, n)
<1>1. /\ MaxDouble \in Nat /\ Decimal \in Nat
      /\ -MaxDouble..MaxDouble \subseteq Doubles
  <2>1. MaxDouble \in Nat /\ Decimal \in Nat
    BY NumbersAssumption
  <2>2. QED
    BY <2>1 DEF Doubles, Infinity
<1>2. n \in 0..n
  OBVIOUS
<1>3. PICK s : s = Sums(Plus, z)[n]
  BY Zenon
<1>4. CASE s \in {Infinity, -Infinity}
  <2>1. d = 0
    BY <1>3, <1>4, Zenon DEF Sent
  <2>2. QED
    BY <1>3, <1>4, <2>1, Zenon DEF IsSumOf
<1>5. CASE s \notin {Infinity, -Infinity}
  <2>1. SUFFICES
          ASSUME NEW unit \in {0} \cup Spacings,
                 \A i \in 1..n : Lost(Sums(Plus, z)[i - 1] + z[i]) <= unit
          PROVE  /\ -(n * (Decimal + unit)) <= 2 * (ToDouble(Double(d)) - Exact(k)[n])
                 /\ 2 * (ToDouble(Double(d)) - Exact(k)[n]) <= n * (Decimal + unit)
    BY <1>3, <1>5, Zenon DEF IsSumOf
  <2>2. unit \in Nat
    BY NumbersAssumption
  <2>3. \A i \in 1..n : \E q \in Int : z[i] = q * Decimal
    <3>1. SUFFICES ASSUME NEW i \in 1..n PROVE \E q \in Int : z[i] = q * Decimal
      OBVIOUS
    <3>2. k[i] \in -MaxDouble..MaxDouble
      BY ElementOfSeq
    <3>3. QED
      BY <3>2, SentNumber
  <2>4. PICK e, t : e = Exact(z)[n] /\ t = Exact(k)[n]
    BY Zenon
  <2>5. e \in Int /\ t \in Int /\ -(n * Decimal) <= 2 * (e - t) /\ 2 * (e - t) <= n * Decimal
    BY <1>2, <2>4, SumsAreNear, Zenon
  <2>6. /\ s \in -MaxDouble..MaxDouble /\ \E q \in Int : s = q * Decimal
        /\ -(n * unit) <= 2 * (s - e) /\ 2 * (s - e) <= n * unit
    BY <1>3, <1>5, <2>1, <2>2, <2>3, <2>4, SumsRound, Zenon
  <2>7. d = s
    <3>1. Rounded(s) = s
      BY <2>6, RoundedTwice
    <3>2. QED
      BY <1>3, <1>5, <3>1, Zenon DEF Sent
  <2>8. ToDouble(Double(d)) = s
    <3>1. s \in Doubles
      BY <1>1, <2>6
    <3>2. ToDouble(Double(s)) = Sent(s)
      BY <3>1, DoubleSurvives
    <3>3. QED
      <4>1. Sent(s) = s
        BY <1>3, <2>7, Zenon
      <4>2. QED
        BY <2>7, <3>2, <4>1, Zenon
  <2>9. PICK b \in Int, c \in Int :
          b = n * Decimal /\ c = n * unit /\ n * (Decimal + unit) = b + c
    <3>1. n * (Decimal + unit) = n * Decimal + n * unit
      BY <1>1, <2>2
    <3>2. n * Decimal \in Int /\ n * unit \in Int
      BY <1>1, <2>2
    <3>3. QED
      BY <3>1, <3>2, Zenon
  <2>10. -(b + c) <= 2 * (s - t) /\ 2 * (s - t) <= b + c
    <3>1. s \in Int
      BY <1>1, <2>6
    <3>2. -b <= 2 * (e - t) /\ 2 * (e - t) <= b /\ -c <= 2 * (s - e) /\ 2 * (s - e) <= c
      BY <2>5, <2>6, <2>9, Zenon
    <3>3. QED
      BY <2>5, <3>1, <3>2
  <2>11. QED
    BY <2>4, <2>8, <2>9, <2>10, Zenon
<1>6. QED
  BY <1>4, <1>5, Zenon

-----------------------------------------------------------------------------
(***************************************************************************)
(* The inductive invariant.                                                *)
(***************************************************************************)
OnTheWay == stage \in {"pushed", "sent", "received"}

\* The sum that a node computes of the numbers as they arrive there.
SumOf(cmd) == Sums(Plus, Settled(cmd).k)[Len(cmd.k)]

StateOK ==
  /\ stage \in {"prompt", "parsing", "pushed", "sent", "received"}
  /\ way \in {"down", "up", "once"} /\ place \in 0..Depth
  /\ lines \in 0..MaxLines
  /\ line \in Seq(LineParts)
  /\ handled \in ParsedCommands \cup {Refused}
  /\ msg \in Travelling \cup {NoMessage}

\* What was tried and did not fit is not tried again.
ParserOK ==
  /\ parse_happened \in BOOLEAN /\ toTry \in Seq(Types)
  /\ parse_happened =>
       /\ stage = "parsing" /\ res # Refused
       /\ \E type \in Types, loss \in {0, 1} : res = tryParse(type, line, loss)
  /\ stage = "parsing" /\ ~parse_happened =>
       \A type \in Types :
         \/ \E loss \in {0, 1} : tryParse(type, line, loss) = Refused
         \/ \E i \in DOMAIN toTry : toTry[i] = type

\* What is on its way is what was pushed, with decimals lost once or not at all.
TravelOK ==
  OnTheWay =>
    /\ way = "down" => pushed \in SentCommands /\ pushed = handled
    /\ way = "up" =>
         /\ pushed \in SentAnswers
         /\ pushed.type = "GoodExecResp" =>
              handled.type = "CommandExec" /\ pushed.sum = SumOf(handled)
    /\ way = "once" => pushed \in Others
    /\ stage \in {"pushed", "sent"} =>
         /\ msg \in {pushed, Settled(pushed)}
         /\ way = "down" => place < Depth
         /\ way = "up" => place > 0
    /\ stage = "sent" => text = Serialize(msg)
    /\ stage = "received" =>
         /\ msg = Settled(pushed)
         /\ way = "down" => place > 0

ShownOK ==
  /\ stage = "parsing" \/ (OnTheWay /\ way # "once") => shown = <<>>
  /\ Len(shown) = 3 /\ handled.type = "CommandExec" =>
       shown[3] = Double(Sent(SumOf(handled)))

Inv == StateOK /\ ParserOK /\ LineIsUnderstood /\ TravelOK /\ ShownOK

LEMMA Parsed ==
  ASSUME NEW cmd \in ParsedCommands
  PROVE  /\ cmd # Refused /\ cmd # NoMessage
         /\ cmd.type # "CommandPass" => cmd \in SentCommands
         /\ cmd.type = "CommandExec" =>
              /\ cmd = CommandExec(cmd.nodeId, cmd.k)
              /\ cmd.nodeId \in 0..Max16 /\ cmd.k \in Seq(-MaxDouble..MaxDouble)
<1>1. CASE cmd \in [type : {"CommandCreate"}, newNodeId : 0..Max16, parentId : 0..Max16]
  BY <1>1 DEF Refused, NoMessage, SentCommands
<1>2. CASE cmd \in [type : {"CommandExec"}, nodeId : 0..Max16,
                    k : Seq(-MaxDouble..MaxDouble)]
  BY <1>2 DEF Refused, NoMessage, SentCommands, CommandExec
<1>3. CASE cmd = CommandPrintTree
  BY <1>3 DEF Refused, NoMessage, SentCommands, CommandPrintTree
<1>4. CASE cmd \in [type : {"CommandPass"}, time : Int]
  BY <1>4 DEF Refused, NoMessage
<1>5. QED
  BY <1>1, <1>2, <1>3, <1>4 DEF ParsedCommands

LEMMA ListOfTypes ==
  /\ commandTypeList \in Seq(Types)
  /\ \A type \in Types : \E i \in DOMAIN commandTypeList : commandTypeList[i] = type
<1>1. PICK a, b, c, d : /\ a = "Create" /\ b = "Exec" /\ c = "PrintTree" /\ d = "Pass"
  OBVIOUS
<1>2. Types = {a, b, c, d}
  BY <1>1, Zenon DEF Types
<1>3. commandTypeList = <<a, b, c, d>>
  BY <1>1, Zenon DEF commandTypeList
<1>4. QED
  BY <1>2, <1>3

LEMMA EmptyLine ==
  \A type \in Types, loss \in {0, 1} : tryParse(type, <<>>, loss) = Refused
<1>1. ~check_command(<<>>, "create") /\ ~check_command(<<>>, "exec")
  BY Zenon DEF check_command
<1>2. ~check_command(<<>>, "print") /\ ~check_command(<<>>, "pass")
  BY Zenon DEF check_command
<1>3. tryParseCreate(<<>>) = Refused
  BY <1>1, Zenon DEF tryParseCreate
<1>4. tryParseExec(<<>>) = Refused
  BY <1>1, Zenon DEF tryParseExec
<1>5. tryParsePrintTree(<<>>) = Refused
  BY <1>2, Zenon DEF tryParsePrintTree
<1>6. \A loss \in {0, 1} : tryParsePass(<<>>, loss) = Refused
  BY <1>2, Zenon DEF tryParsePass
<1>7. SUFFICES ASSUME NEW type \in Types, NEW loss \in {0, 1}
               PROVE  tryParse(type, <<>>, loss) = Refused
  OBVIOUS
<1>8. QED
  BY <1>3, <1>4, <1>5, <1>6 DEF Types, tryParse

\* No line that no attempt fits is the documented form of a command that can be.
LEMMA NothingFits ==
  ASSUME NEW l \in Seq(LineParts),
         \A type \in Types : \E loss \in {0, 1} : tryParse(type, l, loss) = Refused
  PROVE  \A cmd \in Commands \ {CommandPrintTree} : ~IsFormOf(l, cmd)
BY FormIsAccepted, Zenon

\* The numbers of a command as they arrive, and the sum of them.
LEMMA SumOfNumbers ==
  ASSUME NEW a \in 0..Max16, NEW k \in Seq(-MaxDouble..MaxDouble)
  PROVE  /\ Settled(CommandExec(a, k)).k \in Seq(-MaxDouble..MaxDouble)
         /\ Len(Settled(CommandExec(a, k)).k) = Len(k)
         /\ \A i \in 1..Len(k) : Settled(CommandExec(a, k)).k[i] = Sent(k[i])
         /\ SumOf(CommandExec(a, k)) \in Doubles
<1>1. PICK m : m = CommandExec(a, k)
  BY Zenon
<1>2. m.k = k
  BY <1>1 DEF CommandExec
<1>3. PICK z : z = [i \in DOMAIN k |-> Sent(k[i])]
  BY Zenon
<1>4. Settled(m) = CommandExec(a, z) /\ Settled(m) \in SentCommands
  BY <1>1, <1>3, ExecCrosses, Zenon
<1>5. PICK f : f = Settled(m)
  BY Zenon
<1>6. f.k = z /\ f.k \in Seq(-MaxDouble..MaxDouble)
  <2>1. f.type = "CommandExec" /\ f.k = z
    BY <1>4, <1>5 DEF CommandExec
  <2>2. f \in SentCommands
    BY <1>4, <1>5
  <2>3. QED
    BY <2>1, <2>2 DEF SentCommands, CommandPrintTree
<1>7. PICK n \in Nat : n = Len(k) /\ DOMAIN k = 1..n
  BY LenProperties
<1>8. Len(z) = n /\ \A i \in 1..n : z[i] = Sent(k[i])
  <2>1. DOMAIN z = 1..n
    BY <1>3, <1>7
  <2>2. Len(z) = n
    BY <1>6, <1>7, <2>1, LenProperties
  <2>3. QED
    BY <1>3, <1>7, <2>2
<1>9. Sums(Plus, z)[n] \in Doubles
  <2>1. -MaxDouble..MaxDouble \subseteq Doubles
    <3>1. MaxDouble \in Nat
      BY NumbersAssumption
    <3>2. QED
      BY <3>1 DEF Doubles, Infinity
  <2>2. z \in Seq(Doubles)
    BY <1>6, <2>1, SeqMonotonic
  <2>3. \A i \in 0..n : Sums(Plus, z)[i] \in Doubles
    BY <1>8, <2>2, DoubleSums, Zenon
  <2>4. n \in 0..n
    OBVIOUS
  <2>5. QED
    BY <2>3, <2>4
<1>10. SumOf(m) = Sums(Plus, z)[n]
  BY <1>2, <1>5, <1>6, <1>7, Zenon DEF SumOf
<1>11. QED
  BY <1>1, <1>5, <1>6, <1>7, <1>8, <1>9, <1>10

\* A command that arrived is answered with an answer to it.
LEMMA AnswersToCommand ==
  ASSUME NEW cmd \in SentCommands, NEW a \in Answers(Settled(cmd))
  PROVE  /\ a \in SentAnswers
         /\ a.type = "GoodExecResp" =>
              cmd.type = "CommandExec" /\ a.sum = SumOf(cmd)
<1>1. CASE cmd \in [type : {"CommandCreate"}, newNodeId : 0..Max16, parentId : 0..Max16]
  <2>1. cmd.type = "CommandCreate" /\ Settled(cmd) = cmd
    BY <1>1 DEF Settled
  <2>2. a \in {GoodCreateResp(cmd.newNodeId, pid) : pid \in Pids}
                \cup {BadCreateResp(cmd.parentId, cmd.newNodeId),
                      NodeExistResponse(cmd.newNodeId)}
    BY <2>1 DEF Answers
  <2>3. cmd.newNodeId \in 0..Max16 /\ cmd.parentId \in 0..Max16
    BY <1>1
  <2>4. CASE a \in {GoodCreateResp(cmd.newNodeId, pid) : pid \in Pids}
    BY <2>3, <2>4 DEF GoodCreateResp, SentAnswers
  <2>5. CASE a = BadCreateResp(cmd.parentId, cmd.newNodeId)
    BY <2>3, <2>5 DEF BadCreateResp, SentAnswers
  <2>6. CASE a = NodeExistResponse(cmd.newNodeId)
    BY <2>3, <2>6 DEF NodeExistResponse, SentAnswers
  <2>7. QED
    BY <2>2, <2>4, <2>5, <2>6
<1>2. CASE cmd \in [type : {"CommandExec"}, nodeId : 0..Max16,
                    k : Seq(-MaxDouble..MaxDouble)]
  <2>1. PICK i \in 0..Max16, k \in Seq(-MaxDouble..MaxDouble) : cmd = CommandExec(i, k)
    <3>1. cmd = CommandExec(cmd.nodeId, cmd.k)
      BY <1>2 DEF CommandExec
    <3>2. QED
      BY <1>2, <3>1
  <2>2. cmd.k = k /\ cmd.type = "CommandExec"
    BY <2>1 DEF CommandExec
  <2>3. PICK f : f = Settled(cmd)
    BY Zenon
  <2>4. f.type = "CommandExec" /\ f.nodeId = i
    <3>1. f = CommandExec(i, [j \in DOMAIN k |-> Sent(k[j])])
      BY <2>1, <2>3, ExecCrosses, Zenon
    <3>2. QED
      BY <3>1 DEF CommandExec
  <2>5. Len(f.k) = Len(k) /\ SumOf(cmd) \in Doubles
    BY <2>1, <2>3, SumOfNumbers, Zenon
  <2>6. a = BadExecResp(i) \/ a = executeHere(f)
    BY <2>3, <2>4 DEF Answers
  <2>7. CASE a = BadExecResp(i)
    BY <2>7 DEF BadExecResp, SentAnswers
  <2>8. CASE a = executeHere(f)
    <3>1. SumOf(cmd) = Sums(Plus, f.k)[Len(f.k)]
      BY <2>2, <2>3, <2>5, Zenon DEF SumOf
    <3>2. a = GoodExecResp(i, SumOf(cmd))
      BY <2>4, <2>8, <3>1, Zenon DEF executeHere
    <3>3. QED
      BY <2>2, <2>5, <3>2 DEF GoodExecResp, SentAnswers
  <2>9. QED
    BY <2>6, <2>7, <2>8
<1>3. CASE cmd = CommandPrintTree
  <2>1. cmd.type = "CommandPrintTree" /\ Settled(cmd) = cmd
    BY <1>3 DEF Settled, CommandPrintTree
  <2>2. Answers(Settled(cmd)) = {}
    BY <2>1 DEF Answers
  <2>3. QED
    BY <2>2
<1>4. QED
  BY <1>1, <1>2, <1>3 DEF SentCommands

\* An answer that arrived is displayed with the sum that was sent, if it has one.
LEMMA AnswerDisplayed ==
  ASSUME NEW a \in SentAnswers, Len(formAnswerToUser(Settled(a))) = 3
  PROVE  /\ a.type = "GoodExecResp"
         /\ formAnswerToUser(Settled(a))[3] = Double(Sent(a.sum))
<1>1. CASE a \in [type : {"GoodExecResp"}, id : 0..Max16, sum : Doubles]
  <2>1. PICK i \in 0..Max16, d \in Doubles : a = GoodExecResp(i, d)
    <3>1. a = GoodExecResp(a.id, a.sum)
      BY <1>1 DEF GoodExecResp
    <3>2. QED
      BY <1>1, <3>1
  <2>2. a.type = "GoodExecResp" /\ a.sum = d
    BY <2>1 DEF GoodExecResp
  <2>3. PICK f : f = Settled(a)
    BY Zenon
  <2>4. f = GoodExecResp(i, Sent(d))
    BY <2>1, <2>3, SumCrosses, Zenon
  <2>5. f.type = "GoodExecResp" /\ f.sum = Sent(d)
    BY <2>4 DEF GoodExecResp
  <2>6. PICK w, u, r : w = Word("Ok") /\ u = Unsigned(f.id) /\ r = Double(f.sum)
    OBVIOUS
  <2>7. formAnswerToUser(f) = <<w, u, r>>
    BY <2>5, <2>6 DEF formAnswerToUser
  <2>8. formAnswerToUser(f)[3] = r
    BY <2>7
  <2>9. QED
    BY <2>2, <2>3, <2>5, <2>6, <2>8, Zenon
<1>2. ASSUME a.type # "GoodExecResp" PROVE FALSE
  <2>1. a.type \in {"BadExecResp", "GoodCreateResp", "BadCreateResp", "NodeExistResponse"}
    BY <1>2 DEF SentAnswers
  <2>2. Settled(a) = a
    BY <2>1 DEF Settled
  <2>3. \E x, y : formAnswerToUser(a) = <<x, y>>
    <3>1. CASE a.type = "BadExecResp"
      BY <3>1 DEF formAnswerToUser
    <3>2. CASE a.type = "GoodCreateResp"
      BY <3>2 DEF formAnswerToUser
    <3>3. CASE a.type = "BadCreateResp"
      BY <3>3 DEF formAnswerToUser
    <3>4. CASE a.type = "NodeExistResponse"
      BY <3>4 DEF formAnswerToUser
    <3>5. QED
      BY <2>1, <3>1, <3>2, <3>3, <3>4
  <2>4. Len(formAnswerToUser(a)) = 2
    BY <2>3
  <2>5. QED
    BY <2>2, <2>4
<1>3. QED
  BY <1>1, <1>2 DEF SentAnswers

\* Types of answers and of other messages.
LEMMA AnswerTypes ==
  \A m \in SentAnswers : m.type \notin {"CommandExec", "CommandCreate"}
BY DEF SentAnswers

LEMMA CommandNumbers ==
  ASSUME NEW m \in SentCommands
  PROVE  /\ m.type = "CommandExec" =>
              /\ m.nodeId \in 0..Max16
              /\ \A i \in DOMAIN m.k : m.k[i] \in -MaxDouble..MaxDouble
         /\ m.type = "CommandCreate" => {m.newNodeId, m.parentId} \subseteq 0..Max16
<1>1. CASE m \in [type : {"CommandCreate"}, newNodeId : 0..Max16, parentId : 0..Max16]
  BY <1>1
<1>2. CASE m \in [type : {"CommandExec"}, nodeId : 0..Max16,
                  k : Seq(-MaxDouble..MaxDouble)]
  <2>1. m.nodeId \in 0..Max16 /\ m.k \in Seq(-MaxDouble..MaxDouble)
    BY <1>2
  <2>2. DOMAIN m.k = 1..Len(m.k)
    BY <2>1, LenProperties
  <2>3. \A i \in DOMAIN m.k : m.k[i] \in -MaxDouble..MaxDouble
    BY <2>1, <2>2, ElementOfSeq
  <2>4. m.type = "CommandExec"
    BY <1>2
  <2>5. QED
    BY <2>1, <2>3, <2>4
<1>3. CASE m = CommandPrintTree
  BY <1>3 DEF CommandPrintTree
<1>4. QED
  BY <1>1, <1>2, <1>3 DEF SentCommands

LEMMA InvInit == Init => Inv
<1> SUFFICES ASSUME Init PROVE Inv
  OBVIOUS
<1>1. MaxLines \in Nat /\ Depth \in Nat \ {0}
  BY TypedLineAssumption
<1>2. <<>> \in Seq(LineParts) /\ <<>> \in Seq(Types)
  BY EmptySeq
<1>3. StateOK
  BY <1>1, <1>2 DEF Init, StateOK
<1>4. ParserOK
  BY <1>2 DEF Init, ParserOK
<1>5. LineIsUnderstood
  <2>1. \A cmd \in Commands \ {CommandPrintTree} : ~IsFormOf(line, cmd)
    BY <1>2, EmptyLine, NothingFits DEF Init
  <2>2. QED
    BY <2>1 DEF Init, LineIsUnderstood
<1>6. TravelOK
  BY DEF Init, TravelOK, OnTheWay
<1>7. ShownOK
  BY EmptySeq DEF Init, ShownOK, OnTheWay, Refused
<1>8. QED
  BY <1>3, <1>4, <1>5, <1>6, <1>7 DEF Inv

\* The client's main thread.
LEMMA ReadingKeepsInv == Inv /\ readCommandFromUser => Inv'
<1> SUFFICES ASSUME Inv, readCommandFromUser PROVE Inv'
  OBVIOUS
<1> USE DEF Inv, readCommandFromUser
<1>1. StateOK'
  <2>1. line' \in Seq(LineParts)
    BY TypedLines
  <2>2. lines' \in 0..MaxLines
    BY TypedLineAssumption DEF StateOK
  <2>3. QED
    BY <2>1, <2>2 DEF StateOK
<1>2. ParserOK'
  <2>1. parse_happened = FALSE
    BY DEF ParserOK
  <2>2. toTry' \in Seq(Types) /\ \A type \in Types : \E i \in DOMAIN toTry' : toTry'[i] = type
    BY ListOfTypes
  <2>3. QED
    BY <2>1, <2>2 DEF ParserOK
<1>3. LineIsUnderstood'
  BY DEF LineIsUnderstood
<1>4. TravelOK'
  BY DEF TravelOK, OnTheWay
<1>5. ShownOK'
  BY EmptySeq DEF ShownOK
<1>6. QED
  BY <1>1, <1>2, <1>3, <1>4, <1>5

LEMMA TryingKeepsInv == Inv /\ TryNext => Inv'
<1> SUFFICES ASSUME Inv, TryNext PROVE Inv'
  OBVIOUS
<1>1. /\ stage = "parsing" /\ parse_happened = FALSE /\ toTry # <<>>
      /\ toTry' = Tail(toTry) /\ toTry \in Seq(Types) /\ line \in Seq(LineParts)
      /\ UNCHANGED <<line, handled, stage, way, place, msg, text, pushed, shown, lines>>
  BY DEF Inv, TryNext, ParserOK, StateOK
<1>2. PICK type : type = Head(toTry)
  BY Zenon
<1>3. /\ type \in Types /\ type = toTry[1] /\ Len(toTry) \in Nat \ {0}
      /\ toTry' \in Seq(Types) /\ Len(toTry') = Len(toTry) - 1
      /\ \A i \in 1..(Len(toTry) - 1) : toTry'[i] = toTry[i + 1]
  BY <1>1, <1>2, TailOfLine
<1>4. PICK loss \in {0, 1} :
        IF tryParse(type, line, loss) = Refused THEN UNCHANGED <<res, parse_happened>>
        ELSE res' = tryParse(type, line, loss) /\ parse_happened' = TRUE
  BY <1>2, Zenon DEF TryNext
<1>5. StateOK'
  BY <1>1 DEF Inv, StateOK
<1>6. ParserOK'
  <2>1. CASE tryParse(type, line, loss) # Refused
    BY <1>1, <1>3, <1>4, <2>1 DEF ParserOK
  <2>2. CASE tryParse(type, line, loss) = Refused
    <3>1. parse_happened' = FALSE
      BY <1>1, <1>4, <2>2
    <3>2. ASSUME NEW other \in Types,
                 \A l \in {0, 1} : tryParse(other, line, l) # Refused
          PROVE  \E i \in DOMAIN toTry' : toTry'[i] = other
      <4>1. PICK i \in DOMAIN toTry : toTry[i] = other
        BY <1>1, <3>2 DEF Inv, ParserOK
      <4>2. i # 1
        BY <1>3, <2>2, <3>2, <4>1
      <4>3. DOMAIN toTry = 1..Len(toTry) /\ DOMAIN toTry' = 1..Len(toTry')
        BY <1>1, <1>3, LenProperties
      <4>4. i - 1 \in DOMAIN toTry' /\ toTry'[i - 1] = other
        BY <1>3, <4>1, <4>2, <4>3
      <4>5. QED
        BY <4>4
    <3>3. QED
      BY <1>1, <1>3, <3>1, <3>2 DEF ParserOK
  <2>3. QED
    BY <2>1, <2>2
<1>7. LineIsUnderstood'
  BY <1>1 DEF LineIsUnderstood
<1>8. TravelOK'
  BY <1>1 DEF TravelOK, OnTheWay
<1>9. ShownOK'
  BY <1>1, EmptySeq DEF Inv, ShownOK
<1>10. QED
  BY <1>5, <1>6, <1>7, <1>8, <1>9 DEF Inv

LEMMA RefusingKeepsInv == Inv /\ InvalidInput => Inv'
<1> SUFFICES ASSUME Inv, InvalidInput PROVE Inv'
  OBVIOUS
<1>1. /\ stage = "parsing" /\ parse_happened = FALSE /\ toTry = <<>>
      /\ handled' = Refused /\ stage' = "prompt"
      /\ UNCHANGED <<line, parser, way, place, msg, text, pushed, shown, lines>>
      /\ line \in Seq(LineParts) /\ shown = <<>>
  BY DEF Inv, InvalidInput, ParserOK, StateOK, ShownOK
<1>2. \A type \in Types : \E loss \in {0, 1} : tryParse(type, line, loss) = Refused
  <2>1. DOMAIN toTry = {}
    BY <1>1
  <2>2. QED
    BY <1>1, <2>1 DEF Inv, ParserOK
<1>3. StateOK'
  BY <1>1 DEF Inv, StateOK
<1>4. ParserOK'
  BY <1>1 DEF Inv, ParserOK, parser
<1>5. LineIsUnderstood'
  <2>1. \A cmd \in Commands \ {CommandPrintTree} : ~IsFormOf(line, cmd)
    BY <1>1, <1>2, NothingFits
  <2>2. QED
    BY <1>1, <2>1 DEF LineIsUnderstood
<1>6. TravelOK'
  BY <1>1 DEF TravelOK, OnTheWay
<1>7. ShownOK'
  BY <1>1, EmptySeq DEF ShownOK, OnTheWay
<1>8. QED
  BY <1>3, <1>4, <1>5, <1>6, <1>7 DEF Inv

LEMMA HandlingKeepsInv == Inv /\ Handle => Inv'
<1> SUFFICES ASSUME Inv, Handle PROVE Inv'
  OBVIOUS
<1>1. /\ stage = "parsing" /\ parse_happened' = FALSE /\ handled' = res
      /\ UNCHANGED <<line, toTry, text, shown, lines>>
      /\ line \in Seq(LineParts) /\ shown = <<>> /\ toTry \in Seq(Types)
  BY DEF Inv, Handle, giveResultAndReset, ParserOK, StateOK, ShownOK
<1>2. PICK type \in Types, loss \in {0, 1} :
        res = tryParse(type, line, loss) /\ res # Refused
  BY DEF Inv, Handle, ParserOK
<1>3. res \in ParsedCommands /\ TakenFor(line, res)
  BY <1>1, <1>2, AttemptIsUnderstood, Zenon
<1>4. LineIsUnderstood'
  BY <1>1, <1>2, <1>3, Zenon DEF LineIsUnderstood, TakenFor
<1>5. CASE res.type = "CommandPass"
  <2>1. stage' = "prompt" /\ UNCHANGED <<way, place, msg, pushed>>
    BY <1>5 DEF Handle
  <2>2. StateOK'
    BY <1>1, <1>3, <2>1 DEF Inv, StateOK
  <2>3. ParserOK'
    BY <1>1, <2>1 DEF ParserOK
  <2>4. TravelOK'
    BY <2>1 DEF TravelOK, OnTheWay
  <2>5. ShownOK'
    BY <1>1, <2>1, EmptySeq DEF ShownOK, OnTheWay
  <2>6. QED
    BY <1>4, <2>2, <2>3, <2>4, <2>5 DEF Inv
<1>6. CASE res.type # "CommandPass"
  <2>1. /\ stage' = "pushed" /\ way' = "down" /\ place' = 0
        /\ msg' = res /\ pushed' = res
    BY <1>6 DEF Handle
  <2>2. res \in SentCommands
    BY <1>3, <1>6, Parsed
  <2>3. Depth \in Nat \ {0}
    BY TypedLineAssumption
  <2>4. StateOK'
    BY <1>1, <1>3, <2>1, <2>2, <2>3 DEF Inv, StateOK, Travelling
  <2>5. ParserOK'
    BY <1>1, <2>1 DEF ParserOK
  <2>6. TravelOK'
    BY <1>1, <2>1, <2>2, <2>3 DEF TravelOK, OnTheWay
  <2>7. ShownOK'
    BY <1>1, EmptySeq DEF ShownOK
  <2>8. QED
    BY <1>4, <2>4, <2>5, <2>6, <2>7 DEF Inv
<1>7. QED
  BY <1>5, <1>6

LEMMA DisplayingKeepsInv == Inv /\ Display => Inv'
<1> SUFFICES ASSUME Inv, Display PROVE Inv'
  OBVIOUS
<1>1. /\ stage = "received" /\ way = "up" /\ stage' = "prompt"
      /\ shown' = formAnswerToUser(msg)
      /\ UNCHANGED <<line, parser, handled, way, place, msg, text, pushed, lines>>
  BY DEF Display
<1>2. /\ pushed \in SentAnswers /\ msg = Settled(pushed)
      /\ pushed.type = "GoodExecResp" =>
           handled.type = "CommandExec" /\ pushed.sum = SumOf(handled)
  BY <1>1 DEF Inv, TravelOK, OnTheWay
<1>3. StateOK'
  BY <1>1 DEF Inv, StateOK
<1>4. ParserOK'
  BY <1>1 DEF Inv, ParserOK, parser
<1>5. LineIsUnderstood'
  BY <1>1 DEF Inv, LineIsUnderstood
<1>6. TravelOK'
  BY <1>1 DEF TravelOK, OnTheWay
<1>7. ShownOK'
  <2>1. ASSUME Len(shown') = 3 PROVE shown'[3] = Double(Sent(SumOf(handled)))
    <3>1. /\ pushed.type = "GoodExecResp"
          /\ shown'[3] = Double(Sent(pushed.sum))
      BY <1>1, <1>2, <2>1, AnswerDisplayed
    <3>2. QED
      BY <1>2, <3>1, Zenon
  <2>2. SumOf(handled)' = SumOf(handled)
    BY <1>1 DEF SumOf
  <2>3. QED
    BY <1>1, <2>1, <2>2 DEF ShownOK, OnTheWay
<1>8. QED
  BY <1>3, <1>4, <1>5, <1>6, <1>7 DEF Inv

-----------------------------------------------------------------------------
\* What no connection changes.
Rest == <<line, toTry, res, parse_happened, handled, shown, lines>>

LEMMA RestIsKept ==
  ASSUME Inv, UNCHANGED Rest, stage \notin {"parsing"}, stage' \notin {"parsing"}
  PROVE  ParserOK' /\ LineIsUnderstood'
<1>1. ParserOK'
  BY DEF Inv, ParserOK, Rest
<1>2. LineIsUnderstood'
  BY DEF Inv, LineIsUnderstood, Rest
<1>3. QED
  BY <1>1, <1>2

LEMMA OnTheWayIsTravelling ==
  ASSUME Inv, OnTheWay
  PROVE  pushed \in Travelling
<1>1. way \in {"down", "up", "once"}
  BY DEF Inv, StateOK
<1>2. QED
  BY <1>1 DEF Inv, TravelOK, Travelling

LEMMA DispatchingKeepsInv == Inv /\ Dispatch => Inv'
<1> SUFFICES ASSUME Inv, Dispatch PROVE Inv'
  OBVIOUS
<1>1. /\ stage = "pushed" /\ stage' = "sent" /\ text' = Serialize(msg)
      /\ UNCHANGED Rest /\ UNCHANGED <<way, place, msg, pushed>>
  BY DEF Dispatch, parser, Rest
<1>2. ParserOK' /\ LineIsUnderstood'
  BY <1>1, RestIsKept
<1>3. StateOK'
  BY <1>1 DEF Inv, StateOK, Rest
<1>4. TravelOK'
  <2>1. SumOf(handled)' = SumOf(handled) /\ Settled(pushed)' = Settled(pushed)
    BY <1>1 DEF Rest, SumOf
  <2>2. /\ way = "down" => pushed \in SentCommands /\ pushed = handled
        /\ way = "up" =>
             /\ pushed \in SentAnswers
             /\ pushed.type = "GoodExecResp" =>
                  handled.type = "CommandExec" /\ pushed.sum = SumOf(handled)
        /\ way = "once" => pushed \in Others
        /\ msg \in {pushed, Settled(pushed)}
        /\ way = "down" => place < Depth
        /\ way = "up" => place > 0
    BY <1>1 DEF Inv, TravelOK, OnTheWay
  <2>3. QED
    BY <1>1, <2>1, <2>2 DEF TravelOK, Rest
<1>5. ShownOK'
  <2>1. SumOf(handled)' = SumOf(handled)
    BY <1>1 DEF Rest, SumOf
  <2>2. QED
    BY <1>1, <2>1 DEF Inv, ShownOK, OnTheWay, Rest
<1>6. QED
  BY <1>2, <1>3, <1>4, <1>5 DEF Inv

LEMMA ReceivingKeepsInv == Inv /\ Receive => Inv'
<1> SUFFICES ASSUME Inv, Receive PROVE Inv'
  OBVIOUS
<1>1. /\ stage = "sent" /\ msg' = Deserialize(text)
      /\ stage' = IF msg' = Invalid THEN "lost" ELSE "received"
      /\ UNCHANGED Rest /\ UNCHANGED <<way, pushed>>
      /\ place' = CASE way = "down" -> place + 1
                    [] way = "up" -> place - 1
                    [] OTHER -> place
  BY DEF Receive, parser, Rest
<1>2. /\ way = "down" => pushed \in SentCommands /\ pushed = handled
      /\ way = "up" =>
           /\ pushed \in SentAnswers
           /\ pushed.type = "GoodExecResp" =>
                handled.type = "CommandExec" /\ pushed.sum = SumOf(handled)
      /\ way = "once" => pushed \in Others
      /\ msg \in {pushed, Settled(pushed)} /\ text = Serialize(msg)
      /\ way = "down" => place < Depth
      /\ way = "up" => place > 0
  BY <1>1 DEF Inv, TravelOK, OnTheWay
<1>3. pushed \in Travelling
  BY <1>1, OnTheWayIsTravelling DEF OnTheWay
<1>4. Crosses(pushed) /\ Settled(pushed) \in Travelling
  BY <1>3, TravellersCross
<1>5. Crosses(Settled(pushed))
  BY <1>4, TravellersCross
<1>6. msg' = Settled(pushed) /\ Settled(pushed) # Invalid
  BY <1>1, <1>2, <1>4, <1>5, Zenon DEF Crosses
<1>7. stage' = "received"
  BY <1>1, <1>6
<1>8. ParserOK' /\ LineIsUnderstood'
  BY <1>1, <1>7, RestIsKept
<1>9. place' \in 0..Depth /\ (way = "down" => place' > 0)
  <2>1. place \in 0..Depth /\ Depth \in Nat
    BY TypedLineAssumption DEF Inv, StateOK
  <2>2. QED
    BY <1>1, <1>2, <2>1
<1>10. StateOK'
  BY <1>1, <1>4, <1>6, <1>7, <1>9 DEF Inv, StateOK, Rest
<1>11. SumOf(handled)' = SumOf(handled) /\ Settled(pushed)' = Settled(pushed)
  BY <1>1 DEF Rest, SumOf
<1>12. TravelOK'
  BY <1>1, <1>2, <1>6, <1>7, <1>9, <1>11 DEF TravelOK, Rest
<1>13. ShownOK'
  BY <1>1, <1>7, <1>11 DEF Inv, ShownOK, OnTheWay, Rest
<1>14. QED
  BY <1>8, <1>10, <1>12, <1>13 DEF Inv

LEMMA PassingOnKeepsInv == Inv /\ PassOn => Inv'
<1> SUFFICES ASSUME Inv, PassOn PROVE Inv'
  OBVIOUS
<1>1. /\ stage = "received" /\ stage' = "pushed"
      /\ (way = "down" /\ place < Depth) \/ (way = "up" /\ place > 0)
      /\ UNCHANGED Rest /\ UNCHANGED <<way, place, msg, text, pushed>>
  BY DEF PassOn, parser, Rest
<1>2. ParserOK' /\ LineIsUnderstood'
  BY <1>1, RestIsKept
<1>3. StateOK'
  BY <1>1 DEF Inv, StateOK, Rest
<1>4. SumOf(handled)' = SumOf(handled) /\ Settled(pushed)' = Settled(pushed)
  BY <1>1 DEF Rest, SumOf
<1>5. TravelOK'
  <2>1. /\ way = "down" => pushed \in SentCommands /\ pushed = handled
        /\ way = "up" =>
             /\ pushed \in SentAnswers
             /\ pushed.type = "GoodExecResp" =>
                  handled.type = "CommandExec" /\ pushed.sum = SumOf(handled)
        /\ msg = Settled(pushed)
    BY <1>1 DEF Inv, TravelOK, OnTheWay
  <2>2. QED
    BY <1>1, <1>4, <2>1 DEF TravelOK, Rest
<1>6. ShownOK'
  BY <1>1, <1>4 DEF Inv, ShownOK, OnTheWay, Rest
<1>7. QED
  BY <1>2, <1>3, <1>5, <1>6 DEF Inv

LEMMA AnsweringKeepsInv == Inv /\ Answer => Inv'
<1> SUFFICES ASSUME Inv, Answer PROVE Inv'
  OBVIOUS
<1>1. /\ stage = "received" /\ way = "down" /\ stage' = "pushed" /\ way' = "up"
      /\ msg' \in Answers(msg) /\ pushed' = msg'
      /\ UNCHANGED Rest /\ UNCHANGED <<place, text>>
  BY DEF Answer, parser, Rest
<1>2. /\ pushed \in SentCommands /\ pushed = handled /\ msg = Settled(pushed)
      /\ place > 0
  BY <1>1 DEF Inv, TravelOK, OnTheWay
<1>3. /\ msg' \in SentAnswers
      /\ msg'.type = "GoodExecResp" =>
           handled.type = "CommandExec" /\ msg'.sum = SumOf(handled)
  <2>1. PICK a : a = msg'
    BY Zenon
  <2>2. a \in Answers(Settled(pushed))
    BY <1>1, <1>2, <2>1
  <2>3. /\ a \in SentAnswers
        /\ a.type = "GoodExecResp" =>
             pushed.type = "CommandExec" /\ a.sum = SumOf(pushed)
    BY <1>2, <2>2, AnswersToCommand
  <2>4. QED
    BY <1>2, <2>1, <2>3, Zenon
<1>4. ParserOK' /\ LineIsUnderstood'
  BY <1>1, RestIsKept
<1>5. StateOK'
  BY <1>1, <1>3 DEF Inv, StateOK, Rest, Travelling
<1>6. SumOf(handled)' = SumOf(handled)
  BY <1>1 DEF Rest, SumOf
<1>7. TravelOK'
  BY <1>1, <1>2, <1>3, <1>6 DEF TravelOK, Rest
<1>8. ShownOK'
  BY <1>1, <1>6 DEF Inv, ShownOK, OnTheWay, Rest
<1>9. QED
  BY <1>4, <1>5, <1>7, <1>8 DEF Inv

LEMMA PushingKeepsInv == Inv /\ PushOther => Inv'
<1> SUFFICES ASSUME Inv, PushOther PROVE Inv'
  OBVIOUS
<1>1. /\ stage = "prompt" /\ stage' = "pushed" /\ way' = "once"
      /\ msg' \in Others /\ pushed' = msg'
      /\ UNCHANGED Rest /\ UNCHANGED <<place, text>>
  BY DEF PushOther, parser, Rest
<1>2. ParserOK' /\ LineIsUnderstood'
  BY <1>1, RestIsKept
<1>3. StateOK'
  BY <1>1 DEF Inv, StateOK, Rest, Travelling
<1>4. SumOf(handled)' = SumOf(handled)
  BY <1>1 DEF Rest, SumOf
<1>5. TravelOK'
  BY <1>1 DEF TravelOK
<1>6. ShownOK'
  BY <1>1, <1>4 DEF Inv, ShownOK, OnTheWay, Rest
<1>7. QED
  BY <1>2, <1>3, <1>5, <1>6 DEF Inv

LEMMA TakingKeepsInv == Inv /\ OtherIsTaken => Inv'
<1> SUFFICES ASSUME Inv, OtherIsTaken PROVE Inv'
  OBVIOUS
<1>1. /\ stage = "received" /\ stage' = "prompt"
      /\ UNCHANGED Rest /\ UNCHANGED <<way, place, msg, text, pushed>>
  BY DEF OtherIsTaken, parser, Rest
<1>2. ParserOK' /\ LineIsUnderstood'
  BY <1>1, RestIsKept
<1>3. StateOK'
  BY <1>1 DEF Inv, StateOK, Rest
<1>4. SumOf(handled)' = SumOf(handled)
  BY <1>1 DEF Rest, SumOf
<1>5. TravelOK'
  BY <1>1 DEF TravelOK, OnTheWay
<1>6. ShownOK'
  BY <1>1, <1>4 DEF Inv, ShownOK, OnTheWay, Rest
<1>7. QED
  BY <1>2, <1>3, <1>5, <1>6 DEF Inv

LEMMA InvStep == Inv /\ [Next]_vars => Inv'
<1> SUFFICES ASSUME Inv, [Next]_vars PROVE Inv'
  OBVIOUS
<1>1. CASE Next
  BY <1>1, ReadingKeepsInv, TryingKeepsInv, RefusingKeepsInv, HandlingKeepsInv,
     DisplayingKeepsInv, DispatchingKeepsInv, ReceivingKeepsInv, PassingOnKeepsInv,
     AnsweringKeepsInv, PushingKeepsInv, TakingKeepsInv, Zenon DEF Next
<1>2. CASE UNCHANGED vars
  <2>1. /\ UNCHANGED <<line, toTry, res, parse_happened, handled, stage, way, place>>
        /\ UNCHANGED <<msg, text, pushed, shown, lines>>
    BY <1>2 DEF vars, parser
  <2>2. StateOK' /\ ParserOK' /\ LineIsUnderstood'
    BY <2>1 DEF Inv, StateOK, ParserOK, LineIsUnderstood
  <2>3. SumOf(handled)' = SumOf(handled) /\ Settled(pushed)' = Settled(pushed)
    BY <2>1 DEF SumOf
  <2>4. TravelOK'
    BY <2>1, <2>3 DEF Inv, TravelOK, OnTheWay
  <2>5. ShownOK'
    BY <2>1, <2>3 DEF Inv, ShownOK, OnTheWay
  <2>6. QED
    BY <2>2, <2>4, <2>5 DEF Inv
<1>3. QED
  BY <1>1, <1>2

\* The invariant of a typed line, its command and its answer on their way
\* (Client::mainLoop, ClientParser::parse, Connection, Message::deserialize).
THEOREM Invariance == Spec => []Inv
BY InvInit, InvStep, PTL DEF Spec

-----------------------------------------------------------------------------
(***************************************************************************)
(* What the invariant says.                                                *)
(***************************************************************************)
LEMMA InvTypes == Inv => TypeOK
<1> SUFFICES ASSUME Inv PROVE TypeOK
  OBVIOUS
<1>1. parse_happened => stage = "parsing" /\ res # NoMessage
  <2>1. SUFFICES ASSUME parse_happened PROVE stage = "parsing" /\ res # NoMessage
    OBVIOUS
  <2>2. stage = "parsing" /\ line \in Seq(LineParts)
    BY <2>1 DEF Inv, ParserOK, StateOK
  <2>3. PICK type \in Types, loss \in {0, 1} :
          res = tryParse(type, line, loss) /\ res # Refused
    BY <2>1 DEF Inv, ParserOK
  <2>4. res \in ParsedCommands
    BY <2>2, <2>3, AttemptIsUnderstood, Zenon
  <2>5. QED
    BY <2>2, <2>4, Parsed
<1>2. /\ msg.type = "CommandExec" =>
           /\ msg.nodeId \in 0..Max16
           /\ \A i \in DOMAIN msg.k : msg.k[i] \in -MaxDouble..MaxDouble
      /\ msg.type = "CommandCreate" => {msg.newNodeId, msg.parentId} \subseteq 0..Max16
  <2>1. msg \in SentCommands \/ msg \in SentAnswers \/ msg \in Others \/ msg = NoMessage
    BY DEF Inv, StateOK, Travelling
  <2>2. CASE msg \in SentCommands
    BY <2>2, CommandNumbers, Zenon
  <2>3. CASE msg \in SentAnswers
    BY <2>3, AnswerTypes
  <2>4. CASE msg \in Others
    BY <2>4, OthersCross
  <2>5. CASE msg = NoMessage
    BY <2>5 DEF NoMessage
  <2>6. QED
    BY <2>1, <2>2, <2>3, <2>4, <2>5
<1>3. /\ stage \in {"prompt", "parsing", "pushed", "sent", "received", "lost"}
      /\ way \in {"down", "up", "once"} /\ place \in 0..Depth
      /\ lines \in 0..MaxLines
  BY DEF Inv, StateOK
<1>4. QED
  BY <1>1, <1>2, <1>3, Zenon DEF TypeOK

\* The numbers that a message carries have the width of their C++ types, and
\* the parser holds no command when it is not at work.
THEOREM TypeCorrectness == Spec => []TypeOK
BY Invariance, InvTypes, PTL

\* For all commands and all other lines: a line is handled as the command that
\* it is the documented form of, whatever was typed before, and a line that is
\* handled as a command is its documented form or has a sign or a fraction
\* where the form has a plain number (ClientParser::parse).
THEOREM LinesAreUnderstood == Spec => []LineIsUnderstood
<1>1. Inv => LineIsUnderstood
  BY DEF Inv
<1>2. QED
  BY <1>1, Invariance, PTL

\* For all messages, and for trees of any depth: no message is dropped for its
\* text, and each arrives as it was pushed but for what six decimals cannot say
\* (serialize, Message::deserialize, convertZMQMsgToMsgOrPass).
THEOREM MessagesCross == Spec => []MessagesSurvive
<1>1. Inv => MessagesSurvive
  BY DEF Inv, StateOK, TravelOK, OnTheWay, MessagesSurvive
<1>2. QED
  BY <1>1, Invariance, PTL

\* For all lists of numbers and any distances of doubles: the sum displayed is off
\* by at most half of the last decimal for each number and half of the distance of
\* doubles for each addition, or 0 if the sum is too large for a double (CalcTreeNode::executeHere, Client::formAnswerToUserForGoodExecResp).
THEOREM SumsAreShown == Spec => []SumIsShown
<1>1. Inv => SumIsShown
  <2> SUFFICES ASSUME Inv, stage = "prompt", handled.type = "CommandExec",
                      Len(shown) = 3
               PROVE  SumIsShown
    BY Zenon DEF SumIsShown
  <2>1. handled \in ParsedCommands
    BY DEF Inv, StateOK, Refused
  <2>2. PICK a \in 0..Max16, k \in Seq(-MaxDouble..MaxDouble) :
          handled = CommandExec(a, k)
    BY <2>1, Parsed, Zenon
  <2>3. handled.k = k
    BY <2>2 DEF CommandExec
  <2>4. PICK n \in Nat : n = Len(k)
    BY LenProperties
  <2>5. PICK z : z = Settled(handled).k
    BY Zenon
  <2>6. /\ z \in Seq(-MaxDouble..MaxDouble) /\ Len(z) = n
        /\ \A i \in 1..n : z[i] = Sent(k[i])
    BY <2>2, <2>4, <2>5, SumOfNumbers, Zenon
  <2>7. PICK d : d = Sent(Sums(Plus, z)[n])
    BY Zenon
  <2>8. shown[3] = Double(d)
    <3>1. shown[3] = Double(Sent(SumOf(handled)))
      BY DEF Inv, ShownOK
    <3>2. SumOf(handled) = Sums(Plus, z)[n]
      BY <2>3, <2>4, <2>5, Zenon DEF SumOf
    <3>3. QED
      BY <2>7, <3>1, <3>2, Zenon
  <2>9. IsSumOf(Double(d), k, z, n)
    BY <2>4, <2>6, <2>7, DisplayedSum, Zenon
  <2>10. QED
    BY <2>3, <2>4, <2>5, <2>8, <2>9, Zenon DEF SumIsShown, IsSumOf, Exact
<1>2. QED
  BY <1>1, Invariance, PTL
=============================================================================
