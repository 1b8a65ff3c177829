---------------------------- MODULE LearningProofs ----------------------------
(***************************************************************************)
(* Theorems about LearningProgram, for any number of lessons, repairs and  *)
(* reviews.                                                                *)
(***************************************************************************)
EXTENDS LearningProgram, FiniteSetTheorems, SequenceTheorems, WellFoundedInduction, TLAPS

-----------------------------------------------------------------------------
(* The inductive invariant.                                                *)

\* Along the path the lessons are in order, and what is between two of them is
\* made for the second.
PathOK ==
    /\ Exists => Lessons \subseteq ToSet(path)
    /\ ~Exists => path = <<>>
    /\ \A i \in DOMAIN path : Owner(path[i]) \in Lessons
    /\ \A i, j \in DOMAIN path : i < j =>
          /\ Owner(path[i]) <= Owner(path[j])
          /\ path[i] \in Lessons => Owner(path[i]) < Owner(path[j])

\* What is not in the path has no state, and lessons are made for no lesson.
Outside ==
    /\ \A n \in Lessons : parent[n] = None
    /\ \A x \in Nodes \ ToSet(path) : status[x] = "locked" /\ parent[x] = None

\* A lesson is open exactly when the one before it was passed, a repair always;
\* and only what is open has been studied.
OpenOK ==
    /\ Exists => status[1] # "locked"
    /\ \A n \in Lessons : status[n] # "locked" => \A m \in 1..(n - 1) : passed[m]
    /\ \A n \in Lessons : passed[n] /\ n + 1 \in Lessons => status[n + 1] # "locked"
    /\ \A i \in DOMAIN path : path[i] \in Repairs =>
          status[path[i]] # "locked" /\ status[parent[path[i]]] # "locked"
    /\ \A x \in Nodes :
          /\ passed[x] \/ x \in sessions \/ due[x] # "no" \/ x = turn => status[x] # "locked"
          /\ status[x] = "completed" => passed[x]

\* No lesson has two repairs that were never passed.
OneUnpassed ==
    \A r, q \in Repairs :
        parent[r] # None /\ parent[r] = parent[q] /\ ~passed[r] /\ ~passed[q] => r = q

AllPassed == program = "completed" => \A n \in Lessons : passed[n]

IInv ==
    /\ TypeOK /\ PathOK /\ Outside /\ OpenOK
    /\ OneUnpassed /\ FlagIsBacked /\ AllPassed

-----------------------------------------------------------------------------
(* Sequences and sets of numbers.                                          *)

LEMMA MinOf ==
    ASSUME NEW I \in SUBSET Nat, I # {}
    PROVE  Min(I) \in I /\ \A i \in I : Min(I) <= i
<1> DEFINE Less == {ss \in Nat \X Nat : ss[1] < ss[2]}
<1>1. IsWellFoundedOn(Less, Nat)
  BY NatLessThanWellFounded DEF OpToRel
<1> HIDE DEF Less
<1>2. \E m \in I : \A i \in I : ~(<<i, m>> \in Less)
  <2>1. I \subseteq Nat
    OBVIOUS
  <2> QED BY <1>1, <2>1, WFMin, Zenon
<1>3. PICK m \in I : \A i \in I : ~(<<i, m>> \in Less)
  BY <1>2
<1>4. ASSUME NEW i \in I PROVE m <= i
  <2>1. <<i, m>> \in Nat \X Nat /\ <<i, m>>[1] = i /\ <<i, m>>[2] = m
    OBVIOUS
  <2>2. ~(i < m)
    BY <1>3, <2>1 DEF Less
  <2> QED BY <2>2
<1> QED BY <1>4 DEF Min

LEMMA InsertAtIs ==
    ASSUME NEW S, NEW s \in Seq(S), NEW i \in 1..Len(s), NEW e \in S
    PROVE  LET t == InsertAt(s, i, e) IN
           /\ t \in Seq(S) /\ Len(t) = Len(s) + 1
           /\ \A j \in 1..(Len(s) + 1) :
                 t[j] = IF j < i THEN s[j] ELSE IF j = i THEN e ELSE s[j - 1]
<1> DEFINE a == SubSeq(s, 1, i - 1)
           b == SubSeq(s, i, Len(s))
<1>1. Len(s) \in Nat /\ \A j \in 1..Len(s) : s[j] \in S
  OBVIOUS
<1>2. /\ a \in Seq(S) /\ Len(a) = i - 1
      /\ \A j \in 1..(i - 1) : a[j] = s[j]
  BY <1>1, SubSeqProperties
<1>3. /\ b \in Seq(S) /\ Len(b) = Len(s) - i + 1
      /\ \A j \in 1..(Len(s) - i + 1) : b[j] = s[i + j - 1]
  BY <1>1, SubSeqProperties
<1>4. <<e>> \in Seq(S) /\ Len(<<e>>) = 1 /\ <<e>>[1] = e
  OBVIOUS
<1> HIDE DEF a, b
<1> DEFINE c == a \o <<e>>
<1>5. /\ c \in Seq(S) /\ Len(c) = i
      /\ \A j \in 1..i : c[j] = IF j < i THEN s[j] ELSE e
  <2>1. /\ c \in Seq(S) /\ Len(c) = Len(a) + Len(<<e>>)
        /\ \A j \in 1..(Len(a) + Len(<<e>>)) : c[j] =
              IF j <= Len(a) THEN a[j] ELSE <<e>>[j - Len(a)]
    BY <1>2, <1>4, ConcatProperties
  <2> QED BY <2>1, <1>1, <1>2, <1>4
<1> HIDE DEF c
<1>6. /\ c \o b \in Seq(S) /\ Len(c \o b) = Len(s) + 1
      /\ \A j \in 1..(Len(s) + 1) : (c \o b)[j] = IF j <= i THEN c[j] ELSE b[j - i]
  <2>1. /\ c \o b \in Seq(S) /\ Len(c \o b) = Len(c) + Len(b)
        /\ \A j \in 1..(Len(c) + Len(b)) : (c \o b)[j] =
              IF j <= Len(c) THEN c[j] ELSE b[j - Len(c)]
    BY <1>3, <1>5, ConcatProperties
  <2> QED BY <2>1, <1>1, <1>3, <1>5
<1>7. \A j \in 1..(Len(s) + 1) :
         (c \o b)[j] = IF j < i THEN s[j] ELSE IF j = i THEN e ELSE s[j - 1]
  BY <1>1, <1>3, <1>5, <1>6
<1>8. InsertAt(s, i, e) = c \o b
  BY DEF InsertAt, a, b, c
<1> QED BY <1>6, <1>7, <1>8

-----------------------------------------------------------------------------
(* The path.                                                               *)

LEMMA NodeNumbers ==
    /\ N \in Nat \ {0} /\ 1 \in Lessons /\ Lessons \subseteq Nodes /\ Repairs \subseteq Nodes
    /\ Nodes \subseteq Nat /\ None \notin Nodes
    /\ \A x \in Nodes : x \in Lessons \/ x \in Repairs
    /\ \A x \in Lessons : x \notin Repairs /\ x \in 1..N
    /\ \A x \in Lessons : Owner(x) = x
    /\ \A x \in Repairs : Owner(x) = parent[x]
BY ProgramAssumption DEF Lessons, Repairs, Nodes, Owner

LEMMA PathParts ==
    ASSUME TypeOK
    PROVE  /\ path \in Seq(Nodes) /\ Len(path) \in Nat /\ DOMAIN path = 1..Len(path)
           /\ \A i \in DOMAIN path : path[i] \in Nodes /\ path[i] \in ToSet(path)
           /\ \A i, j \in DOMAIN path : path[i] = path[j] => i = j
           /\ \A x \in ToSet(path) : \E i \in DOMAIN path : path[i] = x
           /\ ToSet(path) \subseteq Nodes
BY DEF TypeOK, ToSet, IsInjective

LEMMA PositionIs ==
    ASSUME TypeOK, NEW x \in ToSet(path)
    PROVE  /\ Position(x) \in DOMAIN path /\ path[Position(x)] = x
           /\ \A i \in DOMAIN path : path[i] = x => i = Position(x)
BY PathParts DEF Position

\* Before a lesson that is locked stands the lesson before it.
LEMMA LockedIs ==
    ASSUME IInv, NEW i \in DOMAIN path, status[path[i]] = "locked"
    PROVE  path[i] \in Lessons /\ path[i] > 1 /\ i > 1 /\ path[i - 1] = path[i] - 1
<1> DEFINE m == path[i]
<1>1. /\ i \in Nat /\ i >= 1 /\ DOMAIN path = 1..Len(path) /\ Len(path) \in Nat
      /\ m \in Nodes /\ Exists
  BY PathParts DEF IInv, PathOK
<1>2. m \in Lessons /\ m \in Nat /\ m # 1 /\ m >= 1 /\ m <= N
  <2>1. m \notin Repairs /\ m # 1
    BY <1>1 DEF IInv, OpenOK
  <2>2. m \in Lessons /\ m \in 1..N
    BY <1>1, <2>1, NodeNumbers
  <2> QED BY <2>1, <2>2, NodeNumbers
<1>3. m - 1 \in Lessons /\ m - 1 \in ToSet(path)
  <2>1. m - 1 \in Lessons
    BY <1>2, NodeNumbers DEF Lessons
  <2> QED BY <1>1, <2>1 DEF IInv, PathOK
<1>4. PICK j \in DOMAIN path : path[j] = m - 1
  BY <1>3, PathParts DEF IInv
<1>5. Owner(m) = m /\ Owner(m - 1) = m - 1
  BY <1>2, <1>3, NodeNumbers
<1>6. j < i
  BY <1>1, <1>2, <1>4, <1>5 DEF IInv, PathOK
<1>7. i - 1 \in DOMAIN path /\ i - 1 < i /\ j <= i - 1
  BY <1>1, <1>4, <1>6
<1>8. CASE j < i - 1
  <2> DEFINE x == path[i - 1]
  <2>1. Owner(x) <= m /\ m - 1 < Owner(x) /\ Owner(x) \in Lessons /\ x \in Nodes
    BY <1>3, <1>4, <1>5, <1>7, <1>8, PathParts DEF IInv, PathOK
  <2>2. Owner(x) = m
    BY <1>2, <2>1 DEF Lessons
  <2>3. x # m
    BY <1>1, <1>7, PathParts DEF IInv
  <2>4. x \in Repairs /\ parent[x] = m
    BY <2>1, <2>2, <2>3, NodeNumbers
  <2> QED BY <1>7, <2>4 DEF IInv, OpenOK
<1> QED BY <1>2, <1>4, <1>6, <1>7, <1>8, <1>1

-----------------------------------------------------------------------------
(* Unlocking.                                                              *)

\* Whatever is practised or repaired, nothing is unlocked by it ...
LEMMA UnlockSame ==
    ASSUME IInv, NEW st \in [Nodes -> MasteryStatuses],
           \A x \in Nodes : st[x] = "locked" => status[x] = "locked",
           \A x \in Nodes : st[x] = "completed" => status[x] = "completed"
    PROVE  Unlock(path, st) = st
<1>1. ASSUME NEW i \in DOMAIN path, st[path[i]] = "locked",
             i = 1 \/ st[path[i - 1]] = "completed"
      PROVE  FALSE
  <2>1. /\ path[i] \in Lessons /\ path[i] > 1 /\ i > 1 /\ path[i - 1] = path[i] - 1
        /\ path[i] \in Nodes /\ status[path[i]] = "locked"
    BY <1>1, LockedIs, PathParts DEF IInv
  <2> DEFINE m == path[i]
  <2>2. m - 1 \in Nodes /\ m - 1 \in Lessons /\ (m - 1) + 1 = m
    BY <2>1, NodeNumbers DEF Lessons
  <2>3. passed[m - 1]
    BY <1>1, <2>1, <2>2 DEF IInv, OpenOK
  <2> QED BY <2>1, <2>2, <2>3 DEF IInv, OpenOK
<1> DEFINE opens == {i \in DOMAIN path : st[path[i]] = "locked"
                                         /\ (i = 1 \/ st[path[i - 1]] = "completed")}
<1>2. opens = {}
  BY <1>1
<1>3. {path[i] : i \in opens} = {}
  BY <1>2
<1>4. Unlock(path, st) = [n \in Nodes |-> IF n \in {path[i] : i \in opens} THEN "ready" ELSE st[n]]
  BY DEF Unlock
<1> HIDE DEF opens
<1> QED BY <1>3, <1>4

\* ... but by a pass, the lesson after it.
Opened(n, x) == n \in Lessons /\ x = n + 1 /\ x \in Lessons /\ status[x] = "locked"

LEMMA UnlockNext ==
    ASSUME IInv, NEW n \in ToSet(path), status[n] # "locked",
           NEW st, st = [status EXCEPT ![n] = "completed"]
    PROVE  /\ Unlock(path, st) \in [Nodes -> MasteryStatuses]
           /\ \A x \in Nodes : Unlock(path, st)[x] =
                 IF Opened(n, x) THEN "ready" ELSE IF x = n THEN "completed" ELSE status[x]
<1> DEFINE opens == {i \in DOMAIN path : st[path[i]] = "locked"
                                         /\ (i = 1 \/ st[path[i - 1]] = "completed")}
<1>1. /\ n \in Nodes /\ status \in [Nodes -> MasteryStatuses] /\ Exists
      /\ st \in [Nodes -> MasteryStatuses] /\ st[n] = "completed"
      /\ \A x \in Nodes : x # n => st[x] = status[x]
  BY PathParts DEF IInv, TypeOK, PathOK, MasteryStatuses
<1>2. Unlock(path, st) = [x \in Nodes |-> IF x \in {path[i] : i \in opens} THEN "ready" ELSE st[x]]
  BY DEF Unlock
<1>3. ASSUME NEW i \in opens PROVE Opened(n, path[i])
  <2>1. /\ i \in DOMAIN path /\ path[i] \in Nodes
        /\ st[path[i]] = "locked" /\ (i = 1 \/ st[path[i - 1]] = "completed")
    BY PathParts DEF IInv
  <2> DEFINE m == path[i]
  <2>2. status[m] = "locked"
    BY <1>1, <2>1
  <2>3. m \in Lessons /\ m > 1 /\ i > 1 /\ path[i - 1] = m - 1
    BY <2>1, <2>2, LockedIs
  <2>4. m - 1 \in Nodes /\ m - 1 \in Lessons /\ (m - 1) + 1 = m
    BY <2>3, NodeNumbers DEF Lessons
  <2>5. ~passed[m - 1]
    BY <2>2, <2>3, <2>4 DEF IInv, OpenOK
  <2>6. m - 1 = n
    BY <1>1, <2>1, <2>3, <2>4, <2>5 DEF IInv, OpenOK
  <2> QED BY <2>2, <2>3, <2>4, <2>6 DEF Opened
<1>4. ASSUME NEW x \in Nodes, Opened(n, x) PROVE \E i \in opens : path[i] = x
  <2>1. n \in Lessons /\ x = n + 1 /\ x \in Lessons /\ status[x] = "locked" /\ x \in ToSet(path)
    BY <1>1, <1>4 DEF Opened, IInv, PathOK
  <2>2. PICK i \in DOMAIN path : path[i] = x
    BY <2>1, PathParts DEF IInv
  <2>3. i > 1 /\ path[i - 1] = x - 1
    BY <2>1, <2>2, LockedIs
  <2>4. x - 1 = n /\ x # n
    BY <2>1, NodeNumbers DEF Lessons
  <2> QED BY <1>1, <2>1, <2>2, <2>3, <2>4
<1> HIDE DEF opens
<1>5. \A x \in Nodes : x \in {path[i] : i \in opens} <=> Opened(n, x)
  BY <1>3, <1>4
<1>6. \A x \in Nodes : Unlock(path, st)[x] = IF Opened(n, x) THEN "ready" ELSE st[x]
  BY <1>2, <1>5
<1>7. ~Opened(n, n)
  BY <1>1, NodeNumbers DEF Opened
<1> QED BY <1>1, <1>2, <1>6, <1>7 DEF MasteryStatuses


-----------------------------------------------------------------------------
(* The focus.                                                              *)

\* Where the first node is with a review that is due, one that is studied, one
\* that is not completed.
AtDue == {i \in 1..Len(path) : due[path[i]] = "now"}
AtStudied == {i \in 1..Len(path) : status[path[i]] \in {"ready", "reviewing"}}
AtUnfinished == {i \in 1..Len(path) : status[path[i]] # "completed"}

FirstOf(I) == IF I # {} THEN Min(I) ELSE 0

LEMMA FocusAt ==
    LET at == IF FirstOf(AtDue) # 0 THEN FirstOf(AtDue)
              ELSE IF FirstOf(AtStudied) # 0 THEN FirstOf(AtStudied)
              ELSE FirstOf(AtUnfinished)
    IN  Focus(status) = IF at = 0 THEN None ELSE path[at]
BY DEF Focus, First, SelectInSeq, FirstOf, AtDue, AtStudied, AtUnfinished

LEMMA FirstOfIs ==
    ASSUME NEW n \in Nat, NEW I \in SUBSET (1..n)
    PROVE  /\ FirstOf(I) = 0 <=> I = {}
           /\ FirstOf(I) # 0 => FirstOf(I) \in I /\ \A i \in I : FirstOf(I) <= i
<1>1. CASE I = {}
  BY <1>1 DEF FirstOf
<1>2. CASE I # {}
  <2>1. I \in SUBSET Nat
    OBVIOUS
  <2>2. Min(I) \in I /\ \A i \in I : Min(I) <= i
    BY <1>2, <2>1, MinOf
  <2>3. FirstOf(I) = Min(I)
    BY <1>2 DEF FirstOf
  <2>4. FirstOf(I) # 0
    BY <2>2, <2>3
  <2> QED BY <1>2, <2>2, <2>3, <2>4
<1> QED BY <1>1, <1>2

\* The focus is a node of the path that is open, or everything is completed.
LEMMA FocusIs ==
    ASSUME IInv
    PROVE  \/ /\ Focus(status) = None
              /\ \A i \in DOMAIN path : status[path[i]] = "completed"
           \/ \E i \in DOMAIN path : Focus(status) = path[i] /\ status[path[i]] # "locked"
<1>1. /\ Len(path) \in Nat /\ DOMAIN path = 1..Len(path)
      /\ AtDue \in SUBSET (1..Len(path)) /\ AtStudied \in SUBSET (1..Len(path))
      /\ AtUnfinished \in SUBSET (1..Len(path))
      /\ \A i \in DOMAIN path : path[i] \in Nodes
  BY PathParts DEF IInv, AtDue, AtStudied, AtUnfinished
<1>2. CASE AtDue # {}
  <2> DEFINE at == FirstOf(AtDue)
  <2>1. at # 0 /\ at \in AtDue
    BY <1>1, <1>2, FirstOfIs
  <2>2. at \in DOMAIN path /\ due[path[at]] = "now"
    BY <1>1, <2>1 DEF AtDue
  <2>3. Focus(status) = path[at]
    BY <2>1, FocusAt
  <2> QED BY <1>1, <2>2, <2>3 DEF IInv, OpenOK
<1>3. CASE AtDue = {} /\ AtStudied # {}
  <2> DEFINE at == FirstOf(AtStudied)
  <2>1. FirstOf(AtDue) = 0 /\ at # 0 /\ at \in AtStudied
    BY <1>1, <1>3, FirstOfIs
  <2>2. at \in DOMAIN path /\ status[path[at]] # "locked"
    BY <1>1, <2>1 DEF AtStudied
  <2>3. Focus(status) = path[at]
    BY <2>1, FocusAt
  <2> QED BY <2>2, <2>3
<1>4. CASE AtDue = {} /\ AtStudied = {} /\ AtUnfinished # {}
  <2> DEFINE at == FirstOf(AtUnfinished)
  <2>1. /\ FirstOf(AtDue) = 0 /\ FirstOf(AtStudied) = 0
        /\ at # 0 /\ at \in AtUnfinished /\ \A i \in AtUnfinished : at <= i
    BY <1>1, <1>4, FirstOfIs
  <2>2. at \in DOMAIN path /\ \A i \in DOMAIN path : i < at => status[path[i]] = "completed"
    <3>1. at \in 1..Len(path)
      BY <1>1, <2>1
    <3>2. ASSUME NEW i \in DOMAIN path, i < at PROVE status[path[i]] = "completed"
      <4>1. i \in 1..Len(path) /\ ~(at <= i)
        BY <1>1, <3>1, <3>2
      <4> QED BY <2>1, <4>1 DEF AtUnfinished
    <3> QED BY <1>1, <3>1, <3>2
  <2>3. Focus(status) = path[at]
    BY <2>1, FocusAt
  <2>4. ASSUME status[path[at]] = "locked" PROVE FALSE
    <3>1. path[at] \in Lessons /\ at > 1 /\ path[at - 1] = path[at] - 1
      BY <2>2, <2>4, LockedIs
    <3>2. at - 1 \in DOMAIN path /\ at - 1 < at
      BY <1>1, <2>2, <3>1
    <3> DEFINE m == path[at]
    <3>3. m - 1 \in Lessons /\ m - 1 \in Nodes /\ (m - 1) + 1 = m
      <4>1. path[at - 1] \in Nodes /\ m \in 1..N /\ m - 1 \in Nodes
        BY <1>1, <3>1, <3>2, NodeNumbers
      <4>2. m - 1 \in Nat /\ m - 1 >= 1
        BY <4>1, NodeNumbers DEF Nodes, Lessons, Repairs
      <4> QED BY <4>1, <4>2, NodeNumbers DEF Lessons
    <3>4. status[m - 1] = "completed"
      BY <2>2, <3>1, <3>2
    <3>5. passed[m - 1]
      BY <3>3, <3>4 DEF IInv, OpenOK
    <3> QED BY <2>4, <3>1, <3>3, <3>5 DEF IInv, OpenOK
  <2> QED BY <2>2, <2>3, <2>4
<1>5. CASE AtDue = {} /\ AtStudied = {} /\ AtUnfinished = {}
  <2>1. FirstOf(AtDue) = 0 /\ FirstOf(AtStudied) = 0 /\ FirstOf(AtUnfinished) = 0
    BY <1>1, <1>5, FirstOfIs
  <2>2. Focus(status) = None
    BY <2>1, FocusAt
  <2> QED BY <1>1, <1>5, <2>2 DEF AtUnfinished
<1> QED BY <1>2, <1>3, <1>4, <1>5

LEMMA FocusOpen == IInv => FocusIsOpen
<1> SUFFICES ASSUME IInv, Exists PROVE FocusIsOpen
  BY DEF FocusIsOpen
<1>1. ASSUME NEW i \in DOMAIN path, Focus(status) = path[i], status[path[i]] # "locked"
      PROVE  FocusIsOpen
  <2>1. Focus(status) # None
    BY <1>1, PathParts, NodeNumbers DEF IInv
  <2> QED BY <1>1, <2>1 DEF FocusIsOpen
<1>2. ASSUME Focus(status) = None, \A i \in DOMAIN path : status[path[i]] = "completed"
      PROVE  FocusIsOpen
  <2>1. \A n \in ToSet(path) : status[n] = "completed"
    BY <1>2, PathParts DEF IInv
  <2> QED BY <1>2, <2>1 DEF FocusIsOpen
<1> QED BY <1>1, <1>2, FocusIs

-----------------------------------------------------------------------------
(* The repairs.                                                            *)

LEMMA RepairsLead == IInv => RepairsLeadToTheirLesson
<1> SUFFICES ASSUME IInv PROVE RepairsLeadToTheirLesson
  OBVIOUS
<1>1. ASSUME NEW r \in ToSet(path) \cap Repairs
      PROVE  /\ parent[r] \in ToSet(path)
             /\ Position(r) < Position(parent[r])
             /\ \A i \in Position(r)..(Position(parent[r]) - 1) : parent[path[i]] = parent[r]
  <2> DEFINE n == parent[r]
             i == Position(r)
             j == Position(n)
  <2>1. i \in DOMAIN path /\ path[i] = r
    BY PositionIs DEF IInv
  <2>2. DOMAIN path = 1..Len(path) /\ Len(path) \in Nat /\ Exists
    BY <2>1, PathParts DEF IInv, PathOK
  <2>3. Owner(r) = n /\ n \in Lessons /\ n \in ToSet(path) /\ Owner(n) = n /\ n \in Nat /\ r # n
    BY <2>1, <2>2, NodeNumbers DEF IInv, PathOK
  <2>4. j \in DOMAIN path /\ path[j] = n
    BY <2>3, PositionIs DEF IInv
  <2> HIDE DEF i, j, n
  <2>5. i < j
    BY <2>1, <2>2, <2>3, <2>4 DEF IInv, PathOK
  <2>6. ASSUME NEW k \in i..(j - 1) PROVE parent[path[k]] = n
    <3>1. k \in DOMAIN path /\ k < j /\ (i = k \/ i < k)
      BY <2>1, <2>2, <2>4, <2>6
    <3>2. Owner(path[k]) \in Lessons /\ path[k] \in Nodes
      BY <3>1, PathParts DEF IInv, PathOK
    <3>3. n <= Owner(path[k]) /\ Owner(path[k]) <= n
      BY <2>1, <2>3, <2>4, <3>1 DEF IInv, PathOK
    <3>4. Owner(path[k]) = n
      BY <2>3, <3>2, <3>3, NodeNumbers DEF Lessons
    <3>5. path[k] \notin Lessons
      BY <2>3, <2>4, <3>1, <3>4 DEF IInv, PathOK
    <3> QED BY <3>2, <3>4, <3>5, NodeNumbers
  <2> QED BY <2>3, <2>5, <2>6 DEF i, j, n
<1>2. ASSUME NEW n \in Lessons PROVE Cardinality({r \in RepairsOf(n) : ~passed[r]}) <= 1
  <2> DEFINE U == {r \in RepairsOf(n) : ~passed[r]}
  <2>1. \A r \in U : r \in Repairs /\ parent[r] = n /\ ~passed[r] /\ parent[r] # None
    <3>1. \A r \in U : r \in Nodes /\ parent[r] = n /\ ~passed[r]
      BY PathParts DEF IInv, RepairsOf
    <3>2. n # None /\ \A r \in Lessons : parent[r] = None
      BY NodeNumbers DEF IInv, Outside
    <3> QED BY <3>1, <3>2, NodeNumbers
  <2>2. \A r, q \in U : r = q
    BY <2>1 DEF IInv, OneUnpassed
  <2> HIDE DEF U
  <2>3. U = {} \/ \E r : U = {r}
    BY <2>2
  <2>4. \A x : Cardinality({x}) = 1
    BY FS_Singleton
  <2>5. Cardinality({}) = 0
    BY FS_EmptySet
  <2>6. Cardinality(U) <= 1
    <3>1. Cardinality(U) \in {0, 1}
      BY <2>3, <2>4, <2>5, Zenon
    <3> QED BY <3>1
  <2> QED BY <2>6 DEF U
<1> QED BY <1>1, <1>2 DEF RepairsLeadToTheirLesson


-----------------------------------------------------------------------------
(* The steps.                                                              *)

LEMMA TypeParts ==
    ASSUME TypeOK
    PROVE  /\ status \in [Nodes -> MasteryStatuses] /\ passed \in [Nodes -> BOOLEAN]
           /\ due \in [Nodes -> {"no", "later", "now"}]
           /\ parent \in [Nodes -> Lessons \cup {None}]
           /\ fails \in [Lessons -> 0..2]
           /\ sessions \subseteq Nodes /\ flagged \subseteq Lessons /\ turn \in Nodes \cup {None}
           /\ path \in Seq(Nodes) /\ IsInjective(path)
BY DEF TypeOK

\* A node that is open is in the path.
LEMMA OpenIsThere ==
    ASSUME IInv, NEW x \in Nodes, status[x] # "locked"
    PROVE  x \in ToSet(path) /\ Exists
<1>1. x \in ToSet(path)
  BY DEF IInv, Outside
<1> QED BY <1>1, PathParts DEF IInv, PathOK

\* The parts of the invariant that only look at the path and the parents.
LEMMA PathFrame ==
    ASSUME IInv, UNCHANGED <<path, parent>>, Exists, Exists'
    PROVE  PathOK'
BY DEF IInv, PathOK, Owner

\* Graded nodes are open: they have, or had, a session.
LEMMA PassHolds ==
    ASSUME IInv, NEW n \in Nodes, status[n] # "locked", Pass(n),
           sessions' = sessions, turn' \in {turn, None}
    PROVE  IInv'
<1> DEFINE st == Unlock(path, [status EXCEPT ![n] = "completed"])
<1>1. n \in ToSet(path) /\ Exists
  BY OpenIsThere
<1>2. /\ st \in [Nodes -> MasteryStatuses]
      /\ \A x \in Nodes : st[x] =
            IF Opened(n, x) THEN "ready" ELSE IF x = n THEN "completed" ELSE status[x]
  BY <1>1, UnlockNext
<1>3. /\ status' = st /\ UNCHANGED <<path, parent, fails>>
      /\ passed' = [passed EXCEPT ![n] = TRUE] /\ due' = [due EXCEPT ![n] = "later"]
      /\ flagged' = flagged \ {Owner(n)}
      /\ program' = IF \A i \in DOMAIN path : st[path[i]] = "completed"
                    THEN "completed" ELSE program
  BY DEF Pass
<1> HIDE DEF st
<1>4. Exists' /\ program' \in {"none", "active", "completed"}
  BY <1>1, <1>3 DEF Exists, IInv, TypeOK
<1>5. /\ passed' \in [Nodes -> BOOLEAN] /\ passed'[n]
      /\ \A x \in Nodes : x # n => passed'[x] = passed[x]
      /\ due' \in [Nodes -> {"no", "later", "now"}]
      /\ \A x \in Nodes : x # n => due'[x] = due[x]
  BY <1>3, TypeParts DEF IInv
<1>6. TypeOK'
  BY <1>2, <1>3, <1>4, <1>5, NodeNumbers DEF IInv, TypeOK
<1>7. PathOK'
  BY <1>1, <1>3, <1>4, PathFrame
<1>8. Outside'
  <2>1. \A x \in Nodes \ ToSet(path) : ~Opened(n, x) /\ x # n
    BY <1>1 DEF Opened, IInv, PathOK
  <2> QED BY <1>2, <1>3, <2>1 DEF IInv, Outside
<1>9. \A x \in Nodes : status[x] # "locked" => status'[x] # "locked"
  BY <1>2, <1>3
<1>10. OpenOK'
  <2>1. status'[1] # "locked"
    BY <1>1, <1>9, NodeNumbers DEF IInv, OpenOK
  <2>2. ASSUME NEW m \in Lessons, status'[m] # "locked", NEW k \in 1..(m - 1)
        PROVE  passed'[k]
    <3>1. k \in Nodes /\ k \in Lessons /\ m \in Nodes
      BY NodeNumbers DEF Lessons
    <3>2. CASE status[m] # "locked"
      BY <1>5, <2>2, <3>1, <3>2 DEF IInv, OpenOK
    <3>3. CASE status[m] = "locked"
      <4>1. Opened(n, m)
        BY <1>2, <1>3, <2>2, <3>1, <3>3
      <4>2. n \in Lessons /\ (k = n \/ k \in 1..(n - 1))
        BY <2>2, <4>1, NodeNumbers DEF Opened, Lessons
      <4> QED BY <1>5, <3>1, <4>2 DEF IInv, OpenOK
    <3> QED BY <3>2, <3>3
  <2>3. ASSUME NEW m \in Lessons, passed'[m], m + 1 \in Lessons
        PROVE  status'[m + 1] # "locked"
    <3>1. m \in Nodes /\ m + 1 \in Nodes
      BY <2>3, NodeNumbers
    <3>2. CASE m = n
      BY <1>2, <1>3, <2>3, <3>1, <3>2, <1>9 DEF Opened
    <3>3. CASE m # n
      BY <1>5, <1>9, <2>3, <3>1, <3>3 DEF IInv, OpenOK
    <3> QED BY <3>2, <3>3
  <2>4. ASSUME NEW i \in DOMAIN path', path'[i] \in Repairs
        PROVE  status'[path'[i]] # "locked" /\ status'[parent'[path'[i]]] # "locked"
    <3>1. i \in DOMAIN path /\ path'[i] = path[i] /\ path[i] \in Nodes
      BY <1>3, <2>4, PathParts DEF IInv
    <3>2. parent[path[i]] \in Nodes
      BY <1>3, <2>4, <3>1, NodeNumbers DEF IInv, PathOK
    <3> QED BY <1>3, <1>9, <2>4, <3>1, <3>2 DEF IInv, OpenOK
  <2>5. ASSUME NEW x \in Nodes
        PROVE  /\ passed'[x] \/ x \in sessions' \/ due'[x] # "no" \/ x = turn' =>
                     status'[x] # "locked"
               /\ status'[x] = "completed" => passed'[x]
    <3>1. CASE x = n
      BY <1>9, <1>5, <3>1
    <3>2. CASE x # n
      <4>1. x # None
        BY NodeNumbers
      <4>2. status'[x] = "completed" => status[x] = "completed"
        BY <1>2, <1>3, <3>2
      <4> QED BY <1>5, <1>9, <3>2, <4>1, <4>2 DEF IInv, OpenOK
    <3> QED BY <3>1, <3>2
  <2> QED BY <2>1, <2>2, <2>3, <2>4, <2>5 DEF OpenOK
<1>11. OneUnpassed'
  <2>1. \A r \in Repairs : ~passed'[r] => ~passed[r]
    BY <1>5, NodeNumbers
  <2> QED BY <1>3, <2>1 DEF IInv, OneUnpassed
<1>12. FlagIsBacked'
  <2> SUFFICES ASSUME NEW m \in flagged, m # Owner(n)
               PROVE  \E r \in RepairsOf(m)' : ~passed'[r]
    BY <1>3 DEF FlagIsBacked
  <2>1. PICK r \in RepairsOf(m) : ~passed[r]
    BY DEF IInv, FlagIsBacked
  <2>2. r \in Nodes /\ parent[r] = m /\ m \in Lessons
    BY <2>1, PathParts, TypeParts DEF IInv, RepairsOf
  <2>3. r \in Repairs
    BY <2>2, NodeNumbers DEF IInv, Outside
  <2>4. r # n
    BY <2>2, <2>3, NodeNumbers
  <2> QED BY <1>3, <1>5, <2>1, <2>2, <2>4 DEF RepairsOf
<1>13. AllPassed'
  <2> SUFFICES ASSUME program' = "completed", NEW m \in Lessons PROVE passed'[m]
    BY DEF AllPassed
  <2>1. m \in Nodes
    BY NodeNumbers
  <2>2. CASE program = "completed"
    BY <1>5, <2>1, <2>2 DEF IInv, AllPassed
  <2>3. CASE program # "completed"
    <3>1. PICK i \in DOMAIN path : path[i] = m
      BY <1>1, PathParts DEF IInv, PathOK
    <3>2. st[m] = "completed"
      BY <1>3, <2>3, <3>1
    <3>3. m = n \/ status[m] = "completed"
      BY <1>2, <2>1, <3>2
    <3> QED BY <1>5, <2>1, <3>3 DEF IInv, OpenOK
  <2> QED BY <2>2, <2>3
<1> QED BY <1>6, <1>7, <1>8, <1>10, <1>11, <1>12, <1>13 DEF IInv


\* A step in which nothing is passed, unlocked or inserted.
LEMMA StudyHolds ==
    ASSUME IInv, TypeOK', UNCHANGED <<program, path, parent, flagged, passed>>,
           \A x \in Nodes :
               /\ status'[x] = "locked" <=> status[x] = "locked"
               /\ status'[x] = "completed" => status[x] = "completed"
               /\ x \in sessions' \/ due'[x] # "no" \/ x = turn' => status[x] # "locked"
    PROVE  IInv'
<1>1. PathOK'
  BY DEF IInv, PathOK, Owner, Exists
<1>2. Outside'
  BY DEF IInv, Outside
<1>3. OpenOK'
  <2>1. Exists' => status'[1] # "locked"
    BY NodeNumbers DEF IInv, OpenOK, Exists
  <2>2. ASSUME NEW m \in Lessons
        PROVE  /\ status'[m] # "locked" => \A k \in 1..(m - 1) : passed'[k]
               /\ passed'[m] /\ m + 1 \in Lessons => status'[m + 1] # "locked"
    BY NodeNumbers DEF IInv, OpenOK
  <2>3. ASSUME NEW i \in DOMAIN path', path'[i] \in Repairs
        PROVE  status'[path'[i]] # "locked" /\ status'[parent'[path'[i]]] # "locked"
    <3>1. i \in DOMAIN path /\ path'[i] = path[i] /\ path[i] \in Nodes
      BY <2>3, PathParts DEF IInv
    <3>2. parent[path[i]] \in Nodes
      BY <2>3, <3>1, NodeNumbers DEF IInv, PathOK
    <3> QED BY <2>3, <3>1, <3>2 DEF IInv, OpenOK
  <2>4. \A x \in Nodes :
           /\ passed'[x] \/ x \in sessions' \/ due'[x] # "no" \/ x = turn' => status'[x] # "locked"
           /\ status'[x] = "completed" => passed'[x]
    BY DEF IInv, OpenOK
  <2> QED BY <2>1, <2>2, <2>3, <2>4 DEF OpenOK
<1>4. OneUnpassed' /\ FlagIsBacked' /\ AllPassed'
  BY DEF IInv, OneUnpassed, FlagIsBacked, AllPassed, RepairsOf
<1> QED BY <1>1, <1>2, <1>3, <1>4 DEF IInv

\* What a handler makes of the statuses, while no pass is among it.
Studied(st) ==
    /\ st \in [Nodes -> MasteryStatuses]
    /\ \A x \in Nodes : /\ st[x] = "locked" <=> status[x] = "locked"
                        /\ st[x] = "completed" => status[x] = "completed"

LEMMA StudiedIs ==
    ASSUME IInv, NEW st, NEW n \in Nodes, status[n] # "locked", Studied(st)
    PROVE  /\ Unlock(path, st) = st
           /\ Studied([status EXCEPT ![n] = "reviewing"])
           /\ Studied([st EXCEPT ![n] = "ready"])
<1>1. status \in [Nodes -> MasteryStatuses]
  BY TypeParts DEF IInv
<1> QED BY <1>1, UnlockSame DEF Studied, MasteryStatuses

LEMMA StudyNothing ==
    ASSUME IInv
    PROVE  Studied(status)
BY TypeParts DEF IInv, Studied

\* What a failed answer leaves as it is, and what it adds.
Failed(n) ==
    /\ fails' = [m \in Lessons |-> IF m = n /\ fails[m] < 2 THEN fails[m] + 1 ELSE fails[m]]
    /\ due' = [due EXCEPT ![n] = "later"]
    /\ UNCHANGED <<program, passed, sessions>>
    /\ turn' \in {turn, None}

LEMMA FailedIs ==
    ASSUME IInv, NEW n \in Nodes, status[n] # "locked", Failed(n)
    PROVE  /\ fails' \in [Lessons -> 0..2]
           /\ due' \in [Nodes -> {"no", "later", "now"}]
           /\ turn' \in Nodes \cup {None}
           /\ \A x \in Nodes :
                 x \in sessions' \/ due'[x] # "no" \/ x = turn' => status[x] # "locked"
<1>1. fails' \in [Lessons -> 0..2] /\ due' \in [Nodes -> {"no", "later", "now"}]
  BY TypeParts DEF IInv, Failed
<1>2. turn' \in Nodes \cup {None} /\ None \notin Nodes
  BY TypeParts, NodeNumbers DEF IInv, Failed
<1>3. \A x \in Nodes : due'[x] # "no" => due[x] # "no" \/ x = n
  BY TypeParts DEF IInv, Failed
<1> QED BY <1>1, <1>2, <1>3 DEF IInv, OpenOK, Failed

LEMMA FailHolds ==
    ASSUME IInv, NEW n \in Nodes, status[n] # "locked", Failed(n), Fail(n) \/ RepairAgain(n)
    PROVE  IInv'
<1>1. status \in [Nodes -> MasteryStatuses]
  BY TypeParts DEF IInv
<1>2. \E st : Studied(st) /\ status' = Unlock(path, st)
  <2>1. CASE Fail(n)
    BY <1>1, <2>1 DEF Fail, Studied, MasteryStatuses
  <2>2. CASE RepairAgain(n)
    <3> DEFINE at == ActiveRepair(n, status)
               I == {i \in 1..Len(path) :
                        path[i] \in RepairsOf(n) /\ status[path[i]] # "completed"}
    <3>1. at = FirstOf(I)
      BY DEF ActiveRepair, First, SelectInSeq, FirstOf
    <3>2. Len(path) \in Nat /\ DOMAIN path = 1..Len(path) /\ I \in SUBSET (1..Len(path))
      BY PathParts DEF IInv
    <3>3. at # 0 /\ status' = Unlock(path, [status EXCEPT ![n] = "reviewing", ![path[at]] = "ready"])
      BY <2>2 DEF RepairAgain
    <3> HIDE DEF at
    <3>4. at \in I
      BY <3>1, <3>2, <3>3, FirstOfIs
    <3>5. at \in DOMAIN path /\ path[at] \in Nodes /\ parent[path[at]] = n
      BY <3>2, <3>4, PathParts DEF IInv, RepairsOf
    <3>6. status[path[at]] # "locked"
      <4>1. path[at] \in Repairs
        BY <3>5, NodeNumbers DEF IInv, Outside
      <4> QED BY <3>5, <4>1 DEF IInv, OpenOK
    <3> QED BY <1>1, <3>3, <3>5, <3>6 DEF Studied, MasteryStatuses
  <2> QED BY <2>1, <2>2
<1>3. Studied(status')
  BY <1>2, StudiedIs
<1>4. UNCHANGED <<path, parent, flagged>>
  BY DEF Fail, RepairAgain
<1>5. TypeOK'
  BY <1>3, <1>4, FailedIs DEF IInv, TypeOK, Failed, Studied
<1> QED BY <1>3, <1>4, <1>5, FailedIs, StudyHolds DEF Failed, Studied


\* The path with a node r put in at p.
Inserted(p, r) ==
    /\ path' \in Seq(Nodes) /\ Len(path') = Len(path) + 1 /\ DOMAIN path' = 1..(Len(path) + 1)
    /\ \A j \in 1..(Len(path) + 1) :
          path'[j] = IF j < p THEN path[j] ELSE IF j = p THEN r ELSE path[j - 1]

LEMMA InsertedPath ==
    ASSUME IInv, NEW n \in Lessons, NEW p \in DOMAIN path, path[p] = n,
           NEW r \in Repairs, r \notin ToSet(path), Inserted(p, r),
           parent' = [parent EXCEPT ![r] = n], UNCHANGED program
    PROVE  /\ PathOK' /\ IsInjective(path')
           /\ ToSet(path') = ToSet(path) \cup {r}
<1>1. /\ Len(path) \in Nat /\ DOMAIN path = 1..Len(path) /\ p \in Nat
      /\ \A i \in DOMAIN path : path[i] \in Nodes /\ path[i] # r
      /\ r \in Nodes /\ r \notin Lessons /\ Exists /\ Exists' /\ Lessons \subseteq Nat
  BY PathParts, NodeNumbers DEF IInv, PathOK, Exists
<1> DEFINE from(j) == IF j < p THEN j ELSE j - 1
<1>2. ASSUME NEW j \in DOMAIN path', j # p
      PROVE  from(j) \in DOMAIN path /\ path'[j] = path[from(j)]
  BY <1>1, <1>2 DEF Inserted
<1>3. \A i, j \in DOMAIN path' : i # p /\ j # p /\ i < j => from(i) < from(j)
  BY <1>1 DEF Inserted
<1>4. p \in DOMAIN path' /\ path'[p] = r
  BY <1>1 DEF Inserted
<1>5. ASSUME NEW i \in DOMAIN path
      PROVE  \E j \in DOMAIN path' : j # p /\ from(j) = i
  <2>1. CASE i < p
    BY <1>1, <2>1 DEF Inserted
  <2>2. CASE i >= p
    <3>1. i + 1 \in DOMAIN path' /\ i + 1 # p /\ ~(i + 1 < p) /\ (i + 1) - 1 = i
      BY <1>1, <2>2 DEF Inserted
    <3> QED BY <3>1
  <2> QED BY <1>1, <2>1, <2>2
<1>6. /\ \A j \in DOMAIN path' : j # p /\ j < p => from(j) < p
      /\ \A j \in DOMAIN path' : j # p /\ p < j => from(j) = p \/ p < from(j)
  BY <1>1 DEF Inserted
<1> HIDE DEF from
<1>7. ToSet(path') = ToSet(path) \cup {r}
  <2>1. ASSUME NEW j \in DOMAIN path' PROVE path'[j] \in ToSet(path) \cup {r}
    BY <1>2, <1>4 DEF ToSet
  <2>2. ASSUME NEW i \in DOMAIN path PROVE path[i] \in ToSet(path')
    BY <1>2, <1>5 DEF ToSet
  <2>3. r \in ToSet(path')
    BY <1>4 DEF ToSet
  <2> QED BY <2>1, <2>2, <2>3 DEF ToSet
<1>8. IsInjective(path')
  <2> SUFFICES ASSUME NEW i \in DOMAIN path', NEW j \in DOMAIN path', i < j, path'[i] = path'[j]
               PROVE  FALSE
    BY <1>1 DEF IsInjective, Inserted
  <2>1. i # p /\ j # p
    <3>1. i \in Nat /\ j \in Nat
      BY <1>1 DEF Inserted
    <3> QED BY <1>1, <1>2, <1>4, <3>1
  <2>2. from(i) < from(j) /\ path[from(i)] = path[from(j)]
        /\ from(i) \in DOMAIN path /\ from(j) \in DOMAIN path
    BY <1>2, <1>3, <2>1
  <2>3. from(i) = from(j)
    BY <2>2, PathParts DEF IInv
  <2> QED BY <1>1, <2>2, <2>3
<1> DEFINE own(x) == IF x \in Repairs THEN parent'[x] ELSE x
<1>9. own(r) = n /\ \A x \in Nodes : x # r => own(x) = Owner(x)
  BY <1>1, TypeParts DEF IInv, Owner
<1>10. Owner(n) = n
  BY NodeNumbers
<1> HIDE DEF own
<1>11. \A j \in DOMAIN path' : j # p => own(path'[j]) = Owner(path[from(j)])
  BY <1>1, <1>2, <1>9
<1>12. own(path'[p]) = n
  BY <1>4, <1>9
<1>13. ASSUME NEW j \in DOMAIN path' PROVE own(path'[j]) \in Lessons
  <2>1. CASE j = p
    BY <1>12, <2>1
  <2>2. CASE j # p
    BY <1>2, <1>11, <2>2 DEF IInv, PathOK
  <2> QED BY <2>1, <2>2
<1>14. ASSUME NEW i \in DOMAIN path', NEW j \in DOMAIN path', i < j
       PROVE  /\ own(path'[i]) <= own(path'[j])
              /\ path'[i] \in Lessons => own(path'[i]) < own(path'[j])
  <2>1. CASE i # p /\ j # p
    BY <1>2, <1>3, <1>11, <1>14, <2>1 DEF IInv, PathOK
  <2>2. CASE i = p
    <3>1. j # p /\ (from(j) = p \/ p < from(j)) /\ from(j) \in DOMAIN path
      <4>1. i \in Nat /\ j \in Nat
        BY <1>1 DEF Inserted
      <4> QED BY <4>1, <1>2, <1>6, <1>14, <2>2
    <3>2. n <= Owner(path[from(j)])
      <4>1. n \in Nat
        BY <1>1
      <4> QED BY <4>1, <1>10, <3>1 DEF IInv, PathOK
    <3> QED BY <1>1, <1>4, <1>11, <1>12, <2>2, <3>1, <3>2
  <2>3. CASE j = p
    <3>1. i # p /\ from(i) < p /\ from(i) \in DOMAIN path /\ path'[i] = path[from(i)]
      <4>1. i \in Nat /\ j \in Nat
        BY <1>1 DEF Inserted
      <4> QED BY <4>1, <1>2, <1>6, <1>14, <2>3
    <3>2. Owner(path[from(i)]) <= n /\ (path'[i] \in Lessons => Owner(path[from(i)]) < n)
      BY <1>10, <3>1 DEF IInv, PathOK
    <3> QED BY <1>11, <1>12, <2>3, <3>1, <3>2
  <2> QED BY <2>1, <2>2, <2>3
<1>15. PathOK'
  <2>1. Lessons \subseteq ToSet(path')
    BY <1>1, <1>7 DEF IInv, PathOK
  <2>2. \A j : Owner(path[j])' = own(path'[j])
    BY DEF Owner, own
  <2> QED BY <1>1, <1>13, <1>14, <2>1, <2>2 DEF PathOK
<1> QED BY <1>7, <1>8, <1>15


LEMMA InsertRepairHolds ==
    ASSUME IInv, NEW n \in Lessons, status[n] # "locked", Failed(n), InsertRepair(n)
    PROVE  IInv' /\ \A m \in Lessons : status'[m] = "locked" <=> status[m] = "locked"
<1>1. n \in Nodes /\ n \in ToSet(path) /\ Exists /\ Exists'
  BY NodeNumbers, OpenIsThere DEF Failed, Exists
<1> DEFINE p == Position(n)
<1>2. p \in DOMAIN path /\ path[p] = n
  BY <1>1, PositionIs DEF IInv
<1>3. PICK r \in Spare :
          /\ path' = InsertAt(path, p, r)
          /\ parent' = [parent EXCEPT ![r] = n]
          /\ flagged' = flagged \cup {n}
          /\ status' = [Unlock(path, [status EXCEPT ![n] = "reviewing"]) EXCEPT ![r] = "ready"]
  BY DEF InsertRepair
<1> HIDE DEF p
<1>4. /\ r \in Repairs /\ r \in Nodes /\ r \notin Lessons /\ r \notin ToSet(path) /\ r # n
      /\ status[r] = "locked" /\ parent[r] = None /\ ~passed[r] /\ r \notin sessions
      /\ due[r] = "no" /\ r # turn
  BY <1>1, NodeNumbers DEF Spare, IInv, Outside, OpenOK
<1>5. Inserted(p, r)
  <2>1. path \in Seq(Nodes) /\ p \in 1..Len(path)
    BY <1>2, PathParts DEF IInv
  <2> DEFINE t == InsertAt(path, p, r)
  <2>4. /\ t \in Seq(Nodes) /\ Len(t) = Len(path) + 1
        /\ \A j \in 1..(Len(path) + 1) :
              t[j] = IF j < p THEN path[j] ELSE IF j = p THEN r ELSE path[j - 1]
    BY <1>4, <2>1, InsertAtIs
  <2> HIDE DEF t
  <2>5. path' = t
    BY <1>3 DEF t
  <2>2. /\ path' \in Seq(Nodes) /\ Len(path') = Len(path) + 1
        /\ \A j \in 1..(Len(path) + 1) :
              path'[j] = IF j < p THEN path[j] ELSE IF j = p THEN r ELSE path[j - 1]
    BY <2>4, <2>5, Zenon
  <2>3. DOMAIN path' = 1..Len(path')
    BY <2>2
  <2> QED BY <2>2, <2>3 DEF Inserted
<1>6. PathOK' /\ IsInjective(path') /\ ToSet(path') = ToSet(path) \cup {r}
  BY <1>2, <1>3, <1>4, <1>5, InsertedPath DEF Failed
<1>7. status' = [[status EXCEPT ![n] = "reviewing"] EXCEPT ![r] = "ready"]
  BY <1>1, <1>3, StudiedIs, StudyNothing
<1>8. /\ status' \in [Nodes -> MasteryStatuses]
      /\ status'[n] = "reviewing" /\ status'[r] = "ready"
      /\ \A x \in Nodes : x # n /\ x # r => status'[x] = status[x]
  BY <1>1, <1>4, <1>7, TypeParts DEF IInv, MasteryStatuses
<1>9. /\ parent' \in [Nodes -> Lessons \cup {None}] /\ parent'[r] = n
      /\ \A x \in Nodes : x # r => parent'[x] = parent[x]
      /\ flagged' \subseteq Lessons
  BY <1>3, <1>4, TypeParts DEF IInv
<1>10. /\ fails' \in [Lessons -> 0..2] /\ due' \in [Nodes -> {"no", "later", "now"}]
       /\ turn' \in Nodes \cup {None}
       /\ \A x \in Nodes :
             x \in sessions' \/ due'[x] # "no" \/ x = turn' => status[x] # "locked"
  BY <1>1, FailedIs
<1>11. TypeOK'
  BY <1>5, <1>6, <1>8, <1>9, <1>10 DEF IInv, TypeOK, Failed, Inserted
<1>12. Outside'
  BY <1>1, <1>4, <1>6, <1>8, <1>9, NodeNumbers DEF IInv, Outside
<1>13. \A x \in Nodes : status[x] # "locked" => status'[x] # "locked"
  BY <1>4, <1>8
<1>14. \A m \in Lessons : status'[m] = "locked" <=> status[m] = "locked"
  BY <1>1, <1>4, <1>8, NodeNumbers
<1>15. OpenOK'
  <2>1. Exists' => status'[1] # "locked"
    BY <1>1, <1>13, NodeNumbers DEF IInv, OpenOK
  <2>2. ASSUME NEW m \in Lessons
        PROVE  /\ status'[m] # "locked" => \A k \in 1..(m - 1) : passed'[k]
               /\ passed'[m] /\ m + 1 \in Lessons => status'[m + 1] # "locked"
    BY <1>14 DEF IInv, OpenOK, Failed
  <2>3. ASSUME NEW i \in DOMAIN path', path'[i] \in Repairs
        PROVE  status'[path'[i]] # "locked" /\ status'[parent'[path'[i]]] # "locked"
    <3>1. path'[i] \in ToSet(path) \cup {r}
      BY <1>6, <2>3 DEF ToSet
    <3>2. CASE path'[i] = r
      BY <1>1, <1>8, <1>9, <3>2
    <3>3. CASE path'[i] # r
      <4>1. PICK j \in DOMAIN path : path[j] = path'[i]
        BY <3>1, <3>3, PathParts DEF IInv
      <4>2. path[j] \in Nodes /\ path[j] \in Repairs /\ Owner(path[j]) \in Nodes
        BY <2>3, <4>1, PathParts, NodeNumbers DEF IInv, PathOK
      <4>3. parent[path[j]] \in Nodes
        BY <4>2, NodeNumbers
      <4> QED BY <1>9, <1>13, <3>3, <4>1, <4>2, <4>3 DEF IInv, OpenOK
    <3> QED BY <3>2, <3>3
  <2>4. ASSUME NEW x \in Nodes
        PROVE  /\ passed'[x] \/ x \in sessions' \/ due'[x] # "no" \/ x = turn' =>
                     status'[x] # "locked"
               /\ status'[x] = "completed" => passed'[x]
    BY <1>8, <1>10, <1>13 DEF IInv, OpenOK, Failed
  <2> QED BY <2>1, <2>2, <2>3, <2>4 DEF OpenOK
<1>16. OneUnpassed'
  <2>1. ASSUME NEW q \in Repairs, parent[q] = n PROVE passed[q]
    <3> DEFINE I == {i \in 1..Len(path) :
                        path[i] \in RepairsOf(n) /\ status[path[i]] # "completed"}
    <3>1. FirstOf(I) = 0
      <4>1. ActiveRepair(n, status) = FirstOf(I)
        BY DEF ActiveRepair, First, SelectInSeq, FirstOf
      <4> QED BY <4>1 DEF InsertRepair
    <3>2. Len(path) \in Nat /\ DOMAIN path = 1..Len(path) /\ I \in SUBSET (1..Len(path))
      BY PathParts DEF IInv
    <3>3. I = {}
      BY <3>1, <3>2, FirstOfIs
    <3>4. q \in Nodes /\ q \in ToSet(path)
      BY <1>1, <2>1, NodeNumbers DEF IInv, Outside
    <3>5. status[q] = "completed"
      BY <2>1, <3>2, <3>3, <3>4, PathParts DEF IInv, RepairsOf
    <3> QED BY <3>4, <3>5 DEF IInv, OpenOK
  <2>2. n # None
    BY <1>1, NodeNumbers
  <2> SUFFICES ASSUME NEW q1 \in Repairs, NEW q2 \in Repairs, parent'[q1] # None,
                      parent'[q1] = parent'[q2], ~passed'[q1], ~passed'[q2]
               PROVE  q1 = q2
    BY DEF OneUnpassed
  <2>3. UNCHANGED passed /\ q1 \in Nodes /\ q2 \in Nodes
    BY NodeNumbers DEF Failed
  <2>4. CASE q1 = r
    BY <1>9, <2>1, <2>3, <2>4
  <2>5. CASE q2 = r
    BY <1>9, <2>1, <2>3, <2>5
  <2>6. CASE q1 # r /\ q2 # r
    BY <1>9, <2>3, <2>6 DEF IInv, OneUnpassed
  <2> QED BY <2>4, <2>5, <2>6
<1>17. FlagIsBacked'
  <2> SUFFICES ASSUME NEW m \in flagged \cup {n}
               PROVE  \E q \in RepairsOf(m)' : ~passed'[q]
    BY <1>3 DEF FlagIsBacked
  <2>1. CASE m = n
    BY <1>4, <1>6, <1>9, <2>1 DEF RepairsOf, Failed
  <2>2. CASE m # n
    <3>1. PICK q \in RepairsOf(m) : ~passed[q]
      BY <2>2 DEF IInv, FlagIsBacked
    <3>2. q \in ToSet(path) /\ q \in Nodes /\ parent[q] = m /\ q # r
      BY <1>4, <3>1, PathParts DEF IInv, RepairsOf
    <3> QED BY <1>6, <1>9, <3>1, <3>2 DEF RepairsOf, Failed
  <2> QED BY <2>1, <2>2
<1>18. AllPassed'
  BY DEF IInv, AllPassed, Failed
<1> QED BY <1>6, <1>11, <1>12, <1>14, <1>15, <1>16, <1>17, <1>18 DEF IInv


-----------------------------------------------------------------------------
(* The handlers.                                                           *)

LEMMA GradedHolds ==
    ASSUME IInv, NEW n \in Nodes, status[n] # "locked", NEW grade \in Grades,
           Graded(n, grade), sessions' = sessions, turn' \in {turn, None}
    PROVE  IInv'
<1>1. CASE grade = "passed"
  BY <1>1, PassHolds DEF Graded
<1>2. CASE grade # "passed"
  <2>1. Failed(n)
    BY <1>2 DEF Graded, Failed
  <2>2. CASE NeedsRepair(n, grade)
    BY <1>2, <2>1, <2>2, FailHolds, InsertRepairHolds DEF Graded, NeedsRepair
  <2>3. CASE ~NeedsRepair(n, grade)
    BY <1>2, <2>1, <2>3, FailHolds DEF Graded
  <2> QED BY <2>2, <2>3
<1> QED BY <1>1, <1>2

LEMMA CreateHolds == ASSUME IInv, CreateProgram PROVE IInv'
<1>1. /\ ~Exists /\ program' = "active" /\ path' = [i \in Lessons |-> i]
      /\ status' = [status EXCEPT ![1] = "ready"]
      /\ UNCHANGED <<due, parent, flagged, sessions, turn, passed, fails>>
      /\ turn = None
  BY DEF CreateProgram, Idle, history
<1>2. path = <<>> /\ ToSet(path) = {}
  BY <1>1 DEF IInv, PathOK, ToSet
<1>3. \A x \in Nodes : /\ status[x] = "locked" /\ parent[x] = None /\ ~passed[x]
                       /\ x \notin sessions /\ due[x] = "no"
  BY <1>2 DEF IInv, Outside, OpenOK
<1>4. /\ path' \in Seq(Nodes) /\ DOMAIN path' = Lessons /\ \A i \in Lessons : path'[i] = i
      /\ IsInjective(path') /\ ToSet(path') = Lessons
  <2>1. path' \in Seq(Nodes)
    BY <1>1, NodeNumbers DEF Lessons
  <2> QED BY <1>1, <2>1 DEF IsInjective, ToSet
<1>5. /\ status' \in [Nodes -> MasteryStatuses] /\ status'[1] = "ready"
      /\ \A x \in Nodes : x # 1 => status'[x] = "locked"
  BY <1>1, <1>3, NodeNumbers, TypeParts DEF IInv, MasteryStatuses
<1>6. TypeOK'
  BY <1>1, <1>4, <1>5 DEF IInv, TypeOK
<1>7. PathOK'
  <2>1. \A i \in Lessons : Owner(path[i])' = i
    BY <1>4, NodeNumbers DEF Owner
  <2>2. Exists' /\ \A i \in Lessons : i \in Nat
    BY <1>1, NodeNumbers DEF Exists
  <2> QED BY <1>4, <2>1, <2>2 DEF PathOK
<1>8. Outside'
  BY <1>1, <1>3, <1>4, <1>5, NodeNumbers DEF Outside
<1>9. OpenOK'
  <2>1. \A m \in Lessons : \A k \in 1..(m - 1) : m # 1
    BY NodeNumbers
  <2>2. \A i \in DOMAIN path' : path'[i] \notin Repairs
    BY <1>4, NodeNumbers
  <2>3. \A x \in Nodes : ~passed'[x] /\ x \notin sessions' /\ due'[x] = "no" /\ x # turn'
                         /\ status'[x] # "completed"
    BY <1>1, <1>3, <1>5, NodeNumbers
  <2>4. \A m \in Lessons : m \in Nodes
    BY NodeNumbers
  <2> QED BY <1>5, <2>1, <2>2, <2>3, <2>4 DEF OpenOK
<1>10. OneUnpassed' /\ AllPassed'
  BY <1>1, <1>3, NodeNumbers DEF OneUnpassed, AllPassed
<1>11. FlagIsBacked'
  <2>1. flagged = {}
    BY <1>2 DEF IInv, FlagIsBacked, RepairsOf
  <2> QED BY <1>1, <2>1 DEF FlagIsBacked
<1> QED BY <1>6, <1>7, <1>8, <1>9, <1>10, <1>11 DEF IInv

\* Without a program there is no state to be wrong.
NoProgram ==
    /\ program = "none" /\ path = <<>> /\ turn = None
    /\ status = Everywhere("locked") /\ passed = Everywhere(FALSE)
    /\ fails = [n \in Lessons |-> 0]
    /\ due = Everywhere("no") /\ parent = Everywhere(None)
    /\ flagged = {} /\ sessions = {}

LEMMA NoProgramHolds == NoProgram => IInv
<1> SUFFICES ASSUME NoProgram PROVE IInv
  OBVIOUS
<1> USE DEF NoProgram
<1>1. \A x \in Nodes : /\ status[x] = "locked" /\ passed[x] = FALSE
                       /\ due[x] = "no" /\ parent[x] = None
  BY DEF Everywhere
<1>2. path \in Seq(Nodes) /\ DOMAIN path = {} /\ ToSet(path) = {} /\ IsInjective(path)
  BY DEF IsInjective, ToSet
<1>3. TypeOK
  <2>1. /\ status \in [Nodes -> MasteryStatuses] /\ passed \in [Nodes -> BOOLEAN]
        /\ due \in [Nodes -> {"no", "later", "now"}]
        /\ parent \in [Nodes -> Lessons \cup {None}]
    BY DEF Everywhere, MasteryStatuses
  <2>2. fails \in [Lessons -> 0..2]
    OBVIOUS
  <2> QED BY <1>2, <2>1, <2>2 DEF TypeOK
<1>4. PathOK /\ FlagIsBacked /\ AllPassed
  BY <1>2 DEF PathOK, FlagIsBacked, AllPassed, Exists
<1>5. Outside /\ OneUnpassed
  BY <1>1, NodeNumbers DEF Outside, OneUnpassed
<1>6. OpenOK
  <2>1. ~Exists /\ \A x \in Lessons : x \in Nodes
    BY NodeNumbers DEF Exists
  <2> QED BY <1>1, <1>2, <2>1, NodeNumbers DEF OpenOK
<1> QED BY <1>3, <1>4, <1>5, <1>6 DEF IInv

LEMMA InitInv == Init => IInv
BY NoProgramHolds DEF Init, NoProgram

LEMMA DeleteHolds == ASSUME DeleteProgram PROVE IInv'
<1>1. NoProgram'
  BY DEF DeleteProgram, Idle, NoProgram, Everywhere
<1> QED BY <1>1, NoProgramHolds, PTL

\* A session of a node that is open, or of the one start_session resolves to.
LEMMA PractisedIs ==
    ASSUME IInv, NEW n \in Nodes, status[n] # "locked"
    PROVE  Studied(Practised(status, n))
BY TypeParts DEF IInv, Studied, Practised, MasteryStatuses

LEMMA UnlockNothing ==
    ASSUME IInv
    PROVE  Unlock(path, status) = status
BY TypeParts, UnlockSame DEF IInv

\* Only what is open is resolved to.
LEMMA ResolvedIs ==
    ASSUME IInv, Exists
    PROVE  Resolved(status) \in Nodes /\ status[Resolved(status)] # "locked"
<1>1. Len(path) \in DOMAIN path
  <2>1. 1 \in ToSet(path)
    BY NodeNumbers DEF IInv, PathOK
  <2> QED BY <2>1, PathParts DEF IInv
<1>2. CASE Focus(status) = None
  <2>1. \A i \in DOMAIN path : Focus(status) # path[i]
    BY <1>2, PathParts, NodeNumbers DEF IInv
  <2>2. status[path[Len(path)]] = "completed"
    BY <1>1, <2>1, FocusIs
  <2> QED BY <1>1, <1>2, <2>2, PathParts DEF IInv, Resolved
<1>3. CASE Focus(status) # None
  BY <1>3, FocusIs, PathParts DEF IInv, Resolved
<1> QED BY <1>2, <1>3

LEMMA StartHolds ==
    ASSUME IInv, NEW n \in Nodes, StartSession(n)
    PROVE  IInv'
<1>1. /\ Unlock(path, status) = status /\ Exists
      /\ status[n] # "locked" \/ n = Resolved(status)
      /\ status' = Practised(status, n) /\ sessions' = sessions \cup {n}
      /\ UNCHANGED <<program, path, due, parent, flagged, turn, passed, fails>>
  BY UnlockNothing DEF StartSession, history
<1>2. status[n] # "locked"
  BY <1>1, ResolvedIs
<1>3. Studied(status')
  BY <1>1, <1>2, PractisedIs
<1>4. TypeOK'
  BY <1>1, <1>3 DEF IInv, TypeOK, Studied
<1>5. \A x \in Nodes : x \in sessions' \/ due'[x] # "no" \/ x = turn' => status[x] # "locked"
  BY <1>1, <1>2 DEF IInv, OpenOK
<1> QED BY <1>1, <1>3, <1>4, <1>5, StudyHolds DEF Studied

LEMMA ChatSessionHolds == ASSUME IInv, ChatSession PROVE IInv'
<1> DEFINE n == Focus(status)
<1>1. /\ Unlock(path, status) = status /\ n # None /\ turn' = n
      /\ status' = status \/ status' = Practised(status, n)
      /\ sessions' = sessions \cup {n}
      /\ UNCHANGED <<program, path, due, parent, flagged, passed, fails>>
  BY UnlockNothing DEF ChatSession, history
<1>2. n \in Nodes /\ status[n] # "locked"
  BY <1>1, FocusIs, PathParts DEF IInv
<1> HIDE DEF n
<1>3. Studied(status')
  BY <1>1, <1>2, PractisedIs, StudyNothing
<1>4. TypeOK'
  BY <1>1, <1>2, <1>3 DEF IInv, TypeOK, Studied
<1>5. \A x \in Nodes : x \in sessions' \/ due'[x] # "no" \/ x = turn' => status[x] # "locked"
  BY <1>1, <1>2 DEF IInv, OpenOK
<1> QED BY <1>1, <1>3, <1>4, <1>5, StudyHolds DEF Studied

\* Time, and the end of a chat turn, only take away what was to be graded or
\* bring forward what was to be reviewed.
LEMMA StillHolds ==
    ASSUME IInv, UNCHANGED <<program, path, status, parent, flagged, sessions, passed, fails>>,
           turn' \in {turn, None}, due' \in [Nodes -> {"no", "later", "now"}],
           \A x \in Nodes : due'[x] # "no" => due[x] # "no"
    PROVE  IInv'
<1>1. TypeOK'
  BY NodeNumbers DEF IInv, TypeOK
<1>2. \A x \in Nodes : x \in sessions' \/ due'[x] # "no" \/ x = turn' => status[x] # "locked"
  BY NodeNumbers DEF IInv, OpenOK
<1> QED BY <1>1, <1>2, StudyHolds

LEMMA NextInv == IInv /\ [Next]_vars => IInv'
<1> SUFFICES ASSUME IInv, [Next]_vars PROVE IInv'
  OBVIOUS
<1>1. CASE CreateProgram
  BY <1>1, CreateHolds
<1>2. CASE DeleteProgram
  BY <1>2, DeleteHolds
<1>3. CASE ChatSession
  BY <1>3, ChatSessionHolds
<1>4. CASE ChatFails
  BY <1>4, StillHolds, TypeParts DEF IInv, ChatFails, history
<1>5. ASSUME NEW grade \in Grades, ChatAnswer(grade) PROVE IInv'
  <2>1. turn \in Nodes /\ status[turn] # "locked"
    BY <1>5, TypeParts DEF IInv, OpenOK, ChatAnswer
  <2> QED BY <1>5, <2>1, GradedHolds DEF ChatAnswer
<1>6. ASSUME NEW n \in Nodes, StartSession(n) PROVE IInv'
  BY <1>6, StartHolds
<1>7. ASSUME NEW n \in Nodes, ReviewFallsDue(n) PROVE IInv'
  <2>1. /\ due' = [due EXCEPT ![n] = "now"] /\ due[n] = "later"
        /\ UNCHANGED <<program, path, status, parent, flagged, sessions, turn, passed, fails>>
    BY <1>7 DEF ReviewFallsDue, history
  <2> QED BY <2>1, StillHolds, TypeParts DEF IInv
<1>8. ASSUME NEW n \in Nodes, NEW grade \in Grades, SubmitResponse(n, grade) PROVE IInv'
  <2>1. n \in sessions /\ status[n] # "locked"
    BY <1>8 DEF IInv, OpenOK, SubmitResponse
  <2> QED BY <1>8, <2>1, GradedHolds DEF SubmitResponse
<1>9. CASE UNCHANGED vars
  BY <1>9, StillHolds, TypeParts DEF IInv, vars, history
<1> QED BY <1>1, <1>2, <1>3, <1>4, <1>5, <1>6, <1>7, <1>8, <1>9 DEF Next

-----------------------------------------------------------------------------
(* The gate: every step is one of GatedPath, or changes nothing there.      *)

Reached == Cardinality({n \in Lessons : status[n] # "locked"})
PassedLessons == {n \in Lessons : passed[n]}

\* What was passed decides which lessons are open, and they are the first ones.
GateTells ==
    /\ Reached \in 0..N
    /\ \A n \in Lessons : n <= Reached <=> Exists /\ (n = 1 \/ passed[n - 1])

LEMMA GateIs == IInv => GateTells
<1> SUFFICES ASSUME IInv PROVE GateTells
  OBVIOUS
<1> DEFINE O == {n \in Lessons : status[n] # "locked"}
           closed == {k \in 1..(N + 1) : k \notin O}
           k == Min(closed)
<1>1. /\ N \in Nat /\ N >= 1 /\ Lessons = 1..N
      /\ \A n \in Lessons : n \in Nodes
  BY NodeNumbers DEF Lessons
<1>2. \A n \in Lessons : status[n] # "locked" <=> Exists /\ (n = 1 \/ passed[n - 1])
  <2> SUFFICES ASSUME NEW n \in Lessons
               PROVE  status[n] # "locked" <=> Exists /\ (n = 1 \/ passed[n - 1])
    OBVIOUS
  <2>1. CASE n = 1
    BY <1>1, <2>1, OpenIsThere DEF IInv, OpenOK
  <2>2. CASE n # 1
    <3>1. n - 1 \in Lessons /\ n - 1 \in 1..(n - 1) /\ (n - 1) + 1 = n /\ n - 1 \in Nodes
      BY <1>1, <2>2
    <3>2. passed[n - 1] => Exists
      BY <3>1, OpenIsThere DEF IInv, OpenOK
    <3> QED BY <1>1, <2>2, <3>1, <3>2, OpenIsThere DEF IInv, OpenOK
  <2> QED BY <2>1, <2>2
<1>3. \A n \in O : \A m \in 1..n : m \in O
  <2> SUFFICES ASSUME NEW n \in O, NEW m \in 1..n, m # n PROVE m \in O
    OBVIOUS
  <2>1. m \in Lessons /\ m \in 1..(n - 1)
    BY <1>1
  <2> QED BY <1>1, <2>1 DEF IInv, OpenOK
<1>4. k \in closed /\ \A i \in closed : k <= i
  <2>1. closed \in SUBSET Nat /\ N + 1 \in closed
    BY <1>1
  <2> HIDE DEF closed
  <2> QED BY <2>1, MinOf
<1>5. k \in 1..(N + 1) /\ k \notin O /\ \A i \in 1..(N + 1) : i \notin O => k <= i
  BY <1>4
<1> HIDE DEF closed, k
<1>6. O = 1..(k - 1)
  <2>1. ASSUME NEW n \in O PROVE n \in 1..(k - 1)
    <3>1. n \in 1..N /\ ~(k \in 1..n)
      BY <1>1, <1>3, <1>5
    <3> QED BY <1>1, <1>5, <3>1
  <2>2. ASSUME NEW n \in 1..(k - 1) PROVE n \in O
    <3>1. n \in 1..(N + 1) /\ ~(k <= n)
      BY <1>1, <1>5
    <3> QED BY <1>5, <3>1
  <2> HIDE DEF O
  <2> QED BY <2>1, <2>2
<1>7. Reached = k - 1
  <2>1. 1 \in Int /\ k \in Int /\ k - 1 \in Int /\ k >= 1
    BY <1>1, <1>5
  <2>2. Cardinality(1..(k - 1)) = IF 1 > k - 1 THEN 0 ELSE (k - 1) - 1 + 1
    BY <2>1, FS_Interval
  <2>3. Cardinality(1..(k - 1)) = k - 1
    BY <2>1, <2>2
  <2>4. Reached = Cardinality(O)
    BY DEF Reached
  <2> HIDE DEF O
  <2> QED BY <1>6, <2>3, <2>4
<1>8. Reached \in 0..N
  BY <1>1, <1>5, <1>7
<1>9. \A n \in Lessons : n <= Reached <=> n \in O
  BY <1>1, <1>5, <1>6, <1>7
<1> QED BY <1>2, <1>8, <1>9 DEF GateTells

GateStep == [Gate!Next]_Gate!gvars

LEMMA GateStutters ==
    ASSUME UNCHANGED <<Reached, PassedLessons, program = "completed">>
    PROVE  GateStep
BY DEF GateStep, Gate!gvars, Reached, PassedLessons

\* Two numbers that are reached by the same lessons are the same.
LEMMA SameReach ==
    ASSUME NEW i \in 0..N, NEW j \in 0..N, \A n \in Lessons : n <= i <=> n <= j
    PROVE  i = j
<1>1. i \in Nat /\ j \in Nat /\ N \in Nat /\ (i \in Lessons \/ i = 0) /\ (j \in Lessons \/ j = 0)
  BY NodeNumbers DEF Lessons
<1>2. i <= j
  BY <1>1
<1>3. j <= i
  BY <1>1
<1> QED BY <1>1, <1>2, <1>3

LEMMA NothingPassed ==
    ASSUME IInv, IInv', UNCHANGED passed, Exists' <=> Exists
    PROVE  UNCHANGED <<Reached, PassedLessons>>
<1>1. GateTells /\ GateTells'
  BY GateIs, PTL
<1>2. Reached' = Reached
  BY <1>1, SameReach DEF GateTells
<1> QED BY <1>2 DEF PassedLessons

LEMMA PassIsGated ==
    ASSUME IInv, IInv', NEW n \in Nodes, status[n] # "locked", Pass(n)
    PROVE  GateStep
<1>1. GateTells /\ GateTells' /\ Exists /\ Exists'
  <2>1. GateTells /\ GateTells'
    BY GateIs, PTL
  <2>2. Exists
    BY OpenIsThere
  <2> QED BY <2>1, <2>2 DEF Pass, Exists
<1>2. /\ passed' \in [Nodes -> BOOLEAN] /\ passed'[n]
      /\ \A x \in Nodes : x # n => passed'[x] = passed[x]
  BY TypeParts DEF IInv, Pass
<1>3. program' = "completed" \/ program' = program
  BY DEF Pass
<1>4. program' = "completed" => PassedLessons' = Lessons
  BY DEF IInv, AllPassed, PassedLessons
<1>5. /\ N \in Nat /\ Lessons = 1..N /\ Gate!Lessons = Lessons
      /\ \A m \in Lessons : m \in Nodes
  BY NodeNumbers DEF Lessons, Gate!Lessons
<1>6. CASE n \in Lessons
  <2>1. PassedLessons' = PassedLessons \cup {n}
    BY <1>2, <1>5, <1>6 DEF PassedLessons
  <2>2. n <= Reached
    <3>1. n # 1 => n - 1 \in 1..(n - 1)
      BY <1>5, <1>6
    <3> QED BY <1>1, <1>6, <3>1 DEF GateTells, IInv, OpenOK
  <2>3. ASSUME NEW m \in Lessons PROVE m <= Reached' <=> m <= Reached \/ m = n + 1
    <3>1. CASE m = 1
      BY <1>1, <1>5, <1>6, <3>1 DEF GateTells
    <3>2. CASE m # 1
      <4>1. m - 1 \in Lessons /\ m - 1 \in Nodes
        BY <1>5, <3>2
      <4>2. passed'[m - 1] <=> passed[m - 1] \/ m - 1 = n
        BY <1>2, <4>1
      <4>3. m - 1 = n <=> m = n + 1
        BY <1>5, <1>6
      <4> QED BY <1>1, <3>2, <4>2, <4>3 DEF GateTells
    <3> QED BY <3>1, <3>2
  <2>4. Reached' = IF n = Reached /\ n < N THEN n + 1 ELSE Reached
    <3>1. Reached \in 0..N /\ Reached' \in 0..N
      BY <1>1 DEF GateTells
    <3> DEFINE to == IF n = Reached /\ n < N THEN n + 1 ELSE Reached
    <3>2. to \in 0..N
      BY <1>5, <1>6, <3>1
    <3>3. \A m \in Lessons : m <= to <=> m <= Reached \/ m = n + 1
      BY <1>5, <1>6, <2>2, <3>1
    <3>4. \A m \in Lessons : m <= Reached' <=> m <= to
      BY <2>3, <3>3
    <3> HIDE DEF to
    <3>5. Reached' = to
      BY <3>1, <3>2, <3>4, SameReach
    <3> QED BY <3>5 DEF to
  <2>5. (program = "completed")' \in
            {program = "completed", PassedLessons' = Lessons \/ program = "completed"}
    BY <1>3, <1>4
  <2>6. Gate!Pass(n)
    BY <1>5, <2>1, <2>2, <2>4, <2>5 DEF Gate!Pass, Reached, PassedLessons
  <2> QED BY <1>5, <1>6, <2>6 DEF GateStep, Gate!Next
<1>7. CASE n \notin Lessons
  <2>1. PassedLessons' = PassedLessons
    BY <1>2, <1>5, <1>7 DEF PassedLessons
  <2>2. \A m \in Lessons : m <= Reached' <=> m <= Reached
    <3> SUFFICES ASSUME NEW m \in Lessons PROVE m <= Reached' <=> m <= Reached
      OBVIOUS
    <3>1. m # 1 => m - 1 \in Lessons /\ m - 1 \in Nodes /\ m - 1 # n
      BY <1>5, <1>7
    <3> QED BY <1>1, <1>2, <3>1 DEF GateTells
  <2>3. Reached' = Reached
    BY <1>1, <2>2, SameReach DEF GateTells
  <2>4. CASE program' = "completed"
    <3>1. Gate!Finish
      BY <1>4, <1>5, <2>1, <2>3, <2>4 DEF Gate!Finish, Reached, PassedLessons
    <3> QED BY <3>1 DEF GateStep, Gate!Next
  <2>5. CASE program' # "completed"
    BY <1>3, <2>1, <2>3, <2>5, GateStutters
  <2> QED BY <2>4, <2>5
<1> QED BY <1>6, <1>7

LEMMA GradedIsGated ==
    ASSUME IInv, IInv', NEW n \in Nodes, status[n] # "locked",
           NEW grade \in Grades, Graded(n, grade)
    PROVE  GateStep
<1>1. CASE Pass(n)
  BY <1>1, PassIsGated
<1>2. CASE UNCHANGED <<program, passed>>
  BY <1>2, NothingPassed, GateStutters DEF Exists
<1> QED BY <1>1, <1>2 DEF Graded

LEMMA CreateIsGated == ASSUME IInv, IInv', CreateProgram PROVE GateStep
<1>1. GateTells /\ GateTells'
  BY GateIs, PTL
<1>2. /\ ~Exists /\ Exists' /\ UNCHANGED passed
      /\ program # "completed" /\ program' # "completed"
  BY DEF CreateProgram, Exists, history
<1>3. \A x \in Nodes : ~passed[x]
  <2>1. ToSet(path) = {}
    BY <1>2 DEF IInv, PathOK, ToSet
  <2> QED BY <2>1 DEF IInv, Outside, OpenOK
<1>4. N \in Nat /\ N >= 1 /\ Lessons = 1..N /\ \A n \in Lessons : n \in Nodes
  BY NodeNumbers DEF Lessons
<1>5. Reached = 0 /\ Reached' = 1
  <2>1. \A n \in Lessons : n <= Reached' <=> n = 1
    <3> SUFFICES ASSUME NEW n \in Lessons, n # 1 PROVE ~(n <= Reached')
      BY <1>1, <1>2 DEF GateTells
    <3>1. n - 1 \in Nodes
      BY <1>4
    <3> QED BY <1>1, <1>2, <1>3, <3>1 DEF GateTells
  <2>2. \A n \in Lessons : ~(n <= Reached)
    BY <1>1, <1>2 DEF GateTells
  <2>3. 0 \in 0..N /\ 1 \in 0..N /\ \A n \in Lessons : (n <= 1 <=> n = 1) /\ ~(n <= 0)
    BY <1>4
  <2>4. Reached \in 0..N /\ Reached' \in 0..N
    BY <1>1 DEF GateTells
  <2> QED BY <2>1, <2>2, <2>3, <2>4, SameReach
<1>6. Gate!Begin
  BY <1>2, <1>5 DEF Gate!Begin, Reached
<1> QED BY <1>6 DEF GateStep, Gate!Next

GateClosed == Reached = 0 /\ PassedLessons = {} /\ program # "completed"

LEMMA NoProgramIsClosed == NoProgram => GateClosed
<1> SUFFICES ASSUME NoProgram PROVE GateClosed
  OBVIOUS
<1>1. {n \in Lessons : status[n] # "locked"} = {} /\ PassedLessons = {}
  BY NodeNumbers DEF NoProgram, Everywhere, PassedLessons
<1>2. program # "completed"
  BY DEF NoProgram
<1> QED BY <1>1, <1>2, FS_EmptySet DEF GateClosed, Reached

LEMMA DeleteIsGated == ASSUME DeleteProgram PROVE GateStep
<1>1. NoProgram'
  BY DEF DeleteProgram, Idle, NoProgram, Everywhere
<1>2. GateClosed'
  BY <1>1, NoProgramIsClosed, PTL
<1>3. Gate!Abandon
  BY <1>2 DEF Gate!Abandon, GateClosed, Reached, PassedLessons
<1> QED BY <1>3 DEF GateStep, Gate!Next

LEMMA NextIsGated == ASSUME IInv, IInv', [Next]_vars PROVE GateStep
<1>1. ASSUME UNCHANGED <<program, passed>> PROVE GateStep
  BY <1>1, NothingPassed, GateStutters DEF Exists
<1>2. ASSUME NEW grade \in Grades, ChatAnswer(grade) PROVE GateStep
  <2>1. turn \in Nodes /\ status[turn] # "locked"
    BY <1>2, TypeParts DEF IInv, OpenOK, ChatAnswer
  <2> QED BY <1>2, <2>1, GradedIsGated DEF ChatAnswer
<1>3. ASSUME NEW n \in Nodes, NEW grade \in Grades, SubmitResponse(n, grade) PROVE GateStep
  <2>1. n \in sessions /\ status[n] # "locked"
    BY <1>3 DEF IInv, OpenOK, SubmitResponse
  <2> QED BY <1>3, <2>1, GradedIsGated DEF SubmitResponse
<1>4. CASE ChatSession \/ ChatFails \/ UNCHANGED vars
  BY <1>1, <1>4 DEF ChatSession, ChatFails, vars, history
<1>5. ASSUME NEW n \in Nodes, StartSession(n) \/ ReviewFallsDue(n) PROVE GateStep
  BY <1>1, <1>5 DEF StartSession, ReviewFallsDue, history
<1> QED BY <1>2, <1>3, <1>4, <1>5, CreateIsGated, DeleteIsGated DEF Next

-----------------------------------------------------------------------------
(* The theorems.                                                           *)

\* Every state of the program's life satisfies IInv.
THEOREM InductiveInvariant == Spec => []IInv
BY InitInv, NextInv, PTL DEF Spec

\* Every variable keeps its type, and no node is twice in the path, whatever
\* is inserted.
THEOREM TypeCorrect == Spec => []TypeOK
<1>1. IInv => TypeOK
  BY DEF IInv
<1> QED BY <1>1, InductiveInvariant, PTL

\* get_live_state, which unlocks nothing, never shows a locked block as the
\* next one, nor an unfinished roadmap as complete.
THEOREM FocusIsAlwaysOpen == Spec => []FocusIsOpen
BY FocusOpen, InductiveInvariant, PTL

\* Repairs stay before the lesson they were made for, and none is made while
\* there is one that was never passed.
THEOREM RepairsAlwaysLead == Spec => []RepairsLeadToTheirLesson
BY RepairsLead, InductiveInvariant, PTL

\* A lesson says that it has a repair only while there is one to pass.
THEOREM FlagsAreBacked == Spec => []FlagIsBacked
<1>1. IInv => FlagIsBacked
  BY DEF IInv
<1> QED BY <1>1, InductiveInvariant, PTL

\* The service keeps what GatedPath promises the learner: every handler is a
\* step of the gate or changes nothing there.
THEOREM LessonsAlwaysGated == Spec => LessonsAreGated
<1>1. Init => Gate!Init
  <2>1. Init => GateClosed
    BY NoProgramIsClosed DEF Init, NoProgram
  <2> QED BY <2>1 DEF GateClosed, Gate!Init, Gate!NoProgram, Reached, PassedLessons
<1>2. IInv /\ IInv' /\ [Next]_vars => [Gate!Next]_Gate!gvars
  BY NextIsGated DEF GateStep
<1> QED BY <1>1, <1>2, InductiveInvariant, PTL DEF Spec, LessonsAreGated, Gate!Spec
=============================================================================
