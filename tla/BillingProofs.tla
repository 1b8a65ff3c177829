---------------------------- MODULE BillingProofs ----------------------------
(***************************************************************************)
(* Theorems about SyncBilling, for any orders, plans, periods and deaths.  *)
(***************************************************************************)
EXTENDS SyncBilling, SequenceTheorems, WellFoundedInduction, TLAPS

-----------------------------------------------------------------------------
(* The inductive invariant: what every database a handler commits is like,  *)
(* the last one and those a death may leave.                                *)

Dbs == [sub : [Orders -> Row],
        recent : Seq(Orders),
        events : [Orders -> [EventTypes -> SUBSET BOOLEAN]],
        plan : Plans,
        quota : Sources]

\* A database while PayOS has the links L and the orders in H were honored:
\* what it grants was paid for, and a row is given up only when its link cannot
\* be paid any more or its order was honored.
Sound(d, L, H) ==
    /\ IsInjective(d.recent) /\ ToSet(d.recent) = Created(d)
    /\ \A o \in Orders :
          /\ d.sub[o].status # "none" => L[o] # "none"
          /\ d.sub[o].status = "active" \/ d.sub[o].grace # 0 => L[o] = "paid"
          /\ L[o] \in {"open", "paid"} /\ d.sub[o].status \in {"canceled", "expired"} => o \in H
    /\ d.plan # "free" => \E o \in Orders : L[o] = "paid"

\* Those that also have the event rows E.
Committed(L, H, E) == {d \in Dbs : Sound(d, L, H) /\ d.events = E}

\* PayOS says what became of a link, and a closed link stays closed.
HooksTell ==
    \A h \in hooks : h[2] \in {"paid", "canceled", "expired"} => link[h[1]] = h[2]

ActiveWasHonored == \A o \in Orders : db.sub[o].status = "active" => o \in honored

\* While no process died, every event row is processed, and a payment that was
\* applied has one.
EventsTell ==
    deaths = 0 => \A o \in Orders :
        /\ \A t \in EventTypes : FALSE \notin db.events[o][t]
        /\ applied[o] > 0 => TRUE \in db.events[o]["payment.paid"]

IInv ==
    /\ TypeOK
    /\ db \in Dbs /\ Sound(db, link, honored)
    /\ HooksTell /\ ActiveWasHonored
    /\ EventsTell /\ AppliedOnce

-----------------------------------------------------------------------------
(* The current subscription: of finitely many rows, one sorts first.        *)

LEMMA Least ==
    ASSUME NEW I \in SUBSET Nat, I # {}
    PROVE  \E m \in I : \A i \in I : m <= i
<1> DEFINE Less == {ss \in Nat \X Nat : ss[1] < ss[2]}
<1>1. IsWellFoundedOn(Less, Nat)
  BY NatLessThanWellFounded DEF OpToRel
<1> HIDE DEF Less
<1>2. \E m \in I : \A i \in I : ~(<<i, m>> \in Less)
  <2>1. I \subseteq Nat
    OBVIOUS
  <2> QED BY <1>1, <2>1, WFMin, Zenon
<1>3. PICK m \in I : \A i \in I : ~(<<i, m>> \in Less)
  BY <1>2
<1>4. ASSUME NEW i \in I PROVE m <= i
  <2>1. <<i, m>> \in Nat \X Nat /\ <<i, m>>[1] = i /\ <<i, m>>[2] = m
    OBVIOUS
  <2>2. ~(i < m)
    BY <1>3, <2>1 DEF Less
  <2> QED BY <2>2
<1> QED BY <1>4

\* Of the places 1..n, with the ranks p and the ends e.
First(i, j, p, e) ==
    \/ p[i] < p[j]
    \/ p[i] = p[j] /\ e[i] > e[j]
    \/ p[i] = p[j] /\ e[i] = e[j] /\ i < j

LEMMA OneIsFirst ==
    ASSUME NEW n \in Nat, n >= 1, NEW p \in [1..n -> Nat], NEW e \in [1..n -> Nat]
    PROVE  \E m \in 1..n : \A j \in 1..n : j # m => First(m, j, p, e)
<1> DEFINE best(k, m) == m \in 1..k /\ \A j \in 1..k : j # m => First(m, j, p, e)
           open == {k \in 1..n : ~\E m \in 1..k : best(k, m)}
<1>1. CASE open = {}
  <2>1. \E m \in 1..n : best(n, m)
    <3>1. n \in 1..n
      OBVIOUS
    <3>2. n \notin open
      <4> HIDE DEF open
      <4> QED BY <1>1
    <3> HIDE DEF best
    <3> QED BY <3>1, <3>2
  <2> QED BY <2>1
<1>2. CASE open # {}
  <2>1. open \in SUBSET Nat
    OBVIOUS
  <2>2. PICK k \in open : \A i \in open : k <= i
    <3> HIDE DEF open
    <3> QED BY <1>2, <2>1, Least
  <2>3. k \in 1..n /\ ~\E m \in 1..k : best(k, m)
    BY <2>2
  <2>4. k # 1
    <3>1. k = 1 => best(k, 1)
      OBVIOUS
    <3> QED BY <2>3, <3>1
  <2>5. k - 1 \in 1..n /\ k - 1 \notin open
    <3>1. k - 1 \in 1..n /\ ~(k <= k - 1)
      BY <2>3, <2>4
    <3> HIDE DEF open
    <3> QED BY <2>2, <3>1
  <2>6. PICK m \in 1..(k - 1) : best(k - 1, m)
    BY <2>5
  <2>7. /\ m \in 1..n /\ p[m] \in Nat /\ e[m] \in Nat /\ p[k] \in Nat /\ e[k] \in Nat
        /\ \A j \in 1..k : p[j] \in Nat /\ e[j] \in Nat /\ (j = k \/ j \in 1..(k - 1))
    BY <2>3, <2>4
  <2> HIDE DEF open
  <2>8. CASE First(m, k, p, e)
    <3>1. best(k, m)
      BY <2>3, <2>6, <2>7, <2>8
    <3> QED BY <2>3, <3>1
  <2>9. CASE ~First(m, k, p, e)
    <3>1. First(k, m, p, e) /\ k \in Nat /\ m \in Nat
      BY <2>3, <2>6, <2>7, <2>9 DEF First
    <3>2. ASSUME NEW j \in 1..(k - 1) PROVE First(k, j, p, e)
      <4>1. CASE j = m
        BY <3>1, <4>1
      <4>2. CASE j # m
        <5>1. First(m, j, p, e) /\ j \in 1..k
          BY <2>6, <4>2, <2>3
        <5>2. p[j] \in Nat /\ e[j] \in Nat /\ j \in Nat /\ k \in Nat /\ m \in Nat
          BY <2>7, <3>1, <5>1
        <5> QED BY <2>7, <3>1, <5>1, <5>2, SMTT(30) DEF First
      <4> QED BY <4>1, <4>2
    <3>3. best(k, k)
      BY <2>3, <2>7, <3>2
    <3> QED BY <2>3, <3>3
  <2> QED BY <2>8, <2>9
<1> QED BY <1>1, <1>2

LEMMA RecentParts ==
    ASSUME NEW d \in Dbs, IsInjective(d.recent), ToSet(d.recent) = Created(d)
    PROVE  /\ d.recent \in Seq(Orders) /\ Len(d.recent) \in Nat
           /\ DOMAIN d.recent = 1..Len(d.recent)
           /\ \A i \in 1..Len(d.recent) :
                 /\ d.recent[i] \in Orders /\ d.recent[i] \in Created(d)
                 /\ At(d, d.recent[i]) = i
           /\ \A o \in Created(d) :
                 /\ o \in Orders /\ At(d, o) \in 1..Len(d.recent) /\ d.recent[At(d, o)] = o
                 /\ d.sub[o] \in Row
<1> DEFINE s == d.recent
<1>1. s \in Seq(Orders) /\ d.sub \in [Orders -> Row]
  BY DEF Dbs
<1> HIDE DEF s
<1>2. /\ Len(s) \in Nat /\ DOMAIN s = 1..Len(s)
      /\ \A i \in 1..Len(s) : s[i] \in Orders
  BY <1>1
<1>3. \A i, j \in 1..Len(s) : s[i] = s[j] => i = j
  BY <1>2 DEF IsInjective, s
<1>4. \A i \in 1..Len(s) : s[i] \in Created(d)
  BY <1>2 DEF ToSet, s
<1>5. \A o \in Created(d) : \E i \in 1..Len(s) : s[i] = o
  BY <1>2 DEF ToSet, s
<1>6. \A i \in 1..Len(s) : At(d, s[i]) = i
  BY <1>3 DEF At, s
<1>7. \A o \in Created(d) : At(d, o) \in 1..Len(s) /\ s[At(d, o)] = o
  BY <1>5, <1>6
<1> QED BY <1>1, <1>2, <1>4, <1>6, <1>7 DEF s, Created

LEMMA CurrentIs ==
    ASSUME NEW d \in Dbs, IsInjective(d.recent), ToSet(d.recent) = Created(d),
           Created(d) # {}, now \in Nat
    PROVE  Current(d) \in Created(d)
<1> DEFINE n == Len(d.recent)
           p == [i \in 1..n |-> Priority(d.sub[d.recent[i]])]
           e == [i \in 1..n |-> d.sub[d.recent[i]].end]
<1>1. n \in Nat /\ n >= 1
  BY RecentParts
<1>2. \A i \in 1..n : d.recent[i] \in Created(d) /\ d.sub[d.recent[i]] \in Row
  BY RecentParts
<1>3. p \in [1..n -> Nat] /\ e \in [1..n -> Nat]
  <2>1. \A row : Priority(row) \in Nat
    BY DEF Priority
  <2>2. \A i \in 1..n : d.sub[d.recent[i]].end \in Nat
    BY <1>2 DEF Row
  <2> QED BY <2>1, <2>2
<1>4. /\ \A i \in 1..n : p[i] = Priority(d.sub[d.recent[i]]) /\ e[i] = d.sub[d.recent[i]].end
  OBVIOUS
<1> HIDE DEF p, e
<1>5. PICK m \in 1..n : \A j \in 1..n : j # m => First(m, j, p, e)
  BY <1>1, <1>3, OneIsFirst
<1> DEFINE o == d.recent[m]
<1>6. o \in Created(d) /\ At(d, o) = m
  BY <1>5, RecentParts
<1>7. ASSUME NEW q \in Created(d) \ {o} PROVE Before(d, o, q)
  <2> DEFINE j == At(d, q)
  <2>1. j \in 1..n /\ d.recent[j] = q
    BY RecentParts
  <2>2. j # m
    BY <2>1, <1>7
  <2> HIDE DEF j, n
  <2>3. First(m, j, p, e)
    BY <1>5, <2>1, <2>2
  <2> QED BY <1>4, <1>5, <1>6, <2>1, <2>3 DEF First, Before, j
<1> HIDE DEF o
<1> QED BY <1>6, <1>7 DEF Current

-----------------------------------------------------------------------------
(* What is written.                                                        *)

LEMMA RemoveAtIs ==
    ASSUME NEW S, NEW s \in Seq(S), NEW i \in 1..Len(s)
    PROVE  LET t == RemoveAt(s, i) IN
           /\ t \in Seq(S) /\ Len(t) = Len(s) - 1
           /\ \A j \in 1..(Len(s) - 1) : t[j] = IF j < i THEN s[j] ELSE s[j + 1]
<1> DEFINE a == SubSeq(s, 1, i - 1)
           b == SubSeq(s, i + 1, Len(s))
<1>1. Len(s) \in Nat /\ \A j \in 1..Len(s) : s[j] \in S
  OBVIOUS
<1>2. /\ a \in Seq(S) /\ Len(a) = i - 1
      /\ \A j \in 1..(i - 1) : a[j] = s[j]
  BY <1>1, SubSeqProperties
<1>3. /\ b \in Seq(S) /\ Len(b) = Len(s) - i
      /\ \A j \in 1..(Len(s) - i) : b[j] = s[i + j]
  BY <1>1, SubSeqProperties
<1> HIDE DEF a, b
<1>4. /\ a \o b \in Seq(S) /\ Len(a \o b) = Len(a) + Len(b)
      /\ \A j \in 1..(Len(a) + Len(b)) : (a \o b)[j] =
            IF j <= Len(a) THEN a[j] ELSE b[j - Len(a)]
  BY <1>2, <1>3, ConcatProperties
<1>5. \A j \in 1..(Len(s) - 1) : (a \o b)[j] = IF j < i THEN s[j] ELSE s[j + 1]
  <2> SUFFICES ASSUME NEW j \in 1..(Len(s) - 1)
               PROVE  (a \o b)[j] = IF j < i THEN s[j] ELSE s[j + 1]
    OBVIOUS
  <2>1. CASE j < i
    BY <1>1, <1>2, <1>3, <1>4, <2>1
  <2>2. CASE ~(j < i)
    <3>1. /\ j \in 1..(Len(a) + Len(b)) /\ ~(j <= Len(a))
          /\ j - Len(a) \in 1..(Len(s) - i) /\ i + (j - Len(a)) = j + 1
      BY <1>1, <1>2, <1>3, <2>2
    <3> QED BY <1>3, <1>4, <2>2, <3>1
  <2> QED BY <2>1, <2>2
<1>6. RemoveAt(s, i) = a \o b
  BY DEF RemoveAt, a, b
<1> QED BY <1>1, <1>2, <1>3, <1>4, <1>5, <1>6

Others(d, o) == IF o \in Created(d) THEN RemoveAt(d.recent, At(d, o)) ELSE d.recent

LEMMA OthersAre ==
    ASSUME NEW d \in Dbs, IsInjective(d.recent), ToSet(d.recent) = Created(d), NEW o \in Orders
    PROVE  LET s == Others(d, o) IN
           /\ s \in Seq(Orders) /\ IsInjective(s) /\ ToSet(s) = Created(d) \ {o}
<1> DEFINE s == d.recent
           t == Others(d, o)
           n == Len(s)
<1>1. /\ s \in Seq(Orders) /\ n \in Nat /\ DOMAIN s = 1..n
      /\ \A i \in 1..n : s[i] \in Orders /\ s[i] \in Created(d) /\ At(d, s[i]) = i
      /\ \A q \in Created(d) : At(d, q) \in 1..n /\ s[At(d, q)] = q
  BY RecentParts
<1>2. CASE o \notin Created(d)
  <2>1. t = s /\ Created(d) \ {o} = Created(d)
    BY <1>2 DEF Others
  <2> QED BY <1>1, <2>1
<1>3. CASE o \in Created(d)
  <2> DEFINE p == At(d, o)
  <2>1. p \in 1..n /\ s[p] = o
    BY <1>1, <1>3
  <2>2. t = RemoveAt(s, p)
    BY <1>3 DEF Others
  <2> HIDE DEF s, t, p
  <2>3. /\ t \in Seq(Orders) /\ Len(t) = n - 1
        /\ \A j \in 1..(n - 1) : t[j] = IF j < p THEN s[j] ELSE s[j + 1]
    BY <1>1, <2>1, <2>2, RemoveAtIs
  <2>4. DOMAIN t = 1..(n - 1)
    BY <2>3
  <2> HIDE DEF n
  <2> DEFINE from(j) == IF j < p THEN j ELSE j + 1
  <2>5. ASSUME NEW j \in 1..(n - 1)
        PROVE  from(j) \in 1..n /\ from(j) # p /\ t[j] = s[from(j)]
    BY <1>1, <2>1, <2>3
  <2>6. ASSUME NEW i \in 1..n, i # p PROVE \E j \in 1..(n - 1) : from(j) = i
    <3>1. CASE i < p
      BY <1>1, <2>1, <3>1
    <3>2. CASE i > p
      <4>1. i - 1 \in 1..(n - 1) /\ from(i - 1) = i
        BY <1>1, <2>1, <3>2
      <4> QED BY <4>1
    <3> QED BY <1>1, <2>1, <2>6, <3>1, <3>2
  <2>7. \A i, j \in 1..(n - 1) : from(i) = from(j) => i = j
    BY <1>1, <2>1
  <2> HIDE DEF from
  <2>8. IsInjective(t)
    <3> SUFFICES ASSUME NEW i \in 1..(n - 1), NEW j \in 1..(n - 1), t[i] = t[j] PROVE i = j
      BY <2>4 DEF IsInjective
    <3>1. from(i) = from(j)
      BY <1>1, <2>5
    <3> QED BY <2>7, <3>1
  <2>9. ToSet(t) = Created(d) \ {o}
    <3>1. ASSUME NEW j \in 1..(n - 1) PROVE t[j] \in Created(d) \ {o}
      BY <1>1, <2>1, <2>5 DEF p
    <3>2. ASSUME NEW q \in Created(d), q # o PROVE \E j \in 1..(n - 1) : t[j] = q
      <4>1. At(d, q) \in 1..n /\ s[At(d, q)] = q /\ At(d, q) # p
        BY <1>1, <2>1, <3>2
      <4>2. PICK j \in 1..(n - 1) : from(j) = At(d, q)
        BY <2>6, <4>1
      <4> QED BY <2>5, <4>1, <4>2
    <3> QED BY <2>4, <3>1, <3>2 DEF ToSet
  <2> QED BY <2>3, <2>8, <2>9 DEF t
<1> QED BY <1>2, <1>3, <1>1

LEMMA PutIs ==
    ASSUME NEW d \in Dbs, IsInjective(d.recent), ToSet(d.recent) = Created(d),
           NEW o \in Orders, NEW row \in Row, row.status # "none"
    PROVE  LET new == Put(d, o, row) IN
           /\ new \in Dbs /\ new.sub = [d.sub EXCEPT ![o] = row]
           /\ new.plan = d.plan /\ new.events = d.events
           /\ IsInjective(new.recent) /\ ToSet(new.recent) = Created(new)
<1> DEFINE s == Others(d, o)
           r == <<o>> \o s
           new == [d EXCEPT !.sub[o] = row, !.recent = r]
<1>1. s \in Seq(Orders) /\ IsInjective(s) /\ ToSet(s) = Created(d) \ {o}
  BY OthersAre
<1>2. Put(d, o, row) = new
  BY DEF Put, Others
<1> HIDE DEF s
<1>3. /\ Len(s) \in Nat /\ DOMAIN s = 1..Len(s)
      /\ \A i \in 1..Len(s) : s[i] \in Orders /\ s[i] \in ToSet(s)
      /\ \A i, j \in 1..Len(s) : s[i] = s[j] => i = j
      /\ \A q \in ToSet(s) : \E i \in 1..Len(s) : s[i] = q
  <2>1. Len(s) \in Nat /\ DOMAIN s = 1..Len(s) /\ \A i \in 1..Len(s) : s[i] \in Orders
    BY <1>1
  <2> QED BY <1>1, <2>1 DEF IsInjective, ToSet
<1>4. /\ r \in Seq(Orders) /\ DOMAIN r = 1..(Len(s) + 1)
      /\ r[1] = o /\ \A i \in 2..(Len(s) + 1) : r[i] = s[i - 1]
  <2>1. /\ r \in Seq(Orders) /\ Len(r) = Len(<<o>>) + Len(s)
        /\ \A j \in 1..(Len(<<o>>) + Len(s)) : r[j] =
              IF j <= Len(<<o>>) THEN <<o>>[j] ELSE s[j - Len(<<o>>)]
    BY <1>1, ConcatProperties
  <2>2. Len(<<o>>) = 1 /\ <<o>>[1] = o
    OBVIOUS
  <2>3. DOMAIN r = 1..Len(r)
    BY <2>1
  <2> HIDE DEF r
  <2> QED BY <1>3, <2>1, <2>2, <2>3
<1> HIDE DEF r
<1>5. \A i \in 2..(Len(s) + 1) : i - 1 \in 1..Len(s) /\ r[i] \in ToSet(s)
  BY <1>3, <1>4
<1>6. IsInjective(r)
  <2> SUFFICES ASSUME NEW i \in 1..(Len(s) + 1), NEW j \in 1..(Len(s) + 1), r[i] = r[j]
               PROVE  i = j
    BY <1>4 DEF IsInjective
  <2>1. /\ i = 1 \/ (i \in 2..(Len(s) + 1) /\ i - 1 \in 1..Len(s) /\ r[i] = s[i - 1] /\ r[i] # o)
        /\ j = 1 \/ (j \in 2..(Len(s) + 1) /\ j - 1 \in 1..Len(s) /\ r[j] = s[j - 1] /\ r[j] # o)
    BY <1>1, <1>3, <1>4, <1>5
  <2>2. i # 1 /\ j # 1 => i - 1 = j - 1
    BY <1>3, <2>1
  <2> QED BY <1>3, <1>4, <2>1, <2>2
<1>7. ToSet(r) = Created(d) \cup {o}
  <2>1. \A i \in DOMAIN r : r[i] \in Created(d) \cup {o}
    <3>1. \A i \in DOMAIN r : i = 1 \/ i \in 2..(Len(s) + 1)
      BY <1>3, <1>4
    <3> QED BY <1>1, <1>4, <1>5, <3>1
  <2>2. o \in ToSet(r)
    BY <1>3, <1>4 DEF ToSet
  <2>3. ASSUME NEW q \in Created(d), q # o PROVE q \in ToSet(r)
    <3>1. PICK i \in 1..Len(s) : s[i] = q
      BY <1>1, <1>3, <2>3
    <3>2. i + 1 \in 2..(Len(s) + 1) /\ i + 1 \in DOMAIN r /\ (i + 1) - 1 = i
      BY <1>3, <1>4
    <3> QED BY <1>4, <3>1, <3>2 DEF ToSet
  <2> QED BY <2>1, <2>2, <2>3 DEF ToSet
<1>8. /\ new \in Dbs /\ new.sub = [d.sub EXCEPT ![o] = row] /\ new.recent = r
      /\ new.plan = d.plan /\ new.events = d.events
  BY <1>4 DEF Dbs
<1> HIDE DEF new
<1>9. Created(new) = Created(d) \cup {o}
  BY <1>8 DEF Created, Dbs
<1> QED BY <1>2, <1>6, <1>7, <1>8, <1>9

-----------------------------------------------------------------------------
(* What is granted.                                                        *)

LEMMA EntitlementIs ==
    ASSUME NEW L, NEW H, NEW d \in Dbs, Sound(d, L, H), now \in Nat
    PROVE  /\ Entitlement(d).plan \in Plans /\ Entitlement(d).source \in Sources
           /\ Entitlement(d).source # "free" \/ Entitlement(d).plan # "free" =>
                 \E o \in Orders : L[o] = "paid"
<1>1. CASE Created(d) # {} /\ (IsActive(d.sub[Current(d)]) \/ InGrace(d.sub[Current(d)]))
  <2> DEFINE c == Current(d)
  <2>1. c \in Created(d) /\ c \in Orders
    BY <1>1, CurrentIs DEF Sound, Created
  <2>2. PlanOf[c] \in Plans
    BY <2>1, BillingAssumption DEF Plans
  <2>3. L[c] = "paid"
    BY <1>1, <2>1 DEF Sound, IsActive, InGrace
  <2> QED BY <1>1, <2>1, <2>2, <2>3 DEF Entitlement, Sources
<1>2. CASE ~(Created(d) # {} /\ (IsActive(d.sub[Current(d)]) \/ InGrace(d.sub[Current(d)])))
  <2>1. d.plan \in Plans /\ (d.plan # "free" => \E o \in Orders : L[o] = "paid")
    BY DEF Dbs, Sound
  <2>2. Entitlement(d) = IF d.plan # "free"
                         THEN [source |-> "legacy_user_plan", plan |-> d.plan]
                         ELSE [source |-> "free", plan |-> "free"]
    BY <1>2 DEF Entitlement
  <2> QED BY <2>1, <2>2 DEF Sources, Plans
<1> QED BY <1>1, <1>2

LEMMA PutSound ==
    ASSUME NEW L, NEW H, NEW E, NEW d \in Committed(L, H, E), NEW o \in Orders,
           NEW row \in Row, row.status # "none", L[o] # "none",
           row.status = "active" \/ row.grace # 0 => L[o] = "paid",
           L[o] \in {"open", "paid"} /\ row.status \in {"canceled", "expired"} => o \in H
    PROVE  Put(d, o, row) \in Committed(L, H, E) /\ Put(d, o, row).sub = [d.sub EXCEPT ![o] = row]
<1> DEFINE new == Put(d, o, row)
<1>1. d \in Dbs /\ Sound(d, L, H) /\ d.events = E /\ d.sub \in [Orders -> Row]
  BY DEF Committed, Dbs
<1>2. /\ new \in Dbs /\ new.sub = [d.sub EXCEPT ![o] = row]
      /\ new.plan = d.plan /\ new.events = d.events
      /\ IsInjective(new.recent) /\ ToSet(new.recent) = Created(new)
  BY <1>1, PutIs DEF Sound
<1> HIDE DEF new
<1>3. \A q \in Orders : new.sub[q] = IF q = o THEN row ELSE d.sub[q]
  BY <1>1, <1>2
<1>4. Sound(new, L, H)
  BY <1>1, <1>2, <1>3 DEF Sound
<1> QED BY <1>1, <1>2, <1>4 DEF Committed, new

LEMMA MaterializedSound ==
    ASSUME NEW L, NEW H, NEW E, NEW d \in Committed(L, H, E), now \in Nat
    PROVE  Materialized(d) \in Committed(L, H, E) /\ Materialized(d).sub = d.sub
<1> DEFINE new == Materialized(d)
<1>1. d \in Dbs /\ Sound(d, L, H) /\ d.events = E
  BY DEF Committed
<1>2. /\ Entitlement(d).plan \in Plans /\ Entitlement(d).source \in Sources
      /\ Entitlement(d).plan # "free" => \E o \in Orders : L[o] = "paid"
  BY <1>1, EntitlementIs
<1>3. /\ new \in Dbs /\ new.sub = d.sub /\ new.recent = d.recent /\ new.events = d.events
      /\ new.plan = Entitlement(d).plan
  BY <1>1, <1>2 DEF Materialized, Dbs
<1> HIDE DEF new
<1>4. Created(new) = Created(d)
  BY <1>3 DEF Created
<1>5. Sound(new, L, H)
  BY <1>1, <1>2, <1>3, <1>4 DEF Sound
<1> QED BY <1>1, <1>3, <1>5 DEF Committed, new

LEMMA ActivationSound ==
    ASSUME NEW L, NEW H, NEW E, NEW d \in Committed(L, H, E), NEW o \in Orders,
           L[o] = "paid", now \in Nat
    PROVE  Activation(d, o) \in Seq(Committed(L, H, E)) /\ Activation(d, o) # <<>>
<1> DEFINE row == [status |-> "active", end |-> now + Period[o],
                   grace |-> now + Period[o] + Grace, atEnd |-> TRUE]
<1>1. row \in Row
  BY BillingAssumption DEF Row, Statuses
<1>2. /\ row.status # "none" /\ row.status \notin {"canceled", "expired"}
      /\ L[o] # "none"
  OBVIOUS
<1>3. Activated(d, o) = Put(d, o, row)
  BY DEF Activated
<1> HIDE DEF row
<1>4. Activated(d, o) \in Committed(L, H, E)
  <2>1. Put(d, o, row) \in Committed(L, H, E)
    BY <1>1, <1>2, PutSound
  <2> QED BY <1>3, <2>1
<1>5. Materialized(Activated(d, o)) \in Committed(L, H, E)
  BY <1>4, MaterializedSound
<1> QED BY <1>4, <1>5 DEF Activation

LEMMA RefreshedSound ==
    ASSUME NEW L, NEW H, NEW E, NEW d \in Committed(L, H, E), NEW o \in Orders,
           d.sub[o].status # "none", NEW status \in Statuses \ {"none", "active"},
           status \in {"canceled", "expired"} => L[o] \notin {"open", "paid"},
           NEW over, NEW touch
    PROVE  Refreshed(d, o, status, over, touch) \in Committed(L, H, E)
<1> DEFINE old == d.sub[o]
           row == [old EXCEPT !.status = status, !.atEnd = @ \/ status \in over]
<1>1. /\ old \in Row /\ L[o] # "none" /\ (old.grace # 0 => L[o] = "paid")
  BY DEF Committed, Dbs, Sound
<1>2. row \in Row /\ row.status = status /\ row.grace = old.grace
  <2>1. (old.atEnd \/ status \in over) \in BOOLEAN
    BY <1>1
  <2> DEFINE b == old.atEnd \/ status \in over
  <2>2. row = [old EXCEPT !.status = status, !.atEnd = b]
    OBVIOUS
  <2> HIDE DEF b, row
  <2>3. b \in BOOLEAN
    BY <2>1 DEF b
  <2> QED BY <1>1, <2>2, <2>3 DEF Row
<1>3. Refreshed(d, o, status, over, touch) \in {d, Put(d, o, row)}
  BY DEF Refreshed
<1> HIDE DEF row, old
<1>4. Put(d, o, row) \in Committed(L, H, E)
  BY <1>1, <1>2, PutSound
<1> QED BY <1>3, <1>4

LEMMA NormalizedIs ==
    /\ Normalized("paid") = "active" /\ Normalized("open") = "pending"
    /\ \A state : state \notin {"paid", "open"} => Normalized(state) = state
BY DEF Normalized

LEMMA PollSound ==
    ASSUME NEW L, NEW H, NEW E, NEW d \in Committed(L, H, E), now \in Nat,
           L \in [Orders -> LinkStates],
           \A q \in Orders : d.sub[q].status = "pending" => link[q] = L[q],
           Polls(d), NEW touch
    PROVE  PollCommits(d, touch) \in Seq(Committed(L, H, E)) /\ PollCommits(d, touch) # <<>>
<1> DEFINE o == Current(d)
           status == Normalized(link[o])
<1>1. o \in Orders /\ d.sub[o].status = "pending" /\ link[o] = L[o]
  BY CurrentIs DEF Polls, Committed, Sound, Created
<1>2. L[o] \in LinkStates \ {"none"}
  BY <1>1 DEF Committed, Sound
<1>3. PollCommits(d, touch) = IF status = "active" THEN Activation(d, o)
                              ELSE <<Refreshed(d, o, status, {"canceled", "expired"}, touch)>>
  BY DEF PollCommits
<1> HIDE DEF o
<1>4. CASE L[o] = "paid"
  BY <1>1, <1>3, <1>4, NormalizedIs, ActivationSound
<1>5. CASE L[o] # "paid"
  <2>1. status \in {"pending", "canceled", "expired"}
        /\ (status \in {"canceled", "expired"} => L[o] = status)
    BY <1>1, <1>2, <1>5, NormalizedIs DEF LinkStates
  <2> HIDE DEF status
  <2>2. Refreshed(d, o, status, {"canceled", "expired"}, touch) \in Committed(L, H, E)
    <3>1. status \in Statuses \ {"none", "active"}
          /\ (status \in {"canceled", "expired"} => L[o] \notin {"open", "paid"})
          /\ d.sub[o].status # "none"
      BY <1>1, <2>1 DEF Statuses
    <3> QED BY <1>1, <3>1, RefreshedSound
  <2>3. status # "active"
    BY <2>1
  <2> QED BY <1>3, <2>2, <2>3
<1> QED BY <1>4, <1>5

LEMMA MaterializeSound ==
    ASSUME NEW L, NEW H, NEW E, NEW d \in Committed(L, H, E), now \in Nat,
           L \in [Orders -> LinkStates],
           \A q \in Orders : d.sub[q].status = "pending" => link[q] = L[q],
           NEW answer, NEW touch
    PROVE  /\ ResolveCommits(d, answer, touch) \in Seq(Committed(L, H, E))
           /\ MaterializeCommits(d, answer, touch) \in Seq(Committed(L, H, E))
<1> DEFINE commits == ResolveCommits(d, answer, touch)
<1>1. commits \in Seq(Committed(L, H, E))
  BY PollSound DEF ResolveCommits
<1> HIDE DEF commits
<1>2. Latest(d, commits) \in Committed(L, H, E)
  BY <1>1 DEF Latest
<1>3. Materialized(Latest(d, commits)) \in Committed(L, H, E)
  BY <1>2, MaterializedSound
<1>4. Append(commits, Materialized(Latest(d, commits))) \in Seq(Committed(L, H, E))
  BY <1>1, <1>3
<1> QED BY <1>1, <1>4 DEF MaterializeCommits, commits

-----------------------------------------------------------------------------
(* The steps.                                                              *)

LEMMA TypeParts ==
    ASSUME IInv
    PROVE  /\ now \in Nat /\ MaxTime \in Nat /\ MaxDeaths \in Nat
           /\ link \in [Orders -> LinkStates] /\ hooks \subseteq Orders \X ({"paid"} \cup Updates)
           /\ deaths \in Nat /\ deaths \in 0..MaxDeaths /\ honored \subseteq Orders
           /\ applied \in [Orders -> Nat]
           /\ db \in Dbs /\ db.sub \in [Orders -> Row]
           /\ db \in Committed(link, honored, db.events)
BY BillingAssumption DEF IInv, TypeOK, Dbs, Committed

\* The process may die, and whatever it was at is left half-done; but it is one
\* of the states that are committed.
LEMMA RunIs ==
    ASSUME NEW S, db \in S, NEW commits \in Seq(S), deaths \in 0..MaxDeaths, MaxDeaths \in Nat,
           Run(commits)
    PROVE  /\ db' \in S /\ deaths' \in 0..MaxDeaths
           /\ honored' = honored \cup {o \in Orders : db'.sub[o].status = "active"}
           /\ deaths' = 0 => deaths = 0 /\ db' = Latest(db, commits)
<1>1. Len(commits) \in Nat /\ \A i \in 1..Len(commits) : commits[i] \in S
  OBVIOUS
<1>2. CASE Done(commits)
  BY <1>1, <1>2 DEF Run, Done, Latest
<1>3. CASE Dies(commits)
  <2>1. PICK n \in 0..(Len(commits) - 1) : db' = Latest(db, SubSeq(commits, 1, n))
    BY <1>3 DEF Dies
  <2>2. CASE n = 0
    BY <1>1, <1>3, <2>1, <2>2 DEF Run, Dies, Latest
  <2>3. CASE n # 0
    <3> DEFINE s == SubSeq(commits, 1, n)
    <3>1. Len(s) = n /\ s[n] = commits[n] /\ n \in 1..Len(commits)
      BY <1>1, <2>3, SubSeqProperties
    <3>2. Latest(db, s) = commits[n]
      BY <2>3, <3>1 DEF Latest
    <3> QED BY <1>1, <1>3, <2>1, <3>1, <3>2 DEF Run, Dies
  <2> QED BY <2>2, <2>3
<1> QED BY <1>2, <1>3 DEF Run

\* A link only opens for an order without a row, and a paid link stays paid.
LinksMove(d, L, M) ==
    /\ M \in [Orders -> LinkStates]
    /\ \A o \in Orders :
          /\ L[o] # "none" => M[o] # "none"
          /\ L[o] = "paid" => M[o] = "paid"
          /\ M[o] \in {"open", "paid"} => L[o] \in {"none", "open", "paid"}

LEMMA MovedSound ==
    ASSUME NEW L, NEW M, NEW H, NEW E, NEW d \in Committed(L, H, E), LinksMove(d, L, M)
    PROVE  d \in Committed(M, H, E)
BY DEF Committed, Sound, LinksMove

LEMMA MoreHonored ==
    ASSUME NEW L, NEW H, NEW G, NEW d, Sound(d, L, H), H \subseteq G
    PROVE  Sound(d, L, G)
BY DEF Sound

LEMMA RunHolds ==
    ASSUME IInv, link' \in [Orders -> LinkStates],
           HooksTell', hooks' \subseteq Orders \X ({"paid"} \cup Updates),
           db \in Committed(link', honored, db.events),
           NEW commits \in Seq(Committed(link', honored, db.events)),
           Run(commits), UNCHANGED <<now, applied>>
    PROVE  IInv'
<1> DEFINE S == Committed(link', honored, db.events)
<1>1. /\ db' \in S /\ deaths' \in 0..MaxDeaths
      /\ honored' = honored \cup {o \in Orders : db'.sub[o].status = "active"}
      /\ deaths' = 0 => deaths = 0
  <2> HIDE DEF S
  <2>1. db \in S /\ commits \in Seq(S)
    BY DEF S
  <2> QED BY <2>1, TypeParts, RunIs
<1>2. db' \in Dbs /\ Sound(db', link', honored') /\ db'.events = db.events
  BY <1>1, MoreHonored DEF Committed
<1>3. TypeOK'
  BY <1>1, <1>2, TypeParts DEF IInv, TypeOK, Dbs
<1>4. ActiveWasHonored'
  BY <1>1 DEF ActiveWasHonored
<1>5. EventsTell' /\ AppliedOnce'
  BY <1>1, <1>2 DEF IInv, EventsTell, AppliedOnce
<1> QED BY <1>2, <1>3, <1>4, <1>5 DEF IInv

\* A step of PayOS, or of time.
LEMMA OutsideHolds ==
    ASSUME IInv, UNCHANGED <<db, deaths, honored, applied>>, LinksMove(db, link, link'),
           HooksTell', hooks' \subseteq Orders \X ({"paid"} \cup Updates), now' \in 1..MaxTime
    PROVE  IInv'
<1>1. db \in Committed(link', honored, db.events)
  BY TypeParts, MovedSound
<1>2. TypeOK'
  BY DEF IInv, TypeOK, LinksMove
<1>3. db' \in Dbs /\ Sound(db', link', honored')
  BY <1>1 DEF Committed
<1>4. ActiveWasHonored' /\ EventsTell' /\ AppliedOnce'
  BY DEF IInv, ActiveWasHonored, EventsTell, AppliedOnce
<1> QED BY <1>2, <1>3, <1>4 DEF IInv

LEMMA ClosesIs ==
    ASSUME IInv, NEW o \in Orders, NEW state \in {"canceled", "expired"}, link[o] = "open",
           Closes(o, state)
    PROVE  /\ LinksMove(db, link, link') /\ HooksTell'
           /\ hooks' \subseteq Orders \X ({"paid"} \cup Updates)
           /\ link'[o] = state /\ \A q \in Orders : q # o => link'[q] = link[q]
<1>1. link' \in [Orders -> LinkStates] /\ link'[o] = state
      /\ \A q \in Orders : q # o => link'[q] = link[q]
  BY TypeParts DEF Closes, LinkStates
<1>2. \A h \in hooks' : h \in hooks \/ (h = <<o, state>> /\ state \in Updates)
  BY DEF Closes
<1>3. HooksTell'
  BY <1>1, <1>2, TypeParts DEF IInv, HooksTell
<1>4. LinksMove(db, link, link')
  BY <1>1 DEF LinksMove
<1> QED BY <1>1, <1>2, <1>3, <1>4, TypeParts

LEMMA SameLinks ==
    ASSUME IInv, UNCHANGED <<link, hooks>>
    PROVE  /\ LinksMove(db, link, link') /\ HooksTell' /\ link' = link
           /\ hooks' \subseteq Orders \X ({"paid"} \cup Updates)
BY TypeParts DEF IInv, LinksMove, HooksTell

LEMMA CheckoutHolds ==
    ASSUME IInv, NEW o \in Orders, Checkout(o)
    PROVE  IInv'
<1> DEFINE row == [NoRow EXCEPT !.status = Normalized("open")]
<1>1. /\ link[o] = "none" /\ link' = [link EXCEPT ![o] = "open"]
      /\ Run(<<Put(db, o, row)>>) /\ UNCHANGED <<now, hooks, applied>>
  BY DEF Checkout
<1>2. /\ link' \in [Orders -> LinkStates] /\ link'[o] = "open"
      /\ \A q \in Orders : q # o => link'[q] = link[q]
  BY <1>1, TypeParts DEF LinkStates
<1>3. LinksMove(db, link, link')
  BY <1>1, <1>2 DEF LinksMove
<1>4. HooksTell' /\ hooks' \subseteq Orders \X ({"paid"} \cup Updates)
  BY <1>1, <1>2, TypeParts DEF IInv, HooksTell
<1>5. row \in Row /\ row.status = "pending" /\ row.grace = 0
  BY NormalizedIs DEF NoRow, Row, Statuses
<1> HIDE DEF row
<1>6. db \in Committed(link', honored, db.events)
  BY <1>3, TypeParts, MovedSound
<1>7. Put(db, o, row) \in Committed(link', honored, db.events)
  BY <1>2, <1>5, <1>6, PutSound
<1>8. <<Put(db, o, row)>> \in Seq(Committed(link', honored, db.events))
  BY <1>7
<1> QED BY <1>1, <1>2, <1>4, <1>6, <1>8, RunHolds

LEMMA AsksHolds ==
    ASSUME IInv, NEW answer, NEW touch, UNCHANGED <<now, link, hooks, applied>>,
           Run(ResolveCommits(db, answer, touch)) \/ Run(MaterializeCommits(db, answer, touch))
    PROVE  IInv'
<1>1. /\ link' = link /\ HooksTell' /\ hooks' \subseteq Orders \X ({"paid"} \cup Updates)
      /\ link' \in [Orders -> LinkStates] /\ db \in Committed(link', honored, db.events)
  BY SameLinks, TypeParts
<1>2. /\ ResolveCommits(db, answer, touch) \in Seq(Committed(link', honored, db.events))
      /\ MaterializeCommits(db, answer, touch) \in Seq(Committed(link', honored, db.events))
  BY <1>1, TypeParts, MaterializeSound
<1> QED BY <1>1, <1>2, RunHolds

LEMMA CancelHolds ==
    ASSUME IInv, NEW immediately \in BOOLEAN, NEW answer, NEW touch,
           Cancel(immediately, answer, touch)
    PROVE  IInv'
<1> DEFINE o == Current(db)
           old == db.sub[o]
           pending == old.status = "pending"
           ended == immediately /\ IsActive(old)
           row == [status |-> IF pending \/ ended THEN "canceled" ELSE old.status,
                   end    |-> IF ended THEN now ELSE old.end,
                   grace  |-> IF ended THEN now + Grace ELSE old.grace,
                   atEnd  |-> TRUE]
           d == IF row = old THEN db ELSE Put(db, o, row)
           commits == <<d>> \o MaterializeCommits(d, answer, touch)
           S == Committed(link', honored, db.events)
<1>1. /\ Created(db) # {}
      /\ IF pending THEN CloseLink(o) ELSE UNCHANGED <<link, hooks>>
      /\ Run(commits) /\ UNCHANGED <<now, applied>>
  BY DEF Cancel
<1>2. o \in Orders /\ old \in Row /\ old.status # "none"
  <2>1. o \in Created(db)
    BY <1>1, CurrentIs, TypeParts DEF IInv, Sound
  <2> QED BY <2>1, TypeParts DEF Created
<1>3. /\ link[o] # "none"
      /\ old.status = "active" \/ old.grace # 0 => link[o] = "paid"
      /\ link[o] \in {"open", "paid"} /\ old.status \in {"canceled", "expired"} => o \in honored
      /\ old.status = "active" => o \in honored
  BY <1>2 DEF IInv, Sound, ActiveWasHonored
<1>4. ended => old.status = "active"
  BY DEF IsActive
<1>5. now \in Nat /\ Grace \in Nat /\ old.end \in Nat /\ old.grace \in Nat /\ old.status \in Statuses
  BY <1>2, TypeParts, BillingAssumption DEF Row
<1>6. /\ row \in Row /\ row.status # "none"
      /\ row.status = IF pending \/ ended THEN "canceled" ELSE old.status
      /\ row.grace = IF ended THEN now + Grace ELSE old.grace
  <2>1. \A s \in Statuses, e, g \in Nat :
           [status |-> s, end |-> e, grace |-> g, atEnd |-> TRUE] \in Row
    BY DEF Row
  <2>2. /\ (IF pending \/ ended THEN "canceled" ELSE old.status) \in Statuses
        /\ (IF ended THEN now ELSE old.end) \in Nat
        /\ (IF ended THEN now + Grace ELSE old.grace) \in Nat
    BY <1>5 DEF Statuses
  <2>3. row \in Row
    BY <2>1, <2>2
  <2> QED BY <1>2, <2>3
<1> HIDE DEF o, row, ended, commits
<1>7. /\ LinksMove(db, link, link') /\ HooksTell'
      /\ hooks' \subseteq Orders \X ({"paid"} \cup Updates)
      /\ pending => link[o] = "open" /\ link'[o] = "canceled"
      /\ ~pending => link'[o] = link[o]
      /\ \A q \in Orders : q # o => link'[q] = link[q]
  <2>1. CASE pending
    BY <1>1, <1>2, <2>1, ClosesIs DEF CloseLink
  <2>2. CASE ~pending
    BY <1>1, <2>2, SameLinks
  <2> QED BY <2>1, <2>2
<1>8. db \in S /\ link' \in [Orders -> LinkStates]
  BY <1>7, TypeParts, MovedSound DEF LinksMove
<1>9. d \in S /\ \A q \in Orders : d.sub[q].status = "pending" => link[q] = link'[q]
  <2>1. /\ link'[o] # "none"
        /\ row.status = "active" \/ row.grace # 0 => link'[o] = "paid"
        /\ link'[o] \in {"open", "paid"} /\ row.status \in {"canceled", "expired"} => o \in honored
    <3>1. CASE pending
      <4>1. ~ended /\ row.status = "canceled" /\ row.grace = old.grace
        BY <1>4, <1>6, <3>1
      <4> QED BY <1>3, <1>7, <3>1, <4>1
    <3>2. CASE ~pending /\ ended
      BY <1>3, <1>4, <1>6, <1>7, <3>2
    <3>3. CASE ~pending /\ ~ended
      BY <1>3, <1>6, <1>7, <3>3
    <3> QED BY <3>1, <3>2, <3>3
  <2>2. Put(db, o, row) \in S /\ Put(db, o, row).sub = [db.sub EXCEPT ![o] = row]
    BY <1>2, <1>6, <1>8, <2>1, PutSound
  <2>3. row.status = "pending" => ~pending
    BY <1>6
  <2>4. CASE row = old
    BY <1>7, <1>8, <2>3, <2>4
  <2>5. CASE row # old
    <3>1. \A q \in Orders : d.sub[q] = IF q = o THEN row ELSE db.sub[q]
      BY <2>2, <2>5, TypeParts
    <3> QED BY <1>7, <2>2, <2>3, <2>5, <3>1
  <2> QED BY <2>4, <2>5
<1> HIDE DEF d
<1>10. MaterializeCommits(d, answer, touch) \in Seq(S)
  BY <1>8, <1>9, TypeParts, MaterializeSound
<1>11. commits \in Seq(S)
  <2> HIDE DEF S
  <2> QED BY <1>9, <1>10 DEF commits
<1> QED BY <1>1, <1>7, <1>8, <1>11, RunHolds

\* The commits of a webhook: the events apart, they are sound.
LEMMA LoggedIs ==
    ASSUME NEW L, NEW H, NEW E, NEW d \in Committed(L, H, E), NEW o \in Orders,
           NEW t \in EventTypes, NEW flags \in SUBSET BOOLEAN
    PROVE  LET new == [d EXCEPT !.events[o][t] = flags]
           IN  new \in Committed(L, H, [E EXCEPT ![o][t] = flags]) /\ new.sub = d.sub
<1> DEFINE new == [d EXCEPT !.events[o][t] = flags]
<1>1. /\ new \in Dbs /\ new.sub = d.sub /\ new.recent = d.recent /\ new.plan = d.plan
      /\ new.events = [d.events EXCEPT ![o][t] = flags]
  BY DEF Committed, Dbs
<1> HIDE DEF new
<1>2. Created(new) = Created(d)
  BY <1>1 DEF Created
<1>3. Sound(new, L, H)
  BY <1>1, <1>2 DEF Committed, Sound
<1> QED BY <1>1, <1>3 DEF Committed, new

LEMMA SaidSound ==
    ASSUME IInv, NEW E, NEW d \in Committed(link, honored, E), NEW o \in Orders, NEW status,
           <<o, status>> \in hooks, NEW touch
    PROVE  Said(d, o, status, touch) \in Seq(Committed(link, honored, E))
<1>1. /\ status \in {"paid", "pending", "failed", "canceled", "expired"}
      /\ status \in {"paid", "canceled", "expired"} => link[o] = status
  <2>1. status \in {"paid"} \cup Updates
    BY TypeParts
  <2> QED BY <2>1, BillingAssumption DEF IInv, HooksTell
<1>2. CASE d.sub[o].status = "none"
  BY <1>2 DEF Said
<1>3. CASE d.sub[o].status # "none" /\ status = "paid"
  <2>1. Activation(d, o) \in Seq(Committed(link, honored, E))
    BY <1>1, <1>3, TypeParts, ActivationSound
  <2> QED BY <1>3, <2>1, NormalizedIs DEF Said
<1>4. CASE d.sub[o].status # "none" /\ status # "paid"
  <2>1. /\ status \in Statuses \ {"none", "active"} /\ Normalized(status) # "active"
        /\ status \in {"canceled", "expired"} => link[o] \notin {"open", "paid"}
    BY <1>1, <1>4, NormalizedIs DEF Statuses
  <2>2. Refreshed(d, o, status, {"canceled", "expired", "failed"}, touch)
            \in Committed(link, honored, E)
    BY <1>4, <2>1, RefreshedSound
  <2> QED BY <1>4, <2>1, <2>2 DEF Said
<1> QED BY <1>2, <1>3, <1>4

SoundDbs == {d \in Dbs : Sound(d, link, honored)}

\* What a webhook leaves when the process does not die.
AfterHook(o, t) == [db.events EXCEPT ![o][t] = @ \cup {TRUE}]

LEMMA HookIs ==
    ASSUME IInv, NEW o \in Orders, NEW status, <<o, status>> \in hooks, NEW touch
    PROVE  LET commits == HookCommits(db, o, status, touch) IN
           /\ commits \in Seq(SoundDbs)
           /\ Latest(db, commits).events = AfterHook(o, TypeOfHook(status))
<1> DEFINE t == TypeOfHook(status)
           logged == Logged(db, o, t, FALSE)
           flags == db.events[o][t] \cup {FALSE}
           done == db.events[o][t] \cup {TRUE}
           E == [db.events EXCEPT ![o][t] = flags]
           said == Said(logged, o, status, touch)
           end == Latest(logged, said)
           last == [end EXCEPT !.events[o][t] = done]
<1>1. /\ t \in EventTypes /\ db.events \in [Orders -> [EventTypes -> SUBSET BOOLEAN]]
      /\ db \in Committed(link, honored, db.events)
      /\ flags \in SUBSET BOOLEAN /\ done \in SUBSET BOOLEAN
  <2>1. t \in EventTypes
    BY DEF TypeOfHook, EventTypes
  <2>2. db.events \in [Orders -> [EventTypes -> SUBSET BOOLEAN]]
    BY TypeParts DEF Dbs
  <2>3. db.events[o][t] \in SUBSET BOOLEAN
    BY <2>1, <2>2
  <2> QED BY <2>1, <2>2, <2>3, TypeParts
<1>2. logged = [db EXCEPT !.events[o][t] = flags]
  BY DEF Logged
<1>3. HookCommits(db, o, status, touch) = <<logged>> \o said \o <<last>>
  BY DEF HookCommits
<1>4. AfterHook(o, t) = [E EXCEPT ![o][t] = done]
  BY <1>1 DEF AfterHook
<1> HIDE DEF t, flags, done
<1>5. logged \in Committed(link, honored, E)
  <2>1. o \in Orders
    OBVIOUS
  <2> HIDE DEF logged
  <2>2. [db EXCEPT !.events[o][t] = flags]
            \in Committed(link, honored, [db.events EXCEPT ![o][t] = flags])
    BY <1>1, <2>1, LoggedIs
  <2> QED BY <1>2, <2>2
<1> HIDE DEF logged, E
<1>6. said \in Seq(Committed(link, honored, E))
  BY <1>5, SaidSound
<1> HIDE DEF said
<1>7. end \in Committed(link, honored, E)
  BY <1>5, <1>6 DEF Latest
<1> HIDE DEF end
<1>8. last \in Committed(link, honored, [E EXCEPT ![o][t] = done])
  BY <1>1, <1>7, LoggedIs
<1> HIDE DEF last
<1>9. logged \in SoundDbs /\ last \in SoundDbs /\ last.events = AfterHook(o, t)
  BY <1>4, <1>5, <1>8 DEF Committed, SoundDbs
<1>10. said \in Seq(SoundDbs)
  <2>1. Committed(link, honored, E) \subseteq SoundDbs
    BY DEF Committed, SoundDbs
  <2> QED BY <1>6, <2>1
<1>11. /\ <<logged>> \o said \o <<last>> \in Seq(SoundDbs)
       /\ Latest(db, <<logged>> \o said \o <<last>>) = last
  <2> DEFINE a == <<logged>> \o said
  <2>1. a \in Seq(SoundDbs)
    BY <1>9, <1>10
  <2> HIDE DEF a
  <2>2. /\ a \o <<last>> \in Seq(SoundDbs) /\ Len(a \o <<last>>) = Len(a) + 1
        /\ (a \o <<last>>)[Len(a) + 1] = last
    BY <1>9, <2>1
  <2>3. a \o <<last>> # <<>>
    BY <2>1, <2>2
  <2>4. Latest(db, a \o <<last>>) = last
    BY <2>2, <2>3 DEF Latest
  <2> QED BY <2>2, <2>4 DEF a
<1> QED BY <1>3, <1>9, <1>11 DEF t

LEMMA DeliverHolds ==
    ASSUME IInv, NEW h \in hooks, NEW touch, Deliver(h, touch)
    PROVE  IInv'
<1> DEFINE o == h[1]
           status == h[2]
           t == TypeOfHook(status)
           commits == HookCommits(db, o, status, touch)
<1>1. o \in Orders /\ h = <<o, status>> /\ <<o, status>> \in hooks /\ t \in EventTypes
  BY TypeParts DEF TypeOfHook, EventTypes
<1>2. UNCHANGED <<now, link>> /\ hooks' \subseteq hooks
  BY DEF Deliver
<1>3. HooksTell' /\ hooks' \subseteq Orders \X ({"paid"} \cup Updates)
      /\ LinksMove(db, link, link') /\ now' \in 1..MaxTime
  BY <1>2, TypeParts DEF IInv, TypeOK, HooksTell, LinksMove
<1>4. CASE UNCHANGED <<db, deaths, honored, applied>>
  BY <1>3, <1>4, OutsideHolds
<1>5. CASE /\ FALSE \in Found(db.events[o][t])
           /\ Run(commits)
           /\ applied' = [applied EXCEPT ![o] =
                 IF deaths' = 0 /\ status = "paid" THEN @ + 1 ELSE @]
  <2>1. commits \in Seq(SoundDbs) /\ Latest(db, commits).events = AfterHook(o, t)
    BY <1>1, HookIs
  <2> HIDE DEF commits
  <2>2. /\ db' \in SoundDbs /\ deaths' \in 0..MaxDeaths
        /\ honored' = honored \cup {q \in Orders : db'.sub[q].status = "active"}
        /\ deaths' = 0 => deaths = 0 /\ db'.events = AfterHook(o, t)
    <3>1. db \in SoundDbs
      BY DEF IInv, SoundDbs
    <3> QED BY <1>5, <2>1, <3>1, TypeParts, RunIs
  <2>3. db' \in Dbs /\ Sound(db', link', honored')
    BY <1>2, <2>2, MoreHonored DEF SoundDbs
  <2> HIDE DEF o, status
  <2>4. applied' \in [Orders -> Nat]
    BY <1>1, <1>5, TypeParts
  <2>5. TypeOK'
    BY <1>2, <1>3, <2>2, <2>3, <2>4, TypeParts DEF IInv, TypeOK, Dbs
  <2>6. ActiveWasHonored'
    BY <2>2 DEF ActiveWasHonored
  <2>7. CASE deaths' # 0
    <3>1. applied' = applied
      BY <1>1, <1>5, <2>7, TypeParts
    <3> QED BY <1>3, <2>3, <2>5, <2>6, <2>7, <3>1 DEF IInv, EventsTell, AppliedOnce
  <2>8. CASE deaths' = 0
    <3>1. /\ db.events \in [Orders -> [EventTypes -> SUBSET BOOLEAN]] /\ deaths = 0
          /\ db'.events = AfterHook(o, t)
      BY <2>2, <2>8, TypeParts DEF Dbs
    <3>2. \A q \in Orders, s \in EventTypes :
             db'.events[q][s] = IF q = o /\ s = t THEN db.events[q][s] \cup {TRUE}
                                ELSE db.events[q][s]
      <4>1. db'.events = [db.events EXCEPT ![o][t] = @ \cup {TRUE}]
        BY <3>1 DEF AfterHook
      <4>2. ASSUME NEW q \in Orders
            PROVE  db'.events[q] = IF q = o THEN [db.events[o] EXCEPT ![t] = @ \cup {TRUE}]
                                   ELSE db.events[q]
        BY <1>1, <3>1, <4>1
      <4>3. ASSUME NEW q \in Orders PROVE db.events[q] \in [EventTypes -> SUBSET BOOLEAN]
        BY <3>1
      <4> QED BY <1>1, <4>2, <4>3
    <3>3. \A q \in Orders : /\ \A s \in EventTypes : FALSE \notin db.events[q][s]
                            /\ applied[q] > 0 => TRUE \in db.events[q]["payment.paid"]
      BY <3>1 DEF IInv, EventsTell
    <3>4. \A q \in Orders, s \in EventTypes : FALSE \notin db'.events[q][s]
      BY <3>2, <3>3
    <3>5. "payment.paid" \in EventTypes /\ (status = "paid" => t = "payment.paid")
      BY DEF EventTypes, TypeOfHook
    <3>6. status = "paid" => ~(applied[o] > 0)
      BY <1>1, <1>5, <3>3, <3>5 DEF Found
    <3>7. \A q \in Orders : applied'[q] = IF q = o /\ status = "paid" THEN applied[q] + 1
                                          ELSE applied[q]
      BY <1>1, <1>5, <2>8, TypeParts
    <3>8. EventsTell'
      BY <1>1, <3>2, <3>3, <3>4, <3>5, <3>7 DEF EventsTell
    <3>9. AppliedOnce'
      BY <1>1, <3>6, <3>7, TypeParts DEF IInv, AppliedOnce
    <3> QED BY <1>3, <2>3, <2>5, <2>6, <3>8, <3>9 DEF IInv
  <2> QED BY <2>7, <2>8
<1>6. \A processed : processed \in Found(db.events[o][t]) => processed \in BOOLEAN
  <2>1. db.events[o][t] \in SUBSET BOOLEAN
    BY <1>1, TypeParts DEF Dbs
  <2> QED BY <2>1 DEF Found
<1> QED BY <1>4, <1>5, <1>6 DEF Deliver

LEMMA PayOSHolds ==
    ASSUME IInv, NEW o \in Orders,
           \/ Pay(o)
           \/ \E status \in Updates : Announce(o, status)
           \/ \E state \in {"canceled", "expired"} : Abandon(o, state)
    PROVE  IInv'
<1>0. now \in 1..MaxTime
  BY DEF IInv, TypeOK
<1>1. CASE Pay(o)
  <2>1. /\ link[o] = "open" /\ link' = [link EXCEPT ![o] = "paid"]
        /\ hooks' = hooks \cup {<<o, "paid">>}
        /\ UNCHANGED <<now, db, deaths, honored, applied>>
    BY <1>1 DEF Pay
  <2>2. /\ link' \in [Orders -> LinkStates] /\ link'[o] = "paid"
        /\ \A q \in Orders : q # o => link'[q] = link[q]
    BY <2>1, TypeParts DEF LinkStates
  <2>3. LinksMove(db, link, link')
    BY <2>1, <2>2 DEF LinksMove
  <2>4. HooksTell' /\ hooks' \subseteq Orders \X ({"paid"} \cup Updates)
    BY <2>1, <2>2, TypeParts DEF IInv, HooksTell
  <2> QED BY <1>0, <2>1, <2>3, <2>4, OutsideHolds
<1>2. ASSUME NEW status \in Updates, Announce(o, status) PROVE IInv'
  <2>1. /\ status \in {"pending", "failed"} /\ hooks' = hooks \cup {<<o, status>>}
        /\ UNCHANGED <<now, db, link, deaths, honored, applied>>
    BY <1>2 DEF Announce
  <2>2. HooksTell' /\ hooks' \subseteq Orders \X ({"paid"} \cup Updates)
    BY <2>1, TypeParts DEF IInv, HooksTell
  <2>3. LinksMove(db, link, link')
    BY <2>1, TypeParts DEF LinksMove
  <2> QED BY <1>0, <2>1, <2>2, <2>3, OutsideHolds
<1>3. ASSUME NEW state \in {"canceled", "expired"}, Abandon(o, state) PROVE IInv'
  <2>1. /\ link[o] = "open" /\ Closes(o, state)
        /\ UNCHANGED <<now, db, deaths, honored, applied>>
    BY <1>3 DEF Abandon
  <2> QED BY <1>0, <2>1, ClosesIs, OutsideHolds
<1> QED BY <1>1, <1>2, <1>3

LEMMA NextInv == IInv /\ [Next]_vars => IInv'
<1> SUFFICES ASSUME IInv, [Next]_vars PROVE IInv'
  OBVIOUS
<1>0. now \in 1..MaxTime
  BY DEF IInv, TypeOK
<1>1. ASSUME NEW o \in Orders, Checkout(o) PROVE IInv'
  BY <1>1, CheckoutHolds
<1>2. ASSUME NEW answer \in Answers, NEW touch \in BOOLEAN,
             GetEntitlement(answer, touch) \/ Gate(answer, touch)
      PROVE  IInv'
  BY <1>2, AsksHolds DEF GetEntitlement, Gate
<1>3. ASSUME NEW answer \in Answers, NEW touch \in BOOLEAN, NEW immediately \in BOOLEAN,
             Cancel(immediately, answer, touch)
      PROVE  IInv'
  BY <1>3, CancelHolds
<1>4. ASSUME NEW h \in hooks, NEW touch \in BOOLEAN, Deliver(h, touch) PROVE IInv'
  BY <1>4, DeliverHolds
<1>5. CASE Tick
  <2>1. /\ now' \in 1..MaxTime /\ UNCHANGED <<db, link, hooks, deaths, honored, applied>>
    BY <1>0, <1>5, TypeParts DEF Tick
  <2> QED BY <2>1, SameLinks, OutsideHolds
<1>6. CASE UNCHANGED vars
  <2>1. UNCHANGED <<now, db, link, hooks, deaths, honored, applied>>
    BY <1>6 DEF vars
  <2> QED BY <1>0, <2>1, SameLinks, OutsideHolds
<1> QED BY <1>1, <1>2, <1>3, <1>4, <1>5, <1>6, PayOSHolds DEF Next, Requested, PayOS

LEMMA InitInv == Init => IInv
<1> SUFFICES ASSUME Init PROVE IInv
  OBVIOUS
<1>1. /\ now = 1 /\ link = [o \in Orders |-> "none"] /\ hooks = {} /\ deaths = 0
      /\ honored = {} /\ applied = [o \in Orders |-> 0]
      /\ db.sub = [o \in Orders |-> NoRow] /\ db.recent = <<>> /\ db.plan = "free"
      /\ db.events = [o \in Orders |-> [t \in EventTypes |-> {}]] /\ db.quota = "none"
  BY DEF Init
<1>2. NoRow \in Row /\ NoRow.status = "none" /\ NoRow.grace = 0
  BY DEF NoRow, Row, Statuses
<1>3. db \in Dbs
  <2>1. <<>> \in Seq(Orders) /\ [o \in Orders |-> NoRow] \in [Orders -> Row]
    BY <1>2
  <2>2. "free" \in Plans /\ "none" \in Sources
    BY DEF Plans, Sources
  <2> QED BY <2>1, <2>2 DEF Init, Dbs
<1>4. Sound(db, link, honored)
  <2>1. IsInjective(db.recent) /\ ToSet(db.recent) = {} /\ Created(db) = {}
    BY <1>1, <1>2 DEF IsInjective, ToSet, Created
  <2> QED BY <1>1, <1>2, <2>1 DEF Sound
<1>5. TypeOK
  <2>1. now \in 1..MaxTime /\ deaths \in 0..MaxDeaths
    BY <1>1, BillingAssumption
  <2> QED BY <1>1, <1>3, <2>1 DEF TypeOK, Dbs, LinkStates
<1>6. HooksTell /\ ActiveWasHonored /\ EventsTell /\ AppliedOnce
  BY <1>1, <1>2 DEF HooksTell, ActiveWasHonored, EventsTell, AppliedOnce
<1> QED BY <1>3, <1>4, <1>5, <1>6 DEF IInv

-----------------------------------------------------------------------------
(* The theorems.                                                           *)

\* Every state of the service and of PayOS satisfies IInv, wherever a handler
\* is cut short.
THEOREM InductiveInvariant == Spec => []IInv
BY InitInv, NextInv, PTL DEF Spec

\* Every column keeps its type, and the statuses are the service's own words.
THEOREM TypeCorrect == Spec => []TypeOK
<1>1. IInv => TypeOK
  BY DEF IInv
<1> QED BY <1>1, InductiveInvariant, PTL

\* No sequence of webhooks, polls, cancellations and deaths gives an entitlement,
\* or a plan, to a user of whom PayOS never had a payment.
THEOREM NothingForFree == Spec => []GrantsArePaid
<1>1. IInv => GrantsArePaid
  <2> SUFFICES ASSUME IInv PROVE GrantsArePaid
    OBVIOUS
  <2> QED BY TypeParts, EntitlementIs DEF IInv, GrantsArePaid, Sound
<1> QED BY <1>1, InductiveInvariant, PTL

\* A payment is not lost to a cancellation, an expiry or a poll that raced it.
THEOREM PaidIsKept == Spec => []PaidIsNotGivenUp
<1>1. IInv => PaidIsNotGivenUp
  BY DEF IInv, PaidIsNotGivenUp, Sound
<1> QED BY <1>1, InductiveInvariant, PTL

\* While no process dies, a payment's webhook starts one period, however often
\* it is repeated.
THEOREM WebhookAppliesOnce == Spec => []AppliedOnce
<1>1. IInv => AppliedOnce
  BY DEF IInv
<1> QED BY <1>1, InductiveInvariant, PTL
=============================================================================
