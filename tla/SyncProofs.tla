----------------------------- MODULE SyncProofs -----------------------------
(***************************************************************************)
(* Theorems about CloudSync, for any devices, items, limits and failures.  *)
(***************************************************************************)
EXTENDS CloudSync, FiniteSetTheorems, WellFoundedInduction, TLAPS

-----------------------------------------------------------------------------
(* The inductive invariant.  A store only grows newer, so a snapshot is no  *)
(* newer than the store it was taken of, nor than a later one of its device. *)

Growing ==
    \A s \in snapshots :
        /\ \A i \in Items : s.data[i] <= local[s.by][i]
        /\ \A t \in snapshots : s.by = t.by /\ s.at <= t.at =>
              \A i \in Items : s.data[i] <= t.data[i]

Stored ==
    /\ now \in Nat /\ now >= Start
    /\ local \in [Devices -> [Items -> Nat]]
    /\ snapshots \subseteq Snapshots /\ IsFiniteSet(snapshots)
    /\ Cardinality(snapshots) <= MaxSnapshots
    /\ \A d \in Devices, i \in Items : local[d][i] < now + LocalAhead
    /\ \A s \in snapshots : s.at < now
    /\ Growing

Noted ==
    /\ pushedAt \in [Devices -> Nat] /\ pulledAt \in [Devices -> Nat]
    /\ pc \in [Devices -> PCs]
    /\ edits \in 0..MaxEdits /\ faults \in 0..MaxFaults
    /\ completed \subseteq Devices
    /\ basis \in [Devices -> [Items -> Nat]]

IInv == Stored /\ Noted

-----------------------------------------------------------------------------
(* Where the database keeps the clock's own times.                         *)

Exact == Grain = 1

Dates ==
    /\ \A d \in Devices : pushedAt[d] < now /\ pulledAt[d] < now
    /\ \A s \in snapshots : s.created = s.at

TwoDevices == \A d, e, f \in Devices : d = e \/ e = f \/ d = f

\* One of the snapshots S has the item as new as that.
Has(S, i, edit) == edit = 0 \/ \E s \in S : Ready(s) /\ edit <= s.data[i]

\* What the other device had pushed by the time of the last pull is here.
Pulled ==
    \A d \in Devices : \A s \in Remote(d) :
        s.created <= pulledAt[d] => \A i \in Items : s.data[i] <= local[d][i]

\* What is here is in the cloud, or was edited since the last push.
Pushed ==
    \A d \in Devices, i \in Items : Has(snapshots, i, local[d][i]) \/ local[d][i] > pushedAt[d]

\* What a sync is to bring is here, or waits to be pulled; once it is completed
\* it is here and in the cloud.
Brought ==
    \A d \in Devices, i \in Items :
        /\ pc[d] = "pulling" => \/ basis[d][i] <= local[d][i]
                                \/ \E s \in Remote(d) : basis[d][i] <= s.data[i]
        /\ pc[d] \in {"pulled", "pushing"} \/ d \in completed => basis[d][i] <= local[d][i]
        /\ d \in completed => Has(snapshots, i, basis[d][i])

SInv == IInv /\ Dates /\ Pulled /\ Pushed /\ Brought

Failed == {s \in snapshots : s.trigger = "sync" /\ ~Ready(s)}
Echoes(d) == {s \in Own(d) : s.trigger = "sync" /\ s.at + LocalAhead > LastEdit}

\* A device that pushed since the last edit has noted it, and does not push.
OneEcho ==
    /\ Cardinality(Failed) <= faults
    /\ \A d \in Devices :
          /\ \A s \in Own(d) : s.trigger = "sync" => s.at <= pushedAt[d]
          /\ \A s, t \in Echoes(d) : s = t
          /\ pc[d] = "pushing" => Echoes(d) = {}

EInv == IInv /\ Dates /\ OneEcho

-----------------------------------------------------------------------------
(* The greatest of finitely many times.                                    *)

LEMMA Least ==
    ASSUME NEW I \in SUBSET Nat, I # {}
    PROVE  \E m \in I : \A i \in I : m <= i
<1> DEFINE Less == {ss \in Nat \X Nat : ss[1] < ss[2]}
<1>1. IsWellFoundedOn(Less, Nat)
  BY NatLessThanWellFounded DEF OpToRel
<1> HIDE DEF Less
<1>2. \E m \in I : \A i \in I : ~(<<i, m>> \in Less)
  <2>1. I \subseteq Nat
    OBVIOUS
  <2> QED BY <1>1, <2>1, WFMin, Zenon
<1>3. PICK m \in I : \A i \in I : ~(<<i, m>> \in Less)
  BY <1>2
<1>4. ASSUME NEW i \in I PROVE m <= i
  <2>1. <<i, m>> \in Nat \X Nat /\ <<i, m>>[1] = i /\ <<i, m>>[2] = m
    OBVIOUS
  <2>2. ~(i < m)
    BY <1>3, <2>1 DEF Less
  <2> QED BY <2>2
<1> QED BY <1>4

\* Else there is a first k such that none of f[1..k] is greatest.
LEMMA GreatestAmong ==
    ASSUME NEW n \in Nat, n >= 1, NEW f \in [1..n -> Nat]
    PROVE  \E m \in 1..n : \A j \in 1..n : f[j] <= f[m]
<1> DEFINE best(k, m) == \A j \in 1..k : f[j] <= f[m]
           open == {k \in 1..n : ~\E m \in 1..k : best(k, m)}
<1>1. CASE open = {}
  <2>1. n \in 1..n /\ n \notin open
    <3> HIDE DEF open
    <3> QED BY <1>1
  <2> QED BY <2>1
<1>2. CASE open # {}
  <2>1. open \in SUBSET Nat
    OBVIOUS
  <2>2. PICK k \in open : \A i \in open : k <= i
    <3> HIDE DEF open
    <3> QED BY <1>2, <2>1, Least
  <2>3. k \in 1..n /\ ~\E m \in 1..k : best(k, m)
    BY <2>2
  <2>4. k # 1
    <3>1. k = 1 => best(k, 1)
      OBVIOUS
    <3> QED BY <2>3, <3>1
  <2>5. k - 1 \in 1..n /\ k - 1 \notin open
    <3>1. k - 1 \in 1..n /\ ~(k <= k - 1)
      BY <2>3, <2>4
    <3> HIDE DEF open
    <3> QED BY <2>2, <3>1
  <2>6. PICK m \in 1..(k - 1) : best(k - 1, m)
    BY <2>5
  <2>7. /\ m \in 1..k /\ k \in 1..k /\ f[m] \in Nat /\ f[k] \in Nat
        /\ \A j \in 1..k : j = k \/ j \in 1..(k - 1)
        /\ \A j \in 1..(k - 1) : f[j] \in Nat
    BY <2>3, <2>4
  <2> HIDE DEF open
  <2>8. CASE f[k] <= f[m]
    <3>1. best(k, m)
      BY <2>6, <2>7, <2>8
    <3> HIDE DEF best
    <3> QED BY <2>3, <2>7, <3>1, Zenon
  <2>9. CASE f[m] < f[k]
    <3>1. best(k, k)
      BY <2>6, <2>7, <2>9
    <3> HIDE DEF best
    <3> QED BY <2>3, <2>7, <3>1, Zenon
  <2>10. f[k] <= f[m] \/ f[m] < f[k]
    BY <2>7
  <2> QED BY <2>8, <2>9, <2>10
<1> QED BY <1>1, <1>2

LEMMA MaxIs ==
    ASSUME NEW T \in SUBSET Nat, T # {}, IsFiniteSet(T)
    PROVE  Max(T) \in T /\ \A x \in T : x <= Max(T)
<1>1. PICK f \in Bijection(1..Cardinality(T), T) : TRUE
  BY FS_CardinalityType DEF ExistsBijection
<1> DEFINE n == Cardinality(T)
<1>2. n \in Nat /\ n # 0
  BY FS_CardinalityType, FS_EmptySet
<1>3. /\ f \in [1..n -> T] /\ \A x \in T : \E j \in 1..n : f[j] = x
  BY <1>1 DEF Bijection, Injection, Surjection
<1> HIDE DEF n
<1>4. PICK m \in 1..n : \A j \in 1..n : f[j] <= f[m]
  <2>1. f \in [1..n -> Nat]
    BY <1>3
  <2>2. n >= 1
    BY <1>2
  <2> QED BY <1>2, <2>1, <2>2, GreatestAmong
<1>5. f[m] \in T /\ \A x \in T : f[m] >= x
  BY <1>3, <1>4
<1>6. Max(T) \in T /\ \A x \in T : Max(T) >= x
  BY <1>5 DEF Max
<1> QED BY <1>6

LEMMA ImageIsFinite ==
    ASSUME NEW S, IsFiniteSet(S), NEW f, f = [x \in S |-> f[x]]
    PROVE  IsFiniteSet({f[x] : x \in S})
<1> DEFINE T == {f[x] : x \in S}
<1>1. f \in Surjection(S, T)
  BY DEF Surjection
<1> QED BY <1>1, FS_Surjection

LEMMA NewestIs ==
    ASSUME NEW data \in [Items -> Nat]
    PROVE  /\ Newest(data) \in Nat
           /\ \A i \in Items : data[i] <= Newest(data)
           /\ \E i \in Items : data[i] = Newest(data)
<1> DEFINE T == {data[i] : i \in Items}
<1>1. T \in SUBSET Nat /\ T # {}
  BY SyncAssumption
<1>2. IsFiniteSet(T)
  BY SyncAssumption, ImageIsFinite
<1>3. Max(T) \in T /\ \A x \in T : x <= Max(T)
  BY <1>1, <1>2, MaxIs
<1> QED BY <1>1, <1>3 DEF Newest

LastEditTells ==
    /\ LastEdit \in Nat
    /\ \A d \in Devices, i \in Items : local[d][i] <= LastEdit
    /\ LastEdit = 0 \/ \E d \in Devices, i \in Items : local[d][i] = LastEdit

LEMMA LastEditIs == Stored => LastEditTells
<1> SUFFICES ASSUME local \in [Devices -> [Items -> Nat]] PROVE LastEditTells
  BY DEF Stored
<1> DEFINE f == [d \in Devices |-> Newest(local[d])]
           T == {f[d] : d \in Devices}
           U == {0} \cup {Newest(local[d]) : d \in Devices}
<1>1. \A d \in Devices : /\ f[d] \in Nat /\ f[d] = Newest(local[d])
                         /\ \A i \in Items : local[d][i] <= f[d]
                         /\ \E i \in Items : local[d][i] = f[d]
  BY NewestIs
<1>2. U = T \cup {0}
  OBVIOUS
<1>3. IsFiniteSet(U)
  <2>1. IsFiniteSet(T)
    <3>1. f = [d \in Devices |-> f[d]]
      OBVIOUS
    <3> HIDE DEF f
    <3> QED BY <3>1, SyncAssumption, ImageIsFinite
  <2> HIDE DEF T
  <2> QED BY <1>2, <2>1, FS_AddElement
<1>4. LastEdit = Max(U)
  BY DEF LastEdit
<1>5. U \in SUBSET Nat /\ U # {}
  BY <1>1
<1> HIDE DEF U
<1>6. Max(U) \in U /\ \A x \in U : x <= Max(U)
  BY <1>3, <1>5, MaxIs
<1>7. \A x \in U : x = 0 \/ \E d \in Devices : x = f[d]
  BY <1>2
<1>8. \A d \in Devices : f[d] \in U
  BY <1>2
<1> HIDE DEF f, T
<1>9. LastEdit \in Nat
  BY <1>4, <1>5, <1>6
<1>10. \A d \in Devices, i \in Items : local[d][i] <= LastEdit
  <2> SUFFICES ASSUME NEW d \in Devices, NEW i \in Items PROVE local[d][i] <= LastEdit
    OBVIOUS
  <2>1. f[d] <= LastEdit /\ f[d] \in Nat /\ local[d][i] <= f[d] /\ local[d][i] \in Nat
    BY <1>1, <1>4, <1>6, <1>8
  <2> QED BY <1>9, <2>1
<1> QED BY <1>1, <1>4, <1>6, <1>7, <1>9, <1>10 DEF LastEditTells

LEMMA InCloudIs ==
    ASSUME Stored, NEW i \in Items
    PROVE  /\ InCloud(i) \in Nat
           /\ \A s \in snapshots : Ready(s) => s.data[i] <= InCloud(i)
           /\ Has(snapshots, i, InCloud(i))
<1> DEFINE S == {t \in snapshots : Ready(t)}
           f == [s \in S |-> s.data[i]]
           T == {f[s] : s \in S}
           U == {0} \cup {s.data[i] : s \in S}
<1>1. \A s \in S : f[s] \in Nat /\ f[s] = s.data[i] /\ s \in snapshots
  BY DEF Stored, Snapshots
<1>2. U = T \cup {0}
  OBVIOUS
<1>3. IsFiniteSet(U)
  <2>1. IsFiniteSet(S)
    <3>1. S \in SUBSET snapshots
      OBVIOUS
    <3> HIDE DEF S
    <3> QED BY <3>1, FS_Subset DEF Stored
  <2>2. IsFiniteSet(T)
    <3> HIDE DEF S
    <3> QED BY <2>1, ImageIsFinite
  <2> HIDE DEF T
  <2> QED BY <1>2, <2>2, FS_AddElement
<1>4. InCloud(i) = Max(U)
  BY DEF InCloud
<1>5. U \in SUBSET Nat /\ U # {}
  BY <1>1
<1> HIDE DEF U
<1>6. Max(U) \in U /\ \A x \in U : x <= Max(U)
  BY <1>3, <1>5, MaxIs
<1>7. \A x \in U : x = 0 \/ \E s \in S : x = f[s]
  BY <1>2
<1>8. \A s \in S : f[s] \in U
  BY <1>2
<1>9. \A s \in snapshots : Ready(s) => s.data[i] <= InCloud(i)
  BY <1>1, <1>4, <1>6, <1>8
<1>10. InCloud(i) \in Nat
  BY <1>4, <1>5, <1>6
<1>11. InCloud(i) = 0 \/ \E s \in snapshots : Ready(s) /\ InCloud(i) = s.data[i]
  BY <1>1, <1>4, <1>6, <1>7
<1> QED BY <1>9, <1>10, <1>11 DEF Has

LEMMA LatestIs ==
    ASSUME Stored, NEW S \in SUBSET snapshots, S # {}
    PROVE  Latest(S) # {}
<1> DEFINE f == [s \in S |-> s.created]
           T == {f[s] : s \in S}
<1>1. \A s \in S : f[s] \in Nat /\ f[s] = s.created
  BY DEF Stored, Snapshots
<1>2. T \in SUBSET Nat /\ T # {}
  BY <1>1
<1>3. IsFiniteSet(T)
  <2>1. IsFiniteSet(S)
    BY FS_Subset DEF Stored
  <2> QED BY <2>1, ImageIsFinite
<1>4. Max(T) \in T /\ \A x \in T : x <= Max(T)
  BY <1>2, <1>3, MaxIs
<1>5. PICK s \in S : Max(T) = f[s]
  BY <1>4
<1>6. \A t \in S : t.created <= s.created
  BY <1>1, <1>4, <1>5
<1> QED BY <1>6 DEF Latest

-----------------------------------------------------------------------------
(* Timestamps, and what an edit, an import and a snapshot do to the stores. *)

LEMMA Product ==
    ASSUME NEW a \in Nat, NEW b \in Nat
    PROVE  a * b \in Nat /\ (a >= 1 => a * b >= b)
OBVIOUS

LEMMA Whole ==
    ASSUME NEW a \in Nat, NEW b \in Nat, b > 0
    PROVE  a \div b \in Nat
OBVIOUS

LEMMA TimesAre ==
    ASSUME now \in Nat
    PROVE  Truncated \in Nat /\ Rounded \in Nat
<1>1. Grain \in Nat /\ Grain > 0 /\ 2 \in Nat /\ 2 > 0
  BY SyncAssumption
<1>2. Grain \div 2 \in Nat /\ now \div Grain \in Nat
  BY <1>1, Whole
<1>3. now + Grain \div 2 \in Nat
  BY <1>2
<1>4. (now + Grain \div 2) \div Grain \in Nat
  BY <1>1, <1>3, Whole
<1> QED BY <1>1, <1>2, <1>4, Product DEF Truncated, Rounded

LEMMA LocalNowIs == Stored => LocalNow \in Nat /\ LocalNow > 0 /\ now > 0
<1> SUFFICES ASSUME Stored PROVE LocalNow \in Nat /\ LocalNow > 0 /\ now > 0
  OBVIOUS
<1> DEFINE k == 1 + (IF LocalAhead < 0 THEN -LocalAhead ELSE LocalAhead)
<1>1. k \in Nat /\ k >= 1 /\ k + LocalAhead > 0 /\ LocalAhead \in Int
  BY SyncAssumption
<1>2. Grain \in Nat /\ Grain >= 1
  BY SyncAssumption
<1>3. Start = Grain * k
  BY DEF Start
<1> HIDE DEF k
<1>4. Start >= k /\ Start \in Nat
  BY <1>1, <1>2, <1>3, Product
<1> QED BY <1>1, <1>4 DEF Stored, LocalNow

LEMMA StoreGrows ==
    ASSUME Stored, NEW d \in Devices, NEW new \in [Items -> Nat],
           \A i \in Items : local[d][i] <= new[i] /\ new[i] < now' + LocalAhead,
           local' = [local EXCEPT ![d] = new], now' \in {now, now + 1},
           UNCHANGED snapshots
    PROVE  /\ Stored'
           /\ \A e \in Devices, i \in Items : local[e][i] <= local'[e][i]
<1>1. /\ now' \in Nat /\ now' >= Start /\ now' >= now
      /\ LocalAhead \in Int
  BY SyncAssumption, LocalNowIs DEF Stored, Start
<1>2. /\ local' \in [Devices -> [Items -> Nat]]
      /\ \A e \in Devices : local'[e] = IF e = d THEN new ELSE local[e]
  BY DEF Stored
<1>3. \A e \in Devices, i \in Items :
         /\ local[e][i] \in Nat /\ local'[e][i] \in Nat
         /\ local[e][i] <= local'[e][i] /\ local'[e][i] < now' + LocalAhead
  BY <1>1, <1>2 DEF Stored
<1>4. /\ snapshots' \subseteq Snapshots /\ IsFiniteSet(snapshots')
      /\ Cardinality(snapshots') <= MaxSnapshots
  BY DEF Stored
<1>5. \A s \in snapshots' : s.at < now'
  BY <1>1 DEF Stored, Snapshots
<1>6. Growing'
  <2> SUFFICES ASSUME NEW s \in snapshots, NEW i \in Items
               PROVE  s.data[i] <= local'[s.by][i]
    BY DEF Growing, Stored
  <2>1. s.data[i] \in Nat /\ s.by \in Devices /\ s.data[i] <= local[s.by][i]
    BY DEF Stored, Growing, Snapshots
  <2> QED BY <1>3, <2>1
<1> QED BY <1>1, <1>2, <1>3, <1>4, <1>5, <1>6 DEF Stored, Start

LEMMA SnapshotTaken ==
    ASSUME Stored, NEW d \in Devices, Fits, UNCHANGED local, now' = now + 1,
           NEW trigger \in {"sync", "manual"},
           NEW status \in {"upload_requested", "failed", "ready"},
           snapshots' = snapshots \cup {Snapshot(d, trigger, status)}
    PROVE  /\ Stored'
           /\ Snapshot(d, trigger, status) \in Snapshots \ snapshots
<1> DEFINE new == Snapshot(d, trigger, status)
<1>1. /\ new.by = d /\ new.at = now /\ new.data = local[d]
      /\ new \in Snapshots
  BY TimesAre DEF Stored, Snapshot, Snapshots
<1>2. /\ now' \in Nat /\ now' >= Start /\ now' > now /\ LocalAhead \in Int /\ now \in Nat
  BY SyncAssumption, LocalNowIs DEF Stored, Start
<1>3. \A s \in snapshots : /\ s.at \in Nat /\ s.at < now /\ s \in Snapshots
                           /\ s.by \in Devices /\ s.data \in [Items -> Nat]
  BY DEF Stored, Snapshots
<1>4. new \notin snapshots
  BY <1>1, <1>2, <1>3
<1> HIDE DEF new
<1>5. snapshots' = snapshots \cup {new}
  BY DEF new
<1>6. /\ snapshots' \subseteq Snapshots /\ IsFiniteSet(snapshots')
      /\ Cardinality(snapshots') <= MaxSnapshots
  <2>1. /\ IsFiniteSet(snapshots') /\ Cardinality(snapshots') = Cardinality(snapshots) + 1
    BY <1>4, <1>5, FS_AddElement DEF Stored
  <2>2. Cardinality(snapshots) \in Nat /\ Cardinality(snapshots) < MaxSnapshots
        /\ MaxSnapshots \in Nat
    BY FS_CardinalityType, SyncAssumption DEF Stored, Fits
  <2> QED BY <1>1, <1>5, <2>1, <2>2 DEF Stored
<1>7. \A s \in snapshots' : s.at < now'
  BY <1>1, <1>2, <1>3, <1>5
<1>8. \A e \in Devices, i \in Items : local'[e][i] \in Nat /\ local'[e][i] < now' + LocalAhead
  BY <1>2 DEF Stored
<1>9. Growing'
  <2>1. ASSUME NEW s \in snapshots', NEW i \in Items
        PROVE  s.data[i] <= local[s.by][i] /\ s.data[i] \in Nat
    BY <1>1, <1>3, <1>5 DEF Stored, Growing
  <2>2. ASSUME NEW s \in snapshots', NEW t \in snapshots', s.by = t.by, s.at <= t.at,
               NEW i \in Items
        PROVE  s.data[i] <= t.data[i]
    <3>1. CASE s \in snapshots /\ t \in snapshots
      BY <2>2, <3>1 DEF Stored, Growing
    <3>2. CASE t = new
      BY <1>1, <2>1, <2>2, <3>2
    <3>3. CASE s = new /\ t \in snapshots
      BY <1>1, <1>2, <1>3, <2>2, <3>3
    <3> QED BY <1>5, <3>1, <3>2, <3>3
  <2> QED BY <2>1, <2>2 DEF Growing
<1>10. Stored'
  BY <1>2, <1>6, <1>7, <1>8, <1>9 DEF Stored, Start
<1> QED BY <1>1, <1>4, <1>10 DEF new

LEMMA StoreStays ==
    ASSUME Stored, UNCHANGED <<local, snapshots>>, now' = now
    PROVE  Stored'
BY DEF Stored, Growing, Start

-----------------------------------------------------------------------------
(* Every step keeps the invariant, and only lets stores and snapshots grow.  *)

Grown ==
    /\ snapshots \subseteq snapshots'
    /\ \A d \in Devices, i \in Items : local[d][i] <= local'[d][i]

LEMMA MergedIs ==
    ASSUME NEW a \in [Items -> Nat], NEW b \in [Items -> Nat]
    PROVE  /\ Merged(a, b) \in [Items -> Nat]
           /\ \A i \in Items : /\ a[i] <= Merged(a, b)[i] /\ b[i] <= Merged(a, b)[i]
                              /\ Merged(a, b)[i] \in {a[i], b[i]}
BY DEF Merged

LEMMA SnapshotIs ==
    ASSUME Stored, NEW s \in snapshots
    PROVE  /\ s \in Snapshots /\ s.by \in Devices /\ s.at \in Nat /\ s.created \in Nat
           /\ s.data \in [Items -> Nat]
           /\ \A i \in Items : s.data[i] <= local[s.by][i] /\ s.data[i] < now + LocalAhead
BY SyncAssumption DEF Stored, Growing, Snapshots

LEMMA ImportGrows ==
    ASSUME Stored, NEW d \in Devices, NEW s \in snapshots, NEW some \in SUBSET Items,
           now' \in {now, now + 1}, UNCHANGED snapshots,
           local' = [local EXCEPT ![d] =
                       [i \in Items |-> IF i \in some THEN Merged(@, s.data)[i] ELSE @[i]]]
    PROVE  /\ Stored' /\ Grown
           /\ \A i \in Items : local'[d][i] \in {local[d][i], s.data[i]}
           /\ \A i \in some : s.data[i] <= local'[d][i]
           /\ \A e \in Devices : e # d => local'[e] = local[e]
<1> DEFINE new == [i \in Items |-> IF i \in some THEN Merged(local[d], s.data)[i] ELSE local[d][i]]
<1>1. /\ local[d] \in [Items -> Nat] /\ s.data \in [Items -> Nat]
      /\ \A i \in Items : /\ local[d][i] < now + LocalAhead /\ s.data[i] < now + LocalAhead
                         /\ local[d][i] \in Nat /\ s.data[i] \in Nat
  BY SnapshotIs DEF Stored
<1>2. /\ Merged(local[d], s.data) \in [Items -> Nat]
      /\ \A i \in Items : /\ local[d][i] <= Merged(local[d], s.data)[i]
                         /\ s.data[i] <= Merged(local[d], s.data)[i]
                         /\ Merged(local[d], s.data)[i] \in {local[d][i], s.data[i]}
  BY <1>1, MergedIs
<1>3. /\ new \in [Items -> Nat]
      /\ \A i \in Items : local[d][i] <= new[i] /\ new[i] \in {local[d][i], s.data[i]}
      /\ \A i \in some : s.data[i] <= new[i]
  BY <1>1, <1>2
<1>4. local' = [local EXCEPT ![d] = new]
  OBVIOUS
<1> HIDE DEF new
<1>5. \A i \in Items : new[i] < now' + LocalAhead
  <2>1. now \in Nat /\ LocalAhead \in Int
    BY SyncAssumption DEF Stored
  <2> QED BY <1>1, <1>3, <2>1
<1>6. Stored' /\ Grown
  BY <1>3, <1>4, <1>5, StoreGrows DEF Grown
<1>7. local'[d] = new /\ \A e \in Devices : e # d => local'[e] = local[e]
  BY <1>4 DEF Stored
<1> QED BY <1>3, <1>6, <1>7

LEMMA PullIs ==
    ASSUME Stored, NEW d \in Devices, Pull(d)
    PROVE  /\ Stored' /\ Grown /\ UNCHANGED snapshots
           /\ \E s \in Latest(Remote(d)) : \A i \in Items :
                 /\ local'[d][i] \in {local[d][i], s.data[i]}
                 /\ s.data[i] <= local'[d][i]
           /\ \A e \in Devices : e # d => local'[e] = local[e]
<1>1. PICK s \in Latest(Remote(d)) : local' = [local EXCEPT ![d] = Imported(@, s.data)]
  BY DEF Pull
<1>2. s \in snapshots
  BY DEF Latest, Remote
<1>3. local' = [local EXCEPT ![d] =
                  [i \in Items |-> IF i \in Items THEN Merged(@, s.data)[i] ELSE @[i]]]
  BY <1>1 DEF Imported, Merged
<1>4. now' = now + 1 /\ UNCHANGED snapshots
  BY DEF Pull
<1>5. Items \in SUBSET Items
  OBVIOUS
<1> QED BY <1>2, <1>3, <1>4, <1>5, ImportGrows

LEMMA PullFailsIs ==
    ASSUME Stored, NEW d \in Devices, PullFails(d)
    PROVE  /\ Stored' /\ Grown /\ UNCHANGED snapshots
           /\ \E s \in Latest(Remote(d)) : \A i \in Items :
                 local'[d][i] \in {local[d][i], s.data[i]}
           /\ \A e \in Devices : e # d => local'[e] = local[e]
<1>1. PICK s \in Latest(Remote(d)), some \in SUBSET Items :
         local' = [local EXCEPT ![d] =
                     [i \in Items |-> IF i \in some THEN Merged(@, s.data)[i] ELSE @[i]]]
  BY DEF PullFails, Imported
<1>2. s \in snapshots
  BY DEF Latest, Remote
<1>3. now' = now /\ UNCHANGED snapshots
  BY DEF PullFails
<1> QED BY <1>1, <1>2, <1>3, ImportGrows

LEMMA EditIs ==
    ASSUME Stored, NEW d \in Devices, NEW i \in Items, Edit(d, i)
    PROVE  /\ Stored' /\ Grown /\ UNCHANGED snapshots
           /\ local' = [local EXCEPT ![d][i] = LocalNow]
<1> DEFINE new == [local[d] EXCEPT ![i] = LocalNow]
<1>1. /\ local' = [local EXCEPT ![d][i] = LocalNow] /\ now' = now + 1 /\ UNCHANGED snapshots
  BY DEF Edit
<1>2. LocalNow \in Nat /\ LocalNow = now + LocalAhead /\ now \in Nat /\ LocalAhead \in Int
  BY SyncAssumption, LocalNowIs DEF LocalNow, Stored
<1>3. /\ local[d] \in [Items -> Nat]
      /\ \A j \in Items : local[d][j] \in Nat /\ local[d][j] < now + LocalAhead
  BY DEF Stored
<1>4. /\ new \in [Items -> Nat]
      /\ \A j \in Items : local[d][j] <= new[j] /\ new[j] < now' + LocalAhead
  BY <1>1, <1>2, <1>3
<1>5. local' = [local EXCEPT ![d] = new]
  BY <1>1, <1>3
<1> HIDE DEF new
<1>6. now' \in {now, now + 1}
  BY <1>1
<1>7. Stored' /\ Grown
  BY <1>1, <1>4, <1>5, <1>6, StoreGrows DEF Grown
<1> QED BY <1>1, <1>7

\* A step that adds one snapshot, of what the device holds.
Adds(d, trigger, status) ==
    /\ snapshots' = snapshots \cup {Snapshot(d, trigger, status)}
    /\ Snapshot(d, trigger, status) \notin snapshots
    /\ UNCHANGED local /\ now' = now + 1
    /\ Stored' /\ Grown

LEMMA AddsIs ==
    ASSUME Stored, NEW d \in Devices
    PROVE  /\ Push(d) => Adds(d, "sync", "ready")
           /\ PushFails(d) => \E status \in {"failed", "upload_requested"} :
                                 Adds(d, "sync", status)
           /\ Backup(d) => Adds(d, "manual", "ready")
<1>1. ASSUME NEW trigger \in {"sync", "manual"},
             NEW status \in {"upload_requested", "failed", "ready"}, Fits,
             UNCHANGED local, now' = now + 1,
             snapshots' = snapshots \cup {Snapshot(d, trigger, status)}
      PROVE  Adds(d, trigger, status)
  <2>1. Stored' /\ Snapshot(d, trigger, status) \notin snapshots
    BY <1>1, SnapshotTaken
  <2>2. Grown
    BY <1>1 DEF Grown, Stored
  <2> QED BY <1>1, <2>1, <2>2 DEF Adds
<1>2. Push(d) => Adds(d, "sync", "ready")
  BY <1>1 DEF Push
<1>3. Backup(d) => Adds(d, "manual", "ready")
  BY <1>1 DEF Backup
<1>4. ASSUME PushFails(d)
      PROVE  \E status \in {"failed", "upload_requested"} : Adds(d, "sync", status)
  <2>1. PICK status \in {"failed", "upload_requested"} :
           snapshots' = snapshots \cup {Snapshot(d, "sync", status)}
    BY <1>4 DEF PushFails
  <2>2. Adds(d, "sync", status)
    BY <1>1, <1>4, <2>1 DEF PushFails
  <2> QED BY <2>2
<1> QED BY <1>2, <1>3, <1>4

\* The other steps touch neither stores nor snapshots.
Idles(d) == BeginSync(d) \/ CheckAgain(d) \/ PushRefused(d)

LEMMA IdlesIs ==
    ASSUME Stored, NEW d \in Devices, Idles(d)
    PROVE  Stored' /\ Grown /\ UNCHANGED <<now, local, snapshots>>
<1>1. UNCHANGED <<now, local, snapshots>>
  BY DEF Idles, BeginSync, CheckAgain, PushRefused
<1>2. Stored'
  BY <1>1, StoreStays
<1> QED BY <1>1, <1>2 DEF Grown, Stored

LEMMA NextNoted == ASSUME IInv, NEW d \in Devices, Sync(d) \/ Backup(d) PROVE Noted'
<1> USE DEF IInv, Noted
<1>1. PCs = {"idle", "pulling", "pulled", "pushing"}
  BY DEF PCs
<1>2. CASE BeginSync(d)
  <2> DEFINE cloud == [i \in Items |-> InCloud(i)]
  <2>1. local[d] \in [Items -> Nat] /\ cloud \in [Items -> Nat]
    BY InCloudIs DEF Stored
  <2>2. Merged(local[d], cloud) \in [Items -> Nat]
    BY <2>1, MergedIs
  <2>3. pc' \in [Devices -> PCs]
    BY <1>1, <1>2 DEF BeginSync, Goto
  <2> QED BY <1>2, <2>2, <2>3 DEF BeginSync
<1>3. CASE Pull(d)
  <2>1. Rounded \in Nat
    BY TimesAre DEF Stored
  <2> QED BY <1>1, <1>3, <2>1 DEF Pull, Goto
<1>4. ASSUME Fails(d) PROVE faults' \in 0..MaxFaults /\ pc' \in [Devices -> PCs]
                            /\ completed' = completed
  BY <1>1, <1>4, SyncAssumption DEF Fails, Goto
<1>5. CASE PullFails(d)
  BY <1>4, <1>5 DEF PullFails
<1>6. CASE CheckAgain(d)
  BY <1>1, <1>6 DEF CheckAgain, Goto, Completes
<1>7. CASE Push(d)
  <2>1. Rounded \in Nat
    BY TimesAre DEF Stored
  <2> QED BY <1>1, <1>7, <2>1 DEF Push, Goto, Completes, Dated
<1>8. CASE PushFails(d)
  BY <1>4, <1>8 DEF PushFails
<1>9. CASE PushRefused(d)
  BY <1>1, <1>9 DEF PushRefused, Goto
<1>10. CASE Backup(d)
  BY <1>10 DEF Backup
<1> QED BY <1>2, <1>3, <1>5, <1>6, <1>7, <1>8, <1>9, <1>10 DEF Sync

LEMMA EditNoted == ASSUME IInv, NEW d \in Devices, NEW i \in Items, Edit(d, i) PROVE Noted'
BY SyncAssumption DEF IInv, Noted, Edit

LEMMA InitInv == Init => IInv
<1> SUFFICES ASSUME Init PROVE IInv
  OBVIOUS
<1> DEFINE k == 1 + (IF LocalAhead < 0 THEN -LocalAhead ELSE LocalAhead)
<1>1. k \in Nat /\ k >= 1 /\ k + LocalAhead > 0 /\ LocalAhead \in Int
  BY SyncAssumption
<1>2. Grain \in Nat /\ Grain >= 1
  BY SyncAssumption
<1>3. Start = Grain * k /\ now = Start
  BY DEF Start, Init
<1> HIDE DEF k
<1>4. now \in Nat /\ now >= k
  BY <1>1, <1>2, <1>3, Product
<1>5. 0 < now + LocalAhead
  BY <1>1, <1>4
<1>6. /\ local = [e \in Devices |-> [i \in Items |-> 0]] /\ snapshots = {}
      /\ basis = [e \in Devices |-> [i \in Items |-> 0]]
  BY DEF Init, Absent
<1>7. IsFiniteSet(snapshots) /\ Cardinality(snapshots) <= MaxSnapshots
  BY <1>6, FS_EmptySet, SyncAssumption
<1>8. Stored
  BY <1>3, <1>4, <1>5, <1>6, <1>7 DEF Stored, Growing
<1>9. Noted
  BY <1>6, SyncAssumption DEF Init, Noted, PCs
<1> QED BY <1>8, <1>9 DEF IInv

LEMMA NextInv == IInv /\ [Next]_vars => IInv'
<1> SUFFICES ASSUME IInv, [Next]_vars PROVE IInv'
  OBVIOUS
<1>1. Stored
  BY DEF IInv
<1>2. ASSUME NEW d \in Devices, Sync(d) \/ Backup(d) PROVE IInv'
  <2>1. Noted'
    BY <1>2, NextNoted
  <2>2. Stored'
    <3>1. ASSUME NEW trigger, NEW status, Adds(d, trigger, status) PROVE Stored'
      BY <3>1 DEF Adds
    <3> QED BY <1>1, <1>2, <3>1, PullIs, PullFailsIs, AddsIs, IdlesIs DEF Sync, Idles
  <2> QED BY <2>1, <2>2 DEF IInv
<1>3. ASSUME NEW d \in Devices, NEW i \in Items, Edit(d, i) PROVE IInv'
  BY <1>1, <1>3, EditIs, EditNoted DEF IInv
<1>4. CASE UNCHANGED vars
  <2>1. Stored'
    BY <1>1, <1>4, StoreStays DEF vars
  <2>2. Noted'
    BY <1>4 DEF IInv, Noted, vars
  <2> QED BY <2>1, <2>2 DEF IInv
<1> QED BY <1>2, <1>3, <1>4 DEF Next

-----------------------------------------------------------------------------
(* Exact times.                                                            *)

LEMMA ExactTimes ==
    ASSUME Exact, now \in Nat
    PROVE  Truncated = now /\ Rounded = now
<1>1. Grain = 1 /\ 1 \div 2 = 0 /\ now \div 1 = now /\ (now + 0) \div 1 = now
  BY DEF Exact
<1>2. Truncated = now * 1 /\ Rounded = now * 1
  BY <1>1 DEF Truncated, Rounded
<1> QED BY <1>2

LEMMA DatesInv == ASSUME Exact, IInv, Dates, [Next]_vars PROVE Dates'
<1>1. now \in Nat /\ Truncated = now /\ Rounded = now
  BY ExactTimes DEF IInv, Stored
<1>2. \A d \in Devices : /\ pushedAt[d] \in Nat /\ pulledAt[d] \in Nat
                         /\ pushedAt[d] < now /\ pulledAt[d] < now
  BY DEF IInv, Noted, Dates
<1>3. ASSUME now' \in {now, now + 1}, snapshots' = snapshots,
             UNCHANGED <<pushedAt, pulledAt>>
      PROVE  Dates'
  BY <1>1, <1>2, <1>3 DEF Dates
<1>4. ASSUME NEW d \in Devices, NEW trigger, NEW status, Adds(d, trigger, status),
             UNCHANGED pulledAt,
             pushedAt' \in {pushedAt, [pushedAt EXCEPT ![d] = Rounded]}
      PROVE  Dates'
  <2>1. Snapshot(d, trigger, status).created = Snapshot(d, trigger, status).at
    BY <1>1 DEF Snapshot
  <2>2. \A s \in snapshots' : s.created = s.at
    BY <1>4, <2>1 DEF Adds, Dates
  <2>3. now' = now + 1
    BY <1>4 DEF Adds
  <2>4. \A e \in Devices : pushedAt'[e] < now' /\ pulledAt'[e] < now'
    <3>1. CASE pushedAt' = pushedAt
      BY <1>1, <1>2, <1>4, <2>3, <3>1
    <3>2. CASE pushedAt' = [pushedAt EXCEPT ![d] = Rounded]
      <4>1. \A e \in Devices : pushedAt'[e] \in {now, pushedAt[e]}
        BY <1>1, <3>2 DEF IInv, Noted
      <4> QED BY <1>1, <1>2, <1>4, <2>3, <4>1
    <3> QED BY <1>4, <3>1, <3>2
  <2> QED BY <2>2, <2>4 DEF Dates
<1>5. ASSUME NEW d \in Devices, Sync(d) \/ Backup(d) PROVE Dates'
  <2>1. CASE Idles(d)
    BY <1>3, <2>1 DEF Idles, BeginSync, CheckAgain, PushRefused
  <2>2. CASE Pull(d)
    <3>1. /\ now' = now + 1 /\ snapshots' = snapshots /\ pushedAt' = pushedAt
          /\ pulledAt' = [pulledAt EXCEPT ![d] = now]
      BY <1>1, <2>2 DEF Pull
    <3>2. \A e \in Devices : pulledAt'[e] \in {now, pulledAt[e]}
      BY <3>1 DEF IInv, Noted
    <3> QED BY <1>1, <1>2, <3>1, <3>2 DEF Dates
  <2>3. CASE PullFails(d)
    BY <1>3, <2>3 DEF PullFails
  <2>4. CASE Push(d)
    BY <1>4, <2>4, AddsIs DEF Push, Dated, IInv
  <2>5. CASE PushFails(d)
    BY <1>4, <2>5, AddsIs DEF PushFails, IInv
  <2>6. CASE Backup(d)
    BY <1>4, <2>6, AddsIs DEF Backup, IInv
  <2> QED BY <1>5, <2>1, <2>2, <2>3, <2>4, <2>5, <2>6 DEF Sync, Idles
<1>6. ASSUME NEW d \in Devices, NEW i \in Items, Edit(d, i) PROVE Dates'
  BY <1>3, <1>6 DEF Edit
<1>7. CASE UNCHANGED vars
  BY <1>3, <1>7 DEF vars
<1> QED BY <1>5, <1>6, <1>7 DEF Next

-----------------------------------------------------------------------------
(* What a completed sync has brought.                                      *)

\* Local time is not behind UTC, and of other devices there is one.
Favourable == Exact /\ LocalAhead >= 0 /\ TwoDevices

LEMMA HasBelow ==
    ASSUME Stored, NEW i \in Items, NEW x \in Nat, NEW y \in Nat, x <= y, Has(snapshots, i, y)
    PROVE  Has(snapshots, i, x)
<1>1. \A s \in snapshots : s.data[i] \in Nat
  BY SnapshotIs
<1> QED BY <1>1 DEF Has

\* The latest snapshot of the other device is its newest.
LEMMA LatestIsNewest ==
    ASSUME TwoDevices, IInv, Dates, NEW d \in Devices,
           NEW l \in Latest(Remote(d)), NEW s \in Remote(d), NEW i \in Items
    PROVE  s.data[i] <= l.data[i]
<1>1. /\ l \in snapshots /\ s \in snapshots /\ l.by # d /\ s.by # d
      /\ s.created <= l.created
  BY DEF Latest, Remote
<1>2. s.by = l.by /\ s.at <= l.at
  BY <1>1, SnapshotIs DEF TwoDevices, IInv, Dates
<1> QED BY <1>1, <1>2 DEF IInv, Stored, Growing

LEMMA NothingToPull ==
    ASSUME IInv, Pulled, NEW d \in Devices, ~PullNeeded(d),
           NEW s \in Remote(d), NEW i \in Items
    PROVE  s.data[i] <= local[d][i]
<1>1. Remote(d) \in SUBSET snapshots /\ Remote(d) # {}
  BY DEF Remote
<1>2. PICK l \in Latest(Remote(d)) : TRUE
  BY <1>1, LatestIs DEF IInv
<1>3. l.created <= pulledAt[d] /\ s.created <= l.created
  <2>1. ~(l.created > pulledAt[d]) /\ l \in snapshots /\ s.created <= l.created
    BY <1>2 DEF PullNeeded, Latest, Remote
  <2> QED BY <2>1, SnapshotIs DEF IInv, Noted
<1>4. s.created <= pulledAt[d]
  <2>1. s.created \in Nat /\ l.created \in Nat /\ pulledAt[d] \in Nat
    BY <1>1, <1>2, SnapshotIs DEF IInv, Noted, Latest
  <2> QED BY <1>3, <2>1
<1> QED BY <1>4 DEF Pulled

LEMMA NothingToPush ==
    ASSUME IInv, Pushed, NEW d \in Devices, ~PushNeeded(d), NEW i \in Items
    PROVE  Has(snapshots, i, local[d][i])
<1>1. /\ local[d] \in [Items -> Nat] /\ local[d][i] \in Nat /\ pushedAt[d] \in Nat
  BY DEF IInv, Stored, Noted
<1>2. Newest(local[d]) \in Nat /\ local[d][i] <= Newest(local[d])
  BY <1>1, NewestIs
<1>3. CASE Newest(local[d]) = 0
  BY <1>1, <1>2, <1>3 DEF Has
<1>4. CASE Newest(local[d]) > 0
  <2>1. ~(Newest(local[d]) > pushedAt[d])
    BY <1>4 DEF PushNeeded
  <2>2. ~(local[d][i] > pushedAt[d])
    BY <1>1, <1>2, <2>1
  <2> QED BY <2>2 DEF Pushed
<1> QED BY <1>2, <1>3, <1>4

LEMMA PulledStays ==
    ASSUME IInv, Dates, Pulled, Stored', Grown, UNCHANGED pulledAt,
           \A s \in snapshots' \ snapshots : s.created = now
    PROVE  Pulled'
<1> SUFFICES ASSUME NEW d \in Devices, NEW s \in snapshots', Ready(s), s.by # d,
                    s.created <= pulledAt[d], NEW i \in Items
             PROVE  s.data[i] <= local'[d][i]
  BY DEF Pulled, Remote, Ready
<1>1. pulledAt[d] \in Nat /\ pulledAt[d] < now /\ now \in Nat
  BY DEF IInv, Noted, Dates, Stored
<1>2. s \in snapshots
  BY <1>1
<1>3. s.data[i] <= local[d][i]
  BY <1>2 DEF Pulled, Remote
<1>4. s.data[i] \in Nat /\ local[d][i] \in Nat /\ local'[d][i] \in Nat
  BY <1>2, SnapshotIs DEF IInv, Stored
<1> QED BY <1>3, <1>4 DEF Grown

LEMMA PushedStays ==
    ASSUME Pushed, Grown,
           \A d \in Devices, i \in Items :
              \/ local'[d][i] = local[d][i] /\ pushedAt'[d] = pushedAt[d]
              \/ Has(snapshots', i, local'[d][i])
              \/ local'[d][i] > pushedAt'[d]
    PROVE  Pushed'
<1>1. ASSUME NEW d \in Devices, NEW i \in Items
      PROVE  Has(snapshots', i, local'[d][i]) \/ local'[d][i] > pushedAt'[d]
  <2>1. Has(snapshots, i, local[d][i]) \/ local[d][i] > pushedAt[d]
    BY DEF Pushed
  <2>2. Has(snapshots, i, local[d][i]) => Has(snapshots', i, local[d][i])
    BY DEF Grown, Has
  <2> QED BY <2>1, <2>2
<1> QED BY <1>1 DEF Pushed, Has, Ready

\* The device that moves on has what it was to bring; the others stay.
LEMMA BroughtStays ==
    ASSUME IInv, Brought, Stored', Grown, UNCHANGED basis, NEW d \in Devices,
           \A e \in Devices : e # d => pc'[e] = pc[e] /\ (e \in completed' => e \in completed),
           pc'[d] = "pulling" => pc[d] = "pulling",
           pc'[d] \in {"pulled", "pushing"} \/ d \in completed' =>
              \/ pc[d] \in {"pulled", "pushing"} \/ d \in completed
              \/ \A i \in Items : basis[d][i] <= local'[d][i],
           d \in completed' => d \in completed \/ \A i \in Items : Has(snapshots', i, basis'[d][i])
    PROVE  Brought'
<1> SUFFICES ASSUME NEW e \in Devices, NEW i \in Items
             PROVE  /\ pc'[e] = "pulling" => \/ basis[e][i] <= local'[e][i]
                                             \/ \E s \in Remote(e)' : basis[e][i] <= s.data[i]
                    /\ pc'[e] \in {"pulled", "pushing"} \/ e \in completed' =>
                          basis[e][i] <= local'[e][i]
                    /\ e \in completed' => Has(snapshots', i, basis'[e][i])
  BY DEF Brought, Has
<1>1. /\ basis[e][i] \in Nat /\ local[e][i] \in Nat /\ local'[e][i] \in Nat
      /\ local[e][i] <= local'[e][i]
  BY DEF IInv, Stored, Noted, Grown
<1>2. basis[e][i] <= local[e][i] => basis[e][i] <= local'[e][i]
  BY <1>1
<1>3. \A s \in Remote(e) : s \in Remote(e)'
  BY DEF Remote, Grown, Ready
<1>4. Has(snapshots, i, basis[e][i]) => Has(snapshots', i, basis'[e][i])
  BY DEF Grown, Has, Ready
<1> QED BY <1>2, <1>3, <1>4 DEF Brought


\* Nobody syncs, edits have the time of now or later, and a backup adds one more.
LEMMA OthersHold ==
    ASSUME Favourable, SInv, NEW d \in Devices, Backup(d) \/ \E i \in Items : Edit(d, i)
    PROVE  Pulled' /\ Pushed' /\ Brought'
<1> USE DEF SInv, IInv, Favourable
<1>1. UNCHANGED <<pushedAt, pulledAt, pc, completed, basis>>
  BY DEF Backup, Edit
<1>2. CASE Backup(d)
  <2>1. Adds(d, "manual", "ready")
    BY <1>2, AddsIs
  <2>2. Snapshot(d, "manual", "ready").created = now
    BY ExactTimes DEF Stored, Snapshot
  <2>3. Stored' /\ Grown /\ local' = local /\ \A s \in snapshots' \ snapshots : s.created = now
    BY <2>1, <2>2 DEF Adds
  <2>4. Pulled'
    BY <1>1, <2>3, PulledStays
  <2>5. Pushed'
    BY <1>1, <2>3, PushedStays
  <2>6. Brought'
    BY <1>1, <2>3, BroughtStays
  <2> QED BY <2>4, <2>5, <2>6
<1>3. ASSUME NEW i \in Items, Edit(d, i) PROVE Pulled' /\ Pushed' /\ Brought'
  <2>1. /\ Stored' /\ Grown /\ snapshots' = snapshots
        /\ local' = [local EXCEPT ![d][i] = LocalNow]
    BY <1>3, EditIs
  <2>2. Pulled'
    BY <1>1, <2>1, PulledStays
  <2>3. ASSUME NEW e \in Devices, NEW j \in Items
        PROVE  \/ local'[e][j] = local[e][j] /\ pushedAt'[e] = pushedAt[e]
               \/ local'[e][j] > pushedAt'[e]
    <3>1. CASE e = d /\ j = i
      <4>1. local'[e][j] = LocalNow /\ pushedAt'[e] = pushedAt[e]
        BY <1>1, <2>1, <3>1 DEF Stored
      <4>2. LocalNow = now + LocalAhead /\ now \in Nat /\ LocalAhead \in Int /\ LocalAhead >= 0
            /\ pushedAt[e] \in Nat /\ pushedAt[e] < now
        BY SyncAssumption DEF LocalNow, Stored, Noted, Dates
      <4> QED BY <4>1, <4>2
    <3>2. CASE ~(e = d /\ j = i)
      BY <1>1, <2>1, <3>2 DEF Stored
    <3> QED BY <3>1, <3>2
  <2>4. Pushed'
    BY <2>1, <2>3, PushedStays
  <2>5. Brought'
    BY <1>1, <2>1, BroughtStays
  <2> QED BY <2>2, <2>4, <2>5
<1> QED BY <1>2, <1>3

LEMMA PullHolds ==
    ASSUME Favourable, SInv, NEW d \in Devices, Pull(d) \/ PullFails(d)
    PROVE  Pulled' /\ Pushed' /\ Brought'
<1> USE DEF SInv, IInv, Favourable
<1>1. /\ UNCHANGED <<snapshots, pushedAt, completed, basis>>
      /\ pc[d] = "pulling" /\ Stored' /\ Grown
      /\ \A e \in Devices : e # d => local'[e] = local[e]
  BY PullIs, PullFailsIs DEF Pull, PullFails, Fails
<1>2. PICK l \in Latest(Remote(d)) : /\ \A i \in Items : local'[d][i] \in {local[d][i], l.data[i]}
                                     /\ Pull(d) => \A i \in Items : l.data[i] <= local'[d][i]
  BY PullIs, PullFailsIs
<1>3. l \in snapshots /\ Ready(l)
  BY DEF Latest, Remote
<1>4. Pushed'
  <2>1. \A e \in Devices, i \in Items :
           local'[e][i] = local[e][i] \/ Has(snapshots', i, local'[e][i])
    <3> SUFFICES ASSUME NEW i \in Items
                 PROVE  local'[d][i] = local[d][i] \/ Has(snapshots', i, local'[d][i])
      BY <1>1
    <3>1. l.data[i] \in Nat
      BY <1>3, SnapshotIs
    <3> QED BY <1>1, <1>2, <1>3, <3>1 DEF Has
  <2> QED BY <1>1, <2>1, PushedStays
<1>5. CASE Pull(d)
  <2>1. /\ pulledAt' = [pulledAt EXCEPT ![d] = now]
        /\ pc' = [pc EXCEPT ![d] = "pulled"]
    BY <1>5, ExactTimes DEF Pull, Goto, Stored
  <2>2. ASSUME NEW s \in Remote(d), NEW i \in Items PROVE s.data[i] <= local'[d][i]
    <3>1. s.data[i] <= l.data[i] /\ l.data[i] <= local'[d][i]
      BY <1>2, <1>5, LatestIsNewest
    <3>2. s.data[i] \in Nat /\ l.data[i] \in Nat /\ local'[d][i] \in Nat
      BY <1>1, <1>3, SnapshotIs DEF Remote, Stored
    <3> QED BY <3>1, <3>2
  <2>3. Pulled'
    <3>1. \A e \in Devices : Remote(e)' = Remote(e)
      BY <1>1 DEF Remote, Ready
    <3>2. \A e \in Devices : e # d => pulledAt'[e] = pulledAt[e]
      BY <2>1 DEF Noted
    <3> QED BY <1>1, <2>2, <3>1, <3>2 DEF Pulled
  <2>4. \A i \in Items : basis[d][i] <= local'[d][i]
    <3> SUFFICES ASSUME NEW i \in Items PROVE basis[d][i] <= local'[d][i]
      OBVIOUS
    <3>1. /\ basis[d][i] \in Nat /\ local[d][i] \in Nat /\ local'[d][i] \in Nat
          /\ local[d][i] <= local'[d][i]
      BY <1>1 DEF Stored, Noted, Grown
    <3>2. \A s \in Remote(d) : s.data[i] \in Nat
      BY SnapshotIs DEF Remote
    <3> QED BY <1>1, <2>2, <3>1, <3>2 DEF Brought
  <2>5. pc'[d] = "pulled" /\ \A e \in Devices : e # d => pc'[e] = pc[e]
    BY <2>1 DEF Noted
  <2>6. Brought'
    BY <1>1, <2>4, <2>5, BroughtStays
  <2> QED BY <1>4, <2>3, <2>6
<1>6. CASE PullFails(d)
  <2>1. pulledAt' = pulledAt /\ pc' = [pc EXCEPT ![d] = "idle"]
    BY <1>6 DEF PullFails, Fails, Goto
  <2>2. Pulled'
    BY <1>1, <2>1, PulledStays
  <2>3. pc'[d] = "idle" /\ \A e \in Devices : e # d => pc'[e] = pc[e]
    BY <2>1 DEF Noted
  <2>4. Brought'
    BY <1>1, <2>3, BroughtStays
  <2> QED BY <1>4, <2>2, <2>4
<1> QED BY <1>5, <1>6

LEMMA BeginHolds ==
    ASSUME Favourable, SInv, NEW d \in Devices, BeginSync(d)
    PROVE  Pulled' /\ Pushed' /\ Brought'
<1> USE DEF SInv, IInv, Favourable
<1>1. /\ UNCHANGED <<now, local, snapshots, pushedAt, pulledAt>>
      /\ pc' = [pc EXCEPT ![d] = IF PullNeeded(d) THEN "pulling" ELSE "pulled"]
      /\ completed' = completed \ {d}
      /\ basis' = [basis EXCEPT ![d] = Merged(local[d], [i \in Items |-> InCloud(i)])]
  BY DEF BeginSync, Goto
<1>2. Stored' /\ Grown
  BY IdlesIs DEF Idles
<1>3. Pulled' /\ Pushed'
  BY <1>1, <1>2, PulledStays, PushedStays
<1>4. ASSUME NEW i \in Items
      PROVE  \/ basis'[d][i] <= local[d][i]
             \/ \E s \in Remote(d) : basis'[d][i] <= s.data[i]
  <2>1. /\ InCloud(i) \in Nat /\ local[d][i] \in Nat
        /\ basis'[d][i] \in {local[d][i], InCloud(i)}
    BY <1>1, InCloudIs DEF Stored, Noted, Merged
  <2>2. CASE InCloud(i) = 0
    BY <2>1, <2>2
  <2>3. ASSUME NEW s \in snapshots, Ready(s), InCloud(i) <= s.data[i],
               basis'[d][i] = InCloud(i)
        PROVE  \/ basis'[d][i] <= local[d][i]
               \/ \E t \in Remote(d) : basis'[d][i] <= t.data[i]
    <3>1. CASE s.by = d
      <4>1. s.data[i] <= local[d][i] /\ s.data[i] \in Nat
        BY <3>1, SnapshotIs
      <4> QED BY <2>1, <2>3, <4>1
    <3>2. CASE s.by # d
      BY <2>3, <3>2 DEF Remote
    <3> QED BY <3>1, <3>2
  <2>4. CASE basis'[d][i] = local[d][i]
    BY <2>1, <2>4
  <2>5. Has(snapshots, i, InCloud(i))
    BY InCloudIs
  <2> QED BY <2>1, <2>2, <2>3, <2>4, <2>5 DEF Has
<1>5. ASSUME ~PullNeeded(d), NEW i \in Items PROVE basis'[d][i] <= local[d][i]
  <2>1. ASSUME NEW s \in Remote(d), basis'[d][i] <= s.data[i] PROVE basis'[d][i] <= local[d][i]
    <3>1. s.data[i] <= local[d][i]
      BY <1>5, NothingToPull
    <3>2. s.data[i] \in Nat /\ local[d][i] \in Nat /\ basis'[d][i] \in Nat
      BY <1>1, SnapshotIs, InCloudIs DEF Remote, Stored, Noted, Merged
    <3> QED BY <2>1, <3>1, <3>2
  <2> QED BY <1>4, <2>1
<1>6. /\ pc'[d] = IF PullNeeded(d) THEN "pulling" ELSE "pulled"
      /\ d \notin completed'
  BY <1>1 DEF Noted
<1>7. \A e \in Devices : e # d => /\ pc'[e] = pc[e] /\ basis'[e] = basis[e]
                                  /\ e \in completed' => e \in completed
  BY <1>1 DEF Noted
<1>8. \A e \in Devices : Remote(e)' = Remote(e)
  BY <1>1 DEF Remote, Ready
<1>9. Brought'
  <2> SUFFICES ASSUME NEW e \in Devices, NEW i \in Items
               PROVE  /\ pc'[e] = "pulling" => \/ basis'[e][i] <= local'[e][i]
                                               \/ \E s \in Remote(e)' : basis'[e][i] <= s.data[i]
                      /\ pc'[e] \in {"pulled", "pushing"} \/ e \in completed' =>
                            basis'[e][i] <= local'[e][i]
                      /\ e \in completed' => Has(snapshots', i, basis'[e][i])
    BY DEF Brought, Has, Ready
  <2>1. CASE e = d
    <3>1. /\ local' = local /\ Remote(e)' = Remote(e)
          /\ pc'[e] = IF PullNeeded(d) THEN "pulling" ELSE "pulled"
          /\ e \notin completed'
      BY <1>1, <1>6, <1>8, <2>1
    <3>2. CASE PullNeeded(d)
      BY <1>4, <2>1, <3>1, <3>2
    <3>3. CASE ~PullNeeded(d)
      <4>1. basis'[e][i] <= local'[e][i]
        BY <1>5, <2>1, <3>1, <3>3
      <4> QED BY <3>1, <3>3, <4>1
    <3> QED BY <3>2, <3>3
  <2>2. CASE e # d
    <3>1. /\ local' = local /\ snapshots' = snapshots /\ Remote(e)' = Remote(e)
          /\ pc'[e] = pc[e] /\ basis'[e] = basis[e] /\ (e \in completed' => e \in completed)
      BY <1>1, <1>7, <1>8, <2>2
    <3> QED BY <3>1 DEF Brought
  <2> QED BY <2>1, <2>2
<1> QED BY <1>3, <1>9

LEMMA CheckHolds ==
    ASSUME Favourable, SInv, NEW d \in Devices, CheckAgain(d) \/ PushRefused(d)
    PROVE  Pulled' /\ Pushed' /\ Brought'
<1> USE DEF SInv, IInv, Favourable
<1>1. /\ UNCHANGED <<now, local, snapshots, pushedAt, pulledAt, basis>>
      /\ \/ completed' = completed
         \/ completed' = completed \cup {d} /\ CheckAgain(d) /\ ~PushNeeded(d)
      /\ pc[d] \in {"pulled", "pushing"}
      /\ \E where \in {"idle", "pushing"} : pc' = [pc EXCEPT ![d] = where]
  BY DEF CheckAgain, PushRefused, Completes, Goto
<1>2. Stored' /\ Grown
  BY IdlesIs DEF Idles
<1>3. Pulled' /\ Pushed'
  BY <1>1, <1>2, PulledStays, PushedStays
<1>4. /\ pc'[d] # "pulling"
      /\ \A e \in Devices : e # d => pc'[e] = pc[e] /\ (e \in completed' => e \in completed)
  BY <1>1 DEF Noted
<1>5. d \in completed' => d \in completed \/ \A i \in Items : Has(snapshots', i, basis'[d][i])
  <2> SUFFICES ASSUME ~PushNeeded(d), NEW i \in Items
               PROVE  Has(snapshots', i, basis'[d][i])
    BY <1>1
  <2>1. Has(snapshots, i, local[d][i])
    BY NothingToPush
  <2>2. basis[d][i] <= local[d][i] /\ basis[d][i] \in Nat /\ local[d][i] \in Nat
    BY <1>1 DEF Brought, Stored, Noted
  <2>3. Has(snapshots, i, basis[d][i])
    BY <2>1, <2>2, HasBelow
  <2> QED BY <1>1, <2>3
<1>6. Brought'
  BY <1>1, <1>2, <1>4, <1>5, BroughtStays
<1> QED BY <1>3, <1>6

LEMMA PushHolds ==
    ASSUME Favourable, SInv, NEW d \in Devices, Push(d) \/ PushFails(d)
    PROVE  Pulled' /\ Pushed' /\ Brought'
<1> USE DEF SInv, IInv, Favourable
<1>1. /\ UNCHANGED <<local, pulledAt, basis>> /\ pc[d] = "pushing"
      /\ pc' = [pc EXCEPT ![d] = "idle"]
      /\ \/ completed' = completed
         \/ completed' = completed \cup {d} /\ Push(d)
  BY DEF Push, PushFails, Fails, Completes, Goto
<1>2. PICK status : Adds(d, "sync", status) /\ (Push(d) => status = "ready")
  BY AddsIs
<1>3. Stored' /\ Grown
  BY <1>2 DEF Adds
<1>4. Pulled'
  <2>1. Snapshot(d, "sync", status).created = now
    BY ExactTimes DEF Stored, Snapshot
  <2>2. \A s \in snapshots' \ snapshots : s.created = now
    BY <1>2, <2>1 DEF Adds
  <2> QED BY <1>1, <1>3, <2>2, PulledStays
<1>5. ASSUME Push(d), NEW i \in Items PROVE Has(snapshots', i, local[d][i])
  <2> DEFINE new == Snapshot(d, "sync", "ready")
  <2>1. new \in snapshots' /\ Ready(new) /\ new.data = local[d]
    BY <1>2, <1>5 DEF Adds, Snapshot, Ready
  <2>2. local[d][i] \in Nat
    BY DEF Stored
  <2> QED BY <2>1, <2>2 DEF Has
<1>6. Pushed'
  <2>1. CASE Push(d)
    <3>1. \A e \in Devices : e # d => pushedAt'[e] = pushedAt[e]
      BY <2>1 DEF Push, Dated, Noted
    <3>2. \A e \in Devices, i \in Items :
             \/ local'[e][i] = local[e][i] /\ pushedAt'[e] = pushedAt[e]
             \/ Has(snapshots', i, local'[e][i])
      BY <1>1, <1>5, <2>1, <3>1
    <3> QED BY <1>3, <3>2, PushedStays
  <2>2. CASE PushFails(d)
    BY <1>1, <1>3, <2>2, PushedStays DEF PushFails
  <2> QED BY <2>1, <2>2
<1>7. /\ pc'[d] = "idle"
      /\ \A e \in Devices : e # d => pc'[e] = pc[e] /\ (e \in completed' => e \in completed)
  BY <1>1 DEF Noted
<1>8. d \in completed' => d \in completed \/ \A i \in Items : Has(snapshots', i, basis'[d][i])
  <2> SUFFICES ASSUME Push(d), NEW i \in Items
               PROVE  Has(snapshots', i, basis'[d][i])
    BY <1>1
  <2>1. basis[d][i] <= local[d][i] /\ basis[d][i] \in Nat /\ local[d][i] \in Nat
    BY <1>1 DEF Brought, Stored, Noted
  <2>2. \A s \in snapshots' : s.data \in [Items -> Nat]
    BY <1>3 DEF Stored, Snapshots
  <2> QED BY <1>1, <1>5, <2>1, <2>2 DEF Has
<1>9. Brought'
  BY <1>1, <1>3, <1>7, <1>8, BroughtStays
<1> QED BY <1>4, <1>6, <1>9

LEMMA SyncInv == Favourable /\ SInv /\ [Next]_vars => SInv'
<1> SUFFICES ASSUME Favourable, SInv, [Next]_vars PROVE SInv'
  OBVIOUS
<1>1. IInv' /\ Dates'
  BY NextInv, DatesInv DEF SInv, Favourable
<1>2. Pulled' /\ Pushed' /\ Brought'
  <2>1. CASE UNCHANGED vars
    <3>1. UNCHANGED <<local, snapshots, pushedAt, pulledAt, pc, completed, basis>>
      BY <2>1 DEF vars
    <3> QED BY <3>1 DEF SInv, Pulled, Pushed, Brought, Has, Remote, Ready
  <2>2. CASE Next
    BY <2>2, OthersHold, PullHolds, BeginHolds, CheckHolds, PushHolds DEF Next, Sync
  <2> QED BY <2>1, <2>2
<1> QED BY <1>1, <1>2 DEF SInv

LEMMA InitSync == Exact /\ Init => Dates /\ Pulled /\ Pushed /\ Brought
<1> SUFFICES ASSUME Exact, Init PROVE Dates /\ Pulled /\ Pushed /\ Brought
  OBVIOUS
<1>1. now > 0
  BY InitInv, LocalNowIs DEF IInv
<1>2. /\ \A d \in Devices : pushedAt[d] = 0 /\ pulledAt[d] = 0 /\ pc[d] = "idle"
      /\ snapshots = {} /\ completed = {}
      /\ \A d \in Devices, i \in Items : local[d][i] = 0
  BY DEF Init, Absent
<1> QED BY <1>1, <1>2 DEF Dates, Pulled, Pushed, Brought, Has, Remote


-----------------------------------------------------------------------------
(* Echoes, where local time is not ahead of UTC.                           *)

NotAhead == Exact /\ LocalAhead <= 0

LEMMA LastEditGrows ==
    ASSUME Stored, Stored', Grown
    PROVE  LastEdit <= LastEdit' /\ LastEdit \in Nat /\ LastEdit' \in Nat
<1>1. LastEditTells /\ LastEditTells'
  BY LastEditIs, PTL
<1>2. CASE LastEdit = 0
  BY <1>1, <1>2 DEF LastEditTells
<1>3. ASSUME NEW d \in Devices, NEW i \in Items, local[d][i] = LastEdit
      PROVE  LastEdit <= LastEdit'
  <2>1. local[d][i] <= local'[d][i] /\ local[d][i] \in Nat /\ local'[d][i] \in Nat
    BY DEF Grown, Stored
  <2>2. local'[d][i] <= LastEdit' /\ LastEdit' \in Nat
    BY <1>1 DEF LastEditTells
  <2> QED BY <1>3, <2>1, <2>2
<1> QED BY <1>1, <1>2, <1>3 DEF LastEditTells

\* No step makes an echo of an older snapshot.
LEMMA OldEchoes ==
    ASSUME Stored, Stored', Grown, NEW d \in Devices, NEW s \in Echoes(d)', s \in snapshots
    PROVE  s \in Echoes(d)
<1>1. LastEdit <= LastEdit' /\ LastEdit \in Nat /\ LastEdit' \in Nat
  BY LastEditGrows
<1>2. /\ s.at \in Nat /\ LocalAhead \in Int
      /\ Ready(s) /\ s.by = d /\ s.trigger = "sync" /\ s.at + LocalAhead > LastEdit'
  BY SnapshotIs, SyncAssumption DEF Echoes, Own, Ready
<1> QED BY <1>1, <1>2 DEF Echoes, Own

LEMMA EchoSilences ==
    ASSUME NotAhead, EInv, NEW d \in Devices, Echoes(d) # {}
    PROVE  ~PushNeeded(d)
<1> USE DEF EInv, IInv
<1>1. PICK s \in Echoes(d) : TRUE
  OBVIOUS
<1>2. /\ s \in snapshots /\ s \in Own(d) /\ s.at \in Nat /\ s.created = s.at
      /\ s.at + LocalAhead > LastEdit /\ s.at <= pushedAt[d]
  BY <1>1, SnapshotIs DEF Echoes, Own, OneEcho, Dates
<1>3. /\ LastEdit \in Nat /\ \A i \in Items : local[d][i] <= LastEdit
  BY LastEditIs DEF LastEditTells
<1>4. Newest(local[d]) \in Nat /\ Newest(local[d]) <= LastEdit
  <2>1. local[d] \in [Items -> Nat]
    BY DEF Stored
  <2> QED BY <1>3, <2>1, NewestIs
<1>5. LocalAhead \in Int /\ LocalAhead <= 0 /\ pushedAt[d] \in Nat
  BY SyncAssumption DEF NotAhead, Noted
<1>6. Newest(local[d]) < s.at /\ pushedAt[d] # 0 /\ ~(Newest(local[d]) > pushedAt[d])
  BY <1>2, <1>3, <1>4, <1>5
<1>7. ASSUME NEW l \in Latest(Own(d)) PROVE ~(Newest(local[d]) > l.created)
  <2>1. s.created <= l.created /\ l.created \in Nat
    BY <1>2, SnapshotIs DEF Latest, Own
  <2> QED BY <1>2, <1>4, <1>6, <2>1
<1> QED BY <1>6, <1>7 DEF PushNeeded

LEMMA EchoStays ==
    ASSUME EInv, Stored', Grown, UNCHANGED pushedAt,
           \A s \in snapshots' \ snapshots : s.trigger = "sync" => ~Ready(s),
           Cardinality(Failed)' <= faults',
           \A d \in Devices : pc'[d] = "pushing" => Echoes(d) = {}
    PROVE  OneEcho'
<1> USE DEF EInv, IInv
<1>1. \A d \in Devices : Echoes(d)' \subseteq Echoes(d)
  <2> SUFFICES ASSUME NEW d \in Devices, NEW s \in Echoes(d)' PROVE s \in Echoes(d)
    OBVIOUS
  <2>1. s \in snapshots' /\ s.trigger = "sync" /\ Ready(s)
    BY DEF Echoes, Own, Ready
  <2>2. s \in snapshots
    BY <2>1
  <2> QED BY <2>2, OldEchoes
<1>2. \A d \in Devices : \A s \in Own(d)' : s.trigger = "sync" => s.at <= pushedAt'[d]
  BY DEF Own, Ready, OneEcho
<1>3. \A d \in Devices : /\ \A s, t \in Echoes(d)' : s = t
                         /\ pc'[d] = "pushing" => Echoes(d)' = {}
  BY <1>1 DEF OneEcho
<1> QED BY <1>2, <1>3 DEF OneEcho

LEMMA SameFailed ==
    ASSUME EInv, faults' = faults, snapshots' = snapshots
    PROVE  Cardinality(Failed)' <= faults'
BY DEF EInv, OneEcho, Failed, Ready

LEMMA FailedIs ==
    ASSUME Stored
    PROVE  IsFiniteSet(Failed) /\ Cardinality(Failed) \in Nat
<1>1. Failed \in SUBSET snapshots
  BY DEF Failed
<1> QED BY <1>1, FS_Subset, FS_CardinalityType DEF Stored

LEMMA OneEchoInv == ASSUME NotAhead, EInv, [Next]_vars PROVE OneEcho'
<1> USE DEF EInv, IInv
<1>1. \A e \in Devices : pc[e] = "pushing" => Echoes(e) = {}
  BY DEF OneEcho
<1>2. Cardinality(Failed) <= faults /\ Cardinality(Failed) \in Nat /\ faults \in Nat
      /\ IsFiniteSet(Failed)
  BY FailedIs, SyncAssumption DEF OneEcho, Noted
<1>3. ASSUME NEW d \in Devices, Sync(d) \/ Backup(d) PROVE OneEcho'
  <2>1. CASE BeginSync(d) \/ PushRefused(d)
    <3>1. /\ UNCHANGED <<pushedAt, snapshots, faults>>
          /\ \E where \in {"pulling", "pulled", "idle"} : pc' = [pc EXCEPT ![d] = where]
      BY <2>1 DEF BeginSync, PushRefused, Goto
    <3>2. \A e \in Devices : pc'[e] = "pushing" => pc[e] = "pushing"
      BY <3>1 DEF Noted
    <3>3. Stored' /\ Grown
      BY <2>1, IdlesIs DEF Idles
    <3> QED BY <1>1, <3>1, <3>2, <3>3, SameFailed, EchoStays
  <2>2. CASE CheckAgain(d)
    <3>1. /\ UNCHANGED <<pushedAt, snapshots, faults>>
          /\ \/ pc' = [pc EXCEPT ![d] = "idle"]
             \/ pc' = [pc EXCEPT ![d] = "pushing"] /\ PushNeeded(d)
      BY <2>2 DEF CheckAgain, Completes, Goto
    <3>2. \A e \in Devices : pc'[e] = "pushing" =>
             \/ pc[e] = "pushing"
             \/ e = d /\ PushNeeded(d)
      BY <3>1 DEF Noted
    <3>3. Stored' /\ Grown
      BY <2>2, IdlesIs DEF Idles
    <3>4. \A e \in Devices : pc'[e] = "pushing" => Echoes(e) = {}
      BY <1>1, <3>2, EchoSilences
    <3> QED BY <3>1, <3>3, <3>4, SameFailed, EchoStays
  <2>3. CASE Pull(d)
    <3>1. /\ UNCHANGED <<pushedAt, snapshots, faults>> /\ pc' = [pc EXCEPT ![d] = "pulled"]
      BY <2>3 DEF Pull, Goto
    <3>2. \A e \in Devices : pc'[e] = "pushing" => pc[e] = "pushing"
      BY <3>1 DEF Noted
    <3>3. Stored' /\ Grown
      BY <2>3, PullIs
    <3> QED BY <1>1, <3>1, <3>2, <3>3, SameFailed, EchoStays
  <2>4. CASE PullFails(d)
    <3>1. /\ UNCHANGED <<pushedAt, snapshots>> /\ faults' = faults + 1
          /\ pc' = [pc EXCEPT ![d] = "idle"]
      BY <2>4 DEF PullFails, Fails, Goto
    <3>2. \A e \in Devices : pc'[e] = "pushing" => pc[e] = "pushing"
      BY <3>1 DEF Noted
    <3>3. Stored' /\ Grown
      BY <2>4, PullFailsIs
    <3>4. Failed' = Failed
      BY <3>1 DEF Failed, Ready
    <3>5. Cardinality(Failed)' <= faults'
      BY <1>2, <3>1, <3>4
    <3> QED BY <1>1, <3>1, <3>2, <3>3, <3>5, EchoStays
  <2>5. CASE PushFails(d)
    <3>1. /\ UNCHANGED pushedAt /\ faults' = faults + 1 /\ pc' = [pc EXCEPT ![d] = "idle"]
      BY <2>5 DEF PushFails, Fails, Goto
    <3>2. \A e \in Devices : pc'[e] = "pushing" => pc[e] = "pushing"
      BY <3>1 DEF Noted
    <3>3. PICK status \in {"failed", "upload_requested"} : Adds(d, "sync", status)
      BY <2>5, AddsIs
    <3> DEFINE new == Snapshot(d, "sync", status)
    <3>4. /\ ~Ready(new) /\ new.trigger = "sync" /\ snapshots' = snapshots \cup {new}
          /\ Stored' /\ Grown
      BY <3>3 DEF Adds, Snapshot, Ready
    <3> HIDE DEF new
    <3>5. Failed' = Failed \cup {new}
      BY <3>4 DEF Failed, Ready
    <3>6. Cardinality(Failed)' <= faults'
      <4>1. Cardinality(Failed \cup {new}) <= Cardinality(Failed) + 1
        BY <1>2, FS_AddElement
      <4>2. Cardinality(Failed \cup {new}) \in Nat
        BY <1>2, FS_AddElement, FS_CardinalityType
      <4> QED BY <1>2, <3>1, <3>5, <4>1, <4>2
    <3> QED BY <1>1, <3>1, <3>2, <3>4, <3>6, EchoStays
  <2>6. CASE Backup(d)
    <3>1. UNCHANGED <<pushedAt, pc, faults>>
      BY <2>6 DEF Backup
    <3>2. Adds(d, "manual", "ready")
      BY <2>6, AddsIs
    <3>3. \A s \in snapshots' \ snapshots : s.trigger = "manual"
      BY <3>2 DEF Adds, Snapshot
    <3>4. Failed' = Failed
      BY <3>2, <3>3 DEF Failed, Ready, Adds, Grown
    <3>5. Cardinality(Failed)' <= faults'
      BY <1>2, <3>1, <3>4
    <3>6. Stored' /\ Grown
      BY <3>2 DEF Adds
    <3> QED BY <1>1, <3>1, <3>3, <3>5, <3>6, EchoStays
  <2>7. CASE Push(d)
    <3> DEFINE new == Snapshot(d, "sync", "ready")
    <3>1. /\ pc[d] = "pushing" /\ pushedAt' = [pushedAt EXCEPT ![d] = now] /\ faults' = faults
          /\ pc' = [pc EXCEPT ![d] = "idle"]
      BY <2>7, ExactTimes DEF Push, Completes, Goto, Dated, NotAhead, Stored
    <3>2. Adds(d, "sync", "ready")
      BY <2>7, AddsIs
    <3>3. /\ Ready(new) /\ new.by = d /\ new.at = now /\ snapshots' = snapshots \cup {new}
          /\ Stored' /\ Grown
      BY <3>2 DEF Adds, Snapshot, Ready
    <3> HIDE DEF new
    <3>4. Failed' = Failed
      BY <3>3 DEF Failed, Ready
    <3>5. Cardinality(Failed)' <= faults'
      BY <1>2, <3>1, <3>4
    <3>6. ASSUME NEW e \in Devices PROVE \A s \in Own(e)' : s.trigger = "sync" => s.at <= pushedAt'[e]
      <4>1. /\ pushedAt[e] \in Nat /\ pushedAt[e] < now /\ now \in Nat
            /\ pushedAt'[e] = IF e = d THEN now ELSE pushedAt[e]
        BY <3>1 DEF Noted, Dates, Stored
      <4>2. \A s \in snapshots' : s.at <= now
        BY <3>3, SnapshotIs DEF Stored
      <4>3. CASE e = d
        BY <4>1, <4>2, <4>3 DEF Own
      <4>4. CASE e # d
        <5>1. Own(e)' = Own(e)
          BY <3>3, <4>4 DEF Own, Ready
        <5> QED BY <4>1, <4>4, <5>1 DEF OneEcho
      <4> QED BY <4>3, <4>4
    <3>7. ASSUME NEW e \in Devices
          PROVE  /\ \A s, t \in Echoes(e)' : s = t
                 /\ pc'[e] = "pushing" => Echoes(e)' = {}
      <4>1. \A s \in Echoes(e)' : s \in Echoes(e) \/ s = new
        <5> SUFFICES ASSUME NEW s \in Echoes(e)', s # new PROVE s \in Echoes(e)
          OBVIOUS
        <5>1. s \in snapshots
          BY <3>3 DEF Echoes, Own
        <5> QED BY <3>3, <5>1, OldEchoes
      <4>2. CASE e = d
        BY <1>1, <3>1, <4>1, <4>2 DEF Noted
      <4>3. CASE e # d
        <5>1. \A s \in Echoes(e)' : s # new
          BY <3>3, <4>3 DEF Echoes, Own
        <5>2. pc'[e] = pc[e]
          BY <3>1, <4>3 DEF Noted
        <5> QED BY <1>1, <4>1, <5>1, <5>2 DEF OneEcho
      <4> QED BY <4>2, <4>3
    <3> QED BY <3>5, <3>6, <3>7 DEF OneEcho
  <2> QED BY <1>3, <2>1, <2>2, <2>3, <2>4, <2>5, <2>6, <2>7 DEF Sync
<1>4. ASSUME NEW d \in Devices, NEW i \in Items, Edit(d, i) PROVE OneEcho'
  <2>1. UNCHANGED <<pushedAt, pc, faults>>
    BY <1>4 DEF Edit
  <2>2. Stored' /\ Grown /\ snapshots' = snapshots
    BY <1>4, EditIs
  <2> QED BY <1>1, <2>1, <2>2, SameFailed, EchoStays
<1>5. CASE UNCHANGED vars
  <2>1. UNCHANGED <<now, local, snapshots, pushedAt, pc, faults>>
    BY <1>5 DEF vars
  <2>2. Stored' /\ Grown
    BY <2>1, StoreStays DEF Grown, Stored
  <2> QED BY <1>1, <2>1, <2>2, SameFailed, EchoStays
<1> QED BY <1>3, <1>4, <1>5 DEF Next

LEMMA EchoInv == NotAhead /\ EInv /\ [Next]_vars => EInv'
<1> SUFFICES ASSUME NotAhead, EInv, [Next]_vars PROVE EInv'
  OBVIOUS
<1>1. IInv' /\ Dates'
  BY NextInv, DatesInv DEF EInv, NotAhead
<1> QED BY <1>1, OneEchoInv DEF EInv

LEMMA InitEcho == Init => OneEcho
<1> SUFFICES ASSUME Init PROVE OneEcho
  OBVIOUS
<1>1. snapshots = {} /\ faults = 0 /\ \A d \in Devices : pc[d] = "idle"
  BY DEF Init
<1>2. Failed = {} /\ \A d \in Devices : Own(d) = {} /\ Echoes(d) = {}
  BY <1>1 DEF Failed, Own, Echoes
<1> QED BY <1>1, <1>2, FS_EmptySet DEF OneEcho

LEMMA EchoesAreFew == NotAhead /\ EInv => EchoesEnd
<1> SUFFICES ASSUME NotAhead, EInv, NEW d \in Devices
             PROVE  Cardinality({s \in snapshots : /\ s.by = d /\ s.trigger = "sync"
                                                   /\ s.at + LocalAhead > LastEdit}) <= 1 + faults
  BY DEF EchoesEnd
<1> DEFINE all == {s \in snapshots : /\ s.by = d /\ s.trigger = "sync"
                                     /\ s.at + LocalAhead > LastEdit}
<1>1. all \in SUBSET (Failed \cup Echoes(d))
  BY DEF Failed, Echoes, Own
<1> HIDE DEF all
<1>2. /\ IsFiniteSet(Failed) /\ Cardinality(Failed) \in Nat /\ faults \in Nat
      /\ Cardinality(Failed) <= faults
  BY FailedIs, SyncAssumption DEF EInv, IInv, Noted, OneEcho
<1>3. CASE Echoes(d) = {}
  <2>1. all \in SUBSET Failed
    BY <1>1, <1>3
  <2>2. Cardinality(all) <= Cardinality(Failed) /\ Cardinality(all) \in Nat
    BY <1>2, <2>1, FS_Subset, FS_CardinalityType
  <2> QED BY <1>2, <2>2 DEF all
<1>4. ASSUME NEW x \in Echoes(d) PROVE Cardinality(all) <= 1 + faults
  <2>1. Failed \cup Echoes(d) = Failed \cup {x}
    BY DEF EInv, OneEcho
  <2>2. /\ IsFiniteSet(Failed \cup {x})
        /\ Cardinality(Failed \cup {x}) <= Cardinality(Failed) + 1
    <3>1. /\ IsFiniteSet(Failed \cup {x})
          /\ Cardinality(Failed \cup {x}) = IF x \in Failed THEN Cardinality(Failed)
                                            ELSE Cardinality(Failed) + 1
      BY <1>2, FS_AddElement, Zenon
    <3> QED BY <1>2, <3>1
  <2>3. /\ Cardinality(all) <= Cardinality(Failed \cup {x})
        /\ Cardinality(all) \in Nat /\ Cardinality(Failed \cup {x}) \in Nat
    BY <1>1, <2>1, <2>2, FS_Subset, FS_CardinalityType
  <2> QED BY <1>2, <2>2, <2>3
<1> QED BY <1>3, <1>4 DEF all

-----------------------------------------------------------------------------

\* What every handler, failure and edit keeps: stores only grow newer, and no
\* snapshot is newer than the store it was taken of.
THEOREM InductiveInvariant == Spec => []IInv
BY InitInv, NextInv, PTL DEF Spec

\* Every store, snapshot and note keeps its type, and the snapshots their limit,
\* whatever the resolution of the database and the offset of local time.
THEOREM TypeCorrect == Spec => []TypeOK
<1>1. IInv => TypeOK
  BY DEF IInv, Stored, Noted, TypeOK
<1> QED BY <1>1, InductiveInvariant, PTL

LEMMA Syncs == Favourable => (Spec => []SInv)
<1> SUFFICES ASSUME Favourable PROVE Spec => []SInv
  OBVIOUS
<1>1. Init => SInv
  BY InitInv, InitSync DEF Favourable, SInv
<1>2. SInv /\ [Next]_vars => SInv'
  BY SyncInv
<1> QED BY <1>1, <1>2, PTL DEF Spec

\* With two devices and exact times, local time not behind UTC: when a sync is
\* completed, the device and the cloud have the newest of all that either had
\* when it began.
THEOREM CompletedHasAll == Favourable => (Spec => []CompletedIsCurrent)
<1> SUFFICES ASSUME Favourable PROVE Spec => []CompletedIsCurrent
  OBVIOUS
<1>1. SInv => CompletedIsCurrent
  <2> SUFFICES ASSUME SInv, NEW d \in completed, NEW i \in Items
               PROVE  local[d][i] >= basis[d][i] /\ InCloud(i) >= basis[d][i]
    BY DEF CompletedIsCurrent
  <2> USE DEF SInv, IInv
  <2>1. /\ d \in Devices /\ basis[d][i] \in Nat /\ local[d][i] \in Nat
    BY DEF Noted, Stored
  <2>2. basis[d][i] <= local[d][i] /\ Has(snapshots, i, basis[d][i])
    BY <2>1 DEF Brought
  <2>3. InCloud(i) \in Nat /\ \A s \in snapshots : Ready(s) => s.data[i] <= InCloud(i)
    BY InCloudIs
  <2>4. \A s \in snapshots : s.data[i] \in Nat
    BY SnapshotIs
  <2> QED BY <2>1, <2>2, <2>3, <2>4 DEF Has
<1> QED BY <1>1, Syncs, PTL

\* And when both devices are told that there is nothing to pull or to push, they
\* hold the same.
THEOREM IdleAgree == Favourable => (Spec => []IdleMeansEqual)
<1> SUFFICES ASSUME Favourable PROVE Spec => []IdleMeansEqual
  OBVIOUS
<1>1. SInv => IdleMeansEqual
  <2> SUFFICES ASSUME SInv, \A d \in Devices : Quiet(d) PROVE \A d, e \in Devices : local[d] = local[e]
    BY DEF IdleMeansEqual
  <2> USE DEF SInv, IInv
  <2>1. ASSUME NEW d \in Devices, NEW e \in Devices, NEW i \in Items
        PROVE  local[e][i] <= local[d][i]
    <3>1. Has(snapshots, i, local[e][i])
      BY NothingToPush DEF Quiet
    <3>2. local[e][i] \in Nat /\ local[d][i] \in Nat
      BY DEF Stored
    <3>3. ASSUME NEW s \in snapshots, Ready(s)
          PROVE  s.data[i] <= local[d][i] /\ s.data[i] \in Nat
      <4>1. CASE s.by = d
        BY <4>1, SnapshotIs
      <4>2. CASE s.by # d
        <5>1. s \in Remote(d)
          BY <3>3, <4>2 DEF Remote
        <5> QED BY <5>1, NothingToPull, SnapshotIs DEF Quiet
      <4> QED BY <4>1, <4>2
    <3> QED BY <3>1, <3>2, <3>3 DEF Has
  <2>2. ASSUME NEW d \in Devices, NEW e \in Devices PROVE local[d] = local[e]
    <3>1. local[d] \in [Items -> Nat] /\ local[e] \in [Items -> Nat]
      BY DEF Stored
    <3>2. \A i \in Items : local[d][i] = local[e][i]
      BY <2>1, <3>1
    <3> QED BY <3>1, <3>2
  <2> QED BY <2>2
<1> QED BY <1>1, Syncs, PTL

\* With exact times, local time not ahead of UTC, and any number of devices:
\* after the last edit a device pushes once, and once more for each failure.
THEOREM EchoesStop == NotAhead => (Spec => []EchoesEnd)
<1> SUFFICES ASSUME NotAhead PROVE Spec => []EchoesEnd
  OBVIOUS
<1>1. Init => EInv
  BY InitInv, InitSync, InitEcho DEF NotAhead, EInv
<1>2. EInv /\ [Next]_vars => EInv'
  BY EchoInv
<1>3. EInv => EchoesEnd
  BY EchoesAreFew
<1> QED BY <1>1, <1>2, <1>3, PTL DEF Spec
=============================================================================
