-------------------------- MODULE IdempotencyProofs --------------------------
(***************************************************************************)
(* Theorems about Idempotency, for every number of deliveries, keys,       *)
(* processes, faults and crashes.                                          *)
(***************************************************************************)
EXTENDS Idempotency, TLAPS

-----------------------------------------------------------------------------
(* The inductive invariant. *)

\* The local variables of a delivery exist exactly while it is served, and the
\* store it looked at is Redis or the memory of its own process.
Locals ==
    \A r \in Requests :
        /\ pc[r] \in {"locking", "handling", "returned", "releasing"} =>
              proc[r] \in Procs /\ snap[r] \in {Redis, proc[r]}
        /\ pc[r] \in {"new", "streaming", "done"} => snap[r] = None

\* What a process uses as its store.
OwnStore == \A p \in Procs : store[p] \in {Redis, p}

\* Until some handler of the key is late, a delivery in the handler owns the
\* lock, with as many seconds left as it counted itself.
Owns ==
    \A r \in Requests : Holding(r) =>
        \/ late[snap[r]][Key(r)]
        \/ left[r] > 0 /\ locks[snap[r]][Key(r)] = left[r]

\* A cacheable response is the response of a handler that took effect.
Happened ==
    \A r \in Requests : pc[r] = "returned" /\ Cacheable(outcome[r]) => r \in ran

IInv == TypeOK /\ Locals /\ OwnStore /\ Owns /\ OverlapOnlyAfterOverrun
        /\ Happened /\ RecordsHappened

-----------------------------------------------------------------------------
(* A table of tables with one entry changed. *)

LEMMA EntrySet ==
    ASSUME NEW A, NEW B, NEW V, NEW f \in [A -> [B -> V]],
           NEW a \in A, NEW b \in B, NEW v \in V
    PROVE  [f EXCEPT ![a][b] = v] \in [A -> [B -> V]]
OBVIOUS

LEMMA EntryGet ==
    ASSUME NEW A, NEW B, NEW V, NEW f \in [A -> [B -> V]],
           NEW a \in A, NEW b \in B, NEW v, NEW x \in A, NEW y \in B
    PROVE  [f EXCEPT ![a][b] = v][x][y] = IF x = a /\ y = b THEN v ELSE f[x][y]
OBVIOUS

-----------------------------------------------------------------------------
(* Type correctness. *)

LEMMA StoreNames == Redis \in Stores /\ Procs \subseteq Stores /\ None \notin Stores
BY ConstantsAssumption DEF Stores

LEMMA InitType == Init => TypeOK
<1> SUFFICES ASSUME Init PROVE TypeOK
  OBVIOUS
<1> USE ConstantsAssumption, StoreNames DEF Init
<1>1. store \in [Procs -> Stores]
  BY DEF Initial
<1>2. locks \in [Stores -> [Keys -> 0..LockTTL]] /\ left \in [Requests -> 0..LockTTL]
  OBVIOUS
<1>3. pc \in [Requests -> PCs] /\ reply \in [Requests -> Replies]
  BY DEF PCs, Replies
<1>4. faults \in 0..MaxFaults /\ crashes \in 0..MaxCrashes
  OBVIOUS
<1> QED BY <1>1, <1>2, <1>3, <1>4 DEF TypeOK

LEMMA ResolveType ==
    ASSUME TypeOK, NEW r \in Requests, NEW p \in Procs, NEW s \in Stores, Resolve(r, p, s)
    PROVE  /\ pc' \in [Requests -> PCs] /\ reply' \in [Requests -> Replies]
           /\ proc' \in [Requests -> Procs \cup {None}]
           /\ snap' \in [Requests -> Stores \cup {None}]
<1>1. CASE pc' = [pc EXCEPT ![r] = "locking"] /\ proc' = [proc EXCEPT ![r] = p]
           /\ snap' = [snap EXCEPT ![r] = s] /\ UNCHANGED reply
  BY <1>1 DEF TypeOK, PCs
<1>2. ASSUME NEW what \in {"reused", "replayed"}, Answer(r, what)
      PROVE  /\ pc' \in [Requests -> PCs] /\ reply' \in [Requests -> Replies]
             /\ proc' \in [Requests -> Procs \cup {None}]
             /\ snap' \in [Requests -> Stores \cup {None}]
  BY <1>2 DEF TypeOK, Answer, PCs, Replies
<1> QED BY <1>1, <1>2 DEF Resolve

LEMMA LookupType ==
    ASSUME TypeOK, NEW r \in Requests, NEW p \in Procs, Lookup(r, p) PROVE TypeOK'
<1>1. store[p] \in Stores
  BY DEF TypeOK
<1> QED BY <1>1, ResolveType DEF TypeOK, Lookup

LEMMA LookupFailsType ==
    ASSUME TypeOK, NEW r \in Requests, NEW p \in Procs, LookupFails(r, p) PROVE TypeOK'
<1>1. p \in Stores
  BY StoreNames
<1>2. store' \in [Procs -> Stores] /\ faults' \in 0..MaxFaults
  BY <1>1, ConstantsAssumption DEF TypeOK, LookupFails, Degrade
<1> QED BY <1>1, <1>2, ResolveType DEF TypeOK, LookupFails

\* Where a delivery past its look-up is served.
LEMMA ServedBy ==
    ASSUME TypeOK, Locals, NEW r \in Requests,
           pc[r] \in {"locking", "handling", "returned", "releasing"}
    PROVE  /\ proc[r] \in Procs /\ snap[r] \in {Redis, proc[r]}
           /\ proc[r] \in Stores /\ snap[r] \in Stores /\ Key(r) \in Keys
BY StoreNames, ConstantsAssumption DEF Locals, Key

LEMMA AnswerType ==
    ASSUME TypeOK, NEW r \in Requests, NEW what \in Replies, Answer(r, what)
    PROVE  /\ pc' \in [Requests -> PCs] /\ reply' \in [Requests -> Replies]
           /\ proc' \in [Requests -> Procs \cup {None}]
           /\ snap' \in [Requests -> Stores \cup {None}]
BY DEF TypeOK, Answer, PCs

LEMMA AcquireType ==
    ASSUME TypeOK, Locals, NEW r \in Requests, Acquire(r) PROVE TypeOK'
<1>1. snap[r] \in Stores /\ Key(r) \in Keys
  BY ServedBy DEF Acquire
<1>2. CASE locks[snap[r]][Key(r)] = 0
  <2>1. /\ locks' = [locks EXCEPT ![snap[r]][Key(r)] = LockTTL]
        /\ pc' = [pc EXCEPT ![r] = "handling"]
        /\ left' = [left EXCEPT ![r] = LockTTL]
        /\ snap' = [snap EXCEPT ![r] = snap[r]]
        /\ UNCHANGED <<reply, proc>>
    BY <1>2 DEF Acquire, TryLock, SetLock
  <2>2. LockTTL \in 0..LockTTL
    BY ConstantsAssumption
  <2>3. locks' \in [Stores -> [Keys -> 0..LockTTL]]
    BY <1>1, <2>1, <2>2, EntrySet DEF TypeOK
  <2>4. left' \in [Requests -> 0..LockTTL] /\ pc' \in [Requests -> PCs]
        /\ snap' \in [Requests -> Stores \cup {None}]
    BY <1>1, <2>1, <2>2 DEF TypeOK, PCs
  <2> QED BY <2>1, <2>3, <2>4 DEF TypeOK, Acquire
<1>3. CASE locks[snap[r]][Key(r)] > 0
  BY <1>3, AnswerType DEF TypeOK, Acquire, TryLock, Replies
<1> QED BY <1>1, <1>2, <1>3 DEF TypeOK, Acquire, TryLock

LEMMA AcquireTwiceType ==
    ASSUME TypeOK, Locals, NEW r \in Requests, AcquireTwice(r) PROVE TypeOK'
<1>1. Redis \in Stores /\ Key(r) \in Keys
  BY ServedBy, StoreNames DEF AcquireTwice
<1>2. locks' \in [Stores -> [Keys -> 0..LockTTL]] /\ faults' \in 0..MaxFaults
  BY <1>1, ConstantsAssumption, EntrySet DEF TypeOK, AcquireTwice, SetLock
<1> QED BY <1>2, AnswerType DEF TypeOK, AcquireTwice, Replies

\* The lock of the key in Redis, then that in the memory of p.
LEMMA TwoLocks ==
    ASSUME TypeOK, NEW p \in Procs, NEW k \in Keys, NEW u \in 0..LockTTL, NEW v \in 0..LockTTL,
           locks' = [locks EXCEPT ![Redis][k] = u, ![p][k] = v]
    PROVE  /\ locks' \in [Stores -> [Keys -> 0..LockTTL]]
           /\ \A s \in Stores, q \in Keys :
                 locks'[s][q] = IF s = p /\ q = k THEN v
                            ELSE IF s = Redis /\ q = k THEN u ELSE locks[s][q]
<1> DEFINE l1 == [locks EXCEPT ![Redis][k] = u]
<1>1. Redis \in Stores /\ p \in Stores
  BY StoreNames
<1>2. l1 \in [Stores -> [Keys -> 0..LockTTL]]
  BY <1>1, EntrySet DEF TypeOK
<1>3. [l1 EXCEPT ![p][k] = v] \in [Stores -> [Keys -> 0..LockTTL]]
  <2> HIDE DEF l1
  <2> QED BY <1>1, <1>2, EntrySet
<1>4. ASSUME NEW s \in Stores, NEW q \in Keys
      PROVE  l1[s][q] = IF s = Redis /\ q = k THEN u ELSE locks[s][q]
  BY <1>1, EntryGet DEF TypeOK
<1>5. ASSUME NEW s \in Stores, NEW q \in Keys
      PROVE  [l1 EXCEPT ![p][k] = v][s][q] = IF s = p /\ q = k THEN v ELSE l1[s][q]
  <2> HIDE DEF l1
  <2> QED BY <1>1, <1>2, EntryGet
<1> QED BY <1>3, <1>4, <1>5

LEMMA AcquireFailsType ==
    ASSUME TypeOK, Locals, NEW r \in Requests, AcquireFails(r) PROVE TypeOK'
<1>1. proc[r] \in Procs /\ proc[r] \in Stores /\ Redis \in Stores /\ Key(r) \in Keys
  BY ServedBy, StoreNames DEF AcquireFails
<1>2. ASSUME NEW s \in Stores PROVE locks[s][Key(r)] \in 0..LockTTL /\ LockedIn(s, Key(r)) \in 0..LockTTL
  BY <1>1, ConstantsAssumption DEF TypeOK, LockedIn
<1>3. PICK inRedis \in {locks[Redis][Key(r)], LockedIn(Redis, Key(r))} :
          locks' = [locks EXCEPT ![Redis][Key(r)] = inRedis,
                                 ![proc[r]][Key(r)] = LockedIn(proc[r], Key(r))]
  BY DEF AcquireFails
<1>7. locks' \in [Stores -> [Keys -> 0..LockTTL]]
  <2>1. inRedis \in 0..LockTTL /\ LockedIn(proc[r], Key(r)) \in 0..LockTTL
    BY <1>1, <1>2, <1>3
  <2> QED BY <1>1, <1>3, <2>1, TwoLocks
<1>4. store' \in [Procs -> Stores] /\ faults' \in 0..MaxFaults
  BY <1>1, ConstantsAssumption DEF TypeOK, AcquireFails, Degrade
<1>5. CASE Answer(r, "in_progress") /\ UNCHANGED left
  BY <1>7, <1>4, <1>5, AnswerType DEF TypeOK, AcquireFails, Replies
<1>6. CASE /\ pc' = [pc EXCEPT ![r] = "handling"]
           /\ left' = [left EXCEPT ![r] = LockTTL]
           /\ snap' = [snap EXCEPT ![r] = proc[r]]
           /\ UNCHANGED <<reply, proc>>
  <2>1. left' \in [Requests -> 0..LockTTL] /\ pc' \in [Requests -> PCs]
        /\ snap' \in [Requests -> Stores \cup {None}]
    BY <1>1, <1>6, ConstantsAssumption DEF TypeOK, PCs
  <2> QED BY <1>7, <1>4, <1>6, <2>1 DEF TypeOK, AcquireFails
<1> QED BY <1>5, <1>6 DEF AcquireFails

LEMMA HandleType ==
    ASSUME TypeOK, NEW r \in Requests, NEW o \in Outcomes, Handle(r, o) PROVE TypeOK'
<1>1. pc' \in [Requests -> PCs] /\ outcome' \in [Requests -> Outcomes \cup {None}]
      /\ ran' \subseteq Requests
  BY DEF TypeOK, Handle, PCs
<1> QED BY <1>1 DEF TypeOK, Handle

LEMMA SetRecordType ==
    ASSUME TypeOK, Locals, NEW r \in Requests, pc[r] = "returned", SetRecord(r)
    PROVE  records' \in [Stores -> [Keys -> Records \cup {None}]]
<1>1. snap[r] \in Stores /\ Key(r) \in Keys
  BY ServedBy
<1>2. RecordOf(r) \in Records
  BY ConstantsAssumption DEF RecordOf, Records
<1> QED BY <1>1, <1>2, EntrySet DEF TypeOK, SetRecord

LEMMA KeepType ==
    ASSUME TypeOK, Locals, NEW r \in Requests, Keep(r) PROVE TypeOK'
<1>1. pc' \in [Requests -> PCs]
  BY DEF TypeOK, Keep, PCs
<1>2. records' \in [Stores -> [Keys -> Records \cup {None}]]
  BY SetRecordType DEF TypeOK, Keep
<1> QED BY <1>1, <1>2 DEF TypeOK, Keep

LEMMA KeepFailsType ==
    ASSUME TypeOK, Locals, NEW r \in Requests, KeepFails(r) PROVE TypeOK'
<1>1. pc' \in [Requests -> PCs]
  BY DEF TypeOK, KeepFails, PCs
<1>2. records' \in [Stores -> [Keys -> Records \cup {None}]]
  BY SetRecordType DEF TypeOK, KeepFails
<1>3. proc[r] \in Procs /\ proc[r] \in Stores
  BY ServedBy DEF KeepFails
<1>4. store' \in [Procs -> Stores] /\ faults' \in 0..MaxFaults
  BY <1>3, ConstantsAssumption DEF TypeOK, KeepFails, Degrade
<1> QED BY <1>1, <1>2, <1>4 DEF TypeOK, KeepFails

LEMMA LeaveType ==
    ASSUME TypeOK, NEW r \in Requests, Leave(r)
    PROVE  /\ pc' \in [Requests -> PCs] /\ reply' \in [Requests -> Replies]
           /\ proc' \in [Requests -> Procs \cup {None}]
           /\ snap' \in [Requests -> Stores \cup {None}]
           /\ outcome' \in [Requests -> Outcomes \cup {None}]
           /\ left' \in [Requests -> 0..LockTTL]
<1>1. pc' \in [Requests -> PCs] /\ reply' \in [Requests -> Replies]
  BY DEF TypeOK, Leave, PCs, Replies
<1>2. left' \in [Requests -> 0..LockTTL]
  BY ConstantsAssumption DEF TypeOK, Leave
<1> QED BY <1>1, <1>2 DEF TypeOK, Leave

LEMMA ReleaseType ==
    ASSUME TypeOK, Locals, NEW r \in Requests, Release(r) PROVE TypeOK'
<1>1. snap[r] \in Stores /\ Key(r) \in Keys
  BY ServedBy DEF Release
<1>2. locks' \in [Stores -> [Keys -> 0..LockTTL]]
  BY <1>1, ConstantsAssumption, EntrySet DEF TypeOK, Release, Unlock
<1> QED BY <1>2, LeaveType DEF TypeOK, Release

LEMMA ReleaseFailsType ==
    ASSUME TypeOK, NEW r \in Requests, ReleaseFails(r) PROVE TypeOK'
<1>1. faults' \in 0..MaxFaults
  BY ConstantsAssumption DEF TypeOK, ReleaseFails
<1> QED BY <1>1, LeaveType DEF TypeOK, ReleaseFails

LEMMA EndStreamType ==
    ASSUME TypeOK, NEW r \in Requests, EndStream(r) PROVE TypeOK'
BY DEF TypeOK, EndStream, PCs

LEMMA CrashType ==
    ASSUME TypeOK, NEW p \in Procs, Crash(p) PROVE TypeOK'
<1>1. p \in Stores /\ Redis \in Stores
  BY StoreNames
<1>2. store' \in [Procs -> Stores] /\ faults' \in 0..MaxFaults /\ crashes' \in 0..MaxCrashes
  BY <1>1, ConstantsAssumption DEF TypeOK, Crash, Degrade, Initial
<1>3. records' \in [Stores -> [Keys -> Records \cup {None}]]
  BY <1>1 DEF TypeOK, Crash
<1>4. locks' \in [Stores -> [Keys -> 0..LockTTL]] /\ left' \in [Requests -> 0..LockTTL]
  BY <1>1, ConstantsAssumption DEF TypeOK, Crash
<1>5. pc' \in [Requests -> PCs] /\ reply' \in [Requests -> Replies]
  BY DEF TypeOK, Crash, PCs, Replies
<1>6. /\ proc' \in [Requests -> Procs \cup {None}]
      /\ snap' \in [Requests -> Stores \cup {None}]
      /\ outcome' \in [Requests -> Outcomes \cup {None}]
  BY DEF TypeOK, Crash
<1> QED BY <1>2, <1>3, <1>4, <1>5, <1>6 DEF TypeOK, Crash

LEMMA TickType == ASSUME TypeOK, Tick PROVE TypeOK'
<1>1. \A n \in 0..LockTTL : Minus(n) \in 0..LockTTL
  BY ConstantsAssumption DEF Minus
<1>2. locks' \in [Stores -> [Keys -> 0..LockTTL]] /\ left' \in [Requests -> 0..LockTTL]
  BY <1>1 DEF TypeOK, Tick, ExpireLocks
<1>3. \A record \in Records \cup {None} : Aged(record) \in Records \cup {None}
  BY ConstantsAssumption DEF Aged, Records
<1>4. records' \in [Stores -> [Keys -> Records \cup {None}]]
  BY <1>3 DEF TypeOK, Tick
<1>5. late' \in [Stores -> [Keys -> BOOLEAN]]
  BY DEF TypeOK, Tick
<1> QED BY <1>2, <1>4, <1>5 DEF TypeOK, Tick

LEMMA ServeType == ASSUME TypeOK, Locals, NEW r \in Requests, Serve(r) PROVE TypeOK'
BY LookupType, LookupFailsType, AcquireType, AcquireFailsType, AcquireTwiceType, HandleType,
   KeepType, KeepFailsType, ReleaseType, ReleaseFailsType, EndStreamType DEF Serve

-----------------------------------------------------------------------------
(* The local variables of a delivery. *)

LEMMA ResolveLocals ==
    ASSUME TypeOK, Locals, NEW r \in Requests, NEW p \in Procs, Resolve(r, p, p) \/ Resolve(r, p, Redis)
    PROVE  Locals'
BY DEF TypeOK, Locals, Resolve, Answer

LEMMA ServeLocals ==
    ASSUME TypeOK, Locals, OwnStore, NEW r \in Requests, Serve(r)
    PROVE  Locals' /\ OwnStore'
<1> USE DEF TypeOK, Locals, OwnStore
<1>1. ASSUME NEW p \in Procs, Lookup(r, p) PROVE Locals' /\ OwnStore'
  BY <1>1, ResolveLocals DEF Lookup
<1>2. ASSUME NEW p \in Procs, LookupFails(r, p) PROVE Locals' /\ OwnStore'
  BY <1>2, ResolveLocals DEF LookupFails, Degrade
<1>3. CASE Acquire(r)
  BY ZenonT(40), <1>3 DEF Acquire, TryLock, Answer
<1>4. CASE AcquireFails(r)
  BY <1>4 DEF AcquireFails, Degrade, Answer
<1>5. CASE AcquireTwice(r)
  BY <1>5 DEF AcquireTwice, Answer
<1>6. ASSUME NEW o \in Outcomes, Handle(r, o) PROVE Locals' /\ OwnStore'
  BY <1>6 DEF Handle
<1>7. CASE Keep(r)
  BY <1>7 DEF Keep
<1>8. CASE KeepFails(r)
  BY <1>8 DEF KeepFails, Degrade
<1>9. CASE Release(r) \/ ReleaseFails(r)
  <2>1. Leave(r) /\ UNCHANGED store
    BY <1>9 DEF Release, ReleaseFails
  <2>2. /\ pc'[r] \in {"streaming", "done"} /\ snap'[r] = None
        /\ \A q \in Requests : q # r =>
              pc'[q] = pc[q] /\ proc'[q] = proc[q] /\ snap'[q] = snap[q]
    BY <2>1 DEF Leave
  <2> QED BY <2>1, <2>2
<1>10. CASE EndStream(r)
  BY <1>10 DEF EndStream
<1> QED BY <1>1, <1>2, <1>3, <1>4, <1>5, <1>6, <1>7, <1>8, <1>9, <1>10 DEF Serve

LEMMA CrashLocals ==
    ASSUME TypeOK, Locals, OwnStore, NEW p \in Procs, Crash(p) PROVE Locals' /\ OwnStore'
<1>1. Locals'
  BY DEF TypeOK, Locals, Crash
<1>2. OwnStore'
  BY DEF TypeOK, OwnStore, Crash, Degrade, Initial
<1> QED BY <1>1, <1>2

-----------------------------------------------------------------------------
(* The lock. *)

\* A step that leaves the locks, the clock and who holds what as they are.
LEMMA LockFrame ==
    ASSUME Owns, OverlapOnlyAfterOverrun, UNCHANGED <<locks, left, late>>,
           \A q \in Requests : Holding(q)' => Holding(q) /\ snap'[q] = snap[q]
    PROVE  Owns' /\ OverlapOnlyAfterOverrun'
BY DEF Owns, OverlapOnlyAfterOverrun, Holding, Key

\* r enters the handler with a lock of store s that was free.
LEMMA LockTaken ==
    ASSUME TypeOK, TypeOK', Owns, OverlapOnlyAfterOverrun, NEW r \in Requests, NEW s \in Stores,
           locks[s][Key(r)] = 0, locks'[s][Key(r)] = LockTTL,
           \A t \in Stores, k \in Keys :
               locks[t][k] > 0 => locks'[t][k] = locks[t][k],
           left' = [left EXCEPT ![r] = LockTTL], UNCHANGED late,
           pc' = [pc EXCEPT ![r] = "handling"], snap' = [snap EXCEPT ![r] = s],
           \A q \in Requests : Holding(q) => snap[q] \in Stores
    PROVE  Owns' /\ OverlapOnlyAfterOverrun'
<1> USE ConstantsAssumption DEF TypeOK, Key
<1>1. \A q \in Requests \ {r} : /\ Holding(q)' <=> Holding(q)
                                 /\ snap'[q] = snap[q] /\ left'[q] = left[q]
  BY DEF Holding
<1>2. snap'[r] = s /\ left'[r] = LockTTL
  OBVIOUS
<1>3. Owns'
  <2> SUFFICES ASSUME NEW q \in Requests, Holding(q)', ~late'[snap'[q]][Key(q)]
               PROVE  left'[q] > 0 /\ locks'[snap'[q]][Key(q)] = left'[q]
    BY DEF Owns
  <2>1. CASE q = r
    BY <1>2, <2>1
  <2>2. CASE q # r
    <3>1. Holding(q) /\ snap'[q] = snap[q] /\ left'[q] = left[q] /\ snap[q] \in Stores
      BY <1>1, <2>2
    <3>2. left[q] > 0 /\ locks[snap[q]][Key(q)] = left[q]
      BY <3>1 DEF Owns
    <3>3. Key(q) \in Keys
      OBVIOUS
    <3> QED BY <3>1, <3>2, <3>3
  <2> QED BY <2>1, <2>2
<1>4. ASSUME NEW q \in Requests \ {r}, Holding(q), snap[q] = s, Key(q) = Key(r)
      PROVE  late[s][Key(r)]
  BY <1>4 DEF Owns
<1>5. OverlapOnlyAfterOverrun'
  BY <1>1, <1>2, <1>4 DEF OverlapOnlyAfterOverrun
<1> QED BY <1>3, <1>5

\* A step that changes no lock anyone holds, nor who holds what.
LEMMA LocksKept ==
    ASSUME Owns, OverlapOnlyAfterOverrun, UNCHANGED <<left, late>>,
           \A t \in Stores, k \in Keys : locks[t][k] > 0 => locks'[t][k] = locks[t][k],
           \A q \in Requests : Holding(q)' => Holding(q) /\ snap'[q] = snap[q],
           \A q \in Requests : Holding(q) => snap[q] \in Stores
    PROVE  Owns' /\ OverlapOnlyAfterOverrun'
<1> USE ConstantsAssumption DEF Key
<1>1. Owns'
  BY DEF Owns
<1>2. OverlapOnlyAfterOverrun'
  BY DEF OverlapOnlyAfterOverrun
<1> QED BY <1>1, <1>2

\* r leaves the handler; only the lock of its key may change, and to anything.
LEMMA LockLeft ==
    ASSUME TypeOK, Owns, OverlapOnlyAfterOverrun, NEW r \in Requests, Holding(r),
           \A t \in Stores, k \in Keys :
               locks'[t][k] = locks[t][k] \/ (t = snap[r] /\ k = Key(r)),
           ~Holding(r)', UNCHANGED late,
           \A q \in Requests \ {r} : /\ Holding(q)' <=> Holding(q)
                                     /\ snap'[q] = snap[q] /\ left'[q] = left[q],
           \A q \in Requests : Holding(q) => snap[q] \in Stores /\ Key(q) \in Keys
    PROVE  Owns' /\ OverlapOnlyAfterOverrun'
<1> USE DEF Key
<1>1. ASSUME NEW q \in Requests, Holding(q)', ~late'[snap'[q]][Key(q)]
      PROVE  left'[q] > 0 /\ locks'[snap'[q]][Key(q)] = left'[q]
  <2>1. q # r /\ Holding(q) /\ snap'[q] = snap[q] /\ left'[q] = left[q]
    BY <1>1
  <2>2. ~late[snap[q]][Key(q)]
    BY <1>1, <2>1
  <2>3. left[q] > 0 /\ locks[snap[q]][Key(q)] = left[q]
    BY <2>1, <2>2 DEF Owns
  <2>4. ~(snap[q] = snap[r] /\ Key(q) = Key(r))
    BY <2>1, <2>2 DEF OverlapOnlyAfterOverrun
  <2> QED BY <2>1, <2>3, <2>4
<1>2. Owns'
  BY <1>1 DEF Owns
<1>3. OverlapOnlyAfterOverrun'
  BY DEF OverlapOnlyAfterOverrun
<1> QED BY <1>2, <1>3

LEMMA AcquireLock ==
    ASSUME IInv, NEW r \in Requests, Acquire(r), TypeOK'
    PROVE  Owns' /\ OverlapOnlyAfterOverrun'
<1>1. \A q \in Requests : Holding(q) => snap[q] \in Stores
  BY StoreNames DEF IInv, Holding, Locals
<1>2. snap[r] \in Stores /\ Key(r) \in Keys
  BY ServedBy DEF IInv, Acquire
<1>3. CASE locks[snap[r]][Key(r)] = 0
  <2>1. /\ locks' = [locks EXCEPT ![snap[r]][Key(r)] = LockTTL]
        /\ pc' = [pc EXCEPT ![r] = "handling"]
        /\ left' = [left EXCEPT ![r] = LockTTL]
        /\ snap' = [snap EXCEPT ![r] = snap[r]]
        /\ UNCHANGED late
    BY <1>3 DEF Acquire, TryLock, SetLock
  <2>2. \A t \in Stores, k \in Keys :
           locks'[t][k] = IF t = snap[r] /\ k = Key(r) THEN LockTTL ELSE locks[t][k]
    BY <1>2, <2>1, EntryGet DEF IInv, TypeOK
  <2>3. \A t \in Stores, k \in Keys : locks[t][k] > 0 => locks'[t][k] = locks[t][k]
    BY <1>3, <2>2
  <2>4. locks'[snap[r]][Key(r)] = LockTTL
    BY <1>2, <2>2
  <2> QED BY <1>1, <1>2, <1>3, <2>1, <2>3, <2>4, LockTaken DEF IInv
<1>4. CASE Answer(r, "in_progress") /\ UNCHANGED <<locks, left>>
  BY <1>4, LockFrame DEF IInv, TypeOK, Acquire, Answer, Holding
<1> QED BY <1>2, <1>3, <1>4 DEF Acquire, TryLock

LEMMA AcquireFailsLock ==
    ASSUME IInv, NEW r \in Requests, AcquireFails(r), TypeOK'
    PROVE  Owns' /\ OverlapOnlyAfterOverrun'
<1> DEFINE p == proc[r]
           k == Key(r)
<1>1. p \in Procs /\ p \in Stores /\ Redis \in Stores /\ k \in Keys /\ p # Redis
  BY ServedBy, StoreNames, ConstantsAssumption DEF IInv, AcquireFails
<1>2. \A q \in Requests : Holding(q) => snap[q] \in Stores
  BY StoreNames DEF IInv, Holding, Locals
<1>3. PICK inRedis \in {locks[Redis][k], LockedIn(Redis, k)} :
          locks' = [locks EXCEPT ![Redis][k] = inRedis, ![p][k] = LockedIn(p, k)]
  BY DEF AcquireFails
<1>4. \A s \in Stores : locks[s][k] \in 0..LockTTL /\ LockedIn(s, k) \in 0..LockTTL
  BY <1>1, ConstantsAssumption DEF IInv, TypeOK, LockedIn
<1>5. \A s \in Stores, q \in Keys :
         locks'[s][q] = IF s = p /\ q = k THEN LockedIn(p, k)
                        ELSE IF s = Redis /\ q = k THEN inRedis ELSE locks[s][q]
  <2>1. inRedis \in 0..LockTTL /\ LockedIn(p, k) \in 0..LockTTL
    BY <1>1, <1>3, <1>4
  <2> QED BY ZenonT(40), <1>1, <1>3, <2>1, TwoLocks DEF IInv
<1>6. ASSUME NEW t \in Stores, NEW q \in Keys, locks[t][q] > 0
      PROVE  locks'[t][q] = locks[t][q]
  <2>1. ~(locks[t][q] = 0)
    BY <1>6, ConstantsAssumption DEF IInv, TypeOK
  <2>2. LockedIn(t, q) = locks[t][q]
    BY <2>1 DEF LockedIn
  <2>3. t = Redis /\ q = k => inRedis = locks[t][q]
    BY <1>3, <2>2
  <2>4. locks'[t][q] = IF t = p /\ q = k THEN LockedIn(p, k)
                       ELSE IF t = Redis /\ q = k THEN inRedis ELSE locks[t][q]
    BY <1>5
  <2> HIDE DEF p, k
  <2> QED BY <2>2, <2>3, <2>4
<1>7. CASE /\ locks[p][k] = 0
           /\ pc' = [pc EXCEPT ![r] = "handling"]
           /\ left' = [left EXCEPT ![r] = LockTTL]
           /\ snap' = [snap EXCEPT ![r] = p]
           /\ UNCHANGED late
  <2>1. locks'[p][Key(r)] = LockTTL
    BY <1>1, <1>5, <1>7 DEF LockedIn
  <2> QED BY <1>1, <1>2, <1>6, <1>7, <2>1, LockTaken DEF IInv
<1>8. CASE Answer(r, "in_progress") /\ UNCHANGED <<left, late>>
  <2>1. \A q \in Requests : Holding(q)' => Holding(q) /\ snap'[q] = snap[q]
    BY <1>8 DEF IInv, TypeOK, Answer, Holding
  <2> QED BY <1>2, <1>6, <1>8, <2>1, LocksKept DEF IInv
<1> QED BY <1>7, <1>8 DEF AcquireFails

LEMMA AcquireTwiceLock ==
    ASSUME IInv, NEW r \in Requests, AcquireTwice(r)
    PROVE  Owns' /\ OverlapOnlyAfterOverrun'
<1>1. Redis \in Stores /\ Key(r) \in Keys
  BY ServedBy, StoreNames DEF IInv, AcquireTwice
<1>2. \A t \in Stores, k \in Keys : locks[t][k] > 0 => locks'[t][k] = locks[t][k]
  BY <1>1, EntryGet DEF IInv, TypeOK, AcquireTwice, SetLock
<1>3. \A q \in Requests : Holding(q)' => Holding(q) /\ snap'[q] = snap[q]
  BY DEF IInv, TypeOK, AcquireTwice, Answer, Holding
<1>4. \A q \in Requests : Holding(q) => snap[q] \in Stores
  BY StoreNames DEF IInv, Holding, Locals
<1> QED BY <1>2, <1>3, <1>4, LocksKept DEF IInv, AcquireTwice

LEMMA LeaveLock ==
    ASSUME IInv, NEW r \in Requests, Release(r) \/ ReleaseFails(r)
    PROVE  Owns' /\ OverlapOnlyAfterOverrun'
<1>1. Holding(r) /\ snap[r] \in Stores /\ Key(r) \in Keys
  BY ServedBy DEF IInv, Release, ReleaseFails, Holding
<1>2. \A t \in Stores, k \in Keys :
         locks'[t][k] = locks[t][k] \/ (t = snap[r] /\ k = Key(r))
  BY <1>1, EntryGet DEF IInv, TypeOK, Release, ReleaseFails, Unlock
<1>3. /\ ~Holding(r)' /\ UNCHANGED late
      /\ \A q \in Requests \ {r} : /\ Holding(q)' <=> Holding(q)
                                   /\ snap'[q] = snap[q] /\ left'[q] = left[q]
  BY DEF IInv, TypeOK, Release, ReleaseFails, Leave, Holding
<1>4. \A q \in Requests : Holding(q) => snap[q] \in Stores /\ Key(q) \in Keys
  BY StoreNames, ConstantsAssumption DEF IInv, Holding, Locals, Key
<1> QED BY <1>1, <1>2, <1>3, <1>4, LockLeft DEF IInv

LEMMA ServeLock ==
    ASSUME IInv, NEW r \in Requests, Serve(r), TypeOK'
    PROVE  Owns' /\ OverlapOnlyAfterOverrun'
<1>1. ASSUME NEW p \in Procs, Lookup(r, p) \/ LookupFails(r, p)
      PROVE  Owns' /\ OverlapOnlyAfterOverrun'
  <2>1. \A q \in Requests : Holding(q)' => Holding(q) /\ snap'[q] = snap[q]
    BY <1>1 DEF IInv, TypeOK, Lookup, LookupFails, Resolve, Answer, Holding
  <2> QED BY <1>1, <2>1, LockFrame DEF IInv, Lookup, LookupFails
<1>2. ASSUME NEW o \in Outcomes, Handle(r, o) PROVE Owns' /\ OverlapOnlyAfterOverrun'
  BY <1>2, LockFrame DEF IInv, TypeOK, Handle, Holding
<1>3. CASE Keep(r) \/ KeepFails(r) \/ EndStream(r)
  BY <1>3, LockFrame DEF IInv, TypeOK, Keep, KeepFails, EndStream, Holding
<1> QED BY <1>1, <1>2, <1>3, AcquireLock, AcquireFailsLock, AcquireTwiceLock, LeaveLock DEF Serve

\* A restart frees the memory of its own process, whose deliveries it killed.
LEMMA CrashLock ==
    ASSUME IInv, NEW p \in Procs, Crash(p)
    PROVE  Owns' /\ OverlapOnlyAfterOverrun'
<1>1. p \in Stores /\ p # Redis
  BY StoreNames, ConstantsAssumption
<1>2. ASSUME NEW q \in Requests, Holding(q)'
      PROVE  /\ Holding(q) /\ snap'[q] = snap[q] /\ left'[q] = left[q]
             /\ snap[q] \in Stores /\ snap[q] # p
  BY <1>1, <1>2, StoreNames DEF IInv, TypeOK, Locals, Crash, Holding
<1>3. \A s \in Stores \ {p} : locks'[s] = locks[s]
  BY DEF IInv, TypeOK, Crash
<1>4. Owns'
  BY <1>2, <1>3 DEF IInv, Owns, Crash, Key
<1>5. OverlapOnlyAfterOverrun'
  BY <1>2 DEF IInv, OverlapOnlyAfterOverrun, Crash, Key
<1> QED BY <1>4, <1>5

LEMMA TickLock ==
    ASSUME IInv, Tick
    PROVE  Owns' /\ OverlapOnlyAfterOverrun'
<1>1. ASSUME NEW q \in Requests, Holding(q)'
      PROVE  /\ Holding(q) /\ snap'[q] = snap[q] /\ snap[q] \in Stores /\ Key(q) \in Keys
  BY <1>1, StoreNames, ConstantsAssumption DEF IInv, Locals, Tick, Holding, Key
<1>2. \A s \in Stores, k \in Keys : late[s][k] => late'[s][k]
  BY DEF Tick
<1>3. ASSUME NEW q \in Requests, Holding(q)', ~late'[snap'[q]][Key(q)]
      PROVE  left'[q] > 0 /\ locks'[snap'[q]][Key(q)] = left'[q]
  <2>1. Holding(q) /\ snap'[q] = snap[q] /\ snap[q] \in Stores /\ Key(q) \in Keys
    BY <1>1, <1>3
  <2>2. ~late[snap[q]][Key(q)] /\ ~(left[q] <= 1)
    BY <1>3, <2>1 DEF Tick
  <2>3. locks[snap[q]][Key(q)] = left[q]
    BY <2>1, <2>2 DEF IInv, Owns
  <2>4. left[q] \in Nat
    BY ConstantsAssumption DEF IInv, TypeOK
  <2>5. left'[q] = Minus(left[q]) /\ locks'[snap[q]][Key(q)] = Minus(left[q])
    BY <2>1, <2>3 DEF Tick, ExpireLocks
  <2>6. Minus(left[q]) > 0
    BY <2>2, <2>4 DEF Minus
  <2> QED BY <2>1, <2>5, <2>6
<1>4. Owns'
  BY <1>3 DEF Owns, Key
<1>5. OverlapOnlyAfterOverrun'
  BY <1>1, <1>2 DEF IInv, OverlapOnlyAfterOverrun, Key
<1> QED BY <1>4, <1>5

-----------------------------------------------------------------------------
(* What is kept has happened. *)

LEMMA RecordFrame ==
    ASSUME Happened, RecordsHappened, UNCHANGED records, ran \subseteq ran',
           \A q \in Requests : pc[q]' = "returned" /\ Cacheable(outcome[q]') =>
               (pc[q] = "returned" /\ Cacheable(outcome[q])) \/ q \in ran'
    PROVE  Happened' /\ RecordsHappened'
BY DEF Happened, RecordsHappened, Key

LEMMA KeepRecord ==
    ASSUME IInv, NEW r \in Requests, Keep(r) \/ KeepFails(r)
    PROVE  Happened' /\ RecordsHappened'
<1>1. Happened'
  <2>1. \A q \in Requests : pc'[q] = "returned" => pc[q] = "returned"
    BY DEF IInv, TypeOK, Keep, KeepFails
  <2> QED BY <2>1 DEF IInv, Happened, Keep, KeepFails
<1>2. snap[r] \in Stores /\ Key(r) \in Keys
  BY ServedBy DEF IInv, Keep, KeepFails
<1>3. CASE UNCHANGED records
  BY <1>1, <1>3 DEF IInv, RecordsHappened, Keep, KeepFails, Key
<1>4. CASE SetRecord(r) /\ Cacheable(outcome[r])
  <2>1. r \in ran /\ UNCHANGED ran
    BY <1>4 DEF IInv, Happened, Keep, KeepFails
  <2>2. \A s \in Stores, k \in Keys :
           records'[s][k] = IF s = snap[r] /\ k = Key(r) THEN RecordOf(r) ELSE records[s][k]
    BY <1>2, <1>4, EntryGet DEF IInv, TypeOK, SetRecord
  <2>3. RecordOf(r).by = r /\ RecordOf(r).fingerprint = PrintOf[r]
    BY DEF RecordOf
  <2> QED BY <1>1, <2>1, <2>2, <2>3 DEF IInv, RecordsHappened, Key
<1> QED BY <1>1, <1>3, <1>4 DEF Keep, KeepFails

LEMMA ServeRecord ==
    ASSUME IInv, NEW r \in Requests, Serve(r)
    PROVE  Happened' /\ RecordsHappened'
<1> USE DEF IInv, TypeOK
<1>1. ASSUME NEW p \in Procs, Lookup(r, p) \/ LookupFails(r, p)
      PROVE  Happened' /\ RecordsHappened'
  BY <1>1, RecordFrame DEF Lookup, LookupFails, Resolve, Answer
<1>2. CASE Acquire(r) \/ AcquireFails(r) \/ AcquireTwice(r)
  BY <1>2, RecordFrame DEF Acquire, TryLock, AcquireFails, AcquireTwice, Answer
<1>3. ASSUME NEW o \in Outcomes, Handle(r, o) PROVE Happened' /\ RecordsHappened'
  BY <1>3, RecordFrame DEF Handle, Cacheable
<1>4. CASE Keep(r) \/ KeepFails(r)
  BY <1>4, KeepRecord
<1>5. CASE Release(r) \/ ReleaseFails(r) \/ EndStream(r)
  BY <1>5, RecordFrame DEF Release, ReleaseFails, Leave, EndStream
<1> QED BY <1>1, <1>2, <1>3, <1>4, <1>5 DEF Serve

LEMMA CrashRecord ==
    ASSUME IInv, NEW p \in Procs, Crash(p)
    PROVE  Happened' /\ RecordsHappened'
<1>1. Happened'
  BY DEF IInv, Happened, Crash
<1>2. ASSUME NEW s \in Stores, NEW k \in Keys
      PROVE  records'[s][k] \in {records[s][k], None}
  BY DEF IInv, TypeOK, Crash
<1>3. RecordsHappened'
  BY <1>2 DEF IInv, RecordsHappened, Crash, Key
<1> QED BY <1>1, <1>3

LEMMA TickRecord ==
    ASSUME IInv, Tick
    PROVE  Happened' /\ RecordsHappened'
<1>1. Happened'
  BY DEF IInv, Happened, Tick
<1>2. ASSUME NEW s \in Stores, NEW k \in Keys, records'[s][k] # None
      PROVE  /\ records[s][k] # None
             /\ records'[s][k].by = records[s][k].by
             /\ records'[s][k].fingerprint = records[s][k].fingerprint
  <2>1. records'[s][k] = Aged(records[s][k])
    BY DEF Tick
  <2>2. records[s][k] \in Records
    BY <1>2, <2>1 DEF IInv, TypeOK, Aged
  <2> QED BY <1>2, <2>1, <2>2 DEF Aged, Records
<1>3. RecordsHappened'
  BY <1>2 DEF IInv, RecordsHappened, Tick, Key
<1> QED BY <1>1, <1>3

-----------------------------------------------------------------------------
(* The theorems. *)

LEMMA InitInv == Init => IInv
<1> SUFFICES ASSUME Init PROVE IInv
  OBVIOUS
<1>1. TypeOK
  BY InitType
<1>2. \A r \in Requests : pc[r] = "new" /\ snap[r] = None
  BY DEF Init
<1>3. Locals /\ Owns /\ OverlapOnlyAfterOverrun /\ Happened
  BY <1>2 DEF Locals, Owns, OverlapOnlyAfterOverrun, Happened, Holding
<1>4. OwnStore
  BY DEF Init, OwnStore, Initial
<1>5. RecordsHappened
  BY DEF Init, RecordsHappened
<1> QED BY <1>1, <1>3, <1>4, <1>5 DEF IInv

LEMMA NextInv == IInv /\ [Next]_vars => IInv'
<1> SUFFICES ASSUME IInv, [Next]_vars PROVE IInv'
  OBVIOUS
<1>1. ASSUME NEW r \in Requests, Serve(r) PROVE IInv'
  <2>1. TypeOK'
    BY <1>1, ServeType DEF IInv
  <2> QED BY <1>1, <2>1, ServeLocals, ServeLock, ServeRecord DEF IInv
<1>2. ASSUME NEW p \in Procs, Crash(p) PROVE IInv'
  BY <1>2, CrashType, CrashLocals, CrashLock, CrashRecord DEF IInv
<1>3. CASE Tick
  <2>1. Locals' /\ OwnStore'
    BY <1>3 DEF IInv, Locals, OwnStore, Tick
  <2> QED BY <1>3, <2>1, TickType, TickLock, TickRecord DEF IInv
<1>4. CASE UNCHANGED vars
  BY <1>4 DEF IInv, TypeOK, Locals, OwnStore, Owns, OverlapOnlyAfterOverrun, Happened,
              RecordsHappened, Holding, Key, vars
<1> QED BY <1>1, <1>2, <1>3, <1>4 DEF Next

LEMMA Inductive == Spec => []IInv
BY InitInv, NextInv, PTL DEF Spec

\* The variables of the middleware always have their types.
THEOREM TypeCorrect == Spec => []TypeOK
BY Inductive, PTL DEF IInv

\* With any number of processes, restarts and failing calls, two deliveries of
\* one key are in the handler on one store only after a handler of that key
\* outlived idempotency_lock_ttl_seconds.
THEOREM LockExcludes == Spec => []OverlapOnlyAfterOverrun
BY Inductive, PTL DEF IInv

\* Whatever is replayed is the answer of a handler that took effect, for the
\* same key and the same fingerprint.
THEOREM ReplaysWhatHappened == Spec => []RecordsHappened
BY Inductive, PTL DEF IInv

-----------------------------------------------------------------------------
(* No second execution over a kept answer.                                 *)

\* Every store is used by one event loop only.
Separate == Backend = "memory" \/ \A p, q \in Procs : p = q

NothingLate == \A s \in Stores, k \in Keys : ~late[s][k]

\* A delivery that found no record goes on to the lock before its process moves
\* another one, and asks the store it looked at.
LocksNext ==
    \A r \in Requests : pc[r] = "locking" =>
        /\ store[proc[r]] = snap[r]
        /\ \A q \in Requests : pc[q] = "locking" /\ proc[q] = proc[r] => q = r

\* The memory of a process that still uses Redis is empty.
MemoryUnused ==
    \A p \in Procs : store[p] = Redis =>
        /\ \A k \in Keys : records[p][k] = None
        /\ \A r \in Requests : snap[r] # p

MemoryOnly ==
    Backend = "memory" => /\ \A p \in Procs : store[p] = p
                          /\ \A r \in Requests : snap[r] # Redis

\* From the look-up until its own answer is kept, a delivery's key has no record.
NotKept ==
    \A r \in Requests : pc[r] \in {"locking", "handling", "returned"} =>
        records[snap[r]][Key(r)] = None

SInv == NothingLate /\ LocksNext /\ MemoryUnused /\ MemoryOnly /\ NotKept

LEMMA OneLoop ==
    ASSUME IInv, Separate, MemoryOnly, NEW r \in Requests, NEW q \in Requests,
           pc[r] \in {"locking", "handling", "returned", "releasing"},
           pc[q] \in {"locking", "handling", "returned", "releasing"},
           snap[r] = snap[q]
    PROVE  proc[r] = proc[q]
BY ConstantsAssumption DEF IInv, Locals, Separate, MemoryOnly

LEMMA InitSeparate == Init => SInv
<1> SUFFICES ASSUME Init PROVE SInv
  OBVIOUS
<1>1. \A r \in Requests : pc[r] = "new" /\ snap[r] = None
  BY DEF Init
<1>2. LocksNext /\ NotKept
  BY <1>1 DEF LocksNext, NotKept
<1>3. NothingLate
  BY DEF Init, NothingLate
<1>4. MemoryUnused /\ MemoryOnly
  BY <1>1, ConstantsAssumption, StoreNames DEF Init, MemoryUnused, MemoryOnly, Initial
<1> QED BY <1>2, <1>3, <1>4 DEF SInv

\* A step that leaves the records and the stores alone, and in which no delivery
\* finds a record missing, is left alone itself.
LEMMA QuietFrame ==
    ASSUME SInv, UNCHANGED <<store, records, late>>,
           \A q \in Requests :
               \/ /\ pc'[q] = pc[q] /\ proc'[q] = proc[q] /\ snap'[q] = snap[q]
               \/ /\ pc'[q] \notin {"locking", "handling", "returned"}
                  /\ snap'[q] \in {None, snap[q]}
               \/ /\ pc[q] \in {"locking", "handling"} /\ pc'[q] \in {"handling", "returned"}
                  /\ snap'[q] = snap[q]
    PROVE  SInv'
<1>1. NothingLate' /\ MemoryOnly' /\ MemoryUnused'
  BY StoreNames, ConstantsAssumption DEF SInv, NothingLate, MemoryOnly, MemoryUnused
<1>2. LocksNext' /\ NotKept'
  BY DEF SInv, LocksNext, NotKept, Key
<1> QED BY <1>1, <1>2 DEF SInv

LEMMA ServeQuietly ==
    ASSUME IInv, SInv, NEW r \in Requests,
           Acquire(r) \/ AcquireTwice(r) \/ Release(r) \/ ReleaseFails(r) \/ EndStream(r)
           \/ \E o \in Outcomes : Handle(r, o)
    PROVE  SInv'
<1> USE DEF IInv, TypeOK
<1>1. CASE Acquire(r)
  BY <1>1, QuietFrame DEF Acquire, TryLock, Answer
<1>2. CASE AcquireTwice(r)
  BY <1>2, QuietFrame DEF AcquireTwice, Answer
<1>3. CASE Release(r) \/ ReleaseFails(r)
  BY <1>3, QuietFrame DEF Release, ReleaseFails, Leave
<1>4. CASE EndStream(r)
  BY <1>4, QuietFrame DEF EndStream
<1>5. ASSUME NEW o \in Outcomes, Handle(r, o) PROVE SInv'
  BY <1>5, QuietFrame DEF Handle
<1> QED BY <1>1, <1>2, <1>3, <1>4, <1>5

\* A delivery is looked up while no other of its process is about to lock.
LEMMA LookupSeparate ==
    ASSUME IInv, Separate, SInv, NEW r \in Requests, NEW p \in Procs,
           Lookup(r, p) \/ LookupFails(r, p)
    PROVE  SInv'
<1> DEFINE s == store'[p]
<1>1. /\ UNCHANGED <<records, late>> /\ LoopFree(p) /\ pc[r] = "new" /\ snap[r] = None
      /\ s \in {Redis, p} /\ p # Redis /\ p \in Stores
      /\ \A q \in Procs : q # p => store'[q] = store[q]
      /\ s = p => store[p] # Redis \/ LookupFails(r, p)
      /\ s = Redis => store = store'
  BY StoreNames, ConstantsAssumption
     DEF IInv, TypeOK, Locals, OwnStore, Lookup, LookupFails, Degrade
<1>2. Resolve(r, p, s)
  BY DEF IInv, TypeOK, Lookup, LookupFails, Degrade
<1>3. \A q \in Requests : q # r => pc'[q] = pc[q] /\ proc'[q] = proc[q] /\ snap'[q] = snap[q]
  BY <1>2 DEF IInv, TypeOK, Resolve, Answer
<1>4. \/ /\ records[s][Key(r)] = None
         /\ pc'[r] = "locking" /\ proc'[r] = p /\ snap'[r] = s
      \/ pc'[r] = "done" /\ snap'[r] = None
  BY <1>2 DEF IInv, TypeOK, Resolve, Answer
<1>5. \A q \in Requests : proc[q] = p => pc[q] # "locking"
  BY <1>1 DEF LoopFree
<1>6. \A q \in Requests : pc[q] = "locking" => proc[q] \in Procs /\ proc[q] # p
  BY <1>5 DEF IInv, Locals
<1>7. NothingLate'
  BY <1>1 DEF SInv, NothingLate
<1>8. LocksNext'
  BY <1>1, <1>3, <1>4, <1>6 DEF SInv, LocksNext
<1>9. MemoryUnused'
  <2> SUFFICES ASSUME NEW q \in Procs, store'[q] = Redis
               PROVE  /\ \A k \in Keys : records'[q][k] = None
                      /\ \A t \in Requests : snap'[t] # q
    BY DEF MemoryUnused
  <2>1. store[q] = Redis
    BY <1>1 DEF LookupFails
  <2>2. q # p => s # q
    BY <1>1, ConstantsAssumption
  <2>3. q = p => s # q
    BY <1>1
  <2>4. snap'[r] # q
    BY <1>4, <2>2, <2>3, StoreNames
  <2> QED BY <1>1, <1>3, <2>1, <2>4 DEF SInv, MemoryUnused
<1>10. MemoryOnly'
  <2> SUFFICES ASSUME Backend = "memory" PROVE MemoryOnly'
    BY DEF MemoryOnly
  <2>1. store[p] = p /\ \A q \in Requests : snap[q] # Redis
    BY DEF SInv, MemoryOnly
  <2>2. s = p
    BY <1>1, <2>1
  <2>3. snap'[r] # Redis
    BY <1>1, <1>4, <2>2, StoreNames
  <2> QED BY <1>1, <1>3, <2>1, <2>2, <2>3 DEF SInv, MemoryOnly
<1>11. NotKept'
  BY <1>1, <1>3, <1>4 DEF SInv, NotKept, Key
<1> QED BY <1>7, <1>8, <1>9, <1>10, <1>11 DEF SInv

\* The memory a delivery turns to when Redis fails holds no record: its process
\* used Redis up to now.
LEMMA AcquireFailsSeparate ==
    ASSUME IInv, Separate, SInv, NEW r \in Requests, AcquireFails(r)
    PROVE  SInv'
<1> DEFINE p == proc[r]
<1>1. /\ pc[r] = "locking" /\ snap[r] = Redis /\ p \in Procs /\ p # Redis /\ p \in Stores
      /\ UNCHANGED <<records, late>> /\ Key(r) \in Keys
  BY ServedBy, ConstantsAssumption DEF IInv, AcquireFails
<1>2. store[p] = Redis
  BY <1>1 DEF SInv, LocksNext
<1>3. /\ \A k \in Keys : records[p][k] = None
      /\ \A q \in Requests : snap[q] # p
  BY <1>1, <1>2 DEF SInv, MemoryUnused
<1>4. store'[p] = p /\ \A q \in Procs : q # p => store'[q] = store[q]
  BY <1>1 DEF IInv, TypeOK, AcquireFails, Degrade
<1>5. \A q \in Requests : q # r => pc'[q] = pc[q] /\ proc'[q] = proc[q] /\ snap'[q] = snap[q]
  BY DEF IInv, TypeOK, AcquireFails, Answer
<1>6. \/ pc'[r] = "handling" /\ snap'[r] = p
      \/ pc'[r] = "done" /\ snap'[r] = None
  BY DEF IInv, TypeOK, AcquireFails, Answer
<1>7. NothingLate'
  BY <1>1 DEF SInv, NothingLate
<1>8. LocksNext'
  <2>1. \A q \in Requests : q # r /\ pc[q] = "locking" => proc[q] \in Procs /\ proc[q] # p
    BY <1>1 DEF SInv, LocksNext, IInv, Locals
  <2> QED BY <1>4, <1>5, <1>6, <2>1 DEF SInv, LocksNext
<1>9. MemoryUnused'
  BY <1>1, <1>4, <1>5, <1>6, StoreNames DEF SInv, MemoryUnused
<1>10. MemoryOnly'
  BY <1>1 DEF SInv, MemoryOnly
<1>11. NotKept'
  BY <1>1, <1>3, <1>5, <1>6 DEF SInv, NotKept, Key
<1> QED BY <1>7, <1>8, <1>9, <1>10, <1>11 DEF SInv

\* Whoever keeps an answer is alone with the lock, and no other delivery of its
\* process is about to take one.
LEMMA KeepSeparate ==
    ASSUME IInv, Separate, SInv, NEW r \in Requests, Keep(r) \/ KeepFails(r)
    PROVE  SInv'
<1> DEFINE p == proc[r]
<1>1. /\ pc[r] = "returned" /\ LoopFree(p) /\ p \in Procs /\ p # Redis /\ p \in Stores
      /\ snap[r] \in {Redis, p} /\ snap[r] \in Stores
      /\ UNCHANGED <<late, snap, proc>> /\ Key(r) \in Keys
  BY ServedBy, ConstantsAssumption DEF IInv, Keep, KeepFails
<1>2. pc'[r] = "releasing" /\ \A q \in Requests : q # r => pc'[q] = pc[q]
  BY DEF IInv, TypeOK, Keep, KeepFails
<1>3. \/ store' = store
      \/ /\ snap[r] = Redis /\ store'[p] = p
         /\ \A q \in Procs : q # p => store'[q] = store[q]
  BY <1>1 DEF IInv, TypeOK, Keep, KeepFails, Degrade
<1>4. \A s \in Stores, k \in Keys :
         s # snap[r] \/ k # Key(r) => records'[s][k] = records[s][k]
  BY <1>1, EntryGet DEF IInv, TypeOK, Keep, KeepFails, SetRecord
<1>5. \A q \in Requests : pc[q] = "locking" => proc[q] \in Procs /\ proc[q] # p
  BY <1>1 DEF IInv, Locals, LoopFree
<1>6. \A q \in Requests :
         q # r /\ pc[q] \in {"locking", "handling", "returned"} =>
             snap[q] # snap[r] \/ Key(q) # Key(r)
  <2> SUFFICES ASSUME NEW q \in Requests, q # r, snap[q] = snap[r], Key(q) = Key(r),
                      pc[q] \in {"locking", "handling", "returned"}
               PROVE  FALSE
    OBVIOUS
  <2>1. pc[q] # "locking"
    BY <1>1, <1>5, OneLoop DEF SInv
  <2>2. Holding(q) /\ Holding(r)
    BY <1>1, <2>1 DEF Holding
  <2> QED BY <1>1, <2>2 DEF IInv, OverlapOnlyAfterOverrun, SInv, NothingLate
<1>7. NothingLate'
  BY <1>1 DEF SInv, NothingLate
<1>8. LocksNext'
  BY <1>1, <1>2, <1>3, <1>5 DEF SInv, LocksNext
<1>9. MemoryUnused'
  <2> SUFFICES ASSUME NEW q \in Procs, store'[q] = Redis
               PROVE  /\ \A k \in Keys : records'[q][k] = None
                      /\ \A t \in Requests : snap'[t] # q
    BY DEF MemoryUnused
  <2>1. store[q] = Redis
    BY <1>1, <1>3
  <2>2. snap[r] # q /\ q \in Stores
    BY <2>1, StoreNames DEF SInv, MemoryUnused
  <2> QED BY <1>1, <1>4, <2>1, <2>2 DEF SInv, MemoryUnused
<1>10. MemoryOnly'
  BY <1>1, <1>3 DEF SInv, MemoryOnly
<1>11. NotKept'
  <2> SUFFICES ASSUME NEW q \in Requests, pc'[q] \in {"locking", "handling", "returned"}
               PROVE  records'[snap'[q]][Key(q)] = None
    BY DEF NotKept, Key
  <2>1. q # r /\ pc[q] = pc'[q] /\ snap'[q] = snap[q]
    BY <1>1, <1>2
  <2>2. snap[q] \in Stores /\ Key(q) \in Keys
    BY <2>1, ServedBy DEF IInv
  <2> QED BY <1>4, <1>6, <2>1, <2>2 DEF SInv, NotKept
<1> QED BY <1>7, <1>8, <1>9, <1>10, <1>11 DEF SInv

\* A restart empties the memory of its process, and nothing else.
LEMMA CrashSeparate ==
    ASSUME IInv, SInv, NEW p \in Procs, Crash(p)
    PROVE  SInv'
<1>1. /\ p # Redis /\ p \in Stores /\ UNCHANGED late
      /\ \A q \in Procs : q # p => store'[q] = store[q]
      /\ store'[p] \in {p, Initial(p)} /\ (store'[p] = p \/ Backend = "redis")
  BY StoreNames, ConstantsAssumption DEF IInv, TypeOK, Crash, Degrade, Initial
<1>2. \A q \in Requests :
         \/ pc'[q] = "done" /\ snap'[q] = None
         \/ proc[q] # p /\ pc'[q] = pc[q] /\ proc'[q] = proc[q] /\ snap'[q] = snap[q]
  BY DEF IInv, TypeOK, Crash
<1>3. \A s \in Stores, k \in Keys : records'[s][k] = IF s = p THEN None ELSE records[s][k]
  BY <1>1 DEF IInv, TypeOK, Crash
<1>4. NothingLate'
  BY <1>1 DEF SInv, NothingLate
<1>5. LocksNext'
  <2> SUFFICES ASSUME NEW q \in Requests, pc'[q] = "locking"
               PROVE  /\ store'[proc'[q]] = snap'[q]
                      /\ \A t \in Requests : pc'[t] = "locking" /\ proc'[t] = proc'[q] => t = q
    BY DEF LocksNext
  <2>1. /\ pc[q] = "locking" /\ proc[q] # p /\ proc'[q] = proc[q] /\ snap'[q] = snap[q]
    BY <1>2
  <2>2. proc[q] \in Procs
    BY <2>1 DEF IInv, Locals
  <2>3. store'[proc'[q]] = snap'[q]
    BY <1>1, <2>1, <2>2 DEF SInv, LocksNext
  <2>4. \A t \in Requests : pc'[t] = "locking" => pc[t] = "locking" /\ proc'[t] = proc[t]
    BY <1>2
  <2> QED BY <2>1, <2>3, <2>4 DEF SInv, LocksNext
<1>6. MemoryUnused'
  <2> SUFFICES ASSUME NEW q \in Procs, store'[q] = Redis
               PROVE  /\ \A k \in Keys : records'[q][k] = None
                      /\ \A t \in Requests : snap'[t] # q
    BY DEF MemoryUnused
  <2>1. CASE q = p
    <3>1. \A t \in Requests : snap'[t] # p
      <4> SUFFICES ASSUME NEW t \in Requests, snap'[t] = p PROVE FALSE
        OBVIOUS
      <4>1. proc[t] # p /\ snap[t] = p /\ pc'[t] = pc[t]
        BY <1>1, <1>2, StoreNames
      <4>2. pc[t] \in PCs
        BY DEF IInv, TypeOK
      <4> QED BY <1>1, <4>1, <4>2, StoreNames DEF IInv, Locals, PCs
    <3> QED BY <1>1, <1>3, <2>1, <3>1
  <2>2. CASE q # p
    <3>1. store[q] = Redis /\ q \in Stores
      BY <1>1, <2>2, StoreNames
    <3> QED BY <1>2, <1>3, <3>1, StoreNames DEF SInv, MemoryUnused
  <2> QED BY <2>1, <2>2
<1>7. MemoryOnly'
  BY <1>1, <1>2, StoreNames DEF SInv, MemoryOnly
<1>8. NotKept'
  <2> SUFFICES ASSUME NEW q \in Requests, pc'[q] \in {"locking", "handling", "returned"}
               PROVE  records'[snap'[q]][Key(q)] = None
    BY DEF NotKept, Key
  <2>1. pc[q] = pc'[q] /\ snap'[q] = snap[q]
    BY <1>2
  <2>2. snap[q] \in Stores /\ Key(q) \in Keys
    BY <2>1, ServedBy DEF IInv
  <2> QED BY <1>3, <2>1, <2>2 DEF SInv, NotKept
<1> QED BY <1>4, <1>5, <1>6, <1>7, <1>8 DEF SInv

LEMMA TickSeparate ==
    ASSUME IInv, ~MayOverrun, SInv, Tick
    PROVE  SInv'
<1>1. \A r \in Requests : Holding(r) => left[r] > 1
  BY DEF Tick
<1>2. NothingLate'
  <2>1. \A r \in Requests : ~(Holding(r) /\ left[r] <= 1)
    <3>1. \A r \in Requests : left[r] \in Nat
      BY ConstantsAssumption DEF IInv, TypeOK
    <3>2. ASSUME NEW r \in Requests, left[r] > 1, left[r] <= 1 PROVE FALSE
      BY <3>1, <3>2
    <3> QED BY <1>1, <3>2
  <2>2. NothingLate
    BY DEF SInv
  <2>3. ASSUME NEW s \in Stores, NEW k \in Keys PROVE ~late'[s][k]
    <3>1. late'[s][k] = (late[s][k] \/ \E r \in Requests : /\ Holding(r) /\ left[r] <= 1
                                                         /\ snap[r] = s /\ Key(r) = k)
      BY Zenon DEF Tick
    <3> QED BY <2>1, <2>2, <3>1, Zenon DEF NothingLate
  <2> QED BY <2>3 DEF NothingLate
<1>3. /\ UNCHANGED <<store, pc, proc, snap>>
      /\ \A s \in Stores, k \in Keys : records[s][k] = None => records'[s][k] = None
  BY DEF Tick, Aged
<1>4. LocksNext' /\ MemoryOnly'
  BY <1>3 DEF SInv, LocksNext, MemoryOnly
<1>5. MemoryUnused'
  BY <1>3, StoreNames DEF SInv, MemoryUnused
<1>6. NotKept'
  <2>1. \A r \in Requests : pc[r] \in {"locking", "handling", "returned"} =>
           snap[r] \in Stores /\ Key(r) \in Keys
    BY ServedBy DEF IInv
  <2> QED BY <1>3, <2>1 DEF SInv, NotKept, Key
<1> QED BY <1>2, <1>4, <1>5, <1>6 DEF SInv

LEMMA NextSeparate ==
    ASSUME Separate, ~MayOverrun
    PROVE  IInv /\ SInv /\ [Next]_vars => SInv'
<1> SUFFICES ASSUME IInv, SInv, [Next]_vars PROVE SInv'
  OBVIOUS
<1>1. ASSUME NEW r \in Requests, Serve(r) PROVE SInv'
  BY <1>1, LookupSeparate, ServeQuietly, AcquireFailsSeparate, KeepSeparate DEF Serve
<1>2. CASE UNCHANGED vars
  BY <1>2, QuietFrame DEF vars
<1> QED BY <1>1, <1>2, CrashSeparate, TickSeparate DEF Next

\* Where each store is used by one process, and handlers return within
\* idempotency_lock_ttl_seconds, a duplicate is answered by replay and never runs
\* over the kept answer: through restarts, and through the calls of Redis that
\* fail, or seem to.
THEOREM DuplicatesReplay == Separate /\ ~MayOverrun => (Spec => []NoRunOverRecord)
<1> SUFFICES ASSUME Separate, ~MayOverrun PROVE Spec => []NoRunOverRecord
  OBVIOUS
<1>1. Init => IInv /\ SInv
  BY InitInv, InitSeparate
<1>2. IInv /\ SInv /\ [Next]_vars => (IInv /\ SInv)'
  BY NextInv, NextSeparate
<1>3. SInv => NoRunOverRecord
  BY DEF SInv, NotKept, NoRunOverRecord
<1> QED BY <1>1, <1>2, <1>3, PTL DEF Spec

-----------------------------------------------------------------------------
(* One process whose Redis answers implements OnceOnly.                    *)

OneProcess == \E p \in Procs : Procs = {p}

\* Nothing degrades, so there is one store.
Steady ==
    /\ faults = 0
    /\ \A p \in Procs : store[p] = TheStore
    /\ \A r \in Requests : snap[r] # None => snap[r] = TheStore

RInv == IInv /\ SInv /\ Steady

LEMMA TheStoreIs ==
    ASSUME OneProcess
    PROVE  TheStore \in Stores /\ \A p \in Procs : Procs = {p} /\ Initial(p) = TheStore
BY StoreNames DEF OneProcess, TheStore, Initial

LEMMA InitSteady == ASSUME OneProcess, Init PROVE Steady
BY TheStoreIs DEF Init, Steady

LEMMA NextSteady ==
    ASSUME OneProcess, MaxFaults = 0, IInv, Steady, [Next]_vars
    PROVE  Steady'
<1>1. faults = 0 /\ ~(faults < MaxFaults)
  BY DEF IInv, TypeOK
<1> DEFINE OneStore ==
        /\ UNCHANGED <<faults, store>>
        /\ \A q \in Requests : snap'[q] \in {None, snap[q], TheStore}
<1>2. ASSUME NEW r \in Requests, Serve(r) PROVE Steady'
  <2>1. ASSUME NEW p \in Procs, Lookup(r, p) PROVE OneStore
    BY <2>1 DEF IInv, TypeOK, Steady, Lookup, Resolve, Answer
  <2>2. CASE Acquire(r)
    BY <2>2 DEF IInv, TypeOK, Steady, Acquire, TryLock, Answer
  <2>3. ASSUME NEW o \in Outcomes, Handle(r, o) PROVE OneStore
    BY <2>3 DEF Handle
  <2>4. CASE Keep(r) \/ EndStream(r)
    <3>1. OneStore
      BY <2>4 DEF Keep, EndStream
    <3> QED BY <3>1 DEF Steady
  <2>5. ASSUME Release(r) PROVE OneStore
    BY <2>5 DEF IInv, TypeOK, Release, Leave
  <2>6. /\ \A p \in Procs : ~LookupFails(r, p)
        /\ ~AcquireFails(r) /\ ~AcquireTwice(r) /\ ~KeepFails(r) /\ ~ReleaseFails(r)
    BY <1>1 DEF LookupFails, AcquireFails, AcquireTwice, KeepFails, ReleaseFails, Degrade
  <2>7. OneStore => Steady'
    BY DEF Steady
  <2> HIDE DEF OneStore
  <2> QED BY <1>2, <2>1, <2>2, <2>3, <2>4, <2>5, <2>6, <2>7 DEF Serve
<1>3. ASSUME NEW p \in Procs, Crash(p) PROVE Steady'
  <2>1. store' = [store EXCEPT ![p] = Initial(p)] /\ UNCHANGED faults
    BY <1>1, <1>3 DEF Crash, Degrade
  <2>2. \A q \in Requests : snap'[q] \in {None, snap[q]}
    BY <1>3 DEF IInv, TypeOK, Crash
  <2> QED BY <2>1, <2>2, TheStoreIs DEF IInv, TypeOK, Steady
<1>4. CASE Tick \/ UNCHANGED vars
  BY <1>4 DEF Steady, Tick, vars
<1> QED BY <1>2, <1>3, <1>4 DEF Next

\* The handler of a key, seen as OnceOnly sees it.
RunningTells ==
    \A k \in Keys :
        /\ \A r \in Requests : Holding(r) /\ Key(r) = k => Running(k) = r
        /\ (\A r \in Requests : ~(Holding(r) /\ Key(r) = k)) => Running(k) = None

LEMMA RunningIs == RInv => RunningTells
<1> SUFFICES ASSUME RInv, NEW k \in Keys, NEW r \in Requests, Holding(r), Key(r) = k
             PROVE  Running(k) = r
  BY DEF RunningTells, Running
<1>1. \A q \in Requests : Holding(q) => snap[q] = TheStore /\ snap[q] \in Stores
  BY StoreNames, ServedBy DEF RInv, Steady, IInv, Holding
<1>2. \A q \in Requests : Holding(q) /\ Key(q) = k => q = r
  BY <1>1 DEF RInv, IInv, OverlapOnlyAfterOverrun, SInv, NothingLate
<1> QED BY <1>2 DEF Running

LEMMA SameRunning ==
    ASSUME RInv, RInv', NEW k \in Keys,
           \A q \in Requests : Key(q) = k => (Holding(q)' <=> Holding(q))
    PROVE  Running(k)' = Running(k)
<1>1. RunningTells /\ RunningTells'
  BY RunningIs, PTL
<1>2. \A q \in Requests : Key(q)' = Key(q)
  BY DEF Key
<1> QED BY <1>1, <1>2 DEF RunningTells

\* A step that neither enters nor leaves a handler nor changes what is kept.
LEMMA Stutters ==
    ASSUME RInv, RInv', \A q \in Requests : Holding(q)' <=> Holding(q),
           records' = records
    PROVE  UNCHANGED Promise!ovars
<1>1. \A k \in Keys : Running(k)' = Running(k)
  BY SameRunning
<1>2. \A k \in Keys : Kept(k)' = Kept(k)
  BY DEF Kept
<1> QED BY <1>1, <1>2 DEF Promise!ovars

Promised == [Promise!Next]_Promise!ovars

\* What a delivery past its look-up has found, in the one store there is.
LEMMA Found ==
    ASSUME OneProcess, RInv, NEW r \in Requests,
           pc[r] \in {"locking", "handling", "returned", "releasing"}
    PROVE  snap[r] = TheStore /\ Key(r) \in Keys /\ Key(r) = KeyOf[r]
BY ServedBy, StoreNames DEF RInv, Steady, IInv, Key

LEMMA AcquireEnters ==
    ASSUME OneProcess, RInv, RInv', NEW r \in Requests, Acquire(r)
    PROVE  Promised
<1>1. pc[r] = "locking" /\ UNCHANGED records
  BY DEF Acquire
<1>2. snap[r] = TheStore /\ Key(r) \in Keys /\ Key(r) = KeyOf[r] /\ TheStore \in Stores
  BY <1>1, Found, TheStoreIs
<1>3. CASE locks[snap[r]][Key(r)] > 0
  <2>1. \A q \in Requests : Holding(q)' <=> Holding(q)
    BY <1>1, <1>3 DEF RInv, IInv, TypeOK, Acquire, TryLock, Answer, Holding
  <2> QED BY <1>1, <2>1, Stutters DEF Promised
<1>4. CASE locks[snap[r]][Key(r)] = 0
  <2>1. /\ Holding(r)' /\ ~Holding(r)
        /\ \A q \in Requests : q # r => (Holding(q)' <=> Holding(q))
    BY <1>1, <1>4 DEF RInv, IInv, TypeOK, Acquire, TryLock, Holding
  <2>2. ASSUME NEW q \in Requests, Holding(q), Key(q) = Key(r) PROVE FALSE
    <3>1. snap[q] = TheStore
      BY <2>2, Found DEF Holding
    <3>2. ~late[snap[q]][Key(q)]
      BY <1>2, <2>2, <3>1 DEF RInv, SInv, NothingLate
    <3>3. left[q] > 0 /\ locks[snap[q]][Key(q)] = left[q]
      BY <2>2, <3>2 DEF RInv, IInv, Owns
    <3> QED BY <1>2, <1>4, <2>2, <3>1, <3>3
  <2>3. Running(Key(r)) = None /\ Kept(Key(r)) = None
    BY <1>1, <1>2, <2>2, RunningIs DEF RunningTells, Kept, RInv, SInv, NotKept
  <2>4. Running(Key(r))' = r
    <3>1. RunningTells'
      BY RunningIs, PTL
    <3>2. Key(r)' = Key(r)
      BY DEF Key
    <3> QED BY <1>2, <2>1, <3>1, <3>2 DEF RunningTells
  <2>5. \A k \in Keys : k # Key(r) => Running(k)' = Running(k)
    BY <2>1, SameRunning
  <2>6. \A k \in Keys : Kept(k)' = Kept(k)
    BY <1>1 DEF Kept
  <2>7. Promise!Enter(r)
    BY <1>2, <2>3, <2>4, <2>5, <2>6 DEF Promise!Enter
  <2> QED BY <2>7 DEF Promised, Promise!Next
<1> QED BY <1>3, <1>4 DEF Acquire, TryLock

LEMMA KeepKeeps ==
    ASSUME OneProcess, RInv, RInv', NEW r \in Requests, Keep(r)
    PROVE  Promised
<1>1. \A q \in Requests : Holding(q)' <=> Holding(q)
  BY DEF RInv, IInv, TypeOK, Keep, Holding
<1>2. CASE ~Cacheable(outcome[r])
  BY <1>1, <1>2, Stutters DEF Promised, Keep
<1>3. CASE Cacheable(outcome[r])
  <2>1. /\ snap[r] = TheStore /\ Key(r) \in Keys /\ Key(r) = KeyOf[r] /\ TheStore \in Stores
        /\ Holding(r)
    BY Found, TheStoreIs DEF Keep, Holding
  <2>2. RecordOf(r).by = r /\ RecordOf(r) # None
    BY ConstantsAssumption, NoneAssumption DEF RecordOf, Records
  <2>3. \A k \in Keys : records'[TheStore][k] =
           IF k = Key(r) THEN RecordOf(r) ELSE records[TheStore][k]
    BY <1>3, <2>1, EntryGet DEF RInv, IInv, TypeOK, Keep, SetRecord
  <2>4. Running(Key(r)) = r
    BY <2>1, RunningIs DEF RunningTells
  <2>5. \A k \in Keys : Running(k)' = Running(k)
    BY <1>1, SameRunning
  <2>6. \A k \in Keys : Kept(k)' = IF k = Key(r) THEN r ELSE Kept(k)
    BY <2>2, <2>3 DEF Kept
  <2>7. Promise!Keep(r)
    BY <2>1, <2>4, <2>5, <2>6 DEF Promise!Keep
  <2> QED BY <2>7 DEF Promised, Promise!Next
<1> QED BY <1>2, <1>3

LEMMA ReleaseExits ==
    ASSUME OneProcess, RInv, RInv', NEW r \in Requests, Release(r)
    PROVE  Promised
<1>1. Key(r) \in Keys /\ Key(r) = KeyOf[r] /\ Holding(r) /\ UNCHANGED records
  BY Found DEF Release, Holding
<1>2. /\ ~Holding(r)' /\ \A q \in Requests : q # r => (Holding(q)' <=> Holding(q))
  BY DEF RInv, IInv, TypeOK, Release, Leave, Holding
<1>3. RunningTells /\ RunningTells' /\ \A q \in Requests : Key(q)' = Key(q)
  <2>1. RunningTells /\ RunningTells'
    BY RunningIs, PTL
  <2> QED BY <2>1 DEF Key
<1>4. Running(Key(r)) = r /\ \A q \in Requests : Holding(q) /\ Key(q) = Key(r) => q = r
  BY <1>1, <1>3 DEF RunningTells
<1>5. Running(Key(r))' = None
  BY <1>1, <1>2, <1>3, <1>4 DEF RunningTells
<1>6. \A k \in Keys : k # Key(r) => Running(k)' = Running(k)
  BY <1>2, SameRunning
<1>7. \A k \in Keys : Kept(k)' = Kept(k)
  BY <1>1 DEF Kept
<1>8. Promise!Exit(r)
  BY <1>1, <1>4, <1>5, <1>6, <1>7 DEF Promise!Exit
<1> QED BY <1>8 DEF Promised, Promise!Next

LEMMA CrashRestarts ==
    ASSUME OneProcess, RInv, RInv', NEW p \in Procs, Crash(p)
    PROVE  Promised
<1>1. Procs = {p} /\ TheStore \in Stores
  BY TheStoreIs
<1>2. \A q \in Requests : ~Holding(q)'
  BY <1>1 DEF RInv, IInv, TypeOK, Locals, Crash, Holding
<1>3. \A k \in Keys : Running(k)' = None
  <2>1. RunningTells'
    BY RunningIs, PTL
  <2> QED BY <1>2, <2>1 DEF RunningTells
<1> DEFINE lost == IF TheStore = p THEN Keys ELSE {}
<1>4. \A k \in Keys : Kept(k)' = IF k \in lost THEN None ELSE Kept(k)
  <2>1. \A k \in Keys : records'[TheStore][k] =
           IF TheStore = p THEN None ELSE records[TheStore][k]
    BY <1>1 DEF RInv, IInv, TypeOK, Crash
  <2> QED BY <2>1 DEF Kept
<1>5. lost \in SUBSET Keys
  OBVIOUS
<1>6. Promise!Restart(lost)
  BY <1>3, <1>4 DEF Promise!Restart
<1> QED BY <1>5, <1>6 DEF Promised, Promise!Next

LEMMA TickForgets ==
    ASSUME OneProcess, RInv, RInv', Tick
    PROVE  Promised
<1> DEFINE old == {k \in Keys : Aged(records[TheStore][k]) = None}
<1>1. TheStore \in Stores /\ UNCHANGED pc
  BY TheStoreIs DEF Tick
<1>2. \A k \in Keys : Running(k)' = Running(k)
  BY <1>1, SameRunning DEF Holding
<1>3. ASSUME NEW k \in Keys PROVE Kept(k)' = IF k \in old THEN None ELSE Kept(k)
  <2>1. records'[TheStore][k] = Aged(records[TheStore][k])
    BY <1>1 DEF Tick
  <2>2. records[TheStore][k] = None => Aged(records[TheStore][k]) = None
    BY DEF Aged
  <2>3. Aged(records[TheStore][k]) # None =>
           Aged(records[TheStore][k]).by = records[TheStore][k].by
    <3>1. records[TheStore][k] \in Records \cup {None}
      BY <1>1 DEF RInv, IInv, TypeOK
    <3> QED BY <3>1 DEF Aged, Records
  <2> QED BY <2>1, <2>2, <2>3 DEF Kept
<1>4. old \in SUBSET Keys
  OBVIOUS
<1>5. Promise!Forget(old)
  BY <1>2, <1>3 DEF Promise!Forget
<1> QED BY <1>4, <1>5 DEF Promised, Promise!Next

LEMMA NextPromised ==
    ASSUME OneProcess, MaxFaults = 0, RInv, RInv', [Next]_vars
    PROVE  Promised
<1>1. faults = 0 /\ ~(faults < MaxFaults)
  BY DEF RInv, Steady
<1>2. ASSUME NEW r \in Requests, Serve(r) PROVE Promised
  <2>1. ASSUME NEW p \in Procs, Lookup(r, p) PROVE Promised
    <3>1. \A q \in Requests : Holding(q)' <=> Holding(q)
      BY <2>1 DEF RInv, IInv, TypeOK, Lookup, Resolve, Answer, Holding
    <3> QED BY <2>1, <3>1, Stutters DEF Promised, Lookup
  <2>2. ASSUME NEW o \in Outcomes, Handle(r, o) PROVE Promised
    <3>1. \A q \in Requests : Holding(q)' <=> Holding(q)
      BY <2>2 DEF RInv, IInv, TypeOK, Handle, Holding
    <3> QED BY <2>2, <3>1, Stutters DEF Promised, Handle
  <2>3. CASE EndStream(r)
    <3>1. \A q \in Requests : Holding(q)' <=> Holding(q)
      BY <2>3 DEF RInv, IInv, TypeOK, EndStream, Holding
    <3> QED BY <2>3, <3>1, Stutters DEF Promised, EndStream
  <2>4. /\ \A p \in Procs : ~LookupFails(r, p)
        /\ ~AcquireFails(r) /\ ~AcquireTwice(r) /\ ~KeepFails(r) /\ ~ReleaseFails(r)
    BY <1>1 DEF LookupFails, AcquireFails, AcquireTwice, KeepFails, ReleaseFails, Degrade
  <2> QED BY <1>2, <2>1, <2>2, <2>3, <2>4, AcquireEnters, KeepKeeps, ReleaseExits DEF Serve
<1>3. CASE UNCHANGED vars
  BY <1>3, Stutters DEF Promised, vars, Holding
<1> QED BY <1>2, <1>3, CrashRestarts, TickForgets DEF Next

LEMMA InitPromised ==
    ASSUME OneProcess, Init
    PROVE  Promise!Init
<1>1. \A r \in Requests : ~Holding(r)
  BY DEF Init, Holding
<1>2. \A k \in Keys : Running(k) = None
  BY <1>1 DEF Running
<1>3. \A k \in Keys : Kept(k) = None
  BY TheStoreIs DEF Init, Kept
<1> QED BY <1>2, <1>3 DEF Promise!Init

\* One process, with handlers within idempotency_lock_ttl_seconds and a Redis that
\* answers, implements what an Idempotency-Key promises: every step of dispatch
\* is a step of OnceOnly or changes nothing there, restarts included.
THEOREM ImplementsOnceOnly ==
    OneProcess /\ MaxFaults = 0 /\ ~MayOverrun => (Spec => KeepsPromise)
<1> SUFFICES ASSUME OneProcess, MaxFaults = 0, ~MayOverrun PROVE Spec => KeepsPromise
  OBVIOUS
<1>1. Separate
  BY DEF OneProcess, Separate
<1>2. Init => RInv /\ Promise!Init
  BY InitInv, InitSeparate, InitSteady, InitPromised DEF RInv
<1>3. RInv /\ [Next]_vars => RInv'
  BY <1>1, NextInv, NextSeparate, NextSteady DEF RInv
<1>4. RInv /\ RInv' /\ [Next]_vars => [Promise!Next]_Promise!ovars
  BY NextPromised DEF Promised
<1> QED BY <1>2, <1>3, <1>4, PTL DEF Spec, KeepsPromise, Promise!Spec
=============================================================================
