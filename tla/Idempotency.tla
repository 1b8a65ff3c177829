----------------------------- MODULE Idempotency -----------------------------
(***************************************************************************)
(* The Idempotency-Key middleware of the API server                        *)
(* (src/backend/app/idempotency.py).  Every request of this model carries  *)
(* the header; requests without it go straight to their handler and touch  *)
(* none of this state.                                                     *)
(*                                                                         *)
(* Server processes share one Redis; each also owns an in-memory store,    *)
(* used when it is configured so or after it degraded.  The calls to a     *)
(* store are synchronous and run on the event loop, so a process moves     *)
(* only one of its requests between two awaits (LoopFree); other processes *)
(* interleave at every call.  Time is the time left to each entry, which   *)
(* Tick counts down.                                                       *)
(***************************************************************************)
EXTENDS Naturals

CONSTANTS
    Requests,       \* deliveries of a write request; a client's retry is one more
    Keys,           \* scope_key ":" idem_key
    Prints,         \* request fingerprints
    KeyOf,          \* the key a delivery carries
    PrintOf,        \* the fingerprint of a delivery
    Procs,          \* server processes; p also names the memory store of p
    Redis,          \* the shared store
    Backend,        \* settings.idempotency_backend: "redis" or "memory"
    LockTTL,        \* settings.idempotency_lock_ttl_seconds
    RecordTTL,      \* settings.idempotency_ttl_seconds
    MayOverrun,     \* may a handler run for longer than LockTTL?
    MaxFaults,      \* bound: Redis calls that fail
    MaxCrashes,     \* bound: processes that die and restart
    None            \* no record, no process, no store

Stores == Procs \cup {Redis}

Outcomes == {"cacheable",   \* 2xx, small enough to keep
             "uncached",    \* 2xx, body over idempotency_max_cached_response_bytes
             "stream",      \* text/event-stream: the body follows the reply
             "failed"}      \* any other status, or an exception

Replies == {"none", "ok", "replayed", "reused", "in_progress", "lost"}

PCs == {"new", "locking", "handling", "returned", "releasing", "streaming", "done"}

ASSUME ConstantsAssumption ==
    /\ KeyOf \in [Requests -> Keys]
    /\ PrintOf \in [Requests -> Prints]
    /\ Redis \notin Procs
    /\ Backend \in {"redis", "memory"}
    /\ LockTTL \in Nat \ {0} /\ RecordTTL \in Nat \ {0}
    /\ MayOverrun \in BOOLEAN
    /\ MaxFaults \in Nat /\ MaxCrashes \in Nat
    /\ None \notin Stores

Records == [by : Requests, fingerprint : Prints, left : 1..RecordTTL]

ASSUME NoneAssumption == None \notin Records

VARIABLES
    store,      \* p's global _store
    records,    \* the records of each store
    locks,      \* seconds left to the lock of each key, 0 when it is free
    pc,         \* where in dispatch each delivery is
    proc,       \* the process that serves it
    snap,       \* its local variable store
    outcome,    \* what its handler answered
    reply,      \* what the client was told
    faults, crashes,
    \* history, read by no guard of the code:
    ran,        \* deliveries whose handler took effect
    left,       \* seconds a delivery still owns its lock for
    late        \* keys of a store for which some handler outlived its lock

vars == <<store, records, locks, pc, proc, snap, outcome, reply, faults, crashes,
          ran, left, late>>

Key(r) == KeyOf[r]

\* In the handler or between it and the release of the lock.
Holding(r) == pc[r] \in {"handling", "returned", "releasing"}

\* Mutant: the look-up and the lock are separated by an await.
AlwaysFree(p) == TRUE

\* No delivery of p is between two store calls with no await in between.
LoopFree(p) == \A r \in Requests : proc[r] = p => pc[r] \notin {"locking", "releasing"}

Initial(p) == IF Backend = "redis" THEN Redis ELSE p

TypeOK ==
    /\ store \in [Procs -> Stores]
    /\ records \in [Stores -> [Keys -> Records \cup {None}]]
    /\ locks \in [Stores -> [Keys -> 0..LockTTL]]
    /\ pc \in [Requests -> PCs]
    /\ proc \in [Requests -> Procs \cup {None}]
    /\ snap \in [Requests -> Stores \cup {None}]
    /\ outcome \in [Requests -> Outcomes \cup {None}]
    /\ reply \in [Requests -> Replies]
    /\ faults \in 0..MaxFaults /\ crashes \in 0..MaxCrashes
    /\ ran \subseteq Requests
    /\ left \in [Requests -> 0..LockTTL]
    /\ late \in [Stores -> [Keys -> BOOLEAN]]

Init ==
    /\ store = [p \in Procs |-> Initial(p)]
    /\ records = [s \in Stores |-> [k \in Keys |-> None]]
    /\ locks = [s \in Stores |-> [k \in Keys |-> 0]]
    /\ pc = [r \in Requests |-> "new"]
    /\ proc = [r \in Requests |-> None]
    /\ snap = [r \in Requests |-> None]
    /\ outcome = [r \in Requests |-> None]
    /\ reply = [r \in Requests |-> "none"]
    /\ faults = 0 /\ crashes = 0
    /\ ran = {}
    /\ left = [r \in Requests |-> 0]
    /\ late = [s \in Stores |-> [k \in Keys |-> FALSE]]

-----------------------------------------------------------------------------

\* A delivery that is answered takes its local variables with it.
Answer(r, what) ==
    /\ pc' = [pc EXCEPT ![r] = "done"]
    /\ reply' = [reply EXCEPT ![r] = what]
    /\ proc' = [proc EXCEPT ![r] = None]
    /\ snap' = [snap EXCEPT ![r] = None]

\* _degrade_store_to_memory: p keeps to its own store until it restarts.
Degrade(p) ==
    /\ faults < MaxFaults
    /\ faults' = faults + 1
    /\ store' = [store EXCEPT ![p] = p]

\* What the record found, or not found, in s means for r, served by p.
Resolve(r, p, s) ==
    LET record == records[s][Key(r)] IN
    \/ /\ record = None
       /\ pc' = [pc EXCEPT ![r] = "locking"]
       /\ proc' = [proc EXCEPT ![r] = p]
       /\ snap' = [snap EXCEPT ![r] = s]
       /\ UNCHANGED reply
    \/ /\ record # None
       /\ record.fingerprint # PrintOf[r]
       /\ Answer(r, "reused")
    \/ /\ record # None
       /\ record.fingerprint = PrintOf[r]
       /\ Answer(r, "replayed")

\* The delivery arrives at p, which reads the record of its key.
Lookup(r, p) ==
    /\ pc[r] = "new" /\ LoopFree(p)
    /\ Resolve(r, p, store[p])
    /\ UNCHANGED <<store, records, locks, outcome, faults, crashes, ran, left, late>>

LookupFails(r, p) ==
    /\ pc[r] = "new" /\ LoopFree(p)
    /\ store[p] = Redis
    /\ Degrade(p)
    /\ Resolve(r, p, p)
    /\ UNCHANGED <<records, locks, outcome, crashes, ran, left, late>>

SetLock(s, k) == locks' = [locks EXCEPT ![s][k] = LockTTL]

\* Mutant: SET without NX.
TakeLock(r, s) ==
    /\ SetLock(s, Key(r))
    /\ pc' = [pc EXCEPT ![r] = "handling"]
    /\ left' = [left EXCEPT ![r] = LockTTL]
    /\ snap' = [snap EXCEPT ![r] = s]
    /\ UNCHANGED <<reply, proc>>

\* acquire_lock on s: set if absent, with a time to live.
TryLock(r, s) ==
    \/ /\ locks[s][Key(r)] = 0
       /\ SetLock(s, Key(r))
       /\ pc' = [pc EXCEPT ![r] = "handling"]
       /\ left' = [left EXCEPT ![r] = LockTTL]
       /\ snap' = [snap EXCEPT ![r] = s]
       /\ UNCHANGED <<reply, proc>>
    \/ /\ locks[s][Key(r)] > 0
       /\ Answer(r, "in_progress")
       /\ UNCHANGED <<locks, left>>

Acquire(r) ==
    /\ pc[r] = "locking"
    /\ TryLock(r, snap[r])
    /\ UNCHANGED <<store, records, outcome, faults, crashes, ran, late>>

\* What a set if absent leaves as the lock of k in s.
LockedIn(s, k) == IF locks[s][k] = 0 THEN LockTTL ELSE locks[s][k]

\* The call raised; Redis may have taken the lock all the same.  The memory
\* store is asked instead, without a new look at its records.
AcquireFails(r) ==
    LET p == proc[r]
        k == Key(r)
        free == locks[p][k] = 0
    IN
    /\ pc[r] = "locking" /\ snap[r] = Redis
    /\ Degrade(p)
    /\ \E inRedis \in {locks[Redis][k], LockedIn(Redis, k)} :
          locks' = [locks EXCEPT ![Redis][k] = inRedis, ![p][k] = LockedIn(p, k)]
    /\ \/ /\ free
          /\ pc' = [pc EXCEPT ![r] = "handling"]
          /\ left' = [left EXCEPT ![r] = LockTTL]
          /\ snap' = [snap EXCEPT ![r] = p]
          /\ UNCHANGED <<reply, proc>>
       \/ ~free /\ Answer(r, "in_progress") /\ UNCHANGED left
    /\ UNCHANGED <<records, outcome, crashes, ran, late>>

\* retry_on_timeout: the first attempt took the lock, its answer timed out and
\* the second attempt found the key taken.
AcquireTwice(r) ==
    /\ pc[r] = "locking" /\ snap[r] = Redis
    /\ locks[Redis][Key(r)] = 0
    /\ faults < MaxFaults /\ faults' = faults + 1
    /\ SetLock(Redis, Key(r))
    /\ Answer(r, "in_progress")
    /\ UNCHANGED <<store, records, outcome, crashes, ran, left, late>>

\* Mutant: the lock is released as soon as the handler returns.
HandleAndUnlock(r, o) ==
    /\ pc[r] = "handling"
    /\ pc' = [pc EXCEPT ![r] = "returned"]
    /\ outcome' = [outcome EXCEPT ![r] = o]
    /\ ran' = IF o = "failed" THEN ran ELSE ran \cup {r}
    /\ locks' = [locks EXCEPT ![snap[r]][Key(r)] = 0]
    /\ UNCHANGED <<store, records, proc, snap, reply, faults, crashes, left, late>>

\* call_next returned (or raised), the body of a plain response is buffered.
Handle(r, o) ==
    /\ pc[r] = "handling"
    /\ pc' = [pc EXCEPT ![r] = "returned"]
    /\ outcome' = [outcome EXCEPT ![r] = o]
    /\ ran' = IF o = "failed" THEN ran ELSE ran \cup {r}
    /\ UNCHANGED <<store, records, locks, proc, snap, reply, faults, crashes, left, late>>

\* Mutant: the status code is not looked at.
KeepsAnyStatus(o) == o # "stream"

Cacheable(o) == o = "cacheable"

RecordOf(r) == [by |-> r, fingerprint |-> PrintOf[r], left |-> RecordTTL]

SetRecord(r) == records' = [records EXCEPT ![snap[r]][Key(r)] = RecordOf(r)]

\* A successful small response is kept, in the store of the look-up.
Keep(r) ==
    /\ pc[r] = "returned" /\ LoopFree(proc[r])
    /\ pc' = [pc EXCEPT ![r] = "releasing"]
    /\ IF Cacheable(outcome[r]) THEN SetRecord(r) ELSE UNCHANGED records
    /\ UNCHANGED <<store, locks, proc, snap, outcome, reply, faults, crashes, ran, left, late>>

\* The call raised, before or after Redis applied it; the response goes out.
KeepFails(r) ==
    /\ pc[r] = "returned" /\ LoopFree(proc[r])
    /\ Cacheable(outcome[r]) /\ snap[r] = Redis
    /\ Degrade(proc[r])
    /\ pc' = [pc EXCEPT ![r] = "releasing"]
    /\ SetRecord(r) \/ UNCHANGED records
    /\ UNCHANGED <<locks, proc, snap, outcome, reply, crashes, ran, left, late>>

Unlock(s, k) == locks' = [locks EXCEPT ![s][k] = 0]

\* The response goes out; the body of a stream is still to follow.
Leave(r) ==
    LET open == outcome[r] = "stream" IN
    /\ pc' = [pc EXCEPT ![r] = IF open THEN "streaming" ELSE "done"]
    /\ proc' = [proc EXCEPT ![r] = IF open THEN @ ELSE None]
    /\ reply' = [reply EXCEPT ![r] = "ok"]
    /\ snap' = [snap EXCEPT ![r] = None]
    /\ outcome' = [outcome EXCEPT ![r] = None]
    /\ left' = [left EXCEPT ![r] = 0]

\* finally: the lock is deleted, whoever took it.
Release(r) ==
    /\ pc[r] = "releasing"
    /\ Leave(r)
    /\ Unlock(snap[r], Key(r))
    /\ UNCHANGED <<store, records, faults, crashes, ran, late>>

\* The error of release_lock is logged and swallowed.
ReleaseFails(r) ==
    /\ pc[r] = "releasing" /\ snap[r] = Redis
    /\ faults < MaxFaults /\ faults' = faults + 1
    /\ Leave(r)
    /\ UNCHANGED <<store, records, locks, crashes, ran, late>>

EndStream(r) ==
    /\ pc[r] = "streaming"
    /\ pc' = [pc EXCEPT ![r] = "done"]
    /\ proc' = [proc EXCEPT ![r] = None]
    /\ UNCHANGED <<store, records, locks, snap, outcome, reply, faults, crashes,
                   ran, left, late>>

-----------------------------------------------------------------------------

\* A process dies, its requests with it, and starts again; _build_store falls
\* back to memory when its ping of Redis fails.
Crash(p) ==
    LET dead == {r \in Requests : proc[r] = p} IN
    /\ crashes < MaxCrashes
    /\ crashes' = crashes + 1
    /\ \/ store' = [store EXCEPT ![p] = Initial(p)] /\ UNCHANGED faults
       \/ Backend = "redis" /\ Degrade(p)
    /\ records' = [records EXCEPT ![p] = [k \in Keys |-> None]]
    /\ locks' = [locks EXCEPT ![p] = [k \in Keys |-> 0]]
    /\ pc' = [r \in Requests |-> IF r \in dead THEN "done" ELSE pc[r]]
    /\ reply' = [r \in Requests |-> IF r \in dead THEN "lost" ELSE reply[r]]
    /\ left' = [r \in Requests |-> IF r \in dead THEN 0 ELSE left[r]]
    /\ proc' = [r \in Requests |-> IF r \in dead THEN None ELSE proc[r]]
    /\ snap' = [r \in Requests |-> IF r \in dead THEN None ELSE snap[r]]
    /\ outcome' = [r \in Requests |-> IF r \in dead THEN None ELSE outcome[r]]
    /\ UNCHANGED <<ran, late>>

Minus(n) == IF n > 0 THEN n - 1 ELSE 0

\* Mutant: an entry lives for one second more than its time to live.
AgedLate(record) ==
    IF record = None \/ record.left = 0 THEN None
    ELSE [record EXCEPT !.left = record.left - 1]

Aged(record) ==
    IF record = None \/ record.left = 1 THEN None
    ELSE [record EXCEPT !.left = record.left - 1]

\* Mutant: locks are set without a time to live.
KeepLocks == UNCHANGED locks

ExpireLocks == locks' = [s \in Stores |-> [k \in Keys |-> Minus(locks[s][k])]]

\* One second: what has no time left expires.  Redis drops it by itself, the
\* memory store in the _cleanup every one of its calls begins with.
Tick ==
    /\ MayOverrun \/ \A r \in Requests : Holding(r) => left[r] > 1
    /\ records' = [s \in Stores |-> [k \in Keys |-> Aged(records[s][k])]]
    /\ ExpireLocks
    /\ left' = [r \in Requests |-> Minus(left[r])]
    /\ late' = [s \in Stores |-> [k \in Keys |->
                  late[s][k] \/ \E r \in Requests :
                                   /\ Holding(r) /\ left[r] <= 1
                                   /\ snap[r] = s /\ Key(r) = k]]
    /\ UNCHANGED <<store, pc, proc, snap, outcome, reply, faults, crashes, ran>>

Serve(r) ==
    \/ \E p \in Procs : Lookup(r, p) \/ LookupFails(r, p)
    \/ Acquire(r) \/ AcquireFails(r) \/ AcquireTwice(r)
    \/ \E o \in Outcomes : Handle(r, o)
    \/ Keep(r) \/ KeepFails(r)
    \/ Release(r) \/ ReleaseFails(r)
    \/ EndStream(r)

Next ==
    \/ \E r \in Requests : Serve(r)
    \/ \E p \in Procs : Crash(p)
    \/ Tick

Spec == Init /\ [][Next]_vars

\* Handlers return, the event loop runs what is ready, time passes.
FairSpec ==
    /\ Spec
    /\ \A r \in Requests : WF_vars(Serve(r))
    /\ WF_vars(Tick)

-----------------------------------------------------------------------------

\* Two deliveries of one key are inside the handler on one store only after
\* some handler of that key outlived its lock: with handlers shorter than
\* idempotency_lock_ttl_seconds the lock is a mutual exclusion, through crashes,
\* lost answers and the degradation of other processes.
OverlapOnlyAfterOverrun ==
    \A r1, r2 \in Requests :
        /\ r1 # r2 /\ Holding(r1) /\ Holding(r2)
        /\ snap[r1] = snap[r2] /\ Key(r1) = Key(r2)
        => late[snap[r1]][Key(r1)]

\* A kept answer comes from a handler that took effect, for this key, and names
\* the fingerprint of the delivery it answered: what is replayed has happened.
RecordsHappened ==
    \A s \in Stores, k \in Keys :
        LET record == records[s][k] IN
        record # None =>
            /\ record.by \in ran
            /\ Key(record.by) = k
            /\ PrintOf[record.by] = record.fingerprint

\* No handler runs while its store already holds the answer of another one: a
\* duplicate is answered by replay, never by a second execution.
NoRunOverRecord ==
    \A r \in Requests : pc[r] = "handling" => records[snap[r]][Key(r)] = None

\* A lock whose owner is gone (killed, or its release failed) blocks its key for
\* no longer than its time to live.
LocksEnd ==
    \A s \in Stores, k \in Keys : locks[s][k] > 0 ~> locks[s][k] = 0
\* The delivery inside the handler of a key, in the one process there is.
Running(k) ==
    IF \E r \in Requests : Holding(r) /\ Key(r) = k
    THEN CHOOSE r \in Requests : Holding(r) /\ Key(r) = k
    ELSE None

TheStore == Initial(CHOOSE p \in Procs : TRUE)

Kept(k) == IF records[TheStore][k] = None THEN None ELSE records[TheStore][k].by

Promise == INSTANCE OnceOnly WITH
    running <- [k \in Keys |-> Running(k)],
    kept    <- [k \in Keys |-> Kept(k)]

\* One process whose Redis answers keeps the promise of an Idempotency-Key:
\* its whole dispatch implements OnceOnly.
KeepsPromise == Promise!Spec
=============================================================================
