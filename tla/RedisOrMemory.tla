--------------------------- MODULE RedisOrMemory ---------------------------
(***************************************************************************)
(* What the rate limiter and the OAuth login share: every server process   *)
(* keeps its state in the Redis of all of them or, where that is           *)
(* configured or Redis failed it, in memory of its own.                    *)
(***************************************************************************)
EXTENDS Naturals

CONSTANTS
    Procs,          \* p also names the memory of p
    Redis,
    Backend,        \* the backend of the settings: "redis" or "memory"
    MaxFaults       \* bound: Redis calls that fail, processes that restart

ASSUME BackendAssumption ==
    /\ Redis \notin Procs
    /\ Backend \in {"redis", "memory"}
    /\ MaxFaults \in Nat

VARIABLES
    backend,        \* what each process uses: Redis or its own memory
    faults

Stores == Procs \cup {Redis}

Initial(p) == IF Backend = "redis" THEN Redis ELSE p

Fault == faults < MaxFaults /\ faults' = faults + 1
=============================================================================
