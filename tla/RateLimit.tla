------------------------------ MODULE RateLimit ------------------------------
(***************************************************************************)
(* The sliding-window limiter in front of the API                          *)
(* (src/backend/app/rate_limit.py), for the bucket of one principal.       *)
(*                                                                         *)
(* Every server process has a backend: the Redis they share, whose script  *)
(* runs atomically but with the caller's wall clock, or a deque of its own *)
(* with a monotonic clock.  A check is one step: the dependencies are      *)
(* coroutines that do not await.  Time is counted in fractions of a second *)
(* since the Retry-After header is not.                                    *)
(***************************************************************************)
EXTENDS RedisOrMemory, Integers, Sequences, FiniteSets, FiniteSetsExt

CONSTANTS
    Limit,          \* spec.limit
    Seconds,        \* spec.window_seconds
    Second,         \* ticks in a second
    Skew,           \* ticks by which the wall clock of a process is ahead
    MaxTime         \* bound: ticks

ASSUME LimitAssumption ==
    /\ IsFiniteSet(Procs) /\ Procs # {}
    /\ Limit \in Nat \ {0} /\ Seconds \in Nat \ {0} /\ Second \in Nat \ {0}
    /\ Skew \in [Procs -> Nat]
    /\ MaxTime \in Nat \ {0}

Window == Seconds * Second

Fastest == Max({Skew[p] : p \in Procs})
Slowest == Min({Skew[p] : p \in Procs})

\* By how much the wall clocks disagree.
MaxSkew == Fastest - Slowest

VARIABLES
    now,
    deque,      \* the times of each process's InMemorySlidingWindowLimiter
    zset,       \* the sorted set in Redis: [score, member]
    ttl,        \* when Redis drops it, 0 when there is none
    \* history, read by no guard of the code:
    admitted,   \* per store, the times of what it admitted in the last window,
                \* and MaxSkew longer
    promise,    \* per store, when the earliest of those it refused may return,
                \* 0 if it admitted something since
    refused     \* per store, when it last refused

limiterVars == <<now, backend, deque, zset, ttl, faults, admitted, promise, refused>>

LimiterInit ==
    /\ now = Window
    /\ backend = [p \in Procs |-> Initial(p)]
    /\ deque = [p \in Procs |-> <<>>]
    /\ zset = {}
    /\ ttl = 0
    /\ faults = 0
    /\ admitted = [s \in Stores |-> <<>>]
    /\ promise = [s \in Stores |-> 0]
    /\ refused = [s \in Stores |-> 0]

-----------------------------------------------------------------------------

\* Mutant: an event leaves the window a tick early.
CutoffEarly(clock) == clock + 1 - Window

\* Both prunings drop what is at the cutoff.
Cutoff(clock) == clock - Window

\* Mutant: the limit itself still passes.
FullAbove(n) == n > Limit

\* Mutant: one less than the limit passes.
FullBelow(n) == n >= Limit - 1

Full(n) == n >= Limit

\* _prune pops from the left as long as the first event is not after the cutoff.
Pruned(events, cutoff) ==
    LET stale == CHOOSE n \in 0..Len(events) :
                    /\ \A i \in 1..n : events[i] <= cutoff
                    /\ n < Len(events) => events[n + 1] > cutoff
    IN SubSeq(events, stale + 1, Len(events))

Admits(s) ==
    /\ admitted' = [admitted EXCEPT ![s] = Append(@, now)]
    /\ promise' = [promise EXCEPT ![s] = 0]
    /\ UNCHANGED refused

\* 429 with a Retry-After of so many seconds.
Refuses(s, seconds) ==
    LET back == now + seconds * Second IN
    /\ promise' = [promise EXCEPT ![s] = IF @ = 0 \/ back < @ THEN back ELSE @]
    /\ refused' = [refused EXCEPT ![s] = now]
    /\ UNCHANGED admitted

AtLeast1(n) == Max({1, n})

\* int() of the memory store cuts the fraction off.
Floored(ticks) == AtLeast1(ticks \div Second)

\* _ms_to_seconds of the Redis store rounds up.
RoundedUp(ticks) == AtLeast1((ticks + Second - 1) \div Second)

\* InMemorySlidingWindowLimiter.check
AskMemory(p) ==
    LET live == Pruned(deque[p], Cutoff(now)) IN
    IF Full(Len(live))
    THEN /\ deque' = [deque EXCEPT ![p] = live]
         /\ Refuses(p, Floored(Head(live) + Window - now))
    ELSE /\ deque' = [deque EXCEPT ![p] = Append(live, now)]
         /\ Admits(p)

Live(z, clock) == {e \in z : e.score > Cutoff(clock)}

\* Members are made unique by a uuid.
Event(z, clock) ==
    [score |-> clock,
     member |-> CHOOSE m \in 1..Cardinality(z) + 1 : \A e \in z : e.member # m]

\* _CHECK_SCRIPT: what a run of it leaves of the set z.
Scripted(z, clock) ==
    LET live == Live(z, clock)
    IN IF Full(Cardinality(live)) THEN live ELSE live \cup {Event(live, clock)}

Clock(p) == now + Skew[p]

\* The run of the script whose answer p gets finds the set z.
AskRedis(p, z) ==
    LET live == Live(z, Clock(p)) IN
    /\ zset' = Scripted(z, Clock(p))
    /\ ttl' = now + Window
    /\ IF Full(Cardinality(live))
       THEN Refuses(Redis, RoundedUp(Min({e.score : e \in live}) + Window - Clock(p)))
       ELSE Admits(Redis)

Check(p) ==
    \/ /\ backend[p] = p
       /\ AskMemory(p)
       /\ UNCHANGED <<zset, ttl>>
    \/ /\ backend[p] = Redis
       /\ AskRedis(p, zset)
       /\ UNCHANGED deque

Request(p) == Check(p) /\ UNCHANGED <<now, backend, faults>>

\* retry_on_timeout: the answer of a first run was lost.
RequestTwice(p) ==
    /\ backend[p] = Redis
    /\ Fault
    /\ AskRedis(p, Scripted(zset, Clock(p)))
    /\ UNCHANGED <<now, backend, deque>>

\* The call raised, before or after the script ran: the process degrades to an
\* empty memory store and asks that.
RequestDegrades(p) ==
    /\ backend[p] = Redis
    /\ Fault
    /\ \/ UNCHANGED <<zset, ttl>>
       \/ zset' = Scripted(zset, Clock(p)) /\ ttl' = now + Window
    /\ backend' = [backend EXCEPT ![p] = p]
    /\ AskMemory(p)
    /\ UNCHANGED now

\* The process starts again; _build_limiter_backend falls back to memory when
\* Redis does not answer its ping.
RestartLimiter(p) ==
    /\ Fault
    /\ backend' \in {[backend EXCEPT ![p] = Initial(p)], [backend EXCEPT ![p] = p]}
    /\ deque' = [deque EXCEPT ![p] = <<>>]
    /\ admitted' = [admitted EXCEPT ![p] = <<>>]
    /\ promise' = [promise EXCEPT ![p] = 0]
    /\ refused' = [refused EXCEPT ![p] = 0]
    /\ UNCHANGED <<now, zset, ttl>>

Elapse ==
    /\ now < MaxTime
    /\ now' = now + 1
    /\ IF ttl <= now' THEN zset' = {} /\ ttl' = 0 ELSE UNCHANGED <<zset, ttl>>
    /\ admitted' = [s \in Stores |-> Pruned(admitted[s], now' - Window - MaxSkew)]
    /\ UNCHANGED <<backend, deque, faults, promise, refused>>

LimiterNext ==
    \/ \E p \in Procs : Request(p) \/ RequestTwice(p) \/ RequestDegrades(p)
                        \/ RestartLimiter(p)
    \/ Elapse

LimiterSpec == LimiterInit /\ [][LimiterNext]_limiterVars

-----------------------------------------------------------------------------

LimiterTypeOK ==
    /\ now \in Nat
    /\ backend \in [Procs -> Stores]
    /\ deque \in [Procs -> Seq(Nat)] /\ \A p \in Procs : Len(deque[p]) <= Limit
    /\ zset \subseteq [score : Nat, member : 1..Limit]
    /\ ttl \in Nat
    /\ faults \in 0..MaxFaults
    /\ admitted \in [Stores -> Seq(Nat)]
    /\ promise \in [Stores -> Nat] /\ refused \in [Stores -> Nat]

\* By how much the clocks of the processes that share a store disagree.
Drift(s) == IF s = Redis THEN MaxSkew ELSE 0

\* How many of the times are after a point in time.
After(times, at) == Cardinality({i \in 1..Len(times) : times[i] > at})

AdmittedWithin(s, ticks) == After(admitted[s], now - ticks)

\* A store admits no more than Limit requests in a window, less the time by which
\* the clocks of the processes that share it disagree: through lost answers,
\* repeated scripts, and the key's own time to live.
WithinLimit == \A s \in Stores : AdmittedWithin(s, Window - Drift(s)) <= Limit

\* While no call is lost, nobody is refused whose store did not admit Limit
\* requests in a window and the time by which the clocks disagree.
RefusesOnlyWhenFull ==
    [][\A s \in Stores :
          faults' = 0 /\ refused'[s] # refused[s] =>
              AdmittedWithin(s, Window + Drift(s)) >= Limit]_limiterVars

\* Retry-After, "retry_after (seconds)": while no call is lost, who comes back
\* after that many seconds, by whatever clock, is not refused, unless somebody
\* was admitted in between.
RetryAfterSuffices ==
    faults = 0 => \A s \in Stores :
        promise[s] # 0 => refused[s] < promise[s] + Drift(s)
=============================================================================
