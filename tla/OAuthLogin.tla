------------------------------ MODULE OAuthLogin ------------------------------
(***************************************************************************)
(* One OAuth login of the desktop app: src/backend/app/routes/auth.py and  *)
(* oauth_state.py, and loginWithOAuth of the client.                       *)
(*                                                                         *)
(* The desktop starts a login, sends the user to the provider in a browser *)
(* and polls for the result; the provider sends the browser back to the    *)
(* callback, which awaits the provider's answer and then stores the token  *)
(* for the next poll to take.  A page may be loaded again: several         *)
(* callbacks may carry the same state, and the same code.                  *)
(*                                                                         *)
(* Server processes share Redis, or hold states in memory.  Store calls    *)
(* are synchronous: a process interleaves its requests only at an await,   *)
(* other processes at every call.                                          *)
(***************************************************************************)
EXTENDS RedisOrMemory

CONSTANTS
    Callbacks,      \* requests to the callback, reloads included
    Codes,          \* authorization codes the provider issues
    PendingTTL,     \* _oauth_state_pending_ttl_seconds, and the desktop's deadline
    ResultTTL,      \* _oauth_state_result_ttl_seconds
    MaxAge,         \* bound: ticks since the start
    None

ASSUME LoginAssumption ==
    /\ None \notin Procs \cup Codes
    /\ PendingTTL \in Nat \ {0} /\ ResultTTL \in Nat \ {0}
    /\ MaxAge \in Nat

Statuses == {"pending", "success", "error"}

DeskStates == {"off",
               "refused",   \* the start failed: nobody has its URL
               "polling",   \* in the loop of loginWithOAuth
               "taking",    \* a poll found a result and is about to delete it
               "in", "failed"}

PCs == {"new",
        "refusing",         \* an error or no code: completes without an await
        "asking",           \* awaits the provider
        "declined",         \* the provider's answer is on its way
        "approved",
        "done"}

VARIABLES
    age,        \* ticks since the start; a tick is many intervals of the poll
    required,   \* _is_fail_closed_required()
    entry,      \* what each store holds for the login's state
    desk,       \* the desktop
    polled,     \* has it polled in this tick?
    by, got,    \* the process that takes a result for it, and the result
    pc, proc,   \* where each callback is, and on which process
    code,       \* its code, None if the provider sent an error
    spent,      \* provider: codes that were exchanged
    \* history, read by no guard of the code:
    shown,      \* a page has said "login completed. You can return to PigTex now."
    handled,    \* callbacks that stored a result
    overlapped, \* a callback found the state pending while another was handling it
    late,       \* one completed after the desktop's last poll
    lost        \* the answer to a poll was lost

stores == <<backend, entry, faults>>
desktop == <<desk, polled, by, got, lost>>
callbacks == <<pc, proc, code, shown, handled, overlapped, late>>
vars == <<age, required, spent, stores, desktop, callbacks>>

Absent == [status |-> "none", left |-> 0]
Items == {Absent} \cup [status : Statuses, left : 1..(PendingTTL + ResultTTL)]

Init ==
    /\ age = 0 /\ faults = 0
    /\ required \in {FALSE, Backend = "redis"}
    /\ backend = [p \in Procs |-> Initial(p)]
    /\ entry = [s \in Stores |-> Absent]
    /\ desk = "off" /\ polled = FALSE /\ by = None /\ got = "none"
    /\ pc = [c \in Callbacks |-> "new"]
    /\ proc = [c \in Callbacks |-> None]
    /\ code = [c \in Callbacks |-> None]
    /\ spent = {} /\ handled = {}
    /\ shown = FALSE /\ overlapped = FALSE /\ late = FALSE /\ lost = FALSE

-----------------------------------------------------------------------------
(* Calls to the store.  Where it is required, a call that fails raises and  *)
(* the request ends in an error 503; elsewhere the process turns to its own *)
(* memory.  A write that failed may have reached Redis.                     *)

Degrades(p) ==
    /\ backend[p] = Redis /\ ~required
    /\ Fault
    /\ backend' = [backend EXCEPT ![p] = p]

\* p reads what store s holds.
Reads(p, s) ==
    /\ \/ s = backend[p] /\ UNCHANGED <<backend, faults>>
       \/ s = p /\ Degrades(p)
    /\ UNCHANGED entry

ReadRaises(p) ==
    /\ backend[p] = Redis /\ required
    /\ Fault
    /\ UNCHANGED <<backend, entry>>

Written(e, s, item) == [e EXCEPT ![s] = item]

Writes(p, item) ==
    \/ entry' = Written(entry, backend[p], item) /\ UNCHANGED <<backend, faults>>
    \/ /\ Degrades(p)
       /\ \E e \in {entry, Written(entry, Redis, item)} : entry' = Written(e, p, item)

WriteRaises(p, item) ==
    /\ backend[p] = Redis /\ required
    /\ Fault
    /\ entry' \in {entry, Written(entry, Redis, item)}
    /\ UNCHANGED backend

\* No request of p is between two calls without an await.
LoopFree(p) == by # p /\ \A c \in Callbacks : proc[c] = p => pc[c] # "refusing"

-----------------------------------------------------------------------------
(* The desktop.                                                             *)

Pending == [status |-> "pending", left |-> PendingTTL]

\* POST /oauth/{provider}/start
Start(p) ==
    /\ desk = "off" /\ LoopFree(p)
    /\ \/ Writes(p, Pending) /\ desk' = "polling"
       \/ WriteRaises(p, Pending) /\ desk' = "refused"
    /\ UNCHANGED <<age, required, spent, polled, by, got, lost, callbacks>>

\* while (Date.now() < deadline)
Polling(p) == desk = "polling" /\ age < PendingTTL /\ LoopFree(p)

\* Mutants: results stay, and everything that was looked at goes.
NoToken == {"error"}
Everything == Statuses

\* The statuses oauth_status deletes the state for.
Consumed == {"success", "error"}

\* What a poll served by p finds; its answer is on its way, or a result is
\* about to be deleted.  404 and 503 end the loop.
Found(p, status) ==
    IF status \in Consumed
    THEN desk' = "taking" /\ by' = p /\ got' = status
    ELSE /\ desk' = IF status = "pending" THEN "polling"
                    ELSE IF status = "success" THEN "in" ELSE "failed"
         /\ UNCHANGED <<by, got>>

\* GET /oauth/{provider}/status
Poll(p) ==
    /\ Polling(p)
    /\ polled' = TRUE
    /\ \/ \E s \in Stores : Reads(p, s) /\ Found(p, entry[s].status)
       \/ ReadRaises(p) /\ desk' = "failed" /\ UNCHANGED <<by, got>>
    /\ UNCHANGED <<age, required, spent, lost, callbacks>>

\* The result is deleted, then answered; the answer may not arrive.
Take(p) ==
    LET arrives == CASE got = "success" -> "in" [] got = "pending" -> "polling"
                     [] OTHER -> "failed"
    IN
    /\ desk = "taking" /\ by = p
    /\ \/ Writes(p, Absent) /\ desk' = arrives /\ UNCHANGED lost
       \/ Writes(p, Absent) /\ desk' = "failed" /\ lost' = TRUE
       \/ WriteRaises(p, Absent) /\ desk' = "failed" /\ UNCHANGED lost
    /\ by' = None /\ got' = "none"
    /\ UNCHANGED <<age, required, spent, polled, callbacks>>

\* fetch rejects before a process has seen the request.
PollLost ==
    /\ desk = "polling" /\ age < PendingTTL
    /\ desk' = "failed" /\ lost' = TRUE
    /\ UNCHANGED <<age, required, spent, stores, polled, by, got, callbacks>>

\* "login timed out. Please try again."
GiveUp ==
    /\ desk = "polling" /\ age >= PendingTTL
    /\ desk' = "failed"
    /\ UNCHANGED <<age, required, spent, stores, polled, by, got, lost, callbacks>>

-----------------------------------------------------------------------------
(* The callback.                                                            *)

Handling(c) == pc[c] \in {"refusing", "asking", "declined", "approved"}

Ends(c) ==
    /\ pc' = [pc EXCEPT ![c] = "done"]
    /\ proc' = [proc EXCEPT ![c] = None]

\* Mutant: the status is not looked at.
AnyState(status) == status # "none"

\* Not "expired", and not "already handled".
MayHandle(status) == status = "pending"

\* The callback reads the state; k is the code, None for an error.
Begin(c, p, k) ==
    /\ desk \notin {"off", "refused"}
    /\ pc[c] = "new" /\ LoopFree(p)
    /\ \/ \E s \in Stores :
             /\ Reads(p, s)
             /\ IF MayHandle(entry[s].status)
                THEN /\ pc' = [pc EXCEPT ![c] = IF k = None THEN "refusing" ELSE "asking"]
                     /\ proc' = [proc EXCEPT ![c] = p]
                     /\ code' = [code EXCEPT ![c] = k]
                     /\ overlapped' = (overlapped \/ \E d \in Callbacks : Handling(d))
                ELSE Ends(c) /\ UNCHANGED <<code, overlapped>>
       \/ ReadRaises(p) /\ Ends(c) /\ UNCHANGED <<code, overlapped>>
    /\ UNCHANGED <<age, required, spent, desktop, shown, handled, late>>

\* The provider exchanges a code once, and may fail.
Exchange(c) ==
    /\ pc[c] = "asking"
    /\ \/ /\ code[c] \notin spent
          /\ pc' = [pc EXCEPT ![c] = "approved"]
          /\ spent' = spent \cup {code[c]}
       \/ /\ pc' = [pc EXCEPT ![c] = "declined"]
          /\ spent' \in {spent, spent \cup {code[c]}}
    /\ UNCHANGED <<age, required, stores, desktop, proc, code, shown, handled,
                   overlapped, late>>

Result(status) == [status |-> status, left |-> ResultTTL]

\* Where each callback may lead: a user who is found may still be refused, for
\* an inactive account or one that is linked elsewhere.
Verdicts(c) == IF pc[c] = "approved" THEN {"success", "error"} ELSE {"error"}

\* _complete_oauth_state: the copy read at the beginning is written back, with
\* the result and a new time to live, whatever the store holds by now.
Complete(c) ==
    LET p == proc[c] IN
    /\ pc[c] \in {"refusing", "declined", "approved"}
    /\ pc[c] = "refusing" \/ LoopFree(p)
    /\ \E status \in Verdicts(c) :
          \/ /\ Writes(p, Result(status))
             /\ shown' = (shown \/ status = "success")
             /\ handled' = handled \cup {c}
          \/ /\ WriteRaises(p, Result(status))
             /\ UNCHANGED <<shown, handled>>
    /\ late' = (late \/ age >= PendingTTL \/ (polled /\ age + 1 = PendingTTL))
    /\ Ends(c)
    /\ UNCHANGED <<age, required, spent, desktop, code, overlapped>>

-----------------------------------------------------------------------------

\* p restarts: its requests end, its memory is empty.  Without Redis a process
\* whose store is required does not start.
Restart(p) ==
    /\ desk # "off"
    /\ Fault
    /\ \E s \in {Initial(p)} \cup (IF required THEN {} ELSE {p}) :
          backend' = [backend EXCEPT ![p] = s]
    /\ entry' = Written(entry, p, Absent)
    /\ pc' = [c \in Callbacks |-> IF proc[c] = p THEN "done" ELSE pc[c]]
    /\ proc' = [c \in Callbacks |-> IF proc[c] = p THEN None ELSE proc[c]]
    /\ IF by = p THEN desk' = "failed" /\ by' = None /\ got' = "none"
                 ELSE UNCHANGED <<desk, by, got>>
    /\ UNCHANGED <<age, required, spent, polled, lost, code, shown, handled,
                   overlapped, late>>

\* Mutant: an entry is dropped one tick too late.
AgedLate(item) == [item EXCEPT !.left = IF @ = 0 THEN 0 ELSE @ - 1]

Aged(item) == IF item.left <= 1 THEN Absent ELSE [item EXCEPT !.left = @ - 1]

\* The desktop polls every 1.5 seconds, in every tick.
Tick ==
    /\ desk # "off" /\ age < MaxAge
    /\ desk # "taking" /\ (desk = "polling" => polled)
    /\ age' = age + 1
    /\ polled' = FALSE
    /\ entry' = [s \in Stores |-> Aged(entry[s])]
    /\ UNCHANGED <<required, spent, backend, faults, desk, by, got, lost, callbacks>>

Next ==
    \/ \E p \in Procs :
          \/ Start(p) \/ Poll(p) \/ Take(p) \/ Restart(p)
          \/ \E c \in Callbacks, k \in Codes \cup {None} : Begin(c, p, k)
    \/ \E c \in Callbacks : Exchange(c) \/ Complete(c)
    \/ PollLost \/ GiveUp \/ Tick

Spec == Init /\ [][Next]_vars

-----------------------------------------------------------------------------

TypeOK ==
    /\ age \in 0..MaxAge /\ required \in BOOLEAN
    /\ backend \in [Procs -> Stores]
    /\ entry \in [Stores -> Items]
    /\ desk \in DeskStates /\ polled \in BOOLEAN
    /\ by \in Procs \cup {None} /\ got \in Statuses \cup {"none"}
    /\ pc \in [Callbacks -> PCs]
    /\ proc \in [Callbacks -> Procs \cup {None}]
    /\ code \in [Callbacks -> Codes \cup {None}]
    /\ spent \subseteq Codes /\ handled \subseteq Callbacks
    /\ faults \in 0..MaxFaults
    /\ shown \in BOOLEAN /\ overlapped \in BOOLEAN /\ late \in BOOLEAN /\ lost \in BOOLEAN

\* "OAuth session was already handled": of all the callbacks of a login one
\* stores its result, unless another began while it awaited the provider or a
\* store failed.
HandledOnce ==
    \A c, d \in handled : c = d \/ overlapped \/ faults > 0

\* "login completed. You can return to PigTex now.": the desktop ends logged in
\* if a page said so, unless callbacks overlapped, the desktop had polled for
\* the last time, its poll was lost, or a store failed.
CompletedReaches ==
    shown /\ desk = "failed" => overlapped \/ late \/ lost \/ faults > 0

\* A token is gone from every store once the desktop is logged in: no later poll
\* gets it, with the same exceptions.
TokenIsTaken ==
    desk = "in" => \/ \A s \in Stores : entry[s].status # "success"
                   \/ overlapped \/ faults > 0
=============================================================================
