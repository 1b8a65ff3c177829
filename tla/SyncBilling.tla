----------------------------- MODULE SyncBilling -----------------------------
(***************************************************************************)
(* PigTex Sync subscriptions of one user, paid through PayOS               *)
(* (src/backend/app/services/sync_billing_service.py).                     *)
(*                                                                         *)
(* The handlers are synchronous bodies on the event loop of the one server *)
(* process, so they do not interleave with each other; but each is a       *)
(* sequence of commits, and the process may die after any of them.  A      *)
(* handler is therefore the sequence of the database states it commits,    *)
(* and Run takes all of it or a prefix.  PayOS is a party of its own: its  *)
(* payment links change, and it delivers webhooks late, in any order,      *)
(* again after an answer, and until it got one.                            *)
(***************************************************************************)
EXTENDS Integers, Sequences, SequencesExt

CONSTANTS
    Orders,         \* PayOS order codes, one subscription row each
    PlanOf,         \* the plan an order buys: "sync" or "sync_plus"
    Period,         \* _cycle_duration of an order, in days of this model
    Grace,          \* settings.sync_freeze_grace_days
    Updates,        \* the statuses PayOS announces besides a payment
    MaxTime,        \* bound: days
    MaxDeaths       \* bound: handlers cut short by the death of the process

ASSUME BillingAssumption ==
    /\ PlanOf \in [Orders -> {"sync", "sync_plus"}]
    /\ Period \in [Orders -> Nat \ {0}]
    /\ Grace \in Nat \ {0}
    /\ Updates \subseteq {"pending", "failed", "canceled", "expired"}
    /\ MaxTime \in Nat \ {0} /\ MaxDeaths \in Nat

Statuses == {"none", "pending", "active", "canceled", "expired", "failed"}
LinkStates == {"none", "open", "paid", "canceled", "expired"}
EventTypes == {"payment.paid", "payment.updated"}
Plans == {"free", "sync", "sync_plus"}
Sources == {"none", "free", "subscription", "subscription_grace", "legacy_user_plan"}

VARIABLES
    now,
    db,         \* sub: the subscription row of each order; recent: the orders,
                \* last written first; events: the processed flags of the event
                \* rows of each order and type; plan: users.plan; quota: the
                \* source of the CloudStorageQuota row
    link,       \* PayOS: the payment link of each order
    hooks,      \* PayOS: webhooks that may still be delivered
    deaths,
    \* history, read by no guard of the code:
    honored,    \* orders that were activated
    applied     \* per order, activations by webhook while no process died

vars == <<now, db, link, hooks, deaths, honored, applied>>

Row == [status : Statuses, end : Nat, grace : Nat, atEnd : BOOLEAN]
NoRow == [status |-> "none", end |-> 0, grace |-> 0, atEnd |-> FALSE]

Init ==
    /\ now = 1
    /\ db = [sub |-> [o \in Orders |-> NoRow],
             recent |-> <<>>,
             events |-> [o \in Orders |-> [t \in EventTypes |-> {}]],
             plan |-> "free",
             quota |-> "none"]
    /\ link = [o \in Orders |-> "none"]
    /\ hooks = {}
    /\ deaths = 0
    /\ honored = {}
    /\ applied = [o \in Orders |-> 0]

-----------------------------------------------------------------------------
(* What the service reads off the database.                                *)

Created(d) == {o \in Orders : d.sub[o].status # "none"}

\* _is_subscription_in_grace: whatever the status, the date decides.
InGrace(row) == row.grace # 0 /\ row.grace >= now

\* _is_subscription_active; a row without an end (0) does not run out.
IsActive(row) == row.status = "active" /\ (row.end = 0 \/ row.end >= now)

Priority(row) ==
    IF row.status = "active" THEN 0 ELSE IF InGrace(row) THEN 1 ELSE 2

At(d, o) == CHOOSE i \in 1..Len(d.recent) : d.recent[i] = o

\* rank, and the order of the query where it ties.
Before(d, o, q) ==
    LET ro == d.sub[o]
        rq == d.sub[q]
    IN \/ Priority(ro) < Priority(rq)
       \/ Priority(ro) = Priority(rq) /\ ro.end > rq.end
       \/ Priority(ro) = Priority(rq) /\ ro.end = rq.end /\ At(d, o) < At(d, q)

\* get_current_subscription
Current(d) == CHOOSE o \in Created(d) : \A q \in Created(d) \ {o} : Before(d, o, q)

\* The entitlement a database gives: its source and its plan.  user.plan counts
\* once no subscription does.
Entitlement(d) ==
    LET o == Current(d)
        row == d.sub[o]
        any == Created(d) # {}
    IN IF any /\ IsActive(row) THEN [source |-> "subscription", plan |-> PlanOf[o]]
       ELSE IF any /\ InGrace(row) THEN [source |-> "subscription_grace", plan |-> PlanOf[o]]
       ELSE IF d.plan # "free" THEN [source |-> "legacy_user_plan", plan |-> d.plan]
       ELSE [source |-> "free", plan |-> "free"]

CanWrite(d) == Entitlement(d).source \in {"subscription", "legacy_user_plan"}

-----------------------------------------------------------------------------
(* What it writes: each operator is the database after one commit.         *)

\* A row that is written comes first among those of its rank.
Put(d, o, row) ==
    LET others == IF o \in Created(d) THEN RemoveAt(d.recent, At(d, o)) ELSE d.recent
    IN [d EXCEPT !.sub[o] = row, !.recent = <<o>> \o others]

\* _activate_payos_subscription, its first commit: a new period from now on.
Activated(d, o) ==
    Put(d, o, [status |-> "active",
               end    |-> now + Period[o],
               grace  |-> now + Period[o] + Grace,
               atEnd  |-> TRUE])

\* materialize_quota: the entitlement is copied to the quota and to user.plan.
Materialized(d) ==
    [d EXCEPT !.plan = Entitlement(d).plan, !.quota = Entitlement(d).source]

Activation(d, o) == <<Activated(d, o), Materialized(Activated(d, o))>>

\* Mutant: a payment in process counts as made.
Hopeful(state) == IF state = "open" THEN "active" ELSE state

\* Mutant: the provider's own words are stored.
Verbatim(state) == state

\* _normalize_payos_provider_status
Normalized(state) ==
    CASE state = "paid" -> "active"
      [] state = "open" -> "pending"
      [] OTHER -> state

\* The row after an answer of PayOS that is not a payment.  It is rewritten when
\* the status or the kept payload changed; a payload may always differ.
Refreshed(d, o, status, over, touch) ==
    LET old == d.sub[o]
        row == [old EXCEPT !.status = status, !.atEnd = @ \/ status \in over]
    IN IF row = old /\ ~touch THEN d ELSE Put(d, o, row)

Polls(d) == Created(d) # {} /\ d.sub[Current(d)].status = "pending"

\* _sync_payos_subscription_state, asked of the current row when it is pending.
PollCommits(d, touch) ==
    LET o == Current(d)
        status == Normalized(link[o])
    IN IF status = "active" THEN Activation(d, o)
       ELSE <<Refreshed(d, o, status, {"canceled", "expired"}, touch)>>

\* How PayOS takes a request: an answer, an error the service handles, or no
\* answer at all, which is an exception it does not handle.
Answers == {"answers", "refuses", "raises"}

\* resolve_entitlement: nothing is written unless PayOS is asked and answers.
ResolveCommits(d, answer, touch) ==
    IF Polls(d) /\ answer = "answers" THEN PollCommits(d, touch) ELSE <<>>

Latest(d, commits) == IF commits = <<>> THEN d ELSE commits[Len(commits)]

MaterializeCommits(d, answer, touch) ==
    LET commits == ResolveCommits(d, answer, touch)
    IN IF Polls(d) /\ answer = "raises" THEN <<>>
       ELSE Append(commits, Materialized(Latest(d, commits)))

-----------------------------------------------------------------------------
(* The requests.                                                           *)

Done(commits) == db' = Latest(db, commits) /\ UNCHANGED deaths

\* The process dies before the last commit of a handler.
Dies(commits) ==
    /\ deaths < MaxDeaths
    /\ deaths' = deaths + 1
    /\ \E n \in 0..Len(commits) - 1 : db' = Latest(db, SubSeq(commits, 1, n))

Run(commits) ==
    /\ Done(commits) \/ Dies(commits)
    /\ honored' = honored \cup {o \in Orders : db'.sub[o].status = "active"}

\* POST /checkout-session: the link is made first; its URL reaches the user
\* only with the row.
Checkout(o) ==
    /\ link[o] = "none"
    /\ link' = [link EXCEPT ![o] = "open"]
    /\ Run(<<Put(db, o, [NoRow EXCEPT !.status = Normalized("open")])>>)
    /\ UNCHANGED <<now, hooks, applied>>

\* GET /entitlement, and every cloud route that materializes the quota.
GetEntitlement(answer, touch) ==
    /\ Run(MaterializeCommits(db, answer, touch))
    /\ UNCHANGED <<now, link, hooks, applied>>

\* _require_cloud_entitlement: the gate in front of the cloud routes.
Gate(answer, touch) ==
    /\ Polls(db)
    /\ Run(ResolveCommits(db, answer, touch))
    /\ UNCHANGED <<now, link, hooks, applied>>

\* A link is canceled: PayOS may announce it.
Closes(o, state) ==
    /\ link' = [link EXCEPT ![o] = state]
    /\ hooks' \in {hooks, hooks \cup ({o} \X ({state} \cap Updates))}

\* Mutant: a payment link that cannot be canceled any more is not an error.
CloseIfOpen(o) ==
    IF link[o] = "open" THEN Closes(o, "canceled") ELSE UNCHANGED <<link, hooks>>

\* _cancel_payos_payment_link: PayOS refuses a link that was paid or closed.
CloseLink(o) == link[o] = "open" /\ Closes(o, "canceled")

\* POST /cancel: an unpaid link is canceled at PayOS before the row is; if PayOS
\* refuses, so does the request.
Cancel(immediately, answer, touch) ==
    LET o == Current(db)
        old == db.sub[o]
        pending == old.status = "pending"
        ended == immediately /\ IsActive(old)
        row == [status |-> IF pending \/ ended THEN "canceled" ELSE old.status,
                end    |-> IF ended THEN now ELSE old.end,
                grace  |-> IF ended THEN now + Grace ELSE old.grace,
                atEnd  |-> TRUE]
        d == IF row = old THEN db ELSE Put(db, o, row)
    IN
    /\ Created(db) # {}
    /\ IF pending THEN CloseLink(o) ELSE UNCHANGED <<link, hooks>>
    /\ Run(<<d>> \o MaterializeCommits(d, answer, touch))
    /\ UNCHANGED <<now, applied>>

TypeOfHook(status) == IF status = "paid" THEN "payment.paid" ELSE "payment.updated"

Logged(d, o, t, flag) == [d EXCEPT !.events[o][t] = @ \cup {flag}]

\* What the webhook does to the row of its order; an order without a row is
\* acknowledged as well.
Said(d, o, status, touch) ==
    IF d.sub[o].status = "none" THEN <<>>
    ELSE IF Normalized(status) = "active" THEN Activation(d, o)
    ELSE <<Refreshed(d, o, status, {"canceled", "expired", "failed"}, touch)>>

\* Mutant: the event is marked as processed when it is logged.
MarksFirst(d, o, status, touch) ==
    LET logged == Logged(d, o, TypeOfHook(status), TRUE)
    IN <<logged>> \o Said(logged, o, status, touch)

\* _handle_payos_webhook commits the event, what it says, and the event again,
\* processed.
HookCommits(d, o, status, touch) ==
    LET t == TypeOfHook(status)
        logged == Logged(d, o, t, FALSE)
        said == Said(logged, o, status, touch)
        last == [Latest(logged, said) EXCEPT !.events[o][t] = d.events[o][t] \cup {TRUE}]
    IN <<logged>> \o said \o <<last>>

\* Mutant: events are not looked up.
NeverFound(flags) == {FALSE}

\* What the look-up of the event finds: the first of the rows there are, in no
\* order the query names.
Found(flags) == IF flags = {} THEN {FALSE} ELSE flags

\* POST /webhook.  PayOS repeats what it got no answer to, and may repeat what
\* it did.
Deliver(h, touch) ==
    LET o == h[1]
        status == h[2]
        dies == deaths' # deaths
    IN
    /\ h \in hooks
    /\ \E processed \in Found(db.events[o][TypeOfHook(status)]) :
          IF processed
          THEN UNCHANGED <<db, deaths, honored, applied>>
          ELSE /\ Run(HookCommits(db, o, status, touch))
               /\ applied' = [applied EXCEPT ![o] =
                     IF deaths' = 0 /\ status = "paid" THEN @ + 1 ELSE @]
    /\ hooks' \in IF dies THEN {hooks} ELSE {hooks, hooks \ {h}}
    /\ UNCHANGED <<now, link>>

-----------------------------------------------------------------------------
(* PayOS, and time.                                                        *)

\* The user pays at the URL the checkout returned.
Pay(o) ==
    /\ link[o] = "open" /\ db.sub[o].status # "none"
    /\ link' = [link EXCEPT ![o] = "paid"]
    /\ hooks' = hooks \cup {<<o, "paid">>}
    /\ UNCHANGED <<now, db, deaths, honored, applied>>

Announce(o, status) ==
    /\ link[o] = "open" /\ status \in {"pending", "failed"} \cap Updates
    /\ hooks' = hooks \cup {<<o, status>>}
    /\ UNCHANGED <<now, db, link, deaths, honored, applied>>

\* The user gives up on the page of PayOS, or the link expires.
Abandon(o, state) ==
    /\ link[o] = "open"
    /\ Closes(o, state)
    /\ UNCHANGED <<now, db, deaths, honored, applied>>

Tick ==
    /\ now < MaxTime
    /\ now' = now + 1
    /\ UNCHANGED <<db, link, hooks, deaths, honored, applied>>

Requested ==
    \/ \E o \in Orders : Checkout(o)
    \/ \E answer \in Answers, touch \in BOOLEAN :
          \/ GetEntitlement(answer, touch)
          \/ Gate(answer, touch)
          \/ \E immediately \in BOOLEAN : Cancel(immediately, answer, touch)

Delivers(o) == \E touch \in BOOLEAN : Deliver(<<o, "paid">>, touch)

PayOS ==
    \/ \E h \in hooks, touch \in BOOLEAN : Deliver(h, touch)
    \/ \E o \in Orders :
          \/ Pay(o)
          \/ \E status \in Updates : Announce(o, status)
          \/ \E state \in {"canceled", "expired"} : Abandon(o, state)

Next == Requested \/ PayOS \/ Tick

Spec == Init /\ [][Next]_vars

\* PayOS repeats a payment's webhook until it is acknowledged.
FairSpec == Spec /\ \A o \in Orders : WF_vars(Delivers(o))

-----------------------------------------------------------------------------

TypeOK ==
    /\ now \in 1..MaxTime
    /\ db.sub \in [Orders -> Row]
    /\ db.recent \in Seq(Orders)
    /\ db.events \in [Orders -> [EventTypes -> SUBSET BOOLEAN]]
    /\ db.plan \in Plans /\ db.quota \in Sources
    /\ link \in [Orders -> LinkStates]
    /\ hooks \subseteq Orders \X ({"paid"} \cup Updates)
    /\ deaths \in 0..MaxDeaths
    /\ honored \subseteq Orders
    /\ applied \in [Orders -> Nat]

\* Nothing is granted that PayOS was not paid for: not by a webhook, a poll, a
\* cancellation, the plan kept on the user, nor a handler cut short.
GrantsArePaid ==
    Entitlement(db).source # "free" \/ db.plan # "free"
        => \E o \in Orders : link[o] = "paid"

\* An order that was paid is not given up as canceled or expired before it was
\* honored: the link is closed at PayOS before the row is, or not at all.
PaidIsNotGivenUp ==
    \A o \in Orders :
        link[o] = "paid" /\ db.sub[o].status \in {"canceled", "expired"} => o \in honored

\* However often PayOS repeats the webhook of a payment, it starts one period,
\* unless a process died while it handled one.
AppliedOnce == \A o \in Orders : applied[o] <= 1

\* "PigTex Sync will activate after PayOS confirms the payment": it does,
\* whenever the process dies and whatever is delivered first.
PaidIsHonored == \A o \in Orders : link[o] = "paid" ~> o \in honored

\* "PigTex Sync subscription is required to create or update cloud backups".
WritesNeedSubscription ==
    CanWrite(db) => \E o \in Orders : IsActive(db.sub[o])
=============================================================================
