# A formal model of PigTex

PigTex is a desktop AI workspace: an Electron shell with a React renderer
(`src/src`, `src/electron`), and a FastAPI backend (`src/backend/app`) with a
relational database for accounts and services, a SQLite store per machine scope
for the user's content, an optional Redis, an S3-compatible object store for
snapshots, and PayOS or Stripe for payments. This directory holds TLA+ models
of the parts of it whose correctness depends on orders of events: retried
requests, webhooks, several devices, crashes, clocks. Paths below are those of
`PROJECT.json`; `src/` is the repository.

## 1. Inventory

| Component | State it keeps | Operations | What is hard |
|---|---|---|---|
| Idempotency middleware, `backend/app/idempotency.py` | records and locks of each store, with times to live; the process's current store | dispatch: look-up, lock, handler, keep, release; degrade to memory | several processes on one Redis, handlers that outlive their lock, crashes, lost answers |
| Sync billing, `services/sync_billing_service.py`, `routes/sync_billing.py` | subscription rows, webhook events, `users.plan`, the quota row | checkout, entitlement (polls PayOS), cancel, webhook | webhooks late, repeated and reordered; a sequence of commits that may stop anywhere; two checkouts at once |
| Cloud backup and sync, `services/cloud_backup_service.py`, `routes/cloud_backup.py`, `handleSyncNow` in `SettingsModal.tsx` | snapshot manifests, times of the last push and pull per device, quota | sync state, push, pull, backup, restore, upload | the client makes four requests while other devices and the user go on; three clocks |
| Rate limiter, `rate_limit.py` | a sorted set in Redis or a deque per process | check | clocks of several processes, repeated scripts, degradation |
| OAuth login, `oauth_state.py`, `routes/auth.py` | login states with a time to live | start, callback, status poll | the callback awaits the provider while the desktop polls; single use of the token |
| Local store, `local_storage/local_db.py` | workspaces, conversations, messages, facts, assertions | CRUD, archive empty conversations, clean up, merge import, legacy migration | rows written back whole as they were read; import over existing data |
| Local encryption, `local_storage/encryption.py` | salt, key file, database file | enable, disable, change password, unlock, convert the database | files replaced in several steps, each of which may raise or be the last |
| Memory, `memory/memory_coordinator.py` | working memory, assertions and their supersession | extract, reconcile, preload context | background tasks and time-outs |
| Learning, `services/learning_service.py` | programs, nodes, sessions, attempts | start, answer, repair, review, delete | lessons, repairs and reviews in any order, answers to old sessions, chat turns of two commits |
| Chat API, `routes/v1_api.py` | conversations, usage rows | completions, streams, titles, conversation routes | the answer is saved after the stream ended, the title with a copy of the row |
| Search, `search/search_coordinator.py` | result cache, rate slots | search | cache and slots behind two locks |
| TexAPI partner, `services/texapi_partner_service.py` | delegated tokens | exchange, cache | one exchange at a time, expiry |
| Desktop shell, `electron/main.ts` | undo stack, allowed roots, trash | file operations, undo | calls that overlap, other programs, writes that fail |
| File agent and stream parser, `src/features/fileAgent`, `src/utils` | parser buffers, plans | feed, plan, apply | the parse must not depend on the chunks |
| Renderer, prompting, skill foundry, updater, migrations, scripts | presentation, text, tooling | | little state of their own |

How they interact: every write request of a client passes the idempotency
middleware and then, on the routes that have it, the rate limiter. Cloud routes
ask billing for the entitlement before they touch a snapshot, and so may poll
PayOS. Sync exports and imports the local store. Redis is shared by the three
stores (idempotency, limits, logins), and each of them degrades to memory on its
own. A chat turn writes to the local store through the memory coordinator, and
to the learning program of its conversation.

The server is one event loop per process. Most handlers are coroutines whose
bodies never await, so two handlers of one process do not interleave; those that
await (the middleware around a handler, the OAuth callback, streams) do, and
processes interleave at every access to a shared store.

What makes each correct, in a line: a duplicate request does not run twice; what
was paid is granted, once, and nothing else is; a completed sync lost nothing;
no more than the limit in a window; a login state is used once; a conversion
that stops leaves the user's rows in a file that opens; a lesson is opened by the
pass of the one before; a conversation with messages stays in the list, and a
streamed answer is stored; an undo gives back what a change took.

## 2. Modules

| Module | What it is |
|---|---|
| `OnceOnly` | abstract: what an idempotency key promises |
| `Idempotency` | the middleware, with both stores, and its refinement mapping |
| `IdempotencyProofs` | theorems about it |
| `SyncBilling` | PayOS subscriptions of one user |
| `BillingProofs` | theorems about it |
| `CloudSync` | sync of one user's devices |
| `SyncProofs` | theorems about it |
| `RedisOrMemory` | what the next two share: processes that use Redis or a memory of their own |
| `RateLimit` | the bucket of one principal |
| `OAuthLogin` | one OAuth login: desktop, browser, provider, server |
| `RedisOrMemoryProofs` | theorems about both |
| `ConversationStore` | conversations and messages of one user, and what writes them |
| `ConversationProofs` | theorems about it |
| `GatedPath` | abstract: what a guided program promises |
| `LearningProgram` | one learning program: lessons, repairs, reviews |
| `LearningProofs` | theorems about it |
| `LocalEncryption` | the local database while its encryption changes |
| `EncryptionProofs` | theorems about it |
| `UndoStack` | changes to the opened folder, and their undo |
| `UndoProofs` | theorems about it |
| `MC*` | constants, symmetries and views for TLC |

**Idempotency.** A delivery of a request is a process of the model; `pc` is where
it is in `dispatch`, `snap` its local variable `store` (read once, so it may
differ from the process's current store later), `proc` the server process.
`Lookup`, `Acquire`, `Handle`, `Keep` and `Release` are the five stretches between
interleaving points. `LoopFree` says that a process does nothing else between
the look-up and the lock, nor between keeping and releasing, since the Redis
client is synchronous. Each call has a failing twin that degrades the process, in
which Redis may or may not have applied the call; `AcquireTwice` is the retry of
the Redis client after a time-out. `Tick` ages locks and records. A restart
loses the process's own store. The payload of a record is the delivery it
answered and its fingerprint. Requests without the header are not modelled; an
invalid header is answered before any state is read.

**SyncBilling.** The state is the database (`db`), and PayOS (`link`, `hooks`). A
handler is the sequence of database states it commits, computed by an operator
(`HookCommits`, `PollCommits`, `MaterializeCommits`...); `Run` takes all of them,
or, at most `MaxDeaths` times, a prefix. `touch` is whether the payload
PayOS returned differs from the one kept, which decides whether a row's
`updated_at`, an ordering key, moves. PayOS closes links, announces what it
likes (`Updates`), and repeats webhooks until they are answered, and after.
Signatures are taken as valid; an invalid one is logged and refused.

**CloudSync.** A store is the time each item was last edited at. `BeginSync`,
`Pull`, `CheckAgain` and `Push` are the requests of `handleSyncNow`; between them
the user edits and other devices sync. `Grain` is the resolution of the database's
timestamps: `created_at` is truncated by the server's default, the times of push
and pull are rounded when stored. `LocalAhead` is the difference of
`datetime.now()` to UTC. Failures leave a failed or an unfinished snapshot row, or
half an import. The entitlement is taken as given, and deletions are left out.

**RateLimit.** A check is one step. The memory limiter is a deque (`Pruned` is the
loop of `_prune`), the Redis limiter the script's effect on a sorted set, called with
the caller's clock. Time runs in fractions of a second, for `Retry-After` does not.
`RestartLimiter` is a new process, `Elapse` the passing of time, which also drops
Redis' key; the history `admitted` is trimmed on its own, not by the code's cutoff.

**OAuthLogin.** One login state. `Start`, `Poll` and `Take` are the desktop's requests
(a poll that finds a result deletes it in a second store call); `Begin`, `Exchange`
and `Complete` are a callback up to the provider, the provider, and the rest; the
database work between is folded into `Complete`, where a found user may still be
refused. A store call fails in one of two ways, chosen by `required`
(`_is_fail_closed_required`): the request ends in 503, or the process degrades and
repeats the call on its own memory. `overlapped`, `late` and `lost` record what the
properties except. A tick is long against the 1.5 s of the poll: the desktop
polls at least once in each.

**ConversationStore.** A row is its archived mark, its message counter and its
workspace; messages are counted. `AskNew` and `AskAgain` are a chat turn up to its
first await, `Answered`/`Unanswered` the stream, `KeepAnswer` the task that saves the
answer and reads the row to see whether it needs a title, `SaveTitle` the writing
of that row back after the provider gave one. Between any two of these, listings,
creations, deletions and cleanups run, and a studio saves a generated turn in up
to three requests. Whether a title is wanted is left open, and so is which
conversations are old enough for a cleanup. `shown` remembers what the user asked
and did not remove. A turn that keeps no memory writes nothing here.

**LearningProgram.** `path` is the order of the nodes, `status` their
`mastery_status`; a grade is `passed`, `failed`, or failed with a `gap`. A handler is
one step, but for the chat turn, which commits its session before the answer is
graded (`ChatSession`, `ChatAnswer`) and may die or raise in between (`ChatFails`).
SQLAlchemy does not read `program.nodes` again before a commit, so the path a
handler unlocks along is the one without the new repair. Inserting a repair moves
the later positions up under a unique constraint, row by row in the order of
their keys, and may thus fail: the answer is then rolled back, which leaves the
state as it was. The abstract `GatedPath` sees `reached`, `passed` and `complete`
only. A program that was completed stays so even when a lesson is failed
again; scores, checklists and the knowledge map are left out.

**LocalEncryption.** `disk` says of each of five files whether it holds the rows the
user had, and whether it is in the clear, encrypted with the key in the key file,
or with a key that is gone. A request is a sequence of steps on the disk (`step`);
each may raise (`EncryptFails`, `DecryptFails`, `KeysFail`) or be where the process
dies (`Crash`), in the middle of a write too. `told` is the password of the last
answer that said success. An earlier attempt's files make later steps raise by
themselves. `Overwrites` is whether `rename` replaces a file: not on Windows, which
the desktop is built for and the run assumes. Requests do not overlap: none of them awaits. That
SQLCipher can be opened, and that `backup` may copy from one library's connection
to the other's, is taken as given.

**UndoStack.** A call is at a place between two awaits of its handler; `job` is what it
does, and the same record, with the operation undone, is an undo entry. `kept` is
the trash. `LookFor*` and `LookAt*` are the checks before a change; other calls and
other programs come between a check and its change. `WriteFails` cuts the file off.
A folder is one item, which goes where it is moved to. A rename to the same name
and an error are the same: nothing changes. `was`, `alone` and `clean` are read by
the properties only; the VIEW of the run forgets `was` where nothing reads it.

## 3. Runs

| Run | Instance | What it shows |
|---|---|---|
| `idempotency_single` | 1 process, 3 deliveries of a key (two alike), 1 crash, lock 2 s, record 3 s | refines `OnceOnly`; no handler over a kept answer; locks end |
| `idempotency_replicas` | 2 processes, 3 deliveries, 1 Redis fault, 1 crash, overruns | mutual exclusion but for overruns; replays happened |
| `billing_one_order` | 1 order, all announcements, 5 days, 1 death | one period per payment; a payment is honored |
| `billing_two_orders` | 2 orders of different plans, 3 days, 1 death | no grant without payment; no paid order given up |
| `billing_after_grace` | 1 order, 5 days | violated: write access for ever after one period |
| `cloud_sync_devices` | 2 devices, 2 items, 2 edits, 1 backup by hand, 1 fault, 4 snapshots | completed syncs are current; idle means equal; echoes end; limits hold |
| `rate_limit_redis` | 2 processes a tick apart, limit 2 in 2 s, 2 faults | the limit, less the skew; none refused below it; `Retry-After` suffices |
| `oauth_redis` | 2 processes, 3 callbacks, 2 codes, pending 3 ticks, result 2, 1 fault | handled once; "completed" reaches the desktop; no token left |
| `learning_repairs` | 2 lessons, 2 repairs, 1 review due at a time | refines `GatedPath`; the focus is open; a repair precedes its lesson and is the only one not passed; flags are backed |
| `encryption_faults` | 2 passwords, 3 faults | the rows survive in a file that opens; success is as told and leaves nothing in the clear |
| `chat_turns` | 2 turns, 1 studio, 2 conversations, 1 workspace, 1 cleanup, 1 fault | counters tell empty from not; what was asked stays listed; answers are kept |
| `undo_overlaps` | 2 names, 2 texts, 4 calls, 2 at once, history of 2, 1 mishap | an undo restores; what entries need is there; no change loses a text |

Why the bounds are enough. Deliveries of one key only meet on that key, and two
duplicates with one that reuses the key for another body are all the roles there
are; a lock of 2 s and a record of 2 or 3 s may expire in either order against
each other. Days 1 to 5 are checkout, period, grace and the day after; one period
is longer than the other so that plans overlap. A sync loses an edit by at most
three parties' steps; with 4 snapshots both devices push twice. Limits 2 and 2 s
let a window slide over its own start. A result of 2 ticks outlives a poll and
may end before, at or after the pending time of 3, as 300 s do in 600 s; three
callbacks are one that handles the login, one beside it and one after it. Two
lessons and two repairs are the least in which a lesson is repaired twice, or a
repair stands between two lessons; three lessons give millions of states and no
new case, since a lesson looks at the node before it only. Three faults let a
conversion fail, its rollback fail, and a later call meet what is left. Two turns
on one conversation are one that holds a copy of the row and one that writes
meanwhile; the studio is a third writer whose conversation may be archived
under it. Four calls fill a history of two and undo part of it while another
call runs. Symmetry is used where the members are interchangeable and no
liveness is checked.

`cloud_sync_devices` assumes that times are exact (`Grain` 1), that local time is
UTC (`LocalAhead` 0), and two devices. None of this can be dropped. With `Grain` 2
a snapshot pushed in the second of the other device's pull is never pulled, with
three devices all but the latest snapshot of the others are skipped, and with
`LocalAhead` negative (`WestOfUTC` in `MCCloudSync`) an edit made within the offset
after a push looks older than the push: each time `CompletedIsCurrent` is violated.
Likewise, `RetryAfterSuffices` is false of the memory limiter (`Backend = "memory"`),
which cuts the fraction off; and with two orders open a refresh polls the current
one only, so that it does not activate another that was paid.

The finding: write access to backups survives the grace period through
`users.plan`, which was written from the subscription and is read as a plan of
its own (`billing_after_grace`).

What the models show to be so, without a document that says otherwise:

* A title is saved with the row as it was before the provider was asked. A
  message counted meanwhile is forgotten by `total_messages`, a conversation
  deleted meanwhile comes back, and one whose workspace was deleted meanwhile is
  put back into it and is listed nowhere. The counter is still positive exactly
  when there are messages, which is what the archiving relies on.
* A studio's new conversation may be archived by a listing before its first
  message, and its messages are then in a conversation that is not listed.
* When the last step of an encryption raises (the removal of the copy in the clear), the
  rollback removes the key although the encrypted file is in place: only the
  copy is left. `POST /encryption/unlock` opens the database for its own request
  only; the next one builds a `LocalDatabase` without a key.
* A change of password is lost if the process dies between the removal of the
  salt and the end of the write of the key file: `RowsSurvive` excepts this.
* An undo entry that cannot be undone stays on top of the history and hides those
  below; with overlapping calls an undo may restore something else than what was
  there; opening a folder forgets the history but not the call in flight, which
  pushes its entry for the old folder.

## 4. Fairness

`Idempotency!FairSpec`: handlers return and the event loop runs what is ready
(weak fairness of `Serve` for each delivery), and time passes. `LocksEnd` needs
the second only. `SyncBilling!FairSpec`: PayOS repeats the webhook of a payment
until it is acknowledged, so its delivery, enabled as long as it was not, is
weakly fair; nothing is assumed of users, polls or time. `ConversationStore!Spec`: a stream ends (the client of the
provider has a read timeout), and the event loop runs every task, so a turn goes
on: weak fairness of `TurnGoesOn` for each turn. Nothing is assumed of users,
studios or faults. The other specifications state no fairness.

## 5. Proofs

`IdempotencyProofs` proves, for every set of processes, deliveries and keys, any
times to live, and any number of faults and crashes:

* `TypeCorrect`: `Spec => []TypeOK`. From `ConstantsAssumption` and
  `NoneAssumption`.
* `LockExcludes`: `Spec => []OverlapOnlyAfterOverrun`. The property alone is not
  inductive: a second delivery enters when the lock is free, which contradicts
  the first only if whoever holds a key still has its lock. The strengthening
  says that, on its store and unless some handler of the key is late, a delivery
  that holds a key has a lock with as much time left as the delivery counts, and
  is alone. A step that frees the lock is then either the holder's own release
  or the passing of time, which marks the key as late.
* `ReplaysWhatHappened`: `Spec => []RecordsHappened`. A record is written only by a
  delivery that left its handler with a cacheable outcome; the strengthening adds
  that such a delivery is in `ran`.
* `DuplicatesReplay`: `Separate /\ ~MayOverrun => (Spec => []NoRunOverRecord)`, where
  `Separate` says that each store is used by one event loop: the memory backend, or
  one process. The hypotheses are needed: two processes on Redis may look up
  before and lock after each other's whole run, and an overrun lets two handlers
  in. The strengthening (`SInv`) says that a delivery between look-up and lock is the
  only one of its process and still asks the store it looked at, that the memory of
  a process which uses Redis is empty, and that a key has no record from the
  look-up of a delivery until its own answer is kept. Crashes and failing calls
  are included.
* `ImplementsOnceOnly`: `OneProcess /\ MaxFaults = 0 /\ ~MayOverrun => (Spec => KeepsPromise)`,
  for any number of crashes. With failing Redis calls the promise is not kept: a
  process that degrades forgets what Redis kept. The mapping reads the handler of
  a key off the control states; mutual exclusion makes it unique, `SInv` says that
  it enters over no record.

Each is proved action by action from frame lemmas about the maps involved; the
temporal step is by PTL.

`BillingProofs` proves, for any orders, plans, periods, announcements and deaths, from
`BillingAssumption`: `TypeCorrect`, `NothingForFree` (`GrantsArePaid`), `PaidIsKept`
(`PaidIsNotGivenUp`) and `WebhookAppliesOnce` (`AppliedOnce`). A handler is a sequence
of commits and a death leaves any of them, so the invariant is about every database
a handler commits, not only the last: `Committed(L, H, E)` is the set of databases
that are sound while PayOS has the links `L`, the orders in `H` were honored and the
event rows are `E`. Sound means that an active row, or one with a grace period, was paid
for, that a paid plan has a paid order, and that a row is canceled or expired only
when its link can no longer be paid or its order was honored. Each operator that
yields commits (`Activation`, `Said`, the polls, the cancellations) is shown to yield
a sequence over this set, and `Run` takes one of its members. Webhooks are sound since
what they say of a link that is at its end stays true (`HooksTell`). That a user
with rows has a current subscription, a `CHOOSE` over a sort order, is proved by
taking the least prefix without a first row.

`ConversationProofs` proves, for any workspaces, turns, studios and bounds, from
`StoreAssumption` (a cleanup leaves at least one message, and turns are not
studios):

* `TypeCorrect`: `Spec => []TypeOK`.
* `CounterIsTrue`: `Spec => []CounterTellsEmpty`, and
  `ConversationStaysListed`: `Spec => []AskedStaysListed`. Neither is inductive, for a
  row read before an await may come back at any time. The strengthening
  (`TitlesAreSafe`) says of every such copy that its counter is positive, that its
  conversation has messages, and that it is not archived if its conversation was
  asked in and not removed: writing it back then changes neither fact. Messages
  of a conversation are only taken away by a cleanup, which leaves `KeepLast`.

`SyncProofs` proves, for any items, limits, edits, backups and failures, from
`SyncAssumption` (devices and items are finitely many, and there are some):

* `TypeCorrect`, for any resolution, offset and devices. The invariant (`Growing`) also
  says that stores only grow newer: a snapshot is no newer than the store it was
  taken of, nor than a later snapshot of its device.
* `CompletedHasAll`: `Favourable => (Spec => []CompletedIsCurrent)`, and `IdleAgree`:
  `Favourable => (Spec => []IdleMeansEqual)`. `Favourable` is exact times, two devices and
  local time not behind UTC (TLC refutes the property without each, see above). The
  invariant says that what the other device had pushed by the time of the last
  pull is here (`Pulled`, where the latest snapshot is the newest because there is
  one other device), that what is here is in the cloud or was edited since the
  last push (`Pushed`), and that what a sync is to bring is here, or waits to be
  pulled (`Brought`).
* `EchoesStop`: `NotAhead => (Spec => []EchoesEnd)`, for any number of devices, with exact times
  and local time not ahead of UTC. A device that pushed since the last edit has
  noted a later time than any edit it holds, so it is told not to push (`EchoSilences`);
  other snapshots of the sync are counted by the failures.

`RedisOrMemoryProofs` proves of the login, for any processes, callbacks, codes, times to
live and faults, from `BackendAssumption` and `LoginAssumption`:

* `TypeCorrect`, `OneCallbackHandles` (`HandledOnce`) and `TokenIsGone` (`TokenIsTaken`).
  While no store failed and no callbacks overlapped, one store at most has an entry,
  the entry is pending exactly until somebody handled the login, and whoever is
  handling it is alone and asks that store (`OneResult`); a result found by a poll is
  still in the store of the process that found it, and is gone once the desktop is
  logged in (`TakenFromItsStore`).
* `CompletedIsSeen`: `OneStore /\ ResultTTL > 1 => (Spec => []CompletedReaches)`. `OneStore`
  is Redis or a single process; with memory stores and two processes the poll may
  ask the wrong one. A result must outlive the time to the next poll: in the code
  it is kept for at least 60 s and the desktop polls every 1.5 s. The invariant
  (`KeepsPolling`) ties the age of the login to what is left of the pending entry, so that
  the desktop still polls when the result is stored.

And of the rate limiter, for any finite number of processes, limit, window, ticks in
a second, wall clocks and faults, from `BackendAssumption` and `LimitAssumption`:

* `LimiterTypeCorrect` (`LimiterTypeOK`) and `LimitIsKept`: `LimiterSpec => []WithinLimit`.
  The property counts admissions, the code counts what is in a deque or in the set,
  at times that differ by the clock of whoever wrote them. The invariant
  (`LimiterInv`) compares the two counts from every point of time on: a deque is in
  order and has exactly what its process admitted in the window (`DequesTell`), and the
  set has at least as many events after a point by the slowest clock as Redis
  admitted after it, as long as the point is in the window of every clock (`Covers`).
  A run of the script removes nothing after such a point and adds an event after
  it whenever an admission is. That Redis drops the key needs that it outlives the
  window of what it counted (`KeyOutlives`).
* `RefusedOnlyWhenFull` (`RefusesOnlyWhenFull`), an action property. The converse count:
  without faults no event is in the set that nobody was admitted for, so after a
  point in the window of any clock, by the fastest, the set has no more events
  than Redis admitted (`Reflects`). A refusal finds the limit there.
* `RetryIsEnough`: `Backend = "redis" => (LimiterSpec => []RetryAfterSuffices)`. The memory
  limiter cuts the fraction off and does not keep this promise (see above). The
  invariant (`PromiseStands`) keeps a witness: an event still in the set that leaves the
  window by the time promised, even by the fastest clock, unless the set has
  room already. Any later refusal finds that event still live, so it comes less than
  the clocks' disagreement after the time promised.

`LearningProofs` proves, for any number of lessons, repairs and due reviews, from
`ProgramAssumption`: `TypeCorrect`, `FocusIsAlwaysOpen` (`FocusIsOpen`), `RepairsAlwaysLead`
(`RepairsLeadToTheirLesson`), `FlagsAreBacked` (`FlagIsBacked`) and the refinement
`LessonsAlwaysGated` (`Spec => LessonsAreGated`). The invariant says that the lessons
stand in the path in their order with the repairs of each before it (`PathOK`), that
a lesson is open exactly when the one before it was passed and only open nodes were
studied (`OpenOK`), and that no lesson has two repairs that were never passed
(`OneUnpassed`). The lessons that are open are then a prefix, whose length the passed
ones determine (`GateTells`), so each handler maps to a step of `GatedPath` or to a
stutter. Reordered positions and the focus, found by scanning the path, are
characterised once, by lemmas about sequences and least numbers.

`EncryptionProofs` proves, for any passwords and faults, from `EncryptionAssumption`:

* `TypeCorrect`, and `DatabaseOpensAsTold` (`OpensAsTold`): the invariant says for each
  step of a request which key file, salt and files it can rely on, whatever earlier
  attempts left (`KeysInStep`, `FilesInStep`), and that without faults there is one copy
  of the rows, or two in the middle of a request (`NothingFailed`).
* `NothingPlainIsLeft` (`EncryptedLeavesNothingPlain`), an action property: the only
  copies in the clear are the database and the backup of an encryption, and a
  decryption under way (`PlainOnlyWhere`).
* `RowsAreKept`: `~Overwrites => (Spec => []RowsSurvive)`, by following where the rows are
  (`RowsHeld`). The hypothesis is Windows' `rename`, which refuses to replace a file. Where
  it replaces, the property is false: after an encryption that could not be
  finished, the next one moves another file over the `unencrypted.bak` that alone
  holds the rows. TLC shows it with `Overwrites = TRUE`.

`UndoProofs` proves, for any paths, texts, calls, history length and mishaps, from
`UndoAssumption` (calls are finitely many, which bounds the history with what
overlapping undos put back):

* `TypeCorrect` and `BackupsStay` (`BackupsAreThere`): an item of the trash is claimed by one
  entry or one call at most, and is there (`EntriesClaim`, `JobsClaim`).
* `UndoGoesBack` (`UndoRestores`): while the history is clean, undoing its entries from
  the top leads back through the folders there were, beginning with the folder as
  it is or as it was before the one call in flight (`History`).
* `NothingLost` (`ChangesLoseNothing`), an action property: what a call that is alone is
  about to replace is in the trash, and the name it moves to is free (`Alone`).

Every safety and action property of the runs that pass is thus a theorem, under the
hypotheses stated. What stays with TLC is liveness (`LocksEnd`, `PaidIsHonored`,
`AnswersAreKept`), which needs fairness and `ENABLED`.

## 6. Not modelled

Stripe and the mock provider; the upload and restore API and restores without
merge; deletions, which a merge import brings back; knowledge items, facts and
assertions, and the background extraction of facts; delegated partner tokens;
the search cache; the updater. A workspace with children cannot be deleted at all
(its parent reference fails): `DeleteWorkspace` has workspaces without. Of the
chat turn, the title's text, embeddings, images and usage rows; of the desktop,
moves across devices, and that the trash is never emptied.

By lines most of the repository is text processing (prompt assembly, extraction of
facts and terms, scoring of answers, ranking of search results, templates of
skills and lessons), presentation, provider payloads and tooling, which keep no
state over time. They are abstracted to what the models tell apart (a grade, a
title, a message) or left out, and the map covers accordingly few lines.

## 7. Plan

1. `CloudBackup`: uploads, restores and the quota, composed with `SyncBilling`'s
   entitlement; an interrupted restore against the store it cleared.
2. `MemoryAssertions`: assertions superseded by later ones against extraction in
   the background; `PartnerTokens`.
3. Stripe objects out of order in `SyncBilling`.
