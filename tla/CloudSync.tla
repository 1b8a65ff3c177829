------------------------------ MODULE CloudSync ------------------------------
(***************************************************************************)
(* Personal sync of one user's devices over snapshots in cloud storage:    *)
(* the sync half of src/backend/app/services/cloud_backup_service.py, the  *)
(* merge import of the local store, and the client's handleSyncNow.        *)
(*                                                                         *)
(* A device's local store is on the server's machine, under the scope the  *)
(* device names; a handler is one synchronous body on the event loop and   *)
(* does not interleave with another, but handleSyncNow is four requests,   *)
(* between which other devices sync and the user goes on editing.  The     *)
(* clock advances with every step that reads it.  An item is the time it   *)
(* was last edited at, 0 while it is absent: edits have different times.   *)
(***************************************************************************)
EXTENDS Integers, FiniteSets, FiniteSetsExt

CONSTANTS
    Devices,
    Items,          \* rows merged by updated_at: workspaces, notes, facts, ...
    MaxSnapshots,   \* quota.max_snapshots: snapshot rows of the user
    Quota,          \* quota.quota_bytes, in snapshots
    Grain,          \* ticks per unit of the database's timestamps
    LocalAhead,     \* ticks by which datetime.now() differs from UTC
    MaxEdits,       \* bound
    MaxBackups,     \* bound: backups by hand
    MaxFaults       \* bound: requests that fail or die half-way

ASSUME SyncAssumption ==
    /\ IsFiniteSet(Devices) /\ Devices # {}
    /\ IsFiniteSet(Items) /\ Items # {}
    /\ MaxSnapshots \in Nat /\ Quota \in Nat
    /\ Grain \in Nat \ {0} /\ LocalAhead \in Int
    /\ MaxEdits \in Nat /\ MaxBackups \in Nat /\ MaxFaults \in Nat

\* The clock starts late enough for every time of the model to be positive.
Start == Grain * (1 + (IF LocalAhead < 0 THEN -LocalAhead ELSE LocalAhead))

PCs == {"idle", "pulling", "pulled", "pushing"}

VARIABLES
    now,
    local,      \* per device and item, the local time of the edit it holds
    snapshots,  \* CloudSnapshotManifest: [by, created, status, data]
    pushedAt,   \* UserDevice.last_sync_push_at, 0 for none
    pulledAt,   \* UserDevice.last_sync_pull_at, 0 for none
    pc,         \* where handleSyncNow is
    edits, faults,
    \* history, read by no guard of the code:
    completed,  \* devices whose last sync said "Cloud sync completed"
    basis       \* per device and item, the newest edit the cloud and the device
                \* had when its sync began

vars == <<now, local, snapshots, pushedAt, pulledAt, pc, edits, faults,
          completed, basis>>

Absent == [i \in Items |-> 0]

Init ==
    /\ now = Start
    /\ local = [d \in Devices |-> Absent]
    /\ snapshots = {}
    /\ pushedAt = [d \in Devices |-> 0]
    /\ pulledAt = [d \in Devices |-> 0]
    /\ pc = [d \in Devices |-> "idle"]
    /\ edits = 0 /\ faults = 0
    /\ completed = {}
    /\ basis = [d \in Devices |-> Absent]

-----------------------------------------------------------------------------
(* Timestamps.  datetime.now() of the local store is naive local time, with *)
(* a fraction; DATETIME columns hold whole seconds: NOW() truncates, and a  *)
(* value with a fraction is rounded when it is stored.                      *)

LocalNow == now + LocalAhead
Truncated == (now \div Grain) * Grain
Rounded == ((now + Grain \div 2) \div Grain) * Grain

Newest(data) == Max({data[i] : i \in Items})

\* The item-wise newer of two stores.
Merged(a, b) == [i \in Items |-> IF a[i] > b[i] THEN a[i] ELSE b[i]]

-----------------------------------------------------------------------------
(* get_sync_state.                                                          *)

Ready(s) == s.status = "ready"
Own(d) == {s \in snapshots : Ready(s) /\ s.by = d}
Remote(d) == {s \in snapshots : Ready(s) /\ s.by # d}

\* _get_latest_ready_snapshot: by created_at; equal times come in any order.
Latest(S) == {s \in S : \A t \in S : t.created <= s.created}

\* get_latest_update_at is compared with the times of the last push.
PushNeeded(d) ==
    LET updated == Newest(local[d]) IN
    /\ updated > 0
    /\ \/ pushedAt[d] = 0
       \/ updated > pushedAt[d]
       \/ \E s \in Latest(Own(d)) : updated > s.created

\* Mutant: the time of the last pull is not looked at once there is one.
NeverPulled(d) == Remote(d) # {} /\ pulledAt[d] = 0

PullNeeded(d) == \E s \in Latest(Remote(d)) : pulledAt[d] = 0 \/ s.created > pulledAt[d]

-----------------------------------------------------------------------------
(* handleSyncNow: state, pull if needed, state again, push if needed.       *)

Goto(d, where) == pc' = [pc EXCEPT ![d] = where]

Completes(d) == Goto(d, "idle") /\ completed' = completed \cup {d}

\* An error of a request is shown, and the sync is over.
Fails(d) ==
    /\ faults < MaxFaults /\ faults' = faults + 1
    /\ Goto(d, "idle")
    /\ UNCHANGED completed

\* Everything the cloud holds.
InCloud(i) == Max({0} \cup {s.data[i] : s \in {t \in snapshots : Ready(t)}})

BeginSync(d) ==
    /\ pc[d] = "idle"
    /\ Goto(d, IF PullNeeded(d) THEN "pulling" ELSE "pulled")
    /\ completed' = completed \ {d}
    /\ basis' = [basis EXCEPT ![d] = Merged(local[d], [i \in Items |-> InCloud(i)])]
    /\ UNCHANGED <<now, local, snapshots, pushedAt, pulledAt, edits, faults>>

\* Mutant: the import replaces what it finds.
Overwritten(mine, theirs) == [i \in Items |-> IF theirs[i] > 0 THEN theirs[i] ELSE mine[i]]

\* import_from_data(merge=True): an incoming row that is older is skipped; a row
\* the snapshot lacks is kept.
Imported(mine, theirs) == Merged(mine, theirs)

\* pull_latest_sync_snapshot: of the other devices' snapshots only the latest.
Pull(d) ==
    /\ pc[d] = "pulling"
    /\ \E s \in Latest(Remote(d)) :
          local' = [local EXCEPT ![d] = Imported(@, s.data)]
    /\ pulledAt' = [pulledAt EXCEPT ![d] = Rounded]
    /\ now' = now + 1
    /\ Goto(d, "pulled")
    /\ UNCHANGED <<snapshots, pushedAt, edits, faults, completed, basis>>

\* The download fails, or the process dies amid the import: every row is saved
\* in a transaction of its own, and the time of the pull is not.
PullFails(d) ==
    /\ pc[d] = "pulling"
    /\ \E s \in Latest(Remote(d)), some \in SUBSET Items :
          local' = [local EXCEPT ![d] =
                      [i \in Items |-> IF i \in some THEN Imported(@, s.data)[i] ELSE @[i]]]
    /\ Fails(d)
    /\ UNCHANGED <<now, snapshots, pushedAt, pulledAt, edits, basis>>

\* The state is asked again: the client pushes what it is told to, and is done
\* if it is told nothing; a pull that became needed waits for the next sync.
CheckAgain(d) ==
    /\ pc[d] = "pulled"
    /\ IF PushNeeded(d) THEN Goto(d, "pushing") /\ UNCHANGED completed
                        ELSE Completes(d)
    /\ UNCHANGED <<now, local, snapshots, pushedAt, pulledAt, edits, faults, basis>>

Counted(s) == s.status \in {"upload_requested", "ready"}

\* Mutant: the limit on snapshots is one too many.
FitsOnceMore ==
    /\ Cardinality({s \in snapshots : Counted(s)}) < Quota
    /\ Cardinality(snapshots) <= MaxSnapshots

\* calculate_usage_bytes and _ensure_snapshot_capacity: no row is ever deleted.
Fits ==
    /\ Cardinality({s \in snapshots : Counted(s)}) < Quota
    /\ Cardinality(snapshots) < MaxSnapshots

Snapshot(d, trigger, status) ==
    [by |-> d, created |-> Truncated, trigger |-> trigger, status |-> status,
     data |-> local[d], at |-> now]

\* Mutant: only the restore, not the push, is dated.
Undated(d) == pushedAt

Dated(d) == [pushedAt EXCEPT ![d] = Rounded]

\* push_sync_snapshot: exported, stored and ready in one request.
Push(d) ==
    /\ pc[d] = "pushing" /\ Fits
    /\ snapshots' = snapshots \cup {Snapshot(d, "sync", "ready")}
    /\ pushedAt' = Dated(d)
    /\ now' = now + 1
    /\ Completes(d)
    /\ UNCHANGED <<local, pulledAt, edits, faults, basis>>

\* The upload fails, or the process dies after the row was committed.
PushFails(d) ==
    /\ pc[d] = "pushing" /\ Fits
    /\ \E status \in {"failed", "upload_requested"} :
          snapshots' = snapshots \cup {Snapshot(d, "sync", status)}
    /\ now' = now + 1
    /\ Fails(d)
    /\ UNCHANGED <<local, pushedAt, pulledAt, edits, basis>>

\* "Cloud backup quota exceeded", "Cloud snapshot limit reached for the current
\* plan": nothing is written.
PushRefused(d) ==
    /\ pc[d] = "pushing" /\ ~Fits
    /\ Goto(d, "idle")
    /\ UNCHANGED <<now, local, snapshots, pushedAt, pulledAt, edits, faults,
                   completed, basis>>

\* create_local_snapshot for a manual backup: a snapshot like any other, but the
\* time of the last push stays.
Backup(d) ==
    /\ Fits
    /\ Cardinality({s \in snapshots : s.trigger = "manual"}) < MaxBackups
    /\ snapshots' = snapshots \cup {Snapshot(d, "manual", "ready")}
    /\ now' = now + 1
    /\ UNCHANGED <<local, pushedAt, pulledAt, pc, edits, faults, completed, basis>>

\* The user edits or creates an item, whatever its device is syncing.
Edit(d, i) ==
    /\ edits < MaxEdits /\ edits' = edits + 1
    /\ local' = [local EXCEPT ![d][i] = LocalNow]
    /\ now' = now + 1
    /\ UNCHANGED <<snapshots, pushedAt, pulledAt, pc, faults, completed, basis>>

Sync(d) ==
    \/ BeginSync(d)
    \/ Pull(d) \/ PullFails(d)
    \/ CheckAgain(d)
    \/ Push(d) \/ PushFails(d) \/ PushRefused(d)

Next == \E d \in Devices : Sync(d) \/ Backup(d) \/ \E i \in Items : Edit(d, i)

Spec == Init /\ [][Next]_vars

-----------------------------------------------------------------------------

Snapshots == [by : Devices, created : Nat, at : Nat, data : [Items -> Nat],
              trigger : {"sync", "manual"}, status : {"upload_requested", "failed", "ready"}]

TypeOK ==
    /\ now \in Nat
    /\ local \in [Devices -> [Items -> Nat]]
    /\ snapshots \subseteq Snapshots /\ Cardinality(snapshots) <= MaxSnapshots
    /\ pushedAt \in [Devices -> Nat] /\ pulledAt \in [Devices -> Nat]
    /\ pc \in [Devices -> PCs]
    /\ edits \in 0..MaxEdits /\ faults \in 0..MaxFaults
    /\ completed \subseteq Devices
    /\ basis \in [Devices -> [Items -> Nat]]

Quiet(d) == pc[d] = "idle" /\ ~PullNeeded(d) /\ ~PushNeeded(d)

\* When every device is told that it is idle, all of them hold the same.
IdleMeansEqual ==
    (\A d \in Devices : Quiet(d)) => \A d, e \in Devices : local[d] = local[e]

\* "Cloud sync completed": the device holds the newest of all that it and the
\* cloud held when its sync began, and so does the cloud.
CompletedIsCurrent ==
    \A d \in completed, i \in Items :
        /\ local[d][i] >= basis[d][i]
        /\ InCloud(i) >= basis[d][i]

LastEdit == Max({0} \cup {Newest(local[d]) : d \in Devices})

\* Once the user stops editing, snapshots stop going back and forth: after the
\* last edit a device pushes once, and once more for each request that failed.
EchoesEnd ==
    \A d \in Devices :
        LET echoes == {s \in snapshots : /\ s.by = d /\ s.trigger = "sync"
                                        /\ s.at + LocalAhead > LastEdit}
        IN Cardinality(echoes) <= 1 + faults
=============================================================================
