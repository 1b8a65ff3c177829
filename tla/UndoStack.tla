------------------------------ MODULE UndoStack ------------------------------
(***************************************************************************)
(* The changes the desktop makes to the opened folder, and their undo:     *)
(* the handlers fs:write-file, fs:create-file, fs:create-folder,           *)
(* fs:rename-path, fs:delete-path and fs:undo-last-change of               *)
(* src/electron/main.ts.                                                   *)
(*                                                                         *)
(* A handler is asynchronous: between two of its awaits the steps of other *)
(* calls run, and other programs change the folder.  The stack of undo     *)
(* entries is in the memory of the process; what an entry needs to be      *)
(* undone is kept in the folder's .pigtex-trash, under a name of its own.  *)
(* A folder is one item that keeps its contents wherever it goes.          *)
(***************************************************************************)
EXTENDS Integers, Sequences, FiniteSets

CONSTANTS
    Paths,          \* names in the opened folder
    Texts,          \* contents
    Absent, Cut,    \* nothing under the name; a file whose write failed
    Calls,          \* calls in flight at once
    MaxHistory,     \* MAX_UNDO_HISTORY
    MaxCalls,       \* bound: calls
    MaxMishaps      \* bound: writes that fail, restarts, other programs' changes

ASSUME UndoAssumption ==
    /\ Absent \notin Texts /\ Cut \notin Texts /\ Absent # Cut
    /\ IsFiniteSet(Calls)
    /\ MaxHistory \in Nat \ {0} /\ MaxCalls \in Nat
    /\ MaxMishaps \in Nat

VARIABLES
    files,      \* the folder
    kept,       \* the trash: what was put there, Absent if it was taken back
    stack,      \* undo entries, the latest last
    at,         \* where a call is
    job,        \* what it does
    begun, mishaps,
    \* history, read by no guard of the code:
    alone,      \* calls in flight beside which nothing has happened
    clean       \* so far no call overlapped another, failed in a write, or met
                \* a change of another program

vars == <<files, kept, stack, at, job, begun, mishaps, alone, clean>>

Held == Texts \cup {Cut}
Folders == [Paths -> Held \cup {Absent}]
Ops == {"write", "create", "rename", "delete"}
Undos == {"undo create", "undo write", "undo rename", "undo delete"}

\* A job: an operation or an undo on path; other is the path it is renamed from
\* or to, item the place in the trash, and was the folder before the operation
\* as long as the history is clean, which only a property reads.  An undo entry is the job of undoing.
NoJob == [op |-> "none", path |-> Absent, other |-> Absent, text |-> Absent,
          item |-> 0, was |-> Absent]
Job(op, path) == [NoJob EXCEPT !.op = op, !.path = path]

Requests ==
    {[Job(op, p) EXCEPT !.text = x] :
        op \in {"write", "create"}, p \in Paths, x \in Texts}
    \cup {[Job("rename", p) EXCEPT !.other = q] : p \in Paths, q \in Paths}
    \cup {Job("delete", p) : p \in Paths}

Places == {"idle", "begun", "there", "free", "changed", "undone"}
Busy == {c \in Calls : at[c] # "idle"}
Undoing(c) == job[c].op \in Undos

Init ==
    /\ files \in Folders /\ \A p \in Paths : files[p] # Cut
    /\ kept = <<>>
    /\ stack = <<>>
    /\ at = [c \in Calls |-> "idle"]
    /\ job = [c \in Calls |-> NoJob]
    /\ begun = 0 /\ mishaps = 0
    /\ alone = {}
    /\ clean = TRUE

-----------------------------------------------------------------------------

Goto(c, where) == at' = [at EXCEPT ![c] = where]
Done(c) ==
    /\ Goto(c, "idle")
    /\ job' = [job EXCEPT ![c] = NoJob]
    /\ alone' = alone \ {c}

\* A step of a call that changes no file.
Looks == UNCHANGED <<files, kept, begun, mishaps, clean>>
\* One that does.
Changes == UNCHANGED <<begun, mishaps, alone, clean>>

Put(p, what) == files' = [files EXCEPT ![p] = what]
Move(p, q) == files' = [files EXCEPT ![p] = Absent, ![q] = files[p]]

Calm == clean /\ Busy = {}

\* A call begins, beside those that run.
Begins(c, what) ==
    /\ at[c] = "idle" /\ begun < MaxCalls
    /\ Goto(c, "begun")
    /\ job' = [job EXCEPT ![c] = what]
    /\ alone' = IF Busy = {} THEN {c} ELSE {}
    /\ clean' = Calm
    /\ begun' = begun + 1
    /\ UNCHANGED <<files, kept, mishaps>>

Request(c, what) ==
    /\ Begins(c, [what EXCEPT !.was = IF Calm THEN files ELSE Absent])
    /\ UNCHANGED stack

\* The handler of the undo takes the entry off before it awaits anything.
Undo(c) ==
    LET n == Len(stack)
    IN /\ n > 0
       /\ Begins(c, stack[n])
       /\ stack' = SubSeq(stack, 1, n - 1)

\* An error ends a call; the entry that could not be undone goes back on top.
Fails(c) ==
    /\ Done(c)
    /\ stack' = IF Undoing(c) THEN Append(stack, job[c]) ELSE stack
    /\ Looks

Goes(c, where) == Goto(c, where) /\ UNCHANGED <<stack, job, alone>> /\ Looks

-----------------------------------------------------------------------------
(* Looking before the change.                                              *)

\* What has to be there: the path to rename, or the one a rename left.
Source(c) == IF job[c].op = "rename" THEN job[c].path ELSE job[c].other
Target(c) == IF job[c].op = "rename" THEN job[c].other ELSE job[c].path

LookForSource(c) ==
    /\ at[c] = "begun" /\ job[c].op \in {"rename", "undo rename"}
    /\ IF files[Source(c)] # Absent THEN Goes(c, "there") ELSE Fails(c)

\* The target of a rename or of something taken back has to be free.
LookForTarget(c) ==
    /\ \/ at[c] = "there" /\ job[c].op \in {"rename", "undo rename"}
       \/ at[c] = "begun" /\ job[c].op = "undo delete"
    /\ IF files[Target(c)] = Absent THEN Goes(c, "free") ELSE Fails(c)

\* Mutant: a write does not look for what it overwrites.
LookNever(c) ==
    /\ at[c] = "begun"
    /\ \/ job[c].op = "write" /\ Goes(c, "free")
       \/ job[c].op = "undo create"
          /\ Goes(c, IF files[job[c].path] = Absent THEN "undone" ELSE "there")

\* Whether a write has something to keep, and an undone creation to remove.
LookAtFile(c) ==
    /\ at[c] = "begun"
    /\ \/ job[c].op = "write"
          /\ Goes(c, IF files[job[c].path] = Absent THEN "free" ELSE "there")
       \/ job[c].op = "undo create"
          /\ Goes(c, IF files[job[c].path] = Absent THEN "undone" ELSE "there")

-----------------------------------------------------------------------------
(* The changes.                                                            *)

\* Mutant: all copies have one name.
KeepCopyOneName(c) ==
    /\ at[c] = "there" /\ job[c].op = "write"
    /\ IF files[job[c].path] = Absent THEN Fails(c)
       ELSE /\ kept' = <<files[job[c].path]>>
            /\ job' = [job EXCEPT ![c].item = 1]
            /\ Goto(c, "free")
            /\ UNCHANGED <<files, stack>> /\ Changes

\* createBackupFileForUndo: a copy of the file that is about to be written.
KeepCopy(c) ==
    /\ at[c] = "there" /\ job[c].op = "write"
    /\ IF files[job[c].path] = Absent THEN Fails(c)
       ELSE /\ kept' = Append(kept, files[job[c].path])
            /\ job' = [job EXCEPT ![c].item = Len(kept) + 1]
            /\ Goto(c, "free")
            /\ UNCHANGED <<files, stack>> /\ Changes

Write(c) ==
    /\ at[c] = "free" /\ job[c].op = "write"
    /\ Put(job[c].path, job[c].text)
    /\ Goto(c, "changed")
    /\ UNCHANGED <<kept, stack, job>> /\ Changes

\* The file system refuses to create what exists.
Create(c) ==
    /\ at[c] = "begun" /\ job[c].op = "create"
    /\ IF files[job[c].path] # Absent THEN Fails(c)
       ELSE /\ Put(job[c].path, job[c].text)
            /\ Goto(c, "changed")
            /\ UNCHANGED <<kept, stack, job>> /\ Changes

\* rename replaces what came under the new name in the meantime.
Rename(c) ==
    /\ at[c] = "free" /\ job[c].op \in {"rename", "undo rename"}
    /\ IF files[Source(c)] = Absent THEN Fails(c)
       ELSE /\ Move(Source(c), Target(c))
            /\ Goto(c, IF Undoing(c) THEN "undone" ELSE "changed")
            /\ UNCHANGED <<kept, stack, job>> /\ Changes

Delete(c) ==
    /\ at[c] = "begun" /\ job[c].op = "delete"
    /\ IF files[job[c].path] = Absent THEN Fails(c)
       ELSE /\ kept' = Append(kept, files[job[c].path])
            /\ job' = [job EXCEPT ![c].item = Len(kept) + 1]
            /\ Put(job[c].path, Absent)
            /\ Goto(c, "changed")
            /\ UNCHANGED stack /\ Changes

UndoCreate(c) ==
    /\ at[c] = "there" /\ job[c].op = "undo create"
    /\ IF files[job[c].path] = Absent THEN Fails(c)
       ELSE /\ Put(job[c].path, Absent)
            /\ Goto(c, "undone")
            /\ UNCHANGED <<kept, stack, job>> /\ Changes

UndoWrite(c) ==
    /\ at[c] = "begun" /\ job[c].op = "undo write"
    /\ Put(job[c].path, kept[job[c].item])
    /\ Goto(c, "undone")
    /\ UNCHANGED <<kept, stack, job>> /\ Changes

UndoDelete(c) ==
    /\ at[c] = "free" /\ job[c].op = "undo delete"
    /\ Put(job[c].path, kept[job[c].item])
    /\ kept' = [kept EXCEPT ![job[c].item] = Absent]
    /\ Goto(c, "undone")
    /\ UNCHANGED <<stack, job>> /\ Changes

-----------------------------------------------------------------------------
(* The end of a call.                                                      *)

\* Mutant: every write is undone as a creation.
EntryForgetsCopy(j) ==
    LET kind == CASE j.op = "rename" -> "undo rename"
                  [] j.op = "delete" -> "undo delete"
                  [] OTHER -> "undo create"
    IN [j EXCEPT !.op = kind, !.text = Absent]

\* The entry that undoes a job.
Entry(j) ==
    LET kind == CASE j.op = "write" /\ j.item # 0 -> "undo write"
                  [] j.op = "rename" -> "undo rename"
                  [] j.op = "delete" -> "undo delete"
                  [] OTHER -> "undo create"
    IN [j EXCEPT !.op = kind, !.text = Absent]

\* Mutant: the history has no end.
PushedAll(entry) == Append(stack, entry)

\* pushUndoEntry drops the oldest entry of a full history.
Pushed(entry) ==
    LET longer == Append(stack, entry)
    IN IF Len(longer) > MaxHistory THEN Tail(longer) ELSE longer

Push(c) ==
    /\ at[c] = "changed"
    /\ stack' = Pushed(Entry(job[c]))
    /\ Done(c) /\ Looks

Return(c) == at[c] = "undone" /\ Done(c) /\ UNCHANGED stack /\ Looks

-----------------------------------------------------------------------------
(* Faults, and what happens beside the calls.                              *)

\* A write fails after it has cut the file off.
WriteFails(c) ==
    /\ mishaps < MaxMishaps
    /\ \/ at[c] = "free" /\ job[c].op = "write"
       \/ at[c] = "begun" /\ job[c].op = "undo write"
    /\ Put(job[c].path, Cut)
    /\ Done(c)
    /\ stack' = IF Undoing(c) THEN Append(stack, job[c]) ELSE stack
    /\ mishaps' = mishaps + 1
    /\ clean' = FALSE
    /\ UNCHANGED <<kept, begun>>

\* Another program writes or removes a file.
Outside(p, what) ==
    /\ mishaps < MaxMishaps
    /\ files[p] # what
    /\ Put(p, what)
    /\ mishaps' = mishaps + 1
    /\ alone' = {}
    /\ clean' = FALSE
    /\ UNCHANGED <<kept, stack, at, job, begun>>

\* Opening the folder again forgets the history, but not the calls in flight.
OpenFolder ==
    /\ stack # <<>>
    /\ stack' = <<>>
    /\ clean' = (Busy = {})
    /\ UNCHANGED <<files, kept, at, job, begun, mishaps, alone>>

Restart ==
    /\ mishaps < MaxMishaps
    /\ stack' = <<>>
    /\ at' = [c \in Calls |-> "idle"]
    /\ job' = [c \in Calls |-> NoJob]
    /\ mishaps' = mishaps + 1
    /\ alone' = {}
    /\ clean' = TRUE
    /\ UNCHANGED <<files, kept, begun>>

-----------------------------------------------------------------------------

Step(c) ==
    \/ LookForSource(c) \/ LookForTarget(c) \/ LookAtFile(c)
    \/ KeepCopy(c) \/ Write(c) \/ Create(c) \/ Rename(c) \/ Delete(c)
    \/ UndoCreate(c) \/ UndoWrite(c) \/ UndoDelete(c)
    \/ Push(c) \/ Return(c)

Next ==
    \/ \E c \in Calls, what \in Requests : Request(c, what)
    \/ \E c \in Calls : Undo(c) \/ Step(c) \/ WriteFails(c)
    \/ \E p \in Paths, what \in Texts \cup {Absent} : Outside(p, what)
    \/ OpenFolder
    \/ Restart

Spec == Init /\ [][Next]_vars

-----------------------------------------------------------------------------

Jobs == [op : {"none"} \cup Ops \cup Undos, path : Paths \cup {Absent},
         other : Paths \cup {Absent}, text : Texts \cup {Absent},
         item : Nat, was : Folders \cup {Absent}]

\* Types, and the length of the history, which only undos that failed exceed.
TypeOK ==
    /\ files \in Folders
    /\ kept \in Seq(Held \cup {Absent})
    /\ stack \in Seq(Jobs) /\ \A i \in DOMAIN stack : stack[i].op \in Undos
    /\ Len(stack) < MaxHistory + Cardinality(Calls)
    /\ at \in [Calls -> Places] /\ job \in [Calls -> Jobs]
    /\ \A c \in Calls : (at[c] = "idle") <=> (job[c] = NoJob)
    /\ begun \in 0..MaxCalls /\ mishaps \in 0..MaxMishaps
    /\ alone \subseteq Busy /\ clean \in BOOLEAN

\* An undo leaves the folder as it was before the change it undoes, unless
\* calls overlapped, a write failed or another program changed the folder since
\* the history began.
UndoRestores ==
    \A c \in Calls : clean /\ at[c] = "undone" => files = job[c].was

\* Whatever overlaps or fails: what an entry takes back is in the trash, and no
\* two entries share it.  An undo that failed can be tried again.
Pending == {stack[i] : i \in DOMAIN stack}
           \cup {job[c] : c \in {d \in Calls : Undoing(d) /\ at[d] # "undone"}}
BackupsAreThere ==
    /\ \A e \in Pending : e.op \in {"undo write", "undo delete"} =>
          e.item \in DOMAIN kept /\ kept[e.item] # Absent
    /\ \A i, j \in DOMAIN stack :
          i # j /\ stack[i].item = stack[j].item => stack[i].item = 0

\* A change made beside no other loses nothing: every text there was is in the
\* folder or in the trash, even if the write fails and nothing is recorded.
Saved == {files[p] : p \in Paths} \cup {kept[i] : i \in DOMAIN kept}
ChangesLoseNothing ==
    [][\A c \in alone :
          ~Undoing(c) /\ at' # at => (Saved \cap Held) \subseteq Saved']_vars
=============================================================================
