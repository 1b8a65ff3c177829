------------------------------ MODULE UndoProofs ------------------------------
(***************************************************************************)
(* Theorems about UndoStack, for any folder, contents, number of calls,    *)
(* history and number of mishaps.                                          *)
(***************************************************************************)
EXTENDS UndoStack, FiniteSetTheorems, SequenceTheorems, TLAPS

-----------------------------------------------------------------------------
(* The inductive invariant.                                                *)

\* The undos in flight that may still fail, and put their entry back.
Returning == {c \in Calls : Undoing(c) /\ at[c] # "undone"}

\* While some calls undo, at most one less than all push entries.
LengthOK == Len(stack) + Cardinality(Returning) < MaxHistory + Cardinality(Calls)

\* The places a job passes through.
PlacesOK ==
    \A c \in Calls :
        /\ at[c] = "undone" => Undoing(c)
        /\ at[c] = "changed" => job[c].op \in Ops
        /\ job[c].op = "create" => at[c] \in {"begun", "changed"}
        /\ job[c].op = "delete" => at[c] \in {"begun", "changed"}

\* A job, and an entry, names paths of the folder.
Names(e) ==
    /\ e.path \in Paths
    /\ e.op \in {"rename", "undo rename"} => e.other \in Paths
NamesOK ==
    /\ \A c \in Calls : at[c] # "idle" => Names(job[c])
    /\ \A i \in DOMAIN stack : Names(stack[i])

\* What is in the trash for an entry, or a job, and taken back by none but it.
InTrash(item) == item \in DOMAIN kept /\ kept[item] # Absent
Claiming == {c \in Calls : at[c] # "undone"}

EntriesClaim ==
    \A i \in DOMAIN stack :
        /\ stack[i].op \in {"undo write", "undo delete"} => stack[i].item # 0
        /\ stack[i].item # 0 => InTrash(stack[i].item)
        /\ \A j \in DOMAIN stack :
              i # j /\ stack[i].item = stack[j].item => stack[i].item = 0
        /\ \A c \in Claiming : job[c].item = stack[i].item => stack[i].item = 0

JobsClaim ==
    \A c \in Claiming :
        /\ job[c].op \in {"undo write", "undo delete"} => job[c].item # 0
        /\ job[c].op = "delete" /\ at[c] = "changed" => job[c].item # 0
        /\ job[c].op = "write" /\ at[c] \in {"begun", "there"} => job[c].item = 0
        /\ job[c].item # 0 => InTrash(job[c].item)
        /\ \A d \in Claiming : c # d /\ job[c].item = job[d].item => job[c].item = 0

\* Beside a call that is alone there is no other; what it is about to replace is
\* in the trash, and the name it renames to is free.
Alone ==
    /\ alone # {} => Busy = alone
    /\ \A c, d \in alone : c = d
    /\ clean => Busy \subseteq alone
    /\ \A c \in alone : at[c] = "free" =>
          /\ job[c].op = "write" =>
                files[job[c].path] = IF job[c].item = 0 THEN Absent ELSE kept[job[c].item]
          /\ job[c].op = "rename" => files[job[c].other] = Absent

\* What undoing an entry makes of a folder.
With(folder, p, what) == [folder EXCEPT ![p] = what]
Moved(folder, p, q) == [folder EXCEPT ![p] = Absent, ![q] = folder[p]]
Undone(e, folder, trash) ==
    CASE e.op = "undo create" -> With(folder, e.path, Absent)
      [] e.op \in {"undo write", "undo delete"} -> With(folder, e.path, trash[e.item])
      [] e.op = "undo rename" -> Moved(folder, e.other, e.path)

\* Undoing the entries one by one, beginning with this folder, goes back through
\* the folders there were.
LeadsBack(folder) ==
    \A i \in DOMAIN stack :
        stack[i].was =
            Undone(stack[i], IF i = Len(stack) THEN folder ELSE stack[i + 1].was, kept)

\* The folder as it is, or as an undo will leave it, or as it was before a change.
Before(c) ==
    IF Undoing(c)
    THEN IF at[c] = "undone" THEN files ELSE Undone(job[c], files, kept)
    ELSE IF at[c] = "changed" THEN Undone(Entry(job[c]), files, kept) ELSE files

\* While the history is clean it leads back from the folder as it is, or as it
\* was before the one call in flight.
History ==
    clean =>
        /\ Busy = {} => LeadsBack(files)
        /\ \A c \in Busy : job[c].was = Before(c) /\ LeadsBack(job[c].was)

IInv ==
    /\ TypeOK /\ LengthOK /\ PlacesOK /\ NamesOK
    /\ EntriesClaim /\ JobsClaim
    /\ Alone /\ History

-----------------------------------------------------------------------------
(* Jobs, entries, and the two ways the stack grows.                        *)

LEMMA JobFields ==
    ASSUME NEW e \in Jobs
    PROVE  /\ e.op \in {"none"} \cup Ops \cup Undos
           /\ e.path \in Paths \cup {Absent} /\ e.other \in Paths \cup {Absent}
           /\ e.text \in Texts \cup {Absent}
           /\ e.item \in Nat /\ e.was \in Folders \cup {Absent}
BY DEF Jobs

LEMMA NoJobFields ==
    NoJob \in Jobs /\ NoJob.op = "none" /\ NoJob.item = 0
BY DEF Jobs, NoJob

LEMMA WithItem ==
    ASSUME NEW e \in Jobs, NEW n \in Nat
    PROVE  LET f == [e EXCEPT !.item = n]
           IN f \in Jobs /\ f = [op |-> e.op, path |-> e.path, other |-> e.other,
                                 text |-> e.text, item |-> n, was |-> e.was]
BY DEF Jobs

LEMMA RequestFields ==
    ASSUME NEW what \in Requests, NEW w \in Folders \cup {Absent}
    PROVE  LET f == [what EXCEPT !.was = w]
           IN f \in Jobs /\ f.op \in Ops /\ f.item = 0 /\ f.was = w
              /\ Names(f)
<1>1. PICK op \in Ops, p \in Paths, q \in Paths \cup {Absent}, x \in Texts \cup {Absent} :
          /\ what = [op |-> op, path |-> p, other |-> q, text |-> x, item |-> 0,
                     was |-> Absent]
          /\ op = "rename" => q \in Paths
  <2>1. CASE \E op \in {"write", "create"}, p \in Paths, x \in Texts :
                what = [Job(op, p) EXCEPT !.text = x]
    <3>1. PICK op \in {"write", "create"}, p \in Paths, x \in Texts :
              what = [op |-> op, path |-> p, other |-> Absent, text |-> x, item |-> 0,
                      was |-> Absent]
      BY <2>1 DEF Job, NoJob
    <3> QED BY <3>1 DEF Ops
  <2>2. CASE \E p \in Paths, q \in Paths : what = [Job("rename", p) EXCEPT !.other = q]
    <3>1. PICK p \in Paths, q \in Paths :
              what = [op |-> "rename", path |-> p, other |-> q, text |-> Absent, item |-> 0,
                      was |-> Absent]
      BY <2>2 DEF Job, NoJob
    <3> QED BY <3>1 DEF Ops
  <2>3. CASE \E p \in Paths : what = Job("delete", p)
    <3>1. PICK p \in Paths :
              what = [op |-> "delete", path |-> p, other |-> Absent, text |-> Absent,
                      item |-> 0, was |-> Absent]
      BY <2>3 DEF Job, NoJob
    <3> QED BY <3>1 DEF Ops
  <2> QED BY <2>1, <2>2, <2>3 DEF Requests
<1> DEFINE f == [what EXCEPT !.was = w]
<1>2. f = [op |-> op, path |-> p, other |-> q, text |-> x, item |-> 0, was |-> w]
  BY <1>1
<1> QED BY <1>1, <1>2 DEF Jobs, Names, Ops

LEMMA EntryFields ==
    ASSUME NEW j \in Jobs, j.op \in Ops
    PROVE  /\ Entry(j) \in Jobs
           /\ Entry(j).path = j.path /\ Entry(j).other = j.other
           /\ Entry(j).item = j.item /\ Entry(j).was = j.was
           /\ j.op = "create" \/ (j.op = "write" /\ j.item = 0)
              => Entry(j).op = "undo create"
           /\ j.op = "write" /\ j.item # 0 => Entry(j).op = "undo write"
           /\ j.op = "rename" => Entry(j).op = "undo rename"
           /\ j.op = "delete" => Entry(j).op = "undo delete"
           /\ Entry(j).op \in Undos
           /\ Names(j) => Names(Entry(j))
<1>1. /\ Entry(j) \in Jobs /\ Entry(j).op \in Undos
      /\ Entry(j).path = j.path /\ Entry(j).other = j.other
      /\ Entry(j).item = j.item /\ Entry(j).was = j.was
      /\ j.op = "create" \/ (j.op = "write" /\ j.item = 0)
         => Entry(j).op = "undo create"
      /\ j.op = "write" /\ j.item # 0 => Entry(j).op = "undo write"
      /\ j.op = "rename" => Entry(j).op = "undo rename"
      /\ j.op = "delete" => Entry(j).op = "undo delete"
  BY DEF Entry, Jobs, Ops, Undos
<1>2. Entry(j).op = "undo rename" \/ Entry(j).op = "rename" => j.op = "rename"
  BY <1>1, Zenon DEF Ops, Undos
<1>3. Names(j) => Names(Entry(j))
  BY <1>1, <1>2 DEF Names
<1> QED BY <1>1, <1>3

\* The stack grows by an entry on top, and may lose k = 1 at the bottom.
Grows(e, k) ==
    /\ stack' \in Seq(Jobs) /\ Len(stack') = Len(stack) + 1 - k
    /\ stack'[Len(stack')] = e
    /\ \A i \in 1..(Len(stack') - 1) : i + k \in DOMAIN stack /\ stack'[i] = stack[i + k]

LEMMA AppendGrows ==
    ASSUME stack \in Seq(Jobs), NEW e \in Jobs, stack' = Append(stack, e)
    PROVE  Grows(e, 0)
BY DEF Grows

LEMMA PushedGrows ==
    ASSUME stack \in Seq(Jobs), NEW e \in Jobs, stack' = Pushed(e), MaxHistory \in Nat \ {0}
    PROVE  \E k \in {0, 1} :
              /\ Grows(e, k) /\ k <= Len(stack)
              /\ Len(stack') <= MaxHistory \/ Len(stack') = Len(stack)
<1> DEFINE longer == Append(stack, e)
<1>1. /\ longer \in Seq(Jobs) /\ Len(longer) = Len(stack) + 1
      /\ longer[Len(longer)] = e
      /\ \A i \in 1..Len(stack) : longer[i] = stack[i]
  OBVIOUS
<1>2. CASE Len(longer) > MaxHistory
  <2>1. stack' = Tail(longer)
    BY <1>2 DEF Pushed
  <2> HIDE DEF longer
  <2>2. /\ stack' \in Seq(Jobs) /\ Len(stack') = Len(longer) - 1
        /\ \A i \in 1..Len(stack') : stack'[i] = longer[i + 1]
    BY <1>1, <2>1, <1>2
  <2>3. Grows(e, 1)
    BY SMTT(30), <1>1, <2>2, <1>2 DEF Grows
  <2> QED BY <2>3, <1>1, <2>2, <1>2
<1>3. CASE Len(longer) <= MaxHistory
  <2>1. stack' = longer
    BY <1>1, <1>3 DEF Pushed
  <2> QED BY <2>1, <1>3, AppendGrows
<1> QED BY <1>1, <1>2, <1>3

-----------------------------------------------------------------------------
(* What the steps have in common.                                          *)

LEMMA TypeParts ==
    ASSUME TypeOK
    PROVE  /\ files \in Folders /\ kept \in Seq(Held \cup {Absent})
           /\ stack \in Seq(Jobs) /\ Len(stack) \in Nat
           /\ \A i \in DOMAIN stack : stack[i] \in Jobs /\ stack[i].op \in Undos
           /\ Len(kept) \in Nat
           /\ at \in [Calls -> Places] /\ job \in [Calls -> Jobs]
           /\ \A c \in Calls : (at[c] = "idle") <=> (job[c] = NoJob)
           /\ \A c \in Calls : job[c] \in Jobs
           /\ begun \in 0..MaxCalls /\ mishaps \in 0..MaxMishaps
           /\ alone \subseteq Busy /\ clean \in BOOLEAN
BY DEF TypeOK

\* The one call that acts is the one that may be alone.
LEMMA Actor ==
    ASSUME IInv, NEW c \in Calls, at[c] # "idle"
    PROVE  /\ alone \subseteq {c}
           /\ clean => Busy = {c} /\ alone = {c}
BY DEF IInv, TypeOK, Alone, Busy

\* A step within a call: it may keep a copy, and remembers where.
Keeps(c) ==
    /\ files[job[c].path] # Absent
    /\ kept' = Append(kept, files[job[c].path])
Moves(c) ==
    \E w \in Places \ {"idle"}, j \in Jobs :
        /\ at[c] \in {"begun", "there", "free"}
        /\ at' = [at EXCEPT ![c] = w] /\ job' = [job EXCEPT ![c] = j]
        /\ j.op = job[c].op /\ j.op # "none"
        /\ j.path = job[c].path /\ j.other = job[c].other /\ j.was = job[c].was
        /\ j.item = job[c].item \/ (j.op \in {"write", "delete"} /\ j.item = Len(kept) + 1 /\ Keeps(c))
        /\ w = "undone" => Undoing(c)
        /\ w = "changed" => job[c].op \in Ops
        /\ job[c].op \in {"create", "delete"} => w = "changed"
        /\ job[c].op = "delete" => j.item = Len(kept) + 1
        /\ job[c].op = "write" /\ w \in {"begun", "there"} => j.item = 0
        /\ UNCHANGED <<stack, begun, mishaps, alone, clean>>

\* The end of a call: an undo that failed and one that was done, a change that
\* failed and one that was made.
Ends(c) ==
    /\ at[c] # "idle" /\ Done(c)
    /\ \/ Undoing(c) /\ at[c] # "undone" /\ Grows(job[c], 0)
       \/ Undoing(c) /\ at[c] = "undone" /\ stack' = stack
       \/ ~Undoing(c) /\ at[c] # "changed" /\ stack' = stack
       \/ /\ at[c] = "changed"
          /\ \E k \in {0, 1} : /\ Grows(Entry(job[c]), k) /\ k <= Len(stack)
                               /\ Len(stack') <= MaxHistory \/ Len(stack') = Len(stack)
    /\ UNCHANGED <<kept, begun>>

USE DEF Ops, Undos, Places, Undoing, Goto

LEMMA FailsEnds ==
    ASSUME IInv, NEW c \in Calls, at[c] \in {"begun", "there", "free"}, Done(c),
           stack' = IF Undoing(c) THEN Append(stack, job[c]) ELSE stack,
           UNCHANGED <<kept, begun>>
    PROVE  Ends(c)
BY TypeParts, AppendGrows DEF IInv, Ends

LEMMA GoesMoves ==
    ASSUME IInv, NEW c \in Calls, at[c] \in {"begun", "there", "free"},
           NEW w \in Places \ {"idle"},
           at' = [at EXCEPT ![c] = w], job' = job,
           job[c].op # "none",
           w = "undone" => Undoing(c), w = "changed" => job[c].op \in Ops,
           job[c].op # "delete",
           job[c].op = "create" => w = "changed",
           job[c].op = "write" /\ w \in {"begun", "there"} => job[c].item = 0,
           UNCHANGED <<stack, begun, mishaps, alone, clean>>
    PROVE  Moves(c)
<1>1. job[c] \in Jobs /\ job' = [job EXCEPT ![c] = job[c]]
  BY TypeParts DEF IInv
<1> QED BY <1>1 DEF Moves

LEMMA CopyMoves ==
    ASSUME IInv, NEW c \in Calls, at[c] \in {"begun", "there", "free"},
           NEW w \in {"free", "changed"},
           at' = [at EXCEPT ![c] = w], job' = [job EXCEPT ![c].item = Len(kept) + 1],
           job[c].op \in {"write", "delete"}, Keeps(c),
           job[c].op = "delete" => w = "changed",
           UNCHANGED <<stack, begun, mishaps, alone, clean>>
    PROVE  Moves(c)
<1> DEFINE j == [job[c] EXCEPT !.item = Len(kept) + 1]
<1>1. /\ j \in Jobs /\ j.op = job[c].op /\ j.path = job[c].path /\ j.other = job[c].other
      /\ j.was = job[c].was /\ j.item = Len(kept) + 1
  <2>0. TypeOK
    BY DEF IInv
  <2>3. job[c] \in Jobs
    BY <2>0, TypeParts
  <2>4. Len(kept) \in Nat
    BY <2>0, TypeParts
  <2>1. job[c] \in Jobs /\ Len(kept) + 1 \in Nat
    BY <2>3, <2>4
  <2>2. /\ j \in Jobs
        /\ j = [op |-> job[c].op, path |-> job[c].path, other |-> job[c].other,
                text |-> job[c].text, item |-> Len(kept) + 1, was |-> job[c].was]
    BY <2>1, WithItem
  <2> QED BY <2>2
<1>2. job' = [job EXCEPT ![c] = j]
  OBVIOUS
<1> QED BY <1>1, <1>2 DEF Moves

\* Every step of a call moves on or ends it.
LEMMA StepKind ==
    ASSUME IInv, NEW c \in Calls, Step(c) \/ WriteFails(c)
    PROVE  Moves(c) \/ Ends(c)
<1> USE DEF Goes, Fails, Looks, Changes
<1>0. job[c] \in Jobs /\ (at[c] # "idle" => job[c] # NoJob)
  BY TypeParts DEF IInv
<1>1. CASE LookForSource(c)
  BY <1>1, FailsEnds, GoesMoves DEF LookForSource
<1>2. CASE LookForTarget(c)
  BY <1>2, FailsEnds, GoesMoves DEF LookForTarget
<1>3. CASE LookAtFile(c)
  BY <1>3, GoesMoves DEF LookAtFile, IInv, JobsClaim, Claiming
<1>4. CASE KeepCopy(c)
  BY <1>4, FailsEnds, CopyMoves DEF KeepCopy, Keeps
<1>5. CASE Write(c)
  BY <1>5, GoesMoves DEF Write
<1>6. CASE Create(c)
  BY <1>6, FailsEnds, GoesMoves DEF Create
<1>7. CASE Rename(c)
  BY <1>7, FailsEnds, GoesMoves DEF Rename
<1>8. CASE Delete(c)
  BY <1>8, FailsEnds, CopyMoves DEF Delete, Keeps
<1>9. CASE UndoCreate(c)
  BY <1>9, FailsEnds, GoesMoves DEF UndoCreate
<1>10. CASE UndoWrite(c)
  BY <1>10, GoesMoves DEF UndoWrite
<1>11. CASE UndoDelete(c)
  BY <1>11, GoesMoves DEF UndoDelete
<1>12. CASE Push(c)
  <2>1. job[c].op \in Ops
    BY <1>12 DEF Push, IInv, PlacesOK
  <2>2. Entry(job[c]) \in Jobs
    BY <2>1, <1>0, EntryFields
  <2>3. stack \in Seq(Jobs)
    BY TypeParts DEF IInv
  <2> QED BY <1>12, <2>2, <2>3, PushedGrows, UndoAssumption DEF Push, Ends
<1>13. CASE Return(c)
  BY <1>13 DEF Return, Ends, IInv, PlacesOK
<1>14. CASE WriteFails(c)
  BY <1>14, FailsEnds DEF WriteFails
<1> QED BY <1>1, <1>2, <1>3, <1>4, <1>5, <1>6, <1>7, <1>8, <1>9, <1>10, <1>11, <1>12,
           <1>13, <1>14 DEF Step

\* The places, the jobs and who is busy after a step.
LEMMA MovesDoes ==
    ASSUME TypeOK, NEW c \in Calls, Moves(c)
    PROVE  /\ at' \in [Calls -> Places] /\ job' \in [Calls -> Jobs]
           /\ \A d \in Calls : (at'[d] = "idle") <=> (job'[d] = NoJob)
           /\ \A d \in Calls \ {c} : at'[d] = at[d] /\ job'[d] = job[d]
           /\ at[c] \in {"begun", "there", "free"} /\ at'[c] # "idle"
           /\ \A d \in Calls : /\ job'[d].op = job[d].op /\ job'[d].path = job[d].path
                               /\ job'[d].other = job[d].other /\ job'[d].was = job[d].was
           /\ Busy' = Busy
           /\ Claiming' \subseteq Claiming /\ Returning' \subseteq Returning
           /\ c \in Claiming
<1>1. PICK w \in Places \ {"idle"}, j \in Jobs :
          /\ at[c] \in {"begun", "there", "free"}
          /\ at' = [at EXCEPT ![c] = w] /\ job' = [job EXCEPT ![c] = j]
          /\ j.op = job[c].op /\ j.op # "none"
          /\ j.path = job[c].path /\ j.other = job[c].other /\ j.was = job[c].was
  BY DEF Moves
<1>2. at \in [Calls -> Places] /\ job \in [Calls -> Jobs]
      /\ \A d \in Calls : (at[d] = "idle") <=> (job[d] = NoJob)
  BY TypeParts
<1>3. at' \in [Calls -> Places] /\ job' \in [Calls -> Jobs] /\ at'[c] = w /\ job'[c] = j
      /\ \A d \in Calls \ {c} : at'[d] = at[d] /\ job'[d] = job[d]
  BY <1>1, <1>2
<1>4. \A d \in Calls : (at'[d] = "idle") <=> (job'[d] = NoJob)
  BY <1>1, <1>2, <1>3, NoJobFields
<1> QED BY ZenonT(40), <1>1, <1>2, <1>3, <1>4 DEF Busy, Claiming, Returning

LEMMA DoneDoes ==
    ASSUME TypeOK, NEW c \in Calls, Done(c), at[c] # "idle"
    PROVE  /\ at' \in [Calls -> Places] /\ job' \in [Calls -> Jobs]
           /\ \A d \in Calls : (at'[d] = "idle") <=> (job'[d] = NoJob)
           /\ \A d \in Calls \ {c} : at'[d] = at[d] /\ job'[d] = job[d]
           /\ at'[c] = "idle" /\ job'[c] = NoJob
           /\ Busy' = Busy \ {c} /\ alone' = alone \ {c}
           /\ Returning' = Returning \ {c}
<1>1. /\ at \in [Calls -> Places] /\ job \in [Calls -> Jobs]
      /\ \A d \in Calls : (at[d] = "idle") <=> (job[d] = NoJob)
  BY TypeParts
<1>2. at' = [at EXCEPT ![c] = "idle"] /\ job' = [job EXCEPT ![c] = NoJob]
  BY DEF Done
<1>3. /\ at' \in [Calls -> Places] /\ job' \in [Calls -> Jobs] /\ at'[c] = "idle"
      /\ job'[c] = NoJob
      /\ \A d \in Calls \ {c} : at'[d] = at[d] /\ job'[d] = job[d]
  BY <1>1, <1>2, NoJobFields
<1>4. Busy' = Busy \ {c} /\ Returning' = Returning \ {c}
  BY ZenonT(40), <1>1, <1>3, NoJobFields DEF Busy, Returning
<1> QED BY <1>1, <1>3, <1>4 DEF Done

\* A call begins, with a request or with the entry on top of the stack.
LEMMA BeginsDoes ==
    ASSUME TypeOK, NEW c \in Calls, NEW e, Begins(c, e), e \in Jobs, e.op # "none"
    PROVE  /\ at' \in [Calls -> Places] /\ job' \in [Calls -> Jobs]
           /\ \A d \in Calls : (at'[d] = "idle") <=> (job'[d] = NoJob)
           /\ \A d \in Calls \ {c} : at'[d] = at[d] /\ job'[d] = job[d]
           /\ at[c] = "idle" /\ at'[c] = "begun" /\ job[c] = NoJob /\ job'[c] = e
           /\ Busy' = Busy \cup {c} /\ alone' = IF Busy = {} THEN {c} ELSE {}
           /\ Returning' = IF e.op \in Undos THEN Returning \cup {c} ELSE Returning
           /\ c \notin Returning
           /\ begun' \in 0..MaxCalls
<1>1. /\ at \in [Calls -> Places] /\ job \in [Calls -> Jobs]
      /\ \A d \in Calls : (at[d] = "idle") <=> (job[d] = NoJob)
  BY TypeParts
<1>2. /\ at' = [at EXCEPT ![c] = "begun"] /\ job' = [job EXCEPT ![c] = e]
      /\ at[c] = "idle"
  BY DEF Begins
<1>3. /\ at' \in [Calls -> Places] /\ job' \in [Calls -> Jobs] /\ at'[c] = "begun"
      /\ job'[c] = e
      /\ \A d \in Calls \ {c} : at'[d] = at[d] /\ job'[d] = job[d]
  BY <1>1, <1>2
<1>4. Busy' = Busy \cup {c}
  BY <1>1, <1>2, <1>3 DEF Busy
<1>5. /\ Returning' = IF e.op \in Undos THEN Returning \cup {c} ELSE Returning
      /\ c \notin Returning
  <2>1. job[c].op = "none"
    BY <1>1, <1>2, NoJobFields
  <2> QED BY <1>3, <2>1 DEF Returning
<1>6. begun' \in 0..MaxCalls
  <2>1. begun \in 0..MaxCalls
    BY TypeParts
  <2>2. begun < MaxCalls /\ begun' = begun + 1
    BY DEF Begins
  <2> QED BY <2>1, <2>2, UndoAssumption
<1>7. alone' = IF Busy = {} THEN {c} ELSE {}
  BY DEF Begins
<1>8. job[c] = NoJob
  BY <1>1, <1>2
<1>9. /\ at[c] = "idle"
      /\ \A d \in Calls : (at'[d] = "idle") <=> (job'[d] = NoJob)
  BY <1>1, <1>2, <1>3, NoJobFields
<1> QED BY <1>3, <1>4, <1>5, <1>6, <1>7, <1>8, <1>9

\* The entry on top of the stack goes to the call that undoes it.
LEMMA UndoDoes ==
    ASSUME TypeOK, NEW c \in Calls, Undo(c)
    PROVE  LET n == Len(stack)
           IN /\ n > 0 /\ stack[n] \in Jobs /\ stack[n].op \in Undos
              /\ Begins(c, stack[n])
              /\ stack' \in Seq(Jobs) /\ Len(stack') = n - 1
              /\ \A i \in 1..(n - 1) : stack'[i] = stack[i]
<1> DEFINE n == Len(stack)
<1>1. stack \in Seq(Jobs)
  BY TypeParts
<1>2. n \in Nat
  BY <1>1
<1>3. n > 0 /\ stack' = SubSeq(stack, 1, n - 1)
  BY DEF Undo
<1>4. n \in DOMAIN stack
  BY <1>1, <1>2, <1>3
<1>5. stack[n] \in Jobs /\ stack[n].op \in Undos
  BY <1>4, TypeParts
<1>6. Begins(c, stack[n])
  BY DEF Undo
<1>7. /\ stack' \in Seq(Jobs) /\ Len(stack') = n - 1
      /\ \A i \in 1..(n - 1) : stack'[i] = stack[i]
  <2>1. \A i \in 1..(n - 1) : stack[i] \in Jobs
    BY <1>1
  <2> HIDE DEF n
  <2>2. n - 1 \in Int /\ 1 \in Int
    BY <1>2
  <2>3. /\ SubSeq(stack, 1, n - 1) \in Seq(Jobs)
        /\ Len(SubSeq(stack, 1, n - 1)) = IF 1 <= n - 1 THEN (n - 1) - 1 + 1 ELSE 0
        /\ \A i \in 1..((n - 1) - 1 + 1) : SubSeq(stack, 1, n - 1)[i] = stack[1 + i - 1]
    BY <2>1, <2>2, SubSeqProperties
  <2> QED BY <2>3, <1>2, <1>3
<1> QED BY <1>3, <1>5, <1>6, <1>7

LEMMA RequestDoes ==
    ASSUME TypeOK, NEW c \in Calls, NEW what \in Requests, Request(c, what)
    PROVE  \E e \in Jobs :
              /\ e.op \in Ops /\ e.item = 0 /\ Names(e)
              /\ e.was = IF Calm THEN files ELSE Absent
              /\ Begins(c, e) /\ stack' = stack
<1> DEFINE w == IF Calm THEN files ELSE Absent
<1>1. w \in Folders \cup {Absent}
  BY TypeParts
<1> QED BY <1>1, RequestFields DEF Request

-----------------------------------------------------------------------------
(* Places and names.                                                       *)

LEMMA PlacesStep ==
    ASSUME IInv, NEW c \in Calls, Moves(c) \/ Ends(c)
    PROVE  PlacesOK' /\ NamesOK'
<1>0. TypeOK /\ PlacesOK /\ NamesOK
  BY DEF IInv
<1>1. CASE Moves(c)
  <2>1. PlacesOK'
    <3>1. PICK w \in Places \ {"idle"} :
              /\ at' = [at EXCEPT ![c] = w]
              /\ w = "undone" => Undoing(c)
              /\ w = "changed" => job[c].op \in Ops
              /\ job[c].op \in {"create", "delete"} => w = "changed"
      BY <1>1 DEF Moves
    <3>2. at'[c] = w
      BY <3>1, <1>0, TypeParts
    <3>3. /\ \A d \in Calls \ {c} : at'[d] = at[d]
          /\ \A d \in Calls : job'[d].op = job[d].op
      BY <1>0, <1>1, MovesDoes
    <3> QED BY <1>0, <3>1, <3>2, <3>3 DEF PlacesOK
  <2>2. NamesOK'
    BY ZenonT(40), <1>0, <1>1, MovesDoes DEF NamesOK, Names, Moves
  <2> QED BY <2>1, <2>2
<1>2. CASE Ends(c)
  <2>0. at[c] # "idle" /\ Done(c)
    BY <1>2 DEF Ends
  <2>1. PlacesOK'
    BY ZenonT(40), <1>0, <2>0, DoneDoes, NoJobFields DEF PlacesOK
  <2>2. Names(job[c]) /\ job[c] \in Jobs
    BY <1>0, <2>0, TypeParts DEF NamesOK
  <2>3. ASSUME at[c] = "changed" PROVE Names(Entry(job[c]))
    <3>1. job[c].op \in Ops
      BY <1>0, <2>3 DEF PlacesOK
    <3> QED BY <2>2, <3>1, EntryFields
  <2>4. \A i \in DOMAIN stack' : Names(stack'[i])
    <3>1. CASE stack' = stack
      BY <3>1, <1>0 DEF NamesOK
    <3>2. ASSUME NEW e, NEW k \in {0, 1}, Grows(e, k), Names(e)
          PROVE  \A i \in DOMAIN stack' : Names(stack'[i])
      BY <3>2, <1>0 DEF NamesOK, Grows
    <3> QED BY <1>2, <2>2, <2>3, <3>1, <3>2 DEF Ends
  <2>5. \A d \in Calls : at'[d] # "idle" => Names(job'[d])
    BY <1>0, <2>0, DoneDoes DEF NamesOK
  <2> QED BY <2>1, <2>4, <2>5 DEF NamesOK, Names
<1> QED BY <1>1, <1>2

LEMMA PlacesBegin ==
    ASSUME IInv, NEW c \in Calls, NEW e \in Jobs, e.op # "none", Begins(c, e), Names(e),
           stack' = stack \/ /\ Len(stack') \in 0..Len(stack) /\ stack' \in Seq(Jobs)
                             /\ \A i \in 1..Len(stack') : stack'[i] = stack[i]
    PROVE  PlacesOK' /\ NamesOK'
<1>0. TypeOK /\ PlacesOK /\ NamesOK
  BY DEF IInv
<1>1. /\ \A d \in Calls \ {c} : at'[d] = at[d] /\ job'[d] = job[d]
      /\ at'[c] = "begun" /\ job'[c] = e
  BY <1>0, BeginsDoes
<1>2. PlacesOK'
  BY <1>0, <1>1 DEF PlacesOK
<1>3. \A i \in DOMAIN stack' : Names(stack'[i])
  <2>1. CASE stack' = stack
    BY <2>1, <1>0 DEF NamesOK
  <2>2. CASE /\ Len(stack') \in 0..Len(stack) /\ stack' \in Seq(Jobs)
             /\ \A i \in 1..Len(stack') : stack'[i] = stack[i]
    <3>1. stack \in Seq(Jobs)
      BY <1>0, TypeParts
    <3>2. \A i \in DOMAIN stack' : i \in DOMAIN stack /\ stack'[i] = stack[i]
      BY <2>2, <3>1
    <3> QED BY <3>2, <1>0 DEF NamesOK
  <2> QED BY <2>1, <2>2
<1>4. \A d \in Calls : at'[d] # "idle" => Names(job'[d])
  BY <1>0, <1>1 DEF NamesOK
<1> QED BY <1>2, <1>3, <1>4 DEF NamesOK, Names

-----------------------------------------------------------------------------
(* The length of the history.                                              *)

LEMMA SomeReturn ==
    /\ IsFiniteSet(Calls) /\ Cardinality(Calls) \in Nat
    /\ \A S \in SUBSET Calls : /\ IsFiniteSet(S) /\ Cardinality(S) \in Nat
                               /\ Cardinality(S) <= Cardinality(Calls)
    /\ \A S \in SUBSET Calls : \A T \in SUBSET S : Cardinality(T) <= Cardinality(S)
    /\ \A S \in SUBSET Calls, c \in Calls :
          /\ c \in S => Cardinality(S \ {c}) = Cardinality(S) - 1
          /\ c \notin S => Cardinality(S \cup {c}) = Cardinality(S) + 1
          /\ c \notin S => Cardinality(S) < Cardinality(Calls)
<1>1. IsFiniteSet(Calls)
  BY UndoAssumption
<1>2. \A S \in SUBSET Calls : /\ IsFiniteSet(S) /\ Cardinality(S) \in Nat
                              /\ Cardinality(S) <= Cardinality(Calls)
                              /\ Cardinality(Calls) = Cardinality(S) => S = Calls
  BY <1>1, FS_Subset, FS_CardinalityType
<1>3. \A S \in SUBSET Calls : \A T \in SUBSET S : Cardinality(T) <= Cardinality(S)
  BY <1>2, FS_Subset
<1>4. \A S \in SUBSET Calls, c \in Calls :
          /\ c \in S => Cardinality(S \ {c}) = Cardinality(S) - 1
          /\ c \notin S => Cardinality(S \cup {c}) = Cardinality(S) + 1
  BY <1>2, FS_AddElement, FS_RemoveElement
<1>5. Cardinality(Calls) \in Nat
  BY <1>2
<1>6. \A S \in SUBSET Calls, c \in Calls : c \notin S => Cardinality(S) < Cardinality(Calls)
  BY <1>2, <1>5
<1> QED BY <1>1, <1>2, <1>3, <1>4, <1>5, <1>6

\* The history is as long as it may be after whatever a step does to it.
LEMMA LengthKept ==
    ASSUME LengthOK, TypeOK, Len(stack') \in Nat, MaxHistory \in Nat \ {0},
           \/ Len(stack') <= Len(stack) /\ Returning' \subseteq Returning
           \/ Len(stack') = 0
           \/ \E c \in Calls :
                 \/ /\ c \in Returning /\ Returning' = Returning \ {c}
                    /\ Len(stack') = Len(stack) + 1
                 \/ /\ Len(stack) > 0 /\ Len(stack') = Len(stack) - 1
                    /\ c \notin Returning /\ Returning' = Returning \cup {c}
                 \/ c \notin Returning /\ Returning' \subseteq Returning
                    /\ Len(stack') <= MaxHistory
    PROVE  LengthOK' /\ Len(stack') < MaxHistory + Cardinality(Calls)
<1> DEFINE R == Returning
           S == Returning'
<1>1. R \in SUBSET Calls /\ S \in SUBSET Calls
  BY DEF Returning
<1>2. Len(stack) \in Nat
  BY TypeParts
<1>3. Len(stack) + Cardinality(R) < MaxHistory + Cardinality(Calls)
  BY DEF LengthOK
<1> HIDE DEF R, S
<1>4. /\ Cardinality(R) \in Nat /\ Cardinality(S) \in Nat /\ Cardinality(Calls) \in Nat
      /\ Cardinality(S) <= Cardinality(Calls)
  BY <1>1, SomeReturn
<1>5. Len(stack') + Cardinality(S) < MaxHistory + Cardinality(Calls)
  <2>1. CASE Len(stack') <= Len(stack) /\ S \subseteq R
    <3>1. Cardinality(S) <= Cardinality(R)
      BY <2>1, <1>1, SomeReturn
    <3> QED BY <1>2, <1>3, <1>4, <2>1, <3>1
  <2>2. CASE Len(stack') = 0
    BY <1>4, <2>2
  <2>3. ASSUME NEW c \in Calls, c \in R, S = R \ {c}, Len(stack') = Len(stack) + 1
        PROVE  Len(stack') + Cardinality(S) < MaxHistory + Cardinality(Calls)
    <3>1. Cardinality(S) = Cardinality(R) - 1
      BY <2>3, <1>1, SomeReturn
    <3> QED BY <1>2, <1>3, <1>4, <2>3, <3>1
  <2>4. ASSUME NEW c \in Calls, Len(stack') = Len(stack) - 1, c \notin R, S = R \cup {c}
        PROVE  Len(stack') + Cardinality(S) < MaxHistory + Cardinality(Calls)
    <3>1. Cardinality(S) = Cardinality(R) + 1
      BY <2>4, <1>1, SomeReturn
    <3> QED BY <1>2, <1>3, <1>4, <2>4, <3>1
  <2>5. ASSUME NEW c \in Calls, c \notin R, S \subseteq R, Len(stack') <= MaxHistory
        PROVE  Len(stack') + Cardinality(S) < MaxHistory + Cardinality(Calls)
    <3>1. Cardinality(S) <= Cardinality(R) /\ Cardinality(R) < Cardinality(Calls)
      BY <2>5, <1>1, SomeReturn
    <3> QED BY <1>4, <2>5, <3>1
  <2> QED BY <2>1, <2>2, <2>3, <2>4, <2>5 DEF R, S
<1> QED BY <1>4, <1>5 DEF S, LengthOK

LEMMA LengthStep ==
    ASSUME IInv, NEW c \in Calls, Moves(c) \/ Ends(c)
    PROVE  LengthOK' /\ Len(stack') < MaxHistory + Cardinality(Calls)
<1>0. /\ TypeOK /\ PlacesOK /\ LengthOK /\ Len(stack) \in Nat /\ MaxHistory \in Nat \ {0}
  BY TypeParts, UndoAssumption DEF IInv
<1>1. CASE Moves(c)
  <2>1. stack' = stack /\ Returning' \subseteq Returning
    BY <1>0, <1>1, MovesDoes DEF Moves
  <2> QED BY <1>0, <2>1, LengthKept
<1>2. CASE Ends(c)
  <2>1. Returning' = Returning \ {c}
    BY <1>0, <1>2, DoneDoes DEF Ends
  <2>2. ASSUME NEW e, NEW k \in {0, 1}, Grows(e, k)
        PROVE  Len(stack') \in Nat /\ Len(stack') = Len(stack) + 1 - k
    BY <2>2 DEF Grows
  <2>3. CASE Undoing(c) /\ at[c] # "undone" /\ Grows(job[c], 0)
    <3>1. c \in Returning
      BY <2>3 DEF Returning
    <3>2. Len(stack') \in Nat /\ Len(stack') = Len(stack) + 1
      <4>1. Grows(job[c], 0)
        BY <2>3
      <4> QED BY <1>0, <4>1 DEF Grows
    <3> QED BY <1>0, <2>1, <3>1, <3>2, LengthKept
  <2>4. CASE stack' = stack
    BY <1>0, <2>1, <2>4, LengthKept
  <2>5. ASSUME at[c] = "changed", NEW k \in {0, 1}, Grows(Entry(job[c]), k), k <= Len(stack),
               Len(stack') <= MaxHistory \/ Len(stack') = Len(stack)
        PROVE  LengthOK' /\ Len(stack') < MaxHistory + Cardinality(Calls)
    <3>1. c \notin Returning
      BY <1>0, <2>5 DEF PlacesOK, Returning
    <3>2. Len(stack') \in Nat
      BY <2>5, <2>2
    <3> QED BY <1>0, <2>1, <2>5, <3>1, <3>2, LengthKept
  <2> QED BY <1>2, <2>3, <2>4, <2>5 DEF Ends
<1> QED BY <1>1, <1>2

-----------------------------------------------------------------------------
(* Types.                                                                  *)

\* What a job that is to put something back finds in the trash.
LEMMA TakesBack ==
    ASSUME IInv, NEW c \in Calls, at[c] # "undone",
           job[c].op \in {"undo write", "undo delete"}
    PROVE  /\ job[c].item # 0 /\ job[c].item \in DOMAIN kept
           /\ kept[job[c].item] \in Held /\ Names(job[c]) /\ job[c].path \in Paths
<1>1. at[c] # "idle"
  BY TypeParts, NoJobFields DEF IInv
<1>2. job[c].item # 0 /\ InTrash(job[c].item)
  BY DEF IInv, JobsClaim, Claiming
<1>3. kept \in Seq(Held \cup {Absent})
  BY TypeParts DEF IInv
<1>4. Names(job[c])
  BY <1>1 DEF IInv, NamesOK
<1>5. job[c].item \in DOMAIN kept /\ kept[job[c].item] # Absent
  BY <1>2 DEF InTrash
<1>6. \A n \in DOMAIN kept : kept[n] \in Held \cup {Absent}
  <2> DEFINE S == Held \cup {Absent}
  <2>1. kept \in Seq(S)
    BY <1>3
  <2> HIDE DEF S
  <2>2. DOMAIN kept = 1..Len(kept)
    BY <2>1, LenProperties
  <2>3. \A n \in DOMAIN kept : kept[n] \in S
    BY <2>1, <2>2, ElementOfSeq
  <2> QED BY <2>3 DEF S
<1>7. kept[job[c].item] \in Held
  BY <1>5, <1>6
<1> QED BY <1>2, <1>4, <1>5, <1>7 DEF Names

LEMMA PutType ==
    ASSUME files \in Folders, NEW p, NEW x \in Held \cup {Absent}
    PROVE  [files EXCEPT ![p] = x] \in Folders
BY DEF Folders

\* What a step does to the folder and the trash.
Puts(c) ==
    /\ kept' = kept
    /\ \E p \in Paths, x \in Held \cup {Absent} : files' = [files EXCEPT ![p] = x]
KeepsOne(c) ==
    /\ Keeps(c) /\ job[c].op \in {"write", "delete"}
    /\ files' = files \/ files' = [files EXCEPT ![job[c].path] = Absent]
Renames(c) ==
    /\ kept' = kept /\ files[Source(c)] # Absent
    /\ Source(c) \in Paths /\ Target(c) \in Paths
    /\ Move(Source(c), Target(c))
TakesOut(c) ==
    /\ job[c].op = "undo delete"
    /\ files' = [files EXCEPT ![job[c].path] = kept[job[c].item]]
    /\ kept' = [kept EXCEPT ![job[c].item] = Absent]
    /\ at[c] = "free" /\ at'[c] = "undone"

LEMMA FilesKind ==
    ASSUME IInv, NEW c \in Calls, Step(c) \/ WriteFails(c)
    PROVE  UNCHANGED <<files, kept>> \/ Puts(c) \/ KeepsOne(c) \/ Renames(c) \/ TakesOut(c)
<1>0. /\ at[c] # "idle" => job[c].path \in Paths
      /\ job[c].text \in Held \cup {Absent}
      /\ at \in [Calls -> Places]
  BY TypeParts, JobFields DEF IInv, NamesOK, Names, Held
<1> USE DEF Looks, Put
<1>1. CASE \/ LookForSource(c) \/ LookForTarget(c) \/ LookAtFile(c) \/ Push(c)
           \/ Return(c)
  BY <1>1 DEF LookForSource, LookForTarget, LookAtFile, Push, Return, Goes, Fails
<1>2. CASE KeepCopy(c)
  BY <1>2 DEF KeepCopy, Fails, KeepsOne, Keeps
<1>3. CASE Write(c)
  BY <1>0, <1>3 DEF Write, Puts
<1>4. CASE Create(c)
  BY <1>0, <1>4 DEF Create, Puts, Fails
<1>5. CASE Rename(c)
  <2>1. CASE files[Source(c)] = Absent
    BY <1>5, <2>1 DEF Rename, Fails
  <2>2. CASE files[Source(c)] # Absent
    <3>1. Source(c) \in Paths /\ Target(c) \in Paths
      BY <1>5 DEF Rename, IInv, NamesOK, Names, Source, Target
    <3> QED BY <1>5, <2>2, <3>1 DEF Rename, Renames
  <2> QED BY <2>1, <2>2
<1>6. CASE Delete(c)
  BY <1>6 DEF Delete, Fails, KeepsOne, Keeps
<1>7. CASE UndoCreate(c)
  BY <1>0, <1>7 DEF UndoCreate, Fails, Puts
<1>8. CASE UndoWrite(c)
  BY <1>8, TakesBack DEF UndoWrite, Puts
<1>9. CASE UndoDelete(c)
  BY <1>0, <1>9 DEF UndoDelete, TakesOut
<1>10. CASE WriteFails(c)
  BY <1>0, <1>10 DEF WriteFails, Puts, Held
<1> QED BY <1>1, <1>2, <1>3, <1>4, <1>5, <1>6, <1>7, <1>8, <1>9, <1>10 DEF Step

LEMMA FilesStep ==
    ASSUME IInv, NEW c \in Calls, Step(c) \/ WriteFails(c)
    PROVE  files' \in Folders /\ kept' \in Seq(Held \cup {Absent})
<1>0. /\ files \in Folders /\ kept \in Seq(Held \cup {Absent})
  BY TypeParts DEF IInv
<1>1. CASE Puts(c)
  <2>1. PICK p \in Paths, x \in Held \cup {Absent} : files' = [files EXCEPT ![p] = x]
    BY <1>1 DEF Puts
  <2>2. [files EXCEPT ![p] = x] \in Folders
    BY <1>0, PutType
  <2> QED BY <1>0, <1>1, <2>1, <2>2 DEF Puts
<1>2. CASE KeepsOne(c)
  <2>1. at[c] # "idle"
    BY <1>2, TypeParts, NoJobFields DEF IInv, KeepsOne
  <2>2. job[c].path \in Paths
    BY <2>1 DEF IInv, NamesOK, Names
  <2>3. files[job[c].path] \in Held \cup {Absent}
    BY <1>0, <2>2 DEF Folders
  <2>4. files' \in Folders
    <3>1. [files EXCEPT ![job[c].path] = Absent] \in Folders
      BY <1>0, PutType
    <3> QED BY <1>0, <1>2, <3>1 DEF KeepsOne
  <2>5. kept' \in Seq(Held \cup {Absent})
    BY <1>0, <1>2, <2>3 DEF KeepsOne, Keeps
  <2> QED BY <2>4, <2>5
<1>3. CASE Renames(c)
  <2> HIDE DEF Held
  <2>1. files' = [files EXCEPT ![Source(c)] = Absent, ![Target(c)] = files[Source(c)]]
    BY <1>3 DEF Renames, Move
  <2>2. files' \in Folders
    BY <1>0, <1>3, <2>1 DEF Renames, Folders
  <2> QED BY <1>0, <1>3, <2>2 DEF Renames
<1>4. CASE TakesOut(c)
  <2>1. job[c].item \in DOMAIN kept /\ kept[job[c].item] \in Held
    BY <1>4, TakesBack DEF TakesOut
  <2>2. files' \in Folders
    <3>1. [files EXCEPT ![job[c].path] = kept[job[c].item]] \in Folders
      BY <1>0, <2>1, PutType
    <3> QED BY <1>4, <3>1 DEF TakesOut
  <2>3. kept' \in Seq(Held \cup {Absent})
    <3>1. job[c].item \in 1..Len(kept)
      BY <1>0, <2>1
    <3>2. [kept EXCEPT ![job[c].item] = Absent] \in Seq(Held \cup {Absent})
      BY <1>0, <3>1, ExceptSeq
    <3> QED BY <1>4, <3>2 DEF TakesOut
  <2> QED BY <2>2, <2>3
<1> QED BY <1>0, <1>1, <1>2, <1>3, <1>4, FilesKind

LEMMA TypeStep ==
    ASSUME IInv, NEW c \in Calls, Step(c) \/ WriteFails(c)
    PROVE  TypeOK'
<1>0. TypeOK /\ PlacesOK
  BY DEF IInv
<1>1. files' \in Folders /\ kept' \in Seq(Held \cup {Absent})
  BY FilesStep
<1>2. Moves(c) \/ Ends(c)
  BY StepKind
<1>3. Len(stack') < MaxHistory + Cardinality(Calls)
  BY <1>2, LengthStep
<1>4. stack \in Seq(Jobs) /\ \A i \in DOMAIN stack : stack[i].op \in Undos
  BY <1>0, TypeParts
<1>5. stack' \in Seq(Jobs) /\ \A i \in DOMAIN stack' : stack'[i].op \in Undos
  <2>1. CASE stack' = stack
    BY <1>4, <2>1
  <2>2. ASSUME NEW e, e.op \in Undos, NEW k \in {0, 1}, Grows(e, k)
        PROVE  stack' \in Seq(Jobs) /\ \A i \in DOMAIN stack' : stack'[i].op \in Undos
    <3>1. stack' \in Seq(Jobs) /\ stack'[Len(stack')] = e
      BY <2>2 DEF Grows
    <3>2. \A i \in 1..(Len(stack') - 1) : stack'[i].op \in Undos
      BY <1>4, <2>2 DEF Grows
    <3>3. \A i \in DOMAIN stack' : i = Len(stack') \/ i \in 1..(Len(stack') - 1)
      BY <3>1
    <3> QED BY <2>2, <3>1, <3>2, <3>3
  <2>3. at[c] = "changed" => Entry(job[c]).op \in Undos
    <3>1. job[c] \in Jobs
      BY <1>0, TypeParts
    <3>2. at[c] = "changed" => job[c].op \in Ops
      BY <1>0 DEF PlacesOK
    <3> QED BY <3>1, <3>2, EntryFields
  <2>4. CASE Moves(c)
    BY <2>1, <2>4 DEF Moves
  <2>5. CASE Ends(c)
    <3>1. CASE Undoing(c) /\ Grows(job[c], 0)
      <4>1. job[c].op \in Undos /\ Grows(job[c], 0)
        BY <3>1
      <4> HIDE DEF Undos
      <4> QED BY <4>1, <2>2
    <3>2. CASE at[c] = "changed" /\ \E k \in {0, 1} : Grows(Entry(job[c]), k)
      <4> HIDE DEF Undos
      <4> QED BY <3>2, <2>2, <2>3
    <3> QED BY <2>1, <2>5, <3>1, <3>2 DEF Ends
  <2> QED BY <1>2, <2>4, <2>5
<1>6. at' \in [Calls -> Places] /\ job' \in [Calls -> Jobs]
      /\ \A d \in Calls : (at'[d] = "idle") <=> (job'[d] = NoJob)
  BY <1>0, <1>2, MovesDoes, DoneDoes DEF Ends
<1>7. alone' \subseteq Busy'
  <2>1. alone \subseteq Busy
    BY <1>0, TypeParts
  <2> QED BY <1>0, <1>2, <2>1, MovesDoes, DoneDoes DEF Ends, Moves
<1>8. begun' \in 0..MaxCalls
  BY <1>0, <1>2, TypeParts DEF Ends, Moves
<1>9. mishaps' \in 0..MaxMishaps /\ clean' \in BOOLEAN
  <2>0. mishaps \in 0..MaxMishaps /\ clean \in BOOLEAN
    BY <1>0, TypeParts
  <2>1. CASE WriteFails(c)
    <3>1. mishaps < MaxMishaps /\ mishaps' = mishaps + 1 /\ clean' = FALSE
      BY <2>1 DEF WriteFails
    <3>2. mishaps' \in 0..MaxMishaps
      BY <2>0, <3>1, UndoAssumption
    <3> QED BY <3>1, <3>2
  <2>2. CASE Step(c)
    <3>1. mishaps' = mishaps /\ clean' = clean
      BY <2>2 DEF Step, LookForSource, LookForTarget, LookAtFile, KeepCopy, Write, Create,
                  Rename, Delete, UndoCreate, UndoWrite, UndoDelete, Push, Return, Fails,
                  Goes, Looks, Changes
    <3> QED BY <2>0, <3>1
  <2> QED BY <2>1, <2>2
<1> QED BY <1>1, <1>3, <1>5, <1>6, <1>7, <1>8, <1>9 DEF TypeOK

-----------------------------------------------------------------------------
(* The trash: who claims what.                                             *)

HIDE DEF Ops, Undos, Places

LEMMA TrashStays ==
    ASSUME IInv, NEW c \in Calls, Step(c) \/ WriteFails(c),
           NEW n \in DOMAIN kept, TakesOut(c) => n # job[c].item
    PROVE  n \in DOMAIN kept' /\ kept'[n] = kept[n]
<1>0. kept \in Seq(Held \cup {Absent})
  BY TypeParts DEF IInv
<1>1. CASE KeepsOne(c)
  <2>1. kept' = Append(kept, files[job[c].path])
    BY <1>1 DEF KeepsOne, Keeps
  <2>2. DOMAIN kept = 1..Len(kept) /\ Len(kept) \in Nat
    BY <1>0, LenProperties
  <2> QED BY <1>0, <2>1, <2>2
<1>2. CASE TakesOut(c)
  BY <1>0, <1>2 DEF TakesOut
<1>3. CASE kept' = kept
  BY <1>3
<1> QED BY <1>1, <1>2, <1>3, FilesKind DEF Puts, Renames

LEMMA ClaimsMove ==
    ASSUME IInv, NEW c \in Calls, Step(c) \/ WriteFails(c), Moves(c)
    PROVE  EntriesClaim' /\ JobsClaim'
<1>0. TypeOK /\ EntriesClaim /\ JobsClaim
  BY DEF IInv
<1>1. /\ kept \in Seq(Held \cup {Absent}) /\ Len(kept) \in Nat
      /\ \A d \in Calls : job[d].item \in Nat
      /\ \A i \in DOMAIN stack : stack[i].item \in Nat
  BY <1>0, TypeParts, JobFields
<1>2. /\ stack' = stack /\ Claiming' \subseteq Claiming /\ c \in Claiming
      /\ \A d \in Calls \ {c} : at'[d] = at[d] /\ job'[d] = job[d]
      /\ job'[c].op = job[c].op
  BY <1>0, MovesDoes DEF Moves
<1>3. DOMAIN kept = 1..Len(kept)
  BY <1>1, LenProperties
<1>4. /\ \/ job'[c].item = job[c].item
         \/ /\ job[c].op \in {"write", "delete"} /\ job'[c].item = Len(kept) + 1
            /\ Len(kept) + 1 \in DOMAIN kept' /\ kept'[Len(kept) + 1] # Absent
      /\ job[c].op = "delete" => job'[c].item = Len(kept) + 1
      /\ job[c].op = "write" /\ at'[c] \in {"begun", "there"} => job'[c].item = 0
  <2>1. PICK w \in Places \ {"idle"}, j \in Jobs :
            /\ at' = [at EXCEPT ![c] = w] /\ job' = [job EXCEPT ![c] = j]
            /\ j.item = job[c].item
               \/ (j.op \in {"write", "delete"} /\ j.item = Len(kept) + 1 /\ Keeps(c))
            /\ j.op = job[c].op
            /\ job[c].op = "delete" => j.item = Len(kept) + 1
            /\ job[c].op = "write" /\ w \in {"begun", "there"} => j.item = 0
    BY DEF Moves
  <2>2. at'[c] = w /\ job'[c] = j
    BY <1>0, <2>1, TypeParts
  <2>3. ASSUME Keeps(c)
        PROVE  Len(kept) + 1 \in DOMAIN kept' /\ kept'[Len(kept) + 1] # Absent
    BY <1>1, <1>3, <2>3 DEF Keeps
  <2> QED BY <2>1, <2>2, <2>3
\* The step takes nothing that another claims.
<1> DEFINE Stays(n) == n \in DOMAIN kept' /\ kept'[n] # Absent
<1>5. /\ \A n : InTrash(n) /\ (TakesOut(c) => n # job[c].item) => Stays(n)
      /\ \A n : InTrash(n) => n # Len(kept) + 1
      /\ Len(kept) + 1 # 0
  <2>1. ASSUME NEW n, InTrash(n), TakesOut(c) => n # job[c].item PROVE Stays(n)
    BY <2>1, TrashStays DEF InTrash
  <2>2. ASSUME NEW n, InTrash(n) PROVE n # Len(kept) + 1
    BY <1>1, <1>3, <2>2 DEF InTrash
  <2> HIDE DEF Stays
  <2> QED BY <1>1, <2>1, <2>2
<1>6. TakesOut(c) => job[c].item # 0 /\ c \notin Claiming'
  BY <1>0, <1>2 DEF TakesOut, JobsClaim, Claiming
<1> HIDE DEF Stays
<1>7. EntriesClaim'
  <2>1. ASSUME NEW i \in DOMAIN stack
        PROVE  /\ stack[i].op \in {"undo write", "undo delete"} => stack[i].item # 0
               /\ stack[i].item # 0 => InTrash(stack[i].item)
               /\ \A k \in DOMAIN stack :
                     i # k /\ stack[i].item = stack[k].item => stack[i].item = 0
               /\ \A d \in Claiming : job[d].item = stack[i].item => stack[i].item = 0
    BY <1>0 DEF EntriesClaim
  <2>2. ASSUME NEW i \in DOMAIN stack, stack[i].item # 0 PROVE Stays(stack[i].item)
    BY <1>2, <1>5, <1>6, <2>1, <2>2
  <2>3. ASSUME NEW i \in DOMAIN stack, NEW d \in Claiming', job'[d].item = stack[i].item
        PROVE  stack[i].item = 0
    <3>1. stack[i].item # Len(kept) + 1
      BY <1>5, <2>1
    <3>2. job'[d].item = job[d].item /\ d \in Claiming
      BY <1>2, <1>4, <2>3, <3>1 DEF Claiming
    <3> QED BY <2>1, <2>3, <3>2
  <2> QED BY <1>2, <2>1, <2>2, <2>3 DEF EntriesClaim, InTrash, Stays
<1>8. JobsClaim'
  <2>0. ASSUME NEW d \in Claiming
        PROVE  /\ job[d].op \in {"undo write", "undo delete"} => job[d].item # 0
               /\ job[d].op = "delete" /\ at[d] = "changed" => job[d].item # 0
               /\ job[d].op = "write" /\ at[d] \in {"begun", "there"} => job[d].item = 0
               /\ job[d].item # 0 => InTrash(job[d].item)
               /\ \A e \in Claiming : d # e /\ job[d].item = job[e].item => job[d].item = 0
    BY <1>0 DEF JobsClaim
  <2>1. ASSUME NEW d \in Claiming'
        PROVE  /\ job'[d].op \in {"undo write", "undo delete"} => job'[d].item # 0
               /\ job'[d].op = "delete" /\ at'[d] = "changed" => job'[d].item # 0
               /\ job'[d].op = "write" /\ at'[d] \in {"begun", "there"} => job'[d].item = 0
               /\ job'[d].item # 0 => Stays(job'[d].item)
    <3>1. CASE d # c
      <4>1. d \in Claiming /\ d \in Calls /\ at'[d] = at[d] /\ job'[d] = job[d]
        BY <1>2, <3>1 DEF Claiming
      <4>2. job[d].item # 0 => InTrash(job[d].item) /\ job[d].item # job[c].item
        BY <1>2, <2>0, <3>1, <4>1
      <4> QED BY <1>5, <2>0, <4>1, <4>2
    <3>2. CASE d = c
      <4>1. /\ job[c].op \in {"undo write", "undo delete"} => job[c].item # 0
            /\ job[c].item # 0 => InTrash(job[c].item)
        BY <1>2, <2>0
      <4>2. job[c].item # 0 => Stays(job[c].item)
        BY <1>5, <1>6, <3>2, <4>1
      <4> QED BY <1>2, <1>4, <1>5, <3>2, <4>1, <4>2 DEF Stays
    <3> QED BY <3>1, <3>2
  <2>3. \A d, e \in Claiming' : d # e /\ job'[d].item = job'[e].item => job'[d].item = 0
    <3>1. \A d \in Claiming : job[d].item # Len(kept) + 1
      BY <1>5, <2>0
    <3>2. \A d, e \in Claiming : d # e /\ job[d].item = job[e].item => job[d].item = 0
      BY <2>0
    <3>3. \A d \in Claiming' : /\ d \in Claiming
                               /\ d # c => job'[d].item = job[d].item
      BY <1>2 DEF Claiming
    <3>4. job'[c].item \in {job[c].item, Len(kept) + 1}
      BY <1>4
    <3> QED BY <3>1, <3>2, <3>3, <3>4, <1>2
  <2> QED BY <2>1, <2>3 DEF JobsClaim, InTrash, Stays
<1> QED BY <1>7, <1>8

LEMMA ClaimsEnd ==
    ASSUME IInv, NEW c \in Calls, Ends(c)
    PROVE  EntriesClaim' /\ JobsClaim'
<1>0. TypeOK /\ EntriesClaim /\ JobsClaim /\ PlacesOK
  BY DEF IInv
<1>1. /\ kept' = kept
      /\ \A d \in Calls \ {c} : at'[d] = at[d] /\ job'[d] = job[d]
      /\ at'[c] = "idle" /\ job'[c] = NoJob
  BY <1>0, DoneDoes DEF Ends
<1>2. NoJob.item = 0 /\ NoJob.op = "none"
  BY NoJobFields
<1>3. ASSUME NEW d \in Claiming
      PROVE  /\ job[d].op \in {"undo write", "undo delete"} => job[d].item # 0
             /\ job[d].op = "delete" /\ at[d] = "changed" => job[d].item # 0
             /\ job[d].op = "write" /\ at[d] \in {"begun", "there"} => job[d].item = 0
             /\ job[d].item # 0 => InTrash(job[d].item)
             /\ \A e \in Claiming : d # e /\ job[d].item = job[e].item => job[d].item = 0
  BY <1>0 DEF JobsClaim
<1>4. ASSUME NEW i \in DOMAIN stack
      PROVE  /\ stack[i].op \in {"undo write", "undo delete"} => stack[i].item # 0
             /\ stack[i].item # 0 => InTrash(stack[i].item)
             /\ \A k \in DOMAIN stack :
                   i # k /\ stack[i].item = stack[k].item => stack[i].item = 0
             /\ \A d \in Claiming : job[d].item = stack[i].item => stack[i].item = 0
  BY <1>0 DEF EntriesClaim
<1>5. \A d \in Claiming' : d \in Claiming \ {c} \/ d = c
  BY <1>1 DEF Claiming
<1>6. JobsClaim'
  <2>1. \A d \in Claiming' : \/ /\ d \in Claiming /\ d # c
                                /\ at'[d] = at[d] /\ job'[d] = job[d]
                             \/ d = c /\ job'[d].item = 0 /\ job'[d].op = "none"
    BY <1>1, <1>2, <1>5 DEF Claiming
  <2>2. \A n : InTrash(n) => n \in DOMAIN kept' /\ kept'[n] # Absent
    BY <1>1 DEF InTrash
  <2> QED BY ZenonT(40), <1>3, <2>1, <2>2 DEF JobsClaim, InTrash
<1>7. ASSUME NEW e, NEW k \in {0, 1}, Grows(e, k), c \in Claiming, e.item = job[c].item,
             e.op \in {"undo write", "undo delete"} => e.item # 0
      PROVE  EntriesClaim'
  <2> DEFINE n == Len(stack')
  <2>1. /\ stack' \in Seq(Jobs) /\ stack'[n] = e /\ n \in Nat
        /\ \A i \in 1..(n - 1) : i + k \in DOMAIN stack /\ stack'[i] = stack[i + k]
    <3>1. Grows(e, k)
      BY <1>7
    <3>2. stack' \in Seq(Jobs) /\ n \in Nat
      BY <3>1 DEF Grows
    <3> QED BY <3>1, <3>2 DEF Grows
  <2>2. DOMAIN stack' = 1..n
    BY <2>1, LenProperties
  <2> HIDE DEF n
  <2>3. \A i \in DOMAIN stack' : i = n \/ i \in 1..(n - 1)
    BY <2>1, <2>2
  <2>4. ASSUME NEW i \in 1..(n - 1)
        PROVE  /\ stack'[i].op \in {"undo write", "undo delete"} => stack'[i].item # 0
               /\ stack'[i].item # 0 => InTrash(stack'[i].item)
               /\ \A d \in Claiming : job[d].item = stack'[i].item => stack'[i].item = 0
               /\ \A j \in 1..(n - 1) :
                     i # j /\ stack'[i].item = stack'[j].item => stack'[i].item = 0
    <3>1. i + k \in DOMAIN stack /\ stack'[i] = stack[i + k]
      BY <2>1
    <3>2. ASSUME NEW j \in 1..(n - 1), i # j, stack'[i].item = stack'[j].item
          PROVE  stack'[i].item = 0
      <4>1. j + k \in DOMAIN stack /\ stack'[j] = stack[j + k] /\ i + k # j + k
        BY <2>1, <3>2
      <4> QED BY <1>4, <3>1, <3>2, <4>1
    <3> QED BY <1>4, <3>1, <3>2
  <2>5. e.item # 0 => InTrash(e.item)
    BY <1>3, <1>7
  <2>6. \A i \in DOMAIN stack' :
            /\ stack'[i].op \in {"undo write", "undo delete"} => stack'[i].item # 0
            /\ stack'[i].item # 0 => InTrash(stack'[i].item)
    BY <1>7, <2>1, <2>3, <2>4, <2>5
  <2>7. ASSUME NEW i \in DOMAIN stack', NEW j \in DOMAIN stack', i # j,
               stack'[i].item = stack'[j].item
        PROVE  stack'[i].item = 0
    <3>1. CASE i = n
      BY <1>7, <2>1, <2>3, <2>4, <2>7, <3>1
    <3>2. CASE j = n
      BY <1>7, <2>1, <2>3, <2>4, <2>7, <3>2
    <3>3. CASE i \in 1..(n - 1) /\ j \in 1..(n - 1)
      BY <2>4, <2>7, <3>3
    <3> QED BY <2>3, <3>1, <3>2, <3>3
  <2>8. ASSUME NEW i \in DOMAIN stack', NEW d \in Claiming', job'[d].item = stack'[i].item
        PROVE  stack'[i].item = 0
    <3>1. CASE d = c
      BY <1>1, <1>2, <2>8, <3>1
    <3>2. CASE d \in Claiming \ {c}
      <4>1. job'[d] = job[d]
        BY <1>1, <3>2 DEF Claiming
      <4>2. CASE i = n
        BY <1>3, <1>7, <2>1, <2>8, <3>2, <4>1, <4>2
      <4>3. CASE i \in 1..(n - 1)
        BY <2>4, <2>8, <3>2, <4>1, <4>3
      <4> QED BY <2>3, <4>2, <4>3
    <3> QED BY <1>5, <3>1, <3>2
  <2> QED BY <1>1, <2>6, <2>7, <2>8 DEF EntriesClaim, InTrash
<1>8. ASSUME stack' = stack PROVE EntriesClaim'
  <2>1. \A d \in Claiming' : job'[d].item = 0 \/ (d \in Claiming /\ job'[d] = job[d])
    BY <1>1, <1>2, <1>5 DEF Claiming
  <2>2. \A n : InTrash(n) => n \in DOMAIN kept' /\ kept'[n] # Absent
    BY <1>1 DEF InTrash
  <2>3. \A i \in DOMAIN stack : \A d \in Claiming' :
            job'[d].item = stack[i].item => stack[i].item = 0
    BY <1>4, <2>1
  <2> QED BY <1>4, <1>8, <2>2, <2>3 DEF EntriesClaim, InTrash
<1>9. CASE Undoing(c) /\ at[c] # "undone" /\ Grows(job[c], 0)
  <2>1. c \in Claiming /\ Grows(job[c], 0)
    BY <1>9 DEF Claiming
  <2>2. job[c].op \in {"undo write", "undo delete"} => job[c].item # 0
    BY <1>3, <2>1
  <2>3. EntriesClaim'
    <3> DEFINE e == job[c]
    <3> HIDE DEF e
    <3>1. Grows(e, 0) /\ e.item = job[c].item
          /\ (e.op \in {"undo write", "undo delete"} => e.item # 0)
      BY <2>1, <2>2 DEF e
    <3> QED BY <1>7, <2>1, <3>1
  <2> QED BY <1>6, <2>3
<1>10. ASSUME at[c] = "changed", NEW k \in {0, 1}, Grows(Entry(job[c]), k)
       PROVE  EntriesClaim'
  <2>1. c \in Claiming
    BY <1>10 DEF Claiming
  <2>2. job[c] \in Jobs /\ job[c].op \in Ops
    BY <1>0, <1>10, TypeParts DEF PlacesOK
  <2>3. Entry(job[c]).item = job[c].item
    BY <2>2, EntryFields
  <2>4. Entry(job[c]).op \in {"undo write", "undo delete"} => Entry(job[c]).item # 0
    <3>1. job[c].op = "delete" => job[c].item # 0
      BY <1>3, <1>10, <2>1
    <3>2. Entry(job[c]).op \in {"undo write", "undo delete"} =>
             job[c].op = "delete" \/ (job[c].op = "write" /\ job[c].item # 0)
      BY <2>2, EntryFields DEF Ops
    <3> QED BY <2>3, <3>1, <3>2
  <2> QED BY <1>7, <1>10, <2>1, <2>3, <2>4
<1>11. ASSUME at[c] = "changed", \E k \in {0, 1} : Grows(Entry(job[c]), k)
       PROVE  EntriesClaim'
  BY <1>10, <1>11
<1> QED BY <1>6, <1>8, <1>9, <1>11 DEF Ends

LEMMA ClaimsBegin ==
    ASSUME IInv, NEW c \in Calls, NEW e \in Jobs, Begins(c, e),
           \/ e.op \in Ops /\ e.item = 0 /\ stack' = stack
           \/ /\ Len(stack) > 0 /\ e = stack[Len(stack)]
              /\ stack' \in Seq(Jobs) /\ Len(stack') = Len(stack) - 1
              /\ \A i \in 1..(Len(stack) - 1) : stack'[i] = stack[i]
    PROVE  EntriesClaim' /\ JobsClaim'
<1>0. TypeOK /\ EntriesClaim /\ JobsClaim
  BY DEF IInv
<1> DEFINE n == Len(stack)
<1>1. stack \in Seq(Jobs) /\ n \in Nat /\ DOMAIN stack = 1..n
  BY <1>0, TypeParts, LenProperties
<1>2. \A i \in DOMAIN stack : stack[i].op \in Undos
  BY <1>0, TypeParts
<1> HIDE DEF n
<1>3. e.op \in Ops \/ e.op \in Undos
  <2>1. CASE e.op \in Ops
    BY <2>1
  <2>2. CASE n > 0 /\ e = stack[n]
    <3>1. n \in DOMAIN stack
      BY <1>1, <2>2
    <3> QED BY <1>2, <2>2, <3>1
  <2> QED BY <2>1, <2>2 DEF n
<1>4. /\ \A d \in Calls \ {c} : at'[d] = at[d] /\ job'[d] = job[d]
      /\ at'[c] = "begun" /\ job'[c] = e /\ at[c] = "idle"
      /\ kept' = kept
  <2>1. e.op # "none"
    BY <1>3 DEF Ops, Undos
  <2>2. kept' = kept
    BY DEF Begins
  <2> QED BY <1>0, <2>1, <2>2, BeginsDoes
<1>5. ASSUME NEW d \in Claiming
      PROVE  /\ job[d].op \in {"undo write", "undo delete"} => job[d].item # 0
             /\ job[d].op = "delete" /\ at[d] = "changed" => job[d].item # 0
             /\ job[d].op = "write" /\ at[d] \in {"begun", "there"} => job[d].item = 0
             /\ job[d].item # 0 => InTrash(job[d].item)
             /\ \A f \in Claiming : d # f /\ job[d].item = job[f].item => job[d].item = 0
  BY <1>0 DEF JobsClaim
<1>6. ASSUME NEW i \in DOMAIN stack
      PROVE  /\ stack[i].op \in {"undo write", "undo delete"} => stack[i].item # 0
             /\ stack[i].item # 0 => InTrash(stack[i].item)
             /\ \A k \in DOMAIN stack :
                   i # k /\ stack[i].item = stack[k].item => stack[i].item = 0
             /\ \A d \in Claiming : job[d].item = stack[i].item => stack[i].item = 0
  BY <1>0 DEF EntriesClaim
<1>7. /\ e.op \in {"undo write", "undo delete"} => e.item # 0
      /\ e.op = "write" => e.item = 0
      /\ e.item # 0 => InTrash(e.item)
      /\ \A d \in Claiming : job[d].item = e.item => e.item = 0
  <2>1. CASE e.op \in Ops /\ e.item = 0
    BY <2>1 DEF Ops
  <2>2. CASE n > 0 /\ e = stack[n]
    <3>1. n \in DOMAIN stack /\ e.op \in Undos
      BY <1>1, <1>2, <2>2
    <3> QED BY <1>6, <2>2, <3>1 DEF Undos
  <2> QED BY <2>1, <2>2 DEF n
<1>8. \A i \in DOMAIN stack' : /\ i \in DOMAIN stack /\ stack'[i] = stack[i]
                               /\ stack[i].item = e.item => e.item = 0
  <2>1. CASE e.item = 0 /\ stack' = stack
    BY <2>1
  <2>2. CASE /\ n > 0 /\ e = stack[n]
             /\ stack' \in Seq(Jobs) /\ Len(stack') = n - 1
             /\ \A i \in 1..(n - 1) : stack'[i] = stack[i]
    <3>1. DOMAIN stack' = 1..(n - 1)
      BY <2>2, LenProperties
    <3>2. \A i \in DOMAIN stack' : i \in DOMAIN stack /\ i # n /\ n \in DOMAIN stack
      BY <1>1, <3>1, <2>2
    <3> QED BY <1>6, <2>2, <3>1, <3>2
  <2> QED BY <2>1, <2>2 DEF n
<1>9. \A d \in Claiming' : (d \in Claiming /\ d # c /\ d \in Calls) \/ d = c
  BY <1>4 DEF Claiming
<1>10. \A m : InTrash(m) => m \in DOMAIN kept' /\ kept'[m] # Absent
  BY <1>4 DEF InTrash
<1>11. EntriesClaim'
  <2>1. \A i \in DOMAIN stack' : \A d \in Claiming' :
            job'[d].item = stack'[i].item => stack'[i].item = 0
    <3> SUFFICES ASSUME NEW i \in DOMAIN stack', NEW d \in Claiming',
                        job'[d].item = stack'[i].item
                 PROVE  stack'[i].item = 0
      OBVIOUS
    <3>1. i \in DOMAIN stack /\ stack'[i] = stack[i]
      BY <1>8
    <3>2. CASE d = c
      BY <1>4, <1>8, <3>1, <3>2
    <3>3. CASE d \in Claiming /\ d # c /\ d \in Calls
      BY ZenonT(40), <1>4, <1>6, <3>1, <3>3
    <3> QED BY <1>9, <3>2, <3>3
  <2> QED BY <1>6, <1>8, <1>10, <2>1 DEF EntriesClaim, InTrash
<1>12. JobsClaim'
  <2>1. ASSUME NEW d \in Claiming', NEW f \in Claiming', d # f, job'[d].item = job'[f].item
        PROVE  job'[d].item = 0
    <3>1. CASE d = c
      BY <1>4, <1>7, <1>9, <2>1, <3>1
    <3>2. CASE f = c
      <4>1. d \in Claiming /\ job'[d] = job[d] /\ job'[f] = e
        BY <1>4, <1>9, <2>1, <3>2
      <4>2. job[d].item = e.item
        BY <2>1, <4>1
      <4> QED BY <1>7, <4>1, <4>2
    <3>3. CASE d # c /\ f # c
      <4>1. /\ d \in Claiming /\ job'[d] = job[d]
            /\ f \in Claiming /\ job'[f] = job[f]
        BY <1>4, <1>9, <3>3
      <4>2. job[d].item = job[f].item
        BY <2>1, <4>1
      <4> QED BY <1>5, <2>1, <4>1, <4>2
    <3> QED BY <3>1, <3>2, <3>3
  <2>2. ASSUME NEW d \in Claiming'
        PROVE  /\ job'[d].op \in {"undo write", "undo delete"} => job'[d].item # 0
               /\ job'[d].op = "delete" /\ at'[d] = "changed" => job'[d].item # 0
               /\ job'[d].op = "write" /\ at'[d] \in {"begun", "there"} => job'[d].item = 0
               /\ job'[d].item # 0 => InTrash(job'[d].item)
    BY <1>4, <1>5, <1>7, <1>9
  <2> QED BY <1>10, <2>1, <2>2 DEF JobsClaim, InTrash
<1> QED BY <1>11, <1>12

-----------------------------------------------------------------------------
(* The call that is alone.                                                 *)

LEMMA AloneStep ==
    ASSUME IInv, NEW c \in Calls, Step(c) \/ WriteFails(c)
    PROVE  Alone'
<1>0. TypeOK
  BY DEF IInv
<1>1. at[c] # "idle" /\ (Moves(c) \/ Ends(c))
  <2>1. Moves(c) \/ Ends(c)
    BY StepKind
  <2> QED BY <2>1 DEF Moves, Ends
<1>2. alone \subseteq {c} /\ (clean => Busy = {c} /\ alone = {c}) /\ (alone # {} => Busy = {c})
  BY <1>0, <1>1, Actor DEF IInv, Alone
<1>3. CASE Ends(c)
  <2>1. Busy' = Busy \ {c} /\ alone' = alone \ {c}
    BY <1>0, <1>3, DoneDoes DEF Ends
  <2>2. clean' => clean
    BY DEF Step, WriteFails, LookForSource, LookForTarget, LookAtFile, KeepCopy, Write,
           Create, Rename, Delete, UndoCreate, UndoWrite, UndoDelete, Push, Return, Fails,
           Goes, Looks, Changes
  <2> QED BY <1>2, <2>1, <2>2 DEF Alone
<1>4. CASE Moves(c)
  <2>1. Busy' = Busy /\ alone' = alone /\ clean' = clean
    BY <1>0, <1>4, MovesDoes DEF Moves
  <2>2. ASSUME c \in alone, at'[c] = "free"
        PROVE  /\ job'[c].op = "write" => files'[job'[c].path] =
                      IF job'[c].item = 0 THEN Absent ELSE kept'[job'[c].item]
               /\ job'[c].op = "rename" => files'[job'[c].other] = Absent
    <3>0. /\ at \in [Calls -> Places] /\ job \in [Calls -> Jobs]
          /\ kept \in Seq(Held \cup {Absent}) /\ Len(kept) \in Nat
      BY <1>0, TypeParts
    <3>1. CASE LookForTarget(c) /\ job' = job /\ files' = files
      BY <2>2, <3>0, <3>1 DEF LookForTarget, Target, Goes, Fails, Done
    <3>2. CASE LookAtFile(c)
      <4>1. job[c].op = "write" => job[c].item = 0
        BY <3>2 DEF LookAtFile, IInv, JobsClaim, Claiming
      <4> QED BY <2>2, <3>0, <3>2, <4>1 DEF LookAtFile, Goes, Looks
    <3>3. CASE KeepCopy(c) /\ files[job[c].path] # Absent
      <4>1. /\ kept' = Append(kept, files[job[c].path]) /\ files' = files
            /\ job' = [job EXCEPT ![c].item = Len(kept) + 1]
        BY <3>3 DEF KeepCopy
      <4>2. job[c] \in Jobs /\ job'[c] = [job[c] EXCEPT !.item = Len(kept) + 1]
        BY <3>0, <4>1
      <4>3. /\ job'[c].item = Len(kept) + 1 /\ job'[c].path = job[c].path
            /\ job'[c].op = "write"
        BY <3>0, <3>3, <4>2, WithItem DEF KeepCopy
      <4>4. kept'[Len(kept) + 1] = files[job[c].path] /\ Len(kept) + 1 # 0
        BY <3>0, <4>1
      <4> QED BY <4>1, <4>3, <4>4
    <3> QED BY <2>2, <1>4, <3>0, <3>1, <3>2, <3>3
            DEF Step, WriteFails, LookForSource, LookForTarget, KeepCopy, Write, Create,
                Rename, Delete, UndoCreate, UndoWrite, UndoDelete, Push, Return, Fails,
                Goes, Looks, Done, Moves
  <2> QED BY <1>2, <2>1, <2>2 DEF Alone
<1> QED BY <1>1, <1>3, <1>4

LEMMA AloneBegin ==
    ASSUME IInv, NEW c \in Calls, NEW e \in Jobs, Begins(c, e), e.op # "none"
    PROVE  Alone'
<1>1. /\ Busy' = Busy \cup {c} /\ alone' = IF Busy = {} THEN {c} ELSE {}
      /\ at'[c] = "begun"
  BY BeginsDoes DEF IInv
<1>2. clean' = (clean /\ Busy = {})
  BY DEF Begins, Calm
<1> QED BY <1>1, <1>2 DEF Alone

-----------------------------------------------------------------------------
(* The history: undoing goes back.                                         *)

LEMMA UndoneIs ==
    ASSUME NEW e, NEW f, NEW t
    PROVE  /\ e.op = "undo create" => Undone(e, f, t) = With(f, e.path, Absent)
           /\ e.op \in {"undo write", "undo delete"} =>
                 Undone(e, f, t) = With(f, e.path, t[e.item])
           /\ e.op = "undo rename" => Undone(e, f, t) = Moved(f, e.other, e.path)
BY DEF Undone

LEMMA UndoneSame ==
    ASSUME NEW e, e.op \in Undos, NEW f, NEW t, NEW u,
           e.op \in {"undo write", "undo delete"} => t[e.item] = u[e.item]
    PROVE  Undone(e, f, t) = Undone(e, f, u)
BY DEF Undone, Undos

LEMMA PutBack ==
    ASSUME NEW f \in Folders, NEW p \in Paths, NEW x
    PROVE  With(With(f, p, x), p, f[p]) = f /\ With(f, p, f[p]) = f
BY DEF Folders, With

LEMMA MoveBack ==
    ASSUME NEW f \in Folders, NEW p \in Paths, NEW q \in Paths, p # q, f[q] = Absent
    PROVE  Moved(Moved(f, p, q), q, p) = f
BY DEF Folders, Moved

\* What an entry took from the folder is what undoing it puts back.
LEMMA EntryUndoes ==
    ASSUME NEW j \in Jobs, j.op \in Ops, Names(j), NEW f \in Folders, NEW x, NEW t
    PROVE  /\ j.op = "create" \/ (j.op = "write" /\ j.item = 0) =>
                 (f[j.path] = Absent => Undone(Entry(j), With(f, j.path, x), t) = f)
           /\ (j.op = "write" /\ j.item # 0) \/ j.op = "delete" =>
                 (f[j.path] = t[j.item] => Undone(Entry(j), With(f, j.path, x), t) = f)
           /\ j.op = "rename" =>
                 (j.path # j.other /\ f[j.other] = Absent =>
                    Undone(Entry(j), Moved(f, j.path, j.other), t) = f)
<1>1. /\ Entry(j).path = j.path /\ Entry(j).other = j.other /\ Entry(j).item = j.item
      /\ j.path \in Paths
  BY EntryFields DEF Names
<1>2. CASE j.op = "create" \/ (j.op = "write" /\ j.item = 0)
  <2>1. Entry(j).op = "undo create"
    BY <1>2, EntryFields
  <2>2. \A g : Undone(Entry(j), g, t) = With(g, j.path, Absent)
    BY <1>1, <2>1, UndoneIs
  <2> QED BY <1>1, <1>2, <2>2, PutBack
<1>3. CASE (j.op = "write" /\ j.item # 0) \/ j.op = "delete"
  <2>1. Entry(j).op \in {"undo write", "undo delete"}
    BY <1>3, EntryFields
  <2>2. \A g : Undone(Entry(j), g, t) = With(g, j.path, t[j.item])
    BY <1>1, <2>1, UndoneIs
  <2> QED BY <1>1, <1>3, <2>2, PutBack
<1>4. CASE j.op = "rename"
  <2>1. Entry(j).op = "undo rename" /\ j.other \in Paths
    BY <1>4, EntryFields DEF Names
  <2>2. \A g : Undone(Entry(j), g, t) = Moved(g, j.other, j.path)
    BY <1>1, <2>1, UndoneIs
  <2> QED BY <1>1, <1>4, <2>1, <2>2, MoveBack
<1> QED BY <1>2, <1>3, <1>4 DEF Ops

\* Beside no other call, a step leaves the folder before it where it was.
LEMMA BeforeStays ==
    ASSUME IInv, NEW c \in Calls, Step(c), Moves(c), clean
    PROVE  job'[c].was = Before(c)'
<1> DEFINE Next_ ==
        IF job[c].op \in Undos
        THEN IF at'[c] = "undone" THEN files' ELSE Undone(job'[c], files', kept')
        ELSE IF at'[c] = "changed" THEN Undone(Entry(job'[c]), files', kept') ELSE files'
<1>1. /\ at[c] \in {"begun", "there", "free"}
      /\ job'[c].op = job[c].op /\ job'[c].path = job[c].path
      /\ job'[c].other = job[c].other /\ job'[c].was = job[c].was
      /\ at \in [Calls -> Places] /\ job \in [Calls -> Jobs] /\ files \in Folders
      /\ job[c] \in Jobs /\ job'[c] \in Jobs /\ Names(job[c]) /\ Names(job'[c])
      /\ kept \in Seq(Held \cup {Absent}) /\ Len(kept) \in Nat
  BY MovesDoes, TypeParts DEF IInv, NamesOK, Names
<1>2. Before(c)' = Next_
  BY <1>1 DEF Before, Undoing
<1>3. c \in Busy /\ c \in alone
  BY <1>1, Actor DEF Busy
<1>4. job[c].was = IF job[c].op \in Undos THEN Undone(job[c], files, kept) ELSE files
  BY <1>1, <1>3 DEF IInv, History, Before, Undoing
<1>5. at[c] = "free" =>
         /\ job[c].op = "write" =>
               files[job[c].path] = IF job[c].item = 0 THEN Absent ELSE kept[job[c].item]
         /\ job[c].op = "rename" => files[job[c].other] = Absent
  BY <1>3 DEF IInv, Alone
<1> USE DEF Goes, Looks, Changes, Put
<1>6. CASE /\ job' = job /\ files' = files /\ kept' = kept
           /\ at'[c] \notin {"changed", "undone"}
  BY <1>2, <1>4, <1>6
<1>7. CASE LookAtFile(c) /\ at'[c] = "undone"
  <2>1. job[c].op = "undo create" /\ files[job[c].path] = Absent /\ files' = files
    BY <1>1, <1>7 DEF LookAtFile
  <2>2. Undone(job[c], files, kept) = files
    <3>1. Undone(job[c], files, kept) = With(files, job[c].path, files[job[c].path])
      BY <2>1, UndoneIs
    <3> QED BY <1>1, <3>1, PutBack DEF Names
  <2> QED BY <1>1, <1>2, <1>4, <1>7, <2>1, <2>2 DEF Undos
<1>8. CASE KeepCopy(c)
  BY <1>1, <1>2, <1>4, <1>8 DEF KeepCopy, Fails, Done, Undos
<1>9. CASE Write(c) \/ (Create(c) /\ files[job[c].path] = Absent)
  <2>1. /\ job[c].op \in {"write", "create"} /\ job' = job /\ at'[c] = "changed"
        /\ files' = With(files, job[c].path, job[c].text) /\ kept' = kept
    BY <1>1, <1>9 DEF Write, Create, With
  <2>2. Undone(Entry(job[c]), files', kept) = files
    <3>2. job[c].op = "write" =>
             files[job[c].path] = IF job[c].item = 0 THEN Absent ELSE kept[job[c].item]
      BY <1>5, <1>9 DEF Write, Create
    <3>3. job[c].op = "create" => files[job[c].path] = Absent
      BY <1>9 DEF Write
    <3>4. /\ job[c].op \in Ops /\ job[c].op # "delete" /\ job[c].op # "rename"
          /\ job[c].op = "create" \/ (job[c].op = "write" /\ job[c].item = 0) =>
                files[job[c].path] = Absent
          /\ (job[c].op = "write" /\ job[c].item # 0) =>
                files[job[c].path] = kept[job[c].item]
      BY <2>1, <3>2, <3>3 DEF Ops
    <3>5. CASE job[c].op = "create" \/ (job[c].op = "write" /\ job[c].item = 0)
      <4>1. Undone(Entry(job[c]), With(files, job[c].path, job[c].text), kept) = files
        BY ZenonT(40), <1>1, <3>4, <3>5, EntryUndoes
      <4> QED BY <2>1, <4>1
    <3>6. CASE job[c].op = "write" /\ job[c].item # 0
      <4>1. Undone(Entry(job[c]), With(files, job[c].path, job[c].text), kept) = files
        BY ZenonT(40), <1>1, <3>4, <3>6, EntryUndoes
      <4> QED BY <2>1, <4>1
    <3> QED BY <2>1, <3>5, <3>6
  <2> QED BY <1>1, <1>2, <1>4, <2>1, <2>2 DEF Undos
<1>10. CASE Rename(c) /\ files[Source(c)] # Absent /\ job[c].op = "rename"
  <2>1. /\ job' = job /\ at'[c] = "changed" /\ kept' = kept
        /\ files' = Moved(files, job[c].path, job[c].other)
        /\ files[job[c].path] # Absent /\ at[c] = "free"
    BY <1>1, <1>10 DEF Rename, Move, Moved, Source, Target, Undoing, Undos
  <2>2. Undone(Entry(job[c]), files', kept) = files
    <3>1. files[job[c].other] = Absent /\ job[c].path # job[c].other
      BY <1>5, <1>10, <2>1
    <3> QED BY <1>1, <1>10, <2>1, <3>1, EntryUndoes DEF Ops
  <2> QED BY <1>1, <1>2, <1>4, <1>10, <2>1, <2>2 DEF Undos
<1>11. CASE Rename(c) /\ files[Source(c)] # Absent /\ job[c].op = "undo rename"
  <2>1. /\ at'[c] = "undone"
        /\ files' = Moved(files, job[c].other, job[c].path)
    BY <1>1, <1>11 DEF Rename, Move, Moved, Source, Target, Undoing, Undos
  <2> QED BY <1>1, <1>2, <1>4, <1>11, <2>1, UndoneIs DEF Undos
<1>12. CASE Delete(c) /\ files[job[c].path] # Absent
  <2>1. /\ job[c].op = "delete" /\ at'[c] = "changed"
        /\ kept' = Append(kept, files[job[c].path])
        /\ files' = With(files, job[c].path, Absent)
        /\ job' = [job EXCEPT ![c].item = Len(kept) + 1]
    BY <1>1, <1>12 DEF Delete, With
  <2>2. job'[c].item = Len(kept) + 1
    <3>1. job'[c] = [job[c] EXCEPT !.item = Len(kept) + 1]
      BY <1>1, <2>1
    <3> QED BY <1>1, <3>1, WithItem
  <2>3. kept'[Len(kept) + 1] = files[job[c].path]
    BY <1>1, <2>1
  <2>4. Undone(Entry(job'[c]), files', kept') = files
    <3>2. /\ job'[c].op = "delete" /\ job'[c].op \in Ops
          /\ job'[c].path = job[c].path
          /\ files[job'[c].path] = kept'[job'[c].item]
      BY <1>1, <2>1, <2>2, <2>3 DEF Ops
    <3>3. files' = With(files, job'[c].path, Absent)
      BY <2>1, <3>2
    <3> QED BY <1>1, <3>2, <3>3, EntryUndoes
  <2> QED BY <1>1, <1>2, <1>4, <2>1, <2>4 DEF Undos
<1>13. CASE UndoCreate(c) /\ files[job[c].path] # Absent
  <2>1. /\ at'[c] = "undone" /\ job[c].op = "undo create" /\ job' = job
        /\ files' = With(files, job[c].path, Absent)
    BY <1>1, <1>13 DEF UndoCreate, With
  <2>2. files' = Undone(job[c], files, kept)
    BY <2>1, UndoneIs
  <2> QED BY <1>1, <1>2, <1>4, <2>1, <2>2 DEF Undos
<1>14. CASE UndoWrite(c)
  <2>1. /\ at'[c] = "undone" /\ job[c].op = "undo write" /\ job' = job
        /\ files' = With(files, job[c].path, kept[job[c].item])
    BY <1>1, <1>14 DEF UndoWrite, With
  <2>2. files' = Undone(job[c], files, kept)
    BY <2>1, UndoneIs
  <2> QED BY <1>1, <1>2, <1>4, <2>1, <2>2 DEF Undos
<1>15. CASE UndoDelete(c)
  <2>1. /\ at'[c] = "undone" /\ job[c].op = "undo delete" /\ job' = job
        /\ files' = With(files, job[c].path, kept[job[c].item])
    BY <1>1, <1>15 DEF UndoDelete, With
  <2>2. files' = Undone(job[c], files, kept)
    BY <2>1, UndoneIs
  <2> QED BY <1>1, <1>2, <1>4, <2>1, <2>2 DEF Undos
<1>16. at'[c] # "idle"
  BY MovesDoes DEF IInv
<1>17. CASE LookForSource(c) \/ LookForTarget(c)
  BY <1>1, <1>6, <1>16, <1>17 DEF LookForSource, LookForTarget, Fails, Done
<1>18. CASE LookAtFile(c)
  BY <1>1, <1>6, <1>7, <1>18 DEF LookAtFile
<1>19. CASE \/ Create(c) /\ files[job[c].path] # Absent
            \/ Rename(c) /\ files[Source(c)] = Absent
            \/ Delete(c) /\ files[job[c].path] = Absent
            \/ UndoCreate(c) /\ files[job[c].path] = Absent
  BY <1>1, <1>16, <1>19 DEF Create, Rename, Delete, UndoCreate, Fails, Done
<1>20. CASE Rename(c)
  BY <1>10, <1>11, <1>19, <1>20 DEF Rename
<1>21. ~Push(c) /\ ~Return(c)
  BY <1>1 DEF Push, Return
<1> QED BY <1>8, <1>9, <1>12, <1>13, <1>14, <1>15, <1>17, <1>18, <1>19, <1>20, <1>21 DEF Step

\* An entry that leads back to the folder below it, on top of the others.
LEMMA GrowsLeadsBack ==
    ASSUME TypeOK, NEW e, NEW k \in {0, 1}, Grows(e, k), kept' = kept, files' = files,
           LeadsBack(e.was), e.was = Undone(e, files, kept)
    PROVE  LeadsBack(files)'
<1> DEFINE n == Len(stack')
           m == Len(stack)
<1>1. stack \in Seq(Jobs) /\ m \in Nat /\ DOMAIN stack = 1..m
  BY TypeParts, LenProperties
<1>2. stack' \in Seq(Jobs) /\ n = m + 1 - k /\ stack'[n] = e
      /\ \A i \in 1..(n - 1) : i + k \in DOMAIN stack /\ stack'[i] = stack[i + k]
  BY DEF Grows
<1>3. DOMAIN stack' = 1..n /\ n \in Nat
  BY <1>2, LenProperties
<1>4. \A i \in DOMAIN stack :
          stack[i].was = Undone(stack[i], IF i = m THEN e.was ELSE stack[i + 1].was, kept)
  BY DEF LeadsBack
<1> HIDE DEF n, m
<1>5. ASSUME NEW i \in DOMAIN stack'
      PROVE  stack'[i].was =
                 Undone(stack'[i], IF i = n THEN files ELSE stack'[i + 1].was, kept)
  <2>1. CASE i = n
    BY <1>2, <2>1
  <2>2. CASE i \in 1..(n - 1)
    <3>1. stack'[i] = stack[i + k] /\ i + k \in DOMAIN stack /\ i # n
      BY <1>2, <1>3, <2>2
    <3>2. (IF i + k = m THEN e.was ELSE stack[i + k + 1].was) = stack'[i + 1].was
      <4>1. CASE i + 1 = n
        BY <1>1, <1>2, <4>1
      <4>2. CASE i + 1 # n
        <5>1. i + 1 \in 1..(n - 1) /\ i + k # m /\ i + 1 + k = i + k + 1
          BY SMTT(30), <1>1, <1>2, <1>3, <2>2, <4>2
        <5>2. stack'[i + 1] = stack[i + 1 + k]
          BY <1>2, <5>1
        <5> QED BY <5>1, <5>2
      <4> QED BY <4>1, <4>2
    <3>3. stack[i + k].was =
              Undone(stack[i + k], IF i + k = m THEN e.was ELSE stack[i + k + 1].was, kept)
      BY <1>4, <3>1
    <3> QED BY <3>1, <3>2, <3>3
  <2> QED BY <1>3, <2>1, <2>2
<1> QED BY <1>5 DEF LeadsBack, n

LEMMA HistoryStep ==
    ASSUME IInv, NEW c \in Calls, Step(c) \/ WriteFails(c)
    PROVE  History'
<1> SUFFICES ASSUME clean'
             PROVE  (Busy = {} => LeadsBack(files))'
                    /\ (\A d \in Busy : job[d].was = Before(d) /\ LeadsBack(job[d].was))'
  BY DEF History
<1>0. TypeOK /\ PlacesOK
  BY DEF IInv
<1>1. Step(c) /\ clean
  BY DEF Step, WriteFails, LookForSource, LookForTarget, LookAtFile, KeepCopy, Write,
         Create, Rename, Delete, UndoCreate, UndoWrite, UndoDelete, Push, Return, Fails,
         Goes, Looks, Changes
<1>2. at[c] # "idle" /\ (Moves(c) \/ Ends(c))
  <2>1. Moves(c) \/ Ends(c)
    BY StepKind
  <2> QED BY <2>1 DEF Moves, Ends
<1>3. Busy = {c}
  BY <1>1, <1>2, Actor
<1>4. job[c].was = Before(c) /\ LeadsBack(job[c].was)
  BY <1>1, <1>3 DEF IInv, History
<1>5. CASE Moves(c)
  <2>1. /\ Busy' = {c} /\ stack' = stack /\ job'[c].was = job[c].was
        /\ at[c] \in {"begun", "there", "free"}
    BY <1>0, <1>3, <1>5, MovesDoes DEF Moves
  <2>2. job'[c].was = Before(c)'
    BY <1>1, <1>5, BeforeStays
  <2>3. ASSUME NEW i \in DOMAIN stack, NEW f
        PROVE  Undone(stack[i], f, kept') = Undone(stack[i], f, kept)
    <3>1. stack[i].op \in Undos
      BY <1>0, TypeParts
    <3>2. ASSUME stack[i].op \in {"undo write", "undo delete"}
          PROVE  kept'[stack[i].item] = kept[stack[i].item]
      <4>1. stack[i].item # 0 /\ stack[i].item \in DOMAIN kept /\ c \in Claiming
        BY <2>1, <3>2 DEF IInv, EntriesClaim, InTrash, Claiming
      <4>2. stack[i].item # job[c].item
        BY <4>1 DEF IInv, EntriesClaim
      <4> QED BY <4>1, <4>2, TrashStays
    <3> QED BY <3>1, <3>2, UndoneSame
  <2>4. LeadsBack(job[c].was)'
    BY <1>4, <2>1, <2>3 DEF LeadsBack
  <2> QED BY <2>1, <2>2, <2>4
<1>6. CASE Ends(c)
  <2>1. Busy' = {} /\ kept' = kept
    BY <1>0, <1>3, <1>6, DoneDoes DEF Ends
  <2>2. files' = files
    BY <1>1, <1>2, <1>6, <2>1, <1>0, DoneDoes
       DEF Ends, Busy, Step, LookForSource, LookForTarget, LookAtFile, KeepCopy, Write,
           Create, Rename, Delete, UndoCreate, UndoWrite, UndoDelete, Push, Return, Fails,
           Goes, Looks, Changes
  <2>3. CASE stack' = stack /\ job[c].was = files
    BY <1>4, <2>1, <2>2, <2>3 DEF LeadsBack
  <2>4. CASE Undoing(c) /\ at[c] # "undone" /\ Grows(job[c], 0)
    <3>1. job[c].was = Undone(job[c], files, kept)
      BY <1>4, <2>4 DEF Before
    <3>2. LeadsBack(files)'
      BY <1>0, <1>4, <2>1, <2>2, <2>4, <3>1, GrowsLeadsBack
    <3> QED BY <2>1, <3>2
  <2>5. ASSUME at[c] = "changed", NEW k \in {0, 1}, Grows(Entry(job[c]), k)
        PROVE  LeadsBack(files)'
    <3>1. job[c] \in Jobs /\ job[c].op \in Ops
      BY <1>0, <2>5, TypeParts DEF PlacesOK
    <3>2. Entry(job[c]).was = job[c].was
      BY <3>1, EntryFields
    <3>3. job[c].was = Undone(Entry(job[c]), files, kept)
      BY <1>4, <2>5, <3>1 DEF Before, Ops, Undos
    <3> QED BY <1>0, <1>4, <2>1, <2>2, <2>5, <3>2, <3>3, GrowsLeadsBack
  <2>6. ASSUME at[c] = "changed", \E k \in {0, 1} : Grows(Entry(job[c]), k)
        PROVE  LeadsBack(files)'
    BY <2>5, <2>6
  <2>7. CASE \/ Undoing(c) /\ at[c] = "undone" /\ stack' = stack
             \/ ~Undoing(c) /\ at[c] # "changed" /\ stack' = stack
    BY <1>4, <2>3, <2>7 DEF Before
  <2> QED BY <1>6, <2>1, <2>4, <2>6, <2>7 DEF Ends
<1> QED BY <1>2, <1>5, <1>6

LEMMA HistoryBegin ==
    ASSUME IInv, NEW c \in Calls, NEW e \in Jobs, Begins(c, e),
           \/ e.op \in Ops /\ stack' = stack /\ e.was = IF Calm THEN files ELSE Absent
           \/ /\ Len(stack) > 0 /\ e = stack[Len(stack)]
              /\ stack' \in Seq(Jobs) /\ Len(stack') = Len(stack) - 1
              /\ \A i \in 1..(Len(stack) - 1) : stack'[i] = stack[i]
    PROVE  History'
<1> SUFFICES ASSUME clean'
             PROVE  (Busy = {} => LeadsBack(files))'
                    /\ (\A d \in Busy : job[d].was = Before(d) /\ LeadsBack(job[d].was))'
  BY DEF History
<1> DEFINE n == Len(stack)
<1>0. TypeOK
  BY DEF IInv
<1>1. Calm /\ clean /\ Busy = {} /\ files' = files /\ kept' = kept
  BY DEF Begins, Calm
<1>2. LeadsBack(files)
  BY <1>1 DEF IInv, History
<1>3. stack \in Seq(Jobs) /\ n \in Nat /\ DOMAIN stack = 1..n
      /\ \A i \in DOMAIN stack : stack[i].op \in Undos
  BY <1>0, TypeParts, LenProperties
<1> HIDE DEF n
<1>4. CASE e.op \in Ops /\ stack' = stack /\ e.was = files
  <2>1. e.op # "none" /\ e.op \notin Undos
    BY <1>4 DEF Ops, Undos
  <2>2. Busy' = {c} /\ job'[c] = e /\ at'[c] = "begun"
    BY <1>0, <1>1, <2>1, BeginsDoes
  <2>3. Before(c)' = files
    BY <1>1, <2>1, <2>2 DEF Before
  <2>4. LeadsBack(job[c].was)'
    BY <1>1, <1>2, <1>4, <2>2 DEF LeadsBack
  <2> QED BY <1>4, <2>2, <2>3, <2>4
<1>5. CASE /\ n > 0 /\ e = stack[n]
           /\ stack' \in Seq(Jobs) /\ Len(stack') = n - 1
           /\ \A i \in 1..(n - 1) : stack'[i] = stack[i]
  <2>1. n \in DOMAIN stack /\ e.op \in Undos
    BY <1>3, <1>5
  <2>2. e.op # "none"
    BY <2>1 DEF Undos
  <2>3. Busy' = {c} /\ job'[c] = e /\ at'[c] = "begun"
    BY <1>0, <1>1, <2>2, BeginsDoes
  <2>4. \A i \in DOMAIN stack :
            stack[i].was = Undone(stack[i], IF i = n THEN files ELSE stack[i + 1].was, kept)
    BY <1>2 DEF LeadsBack, n
  <2>5. e.was = Undone(e, files, kept)
    BY <1>5, <2>1, <2>4
  <2>6. Before(c)' = e.was
    BY <1>1, <2>1, <2>3, <2>5 DEF Before
  <2>7. DOMAIN stack' = 1..(n - 1)
    BY <1>5, LenProperties
  <2>8. ASSUME NEW i \in DOMAIN stack'
        PROVE  stack'[i].was =
                  Undone(stack'[i], IF i = n - 1 THEN e.was ELSE stack'[i + 1].was, kept)
    <3>1. i \in 1..(n - 1) /\ i \in DOMAIN stack /\ i # n
      BY <1>3, <2>7
    <3>2. stack'[i] = stack[i] /\ (i # n - 1 => stack'[i + 1] = stack[i + 1])
      BY <1>3, <1>5, <3>1
    <3>3. stack[i].was = Undone(stack[i], stack[i + 1].was, kept)
      BY <2>4, <3>1
    <3>4. i = n - 1 => stack[i + 1] = e
      BY <1>3, <1>5, <3>1
    <3> QED BY <3>2, <3>3, <3>4
  <2>9. LeadsBack(job[c].was)'
    BY <1>1, <1>5, <2>3, <2>8 DEF LeadsBack
  <2> QED BY <2>3, <2>6, <2>9
<1> QED BY <1>1, <1>4, <1>5 DEF n

-----------------------------------------------------------------------------
(* The invariant.                                                          *)

LEMMA InitInv == Init => IInv
<1> SUFFICES ASSUME Init PROVE IInv
  OBVIOUS
<1>1. /\ at = [c \in Calls |-> "idle"] /\ job = [c \in Calls |-> NoJob]
      /\ files \in Folders /\ kept = <<>> /\ stack = <<>> /\ alone = {} /\ clean = TRUE
      /\ begun = 0 /\ mishaps = 0
  BY DEF Init
<1>2. /\ at \in [Calls -> Places] /\ job \in [Calls -> Jobs]
      /\ \A c \in Calls : at[c] = "idle" /\ job[c] = NoJob
  BY <1>1, NoJobFields DEF Places
<1>3. Busy = {} /\ Returning = {}
  BY <1>2, NoJobFields DEF Busy, Returning, Undoing, Undos
<1>4. Len(stack) = 0 /\ DOMAIN stack = {}
  BY <1>1
<1>5. LengthOK /\ Len(stack) < MaxHistory + Cardinality(Calls)
  <2>1. Cardinality({}) = 0
    BY FS_EmptySet
  <2>2. Cardinality(Calls) \in Nat
    BY SomeReturn
  <2> QED BY <1>3, <1>4, <2>1, <2>2, UndoAssumption DEF LengthOK
<1>6. TypeOK
  <2>1. kept \in Seq(Held \cup {Absent}) /\ stack \in Seq(Jobs)
    BY <1>1
  <2>2. begun \in 0..MaxCalls /\ mishaps \in 0..MaxMishaps
    BY <1>1, UndoAssumption
  <2> QED BY <1>1, <1>2, <1>4, <1>5, <2>1, <2>2 DEF TypeOK
<1>7. PlacesOK /\ NamesOK
  BY <1>2, <1>4, NoJobFields DEF PlacesOK, NamesOK
<1>8. EntriesClaim /\ JobsClaim
  BY <1>2, <1>4, NoJobFields DEF EntriesClaim, JobsClaim, Claiming
<1>9. Alone /\ History
  BY <1>1, <1>3, <1>4 DEF Alone, History, LeadsBack
<1> QED BY <1>5, <1>6, <1>7, <1>8, <1>9 DEF IInv

LEMMA CallStep ==
    ASSUME IInv, NEW c \in Calls, Step(c) \/ WriteFails(c)
    PROVE  IInv'
<1>1. Moves(c) \/ Ends(c)
  BY StepKind
<1>2. EntriesClaim' /\ JobsClaim'
  BY <1>1, ClaimsMove, ClaimsEnd
<1> QED BY <1>1, <1>2, TypeStep, LengthStep, PlacesStep, AloneStep, HistoryStep DEF IInv

LEMMA BeginStep ==
    ASSUME IInv, NEW c \in Calls, Undo(c) \/ \E what \in Requests : Request(c, what)
    PROVE  IInv'
<1>0. TypeOK /\ LengthOK /\ NamesOK
  BY DEF IInv
<1>1. PICK e \in Jobs :
          /\ Begins(c, e) /\ Names(e)
          /\ \/ /\ e.op \in Ops /\ e.item = 0 /\ stack' = stack
                /\ e.was = IF Calm THEN files ELSE Absent
             \/ /\ Len(stack) > 0 /\ e = stack[Len(stack)] /\ e.op \in Undos
                /\ stack' \in Seq(Jobs) /\ Len(stack') = Len(stack) - 1
                /\ \A i \in 1..(Len(stack) - 1) : stack'[i] = stack[i]
  <2>1. CASE Undo(c)
    <3>1. Len(stack) \in DOMAIN stack
      BY <1>0, <2>1, UndoDoes, TypeParts, LenProperties
    <3>2. Names(stack[Len(stack)])
      BY <1>0, <3>1 DEF NamesOK
    <3> QED BY <1>0, <2>1, <3>2, UndoDoes
  <2>2. CASE \E what \in Requests : Request(c, what)
    BY <1>0, <2>2, RequestDoes
  <2> QED BY <2>1, <2>2
<1>2. e.op # "none"
  BY <1>1 DEF Ops, Undos
<1>3. /\ stack \in Seq(Jobs) /\ Len(stack) \in Nat /\ DOMAIN stack = 1..Len(stack)
      /\ \A i \in DOMAIN stack : stack[i].op \in Undos
  BY <1>0, TypeParts, LenProperties
<1>4. /\ at' \in [Calls -> Places] /\ job' \in [Calls -> Jobs]
      /\ \A d \in Calls : (at'[d] = "idle") <=> (job'[d] = NoJob)
      /\ Busy' = Busy \cup {c} /\ alone' = IF Busy = {} THEN {c} ELSE {}
      /\ Returning' = IF e.op \in Undos THEN Returning \cup {c} ELSE Returning
      /\ c \notin Returning /\ begun' \in 0..MaxCalls
  BY <1>0, <1>1, <1>2, BeginsDoes
<1>5. LengthOK' /\ Len(stack') < MaxHistory + Cardinality(Calls)
  <2>1. CASE e.op \in Ops /\ stack' = stack
    <3>1. Returning' = Returning
      BY <1>4, <2>1 DEF Ops, Undos
    <3> QED BY <1>0, <1>3, <2>1, <3>1, LengthKept, UndoAssumption
  <2>2. CASE e.op \in Undos /\ Len(stack) > 0 /\ Len(stack') = Len(stack) - 1
    <3>1. Len(stack') \in Nat
      BY <1>3, <2>2
    <3> QED BY <1>0, <1>4, <2>2, <3>1, LengthKept, UndoAssumption
  <2> QED BY <1>1, <2>1, <2>2
<1>6. stack' \in Seq(Jobs) /\ \A i \in DOMAIN stack' : stack'[i].op \in Undos
  <2>1. CASE stack' = stack
    BY <1>3, <2>1
  <2>2. CASE /\ Len(stack) > 0 /\ stack' \in Seq(Jobs) /\ Len(stack') = Len(stack) - 1
             /\ \A i \in 1..(Len(stack) - 1) : stack'[i] = stack[i]
    <3>1. DOMAIN stack' = 1..(Len(stack) - 1)
      BY <2>2, LenProperties
    <3>2. \A i \in DOMAIN stack' : i \in DOMAIN stack /\ stack'[i] = stack[i]
      BY <1>3, <2>2, <3>1
    <3> QED BY <1>3, <2>2, <3>2
  <2> QED BY <1>1, <2>1, <2>2
<1>7. TypeOK'
  <2>1. /\ files' = files /\ kept' = kept /\ mishaps' = mishaps
        /\ clean' \in BOOLEAN
    BY DEF Begins, Undo, Request, Calm
  <2>2. /\ files' \in Folders /\ kept' \in Seq(Held \cup {Absent})
        /\ mishaps' \in 0..MaxMishaps /\ alone' \subseteq Busy'
    BY <1>0, <1>4, <2>1, TypeParts
  <2> QED BY <1>4, <1>5, <1>6, <2>1, <2>2 DEF TypeOK
<1>8. PlacesOK' /\ NamesOK'
  <2>1. stack' = stack \/ /\ Len(stack') \in 0..Len(stack) /\ stack' \in Seq(Jobs)
                          /\ \A i \in 1..Len(stack') : stack'[i] = stack[i]
    <3>1. CASE stack' = stack
      BY <3>1
    <3>2. CASE /\ Len(stack) > 0 /\ stack' \in Seq(Jobs) /\ Len(stack') = Len(stack) - 1
               /\ \A i \in 1..(Len(stack) - 1) : stack'[i] = stack[i]
      <4>1. Len(stack') \in 0..Len(stack)
        BY <1>3, <3>2
      <4> QED BY <3>2, <4>1
    <3> QED BY <1>1, <3>1, <3>2
  <2> QED BY <1>1, <1>2, <2>1, PlacesBegin
<1>9. EntriesClaim' /\ JobsClaim'
  BY <1>1, ClaimsBegin
<1>10. Alone' /\ History'
  BY <1>1, <1>2, AloneBegin, HistoryBegin
<1> QED BY <1>5, <1>7, <1>8, <1>9, <1>10 DEF IInv

LEMMA OutsideStep ==
    ASSUME IInv, NEW p \in Paths, NEW what \in Texts \cup {Absent}, Outside(p, what)
    PROVE  IInv'
<1>1. /\ kept' = kept /\ stack' = stack /\ at' = at /\ job' = job /\ begun' = begun
      /\ alone' = {} /\ clean' = FALSE /\ mishaps < MaxMishaps /\ mishaps' = mishaps + 1
      /\ files' = [files EXCEPT ![p] = what]
  BY DEF Outside, Put
<1>2. TypeOK'
  <2>1. mishaps \in 0..MaxMishaps
    BY TypeParts DEF IInv
  <2>2. mishaps' \in 0..MaxMishaps
    BY <1>1, <2>1, UndoAssumption
  <2>3. files' \in Folders
    BY <1>1, PutType, TypeParts DEF IInv, Held
  <2> QED BY <1>1, <2>2, <2>3 DEF IInv, TypeOK, Busy
<1>3. LengthOK' /\ PlacesOK' /\ NamesOK'
  BY <1>1 DEF IInv, LengthOK, Returning, PlacesOK, NamesOK, Undoing
<1>4. EntriesClaim' /\ JobsClaim'
  BY <1>1 DEF IInv, EntriesClaim, JobsClaim, Claiming, InTrash
<1>5. Alone' /\ History'
  BY <1>1 DEF Alone, History
<1> QED BY <1>2, <1>3, <1>4, <1>5 DEF IInv

LEMMA OpenFolderStep == ASSUME IInv, OpenFolder PROVE IInv'
<1>1. /\ files' = files /\ kept' = kept /\ at' = at /\ job' = job /\ begun' = begun
      /\ mishaps' = mishaps /\ alone' = alone /\ stack' = <<>> /\ clean' = (Busy = {})
  BY DEF OpenFolder
<1>2. stack' \in Seq(Jobs) /\ Len(stack') = 0 /\ DOMAIN stack' = {}
  BY <1>1
<1>3. Busy' = Busy /\ Returning' = Returning
  BY <1>1 DEF Busy, Returning, Undoing
<1>4. LengthOK' /\ Len(stack') < MaxHistory + Cardinality(Calls)
  BY <1>2, LengthKept, UndoAssumption DEF IInv
<1>5. TypeOK'
  <2>1. clean' \in BOOLEAN
    BY <1>1
  <2> QED BY <1>1, <1>2, <1>3, <1>4, <2>1 DEF IInv, TypeOK
<1>6. PlacesOK' /\ NamesOK'
  BY <1>1, <1>2 DEF IInv, PlacesOK, NamesOK, Undoing
<1>7. EntriesClaim' /\ JobsClaim'
  BY <1>1, <1>2 DEF IInv, EntriesClaim, JobsClaim, Claiming, InTrash
<1>8. Alone'
  BY <1>1, <1>3 DEF IInv, Alone
<1>9. History'
  BY <1>1, <1>2, <1>3 DEF History, LeadsBack
<1> QED BY <1>4, <1>5, <1>6, <1>7, <1>8, <1>9 DEF IInv

LEMMA RestartStep == ASSUME IInv, Restart PROVE IInv'
<1>1. /\ files' = files /\ kept' = kept /\ begun' = begun
      /\ at' = [c \in Calls |-> "idle"] /\ job' = [c \in Calls |-> NoJob]
      /\ stack' = <<>> /\ alone' = {} /\ clean' = TRUE
      /\ mishaps < MaxMishaps /\ mishaps' = mishaps + 1
  BY DEF Restart
<1>2. /\ at' \in [Calls -> Places] /\ job' \in [Calls -> Jobs]
      /\ \A c \in Calls : at'[c] = "idle" /\ job'[c] = NoJob
  BY <1>1, NoJobFields DEF Places
<1>3. stack' \in Seq(Jobs) /\ Len(stack') = 0 /\ DOMAIN stack' = {}
  BY <1>1
<1>4. Busy' = {}
  BY <1>2 DEF Busy
<1>5. LengthOK' /\ Len(stack') < MaxHistory + Cardinality(Calls)
  BY <1>3, LengthKept, UndoAssumption DEF IInv
<1>6. TypeOK'
  <2>1. mishaps \in 0..MaxMishaps
    BY TypeParts DEF IInv
  <2>2. mishaps' \in 0..MaxMishaps
    BY <1>1, <2>1, UndoAssumption
  <2>3. files' \in Folders /\ kept' \in Seq(Held \cup {Absent}) /\ begun' \in 0..MaxCalls
    BY <1>1, TypeParts DEF IInv
  <2> QED BY <1>1, <1>2, <1>3, <1>5, <2>2, <2>3 DEF TypeOK
<1>7. PlacesOK' /\ NamesOK'
  BY <1>2, <1>3, NoJobFields DEF PlacesOK, NamesOK
<1>8. EntriesClaim' /\ JobsClaim'
  BY <1>2, <1>3, NoJobFields DEF EntriesClaim, JobsClaim, Claiming
<1>9. Alone' /\ History'
  BY <1>1, <1>3, <1>4 DEF Alone, History, LeadsBack
<1> QED BY <1>5, <1>6, <1>7, <1>8, <1>9 DEF IInv

LEMMA NextInv == IInv /\ [Next]_vars => IInv'
<1> SUFFICES ASSUME IInv, [Next]_vars PROVE IInv'
  OBVIOUS
<1>1. CASE \E c \in Calls, what \in Requests : Request(c, what)
  BY <1>1, BeginStep
<1>2. CASE \E c \in Calls : Undo(c) \/ Step(c) \/ WriteFails(c)
  BY <1>2, BeginStep, CallStep
<1>3. CASE \E p \in Paths, what \in Texts \cup {Absent} : Outside(p, what)
  BY <1>3, OutsideStep
<1>4. CASE OpenFolder \/ Restart
  BY <1>4, OpenFolderStep, RestartStep
<1>5. CASE UNCHANGED vars
  <2>1. /\ files' = files /\ kept' = kept /\ stack' = stack /\ at' = at /\ job' = job
        /\ begun' = begun /\ mishaps' = mishaps /\ alone' = alone /\ clean' = clean
    BY <1>5 DEF vars
  <2>2. TypeOK' /\ LengthOK' /\ PlacesOK' /\ NamesOK'
    BY <2>1 DEF IInv, TypeOK, LengthOK, PlacesOK, NamesOK, Returning, Undoing, Busy
  <2>3. EntriesClaim' /\ JobsClaim' /\ Alone'
    BY <2>1 DEF IInv, EntriesClaim, JobsClaim, Alone, InTrash, Claiming, Busy
  <2>4. History'
    BY <2>1 DEF IInv, History, LeadsBack, Before, Busy, Undoing
  <2> QED BY <2>2, <2>3, <2>4 DEF IInv
<1> QED BY <1>1, <1>2, <1>3, <1>4, <1>5 DEF Next

\* The invariant holds whatever the calls do side by side, and whatever fails.
THEOREM InductiveInvariant == Spec => []IInv
<1> QED BY InitInv, NextInv, PTL DEF Spec

\* The types hold, and the history stays within its bound: beyond MAX_UNDO_HISTORY
\* there are only entries of undos that failed, fewer than there are calls in
\* flight at once.
THEOREM TypeCorrect == Spec => []TypeOK
<1>1. IInv => TypeOK
  BY DEF IInv
<1> QED BY <1>1, InductiveInvariant, PTL

\* What an undo takes back is in the trash until it is taken back, and no two
\* entries claim one place: an undo that failed can be tried again.
THEOREM BackupsStay == Spec => []BackupsAreThere
<1>1. IInv => BackupsAreThere
  <2> SUFFICES ASSUME IInv PROVE BackupsAreThere
    OBVIOUS
  <2>1. ASSUME NEW e \in Pending, e.op \in {"undo write", "undo delete"}
        PROVE  e.item \in DOMAIN kept /\ kept[e.item] # Absent
    <3>1. CASE \E i \in DOMAIN stack : e = stack[i]
      BY <2>1, <3>1 DEF IInv, EntriesClaim, InTrash
    <3>2. CASE \E c \in Calls : at[c] # "undone" /\ e = job[c]
      BY <2>1, <3>2 DEF IInv, JobsClaim, Claiming, InTrash
    <3> QED BY <3>1, <3>2 DEF Pending
  <2>2. \A i, j \in DOMAIN stack :
            i # j /\ stack[i].item = stack[j].item => stack[i].item = 0
    BY DEF IInv, EntriesClaim
  <2> QED BY <2>1, <2>2 DEF BackupsAreThere
<1> QED BY <1>1, InductiveInvariant, PTL

\* An undo leaves the folder as it was before the change, as long as no call
\* overlapped another, no write failed and no other program interfered.
THEOREM UndoGoesBack == Spec => []UndoRestores
<1>1. IInv => UndoRestores
  <2> SUFFICES ASSUME IInv, NEW c \in Calls, clean, at[c] = "undone"
               PROVE  files = job[c].was
    BY DEF UndoRestores
  <2>1. c \in Busy /\ Undoing(c)
    BY DEF Busy, IInv, PlacesOK
  <2> QED BY <2>1 DEF IInv, History, Before
<1> QED BY <1>1, InductiveInvariant, PTL

-----------------------------------------------------------------------------
(* A change beside no other.                                               *)

\* What a change may overwrite: nothing, or what is in the trash.
LEMMA Overwrites ==
    ASSUME IInv, NEW c \in alone, ~Undoing(c), Step(c) \/ WriteFails(c),
           ~UNCHANGED <<files, kept>>
    PROVE  /\ job[c].path \in Paths /\ DOMAIN kept = 1..Len(kept) /\ Len(kept) \in Nat
           /\ \/ /\ kept' = kept /\ \E x : files' = [files EXCEPT ![job[c].path] = x]
                 /\ \/ files[job[c].path] = Absent
                    \/ \E i \in DOMAIN kept : files[job[c].path] = kept[i]
              \/ KeepsOne(c)
              \/ /\ kept' = kept /\ job[c].other \in Paths /\ files[job[c].other] = Absent
                 /\ Move(job[c].path, job[c].other)
<1>0. c \in Calls /\ at[c] # "idle" /\ (Moves(c) \/ Ends(c))
  BY TypeParts, StepKind DEF IInv, Busy
<1>1. /\ kept \in Seq(Held \cup {Absent}) /\ Names(job[c]) /\ at \in [Calls -> Places]
      /\ job[c].op \notin Undos
  BY <1>0, TypeParts DEF IInv, NamesOK, Undoing
<1>2. job[c].path \in Paths /\ DOMAIN kept = 1..Len(kept) /\ Len(kept) \in Nat
  BY <1>1, LenProperties DEF Names
<1>3. ASSUME at[c] = "free", job[c].op = "write"
      PROVE  \/ files[job[c].path] = Absent
             \/ \E i \in DOMAIN kept : files[job[c].path] = kept[i]
  BY <1>0, <1>3 DEF IInv, Alone, JobsClaim, Claiming, InTrash
<1> USE DEF Looks, Put
<1>4. CASE Write(c)
  BY <1>2, <1>3, <1>4 DEF Write
<1>5. CASE WriteFails(c)
  BY <1>1, <1>2, <1>3, <1>5 DEF WriteFails, Undos
<1>6. CASE Create(c)
  BY <1>2, <1>6 DEF Create, Fails
<1>7. CASE KeepCopy(c)
  BY <1>2, <1>7 DEF KeepCopy, KeepsOne, Keeps, Fails
<1>8. CASE Delete(c)
  BY <1>2, <1>8 DEF Delete, KeepsOne, Keeps, Fails
<1>9. CASE Rename(c)
  <2>1. job[c].op = "rename" /\ at[c] = "free"
    BY <1>1, <1>9 DEF Rename, Undos
  <2>2. job[c].other \in Paths /\ files[job[c].other] = Absent
    BY <1>1, <2>1 DEF IInv, Alone, Names
  <2>3. kept' = kept /\ Move(job[c].path, job[c].other)
    BY <1>9, <2>1 DEF Rename, Fails, Source, Target
  <2> QED BY <1>2, <2>2, <2>3
<1>10. CASE \/ LookForSource(c) \/ LookForTarget(c) \/ LookAtFile(c) \/ Push(c)
            \/ Return(c)
  BY <1>10 DEF LookForSource, LookForTarget, LookAtFile, Push, Return, Goes, Fails
<1>11. ~UndoCreate(c) /\ ~UndoWrite(c) /\ ~UndoDelete(c)
  BY <1>1 DEF UndoCreate, UndoWrite, UndoDelete, Undos
<1> QED BY <1>4, <1>5, <1>6, <1>7, <1>8, <1>9, <1>10, <1>11 DEF Step

LEMMA StepSaves ==
    ASSUME IInv, NEW c \in alone, ~Undoing(c), Step(c) \/ WriteFails(c)
    PROVE  (Saved \cap Held) \subseteq Saved'
<1>0. Saved' = {files'[p] : p \in Paths} \cup {kept'[i] : i \in DOMAIN kept'}
  BY DEF Saved
<1>1. Absent \notin Held
  BY UndoAssumption DEF Held
<1>2. files \in [Paths -> Held \cup {Absent}] /\ kept \in Seq(Held \cup {Absent})
  BY TypeParts DEF IInv, Folders
<1>3. CASE UNCHANGED <<files, kept>>
  BY <1>0, <1>3 DEF Saved
<1>4. CASE ~UNCHANGED <<files, kept>>
  <2> HIDE DEF Held
  <2>0. job[c].path \in Paths /\ DOMAIN kept = 1..Len(kept) /\ Len(kept) \in Nat
    BY <1>4, Overwrites
  <2>1. ASSUME kept' = kept, NEW x, files' = [files EXCEPT ![job[c].path] = x],
               \/ files[job[c].path] = Absent
               \/ \E i \in DOMAIN kept : files[job[c].path] = kept[i]
        PROVE  (Saved \cap Held) \subseteq Saved'
    <3>1. \A p \in Paths : p = job[c].path \/ files'[p] = files[p]
      BY <1>2, <2>1
    <3> QED BY <1>0, <1>1, <2>1, <3>1 DEF Saved
  <2>2. CASE KeepsOne(c)
    <3>1. kept' = Append(kept, files[job[c].path])
      BY <2>2 DEF KeepsOne, Keeps
    <3>2. /\ Len(kept) + 1 \in DOMAIN kept' /\ kept'[Len(kept) + 1] = files[job[c].path]
          /\ \A i \in DOMAIN kept : i \in DOMAIN kept' /\ kept'[i] = kept[i]
      BY <1>2, <2>0, <3>1
    <3>3. \A p \in Paths : p = job[c].path \/ files'[p] = files[p]
      BY <1>2, <2>2 DEF KeepsOne
    <3> QED BY <1>0, <3>2, <3>3 DEF Saved
  <2>3. CASE /\ kept' = kept /\ job[c].other \in Paths /\ files[job[c].other] = Absent
             /\ Move(job[c].path, job[c].other)
    <3>1. /\ files'[job[c].other] = files[job[c].path]
          /\ \A p \in Paths : p \in {job[c].path, job[c].other} \/ files'[p] = files[p]
      BY <1>2, <2>0, <2>3 DEF Move
    <3> QED BY <1>0, <1>1, <2>3, <3>1 DEF Saved
  <2> QED BY <1>4, <2>1, <2>2, <2>3, Overwrites
<1> QED BY <1>3, <1>4

\* A change made beside no other loses no text, even if its write fails: what was
\* in the folder or in the trash before a step of it is there after.
THEOREM NothingLost == Spec => ChangesLoseNothing
<1>1. ASSUME IInv, [Next]_vars, NEW c \in alone, ~Undoing(c), at' # at
      PROVE  (Saved \cap Held) \subseteq Saved'
  <2>1. CASE UNCHANGED <<files, kept>>
    BY <2>1 DEF Saved
  <2>2. ASSUME NEW d \in Calls, Step(d) \/ WriteFails(d)
        PROVE  (Saved \cap Held) \subseteq Saved'
    <3>1. at[d] # "idle"
      BY <1>1, <2>2, StepKind DEF Moves, Ends
    <3>2. d = c
      BY <1>1, <3>1, Actor
    <3> QED BY <1>1, <2>2, <3>2, StepSaves
  <2>3. CASE \E d \in Calls, what \in Requests : Request(d, what)
    BY <2>1, <2>3 DEF Request, Begins
  <2>4. CASE \E d \in Calls : Undo(d)
    BY <2>1, <2>4 DEF Undo, Begins
  <2>5. CASE OpenFolder \/ Restart
    BY <2>1, <2>5 DEF OpenFolder, Restart
  <2>6. CASE \E p \in Paths, what \in Texts \cup {Absent} : Outside(p, what)
    BY <1>1, <2>6 DEF Outside
  <2>7. CASE UNCHANGED vars
    BY <1>1, <2>7 DEF vars
  <2> QED BY <1>1, <2>2, <2>3, <2>4, <2>5, <2>6, <2>7 DEF Next
<1>2. IInv /\ [Next]_vars =>
         [\A c \in alone :
             ~Undoing(c) /\ at' # at => (Saved \cap Held) \subseteq Saved']_vars
  BY <1>1
<1> QED BY <1>2, InductiveInvariant, PTL DEF Spec, ChangesLoseNothing
=============================================================================
