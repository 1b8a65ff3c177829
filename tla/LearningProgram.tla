---------------------------- MODULE LearningProgram ----------------------------
(***************************************************************************)
(* A guided learning program of one user, as                               *)
(* src/backend/app/services/learning_service.py keeps it: lessons opened   *)
(* in order, answers graded, repair blocks put before a lesson that keeps  *)
(* failing, reviews that fall due.                                         *)
(*                                                                         *)
(* The handlers (routes/learning.py, and the chat turn of routes/v1_api.py *)
(* that calls sync_chat_copilot) hold no await while they work on a        *)
(* program, so a process runs one of them at a time; what they commit, and *)
(* where a chat turn can die between its two commits, is modelled.         *)
(*                                                                         *)
(* A grade is one of three: passed, failed, or failed with a clear gap.    *)
(* Of the dates of reviews is kept whether they have come.                 *)
(***************************************************************************)
EXTENDS Naturals, Sequences, FiniteSets, SequencesExt

CONSTANTS
    N,              \* lessons of the blueprint
    MaxRepairs,     \* bound: repair blocks that are inserted
    MaxDue,         \* bound: reviews that are due at a time
    None

ASSUME ProgramAssumption ==
    /\ N \in Nat \ {0}
    /\ MaxRepairs \in Nat /\ MaxDue \in Nat
    /\ None \notin Nat

Lessons == 1..N
Repairs == (N + 1)..(N + MaxRepairs)
Nodes == Lessons \cup Repairs

MasteryStatuses == {"locked", "ready", "reviewing", "completed"}
Grades == {"passed", "failed", "gap"}   \* gap: below 0.44, with a misconception

VARIABLES
    program,    \* its status: "none", "active" or "completed"
    path,       \* its nodes in the order of their positions
    status,     \* mastery_status
    passed,     \* evidence_count > 0
    fails,      \* failed attempts on record at a lesson, counted up to 2
    due,        \* review_due_at: "no", "later", or "now" once it is past
    parent,     \* of a repair, the lesson it was made for
    flagged,    \* lessons with has_active_remedial
    sessions,   \* nodes with a session, active or completed
    turn        \* the node a chat turn is about to grade

history == <<passed, fails>>
vars == <<program, path, status, due, parent, flagged, sessions, turn, history>>

Everywhere(v) == [n \in Nodes |-> v]

Init ==
    /\ program = "none" /\ path = <<>>
    /\ status = Everywhere("locked")
    /\ passed = Everywhere(FALSE) /\ fails = [n \in Lessons |-> 0]
    /\ due = Everywhere("no") /\ parent = Everywhere(None)
    /\ flagged = {} /\ sessions = {} /\ turn = None

-----------------------------------------------------------------------------
(* Helpers of the service.                                                 *)

Exists == program # "none"
Position(n) == CHOOSE i \in DOMAIN path : path[i] = n
First(Test(_)) == SelectInSeq(path, Test)

\* Mutant: a lesson that is being studied opens the next one.
UnlockEarly(p, st) ==
    LET opens == {i \in DOMAIN p : st[p[i]] = "locked"
                                   /\ (i = 1 \/ st[p[i - 1]] \in {"completed", "reviewing"})}
    IN  [n \in Nodes |-> IF n \in {p[i] : i \in opens} THEN "ready" ELSE st[n]]

\* _unlock_following_nodes, over the nodes in p with the statuses in st.
Unlock(p, st) ==
    LET opens == {i \in DOMAIN p : st[p[i]] = "locked"
                                   /\ (i = 1 \/ st[p[i - 1]] = "completed")}
    IN  [n \in Nodes |-> IF n \in {p[i] : i \in opens} THEN "ready" ELSE st[n]]

\* _get_next_focus_node: a review that is due, else the first lesson being
\* studied, else the first that is not completed.
Focus(st) ==
    LET reviewed(n) == due[n] = "now"
        practised(n) == st[n] \in {"ready", "reviewing"}
        unfinished(n) == st[n] # "completed"
        at == IF First(reviewed) # 0 THEN First(reviewed)
              ELSE IF First(practised) # 0 THEN First(practised)
              ELSE First(unfinished)
    IN  IF at = 0 THEN None ELSE path[at]

\* Mutant: the status of the session is written to its node.
PractisedActive(st, n) == [st EXCEPT ![n] = "active"]

\* What a new session does to the status of its node.
Practised(st, n) ==
    [st EXCEPT ![n] = IF st[n] = "completed" THEN "reviewing" ELSE "ready"]

\* Mutant: a repair that is under review is not seen as active.
ReadyRepair(n, st) ==
    LET active(r) == r \in ToSet(path) /\ parent[r] = n /\ st[r] = "ready" IN First(active)

\* _find_active_remedial_node
RepairsOf(n) == {r \in ToSet(path) : parent[r] = n}

ActiveRepair(n, st) ==
    LET active(r) == r \in RepairsOf(n) /\ st[r] # "completed" IN First(active)

\* A second failure, or one that shows its gap, calls for a repair block;
\* the failure at hand is on record already.
NeedsRepair(n, grade) == n \in Lessons /\ (fails[n] + 1 >= 2 \/ grade = "gap")

Spare == Repairs \ ToSet(path)

-----------------------------------------------------------------------------
(* The answer to a session of node n, submit_session_response.              *)

\* Mutant: a repair that is passed clears a flag of its own.
OwnerIsItself(n) == n

Owner(n) == IF n \in Repairs THEN parent[n] ELSE n

\* Mutant: the lessons are not unlocked after a pass.
PassOnly(n) ==
    LET st == [status EXCEPT ![n] = "completed"] IN
    /\ status' = st
    /\ passed' = [passed EXCEPT ![n] = TRUE]
    /\ due' = [due EXCEPT ![n] = "later"]
    /\ flagged' = flagged \ {Owner(n)}
    /\ program' = IF \A i \in DOMAIN path : st[path[i]] = "completed"
                  THEN "completed" ELSE program
    /\ UNCHANGED <<path, parent, fails>>

Pass(n) ==
    LET st == Unlock(path, [status EXCEPT ![n] = "completed"]) IN
    /\ status' = st
    /\ passed' = [passed EXCEPT ![n] = TRUE]
    /\ due' = [due EXCEPT ![n] = "later"]
    /\ flagged' = flagged \ {Owner(n)}
    /\ program' = IF \A i \in DOMAIN path : st[path[i]] = "completed"
                  THEN "completed" ELSE program
    /\ UNCHANGED <<path, parent, fails>>

Fail(n) ==
    /\ status' = Unlock(path, [status EXCEPT ![n] = "reviewing"])
    /\ UNCHANGED <<path, parent, flagged>>

\* A repair made earlier is taken up again.
RepairAgain(n) ==
    /\ ActiveRepair(n, status) # 0
    /\ status' = Unlock(path, [status EXCEPT ![n] = "reviewing",
                                             ![path[ActiveRepair(n, status)]] = "ready"])
    /\ UNCHANGED <<path, parent, flagged>>

\* The collection program.nodes is not read again before the commit: the
\* lessons are unlocked along the path without the new node.
InsertRepair(n) ==
    /\ ActiveRepair(n, status) = 0
    /\ Spare # {}
    /\ \E r \in Spare :
        /\ \A other \in Spare : r <= other
        /\ path' = InsertAt(path, Position(n), r)
        /\ parent' = [parent EXCEPT ![r] = n]
        /\ flagged' = flagged \cup {n}
        /\ status' = [Unlock(path, [status EXCEPT ![n] = "reviewing"]) EXCEPT ![r] = "ready"]

(* InsertRepair may fail, and with it the request and all it changed: the   *)
(* nodes from the lesson on are moved up by one, SQLAlchemy updates them in *)
(* the order of their primary keys (uuid4), and (program_id, position) is   *)
(* unique after every update.  For a chat turn that is ChatFails.           *)
Graded(n, grade) ==
    \/ grade = "passed" /\ Pass(n)
    \/ /\ grade # "passed"
       /\ fails' = [m \in Lessons |-> IF m = n /\ fails[m] < 2 THEN fails[m] + 1 ELSE fails[m]]
       /\ due' = [due EXCEPT ![n] = "later"]
       /\ IF NeedsRepair(n, grade)
          THEN RepairAgain(n) \/ InsertRepair(n)
          ELSE Fail(n)
       /\ UNCHANGED <<program, passed>>

-----------------------------------------------------------------------------
(* The handlers.  A chat turn between its commits excludes the others.      *)

Idle == turn = None

CreateProgram ==
    /\ Idle /\ ~Exists
    /\ program' = "active" /\ path' = [i \in Lessons |-> i]
    /\ status' = [status EXCEPT ![1] = "ready"]
    /\ UNCHANGED <<due, parent, flagged, sessions, turn, history>>

\* The delete cascades to nodes, sessions and attempts.
DeleteProgram ==
    /\ Idle /\ Exists
    /\ program' = "none" /\ path' = <<>>
    /\ status' = Everywhere("locked")
    /\ passed' = Everywhere(FALSE) /\ fails' = [n \in Lessons |-> 0]
    /\ due' = Everywhere("no") /\ parent' = Everywhere(None)
    /\ flagged' = {} /\ sessions' = {}
    /\ UNCHANGED turn

\* start_session of a node that is not locked, or of the focus; when
\* everything is completed, of the last node.
Resolved(st) == IF Focus(st) = None THEN path[Len(path)] ELSE Focus(st)

StartSession(n) ==
    LET st == Unlock(path, status) IN
    /\ Idle /\ Exists
    /\ n \in ToSet(path)
    /\ st[n] # "locked" \/ n = Resolved(st)
    /\ status' = Practised(st, n)
    /\ sessions' = sessions \cup {n}
    /\ UNCHANGED <<program, path, due, parent, flagged, turn, history>>

\* Nobody asks whether the session has been answered before.
SubmitResponse(n, grade) ==
    /\ Idle /\ Exists
    /\ n \in sessions
    /\ Graded(n, grade)
    /\ UNCHANGED <<sessions, turn>>

\* sync_chat_copilot of a message that is to be graded: it takes an active
\* session of its conversation and node, or commits a new one ...
ChatSession ==
    LET st == Unlock(path, status)
        n == Focus(st) IN
    /\ Idle /\ Exists
    /\ n # None
    /\ turn' = n
    /\ \/ n \in sessions /\ status' = st
       \/ status' = Practised(st, n)
    /\ sessions' = sessions \cup {n}
    /\ UNCHANGED <<program, path, due, parent, flagged, history>>

\* ... and submits the message to it.
ChatAnswer(grade) ==
    /\ turn # None /\ turn' = None
    /\ Graded(turn, grade)
    /\ UNCHANGED sessions

\* The process dies, or grading raises; the session stays.
ChatFails ==
    /\ turn # None /\ turn' = None
    /\ UNCHANGED <<program, path, status, due, parent, flagged, sessions, history>>

\* Time passes.
ReviewFallsDue(n) ==
    /\ due[n] = "later"
    /\ Cardinality({m \in Nodes : due[m] = "now"}) < MaxDue
    /\ due' = [due EXCEPT ![n] = "now"]
    /\ UNCHANGED <<program, path, status, parent, flagged, sessions, turn, history>>

Next ==
    \/ CreateProgram \/ DeleteProgram
    \/ ChatSession \/ ChatFails
    \/ \E grade \in Grades : ChatAnswer(grade)
    \/ \E n \in Nodes :
        \/ StartSession(n) \/ ReviewFallsDue(n)
        \/ \E grade \in Grades : SubmitResponse(n, grade)

Spec == Init /\ [][Next]_vars

-----------------------------------------------------------------------------
(* Properties.                                                             *)

\* Every variable has its type; the path holds every node of the program once.
TypeOK ==
    /\ program \in {"none", "active", "completed"}
    /\ path \in Seq(Nodes) /\ IsInjective(path)
    /\ status \in [Nodes -> MasteryStatuses]
    /\ passed \in [Nodes -> BOOLEAN] /\ fails \in [Lessons -> 0..2]
    /\ due \in [Nodes -> {"no", "later", "now"}]
    /\ parent \in [Nodes -> Lessons \cup {None}]
    /\ flagged \subseteq Lessons /\ sessions \subseteq Nodes
    /\ turn \in Nodes \cup {None}

\* "This is the next unlocked learning block", _build_adaptive_plan says of the
\* focus, and "The roadmap is complete" when there is none: between requests,
\* and for get_live_state, which unlocks nothing itself.
FocusIsOpen ==
    Exists =>
        IF Focus(status) = None
        THEN \A n \in ToSet(path) : status[n] = "completed"
        ELSE status[Focus(status)] # "locked"

\* A repair stands before its lesson, with nothing between them but other
\* repairs of that lesson, and no lesson has two that were never passed:
\* whatever was repaired, passed and failed again in between.
RepairsLeadToTheirLesson ==
    /\ \A r \in ToSet(path) \cap Repairs :
        /\ parent[r] \in ToSet(path)
        /\ Position(r) < Position(parent[r])
        /\ \A i \in Position(r)..(Position(parent[r]) - 1) : parent[path[i]] = parent[r]
    /\ \A n \in Lessons : Cardinality({r \in RepairsOf(n) : ~passed[r]}) <= 1

\* has_active_remedial says that there is a repair the learner never passed.
FlagIsBacked ==
    \A n \in flagged : \E r \in RepairsOf(n) : ~passed[r]

\* Lessons open in order, each by a pass of the one before, whatever is
\* repaired, reviewed or answered again; a program is completed only when
\* every lesson has been passed.
Gate == INSTANCE GatedPath WITH
    reached <- Cardinality({n \in Lessons : status[n] # "locked"}),
    passed <- {n \in Lessons : passed[n]},
    complete <- program = "completed"

LessonsAreGated == Gate!Spec
=============================================================================
