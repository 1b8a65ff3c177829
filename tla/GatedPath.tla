------------------------------- MODULE GatedPath -------------------------------
(***************************************************************************)
(* What a guided program promises a learner: the lessons are opened one by *)
(* one, each by a pass of the lesson before it, an opened lesson is never  *)
(* closed again, and the program is called complete only once every lesson *)
(* has been passed.  Repairs, reviews and repeated answers are not its     *)
(* business.                                                               *)
(***************************************************************************)
EXTENDS Naturals

CONSTANT N      \* lessons of a program

VARIABLES
    reached,    \* the last lesson that is open; 0 without a program
    passed,     \* lessons passed at least once
    complete    \* the program is called complete

gvars == <<reached, passed, complete>>

Lessons == 1..N

NoProgram == reached = 0 /\ passed = {} /\ complete = FALSE

Init == NoProgram

Begin ==
    /\ reached = 0 /\ reached' = 1
    /\ UNCHANGED <<passed, complete>>

\* Only the pass of the last open lesson opens the next one.
Pass(i) ==
    /\ i <= reached
    /\ passed' = passed \cup {i}
    /\ reached' = IF i = reached /\ i < N THEN i + 1 ELSE reached
    /\ complete' \in {complete, passed' = Lessons \/ complete}

\* The last repair may be passed after the last lesson.
Finish ==
    /\ passed = Lessons
    /\ complete' = TRUE
    /\ UNCHANGED <<reached, passed>>

Abandon == reached' = 0 /\ passed' = {} /\ complete' = FALSE

Next ==
    \/ Begin \/ Finish \/ Abandon
    \/ \E i \in Lessons : Pass(i)

Spec == Init /\ [][Next]_gvars
=============================================================================
