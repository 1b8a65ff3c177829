---------------------------- MODULE MCUndoStack -----------------------------
EXTENDS UndoStack, TLC

\* Names, contents and calls are alike.
Alike == Permutations(Paths) \cup Permutations(Texts) \cup Permutations(Calls)

\* What a job remembers of the folder is read only as long as the history is
\* clean, and it is clean again only with an empty stack and no call.
Seen(j) == IF clean THEN j ELSE [j EXCEPT !.was = Absent]
Told == <<files, kept, [i \in DOMAIN stack |-> Seen(stack[i])], at,
          [c \in Calls |-> Seen(job[c])], begun, mishaps, alone, clean>>
=============================================================================
