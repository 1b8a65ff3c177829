------------------------------- MODULE OnceOnly -------------------------------
(***************************************************************************)
(* What an Idempotency-Key promises, whatever keeps the promise: of the    *)
(* deliveries of a key at most one is in the handler at a time, and none   *)
(* enters while the answer of an earlier one is kept.  An answer may be    *)
(* forgotten, or never be kept.                                            *)
(***************************************************************************)
CONSTANTS Requests, Keys, KeyOf, None

VARIABLES
    running,    \* per key, the delivery in the handler, or None
    kept        \* per key, the delivery whose answer is kept, or None

ovars == <<running, kept>>

Init ==
    /\ running = [k \in Keys |-> None]
    /\ kept = [k \in Keys |-> None]

Enter(r) ==
    LET k == KeyOf[r] IN
    /\ running[k] = None /\ kept[k] = None
    /\ running' = [running EXCEPT ![k] = r]
    /\ UNCHANGED kept

\* The answer is kept while its delivery still holds the key.
Keep(r) ==
    LET k == KeyOf[r] IN
    /\ running[k] = r
    /\ kept' = [kept EXCEPT ![k] = r]
    /\ UNCHANGED running

Exit(r) ==
    LET k == KeyOf[r] IN
    /\ running[k] = r
    /\ running' = [running EXCEPT ![k] = None]
    /\ UNCHANGED kept

\* A restart stops what runs; it, or time, may take kept answers away.
Forget(ks) ==
    /\ kept' = [k \in Keys |-> IF k \in ks THEN None ELSE kept[k]]
    /\ UNCHANGED running

Restart(ks) ==
    /\ running' = [k \in Keys |-> None]
    /\ kept' = [k \in Keys |-> IF k \in ks THEN None ELSE kept[k]]

Next ==
    \/ \E r \in Requests : Enter(r) \/ Keep(r) \/ Exit(r)
    \/ \E ks \in SUBSET Keys : Forget(ks) \/ Restart(ks)

Spec == Init /\ [][Next]_ovars
=============================================================================
