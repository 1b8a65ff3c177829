---------------------------- MODULE MCIdempotency ----------------------------
(***************************************************************************)
(* Small instances of Idempotency: three deliveries of one key, the third  *)
(* with another body, and optionally one of a second key.                  *)
(***************************************************************************)
EXTENDS Idempotency, TLC

CONSTANTS r1, r2, r3, r4, k1, k2, body1, body2

MCKeyOf == [r \in Requests |-> IF r = r4 THEN k2 ELSE k1]
MCPrintOf == [r \in Requests |-> IF r = r3 THEN body2 ELSE body1]

Retries == Permutations({r1, r2})
=============================================================================
