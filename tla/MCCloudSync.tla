----------------------------- MODULE MCCloudSync -----------------------------
(* Small instances of CloudSync. *)
EXTENDS CloudSync, TLC

\* Devices and items are alike: no definition tells one from another.
Alike == Permutations(Devices) \cup Permutations(Items)

\* datetime.now() against UTC: the same, and one tick behind it.
InUTC == 0
WestOfUTC == -1
=============================================================================
