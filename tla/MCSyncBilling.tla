---------------------------- MODULE MCSyncBilling ----------------------------
(* Two orders of a small instance: o1 a month of Sync, o2 a longer Sync Plus. *)
EXTENDS SyncBilling

CONSTANTS o1, o2

MCPlanOf == [o \in Orders |-> IF o = o1 THEN "sync" ELSE "sync_plus"]
MCPeriod == [o \in Orders |-> IF o = o1 THEN 1 ELSE 2]
=============================================================================
