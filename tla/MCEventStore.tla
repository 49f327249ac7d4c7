---------------------------- MODULE MCEventStore ----------------------------
(***************************************************************************)
(* EventStore with a limit above that of the endpoint, and one that        *)
(* SQLite takes for none.                                                  *)
(***************************************************************************)
EXTENDS EventStore, TLC

SomeLimits == {-1, 3}
AnyTable == {"absent", "legacy", "current"}
=============================================================================
