--------------------------- MODULE MCTrafficStore ---------------------------
(* Small instances of TrafficStore for TLC. *)
EXTENDS TrafficStore
=============================================================================
