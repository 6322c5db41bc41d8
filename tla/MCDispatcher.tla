---------------------------- MODULE MCDispatcher ----------------------------
(* Small instances of Dispatcher for TLC. *)
EXTENDS Dispatcher, TLC

Workers == Permutations(Worker)

MCRoutes == {"ROUTE_URGENT"}
=============================================================================
