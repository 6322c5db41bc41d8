--------------------------- MODULE MCRelayOutbox ---------------------------
(* A small instance of RelayOutbox for TLC. *)
EXTENDS RelayOutboxRefines

MCRoutes == {"ROUTE_URGENT", "ROUTE_SPAM"}
=============================================================================
