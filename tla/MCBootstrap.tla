----------------------------- MODULE MCBootstrap -----------------------------
(* A small instance of Bootstrap for TLC.                                  *)
EXTENDS Bootstrap

CONSTANTS w1, w2, c1
=============================================================================
