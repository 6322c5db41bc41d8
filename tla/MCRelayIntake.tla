---------------------------- MODULE MCRelayIntake ----------------------------
(* Small instances of RelayIntake for TLC.                                 *)
EXTENDS RelayIntake, TLC

CONSTANTS c1, c2, k1, k2, b1, b2

(* Two bodies under one key; the first sending may be repeated. *)
MCKeyOf == (c1 :> k1) @@ (c2 :> k1)
MCBodyOf == (c1 :> b1) @@ (c2 :> b2)
MCSends == (c1 :> 2) @@ (c2 :> 1)
MCFingerprint == [b \in Body |-> "same digest"]

(* One sending with all its tries, and a body the policy engine refuses. *)
LiveKeyOf == (c1 :> k1) @@ (c2 :> k2)
LiveSends == [c \in Client |-> 1]
=============================================================================
