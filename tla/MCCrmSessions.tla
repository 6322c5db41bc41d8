---------------------------- MODULE MCCrmSessions ----------------------------
(* Small instances of CrmSessions for TLC. *)
EXTENDS CrmSessions, TLC

CONSTANTS p1, p2, l1, l2, e1

SharedEmail == [l \in Lead |-> e1]
Alike == Permutations(Proc)
=============================================================================
