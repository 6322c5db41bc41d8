----------------------------- MODULE MCCompanion -----------------------------
(* Small instances of Companion for TLC.                                   *)
EXTENDS Companion, TLC

CONSTANTS c1, c2, w1, w2, w3

OtherVersion == [pinned |-> FALSE, valid |-> TRUE]
BadConfiguration == [pinned |-> TRUE, valid |-> FALSE]

(* What is installed may be of another version, or its configuration unusable. *)
MCEngines == {Good, OtherVersion, BadConfiguration}
LiveEngines == {Good}

Alike == Permutations(Caller) \union Permutations(Watcher)
=============================================================================
