---------------------------- MODULE MCChatRewind ----------------------------
(***************************************************************************)
(* Values for TLC: each file in a directory of its own, or both in one.    *)
(***************************************************************************)
EXTENDS ChatRewind

OwnDirectories == [p \in Paths |-> p]
OneDirectory == [p \in Paths |-> "d"]

\* The files are alike, and so is what they may hold.
Alike == Permutations(Paths) \cup Permutations(Contents)
=============================================================================
