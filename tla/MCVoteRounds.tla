---------------------------- MODULE MCVoteRounds ----------------------------
(* Small instances of VoteRounds for TLC. *)
EXTENDS VoteRounds, TLC

CONSTANTS h1, h2, d1, o1

MCHashes == {h1, h2}
MCDevices == {d1}
MCOwners == {o1}
MCSymmetry == Permutations(MCHashes)
=============================================================================
