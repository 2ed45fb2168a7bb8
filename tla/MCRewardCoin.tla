---------------------------- MODULE MCRewardCoin ----------------------------
(* Small instances of RewardCoin for TLC. *)
EXTENDS RewardCoin, TLC

CONSTANTS u1, u2, reward

MCUsers == {u1, u2}
MCDepositIds == {<<2, 0>>}
MCCertifiedIds == {0}

\* Byte order of "rec-<h>-<i>" while h and i have one digit, and of one-digit
\* certificate numbers.
MCKeyBefore(a, b) ==
    IF a \in RecIds THEN a[1] < b[1] \/ (a[1] = b[1] /\ a[2] < b[2]) ELSE a < b

MCSymmetry == Permutations(MCUsers)
=============================================================================
