----------------------------- MODULE ChainInstances -----------------------------
(* Values for constants in MCChain and MCProgress. *)
EXTENDS Integers, Sequences

Reg(d, a) == [device |-> d, addr |-> a]
Tx(signer, seq, fee, gas, timeout, msgs) ==
    [signer |-> signer, seq |-> seq, fee |-> fee, gas |-> gas,
     timeout |-> timeout, msgs |-> msgs]

\* Competing sequences, a failing second message, too little gas for the second
\* message, a timeout, a fee below the minimum price, a balance that does not last for
\* every pair, and no message.
SignedTxs == {Tx("a", 0, 4, 4, 0, <<Reg("d", "a")>>),
              Tx("a", 0, 6, 6, 0, <<Reg("d", "b"), Reg("d", "bad")>>),
              Tx("a", 1, 5, 5, 0, <<Reg("d", "a"), Reg("d", "b")>>),
              Tx("b", 0, 4, 4, 1, <<Reg("d", "b")>>),
              Tx("b", 0, 1, 4, 0, <<Reg("d", "a")>>),
              Tx("b", 0, 0, 1, 0, <<>>)}

VoteOptions == {"yes", "abstain", "no", "veto"}
All(o) == [p \in VoteOptions |-> IF p = o THEN 2 ELSE 0]
Split(o, q) == [p \in VoteOptions |-> IF p \in {o, q} THEN 1 ELSE 0]

YesOrVeto == {All("yes"), All("veto")}
EveryVote == {All(o) : o \in VoteOptions} \cup {Split("yes", "abstain")}

\* Accounts "v" and "w" operate validators; "d" delegates to one or both.
Deleg(vv, ww, dv, dw) == [v |-> [v |-> vv, w |-> 0], w |-> [v |-> 0, w |-> ww],
                          d |-> [v |-> dv, w |-> dw]]
Snapshot(bonded, tv, tw, deleg) ==
    [bonded |-> bonded, tokens |-> [v |-> tv, w |-> tw], deleg |-> deleg]

\* Both bonded; validator v slashed by half; w unbonded; nobody bonded.
EveryStake == {Snapshot({"v", "w"}, 4, 2, Deleg(2, 2, 2, 0)),
               Snapshot({"v", "w"}, 2, 4, Deleg(2, 2, 2, 2)),
               Snapshot({"v"}, 4, 2, Deleg(2, 2, 2, 0)),
               Snapshot({}, 4, 2, Deleg(2, 2, 2, 0))}

\* One validator, half of it delegated.
OneStake == {[bonded |-> {"v"}, tokens |-> [v |-> 4],
              deleg |-> [v |-> [v |-> 2], d |-> [v |-> 2]]]}

OldParams == [minDeposit |-> 2, votingPeriod |-> 2, quorum |-> <<334, 1000>>]
LowQuorum == [minDeposit |-> 1, votingPeriod |-> 1, quorum |-> <<1, 1000>>]

\* The second burn request is below one REC, the others are one REC each.
CoinsAsked(r) == IF r = 2 THEN 1 ELSE 2
===============================================================================
