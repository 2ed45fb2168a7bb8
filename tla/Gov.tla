---------------------------------- MODULE Gov ----------------------------------
(***************************************************************************)
(* Governance: x/gov keeper and EndBlocker.  Proposals collect deposits,   *)
(* are voted on, tallied when their voting period ends and executed by the *)
(* handler of their content.  Amounts are of one denomination.  Staking    *)
(* is external: any of the snapshots in Stakes may be the current one when *)
(* a tally reads it.  A weight is counted in halves, so that a vote may be *)
(* split; powers are counted in quarters of a token and are exact for the  *)
(* snapshots used (the rounding of sdk.Dec is not modelled).               *)
(***************************************************************************)
EXTENDS Integers, Sequences, FiniteSets

CONSTANTS
    Accounts,        \* depositors and voters, validator operators included
    Stakes,          \* staking snapshots: [bonded, tokens, deleg]
    Votes,           \* the votes cast: functions Options -> 0..2 of sum 2
    Contents,        \* proposal contents: subset of {"text", "spend", "params"}
    Amounts,         \* deposit amounts, 0 included
    InitBal,         \* initial balance of every account
    InitPool,        \* initial community pool, in units of one spend
    InitParams,      \* [minDeposit, votingPeriod, quorum]
    NewParams,       \* the parameters a "params" proposal sets
    MaxDepositPeriod,
    MaxProposals, MaxTime    \* bounds of the instance

Options == {"yes", "abstain", "no", "veto"}
NoVote == [o \in Options |-> 0]       \* the account has no vote in the store

Ids == 1..MaxProposals
Statuses == {"none", "deposit", "voting", "passed", "rejected", "failed"}
Open == {"deposit", "voting"}

\* quorum is a pair <<numerator, denominator>>; thresholds are the defaults.
\* What the constants are.
GovConstants ==
    /\ \A p \in {InitParams, NewParams} :
          /\ p.minDeposit \in Nat \ {0} /\ p.votingPeriod \in Nat \ {0}
          /\ p.quorum[1] \in Nat /\ p.quorum[2] \in Nat \ {0}
    /\ {InitBal, InitPool, MaxDepositPeriod, MaxTime, MaxProposals} \subseteq Nat
    /\ Amounts \subseteq Nat /\ Contents \subseteq {"text", "spend", "params"}
    /\ \A v \in Votes : v \in [Options -> 0..2]
    /\ \A s \in Stakes : DOMAIN s.tokens \subseteq Accounts

VARIABLES
    now,       \* header time of the current block
    nextId,    \* ProposalIDKey
    props,     \* the proposals, by id; status "none" when there is none
    inactive,  \* inactive queue, set of <<depositEndTime, id>>
    active,    \* active queue, set of <<votingEndTime, id>>
    deposits,  \* [Ids -> [Accounts -> Nat]]
    votes,     \* [Ids -> [Accounts -> Votes \cup {NoVote}]]
    bank,      \* [bal, gov, burned]: accounts, the gov module account, burned
    params,    \* the current parameters
    pool,      \* community pool, in spends
    stake      \* current staking snapshot

vars == <<now, nextId, props, inactive, active, deposits, votes, bank, params,
          pool, stake>>

\* The part of the state the end blocker rewrites, proposal by proposal.
State == [props |-> props, inactive |-> inactive, active |-> active,
          deposits |-> deposits, votes |-> votes, bank |-> bank,
          params |-> params, pool |-> pool]

NoProp == [status |-> "none", content |-> "text", total |-> 0,
           depositEnd |-> 0, votingEnd |-> 0]
NoDeposits == [a \in Accounts |-> 0]
NoVotes == [a \in Accounts |-> NoVote]

-------------------------------------------------------------------------------
(* Tally. *)

\* The sum of a function with a finite domain.
Total(f) ==
    LET sum[S \in SUBSET DOMAIN f] ==
            IF S = {} THEN 0
            ELSE LET x == CHOOSE x \in S : TRUE IN f[x] + sum[S \ {x}]
    IN  sum[DOMAIN f]

Shares(v) == Total([a \in Accounts |-> stake.deleg[a][v]])

\* delegation shares * bonded tokens / delegator shares, in halves.
Power(s, v) == (2 * s * stake.tokens[v]) \div Shares(v)

TotalBonded == Total([v \in stake.bonded |-> stake.tokens[v]])

\* Mutant: shares of delegators who voted stay with their validator as well.
ResultsNoDeductions(vs) ==
    [o \in Options |->
        Total([a \in Accounts |-> Total([v \in stake.bonded |->
                  Power(stake.deleg[a][v], v) * vs[a][o]])])
        + Total([v \in stake.bonded |-> Power(Shares(v), v) * vs[v][o]])]

\* The results of the votes vs: every delegation of a voter to a bonded
\* validator counts with the voter's options and is deducted from the
\* validator, whose own vote carries what is left.
Results(vs) ==
    LET voted == {a \in Accounts : vs[a] # NoVote}
        deduct(v) == Total([a \in voted |-> stake.deleg[a][v]])
    IN  [o \in Options |->
            Total([a \in voted |-> Total([v \in stake.bonded |->
                      Power(stake.deleg[a][v], v) * vs[a][o]])])
            + Total([v \in stake.bonded |->
                      Power(Shares(v) - deduct(v), v) * vs[v][o]])]

\* passes and burnDeposits.  The total voting power is the sum of the results
\* since the weights of a vote add up to one.
Tally(vs, ps) ==
    LET r == Results(vs)
        all == Total(r)
        out(p, b) == [passes |-> p, burn |-> b]
    IN  CASE TotalBonded = 0 -> out(FALSE, FALSE)
          [] TotalBonded # 0 /\ all * ps.quorum[2] < ps.quorum[1] * 4 * TotalBonded
                -> out(FALSE, TRUE)
          [] OTHER -> IF all = r["abstain"] THEN out(FALSE, FALSE)
                      ELSE IF 1000 * r["veto"] > 334 * all THEN out(FALSE, TRUE)
                      ELSE out(2 * r["yes"] > all - r["abstain"], FALSE)

-------------------------------------------------------------------------------
(* Proposal handlers: distribution's community pool spend and params' change. *)

HandlerOK(content, s) == content = "spend" => s.pool > 0

HandlerEffect(content, s) ==
    CASE content = "spend" -> [s EXCEPT !.pool = @ - 1]
      [] content = "params" -> [s EXCEPT !.params = NewParams]
      [] OTHER -> s

-------------------------------------------------------------------------------
Init ==
    /\ now = 0 /\ nextId = 1
    /\ props = [i \in Ids |-> NoProp]
    /\ inactive = {} /\ active = {}
    /\ deposits = [i \in Ids |-> NoDeposits]
    /\ votes = [i \in Ids |-> NoVotes]
    /\ bank = [bal |-> [a \in Accounts |-> InitBal], gov |-> 0, burned |-> 0]
    /\ params = InitParams /\ pool = InitPool
    /\ stake \in Stakes

\* Mutant: the proposal is not put in the active queue.
ActivateVotingPeriodNoQueue(s, i) ==
    [s EXCEPT !.props[i].status = "voting",
              !.props[i].votingEnd = now + s.params.votingPeriod,
              !.inactive = @ \ {<<s.props[i].depositEnd, i>>}]

\* ActivateVotingPeriod of proposal i in state s.
ActivateVotingPeriod(s, i) ==
    LET end == now + s.params.votingPeriod
    IN  [s EXCEPT !.props[i].status = "voting", !.props[i].votingEnd = end,
                  !.inactive = @ \ {<<s.props[i].depositEnd, i>>},
                  !.active = @ \cup {<<end, i>>}]

\* Mutant: the deposit of an account is replaced by its new deposit.
AddDepositReplaces(s, i, a, amt) ==
    LET paid == [s EXCEPT !.bank.bal[a] = @ - amt, !.bank.gov = @ + amt,
                          !.props[i].total = @ + amt, !.deposits[i][a] = amt]
    IN  IF paid.props[i].status = "deposit" /\ paid.props[i].total >= paid.params.minDeposit
        THEN ActivateVotingPeriod(paid, i) ELSE paid

\* AddDeposit of amt by account a, which holds it, to open proposal i.
AddDeposit(s, i, a, amt) ==
    LET paid == [s EXCEPT !.bank.bal[a] = @ - amt, !.bank.gov = @ + amt,
                          !.props[i].total = @ + amt, !.deposits[i][a] = @ + amt]
    IN  IF paid.props[i].status = "deposit" /\ paid.props[i].total >= paid.params.minDeposit
        THEN ActivateVotingPeriod(paid, i) ELSE paid

Becomes(s) == \E t \in {s} :
    /\ props' = t.props /\ inactive' = t.inactive /\ active' = t.active
    /\ deposits' = t.deposits /\ votes' = t.votes /\ bank' = t.bank
    /\ params' = t.params /\ pool' = t.pool

\* Mutant: the trial run of the handler is kept.
SubmitProposalKeepsTrial(a, content, amt) ==
    LET i == nextId
        s == [HandlerEffect(content, State) EXCEPT !.props[i] = [NoProp EXCEPT
                  !.status = "deposit", !.content = content, !.depositEnd = now + 1],
                  !.inactive = @ \cup {<<now + 1, i>>}]
    IN  /\ i \in Ids /\ HandlerOK(content, State) /\ bank.bal[a] >= amt
        /\ Becomes(AddDeposit(s, i, a, amt))
        /\ nextId' = i + 1
        /\ UNCHANGED <<now, stake>>

\* MsgSubmitProposal: the content is tried on a branch that is dropped, then
\* the initial deposit is added; an error undoes the whole message.
SubmitProposal(a, content, amt) ==
    LET i == nextId
        s == [State EXCEPT !.props[i] = [NoProp EXCEPT !.status = "deposit",
                               !.content = content, !.depositEnd = now + MaxDepositPeriod],
                           !.inactive = @ \cup {<<now + MaxDepositPeriod, i>>}]
    IN  /\ now + MaxDepositPeriod + params.votingPeriod <= MaxTime
        /\ i \in Ids /\ HandlerOK(content, State) /\ bank.bal[a] >= amt
        /\ Becomes(AddDeposit(s, i, a, amt))
        /\ nextId' = i + 1
        /\ UNCHANGED <<now, stake>>

\* MsgDeposit, to a proposal in its deposit or voting period.
Deposit(a, i, amt) ==
    /\ props[i].status \in Open /\ bank.bal[a] >= amt
    /\ Becomes(AddDeposit(State, i, a, amt))
    /\ UNCHANGED <<now, nextId, stake>>

\* MsgVote and MsgVoteWeighted: a second vote replaces the first.
AddVote(a, i, v) ==
    /\ props[i].status = "voting"
    /\ votes' = [votes EXCEPT ![i][a] = v]
    /\ UNCHANGED <<now, nextId, props, inactive, active, deposits, bank, params, pool, stake>>

\* External: delegations, slashes and the bonded set change.
Restake(s) ==
    /\ s # stake
    /\ stake' = s
    /\ UNCHANGED <<now, nextId, props, inactive, active, deposits, votes, bank, params, pool>>

\* DeleteDeposits: burned from the module account.
DeleteDeposits(s, i) ==
    LET n == Total(s.deposits[i])
    IN  [s EXCEPT !.bank.gov = @ - n, !.bank.burned = @ + n, !.deposits[i] = NoDeposits]

RefundDeposits(s, i) ==
    [s EXCEPT !.bank.gov = @ - Total(s.deposits[i]),
              !.bank.bal = [a \in Accounts |-> @[a] + s.deposits[i][a]],
              !.deposits[i] = NoDeposits]

\* A proposal whose deposit period is over: deleted with its deposits.
DropProposal(s, i) ==
    LET p == s.props[i]
    IN  DeleteDeposits([s EXCEPT !.props[i] = NoProp,
                                 !.inactive = @ \ {<<p.depositEnd, i>>},
                                 !.active = @ \ {<<p.votingEnd, i>>}], i)

\* After the tally: its votes are deleted, the deposits burned or refunded.
Settle(s, i, burn) ==
    LET s1 == [s EXCEPT !.votes[i] = NoVotes]
    IN  IF burn THEN DeleteDeposits(s1, i) ELSE RefundDeposits(s1, i)

\* The outcome is stored and the entry under end leaves the active queue.
Close(s, i, status, end) == [s EXCEPT !.props[i].status = status, !.active = @ \ {<<end, i>>}]

\* A proposal whose voting period is over: tallied and settled, the handler run
\* on a branch if it passed, and closed.
FinishProposal(s, i) ==
    LET p  == s.props[i]
        t  == Tally(s.votes[i], s.params)
        s2 == Settle(s, i, t.burn)
        ok == t.passes /\ HandlerOK(p.content, s2)
        s3 == IF ok THEN HandlerEffect(p.content, s2) ELSE s2
        st == IF ok THEN "passed" ELSE IF t.passes THEN "failed" ELSE "rejected"
    IN  Close(s3, i, st, p.votingEnd)

\* Mutant: entries that end exactly now are left for the next block.
DueExclusive(queue) == {q \in queue : q[1] < now}

\* Entries of a queue up to the time of the block, that time included.
Due(queue) == {q \in queue : q[1] <= now}

Before(q, r) == q[1] < r[1] \/ (q[1] = r[1] /\ q[2] < r[2])

\* The due entries in the order of their keys, time first.
InOrder(D) ==
    CHOOSE s \in [1..Cardinality(D) -> D] :
        \A j, k \in DOMAIN s : j < k => Before(s[j], s[k])

\* What the end blocker does with an entry of a queue.
Handle(queue, s, i) == IF queue = "inactive" THEN DropProposal(s, i) ELSE FinishProposal(s, i)

\* The due entries D of a queue handled one after the other.
Sweep(queue, s, D) ==
    LET q == InOrder(D)
        st[k \in 0..Cardinality(D)] == IF k = 0 THEN s ELSE Handle(queue, st[k - 1], q[k][2])
    IN  st[Cardinality(D)]

\* EndBlocker, then the header time of the next block; time stops at MaxTime,
\* when every proposal that could still be submitted has ended.
EndBlock ==
    LET s == Sweep("inactive", State, Due(inactive))
    IN  /\ Becomes(Sweep("active", s, Due(active)))
        /\ now' = IF now < MaxTime THEN now + 1 ELSE now
        /\ UNCHANGED <<nextId, stake>>

Next ==
    \/ \E a \in Accounts, c \in Contents, amt \in Amounts : SubmitProposal(a, c, amt)
    \/ \E a \in Accounts, i \in Ids, amt \in Amounts : Deposit(a, i, amt)
    \/ \E a \in Accounts, i \in Ids, v \in Votes : AddVote(a, i, v)
    \/ \E s \in Stakes : Restake(s)
    \/ EndBlock

Spec == Init /\ [][Next]_vars

\* Blocks go on being made.
FairSpec == Spec /\ WF_vars(EndBlock)

-------------------------------------------------------------------------------
(* Properties. *)

\* Types, and the module account never owes more than it holds.
TypeOK ==
    /\ now \in 0..MaxTime /\ nextId \in 1..(MaxProposals + 1)
    /\ \A i \in Ids : props[i].status \in Statuses /\ props[i].content \in Contents \cup {"text"}
    /\ inactive \subseteq (Nat \X Ids) /\ active \subseteq (Nat \X Ids)
    /\ deposits \in [Ids -> [Accounts -> Nat]]
    /\ \A i \in Ids, a \in Accounts : votes[i][a] \in Votes \cup {NoVote}
    /\ bank.bal \in [Accounts -> Nat] /\ bank.gov \in Nat /\ bank.burned \in Nat
    /\ params \in {InitParams, NewParams} /\ pool \in 0..InitPool /\ stake \in Stakes

\* ModuleAccountInvariant: the module account holds exactly the deposits in
\* the store; they add up to the total of their proposal, only open proposals
\* have any, and nothing is minted or lost besides the burned deposits.
ModuleAccountInvariant ==
    /\ bank.gov = Total([i \in Ids |-> Total(deposits[i])])
    /\ \A i \in Ids : Total(deposits[i]) =
          (IF props[i].status \in Open THEN props[i].total ELSE 0)
    /\ Total(bank.bal) + bank.gov + bank.burned = InitBal * Cardinality(Accounts)

\* A proposal is in the inactive queue exactly while it collects its minimum
\* deposit, in the active one exactly while it is voted on, under the end time
\* it carries; nothing is overdue and only proposals voted on have votes.
QueuesMatchStatus ==
    /\ inactive = {<<props[i].depositEnd, i>> :
                     i \in {j \in Ids : props[j].status = "deposit"}}
    /\ active = {<<props[i].votingEnd, i>> :
                     i \in {j \in Ids : props[j].status = "voting"}}
    /\ \A q \in inactive \cup active : q[1] >= now
    /\ \A i \in Ids : votes[i] # NoVotes => props[i].status = "voting"

\* What a delegation counts for: the delegator's vote, or else the validator's.
Choice(vs, a, v) == IF vs[a] # NoVote THEN vs[a] ELSE vs[v]

\* The tally counts every delegation to a bonded validator exactly once: with
\* the delegator's own vote, or its validator's, or not at all.  So overriding
\* the validator never counts twice, and the total stays within what is bonded.
DelegationsCountOnce ==
    \A i \in Ids :
        LET r == Results(votes[i])
        IN  /\ \A o \in Options :
                  r[o] = Total([a \in Accounts |-> Total([v \in stake.bonded |->
                              Power(stake.deleg[a][v], v) * Choice(votes[i], a, v)[o]])])
            /\ Total(r) <= 4 * TotalBonded

\* The community pool paid for exactly the spends that passed: a spend whose
\* handler fails leaves no trace, though it was affordable when submitted.
SpendsMatchPassed ==
    pool = InitPool
           - Cardinality({i \in Ids : props[i].status = "passed" /\ props[i].content = "spend"})

\* Every proposal is decided or dropped: it does not stay open for ever.
IsOpen(i) == props[i].status \in Open
EveryProposalDecided == \A i \in Ids : []<>~IsOpen(i)
===============================================================================
