-------------------------------- MODULE Staking --------------------------------
(***************************************************************************)
(* x/staking with the equivocation handling of x/evidence and the unjail   *)
(* message of x/slashing: delegations as shares of a validator's tokens,   *)
(* unbonding and redelegation with their queues, slashing of past          *)
(* infractions, and the end blocker that selects the bonded validators.    *)
(* The keeper's store is one record, which the operators take and return.  *)
(* A panic inside begin or end block halts the chain; in a message it only *)
(* reverts the message, as every error does.  Block time and height are    *)
(* one clock.  Validators and delegators are numbers in address order and  *)
(* validator a is operated by delegator a.                                 *)
(***************************************************************************)
EXTENDS Integers, Sequences, FiniteSets, SequencesExt, FiniteSetsExt

CONSTANTS
    Validators, Delegators, Nil,
    Amounts,            \* amounts messages name
    Balance0,           \* [Delegators -> Nat]: coins at genesis
    Stake0,             \* [Validators -> Nat]: self-delegation at genesis, 0: no validator
    P,                  \* 1.0 as a decimal; 10^18 in the code
    SlashFactor,        \* SlashFractionDoubleSign, a decimal
    PowerReduction,     \* tokens of one unit of the engine's power; 10^6 in the code
    UnbondingTime, MaxAge, MaxValidators, MaxEntries, MinSelf,
    MaxHeight, MaxMsgs  \* bounds: height, messages in a behaviour

\* What the constants are.
StakingConstants ==
    /\ Validators \subseteq Delegators /\ Delegators \subseteq Nat
    /\ {P, PowerReduction} \subseteq Nat \ {0} /\ SlashFactor \in 0..P
    /\ {UnbondingTime, MaxAge, MaxValidators, MaxEntries, MinSelf} \subseteq Nat

VARIABLES
    s,      \* the store, see Genesis
    hist,   \* hist[h]: powers returned to the engine at the end of block h - 1
    fresh,  \* the block has run no message yet: evidence is handled first
    msgs    \* messages executed so far

vars == <<s, hist, fresh, msgs>>

-------------------------------------------------------------------------------
(* Decimals are integers in units of 1/P. *)

\* chopPrecisionAndRound: bankers rounding.
Round(x) ==
    LET q == x \div P
        r == x % P
    IN  IF 2 * r > P \/ (2 * r = P /\ q % 2 = 1) THEN q + 1 ELSE q

Mul(x, y) == Round(x * y)
Quo(x, y) == Round((x * P * P) \div y)
QuoTruncate(x, y) == ((x * P * P) \div y) \div P
TruncateInt(x) == x \div P

-------------------------------------------------------------------------------
(* Validators: their tokens, shares and places in the power index. *)

TokensFromShares(val, shares) == Quo(shares * val.tokens, val.shares)
SharesFromTokens(val, amt) == (val.shares * amt) \div val.tokens

\* Shares issued for amt more tokens.
IssuedShares(val, amt) == IF val.shares = 0 THEN amt * P ELSE SharesFromTokens(val, amt)

\* Tokens released for shares; the last share gets what rounding left behind.
ReleasedTokens(val, shares) ==
    IF shares = val.shares THEN val.tokens ELSE TruncateInt(TokensFromShares(val, shares))

\* TokensToConsensusPower and TokensFromConsensusPower: the engine counts whole
\* multiples of PowerReduction, the rest of the tokens carries no power.
Power(val) == val.tokens \div PowerReduction
TokensFromPower(power) == power * PowerReduction

PowerKey(a, val) == <<Power(val), a>>

\* Store a changed validator; its key in the power index changes with it, and
\* jailed validators are not indexed.
Reindex(st, a, val) ==
    [st EXCEPT !.vals[a] = val,
               !.power = (@ \ {PowerKey(a, st.vals[a])})
                         \cup (IF val.jailed THEN {} ELSE {PowerKey(a, val)})]

\* Mutant: the power index is left alone.
jailValidatorIndexed(st, a) == [st EXCEPT !.vals[a].jailed = TRUE]

jailValidator(st, a) ==
    [st EXCEPT !.vals[a].jailed = TRUE, !.power = @ \ {PowerKey(a, st.vals[a])}]

Halt(st, why) == [st EXCEPT !.halted = why]

RemoveValidator(st, a) ==
    IF st.vals[a].status # "unbonded" \/ st.vals[a].tokens > 0
    THEN Halt(st, "RemoveValidator")
    ELSE [st EXCEPT !.vals[a] = Nil, !.power = @ \ {PowerKey(a, st.vals[a])}]

\* Move amt from the bonded to the not bonded pool (negative: back).
ToNotBonded(st, amt) ==
    IF st.bonded < amt \/ st.notBonded + amt < 0 THEN Halt(st, "pool")
    ELSE [st EXCEPT !.bonded = @ - amt, !.notBonded = @ + amt]

\* Burn b and n tokens of the two pools.
Burn(st, b, n) ==
    IF st.bonded < b \/ st.notBonded < n THEN Halt(st, "burn")
    ELSE [st EXCEPT !.bonded = @ - b, !.notBonded = @ - n]

-------------------------------------------------------------------------------
(* Delegating and unbonding. *)

Bonded(st, a) == st.vals[a].status = "bonded"

\* Mutant: the delegation gets its shares at the rate of one to one.
AddDelegationOneToOne(st, d, a, amt) ==
    LET val == st.vals[a]
        st1 == Reindex(st, a, [val EXCEPT !.tokens = @ + amt, !.shares = @ + IssuedShares(val, amt)])
    IN  [st1 EXCEPT !.dels[d][a] = @ + amt * P]

\* Shares and tokens of delegator d added to validator a.
AddDelegation(st, d, a, amt) ==
    LET val == st.vals[a]
        new == IssuedShares(val, amt)
        st1 == Reindex(st, a, [val EXCEPT !.tokens = @ + amt, !.shares = @ + new])
    IN  [st1 EXCEPT !.dels[d][a] = @ + new]

InvalidExRate(val) == val.tokens = 0 /\ val.shares > 0

\* An unbonded validator without shares is removed.
RemoveIfEmpty(st, a) ==
    IF st.vals[a].shares = 0 /\ st.vals[a].status = "unbonded" THEN RemoveValidator(st, a) ELSE st

\* Unbond: the shares leave the delegation and the validator, which is jailed
\* when its own stake falls below the minimum, and removed when it is unbonded
\* and empty.  The tokens released are ReleasedTokens of the validator before.
Unbond(st, d, a, shares) ==
    LET val  == st.vals[a]
        left == st.dels[d][a] - shares
        jail == /\ d = a /\ ~val.jailed
                /\ TruncateInt(TokensFromShares(val, left)) < MinSelf
        st1  == IF jail THEN jailValidator(st, a) ELSE st
        less == [val EXCEPT !.jailed = @ \/ jail, !.shares = @ - shares,
                            !.tokens = @ - ReleasedTokens(val, shares)]
    IN  RemoveIfEmpty(Reindex([st1 EXCEPT !.dels[d][a] = left], a, less), a)

\* ValidateUnbondAmount: whether amt may be unbonded, and the shares it is.
CanUnbond(st, d, a, amt) ==
    /\ st.vals[a] # Nil /\ st.dels[d][a] > 0 /\ st.vals[a].tokens > 0
    /\ QuoTruncate(st.vals[a].shares * amt, st.vals[a].tokens * P) <= st.dels[d][a]
UnbondShares(st, d, a, amt) == Min({SharesFromTokens(st.vals[a], amt), st.dels[d][a]})

NewValidator == [status |-> "unbonded", jailed |-> FALSE, tokens |-> 0, shares |-> 0, ubTime |-> 0]

-------------------------------------------------------------------------------
(* Slashing. *)

\* Entries made at or after the infraction that have not matured.
Liable(st, e, infraction) == e.h >= infraction /\ e.t > st.height

SlashPart(e) == TruncateInt(SlashFactor * e.init)

\* Mutant: what the entries lose stays in the pool.
SlashUnbondingDelegationNoBurn(acc, d, a, infraction) ==
    LET es == acc.st.ubds[d][a]
        cut(e) == IF Liable(acc.st, e, infraction) THEN Min({SlashPart(e), e.bal}) ELSE 0
    IN  [acc EXCEPT !.st.ubds[d][a] =
            [i \in DOMAIN es |-> [es[i] EXCEPT !.bal = @ - cut(es[i])]]]

\* SlashUnbondingDelegation: each liable entry loses its part, at most what it
\* holds; the part counts towards the validator's slash even if it was not there.
SlashUnbondingDelegation(acc, d, a, infraction) ==
    LET es == acc.st.ubds[d][a]
        cut(e) == IF Liable(acc.st, e, infraction) THEN SlashPart(e) ELSE 0
        take(e) == Min({cut(e), e.bal})
        sum(f(_)) == FoldSeq(LAMBDA e, n : n + f(e), 0, es)
        cutEs == [i \in DOMAIN es |-> [es[i] EXCEPT !.bal = @ - take(es[i])]]
    IN  [st |-> Burn([acc.st EXCEPT !.ubds[d][a] = cutEs], 0, sum(take)),
         slashed |-> acc.slashed + sum(cut)]

\* Burn tokens that were validator a's, from the pool its status names.
BurnOf(st, a, tokens) ==
    IF Bonded(st, a) THEN Burn(st, tokens, 0) ELSE Burn(st, 0, tokens)

\* The code reads w again after unbonding from it.
BurnUnbonded(st, w, tokens) ==
    IF st.vals[w] = Nil THEN Halt(st, "destination validator not found")
    ELSE BurnOf(st, w, tokens)

\* One entry of a redelegation to validator w: shares of it are unbonded from w
\* and burnt.
SlashEntry(acc, d, w, e) ==
    LET st == acc.st
        sh == Min({Mul(SlashFactor, e.dst), st.dels[d][w]})
    IN  [st |-> IF sh = 0 THEN st
                ELSE BurnUnbonded(Unbond(st, d, w, sh), w, ReleasedTokens(st.vals[w], sh)),
         slashed |-> acc.slashed + SlashPart(e)]

SlashRedelegation(acc, d, a, w, infraction) ==
    FoldLeft(LAMBDA x, e : IF x.st.halted # Nil \/ ~Liable(x.st, e, infraction) THEN x
                           ELSE SlashEntry(x, d, w, e),
             acc, acc.st.reds[d][a][w])

\* A set of numbers in ascending order.
Ascending(S) == SetToSortSeq(S, LAMBDA x, y : x < y)

\* What the entries did not pay, the validator's own tokens pay.
SlashValidator(acc, a, power) ==
    LET val  == acc.st.vals[a]
        rest == TruncateInt(TokensFromPower(power) * SlashFactor) - acc.slashed
        burn == Max({0, Min({rest, val.tokens})})
    IN  IF acc.st.halted # Nil THEN acc.st
        ELSE BurnOf(Reindex(acc.st, a, [val EXCEPT !.tokens = @ - burn]), a, burn)

\* Slash: first what left the validator since the infraction, then, for the
\* rest, the validator itself.
Slash(st, a, infraction, power) ==
    LET acc0 == [st |-> st, slashed |-> 0]
        acc1 == FoldLeft(LAMBDA x, d : SlashUnbondingDelegation(x, d, a, infraction),
                         acc0, Ascending(Delegators))
        pairs == SetToSortSeq(Delegators \X (Validators \ {a}),
                     LAMBDA x, y : x[1] < y[1] \/ (x[1] = y[1] /\ x[2] < y[2]))
        acc2 == FoldLeft(LAMBDA x, p : SlashRedelegation(x, p[1], a, p[2], infraction),
                         acc1, pairs)
    IN  SlashValidator(IF infraction < st.height THEN acc2 ELSE acc0, a, power)

-------------------------------------------------------------------------------
(* The end blocker. *)

\* Mutant: one place more.
SelectedOneMore(st) ==
    {p[2] : p \in {q \in st.power : q[1] > 0 /\
        Cardinality({r \in st.power : r[1] > q[1] \/ (r[1] = q[1] /\ r[2] < q[2])}) <= MaxValidators}}

\* The validators to be bonded: the first MaxValidators with any power, those of
\* equal power in the order of their addresses, whatever their tokens.
Selected(st) ==
    {p[2] : p \in {q \in st.power : q[1] > 0 /\
        Cardinality({r \in st.power : r[1] > q[1] \/ (r[1] = q[1] /\ r[2] < q[2])}) < MaxValidators}}

Tokens(st, S) == MapThenSumSet(LAMBDA a : st.vals[a].tokens, S)

\* Mutant: validators that come back stay in the unbonding queue.
ApplyAndReturnValidatorSetUpdatesQueued(st) ==
    LET sel  == Selected(st)
        in   == {a \in sel : st.vals[a].status # "bonded"}
        out  == {a \in Validators : st.last[a] > 0} \ sel
        until == st.height + UnbondingTime
        st1  == [st EXCEPT
            !.vals = [a \in Validators |->
                IF a \in in THEN [st.vals[a] EXCEPT !.status = "bonded"]
                ELSE IF a \in out THEN [st.vals[a] EXCEPT !.status = "unbonding", !.ubTime = until]
                ELSE st.vals[a]],
            !.last = [a \in Validators |-> IF a \in sel THEN Power(st.vals[a]) ELSE 0],
            !.valQueue = @ \cup {<<until, a>> : a \in out}]
    IN  ToNotBonded(st1, Tokens(st, out) - Tokens(st, in))

\* ApplyAndReturnValidatorSetUpdates: the selected validators become bonded, the
\* ones no longer selected begin unbonding, and the difference of their tokens
\* changes pools.  The power index keeps its keys: they do not hold the status.
ApplyAndReturnValidatorSetUpdates(st) ==
    LET sel  == Selected(st)
        in   == {a \in sel : st.vals[a].status # "bonded"}
        out  == {a \in Validators : st.last[a] > 0} \ sel
        until == st.height + UnbondingTime
        st1  == [st EXCEPT
            !.vals = [a \in Validators |->
                IF a \in in THEN [st.vals[a] EXCEPT !.status = "bonded"]
                ELSE IF a \in out THEN [st.vals[a] EXCEPT !.status = "unbonding", !.ubTime = until]
                ELSE st.vals[a]],
            !.last = [a \in Validators |-> IF a \in sel THEN Power(st.vals[a]) ELSE 0],
            !.valQueue = (@ \ {<<st.vals[a].ubTime, a>> : a \in in})
                         \cup {<<until, a>> : a \in out}]
    IN  IF \/ \E a \in sel : st.vals[a] = Nil \/ st.vals[a].jailed
           \/ \E a \in out : st.vals[a] = Nil \/ st.vals[a].status # "bonded"
        THEN Halt(st, "validator set")
        ELSE ToNotBonded(st1, Tokens(st, out) - Tokens(st, in))

\* UnbondAllMatureValidators: validators whose time has come are unbonded, and
\* removed when nobody delegates to them.
UnbondAllMatureValidators(st) ==
    LET due == {q[2] : q \in {r \in st.valQueue : r[1] <= st.height}}
        unbond(x, a) ==
            IF x.halted # Nil THEN x
            ELSE IF x.vals[a] = Nil \/ x.vals[a].status # "unbonding" THEN Halt(x, "validator queue")
            ELSE RemoveIfEmpty([x EXCEPT !.vals[a].status = "unbonded"], a)
    IN  FoldLeft(unbond, [st EXCEPT !.valQueue = {q \in @ : q[1] > st.height}], Ascending(due))

\* CompleteUnbonding: mature entries are paid out of the not bonded pool; an
\* error leaves the rest of the work to nobody, the end blocker goes on.
CompleteUnbonding(st, d, a) ==
    LET mature == SelectSeq(st.ubds[d][a], LAMBDA e : e.t <= st.height)
        paid == FoldSeq(LAMBDA e, n : n + e.bal, 0, mature)
    IN  [st EXCEPT !.ubds[d][a] = SelectSeq(@, LAMBDA e : e.t > st.height),
                   !.notBonded = @ - paid, !.bal[d] = @ + paid]

\* The pairs and triples of both queues that are due, in time order.
DequeueAllMature(st) ==
    LET ubds == {q \in st.ubdQueue : q[1] <= st.height}
        reds == {q \in st.redQueue : q[1] <= st.height}
        st1 == [st EXCEPT !.ubdQueue = @ \ ubds, !.redQueue = @ \ reds]
        st2 == FoldSet(LAMBDA q, x : CompleteUnbonding(x, q[2], q[3]), st1, ubds)
    IN  FoldSet(LAMBDA q, x : [x EXCEPT !.reds[q[2]][q[3]][q[4]] =
                                 SelectSeq(@, LAMBDA e : e.t > st.height)], st2, reds)

\* A panic ends the node: nothing after it is done.
Then(st, Do(_)) == IF st.halted # Nil THEN st ELSE Do(st)

\* BlockValidatorUpdates.
BlockValidatorUpdates(st) ==
    Then(Then(ApplyAndReturnValidatorSetUpdates(st), UnbondAllMatureValidators), DequeueAllMature)

\* The end blocker, and on to the next block.
EndBlock ==
    /\ s.halted = Nil /\ s.height < MaxHeight
    /\ s' = [BlockValidatorUpdates(s) EXCEPT !.height = @ + 1]
    /\ hist' = Append(hist, s'.last)
    /\ fresh' = TRUE /\ UNCHANGED msgs

-------------------------------------------------------------------------------
(* Evidence and messages. *)

\* The validator set that signs block h was returned at the end of block h - 2.
PowerAt(a, h) == hist[Max({1, h - 1})][a]

\* The slashed validator is jailed and tombstoned.
Tombstone(st, a) ==
    IF st.halted # Nil THEN st
    ELSE [IF st.vals[a].jailed THEN st ELSE jailValidator(st, a) EXCEPT !.tomb = @ \cup {a}]

\* BeginBlocker of x/evidence with equivocation of a at height h:
\* HandleEquivocationEvidence.
Equivocation(a, h) ==
    /\ s.halted = Nil /\ fresh /\ msgs < MaxMsgs
    /\ h \in 1..(s.height - 1) /\ PowerAt(a, h) > 0
    /\ s.height - h <= MaxAge
    /\ s.vals[a] # Nil /\ s.vals[a].status # "unbonded" /\ a \notin s.tomb
    /\ s' = Tombstone(Slash(s, a, h - 1, PowerAt(a, h)), a)
    /\ msgs' = msgs + 1
    /\ UNCHANGED <<hist, fresh>>

\* A message that took the store to st; one that panicked is reverted.
Deliver(st) ==
    /\ s.halted = Nil /\ msgs < MaxMsgs /\ st.halted = Nil
    /\ s' = st /\ msgs' = msgs + 1 /\ fresh' = FALSE
    /\ UNCHANGED hist

\* Coins of delegator d move to the pool of validator a.
Pay(st, d, a, amt) ==
    IF Bonded(st, a) THEN [st EXCEPT !.bal[d] = @ - amt, !.bonded = @ + amt]
    ELSE [st EXCEPT !.bal[d] = @ - amt, !.notBonded = @ + amt]

CreateValidator(a, amt) ==
    /\ s.vals[a] = Nil /\ s.bal[a] >= amt /\ amt >= MinSelf
    /\ LET st == [s EXCEPT !.vals[a] = NewValidator]
       IN  Deliver(AddDelegation(Pay(st, a, a, amt), a, a, amt))

Delegate(d, a, amt) ==
    /\ s.vals[a] # Nil /\ ~InvalidExRate(s.vals[a]) /\ s.bal[d] >= amt
    /\ Deliver(AddDelegation(Pay(s, d, a, amt), d, a, amt))

Undelegate(d, a, amt) ==
    /\ CanUnbond(s, d, a, amt) /\ Len(s.ubds[d][a]) < MaxEntries
    /\ LET sh == UnbondShares(s, d, a, amt)
           out == ReleasedTokens(s.vals[a], sh)
           st1 == Unbond(s, d, a, sh)
           st2 == IF Bonded(s, a) THEN ToNotBonded(st1, out) ELSE st1
           t == s.height + UnbondingTime
       IN  Deliver([st2 EXCEPT
              !.ubds[d][a] = Append(@, [h |-> s.height, t |-> t, init |-> out, bal |-> out]),
              !.ubdQueue = @ \cup {<<t, d, a>>}])

\* getBeginInfo: when a redelegation from a completes, and the height it counts
\* from; Nil when it is complete at once.  A source that is gone counts as bonded.
getBeginInfo(st, a) ==
    IF st.vals[a] = Nil \/ st.vals[a].status = "bonded"
    THEN [h |-> st.height, t |-> st.height + UnbondingTime]
    ELSE IF st.vals[a].status = "unbonded" THEN Nil
    ELSE [h |-> st.vals[a].ubTime - UnbondingTime, t |-> st.vals[a].ubTime]

BeginRedelegate(d, a, w, amt) ==
    /\ a # w /\ s.vals[w] # Nil /\ CanUnbond(s, d, a, amt)
    /\ \A x \in Validators : s.reds[d][x][a] = <<>>     \* not transitive
    /\ Len(s.reds[d][a][w]) < MaxEntries
    /\ LET sh == UnbondShares(s, d, a, amt)
           out == ReleasedTokens(s.vals[a], sh)
           st1 == Unbond(s, d, a, sh)
           move == IF Bonded(s, a) = Bonded(s, w) THEN 0 ELSE IF Bonded(s, a) THEN out ELSE -out
           st2 == AddDelegation(ToNotBonded(st1, move), d, w, out)
           info == getBeginInfo(st1, a)
           e == [h |-> info.h, t |-> info.t, init |-> out, dst |-> IssuedShares(s.vals[w], out)]
       IN  /\ out > 0 /\ ~InvalidExRate(s.vals[w])
           /\ Deliver(IF info = Nil THEN st2
                      ELSE [st2 EXCEPT !.reds[d][a][w] = Append(@, e),
                                       !.redQueue = @ \cup {<<info.t, d, a, w>>}])

\* Unjail of x/slashing; jail has no end for a tombstoned validator.
Unjail(a) ==
    /\ s.vals[a] # Nil /\ s.vals[a].jailed /\ a \notin s.tomb
    /\ s.dels[a][a] > 0
    /\ TruncateInt(TokensFromShares(s.vals[a], s.dels[a][a])) >= MinSelf
    /\ Deliver(Reindex(s, a, [s.vals[a] EXCEPT !.jailed = FALSE]))

-------------------------------------------------------------------------------
\* InitGenesis: the validators of Stake0, before the first end block.
Genesis ==
    LET val(a) == IF Stake0[a] = 0 THEN Nil
                  ELSE [NewValidator EXCEPT !.tokens = Stake0[a], !.shares = Stake0[a] * P]
        none == [d \in Delegators |-> [a \in Validators |-> <<>>]]
    IN  [vals |-> [a \in Validators |-> val(a)],
         dels |-> [d \in Delegators |-> [a \in Validators |-> IF d = a THEN Stake0[a] * P ELSE 0]],
         ubds |-> none, ubdQueue |-> {}, redQueue |-> {}, valQueue |-> {},
         reds |-> [d \in Delegators |-> [a \in Validators |-> [w \in Validators |-> <<>>]]],
         power |-> {PowerKey(a, val(a)) : a \in {x \in Validators : Stake0[x] > 0}},
         last |-> [a \in Validators |-> 0],
         bonded |-> 0, notBonded |-> MapThenSumSet(LAMBDA a : Stake0[a], Validators),
         bal |-> Balance0, tomb |-> {}, height |-> 1, halted |-> Nil]

\* The validators of genesis are bonded at once.
Init ==
    /\ s = ApplyAndReturnValidatorSetUpdates(Genesis)
    /\ hist = <<s.last>> /\ fresh = TRUE /\ msgs = 0

Next ==
    \/ EndBlock
    \/ \E a \in Validators :
        \/ \E h \in 1..MaxHeight : Equivocation(a, h)
        \/ Unjail(a)
        \/ \E amt \in Amounts : CreateValidator(a, amt)
        \/ \E d \in Delegators, amt \in Amounts :
             \/ Delegate(d, a, amt) \/ Undelegate(d, a, amt)
             \/ \E w \in Validators : BeginRedelegate(d, a, w, amt)

Spec == Init /\ [][Next]_vars

-------------------------------------------------------------------------------
(* Properties. *)

Known == {a \in Validators : s.vals[a] # Nil}
WithStatus(S) == {a \in Known : s.vals[a].status \in S}
Held(d, a) == FoldSeq(LAMBDA e, n : n + e.bal, 0, s.ubds[d][a])

\* The types of the store: tokens, shares, pools and balances are never
\* negative, entries hold at most what they began with.
TypeOK ==
    /\ \A a \in Known : /\ s.vals[a].status \in {"unbonded", "unbonding", "bonded"}
                        /\ s.vals[a].tokens >= 0 /\ s.vals[a].shares >= 0
    /\ s.bonded >= 0 /\ s.notBonded >= 0 /\ s.tomb \subseteq Validators
    /\ \A d \in Delegators : s.bal[d] >= 0 /\ \A a \in Validators :
          /\ s.dels[d][a] >= 0
          /\ \A i \in DOMAIN s.ubds[d][a] : s.ubds[d][a][i].bal \in 0..s.ubds[d][a][i].init

\* ModuleAccountInvariants of the keeper: the bonded pool holds the tokens of
\* bonded validators, the other one those of the rest and of all unbonding
\* entries, through slashes, jailings and changes of the validator set.
ModuleAccountInvariants ==
    s.halted = Nil =>
    /\ s.bonded = Tokens(s, WithStatus({"bonded"}))
    /\ s.notBonded = Tokens(s, WithStatus({"unbonding", "unbonded"}))
           + MapThenSumSet(LAMBDA p : Held(p[1], p[2]), Delegators \X Validators)

\* DelegatorSharesInvariant of the keeper, with removal: a validator's shares
\* are those of its delegators, and nobody delegates to one that is gone.
DelegatorSharesInvariant ==
    \A a \in Validators :
        MapThenSumSet(LAMBDA d : s.dels[d][a], Delegators)
            = IF s.vals[a] = Nil THEN 0 ELSE s.vals[a].shares

\* The power index holds exactly the validators that are not jailed, under
\* their present power: a stale or missing key would bond the wrong set.
PowerIndexExact ==
    s.power = {PowerKey(a, s.vals[a]) : a \in {x \in Known : ~s.vals[x].jailed}}

\* What waits is queued and what is queued waits: unbonding validators and
\* entries are in their queues at their times, and after an end block nothing
\* mature is left.
QueuesComplete ==
    s.halted = Nil =>
    /\ s.valQueue = {<<s.vals[a].ubTime, a>> : a \in WithStatus({"unbonding"})}
    /\ \A d \in Delegators, a \in Validators :
          /\ \A i \in DOMAIN s.ubds[d][a] : <<s.ubds[d][a][i].t, d, a>> \in s.ubdQueue
          /\ \A w \in Validators : \A i \in DOMAIN s.reds[d][a][w] :
                <<s.reds[d][a][w][i].t, d, a, w>> \in s.redQueue
    /\ \A q \in s.valQueue \cup s.ubdQueue \cup s.redQueue : q[1] >= s.height

\* The engine is told of exactly the bonded validators, at most MaxValidators.
EngineKnowsBonded ==
    s.halted = Nil => /\ {a \in Validators : s.last[a] > 0} = WithStatus({"bonded"})
                      /\ Cardinality(WithStatus({"bonded"})) <= MaxValidators

-------------------------------------------------------------------------------
\* Not so: no begin or end block panics.  SlashRedelegation reads the
\* destination validator after an unbonding that may have removed it.
NoHalt == s.halted = Nil

\* Not so: a tombstoned validator signs only until the end of the block that
\* jailed it.  Emptied and removed, it can be created again with the same key.
TombstonedStaysOut == \A a \in s.tomb : s.last[a] > 0 => s.vals[a].jailed
===============================================================================
