-------------------------------- MODULE Slashing --------------------------------
(***************************************************************************)
(* x/slashing, the liveness record of one validator: the circular array of *)
(* missed blocks, its counter, and the downtime punishment of              *)
(* HandleValidatorSignature.  Votes reach BeginBlock three blocks after    *)
(* the end blocker chose the set that casts them, so a validator goes on   *)
(* being counted after it left.  Staking and the engine are external: the  *)
(* validator is in the set or not, jailed or not, stored or removed.       *)
(* Block time and height are one clock.                                    *)
(***************************************************************************)
EXTENDS Integers, Sequences, FiniteSets, FiniteSetsExt

CONSTANTS
    Windows,                    \* values of SignedBlocksWindow; governance sets them
    FirstWindow,                \* the one of genesis
    MinSigned, P,               \* MinSignedPerWindow = MinSigned / P
    DowntimeJailDuration,
    MaxHeight                   \* bound

\* What the constants are.
SlashingConstants ==
    /\ Windows \subseteq Nat \ {0} /\ FirstWindow \in Windows
    /\ P \in Nat \ {0} /\ MinSigned \in 0..P
    /\ DowntimeJailDuration \in Nat \ {0} /\ MaxHeight \in Nat

VARIABLES
    height,     \* height and time of the block
    inBlock,    \* between BeginBlock and EndBlock
    window,     \* the parameter SignedBlocksWindow
    info,       \* [start, offset, missed, until]: ValidatorSigningInfo, or NoInfo
    bits,       \* indices the bit array maps to TRUE
    val,        \* [stored, jailed, bonded]: what x/staking knows
    sets,       \* sets[i]: was it in the set the engine got i blocks ago
    votes,      \* history: misses, latest first, since the array was cleared
    back        \* history: blocks missed while not jailed, since the last unjail

vars == <<height, inBlock, window, info, bits, val, sets, votes, back>>

NoInfo == <<>>     \* no signing info

-------------------------------------------------------------------------------
\* MinSignedPerWindow: the fraction of the window, rounded half to even.
MinSignedPerWindow ==
    LET q == (MinSigned * window) \div P
        r == (MinSigned * window) % P
    IN  IF 2 * r > P \/ (2 * r = P /\ q % 2 = 1) THEN q + 1 ELSE q

MaxMissed == window - MinSignedPerWindow

NewValidatorSigningInfo == [start |-> height, offset |-> 0, missed |-> 0, until |-> 0]

AfterValidatorBonded == info' = IF info = NoInfo THEN NewValidatorSigningInfo ELSE info

\* The first n elements of a sequence, or all of them.
Prefix(seq, n) == SubSeq(seq, 1, Min({n, Len(seq)}))

\* Mutant: a miss is counted even where the bit was set.
UpdatedCounterAgain(i, signed) ==
    info.missed + (IF ~signed THEN 1 ELSE IF i \in bits THEN -1 ELSE 0)

\* The counter follows the bit at index i.
UpdatedCounter(i, signed) ==
    info.missed + (CASE i \notin bits /\ ~signed -> 1
                     [] i \in bits /\ signed -> -1
                     [] OTHER -> 0)

\* Mutant: the array keeps what it held.
clearValidatorMissedBlockBitArrayKept == bits' = bits

clearValidatorMissedBlockBitArray == bits' = {}

\* Mutant: who is past the first window is not looked at again.
PunishedOnTime(missed) ==
    /\ height' = info.start + window + 1 /\ missed > MaxMissed
    /\ val.stored /\ ~val.jailed

\* Mutant: off by one.
PunishedEarly(missed) ==
    /\ height' > info.start + window /\ missed >= MaxMissed
    /\ val.stored /\ ~val.jailed

\* The validator is to be punished for downtime, given the updated counter.
Punished(missed) ==
    /\ height' > info.start + window /\ missed > MaxMissed
    /\ val.stored /\ ~val.jailed

HandleValidatorSignature(signed) ==
    LET i == info.offset % window
        missed == UpdatedCounter(i, signed)
    IN  /\ IF Punished(missed)
           THEN /\ val' = [val EXCEPT !.jailed = TRUE]
                /\ info' = [info EXCEPT !.until = height' + DowntimeJailDuration,
                                        !.missed = 0, !.offset = 0]
                /\ clearValidatorMissedBlockBitArray
                /\ votes' = <<>>
           ELSE /\ val' = val
                /\ info' = [info EXCEPT !.offset = @ + 1, !.missed = missed]
                /\ bits' = IF signed THEN bits \ {i} ELSE bits \cup {i}
                /\ votes' = Prefix(<<~signed>> \o votes, Max(Windows))
        /\ back' = IF signed \/ val.jailed THEN back ELSE back + 1

BeginBlock ==
    /\ ~inBlock /\ height < MaxHeight
    /\ inBlock' = TRUE /\ height' = height + 1
    /\ \/ /\ sets[3]
          /\ \E signed \in BOOLEAN : HandleValidatorSignature(signed)
       \/ ~sets[3] /\ UNCHANGED <<info, bits, val, votes, back>>
    /\ UNCHANGED <<window, sets>>

Unjail ==
    /\ inBlock
    /\ val.stored /\ val.jailed
    /\ info # NoInfo => height >= info.until
    /\ val' = [val EXCEPT !.jailed = FALSE]
    /\ back' = 0
    /\ UNCHANGED <<height, inBlock, window, info, bits, sets, votes>>

\* A passed parameter change proposal.
SetParams ==
    /\ inBlock
    /\ \E w \in Windows \ {window} : window' = w
    /\ UNCHANGED <<height, inBlock, info, bits, val, sets, votes, back>>

\* x/staking: a validator is removed, unbonding time after it left the set, and
\* may be created again with the same key.
RemoveValidator ==
    /\ inBlock
    /\ val.stored /\ ~val.bonded /\ sets = <<FALSE, FALSE, FALSE>>
    /\ val' = [val EXCEPT !.stored = FALSE]
    /\ UNCHANGED <<height, inBlock, window, info, bits, sets, votes, back>>

CreateValidator ==
    /\ inBlock
    /\ ~val.stored
    /\ val' = [stored |-> TRUE, jailed |-> FALSE, bonded |-> FALSE]
    /\ UNCHANGED <<height, inBlock, window, info, bits, sets, votes, back>>

\* The end blocker of x/staking selects the validator, or others in its place.
EndBlock ==
    /\ inBlock /\ inBlock' = FALSE
    /\ \E b \in BOOLEAN :
          /\ b => val.stored /\ ~val.jailed
          /\ val' = [val EXCEPT !.bonded = b]
          /\ sets' = <<b, sets[1], sets[2]>>
          /\ IF b /\ ~val.bonded THEN AfterValidatorBonded ELSE info' = info
    /\ UNCHANGED <<height, window, bits, votes, back>>

\* A validator of genesis, which the engine gets for block 1, or one to come.
Init ==
    /\ height = 0 /\ inBlock = FALSE
    /\ window = FirstWindow
    /\ bits = {}
    /\ \E old \in BOOLEAN :
          /\ val = [stored |-> old, jailed |-> FALSE, bonded |-> old]
          /\ sets = <<old, old, FALSE>>
          /\ info = IF old THEN NewValidatorSigningInfo ELSE NoInfo
    /\ votes = <<>> /\ back = 0

Next == BeginBlock \/ Unjail \/ SetParams \/ RemoveValidator \/ CreateValidator \/ EndBlock
Spec == Init /\ [][Next]_vars

-------------------------------------------------------------------------------
TypeOK ==
    /\ height \in 0..MaxHeight /\ window \in Windows
    /\ info \in [start : Nat, offset : Nat, missed : Nat, until : Nat] \cup {NoInfo}
    /\ bits \subseteq 0..Max(Windows)
    /\ val \in [stored : BOOLEAN, jailed : BOOLEAN, bonded : BOOLEAN]
    /\ val.bonded => val.stored /\ info # NoInfo
    /\ sets \in Seq(BOOLEAN) /\ Len(sets) = 3

Latest(n) == Prefix(votes, n)
Misses(seq) == Cardinality({i \in DOMAIN seq : seq[i]})

\* The counter is the number of blocks missed among the last SignedBlocksWindow
\* ones the validator should have signed since the array was cleared
\* (HandleValidatorSignature, with a window that never changes).
CounterIsWindow == info # NoInfo => info.missed = Misses(Latest(window))

\* Nobody escapes: a stored validator that is past its first window and missed
\* too much of the last one is jailed when BeginBlock is over.
DowntimeIsJailed ==
    /\ ~inBlock /\ inBlock' /\ sets[3] /\ val.stored
    /\ height' > info.start + window
    /\ Misses(votes') > MaxMissed
    => val.jailed' 

\* A validator is jailed by BeginBlock only if it missed more than MaxMissed of
\* the last SignedBlocksWindow blocks, the one just handled included.
PunishedForMisses ==
    ~val.jailed /\ val.jailed' =>
        Misses(<<TRUE>> \o Latest(window - 1)) > MaxMissed

\* Whatever window governance sets, the counter is the number of bits set in the
\* store, so that it never falls below zero and a cleared array starts from zero.
CounterIsBits == info # NoInfo => info.missed = Cardinality(bits)

-------------------------------------------------------------------------------
\* Not so when governance shrinks the window: the counter is the sum of the bit
\* array, whose indices are below SignedBlocksWindow.
CounterIsSum == info # NoInfo => info.missed = Cardinality({i \in bits : i < window})

\* Not so when one miss is too many: after a downtime punishment the record
\* starts afresh, and who comes back is not punished again without having missed
\* a block since the unjail.
NotImmediatelySlashed == val.jailed => back > 0
===============================================================================
