---------------------------- MODULE EnergyLedger ----------------------------
(***************************************************************************)
(* The energy book of x/reward: AddEnergy accumulates reported energy and  *)
(* tells its caller how many RECs that makes; AppendTxNode closes the      *)
(* current batch of light transactions into a node of a linked list kept   *)
(* in the store (TxListHead, TxListTail, TxNode/<rec id>).                 *)
(*                                                                         *)
(* Energy is a whole number of Wh: the handler converts an integer, and    *)
(* sums of integers are exact in the float64 it stores while they stay     *)
(* below 2^53.                                                             *)
(***************************************************************************)
EXTENDS Integers, Sequences, FiniteSets, SequencesExt

CONSTANTS
    Generators,  \* addresses energy is credited to (MsgAddEnergy.To)
    Hashes,      \* transaction hashes
    RecIds,      \* rec_id values of MsgAppendTxHash
    NoId,        \* the empty string: no next node, or no key in the store
    Nexts,       \* next values of MsgAppendTxHash, which nothing validates
    Energies,    \* amounts of energy in a message, negative ones included
    OneREC,      \* energy of one REC; 1000000 Wh in the code
    MaxAdds,     \* bound: AddEnergy messages
    MaxAppends   \* bound: AppendTxHash messages

ASSUME EnergyAssumption ==
    /\ NoId \notin RecIds
    /\ Nexts \subseteq RecIds \cup {NoId}
    /\ Energies \subseteq Int
    /\ OneREC \in Nat \ {0}
    /\ MaxAdds \in Nat
    /\ MaxAppends \in Nat

VARIABLES
    totalEnergy,      \* value under total_energy
    energyByAddress,  \* addresses under EnergyByAddress/ and their energy
    energyTx,         \* list under EnergyTx_Key
    nodes,            \* nodes under TxNode/: their hashes and their next id
    head, tail,       \* TxListHead, TxListTail
    energyIn,         \* history: all energy ever added
    authorised,       \* history: RECs the callers of AddEnergy were told of
    closedEnergy,     \* history: energy of the batches closed by an append
    allTx,            \* history: all hashes ever added
    appended,         \* history: rec ids in the order they were appended
    sentNext          \* history: the next value of the last append message

ledgerVars == <<totalEnergy, energyByAddress, energyTx>>
listVars == <<nodes, head, tail>>
historyVars == <<energyIn, authorised, closedEnergy, allTx, appended, sentNext>>
vars == <<ledgerVars, listVars, historyVars>>

EmptyFunction == [x \in {} |-> 0]

-----------------------------------------------------------------------------
(* Helpers *)

\* int64(total / 1000000.0), which truncates towards zero.
WholeRECs(total) ==
    IF total >= 0 THEN total \div OneREC ELSE -((-total) \div OneREC)

\* Wrong: also subtracts a negative count of RECs.
ResidueAlways(total) == total - WholeRECs(total) * OneREC

\* The energy kept after the whole RECs were counted; unchanged unless there
\* was at least one.
Residue(total) ==
    IF WholeRECs(total) > 0 THEN total - WholeRECs(total) * OneREC ELSE total

\* Wrong: a negative count is announced too.
CountedSigned(total) == WholeRECs(total)

\* The RECs AddEnergy announces and takes off the total.
Counted(total) == IF WholeRECs(total) > 0 THEN WholeRECs(total) ELSE 0

\* store.Set: a function with a new value under one key.
Put(f, k, v) == [x \in DOMAIN f \cup {k} |-> IF x = k THEN v ELSE f[x]]

\* An address's energy; nothing stored counts as 0.
EnergyOf(addr) == IF addr \in DOMAIN energyByAddress THEN energyByAddress[addr] ELSE 0

-----------------------------------------------------------------------------
Init ==
    /\ totalEnergy = 0
    /\ energyByAddress = EmptyFunction
    /\ energyTx = <<>>
    /\ nodes = EmptyFunction
    /\ head = NoId
    /\ tail = NoId
    /\ energyIn = 0
    /\ authorised = 0
    /\ closedEnergy = 0
    /\ allTx = <<>>
    /\ appended = <<>>
    /\ sentNext = NoId

(* MsgAddEnergy *)
AddEnergy(to, amount, hash) ==
    LET total == totalEnergy + amount IN
    /\ Len(allTx) < MaxAdds
    /\ totalEnergy' = Residue(total)
    /\ energyByAddress' = Put(energyByAddress, to, EnergyOf(to) + amount)
    /\ energyTx' = Append(energyTx, hash)
    /\ energyIn' = energyIn + amount
    /\ authorised' = authorised + Counted(total)
    /\ allTx' = Append(allTx, hash)
    /\ UNCHANGED <<listVars, closedEnergy, appended, sentNext>>

(* Wrong: the reset leaves the hashes of the closed batch behind. *)
ResetAddressesOnly ==
    /\ energyByAddress' = EmptyFunction
    /\ UNCHANGED <<totalEnergy, energyTx>>

(* Wrong: the reset leaves the contributors of the closed batch behind. *)
ResetHashesOnly ==
    /\ energyTx' = <<>>
    /\ UNCHANGED <<totalEnergy, energyByAddress>>

(* resetEnergyStore: the batch is closed, the accumulated total stays. *)
ResetEnergyStore ==
    /\ energyByAddress' = EmptyFunction
    /\ energyTx' = <<>>
    /\ UNCHANGED totalEnergy

(* Wrong: the new node is not linked behind the old tail. *)
AppendUnlinked(id, next) ==
    /\ Len(appended) < MaxAppends
    /\ nodes' = Put(nodes, id, [hashes |-> energyTx, next |-> next])
    /\ head' = IF head = NoId THEN id ELSE head
    /\ tail' = id
    /\ ResetEnergyStore
    /\ appended' = Append(appended, id)
    /\ sentNext' = next
    /\ closedEnergy' = energyIn
    /\ UNCHANGED <<energyIn, authorised, allTx>>

(* MsgAppendTxHash: write the node with the pointer the message carries, link
   it behind the tail, reset the batch.  The tail is read after the node was
   written. *)
AppendTxNode(id, next) ==
    LET written == Put(nodes, id, [hashes |-> energyTx, next |-> next]) IN
    /\ Len(appended) < MaxAppends
    /\ \/ /\ head = NoId
          /\ nodes' = written
          /\ head' = id
       \/ /\ head # NoId
          /\ tail \in DOMAIN written
          /\ nodes' = [written EXCEPT ![tail].next = id]
          /\ UNCHANGED head
    /\ tail' = id
    /\ ResetEnergyStore
    /\ appended' = Append(appended, id)
    /\ sentNext' = next
    /\ closedEnergy' = energyIn
    /\ UNCHANGED <<energyIn, authorised, allTx>>

Next ==
    \/ \E to \in Generators, amount \in Energies, hash \in Hashes :
          AddEnergy(to, amount, hash)
    \/ \E id \in RecIds, next \in Nexts : AppendTxNode(id, next)

Spec == Init /\ [][Next]_vars

-----------------------------------------------------------------------------
(* Queries *)

\* The k-th node a walk along the next pointers meets, counted from 0.
Walk ==
    LET at[k \in 0 .. Cardinality(DOMAIN nodes)] ==
          IF k = 0 THEN head
          ELSE IF at[k - 1] \in DOMAIN nodes THEN nodes[at[k - 1]].next ELSE NoId
    IN  at

\* The TxNodeList query stops: among n nodes, a walk of n steps leaves the list.
WalkEnds == Walk[Cardinality(DOMAIN nodes)] \notin DOMAIN nodes

\* The rec ids in the answer of the TxNodeList query: those of the walk up to
\* its end (its first round, when it does not stop).
TxNodeList ==
    LET met == {k \in 0 .. Cardinality(DOMAIN nodes) - 1 : Walk[k] \in DOMAIN nodes}
    IN  [k \in 1 .. Cardinality(met) |-> Walk[k - 1]]

-----------------------------------------------------------------------------
(* Properties *)

Nodes == [hashes : Seq(Hashes), next : RecIds \cup {NoId}]

\* Type invariant.
TypeOK ==
    /\ totalEnergy \in Int
    /\ DOMAIN energyByAddress \subseteq Generators
    /\ \A a \in DOMAIN energyByAddress : energyByAddress[a] \in Int
    /\ energyTx \in Seq(Hashes)
    /\ DOMAIN nodes \subseteq RecIds
    /\ \A id \in DOMAIN nodes : nodes[id] \in Nodes
    /\ head \in RecIds \cup {NoId}
    /\ tail \in RecIds \cup {NoId}
    /\ energyIn \in Int
    /\ authorised \in Nat
    /\ closedEnergy \in Int
    /\ allTx \in Seq(Hashes)
    /\ appended \in Seq(RecIds)
    /\ sentNext \in RecIds \cup {NoId}

\* No energy is lost or counted twice on the way to RECs: what was added is the
\* RECs announced plus a remainder of less than one REC, also when negative
\* amounts come in between.
EnergyConserved ==
    /\ energyIn = totalEnergy + authorised * OneREC
    /\ totalEnergy < OneREC

\* No rec id was appended twice (what the bridge does: it appends each id the
\* chain just created once).
FreshAppends == \A i, j \in DOMAIN appended : appended[i] = appended[j] => i = j

\* The linked list is the history of appends, whatever pointers the messages
\* carried: as long as rec ids are fresh the query walks all of them in order,
\* and it stops behind the last one unless the last message named a node of the
\* list as its next (AppendTxNode overwrites every earlier pointer).
ListIsHistory ==
    FreshAppends =>
        /\ TxNodeList = appended
        /\ WalkEnds <=> sentNext \notin DOMAIN nodes

\* The open batch is one thing in two store entries: its hash list and its
\* contributors are empty together, and the contributors hold exactly the
\* energy reported since the last append.
BatchAttributed ==
    /\ energyTx = <<>> <=> DOMAIN energyByAddress = {}
    /\ SumFunction(energyByAddress) = energyIn - closedEnergy

\* The batches of the nodes, in the order they were appended.
Batches == [i \in DOMAIN appended |-> nodes[appended[i]].hashes]

\* The batches of the nodes and the open batch together are all transactions
\* ever reported, each once and in order: closing a batch neither drops nor
\* repeats a hash, whatever AddEnergy messages come between two appends.
HashesInOrder == FreshAppends => FlattenSeq(Batches) \o energyTx = allTx

\* The comment on TxNodeList says it returns the whole list; it can only if the
\* walk stops.
QueryReturns == WalkEnds
=============================================================================
