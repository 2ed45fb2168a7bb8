------------------------- MODULE RecIssuanceProofs -------------------------
(***************************************************************************)
(* Proofs about RecIssuance for every number of light transactions, block  *)
(* creator messages, foreign transactions, timeouts, failures and crashes, *)
(* every capacity of TxQueue, every size of a REC and every modulus of the *)
(* sequence; and, first, about the EnergyLedger it extends, on its own,    *)
(* for every set of generators, hashes and rec ids and every (also         *)
(* negative) report.                                                       *)
(***************************************************************************)
EXTENDS RecIssuance, SumTheorems, FiniteSetTheorems, TLAPS

-----------------------------------------------------------------------------
(* Arithmetic of the REC count *)

\* Truncated division leaves a remainder smaller than the divisor.
LEMMA QuotientRemainder ==
    ASSUME NEW a \in Nat, NEW b \in Nat \ {0}
    PROVE  /\ (a \div b) \in Nat
           /\ (a \div b) * b <= a
           /\ a - (a \div b) * b < b
  BY SMT

\* Multiplication distributes over addition.
LEMMA PlusTimes ==
    ASSUME NEW a \in Int, NEW b \in Int, NEW c \in Int
    PROVE  (a + b) * c = a * c + b * c
  BY SMT

\* A sum in another order.
LEMMA SumRearranged ==
    ASSUME NEW e \in Int, NEW a \in Int, NEW t \in Int, NEW p \in Int,
           NEW r \in Int, NEW q \in Int,
           e = t + p, r + q = t + a
    PROVE  e + a = r + (p + q)
  BY SMT

\* What AddEnergy keeps and what it counts add up to the total, and what it
\* keeps is less than one REC.
LEMMA ResidueFacts ==
    ASSUME NEW total \in Int
    PROVE  /\ WholeRECs(total) \in Int
           /\ Counted(total) \in Nat
           /\ Residue(total) \in Int
           /\ Residue(total) + Counted(total) * OneREC = total
           /\ Residue(total) < OneREC
<1>0. OneREC \in Nat \ {0}
  BY EnergyAssumption
<1>1. CASE total >= 0
  <2> DEFINE q == total \div OneREC
  <2>1. q \in Nat /\ q * OneREC <= total /\ total - q * OneREC < OneREC
    BY <1>0, <1>1, QuotientRemainder
  <2>2. WholeRECs(total) = q
    BY <1>1 DEF WholeRECs
  <2> HIDE DEF q
  <2>3. q * OneREC \in Int /\ 0 * OneREC = 0
    BY <1>0, <2>1
  <2>4. CASE q > 0
    BY <1>0, <2>1, <2>2, <2>3, <2>4 DEF Residue, Counted
  <2>5. CASE q = 0
    BY <1>0, <2>1, <2>2, <2>3, <2>5 DEF Residue, Counted
  <2>6. QED
    BY <2>1, <2>4, <2>5
<1>2. CASE total < 0
  <2> DEFINE q == (-total) \div OneREC
  <2>1. q \in Nat
    BY <1>0, <1>2, QuotientRemainder
  <2>2. WholeRECs(total) = -q
    BY <1>2 DEF WholeRECs
  <2> HIDE DEF q
  <2>3. 0 * OneREC = 0
    BY <1>0
  <2>4. Counted(total) = 0 /\ Residue(total) = total
    BY <2>1, <2>2 DEF Counted, Residue
  <2>5. QED
    BY <1>0, <1>2, <2>1, <2>2, <2>3, <2>4
<1>3. QED
  BY <1>1, <1>2

-----------------------------------------------------------------------------
(* Types *)

\* store.Set keeps the ranges of keys and values.
LEMMA PutType ==
    ASSUME NEW K, NEW V, NEW f, DOMAIN f \subseteq K, \A x \in DOMAIN f : f[x] \in V,
           NEW k \in K, NEW v \in V
    PROVE  /\ DOMAIN Put(f, k, v) \subseteq K
           /\ \A x \in DOMAIN Put(f, k, v) : Put(f, k, v)[x] \in V
  BY DEF Put

\* Each message keeps the ranges of the values in the store.
LEMMA TypeStep == TypeOK /\ [Next]_vars => TypeOK'
<1> SUFFICES ASSUME TypeOK, [Next]_vars
             PROVE  TypeOK'
  OBVIOUS
<1> USE EnergyAssumption
<1>1. ASSUME NEW to \in Generators, NEW amount \in Energies, NEW hash \in Hashes,
             AddEnergy(to, amount, hash)
      PROVE  TypeOK'
  <2>1. totalEnergy + amount \in Int
    BY DEF TypeOK
  <2>2. /\ totalEnergy' \in Int /\ energyIn' \in Int /\ authorised' \in Nat
    <3>1. /\ totalEnergy' = Residue(totalEnergy + amount)
          /\ authorised' = authorised + Counted(totalEnergy + amount)
          /\ energyIn' = energyIn + amount
      BY <1>1 DEF AddEnergy
    <3>2. Residue(totalEnergy + amount) \in Int /\ Counted(totalEnergy + amount) \in Nat
      BY <2>1, ResidueFacts
    <3>3. QED
      BY <3>1, <3>2 DEF TypeOK
  <2>3. /\ DOMAIN energyByAddress' \subseteq Generators
        /\ \A a \in DOMAIN energyByAddress' : energyByAddress'[a] \in Int
    <3>1. EnergyOf(to) + amount \in Int
      BY DEF TypeOK, EnergyOf
    <3>2. energyByAddress' = Put(energyByAddress, to, EnergyOf(to) + amount)
      BY <1>1 DEF AddEnergy
    <3>3. /\ DOMAIN energyByAddress \subseteq Generators
          /\ \A a \in DOMAIN energyByAddress : energyByAddress[a] \in Int
      BY DEF TypeOK
    <3> DEFINE new == EnergyOf(to) + amount
    <3>4. new \in Int /\ energyByAddress' = Put(energyByAddress, to, new)
      BY <3>1, <3>2
    <3> HIDE DEF new
    <3>5. /\ DOMAIN Put(energyByAddress, to, new) \subseteq Generators
          /\ \A a \in DOMAIN Put(energyByAddress, to, new) :
                Put(energyByAddress, to, new)[a] \in Int
      BY <3>3, <3>4, PutType, Zenon
    <3>6. QED
      BY <3>4, <3>5
  <2>4. energyTx' \in Seq(Hashes) /\ allTx' \in Seq(Hashes)
    BY <1>1 DEF AddEnergy, TypeOK
  <2>5. UNCHANGED <<nodes, head, tail, closedEnergy, appended, sentNext>>
    BY <1>1 DEF AddEnergy, listVars
  <2>6. QED
    BY <2>2, <2>3, <2>4, <2>5 DEF TypeOK
<1>2. ASSUME NEW id \in RecIds, NEW next \in Nexts, AppendTxNode(id, next)
      PROVE  TypeOK'
  <2> DEFINE new == [hashes |-> energyTx, next |-> next]
             written == Put(nodes, id, new)
  <2>1. new \in Nodes
    BY EnergyAssumption DEF Nodes, TypeOK
  <2> HIDE DEF new
  <2>1a. DOMAIN written \subseteq RecIds /\ \A k \in DOMAIN written : written[k] \in Nodes
    <3>1. DOMAIN nodes \subseteq RecIds /\ \A k \in DOMAIN nodes : nodes[k] \in Nodes
      BY DEF TypeOK
    <3>2. QED
      BY <2>1, <3>1, PutType, Zenon
  <2>2. DOMAIN nodes' \subseteq RecIds /\ \A k \in DOMAIN nodes' : nodes'[k] \in Nodes
    <3>1. CASE nodes' = written
      BY <2>1a, <3>1
    <3>2. CASE tail \in DOMAIN written /\ nodes' = [written EXCEPT ![tail].next = id]
      <4> HIDE DEF written
      <4>1. DOMAIN nodes' = DOMAIN written
        BY <3>2
      <4>2. \A k \in DOMAIN written : k # tail => nodes'[k] = written[k]
        BY <3>2
      <4>3. nodes'[tail] = [written[tail] EXCEPT !.next = id]
        BY <3>2
      <4>4. nodes'[tail] \in Nodes
        BY <2>1a, <3>2, <4>3 DEF Nodes
      <4>5. QED
        BY <2>1a, <4>1, <4>2, <4>4
    <3>3. QED
      BY <1>2, <3>1, <3>2 DEF AppendTxNode, new
  <2>3. /\ energyByAddress' = EmptyFunction /\ energyTx' = <<>>
        /\ UNCHANGED <<totalEnergy, energyIn, authorised, allTx>>
        /\ closedEnergy' = energyIn
        /\ appended' = Append(appended, id)
        /\ tail' = id /\ head' \in {id, head}
        /\ sentNext' \in RecIds \cup {NoId}
    BY <1>2, EnergyAssumption DEF AppendTxNode, ResetEnergyStore
  <2>4. DOMAIN EmptyFunction = {}
    BY DEF EmptyFunction
  <2> HIDE DEF written
  <2>5. QED
    BY <2>2, <2>3, <2>4 DEF TypeOK
<1>3. ASSUME UNCHANGED vars
      PROVE  TypeOK'
  BY <1>3 DEF TypeOK, vars, ledgerVars, listVars, historyVars
<1>4. QED
  BY <1>1, <1>2, <1>3 DEF Next

\* The values in the store keep their types.
THEOREM LedgerTypeCorrect == Spec => []TypeOK
<1>1. Init => TypeOK
  BY EnergyAssumption DEF Init, TypeOK, EmptyFunction
<1>2. QED
  BY <1>1, TypeStep, PTL DEF Spec

-----------------------------------------------------------------------------
(* Energy *)

\* Energy in equals RECs announced plus a remainder below one REC, for any
\* sequence of reports and appends.
THEOREM NoEnergyLost == Spec => []EnergyConserved
<1>1. Init => EnergyConserved
  BY EnergyAssumption DEF Init, EnergyConserved
<1>2. TypeOK /\ EnergyConserved /\ [Next]_vars => EnergyConserved'
  <2> SUFFICES ASSUME TypeOK, EnergyConserved, [Next]_vars
               PROVE  EnergyConserved'
    OBVIOUS
  <2>1. ASSUME NEW to \in Generators, NEW amount \in Energies, NEW hash \in Hashes,
               AddEnergy(to, amount, hash)
        PROVE  EnergyConserved'
    <3> DEFINE total == totalEnergy + amount
    <3>1. /\ amount \in Int /\ total \in Int /\ totalEnergy \in Int
          /\ energyIn \in Int /\ authorised \in Nat /\ OneREC \in Nat
      BY EnergyAssumption DEF TypeOK
    <3>2. /\ totalEnergy' = Residue(total)
          /\ energyIn' = energyIn + amount
          /\ authorised' = authorised + Counted(total)
      BY <2>1 DEF AddEnergy
    <3>3. /\ Counted(total) \in Nat /\ Residue(total) \in Int
          /\ Residue(total) + Counted(total) * OneREC = total
          /\ Residue(total) < OneREC
      BY <3>1, ResidueFacts
    <3>4. (authorised + Counted(total)) * OneREC
            = authorised * OneREC + Counted(total) * OneREC
      BY <3>1, <3>3, PlusTimes
    <3>5. authorised * OneREC \in Int /\ Counted(total) * OneREC \in Int
      BY <3>1, <3>3
    <3>6. energyIn = totalEnergy + authorised * OneREC
      BY DEF EnergyConserved
    <3>7. Residue(total) + Counted(total) * OneREC = totalEnergy + amount
      BY <3>3
    <3>8. energyIn + amount
            = Residue(total) + (authorised * OneREC + Counted(total) * OneREC)
      <4> DEFINE p == authorised * OneREC
                 q == Counted(total) * OneREC
                 r == Residue(total)
      <4>1. p \in Int /\ q \in Int /\ r \in Int
        BY <3>3, <3>5
      <4>2. energyIn = totalEnergy + p /\ r + q = totalEnergy + amount
        BY <3>6, <3>7
      <4> HIDE DEF p, q, r
      <4>3. energyIn + amount = r + (p + q)
        BY <3>1, <4>1, <4>2, SumRearranged
      <4>4. QED
        BY <4>3 DEF p, q, r
    <3>9. QED
      BY <3>2, <3>3, <3>4, <3>8 DEF EnergyConserved
  <2>2. CASE UNCHANGED <<totalEnergy, energyIn, authorised>>
    BY <2>2 DEF EnergyConserved
  <2>3. QED
    BY <2>1, <2>2
       DEF Next, AppendTxNode, ResetEnergyStore, vars, ledgerVars, historyVars
<1>3. QED
  BY <1>1, <1>2, LedgerTypeCorrect, PTL DEF Spec

-----------------------------------------------------------------------------
(* The list *)

\* The pointers in the store spell out the history of appends: the head is the
\* first rec id, the tail the last, each node points to the one appended next,
\* whatever its message carried, and the tail where the last message said.
ListLinked ==
    FreshAppends =>
        LET n == Len(appended) IN
        /\ DOMAIN nodes = {appended[i] : i \in 1 .. n}
        /\ head = IF n = 0 THEN NoId ELSE appended[1]
        /\ tail = IF n = 0 THEN NoId ELSE appended[n]
        /\ n = 0 => sentNext = NoId
        /\ \A i \in 1 .. n :
              nodes[appended[i]].next = IF i = n THEN sentNext ELSE appended[i + 1]

\* One append behind a list that spells out its history keeps it so.
LEMMA LinkStep ==
    ASSUME TypeOK, ListLinked, FreshAppends', NEW id \in RecIds, NEW next \in Nexts, AppendTxNode(id, next)
    PROVE  ListLinked'
<1> DEFINE n == Len(appended)
<1>1. /\ appended \in Seq(RecIds) /\ n \in Nat
      /\ DOMAIN appended = 1 .. n
      /\ \A i \in 1 .. n : appended[i] \in RecIds
  BY DEF TypeOK
<1>2. appended' = Append(appended, id)
  BY DEF AppendTxNode
<1>3. /\ Len(appended') = n + 1
      /\ DOMAIN appended' = 1 .. n + 1
      /\ \A i \in 1 .. n : appended'[i] = appended[i]
      /\ appended'[n + 1] = id
  BY <1>1, <1>2
<1> HIDE DEF n
<1>4. FreshAppends
  <2>1. \A i, j \in 1 .. n : appended[i] = appended[j] => i = j
    BY <1>1, <1>3 DEF FreshAppends
  <2>2. QED
    BY <1>1, <2>1 DEF FreshAppends
<1>5. \A i \in 1 .. n : appended[i] # id
  BY <1>1, <1>3 DEF FreshAppends
<1>6. /\ DOMAIN nodes = {appended[i] : i \in 1 .. n}
      /\ head = IF n = 0 THEN NoId ELSE appended[1]
      /\ tail = IF n = 0 THEN NoId ELSE appended[n]
      /\ \A i \in 1 .. n :
            nodes[appended[i]].next = IF i = n THEN sentNext ELSE appended[i + 1]
  BY <1>4 DEF ListLinked, n
<1>7. id \notin DOMAIN nodes
  BY <1>5, <1>6
<1> DEFINE new == [hashes |-> energyTx, next |-> next]
           written == Put(nodes, id, new)
<1>8. /\ DOMAIN written = DOMAIN nodes \cup {id}
      /\ written[id] = new
      /\ \A x \in DOMAIN nodes : x # id => written[x] = nodes[x]
  <2> HIDE DEF new
  <2>1. QED
    BY DEF Put
<1>9. new.next = next
  OBVIOUS
<1>10. /\ \/ head = NoId /\ nodes' = written /\ head' = id
          \/ /\ head # NoId /\ tail \in DOMAIN written
             /\ nodes' = [written EXCEPT ![tail].next = id]
             /\ head' = head
       /\ tail' = id /\ sentNext' = next
  BY DEF AppendTxNode
<1> HIDE DEF new, written
<1>11. DOMAIN nodes' = DOMAIN nodes \cup {id}
  BY <1>8, <1>10
<1>12. DOMAIN nodes' = {appended'[i] : i \in 1 .. n + 1}
  <2>1. {appended'[i] : i \in 1 .. n + 1} = {appended[i] : i \in 1 .. n} \cup {id}
    BY <1>1, <1>3
  <2>2. QED
    BY <1>6, <1>11, <2>1
<1>13. head' = appended'[1] /\ \A i \in 1 .. n + 1 :
          nodes'[appended'[i]].next = IF i = n + 1 THEN next ELSE appended'[i + 1]
  <2>1. CASE n = 0
    <3>1. nodes' = written /\ head' = id
      BY <1>6, <1>10, <2>1
    <3>2. QED
      BY <1>3, <1>8, <1>9, <2>1, <3>1
  <2>2. CASE n > 0
    <3>1. n \in 1 .. n /\ 1 \in 1 .. n
      BY <1>1, <2>2
    <3>2. head = appended[1] /\ tail = appended[n] /\ tail # id /\ head # NoId
      BY <1>1, <1>5, <1>6, <2>2, <3>1, EnergyAssumption
    <3>3. nodes' = [written EXCEPT ![tail].next = id] /\ head' = head
      BY <1>10, <3>2
    <3>4. nodes'[id].next = next
      BY <1>8, <1>9, <3>2, <3>3
    <3>5. tail \in DOMAIN nodes
      BY <1>6, <3>1, <3>2
    <3>6. nodes'[tail].next = id
      <4>1. written[tail] \in Nodes
        BY <1>8, <3>2, <3>5 DEF TypeOK
      <4>2. nodes'[tail] = [written[tail] EXCEPT !.next = id]
        BY <1>8, <3>3, <3>5
      <4>3. QED
        BY <4>1, <4>2 DEF Nodes
    <3>7. ASSUME NEW i \in 1 .. n, i # n
          PROVE  nodes'[appended[i]].next = appended[i + 1]
      <4>1. appended[i] # tail /\ appended[i] # id
        BY <1>1, <1>4, <1>5, <3>1, <3>2, <3>7 DEF FreshAppends
      <4>2. appended[i] \in DOMAIN nodes
        BY <1>6
      <4>3. nodes'[appended[i]] = nodes[appended[i]]
        BY <1>8, <3>3, <4>1, <4>2
      <4>4. QED
        BY <1>6, <3>7, <4>3
    <3>8. ASSUME NEW i \in 1 .. n + 1
          PROVE  nodes'[appended'[i]].next = IF i = n + 1 THEN next ELSE appended'[i + 1]
      <4>1. CASE i = n + 1
        BY <1>3, <3>4, <4>1
      <4>2. CASE i = n
        <5>1. appended'[i] = tail /\ appended'[i + 1] = id /\ i # n + 1
          BY <1>1, <1>3, <3>1, <3>2, <4>2
        <5>2. QED
          BY <3>6, <5>1
      <4>3. CASE i # n /\ i # n + 1
        <5>1. i \in 1 .. n /\ i + 1 \in 1 .. n
          BY <1>1, <4>3
        <5>2. appended'[i] = appended[i] /\ appended'[i + 1] = appended[i + 1]
          BY <1>3, <5>1
        <5>3. QED
          BY <3>7, <4>3, <5>1, <5>2
      <4>4. QED
        BY <4>1, <4>2, <4>3
    <3>9. head' = appended'[1]
      BY <1>3, <3>1, <3>2, <3>3
    <3>10. QED
      BY <3>8, <3>9
  <2>3. QED
    BY <1>1, <2>1, <2>2
<1>14. n + 1 # 0
  BY <1>1
<1>15. QED
  BY <1>3, <1>10, <1>12, <1>13, <1>14 DEF ListLinked

\* That is so for any number of fresh rec ids, any pointers in the messages and
\* any reports between them.
THEOREM ListStaysLinked == Spec => []ListLinked
<1>1. Init => ListLinked
  BY DEF Init, ListLinked, EmptyFunction
<1>2. TypeOK /\ ListLinked /\ [Next]_vars => ListLinked'
  <2> SUFFICES ASSUME TypeOK, ListLinked, [Next]_vars
               PROVE  ListLinked'
    OBVIOUS
  <2>1. CASE UNCHANGED <<nodes, head, tail, appended, sentNext>>
    BY <2>1 DEF ListLinked, FreshAppends
  <2>2. CASE ~FreshAppends'
    BY <2>2 DEF ListLinked
  <2>3. ASSUME NEW id \in RecIds, NEW next \in Nexts, AppendTxNode(id, next), FreshAppends'
        PROVE  ListLinked'
    BY <2>3, LinkStep
  <2>4. QED
    BY <2>1, <2>2, <2>3 DEF Next, AddEnergy, vars, listVars, historyVars
<1>3. QED
  BY <1>1, <1>2, LedgerTypeCorrect, PTL DEF Spec

-----------------------------------------------------------------------------
(* The query *)

\* A linked list has as many nodes as there were appends.
LEMMA NodeCount ==
    ASSUME TypeOK, ListLinked, FreshAppends
    PROVE  Cardinality(DOMAIN nodes) = Len(appended)
<1> DEFINE n == Len(appended)
<1>1. n \in Nat /\ DOMAIN appended = 1 .. n
  BY DEF TypeOK
<1>2. DOMAIN nodes = {appended[i] : i \in 1 .. n}
  BY DEF ListLinked
<1> DEFINE F == [i \in 1 .. n |-> appended[i]]
<1>3. F \in Bijection(1 .. n, DOMAIN nodes)
  <2>1. \A i, j \in 1 .. n : F[i] = F[j] => i = j
    BY <1>1 DEF FreshAppends
  <2>2. F \in [1 .. n -> DOMAIN nodes]
    BY <1>2
  <2>3. \A x \in DOMAIN nodes : \E i \in 1 .. n : F[i] = x
    BY <1>2
  <2> HIDE DEF F
  <2>4. QED
    BY <2>1, <2>2, <2>3 DEF Bijection, Injection, Surjection, IsInjective
<1>4. IsFiniteSet(1 .. n) /\ Cardinality(1 .. n) = n
  <2>1. 1 \in Int /\ n \in Int
    BY <1>1
  <2>2. /\ IsFiniteSet(1 .. n)
        /\ Cardinality(1 .. n) = IF 1 > n THEN 0 ELSE n - 1 + 1
    BY <2>1, FS_Interval
  <2>3. QED
    BY <1>1, <2>2
<1> HIDE DEF F, n
<1>5. ExistsBijection(1 .. n, DOMAIN nodes)
  BY <1>3 DEF ExistsBijection
<1>6. QED
  BY <1>4, <1>5, FS_Bijection DEF n

\* The walk satisfies its own recursion when the list is linked: the history of
\* appends is a function that does.
LEMMA WalkRecursion ==
    ASSUME TypeOK, ListLinked, FreshAppends
    PROVE  /\ DOMAIN Walk = 0 .. Len(appended)
           /\ \A k \in 0 .. Len(appended) :
                 Walk[k] = IF k = 0 THEN head
                           ELSE IF Walk[k - 1] \in DOMAIN nodes THEN nodes[Walk[k - 1]].next
                           ELSE NoId
<1> DEFINE n == Len(appended)
           w == [k \in 0 .. n |-> IF k < n THEN appended[k + 1] ELSE sentNext]
           Rec(at) == [k \in 0 .. n |->
                         IF k = 0 THEN head
                         ELSE IF at[k - 1] \in DOMAIN nodes THEN nodes[at[k - 1]].next
                         ELSE NoId]
<1>1. n \in Nat /\ Cardinality(DOMAIN nodes) = n
  BY NodeCount DEF TypeOK
<1>2. /\ DOMAIN nodes = {appended[i] : i \in 1 .. n}
      /\ head = IF n = 0 THEN NoId ELSE appended[1]
      /\ n = 0 => sentNext = NoId
      /\ \A i \in 1 .. n :
            nodes[appended[i]].next = IF i = n THEN sentNext ELSE appended[i + 1]
      /\ NoId \notin DOMAIN nodes
  BY EnergyAssumption DEF ListLinked, TypeOK
<1>3. Walk = CHOOSE at : at = Rec(at)
  BY <1>1 DEF Walk
<1> HIDE DEF n
<1>4. w = Rec(w)
  <2>1. ASSUME NEW k \in 0 .. n
        PROVE  w[k] = IF k = 0 THEN head
                      ELSE IF w[k - 1] \in DOMAIN nodes THEN nodes[w[k - 1]].next
                      ELSE NoId
    <3>1. CASE k = 0
      BY <1>1, <1>2, <3>1
    <3>2. CASE k # 0
      <4>1. k - 1 \in 0 .. n /\ k - 1 < n /\ k \in 1 .. n /\ (k - 1) + 1 = k
        BY <1>1, <3>2
      <4>2. w[k - 1] = appended[k]
        BY <4>1
      <4>3. w[k - 1] \in DOMAIN nodes
        BY <1>2, <4>1, <4>2
      <4>4. nodes[w[k - 1]].next = IF k = n THEN sentNext ELSE appended[k + 1]
        BY <1>2, <4>1, <4>2
      <4>5. w[k] = IF k = n THEN sentNext ELSE appended[k + 1]
        BY <1>1, <4>1
      <4>6. QED
        BY <3>2, <4>3, <4>4, <4>5
    <3>3. QED
      BY <3>1, <3>2
  <2>2. QED
    BY <2>1
<1>5. Walk = Rec(Walk)
  <2> HIDE DEF w, Rec
  <2>1. \E at : at = Rec(at)
    BY <1>4
  <2>2. QED
    BY <1>3, <2>1
<1>6. QED
  BY <1>5 DEF n

\* So the walk meets the rec ids in the order they were appended, and nothing
\* afterwards.
LEMMA WalkIsHistory ==
    ASSUME TypeOK, ListLinked, FreshAppends
    PROVE  \A k \in 0 .. Len(appended) :
              Walk[k] = IF k < Len(appended) THEN appended[k + 1] ELSE sentNext
<1> DEFINE n == Len(appended)
           Right(k) == Walk[k] = IF k < n THEN appended[k + 1] ELSE sentNext
           wrong == {k \in 0 .. n : ~Right(k)}
<1>1. n \in Nat
  BY DEF TypeOK
<1>2. \A k \in 0 .. n : Walk[k] = IF k = 0 THEN head
                                  ELSE IF Walk[k - 1] \in DOMAIN nodes
                                       THEN nodes[Walk[k - 1]].next ELSE NoId
  BY WalkRecursion
<1>3. /\ DOMAIN nodes = {appended[i] : i \in 1 .. n}
      /\ head = IF n = 0 THEN NoId ELSE appended[1]
      /\ n = 0 => sentNext = NoId
      /\ \A i \in 1 .. n :
            nodes[appended[i]].next = IF i = n THEN sentNext ELSE appended[i + 1]
  BY DEF ListLinked
<1> HIDE DEF n
<1>4. wrong = {}
  <2>1. SUFFICES ASSUME wrong # {} PROVE FALSE
    OBVIOUS
  <2>2. wrong \subseteq Nat
    BY <1>1
  <2>3. PICK m \in wrong : \A k \in wrong : m <= k
    <3> HIDE DEF wrong
    <3>1. QED
      BY <2>1, <2>2, LeastNumber
  <2>4. m \in 0 .. n /\ ~Right(m)
    OBVIOUS
  <2>5. m # 0
    BY <1>1, <1>2, <1>3, <2>4
  <2>6. m - 1 \in 0 .. n /\ m \in 1 .. n /\ m - 1 < n /\ (m - 1) + 1 = m /\ m - 1 < m
    BY <1>1, <2>4, <2>5
  <2>7. Right(m - 1)
    BY <2>3, <2>6
  <2>8. Walk[m - 1] = appended[m]
    BY <2>6, <2>7
  <2>9. Walk[m] = nodes[appended[m]].next
    BY <1>2, <1>3, <2>4, <2>5, <2>6, <2>8
  <2>10. Walk[m] = IF m = n THEN sentNext ELSE appended[m + 1]
    BY <1>3, <2>6, <2>9
  <2>11. Right(m)
    BY <1>1, <2>6, <2>10
  <2>12. QED
    BY <2>4, <2>11
<1>5. QED
  BY <1>4 DEF n

\* The query stops and returns the history.
LEMMA QueryIsHistory == TypeOK /\ ListLinked => ListIsHistory
<1> SUFFICES ASSUME TypeOK, ListLinked, FreshAppends
             PROVE  (WalkEnds <=> sentNext \notin DOMAIN nodes) /\ TxNodeList = appended
  BY DEF ListIsHistory
<1> DEFINE n == Len(appended)
           met == {k \in 0 .. n - 1 : Walk[k] \in DOMAIN nodes}
<1>1. n \in Nat /\ appended \in Seq(RecIds) /\ \A i \in 1 .. n : appended[i] \in RecIds
  BY DEF TypeOK
<1>2. Cardinality(DOMAIN nodes) = n
  BY NodeCount
<1>2a. \A i \in 1 .. n : appended[i] \in DOMAIN nodes
  BY DEF ListLinked
<1>3. \A k \in 0 .. n : Walk[k] = IF k < n THEN appended[k + 1] ELSE sentNext
  BY WalkIsHistory
<1> HIDE DEF n
<1>4. WalkEnds <=> sentNext \notin DOMAIN nodes
  BY <1>1, <1>2, <1>3 DEF WalkEnds
<1>5. met = 0 .. n - 1
  <2>1. ASSUME NEW k \in 0 .. n - 1
        PROVE  Walk[k] \in DOMAIN nodes
    <3>1. k \in 0 .. n /\ k < n /\ k + 1 \in 1 .. n
      BY <1>1
    <3>2. QED
      BY <1>2a, <1>3, <3>1
  <2>2. QED
    BY <2>1
<1> HIDE DEF met
<1>6. Cardinality(met) = n
  <2>1. 0 \in Int /\ n - 1 \in Int
    BY <1>1
  <2>2. Cardinality(0 .. n - 1) = IF 0 > n - 1 THEN 0 ELSE (n - 1) - 0 + 1
    BY <2>1, FS_Interval
  <2>3. QED
    BY <1>1, <1>5, <2>2
<1>7. TxNodeList = [k \in 1 .. n |-> Walk[k - 1]]
  BY <1>2, <1>6 DEF TxNodeList, met
<1>8. \A k \in 1 .. n : Walk[k - 1] = appended[k]
  <2>1. \A k \in 1 .. n : k - 1 \in 0 .. n /\ k - 1 < n /\ (k - 1) + 1 = k
    BY <1>1
  <2>2. QED
    BY <1>3, <2>1
<1>9. appended = [k \in 1 .. n |-> appended[k]]
  BY <1>1 DEF n
<1>10. QED
  BY <1>4, <1>7, <1>8, <1>9

\* As long as rec ids are fresh the TxNodeList query meets all rec ids ever
\* appended, in order, for any number of appends and reports, and stops behind
\* them unless the last message named one of them as its next.
THEOREM ListIsHistoryHolds == Spec => []ListIsHistory
  BY QueryIsHistory, LedgerTypeCorrect, ListStaysLinked, PTL

-----------------------------------------------------------------------------
(* The open batch *)

\* What BatchAttributed says, of a function with finitely many contributors.
BatchInv ==
    /\ energyByAddress \in [DOMAIN energyByAddress -> Int]
    /\ IsFiniteSet(DOMAIN energyByAddress)
    /\ BatchAttributed

\* The energy of one contributor more, or more energy of a contributor.
LEMMA BatchAdds ==
    ASSUME TypeOK, BatchInv, NEW to \in Generators, NEW amount \in Energies, NEW hash \in Hashes,
           AddEnergy(to, amount, hash)
    PROVE  BatchInv'
<1> DEFINE f == energyByAddress
           S == DOMAIN energyByAddress
           v == EnergyOf(to) + amount
<1>1. f \in [S -> Int] /\ IsFiniteSet(S) /\ amount \in Int /\ SumFunction(f) = energyIn - closedEnergy
  BY EnergyAssumption DEF BatchInv, BatchAttributed
<1>2. EnergyOf(to) = (IF to \in S THEN f[to] ELSE 0) /\ EnergyOf(to) \in Int /\ v \in Int
  BY <1>1 DEF EnergyOf
<1>3. /\ energyByAddress' = Put(f, to, v) /\ energyTx' = Append(energyTx, hash)
      /\ energyIn' = energyIn + amount /\ closedEnergy' = closedEnergy
  BY DEF AddEnergy
<1>4. SumFunction(f) \in Int /\ energyIn \in Int /\ closedEnergy \in Int
  BY <1>1, SumFacts DEF TypeOK
<1> HIDE DEF f, S, v
<1> DEFINE g == Put(f, to, v)
<1>5. g = [x \in S \cup {to} |-> IF x = to THEN v ELSE f[x]]
  BY DEF Put, f, S
<1>6. g \in [S \cup {to} -> Int] /\ DOMAIN g = S \cup {to} /\ IsFiniteSet(S \cup {to})
  BY <1>1, <1>2, <1>5, FS_AddElement
<1>7. SumFunction(g) = SumFunction(f) + amount
  <2>1. CASE to \notin S
    <3>1. SumFunction(g) = SumFunction(f) + v /\ v = amount
      BY <1>1, <1>2, <1>5, <2>1, SumAdded DEF v
    <3>2. QED
      BY <3>1
  <2>2. CASE to \in S
    <3>1. g = [f EXCEPT ![to] = v]
      BY <1>1, <1>5, <2>2
    <3>2. SumFunction([f EXCEPT ![to] = v]) = SumFunction(f) + (v - f[to])
      BY <1>1, <1>2, <2>2, SumExcept
    <3>3. v - f[to] = amount
      BY <1>1, <1>2, <2>2 DEF v
    <3>4. QED
      BY <3>1, <3>2, <3>3
  <2>3. QED
    BY <2>1, <2>2
<1>8. energyTx' # <<>> /\ S \cup {to} # {}
  BY <1>3 DEF TypeOK
<1> HIDE DEF g
<1>9. energyByAddress' = g
  BY <1>3 DEF g
<1>10. SumFunction(g) = energyIn' - closedEnergy'
  BY <1>1, <1>3, <1>4, <1>7
<1>11. QED
  BY <1>6, <1>8, <1>9, <1>10 DEF BatchInv, BatchAttributed

\* Between two appends the contributors hold exactly the energy that was reported,
\* and there are some exactly if there are hashes, for any reports and any number
\* of contributors (AddEnergy, resetEnergyStore).
THEOREM BatchStaysAttributed == Spec => []BatchAttributed
<1>1. SumFunction(EmptyFunction) = 0 /\ EmptyFunction \in [{} -> Int] /\ DOMAIN EmptyFunction = {}
      /\ IsFiniteSet({})
  BY SumFacts, FS_EmptySet DEF EmptyFunction
<1>2. Init => BatchInv
  BY <1>1 DEF Init, BatchInv, BatchAttributed
<1>3. TypeOK /\ BatchInv /\ [Next]_vars => BatchInv'
  <2> SUFFICES ASSUME TypeOK, BatchInv, [Next]_vars PROVE BatchInv'
    OBVIOUS
  <2>1. CASE UNCHANGED vars
    BY <2>1 DEF BatchInv, BatchAttributed, vars, ledgerVars, historyVars
  <2>2. ASSUME NEW id \in RecIds, NEW next \in Nexts, AppendTxNode(id, next) PROVE BatchInv'
    <3>1. /\ energyByAddress' = EmptyFunction /\ energyTx' = <<>> /\ closedEnergy' = energyIn
          /\ energyIn' = energyIn /\ energyIn \in Int
      BY <2>2 DEF AppendTxNode, ResetEnergyStore, TypeOK
    <3>2. energyIn' - closedEnergy' = 0
      BY <3>1
    <3>3. QED
      BY <1>1, <3>1, <3>2 DEF BatchInv, BatchAttributed
  <2>3. QED
    BY <2>1, <2>2, BatchAdds DEF Next
<1>4. BatchInv => BatchAttributed
  BY DEF BatchInv
<1>5. QED
  BY <1>2, <1>3, <1>4, LedgerTypeCorrect, PTL DEF Spec

-----------------------------------------------------------------------------
(* The hashes of the batches *)

\* f[i] is the first i sequences of s behind one another.
Joins(f, s, H) ==
    /\ f \in [1 .. Len(s) -> Seq(H)]
    /\ \A i \in 1 .. Len(s) : f[i] = IF i = 1 THEN s[i] ELSE f[i - 1] \o s[i]

\* That is what FlattenSeq computes.
LEMMA FlattenJoins ==
    ASSUME NEW H, NEW s, Len(s) \in Nat \ {0}, NEW f, Joins(f, s, H)
    PROVE  FlattenSeq(s) = f[Len(s)]
<1> DEFINE n == Len(s)
           Body(c) == [i \in 1 .. n |-> IF i = 1 THEN s[i] ELSE c[i - 1] \o s[i]]
           C == CHOOSE c : c = Body(c)
<1>1. FlattenSeq(s) = C[n]
  BY DEF FlattenSeq
<1>2. n \in Nat \ {0}
  OBVIOUS
<1>3. f = Body(f)
  BY DEF Joins
<1> HIDE DEF n
<1>4. C = Body(C)
  <2> HIDE DEF Body
  <2>1. QED
    BY <1>3
<1> HIDE DEF C
<1> DEFINE Wrong == {i \in 1 .. n : C[i] # f[i]}
<1>5. Wrong = {}
  <2>1. SUFFICES ASSUME Wrong # {} PROVE FALSE
    OBVIOUS
  <2>2. Wrong \subseteq Nat
    OBVIOUS
  <2>3. PICK m \in Wrong : \A k \in Wrong : m <= k
    <3> HIDE DEF Wrong
    <3>1. QED
      BY <2>1, <2>2, LeastNumber
  <2>4. m \in 1 .. n /\ C[m] # f[m]
    OBVIOUS
  <2>5. m # 1
    BY <1>3, <1>4, <2>4
  <2>6. m - 1 \in 1 .. n /\ ~(m <= m - 1)
    BY <1>2, <2>4, <2>5
  <2>7. C[m - 1] = f[m - 1]
    BY <2>3, <2>6
  <2>8. C[m] = C[m - 1] \o s[m] /\ f[m] = f[m - 1] \o s[m]
    BY <1>3, <1>4, <2>4, <2>5
  <2>9. QED
    BY <2>4, <2>7, <2>8
<1>6. n \in 1 .. n
  BY <1>2
<1>7. QED
  BY <1>1, <1>5, <1>6 DEF n

\* A hash more at the end of the open batch is one more at the end of all.
LEMMA ConcatAppend ==
    ASSUME NEW H, NEW s \in Seq(H), NEW t \in Seq(H), NEW h \in H
    PROVE  s \o Append(t, h) = Append(s \o t, h)
  OBVIOUS

\* As long as rec ids are fresh the batches, one behind the other, and the open
\* batch are the history of hashes.
HashesInv ==
    FreshAppends =>
        \E f : /\ Joins(f, Batches, Hashes)
               /\ appended = <<>> => energyTx = allTx
               /\ appended # <<>> => f[Len(appended)] \o energyTx = allTx

\* The batches form a sequence of sequences, one for each append.
BatchesTyped ==
    /\ Len(appended) \in Nat /\ DOMAIN appended = 1 .. Len(appended)
    /\ Batches \in Seq(Seq(Hashes)) /\ Len(Batches) = Len(appended)
    /\ \A i \in 1 .. Len(appended) :
          Batches[i] = nodes[appended[i]].hashes /\ Batches[i] \in Seq(Hashes)
    /\ appended = <<>> <=> Len(appended) = 0

\* Each fresh rec id has a node, which carries its batch.
LEMMA BatchesType == TypeOK /\ ListLinked /\ FreshAppends => BatchesTyped
<1> SUFFICES ASSUME TypeOK, ListLinked, FreshAppends PROVE BatchesTyped
  OBVIOUS
<1> DEFINE n == Len(appended)
<1>1. appended \in Seq(RecIds) /\ n \in Nat /\ DOMAIN appended = 1 .. n
  BY DEF TypeOK
<1>2. \A i \in 1 .. n : nodes[appended[i]].hashes \in Seq(Hashes)
  BY <1>1 DEF TypeOK, ListLinked, Nodes
<1>3. Batches = [i \in 1 .. n |-> nodes[appended[i]].hashes]
  BY <1>1 DEF Batches
<1>4. QED
  BY <1>1, <1>2, <1>3 DEF BatchesTyped

\* The flattened batches, in terms of the invariant.
LEMMA HashesOfInv ==
    ASSUME TypeOK, ListLinked, HashesInv
    PROVE  HashesInOrder
<1> SUFFICES ASSUME FreshAppends PROVE FlattenSeq(Batches) \o energyTx = allTx
  BY DEF HashesInOrder
<1>1. PICK f : /\ Joins(f, Batches, Hashes)
               /\ appended = <<>> => energyTx = allTx
               /\ appended # <<>> => f[Len(appended)] \o energyTx = allTx
  BY DEF HashesInv
<1>2. CASE appended = <<>>
  <2>1. Len(Batches) = 0 /\ Batches \in Seq(Seq(Hashes))
    BY <1>2, BatchesType DEF BatchesTyped
  <2>2. FlattenSeq(Batches) = Batches /\ Batches = <<>>
    BY <2>1 DEF FlattenSeq
  <2>3. <<>> \o energyTx = energyTx
    BY DEF TypeOK
  <2>4. QED
    BY <1>1, <1>2, <2>2, <2>3
<1>3. CASE appended # <<>>
  <2>1. Len(Batches) = Len(appended) /\ Len(Batches) \in Nat \ {0}
    BY <1>3, BatchesType DEF BatchesTyped
  <2>2. FlattenSeq(Batches) = f[Len(Batches)]
    BY <1>1, <2>1, FlattenJoins
  <2>3. QED
    BY <1>1, <1>3, <2>1, <2>2
<1>4. QED
  BY <1>2, <1>3

\* An append puts the open batch behind the others.
LEMMA BatchClosed ==
    ASSUME TypeOK, TypeOK', ListLinked, ListLinked', HashesInv, NEW id \in RecIds, NEW next \in Nexts, AppendTxNode(id, next)
    PROVE  HashesInv'
<1> SUFFICES ASSUME FreshAppends'
             PROVE  (\E f : /\ Joins(f, Batches, Hashes)
                            /\ appended = <<>> => energyTx = allTx
                            /\ appended # <<>> => f[Len(appended)] \o energyTx = allTx)'
  BY DEF HashesInv
<1> DEFINE n == Len(appended)
<1>1. /\ appended \in Seq(RecIds) /\ n \in Nat /\ DOMAIN appended = 1 .. n
      /\ \A i \in 1 .. n : appended[i] \in RecIds
  BY DEF TypeOK
<1>2. appended' = Append(appended, id) /\ energyTx' = <<>> /\ allTx' = allTx
  BY DEF AppendTxNode, ResetEnergyStore
<1>3. /\ Len(appended') = n + 1 /\ DOMAIN appended' = 1 .. n + 1 /\ appended' # <<>>
      /\ \A i \in 1 .. n : appended'[i] = appended[i]
      /\ appended'[n + 1] = id
  BY <1>1, <1>2
<1>4. FreshAppends /\ \A i \in 1 .. n : appended[i] # id
  <2>1. \A i, j \in 1 .. n : appended[i] = appended[j] => i = j
    BY <1>1, <1>3 DEF FreshAppends
  <2>2. \A i \in 1 .. n : appended[i] # id
    BY <1>1, <1>3 DEF FreshAppends
  <2>3. QED
    BY <1>1, <2>1, <2>2 DEF FreshAppends
<1>5. PICK f : /\ Joins(f, Batches, Hashes)
               /\ appended = <<>> => energyTx = allTx
               /\ appended # <<>> => f[Len(appended)] \o energyTx = allTx
  BY <1>4 DEF HashesInv
<1>6. /\ Batches \in Seq(Seq(Hashes)) /\ Len(Batches) = n
      /\ \A i \in 1 .. n : Batches[i] = nodes[appended[i]].hashes /\ Batches[i] \in Seq(Hashes)
      /\ appended = <<>> <=> n = 0
  BY <1>4, BatchesType DEF BatchesTyped
<1>7. /\ Len(Batches') = n + 1
      /\ \A i \in 1 .. n + 1 : Batches'[i] = nodes'[appended'[i]].hashes
  <2>1. BatchesTyped'
    BY BatchesType, PTL
  <2>2. QED
    BY <1>3, <2>1 DEF BatchesTyped
<1>8. DOMAIN nodes = {appended[i] : i \in 1 .. n}
  BY <1>4 DEF ListLinked
<1>9. nodes'[id].hashes = energyTx /\ \A x \in DOMAIN nodes : x # id => nodes'[x].hashes = nodes[x].hashes
  <2> DEFINE new == [hashes |-> energyTx, next |-> next]
             written == Put(nodes, id, new)
  <2>1. /\ DOMAIN written = DOMAIN nodes \cup {id}
        /\ written[id] = new
        /\ \A x \in DOMAIN nodes : x # id => written[x] = nodes[x]
    <3> HIDE DEF new
    <3>1. QED
      BY DEF Put
  <2>2. \A x \in DOMAIN written : written[x] \in Nodes
    <3>1. new \in Nodes
      BY EnergyAssumption DEF Nodes, TypeOK
    <3> HIDE DEF new
    <3>2. QED
      BY <2>1, <3>1 DEF TypeOK
  <2>3. \/ nodes' = written
        \/ tail \in DOMAIN written /\ nodes' = [written EXCEPT ![tail].next = id]
    BY DEF AppendTxNode
  <2>4. new.hashes = energyTx
    OBVIOUS
  <2> HIDE DEF new, written
  <2>5. \A x \in DOMAIN written : nodes'[x].hashes = written[x].hashes
    <3>1. CASE nodes' = written
      BY <3>1
    <3>2. CASE tail \in DOMAIN written /\ nodes' = [written EXCEPT ![tail].next = id]
      <4>1. \A x \in DOMAIN written : x # tail => nodes'[x] = written[x]
        BY <3>2
      <4>2. nodes'[tail] = [written[tail] EXCEPT !.next = id]
        BY <3>2
      <4>3. nodes'[tail].hashes = written[tail].hashes
        BY <2>2, <3>2, <4>2 DEF Nodes
      <4>4. QED
        BY <4>1, <4>3
    <3>3. QED
      BY <2>3, <3>1, <3>2
  <2>6. QED
    BY <2>1, <2>4, <2>5
<1>10. ASSUME NEW i \in 1 .. n PROVE Batches'[i] = Batches[i]
  <2>1. i \in 1 .. n + 1 /\ appended'[i] = appended[i] /\ appended[i] \in DOMAIN nodes /\ appended[i] # id
    BY <1>1, <1>3, <1>4, <1>8
  <2>2. Batches'[i] = nodes'[appended[i]].hashes /\ Batches[i] = nodes[appended[i]].hashes
    BY <1>6, <1>7, <2>1
  <2>3. QED
    BY <1>9, <2>1, <2>2
<1>11. Batches'[n + 1] = energyTx
  BY <1>1, <1>3, <1>7, <1>9
<1> HIDE DEF n
<1> DEFINE b == Batches
           c == Batches'
           g == [i \in 1 .. n + 1 |-> IF i = n + 1 THEN allTx ELSE f[i]]
<1>12. f \in [1 .. n -> Seq(Hashes)] /\ \A i \in 1 .. n : f[i] = IF i = 1 THEN b[i] ELSE f[i - 1] \o b[i]
  BY <1>5, <1>6 DEF Joins
<1>13. n = 0 => energyTx = allTx
  BY <1>5, <1>6
<1>14. n # 0 => f[n] \o energyTx = allTx
  BY <1>5, <1>6 DEF n
<1>15. allTx \in Seq(Hashes)
  BY DEF TypeOK
<1> HIDE DEF b, c
<1>16. g \in [1 .. n + 1 -> Seq(Hashes)]
  BY <1>1, <1>12, <1>15
<1>17. ASSUME NEW i \in 1 .. n + 1 PROVE g[i] = IF i = 1 THEN c[i] ELSE g[i - 1] \o c[i]
  <2>1. CASE i \in 1 .. n
    <3>1. g[i] = f[i] /\ c[i] = b[i]
      BY <1>1, <1>10, <2>1 DEF b, c
    <3>2. i # 1 => i - 1 \in 1 .. n /\ g[i - 1] = f[i - 1]
      BY <1>1, <2>1
    <3>3. QED
      BY <1>12, <2>1, <3>1, <3>2
  <2>2. CASE i = n + 1
    <3>1. g[i] = allTx /\ c[i] = energyTx
      BY <1>1, <1>11, <2>2 DEF c
    <3>2. CASE n = 0
      BY <1>13, <2>2, <3>1, <3>2
    <3>3. CASE n # 0
      <4>1. i # 1 /\ i - 1 = n /\ n \in 1 .. n + 1 /\ n # n + 1
        BY <1>1, <2>2, <3>3
      <4>2. g[i - 1] = f[n]
        BY <4>1
      <4>3. QED
        BY <1>14, <3>1, <3>3, <4>1, <4>2
    <3>4. QED
      BY <3>2, <3>3
  <2>3. QED
    BY <1>1, <2>1, <2>2
<1>18. Joins(g, c, Hashes)
  BY <1>7, <1>16, <1>17 DEF Joins, c
<1>19. g[Len(appended')] \o energyTx' = allTx'
  <2>1. g[n + 1] = allTx
    BY <1>1
  <2>2. allTx \o <<>> = allTx
    BY <1>15
  <2>3. QED
    BY <1>2, <1>3, <2>1, <2>2
<1> HIDE DEF g
<1>20. QED
  BY <1>3, <1>18, <1>19 DEF c

\* As long as rec ids are fresh no hash is dropped, repeated or moved to another
\* batch: the batches of the nodes in the order of the appends, and the open
\* batch, are the hashes in the order they were reported, for any number of
\* reports and appends (AddEnergy, AppendTxNode).
THEOREM HashesStayInOrder == Spec => []HashesInOrder
<1>1. Init => HashesInv
  <2>1. SUFFICES ASSUME Init PROVE HashesInv
    OBVIOUS
  <2>2. appended = <<>> /\ energyTx = allTx
    BY <2>1 DEF Init
  <2>3. Len(Batches) = 0
    BY <2>2 DEF Batches
  <2>4. Joins([i \in {} |-> <<>>], Batches, Hashes)
    BY <2>3 DEF Joins
  <2>5. QED
    BY <2>2, <2>4 DEF HashesInv
<1>2. TypeOK /\ TypeOK' /\ ListLinked /\ ListLinked' /\ HashesInv /\ [Next]_vars => HashesInv'
  <2> SUFFICES ASSUME TypeOK, TypeOK', ListLinked, ListLinked', HashesInv, [Next]_vars
               PROVE  HashesInv'
    OBVIOUS
  <2>1. CASE UNCHANGED vars
    BY <2>1 DEF HashesInv, Batches, FreshAppends, vars, ledgerVars, listVars, historyVars
  <2>2. ASSUME NEW to \in Generators, NEW amount \in Energies, NEW hash \in Hashes,
               AddEnergy(to, amount, hash)
        PROVE  HashesInv'
    <3> SUFFICES ASSUME FreshAppends'
                 PROVE  (\E f : /\ Joins(f, Batches, Hashes)
                                /\ appended = <<>> => energyTx = allTx
                                /\ appended # <<>> => f[Len(appended)] \o energyTx = allTx)'
      BY DEF HashesInv
    <3>1. /\ energyTx' = Append(energyTx, hash) /\ allTx' = Append(allTx, hash)
          /\ nodes' = nodes /\ appended' = appended
      BY <2>2 DEF AddEnergy, listVars
    <3>2. FreshAppends /\ Batches' = Batches
      BY <3>1 DEF FreshAppends, Batches
    <3>3. PICK f : /\ Joins(f, Batches, Hashes)
                   /\ appended = <<>> => energyTx = allTx
                   /\ appended # <<>> => f[Len(appended)] \o energyTx = allTx
      BY <3>2 DEF HashesInv
    <3>4. ASSUME appended # <<>> PROVE f[Len(appended)] \o energyTx' = allTx'
      <4>1. Len(appended) \in 1 .. Len(Batches)
        BY <3>2, <3>4, BatchesType DEF BatchesTyped
      <4>2. f[Len(appended)] \in Seq(Hashes) /\ energyTx \in Seq(Hashes)
        BY <3>3, <4>1 DEF Joins, TypeOK
      <4>3. \A s, t \in Seq(Hashes) : s \o Append(t, hash) = Append(s \o t, hash)
        BY ConcatAppend
      <4>4. f[Len(appended)] \o Append(energyTx, hash) = Append(f[Len(appended)] \o energyTx, hash)
        BY <4>2, <4>3
      <4>5. QED
        BY <3>1, <3>3, <3>4, <4>4
    <3>5. QED
      BY <3>1, <3>2, <3>3, <3>4
  <2>3. QED
    BY <2>1, <2>2, BatchClosed DEF Next
<1>3. QED
  BY <1>1, <1>2, HashesOfInv, LedgerTypeCorrect, ListStaysLinked, PTL DEF Spec

-----------------------------------------------------------------------------
(* The inductive invariant of RecIssuance *)

\* A rec id of an earlier block.
Earlier(id) == id \in RecIds /\ id[1] < height

\* What the worker knows at each step: it waits only inside a task and with a
\* filled cache, it reports only positive energy, and the rec id it is about to
\* append is one the chain has created.
WorkerInOrder ==
    /\ height \in 1 .. MaxHeight + 1
    /\ waiting => step # "idle" /\ cached
    /\ step \in {"reward", "energy"} => power \in Powers /\ power > 0
    /\ step = "append" => recID \in created /\ Earlier(recID)

\* What a pending transaction carries.
Sound(tx) ==
    /\ tx.step = "energy" => tx.amount \in Energies /\ tx.amount > 0
    /\ tx.step = "create" => tx.amount \in Nat /\ tx.amount > 0
    /\ tx.step = "append" => tx.id \in created /\ Earlier(tx.id)
    /\ tx.step # "append" => tx.id = NoId

PendingSound == \A i \in DOMAIN mempool : Sound(mempool[i])

\* The transaction the worker waits for is that of its step, and the youngest.
AwaitedIsLast ==
    \A i \in DOMAIN mempool :
        mempool[i].awaited => i = Len(mempool) /\ waiting /\ mempool[i].step = step

\* Until something fails the bridge has no transaction pending that it gave up.
CleanIsAwaited ==
    clean => \A i \in DOMAIN mempool : mempool[i].awaited \/ mempool[i].step = "foreign"

IssuanceInv ==
    /\ IssuanceTypeOK
    /\ WorkerInOrder
    /\ PendingSound
    /\ AwaitedIsLast
    /\ CleanIsAwaited

-----------------------------------------------------------------------------
(* What happens to the mempool *)

\* A block takes the oldest transaction; the others move up by one.
LEMMA PopFacts ==
    ASSUME mempool \in Seq(Txs), mempool # <<>>, mempool' = Tail(mempool)
    PROVE  /\ mempool' \in Seq(Txs)
           /\ Len(mempool) \in Nat /\ Len(mempool) > 0
           /\ DOMAIN mempool = 1 .. Len(mempool) /\ 1 \in DOMAIN mempool
           /\ Len(mempool') = Len(mempool) - 1
           /\ DOMAIN mempool' = 1 .. Len(mempool) - 1
           /\ Head(mempool) = mempool[1] /\ mempool[1] \in Txs
           /\ \A i \in DOMAIN mempool' :
                 mempool'[i] = mempool[i + 1] /\ i + 1 \in DOMAIN mempool
  OBVIOUS

\* A submission adds the youngest.
LEMMA PushFacts ==
    ASSUME mempool \in Seq(Txs), NEW tx \in Txs, mempool' = Append(mempool, tx)
    PROVE  /\ mempool' \in Seq(Txs)
           /\ Len(mempool) \in Nat /\ DOMAIN mempool = 1 .. Len(mempool)
           /\ Len(mempool') = Len(mempool) + 1
           /\ DOMAIN mempool' = 1 .. Len(mempool) + 1
           /\ \A i \in DOMAIN mempool : mempool'[i] = mempool[i]
           /\ mempool'[Len(mempool) + 1] = tx
  OBVIOUS

\* A timeout or a crash leaves the pending transactions to the chain.
LEMMA UnawaitFacts ==
    ASSUME mempool \in Seq(Txs),
           mempool' = [i \in DOMAIN mempool |-> [mempool[i] EXCEPT !.awaited = FALSE]]
    PROVE  /\ mempool' \in Seq(Txs)
           /\ Len(mempool) \in Nat /\ DOMAIN mempool = 1 .. Len(mempool)
           /\ Len(mempool') = Len(mempool)
           /\ DOMAIN mempool' = DOMAIN mempool
           /\ \A i \in DOMAIN mempool :
                 /\ ~mempool'[i].awaited
                 /\ mempool'[i].step = mempool[i].step
                 /\ mempool'[i].amount = mempool[i].amount
                 /\ mempool'[i].id = mempool[i].id
<1>1. Len(mempool) \in Nat /\ DOMAIN mempool = 1 .. Len(mempool)
  OBVIOUS
<1>2. \A i \in DOMAIN mempool : mempool[i] \in Txs
  OBVIOUS
<1>3. \A i \in DOMAIN mempool : mempool'[i] = [mempool[i] EXCEPT !.awaited = FALSE]
  OBVIOUS
<1>4. ASSUME NEW tx \in Txs
      PROVE  LET u == [tx EXCEPT !.awaited = FALSE]
             IN  u \in Txs /\ ~u.awaited /\ u.step = tx.step /\ u.amount = tx.amount
                 /\ u.id = tx.id
  BY DEF Txs
<1>5. \A i \in DOMAIN mempool :
          /\ mempool'[i] \in Txs /\ ~mempool'[i].awaited
          /\ mempool'[i].step = mempool[i].step
          /\ mempool'[i].amount = mempool[i].amount
          /\ mempool'[i].id = mempool[i].id
  BY <1>2, <1>3, <1>4
<1>6. DOMAIN mempool' = 1 .. Len(mempool)
  BY <1>1
<1>7. mempool' \in Seq(Txs)
  <2>1. mempool' = [i \in 1 .. Len(mempool) |-> mempool'[i]]
    BY <1>1
  <2>2. mempool' \in [1 .. Len(mempool) -> Txs]
    BY <1>1, <1>5, <2>1
  <2>3. QED
    BY <1>1, <2>2
<1>8. Len(mempool') = Len(mempool)
  BY <1>1, <1>6, <1>7
<1>9. QED
  BY <1>1, <1>5, <1>6, <1>7, <1>8

\* The transaction of the current step is one the chain knows.
LEMMA CurrentFacts ==
    ASSUME IssuanceTypeOK, step # "idle"
    PROVE  /\ CurrentTx \in Txs
           /\ CurrentTx.step = step /\ CurrentTx.awaited
           /\ CurrentTx.id = IF step = "append" THEN recID ELSE NoId
           /\ step = "create" => CurrentTx.amount = recCount
           /\ step = "energy" => CurrentTx.amount = power
<1> DEFINE amount == CASE step = "create" -> recCount [] step = "energy" -> power [] OTHER -> 0
           id == IF step = "append" THEN recID ELSE NoId
<1>1. step \in Steps /\ recCount \in Int /\ power \in Int /\ recID \in RecIds \cup {NoId}
  BY DEF IssuanceTypeOK
<1>2. /\ amount \in Int /\ id \in RecIds \cup {NoId}
      /\ step = "create" => amount = recCount
      /\ step = "energy" => amount = power
  BY <1>1
<1> HIDE DEF amount, id
<1>3. CurrentTx = [step |-> step, id |-> id, amount |-> amount, awaited |-> TRUE]
  BY DEF CurrentTx, amount, id
<1>4. QED
  BY <1>1, <1>2, <1>3 DEF Txs, id

\* Sequences stay below the modulus, one below zero included.
LEMMA ModRange ==
    ASSUME NEW a \in Int
    PROVE  a % SeqModulus \in 0 .. SeqModulus - 1
<1>1. SeqModulus \in Nat /\ SeqModulus > 0
  BY IssuanceAssumption
<1>2. QED
  BY <1>1

\* The sequence a submission uses and the one forceSyncAccountSequence leaves.
LEMMA SeqTypes ==
    ASSUME IssuanceTypeOK
    PROVE  /\ NextSeq \in 0 .. SeqModulus - 1
           /\ (chainSeq - 1) % SeqModulus \in 0 .. SeqModulus - 1
           /\ (chainSeq + 1) % SeqModulus \in 0 .. SeqModulus - 1
<1>1. SeqModulus \in Nat /\ seqCache \in 0 .. SeqModulus - 1 /\ chainSeq \in 0 .. SeqModulus - 1
  BY IssuanceAssumption DEF IssuanceTypeOK
<1>2. seqCache + 1 \in Int /\ chainSeq - 1 \in Int /\ chainSeq + 1 \in Int
  BY <1>1
<1>3. /\ (seqCache + 1) % SeqModulus \in 0 .. SeqModulus - 1
      /\ (chainSeq - 1) % SeqModulus \in 0 .. SeqModulus - 1
      /\ (chainSeq + 1) % SeqModulus \in 0 .. SeqModulus - 1
  BY <1>2, ModRange
<1>4. QED
  BY <1>1, <1>3 DEF NextSeq

\* The tasks on TxQueue.
Tasks == {LightTask(p) : p \in Powers} \cup {IssueTask, BurnTask}

\* One more of a bounded event.
LEMMA CountType ==
    ASSUME IssuanceTypeOK, NEW event \in Events, Count(event)
    PROVE  bounds' \in [Events -> Nat]
  BY DEF IssuanceTypeOK, Count

\* A new task at the end of TxQueue.
LEMMA QueueType ==
    ASSUME IssuanceTypeOK, NEW task \in Tasks, Len(queue) < QueueCap,
           queue' = Append(queue, task)
    PROVE  queue' \in Seq(Tasks) /\ Len(queue') <= QueueCap
<1>1. queue \in Seq(Tasks) /\ QueueCap \in Nat
  BY IssuanceAssumption DEF IssuanceTypeOK, Tasks
<1>2. QED
  BY <1>1

\* The state after a failed submission.
LEMMA FailedType ==
    ASSUME IssuanceTypeOK, Failed
    PROVE  /\ step' \in Steps \cup {"idle"} /\ waiting' = FALSE
           /\ recCount' \in Nat /\ clean' = FALSE
           /\ step' # "append" /\ step' \notin {"reward", "energy", "create", "append", "burn"}
  BY DEF IssuanceTypeOK, Failed, Steps

\* The variables no step of the bridge alone changes.
ChainStays == UNCHANGED <<vars, chainSeq, mempool, height, created, requested>>

\* The type invariant, apart from the ledger and what chainVars holds.
BridgeTypeOK ==
    /\ queue \in Seq(Tasks) /\ Len(queue) <= QueueCap
    /\ creatorAt \in {"idle", "send"}
    /\ step \in Steps \cup {"idle"}
    /\ waiting \in BOOLEAN
    /\ power \in Int
    /\ recID \in RecIds \cup {NoId}
    /\ recCount \in Nat
    /\ seqCache \in 0 .. SeqModulus - 1
    /\ cached \in BOOLEAN
    /\ bounds \in [Events -> Nat]
    /\ stale \in Nat
    /\ disturbed \in Nat
    /\ clean \in BOOLEAN

ChainTypeOK ==
    /\ chainSeq \in 0 .. SeqModulus - 1
    /\ mempool \in Seq(Txs)
    /\ height \in Nat
    /\ created \subseteq Nat \X Nat
    /\ requested \in Nat

\* The type invariant in three parts.
LEMMA TypeParts == IssuanceTypeOK <=> TypeOK /\ BridgeTypeOK /\ ChainTypeOK
  BY DEF IssuanceTypeOK, BridgeTypeOK, ChainTypeOK, Tasks

\* The steps the bridge takes by itself: messages that come in, tasks taken, and
\* submissions that do not reach the mempool.
LocalStep ==
    \/ \E p \in Powers : QueueLight(p)
    \/ QueueBurn
    \/ BlockCreator
    \/ QueueIssue
    \/ TakeTask
    \/ FirstQueryFails
    \/ \E answered \in BOOLEAN : WrongSequence(answered) \/ Refused(answered)
    \/ UNCHANGED allVars

\* Every step is local or one of the others.
LEMMA IssuanceCases ==
    ASSUME [IssuanceNext]_allVars
    PROVE  \/ LocalStep
           \/ Submit
           \/ \E answered \in BOOLEAN : Timeout(answered)
           \/ ForeignTx
           \/ Deliver
           \/ \E answered \in BOOLEAN : DeliverFails(answered)
           \/ Crash
  BY DEF IssuanceNext, LocalStep

\* The chain does not notice a local step.
LEMMA LocalChain == LocalStep => ChainStays
<1>1. ASSUME NEW p \in Powers, QueueLight(p)
      PROVE  ChainStays
  BY <1>1 DEF QueueLight, ChainStays, chainVars
<1>2. ASSUME NEW answered \in BOOLEAN, WrongSequence(answered) \/ Refused(answered)
      PROVE  ChainStays
  BY <1>2 DEF WrongSequence, Refused, ChainStays, chainVars
<1>3. UNCHANGED allVars => ChainStays
  BY DEF allVars, issuanceVars, chainVars, ChainStays
<1>4. QueueBurn \/ BlockCreator \/ QueueIssue \/ TakeTask \/ FirstQueryFails => ChainStays
  BY DEF QueueBurn, BlockCreator, QueueIssue, TakeTask, FirstQueryFails, ChainStays, chainVars
<1>5. QED
  BY <1>1, <1>2, <1>3, <1>4 DEF LocalStep

\* The task the worker takes.
LEMMA TakeFacts ==
    ASSUME IssuanceTypeOK, TakeTask
    PROVE  /\ queue' \in Seq(Tasks) /\ Len(queue') <= QueueCap
           /\ step = "idle" /\ step' \in {"idle", "reward", "create", "burn"}
           /\ step' = "reward" => power' \in Powers /\ power' > 0
           /\ power' \in Int
           /\ UNCHANGED <<creatorAt, waiting, recID, recCount, seqCache, cached,
                          bounds, stale, disturbed, clean>>
<1>1. queue \in Seq(Tasks) /\ Len(queue) <= QueueCap /\ QueueCap \in Nat /\ power \in Int
  BY IssuanceAssumption DEF IssuanceTypeOK, Tasks
<1>2. queue # <<>> /\ queue' = Tail(queue)
  BY DEF TakeTask
<1>3. Head(queue) \in Tasks /\ queue' \in Seq(Tasks) /\ Len(queue') <= QueueCap
  BY <1>1, <1>2
<1>4. Head(queue).kind = "light" => Head(queue).power \in Powers
  BY <1>3 DEF Tasks, LightTask, IssueTask, BurnTask
<1>5. /\ step = "idle"
      /\ step' \in {"idle", "reward", "create", "burn"}
      /\ \/ Head(queue).kind \in {"issue", "burn"} /\ step' # "reward" /\ power' = power
         \/ /\ Head(queue).kind = "light" /\ power' = Head(queue).power
            /\ step' = "reward" => Head(queue).power > 0
      /\ UNCHANGED <<creatorAt, waiting, recID, recCount, seqCache, cached,
                     bounds, stale, disturbed, clean>>
  BY DEF TakeTask, seqVars
<1>6. QED
  BY <1>1, <1>3, <1>4, <1>5, IssuanceAssumption

\* Local steps keep the ranges of the bridge's state.
LEMMA LocalType ==
    ASSUME IssuanceTypeOK, LocalStep
    PROVE  BridgeTypeOK'
<1> USE DEF BridgeTypeOK
<1>0. BridgeTypeOK
  BY TypeParts
<1>1. ASSUME NEW p \in Powers, QueueLight(p)
      PROVE  BridgeTypeOK'
  <2>1. LightTask(p) \in Tasks
    BY DEF Tasks
  <2>2. queue' \in Seq(Tasks) /\ Len(queue') <= QueueCap
    BY <1>1, <2>1, QueueType DEF QueueLight
  <2>3. bounds' \in [Events -> Nat]
    BY <1>1, CountType DEF QueueLight, Events
  <2>4. QED
    BY <1>0, <1>1, <2>2, <2>3 DEF QueueLight, seqVars
<1>2. CASE QueueBurn
  <2>1. queue' \in Seq(Tasks) /\ Len(queue') <= QueueCap
    BY <1>2, QueueType DEF QueueBurn, Tasks
  <2>2. bounds' \in [Events -> Nat]
    BY <1>2, CountType DEF QueueBurn, Events
  <2>3. QED
    BY <1>0, <1>2, <2>1, <2>2 DEF QueueBurn, seqVars
<1>3. CASE BlockCreator
  <2>1. bounds' \in [Events -> Nat]
    BY <1>3, CountType DEF BlockCreator, Events
  <2>2. QED
    BY <1>0, <1>3, <2>1 DEF BlockCreator, seqVars
<1>4. CASE QueueIssue
  <2>1. queue' \in Seq(Tasks) /\ Len(queue') <= QueueCap
    BY <1>4, QueueType DEF QueueIssue, Tasks
  <2>2. QED
    BY <1>0, <1>4, <2>1 DEF QueueIssue, seqVars
<1>5. CASE TakeTask
  BY <1>0, <1>5, TakeFacts DEF Steps
<1>6. CASE FirstQueryFails
  <2>1. bounds' \in [Events -> Nat]
    BY <1>6, CountType DEF FirstQueryFails, Events
  <2>2. QED
    BY <1>0, <1>6, <2>1, FailedType DEF FirstQueryFails, seqVars
<1>7. ASSUME NEW answered \in BOOLEAN, WrongSequence(answered) \/ Refused(answered)
      PROVE  BridgeTypeOK'
  <2>1. bounds' \in [Events -> Nat]
    <3>1. Count("error") => bounds' \in [Events -> Nat]
      BY CountType DEF Events
    <3>2. QED
      BY <1>0, <1>7, <3>1 DEF WrongSequence, Refused
  <2>2. seqCache' \in 0 .. SeqModulus - 1
    <3>1. Resync(NextSeq, answered)
      BY <1>7 DEF WrongSequence, Refused
    <3>2. QED
      BY <3>1, SeqTypes DEF Resync
  <2>3. stale' \in Nat /\ disturbed' \in Nat
    BY <1>0, <1>7 DEF WrongSequence, Refused
  <2>4. Failed /\ cached' = TRUE /\ UNCHANGED <<queue, creatorAt, power, recID>>
    BY <1>7 DEF WrongSequence, Refused
  <2>5. QED
    BY <1>0, <2>1, <2>2, <2>3, <2>4, FailedType
<1>8. CASE UNCHANGED allVars
  BY <1>0, <1>8 DEF allVars, issuanceVars, bridgeVars, seqVars
<1>9. QED
  BY <1>1, <1>2, <1>3, <1>4, <1>5, <1>6, <1>7, <1>8 DEF LocalStep

-----------------------------------------------------------------------------
(* What each of the other steps does *)

\* A submission that reaches the mempool.
LEMMA SubmitFacts ==
    ASSUME IssuanceTypeOK, Submit
    PROVE  /\ step # "idle" /\ ~waiting /\ waiting' = TRUE
           /\ NextSeq = CheckSeq /\ seqCache' = NextSeq /\ cached' = TRUE
           /\ CurrentTx \in Txs
           /\ mempool' = Append(mempool, CurrentTx)
           /\ step = "create" => recCount > 0
           /\ requested' = requested + IF step = "create" THEN recCount ELSE 0
           /\ UNCHANGED <<vars, queue, creatorAt, step, power, recID, recCount, chainSeq,
                          height, created, bounds, stale, disturbed, clean>>
  BY CurrentFacts DEF Submit

\* BroadcastTxCommit gives up.
LEMMA TimeoutFacts ==
    ASSUME IssuanceTypeOK, NEW answered \in BOOLEAN, Timeout(answered)
    PROVE  /\ waiting /\ Failed
           /\ mempool' = [i \in DOMAIN mempool |-> [mempool[i] EXCEPT !.awaited = FALSE]]
           /\ bounds' \in [Events -> Nat]
           /\ seqCache' \in 0 .. SeqModulus - 1
           /\ disturbed' = disturbed + 1
           /\ UNCHANGED <<vars, queue, creatorAt, power, recID, cached, chainSeq, height,
                          created, requested, stale>>
<1>1. bounds' \in [Events -> Nat]
  BY CountType DEF Timeout, Events
<1>2. seqCache' \in 0 .. SeqModulus - 1
  BY SeqTypes DEF Timeout, Resync, IssuanceTypeOK
<1>3. QED
  BY <1>1, <1>2 DEF Timeout

\* A block comes, whatever becomes of its transaction.
LEMMA CommitFacts ==
    ASSUME IssuanceTypeOK, Commit
    PROVE  /\ mempool \in Seq(Txs) /\ mempool # <<>> /\ mempool' = Tail(mempool)
           /\ height <= MaxHeight /\ height' = height + 1
           /\ chainSeq' = (chainSeq + 1) % SeqModulus
           /\ chainSeq' \in 0 .. SeqModulus - 1
           /\ UNCHANGED <<queue, creatorAt, power, cached, requested, stale>>
  BY SeqTypes DEF Commit, IssuanceTypeOK

\* A transaction the worker waits for is alone in the mempool when its block
\* comes, and is that of the current step.
LEMMA AwaitedFacts ==
    ASSUME IssuanceTypeOK, AwaitedIsLast, mempool # <<>>, mempool[1].awaited
    PROVE  Len(mempool) = 1 /\ waiting /\ mempool[1].step = step
<1>1. mempool \in Seq(Txs)
  BY DEF IssuanceTypeOK
<1>2. 1 \in DOMAIN mempool
  BY <1>1
<1>3. QED
  BY <1>2 DEF AwaitedIsLast

\* A block whose transaction succeeds.
LEMMA DeliverFacts ==
    ASSUME IssuanceTypeOK, AwaitedIsLast, Deliver
    PROVE  LET tx == mempool[1] IN
           /\ Commit /\ Execute(tx)
           /\ tx.awaited => Succeeded(tx) /\ tx.step = step /\ waiting /\ Len(mempool) = 1
           /\ ~tx.awaited => UNCHANGED <<step, waiting, recCount, recID, clean>>
           /\ UNCHANGED <<seqCache, bounds, disturbed>>
<1>1. mempool \in Seq(Txs) /\ mempool # <<>>
  BY DEF IssuanceTypeOK, Deliver, Commit
<1>2. Head(mempool) = mempool[1]
  BY <1>1
<1>3. QED
  BY <1>1, <1>2, AwaitedFacts DEF Deliver

\* A block whose transaction fails.
LEMMA DeliverFailsFacts ==
    ASSUME IssuanceTypeOK, AwaitedIsLast, NEW answered \in BOOLEAN, DeliverFails(answered)
    PROVE  LET tx == mempool[1] IN
           /\ Commit
           /\ tx.step # "foreign"
           /\ bounds' \in [Events -> Nat]
           /\ tx.awaited => /\ Failed /\ tx.step = step /\ waiting /\ Len(mempool) = 1
                            /\ seqCache' = IF answered THEN chainSeq ELSE seqCache
           /\ ~tx.awaited => UNCHANGED <<seqCache, step, waiting, recCount, clean>>
           /\ UNCHANGED <<vars, recID, created, disturbed>>
<1>1. mempool \in Seq(Txs) /\ mempool # <<>>
  BY DEF IssuanceTypeOK, DeliverFails, Commit
<1>2. Head(mempool) = mempool[1]
  BY <1>1
<1>3. bounds' \in [Events -> Nat]
  BY CountType DEF DeliverFails, Events
<1>4. QED
  BY <1>1, <1>2, <1>3, AwaitedFacts DEF DeliverFails

\* What the chain does with a transaction that succeeds, as a step of the ledger.
LEMMA ExecuteFacts ==
    ASSUME IssuanceTypeOK, WorkerInOrder, NEW tx \in Txs, Sound(tx), Execute(tx),
           height <= MaxHeight
    PROVE  /\ [Next]_vars
           /\ created \subseteq created'
           /\ created' \subseteq Nat \X Nat
           /\ tx.step = "create" => <<height, 0>> \in created'
           /\ created' # created => tx.step = "create"
<1>1. CASE tx.step = "energy"
  <2>1. AddEnergy(Generator, tx.amount, TxHash) /\ created' = created
    BY <1>1 DEF Execute
  <2>2. Generator \in Generators /\ tx.amount \in Energies /\ TxHash \in Hashes
    BY <1>1, IssuanceAssumption DEF Sound
  <2>3. Next
    BY <2>1, <2>2 DEF Next
  <2>4. QED
    BY <1>1, <2>1, <2>3 DEF IssuanceTypeOK
<1>2. CASE tx.step = "create"
  <2>1. /\ created' = created \cup {<<height, i>> : i \in 0 .. (tx.amount - 1)}
        /\ UNCHANGED vars
    BY <1>2 DEF Execute
  <2>2. tx.amount \in Nat /\ tx.amount > 0 /\ height \in Nat
    BY <1>2 DEF Sound, IssuanceTypeOK
  <2>3. 0 \in 0 .. (tx.amount - 1) /\ 0 .. (tx.amount - 1) \subseteq Nat
    BY <2>2
  <2>4. QED
    BY <1>2, <2>1, <2>2, <2>3 DEF IssuanceTypeOK
<1>3. CASE tx.step = "append"
  <2>1. AppendTxNode(tx.id, NoId) /\ created' = created
    BY <1>3 DEF Execute
  <2>2. tx.id \in RecIds /\ NoId \in Nexts
    BY <1>3, IssuanceAssumption DEF Sound, Earlier
  <2>3. Next
    BY <2>1, <2>2 DEF Next
  <2>4. QED
    BY <1>3, <2>1, <2>3 DEF IssuanceTypeOK
<1>4. CASE tx.step \in {"reward", "pay", "burn", "foreign"}
  BY <1>4 DEF Execute, IssuanceTypeOK
<1>5. tx.step \in Steps \cup {"foreign"}
  BY DEF Txs
<1>6. QED
  BY <1>1, <1>2, <1>3, <1>4, <1>5 DEF Steps

\* The state after a submission that succeeded.
LEMMA SucceededType ==
    ASSUME IssuanceTypeOK, WorkerInOrder, NEW tx \in Txs, Succeeded(tx), height <= MaxHeight
    PROVE  /\ step' \in Steps \cup {"idle"} /\ waiting' = FALSE
           /\ recCount' \in Nat /\ clean' \in BOOLEAN /\ recID' \in RecIds \cup {NoId}
           /\ step' \in {"reward", "create", "burn"} => FALSE
           /\ step' = "energy" => step = "reward"
           /\ step' = "append" => step = "create" /\ recID' = <<height, 0>>
           /\ <<height, 0>> \in RecIds
           /\ clean' => clean
<1>1. Counted(totalEnergy + tx.amount) \in Nat
  <2>1. totalEnergy + tx.amount \in Int
    BY DEF IssuanceTypeOK, TypeOK, Txs
  <2>2. QED
    BY <2>1, ResidueFacts
<1>2. <<height, 0>> \in RecIds
  BY IssuanceAssumption DEF WorkerInOrder
<1> DEFINE recs == Counted(totalEnergy + tx.amount)
           overwrites == recs > 0 => recCount = 0
<1>3. recs \in Nat
  BY <1>1
<1>4. /\ waiting' = FALSE
      /\ \/ step = "reward" /\ step' = "energy" /\ UNCHANGED <<recCount, recID, clean>>
         \/ /\ step = "energy" /\ step' = "idle"
            /\ recCount' = (IF recs > 0 THEN recs ELSE recCount)
            /\ recID' = recID /\ clean' = (clean /\ overwrites)
         \/ /\ step = "create" /\ step' = "append"
            /\ recID' = <<height, 0>> /\ UNCHANGED <<recCount, clean>>
         \/ step = "append" /\ step' = "pay" /\ UNCHANGED <<recCount, recID, clean>>
         \/ step = "pay" /\ step' = "idle" /\ recCount' = 0 /\ UNCHANGED <<recID, clean>>
         \/ step = "burn" /\ step' = "idle" /\ UNCHANGED <<recCount, recID, clean>>
  BY DEF Succeeded
<1> HIDE DEF recs, overwrites
<1>5. clean' \in BOOLEAN /\ (clean' => clean)
  <2>1. clean' = clean \/ clean' = (clean /\ overwrites)
    BY <1>4
  <2>2. clean \in BOOLEAN /\ (clean /\ overwrites) \in BOOLEAN
    BY DEF IssuanceTypeOK
  <2>3. clean' \in BOOLEAN
    BY <2>1, <2>2
  <2>4. clean' => clean
    BY <2>1, Zenon
  <2>5. QED
    BY <2>3, <2>4
<1>6. /\ step' \in Steps \cup {"idle"} /\ step' \notin {"reward", "create", "burn"}
      /\ step' = "energy" => step = "reward"
      /\ step' = "append" => step = "create" /\ recID' = <<height, 0>>
  BY <1>4 DEF Steps
<1>7. recCount' \in Nat
  BY <1>3, <1>4 DEF IssuanceTypeOK
<1>8. recID' \in RecIds \cup {NoId}
  BY <1>2, <1>4 DEF IssuanceTypeOK
<1>9. QED
  BY <1>2, <1>4, <1>5, <1>6, <1>7, <1>8

-----------------------------------------------------------------------------
(* Types *)

\* The messages the bridge makes the chain execute are AddEnergy and
\* AppendTxHash messages, and nothing else touches the energy book.
LEMMA LedgerStep == IssuanceInv /\ [IssuanceNext]_allVars => [Next]_vars
<1> SUFFICES ASSUME IssuanceInv, [IssuanceNext]_allVars
             PROVE  [Next]_vars
  OBVIOUS
<1> USE DEF IssuanceInv
<1>1. CASE LocalStep
  BY <1>1, LocalChain DEF ChainStays
<1>2. CASE Submit
  BY <1>2 DEF Submit
<1>3. ASSUME NEW answered \in BOOLEAN, Timeout(answered)
      PROVE  [Next]_vars
  BY <1>3 DEF Timeout
<1>4. CASE ForeignTx
  BY <1>4 DEF ForeignTx
<1>5. CASE Deliver
  <2>1. Commit /\ Execute(mempool[1])
    BY <1>5, DeliverFacts
  <2>2. mempool[1] \in Txs /\ 1 \in DOMAIN mempool /\ height <= MaxHeight
    BY <2>1, CommitFacts, PopFacts
  <2>3. QED
    BY <2>1, <2>2, ExecuteFacts DEF PendingSound
<1>6. ASSUME NEW answered \in BOOLEAN, DeliverFails(answered)
      PROVE  [Next]_vars
  BY <1>6 DEF DeliverFails
<1>7. CASE Crash
  BY <1>7 DEF Crash
<1>8. QED
  BY <1>1, <1>2, <1>3, <1>4, <1>5, <1>6, <1>7, IssuanceCases

\* Every step keeps the ranges of the state.
LEMMA IssuanceTypeStep == IssuanceInv /\ [IssuanceNext]_allVars => IssuanceTypeOK'
<1> SUFFICES ASSUME IssuanceInv, [IssuanceNext]_allVars
             PROVE  IssuanceTypeOK'
  OBVIOUS
<1> USE DEF IssuanceInv
<1>0. BridgeTypeOK /\ ChainTypeOK
  BY TypeParts
<1>1. TypeOK'
  BY LedgerStep, TypeStep DEF IssuanceTypeOK
<1>2. SUFFICES BridgeTypeOK' /\ ChainTypeOK'
  <2>1. (TypeOK /\ BridgeTypeOK /\ ChainTypeOK)' => IssuanceTypeOK'
    BY TypeParts, PTL
  <2>2. QED
    BY <1>1, <1>2, <2>1
<1>3. CASE LocalStep
  BY <1>0, <1>3, LocalChain, LocalType DEF ChainStays, ChainTypeOK
<1>4. CASE Submit
  <2>1. mempool' \in Seq(Txs)
    BY <1>0, <1>4, SubmitFacts, PushFacts DEF ChainTypeOK
  <2>2. requested' \in Nat
    BY <1>0, <1>4, SubmitFacts DEF ChainTypeOK, BridgeTypeOK
  <2>3. seqCache' \in 0 .. SeqModulus - 1
    BY <1>4, SubmitFacts, SeqTypes
  <2>4. QED
    BY <1>0, <1>4, <2>1, <2>2, <2>3, SubmitFacts DEF ChainTypeOK, BridgeTypeOK
<1>5. ASSUME NEW answered \in BOOLEAN, Timeout(answered)
      PROVE  BridgeTypeOK' /\ ChainTypeOK'
  <2>1. mempool' \in Seq(Txs)
    BY <1>0, <1>5, TimeoutFacts, UnawaitFacts DEF ChainTypeOK
  <2>2. disturbed' \in Nat
    BY <1>0, <1>5, TimeoutFacts DEF BridgeTypeOK
  <2>3. QED
    BY <1>0, <1>5, <2>1, <2>2, TimeoutFacts, FailedType DEF ChainTypeOK, BridgeTypeOK
<1>6. CASE ForeignTx
  <2>1. [step |-> "foreign", amount |-> 0, id |-> NoId, awaited |-> FALSE] \in Txs
    BY DEF Txs
  <2>2. mempool' \in Seq(Txs)
    BY <1>6, <2>1 DEF ForeignTx
  <2>3. bounds' \in [Events -> Nat]
    BY <1>6, CountType DEF ForeignTx, Events
  <2>4. disturbed' \in Nat
    BY <1>0, <1>6 DEF ForeignTx, BridgeTypeOK
  <2>5. QED
    BY <1>0, <1>6, <2>2, <2>3, <2>4
       DEF ForeignTx, bridgeVars, seqVars, ChainTypeOK, BridgeTypeOK
<1>7. CASE Deliver
  <2>1. Commit /\ Execute(mempool[1])
    BY <1>7, DeliverFacts
  <2>2. mempool[1] \in Txs /\ 1 \in DOMAIN mempool /\ height <= MaxHeight
        /\ mempool' \in Seq(Txs)
    BY <2>1, CommitFacts, PopFacts
  <2>3. created' \subseteq Nat \X Nat
    BY <2>1, <2>2, ExecuteFacts DEF PendingSound
  <2>4. ChainTypeOK'
    BY <1>0, <2>1, <2>2, <2>3, CommitFacts DEF ChainTypeOK
  <2>5. /\ step' \in Steps \cup {"idle"} /\ waiting' \in BOOLEAN
        /\ recCount' \in Nat /\ clean' \in BOOLEAN /\ recID' \in RecIds \cup {NoId}
    <3>1. CASE mempool[1].awaited
      BY <1>7, <2>2, <3>1, DeliverFacts, SucceededType
    <3>2. CASE ~mempool[1].awaited
      BY <1>0, <1>7, <3>2, DeliverFacts DEF BridgeTypeOK
    <3>3. QED
      BY <3>1, <3>2
  <2>6. UNCHANGED <<seqCache, bounds, disturbed, queue, creatorAt, power, cached, stale>>
    BY <1>7, <2>1, DeliverFacts, CommitFacts
  <2>7. QED
    BY <1>0, <2>4, <2>5, <2>6 DEF BridgeTypeOK
<1>8. ASSUME NEW answered \in BOOLEAN, DeliverFails(answered)
      PROVE  BridgeTypeOK' /\ ChainTypeOK'
  <2>1. Commit
    BY <1>8, DeliverFailsFacts
  <2>2. mempool' \in Seq(Txs)
    BY <2>1, CommitFacts, PopFacts
  <2>3. ChainTypeOK'
    BY <1>0, <1>8, <2>1, <2>2, CommitFacts, DeliverFailsFacts DEF ChainTypeOK
  <2>4. /\ step' \in Steps \cup {"idle"} /\ waiting' \in BOOLEAN
        /\ recCount' \in Nat /\ clean' \in BOOLEAN
        /\ seqCache' \in 0 .. SeqModulus - 1
    <3>1. CASE mempool[1].awaited
      BY <1>0, <1>8, <3>1, DeliverFailsFacts, FailedType DEF BridgeTypeOK, ChainTypeOK
    <3>2. CASE ~mempool[1].awaited
      BY <1>0, <1>8, <3>2, DeliverFailsFacts DEF BridgeTypeOK
    <3>3. QED
      BY <3>1, <3>2
  <2>5. /\ UNCHANGED <<disturbed, queue, creatorAt, power, cached, stale, recID>>
        /\ bounds' \in [Events -> Nat]
    BY <1>8, <2>1, DeliverFailsFacts, CommitFacts
  <2>6. QED
    BY <1>0, <2>3, <2>4, <2>5 DEF BridgeTypeOK
<1>9. CASE Crash
  <2>1. mempool' \in Seq(Txs)
    BY <1>0, <1>9, UnawaitFacts DEF Crash, ChainTypeOK
  <2>2. bounds' \in [Events -> Nat]
    BY <1>9, CountType DEF Crash, Events
  <2>3. 0 \in 0 .. SeqModulus - 1 /\ QueueCap \in Nat
    BY IssuanceAssumption
  <2>4. queue' \in Seq(Tasks) /\ Len(queue') <= QueueCap
    BY <1>9, <2>3 DEF Crash
  <2>5. disturbed' \in Nat
    BY <1>0, <1>9 DEF Crash, BridgeTypeOK
  <2>6. /\ creatorAt' = "idle" /\ step' = "idle" /\ waiting' = FALSE /\ power' = 0
        /\ recID' = NoId /\ recCount' = 0 /\ seqCache' = 0 /\ cached' = FALSE /\ clean' = FALSE
        /\ UNCHANGED <<chainSeq, height, created, requested, stale>>
    BY <1>9 DEF Crash
  <2>7. ChainTypeOK'
    BY <1>0, <2>1, <2>6 DEF ChainTypeOK
  <2>8. BridgeTypeOK'
    <3>1. /\ stale' \in Nat /\ step' \in Steps \cup {"idle"} /\ power' \in Int
          /\ recID' \in RecIds \cup {NoId} /\ recCount' \in Nat
          /\ seqCache' \in 0 .. SeqModulus - 1 /\ creatorAt' \in {"idle", "send"}
      BY <1>0, <2>3, <2>6 DEF BridgeTypeOK
    <3>2. waiting' \in BOOLEAN /\ cached' \in BOOLEAN /\ clean' \in BOOLEAN
      BY <2>6
    <3>3. QED
      BY <2>2, <2>4, <2>5, <3>1, <3>2 DEF BridgeTypeOK
  <2>9. QED
    BY <2>7, <2>8
<1>10. QED
  BY <1>3, <1>4, <1>5, <1>6, <1>7, <1>8, <1>9, IssuanceCases

-----------------------------------------------------------------------------
(* The parts of the invariant, one by one *)

\* The chain only grows.
LEMMA ChainGrows ==
    ASSUME IssuanceInv, [IssuanceNext]_allVars
    PROVE  height \in Nat /\ height' \in Nat /\ height <= height' /\ created \subseteq created'
<1> USE DEF IssuanceInv
<1>0. height \in Nat
  BY DEF IssuanceTypeOK
<1>1. CASE LocalStep
  BY <1>0, <1>1, LocalChain DEF ChainStays
<1>2. CASE Submit
  BY <1>0, <1>2 DEF Submit
<1>3. ASSUME NEW answered \in BOOLEAN, Timeout(answered)
      PROVE  UNCHANGED <<height, created>>
  BY <1>3 DEF Timeout
<1>4. CASE ForeignTx
  BY <1>0, <1>4 DEF ForeignTx
<1>5. CASE Deliver
  <2>1. Commit /\ Execute(mempool[1])
    BY <1>5, DeliverFacts
  <2>2. mempool[1] \in Txs /\ 1 \in DOMAIN mempool /\ height <= MaxHeight
        /\ height' = height + 1
    BY <2>1, CommitFacts, PopFacts
  <2>3. created \subseteq created'
    BY <2>1, <2>2, ExecuteFacts DEF PendingSound
  <2>4. QED
    BY <1>0, <2>2, <2>3
<1>6. ASSUME NEW answered \in BOOLEAN, DeliverFails(answered)
      PROVE  height' = height + 1 /\ created' = created
  BY <1>6 DEF DeliverFails, Commit
<1>7. CASE Crash
  BY <1>0, <1>7 DEF Crash
<1>8. QED
  BY <1>0, <1>1, <1>2, <1>3, <1>4, <1>5, <1>6, <1>7, IssuanceCases

\* So an id of an earlier block stays one, and a transaction stays sound.
LEMMA SoundGrows ==
    ASSUME IssuanceInv, [IssuanceNext]_allVars
    PROVE  /\ \A id : Earlier(id) => Earlier(id)'
           /\ \A tx : Sound(tx) => Sound(tx)'
<1>1. height \in Nat /\ height' \in Nat /\ height <= height' /\ created \subseteq created'
  BY ChainGrows
<1>2. ASSUME NEW id, Earlier(id)
      PROVE  Earlier(id)'
  <2>1. id \in RecIds /\ id[1] \in Nat /\ id[1] < height
    BY <1>2, IssuanceAssumption DEF Earlier
  <2>2. QED
    BY <1>1, <2>1 DEF Earlier
<1>3. ASSUME NEW tx, Sound(tx)
      PROVE  Sound(tx)'
  BY <1>1, <1>2, <1>3 DEF Sound
<1>4. QED
  BY <1>2, <1>3

\* The worker's step, its power and its rec id fit together.
LEMMA WorkerStep == IssuanceInv /\ [IssuanceNext]_allVars => WorkerInOrder'
<1> SUFFICES ASSUME IssuanceInv, [IssuanceNext]_allVars
             PROVE  WorkerInOrder'
  OBVIOUS
<1> USE DEF IssuanceInv
<1>0. /\ height \in 1 .. MaxHeight + 1 /\ MaxHeight \in Nat
      /\ created \subseteq created'
      /\ \A id : Earlier(id) => Earlier(id)'
  BY ChainGrows, SoundGrows, IssuanceAssumption DEF WorkerInOrder
<1>1. CASE LocalStep
  <2>1. height' = height
    BY <1>1, LocalChain DEF ChainStays
  <2>2. CASE UNCHANGED <<step, waiting, power, recID, cached>>
    BY <1>0, <2>1, <2>2 DEF WorkerInOrder
  <2>3. CASE TakeTask
    <3>1. waiting' = FALSE
      BY <2>3, TakeFacts DEF WorkerInOrder, IssuanceTypeOK
    <3>2. QED
      BY <1>0, <2>1, <2>3, <3>1, TakeFacts DEF WorkerInOrder
  <2>4. CASE Failed
    BY <1>0, <2>1, <2>4, FailedType DEF WorkerInOrder
  <2>5. QED
    <3>1. ASSUME NEW p \in Powers, QueueLight(p)
          PROVE  UNCHANGED <<step, waiting, power, recID, cached>>
      BY <3>1 DEF QueueLight, seqVars
    <3>2. ASSUME NEW answered \in BOOLEAN, WrongSequence(answered) \/ Refused(answered)
          PROVE  Failed
      BY <3>2 DEF WrongSequence, Refused
    <3>3. FirstQueryFails => Failed
      BY DEF FirstQueryFails
    <3>4. QueueBurn \/ BlockCreator \/ QueueIssue =>
             UNCHANGED <<step, waiting, power, recID, cached>>
      BY DEF QueueBurn, BlockCreator, QueueIssue, seqVars
    <3>5. UNCHANGED allVars => UNCHANGED <<step, waiting, power, recID, cached>>
      BY DEF allVars, issuanceVars, bridgeVars, seqVars
    <3>6. QED
      BY <1>1, <2>2, <2>3, <2>4, <3>1, <3>2, <3>3, <3>4, <3>5 DEF LocalStep
<1>2. CASE Submit
  BY <1>0, <1>2, SubmitFacts DEF WorkerInOrder
<1>3. ASSUME NEW answered \in BOOLEAN, Timeout(answered)
      PROVE  WorkerInOrder'
  BY <1>0, <1>3, TimeoutFacts, FailedType DEF WorkerInOrder
<1>4. CASE ForeignTx
  BY <1>0, <1>4 DEF ForeignTx, bridgeVars, seqVars, WorkerInOrder
<1>5. CASE Deliver
  <2>1. Commit /\ Execute(mempool[1])
    BY <1>5, DeliverFacts
  <2>2. /\ mempool[1] \in Txs /\ Sound(mempool[1])
        /\ height <= MaxHeight /\ height' = height + 1 /\ UNCHANGED <<power, cached>>
    BY <2>1, CommitFacts, PopFacts DEF PendingSound
  <2>3. height' \in 1 .. MaxHeight + 1
    BY <1>0, <2>2
  <2>4. CASE mempool[1].awaited
    <3>1. Succeeded(mempool[1]) /\ mempool[1].step = step
      BY <1>5, <2>4, DeliverFacts
    <3>2. /\ waiting' = FALSE /\ step' \notin {"reward", "create", "burn"}
          /\ step' = "energy" => step = "reward"
          /\ step' = "append" => step = "create" /\ recID' = <<height, 0>>
          /\ <<height, 0>> \in RecIds
      BY <2>2, <3>1, SucceededType
    <3>3. step' = "append" => recID' \in created' /\ Earlier(recID)'
      <4>1. step = "create" => <<height, 0>> \in created'
        BY <2>1, <2>2, <3>1, ExecuteFacts
      <4>2. height < height'
        BY <1>0, <2>2
      <4>3. \A id : id = <<height, 0>> => Earlier(id)'
        BY <3>2, <4>2 DEF Earlier
      <4>4. QED
        BY <3>2, <4>1, <4>3 DEF Earlier
    <3>4. QED
      BY <2>2, <2>3, <3>2, <3>3 DEF WorkerInOrder
  <2>5. CASE ~mempool[1].awaited
    <3>1. UNCHANGED <<step, waiting, recID>>
      BY <1>5, <2>5, DeliverFacts
    <3>2. QED
      BY <1>0, <2>2, <2>3, <3>1 DEF WorkerInOrder
  <2>6. QED
    BY <2>4, <2>5
<1>6. ASSUME NEW answered \in BOOLEAN, DeliverFails(answered)
      PROVE  WorkerInOrder'
  <2>1. Commit /\ UNCHANGED recID
    BY <1>6, DeliverFailsFacts
  <2>2. height' \in 1 .. MaxHeight + 1 /\ UNCHANGED <<power, cached>>
    BY <1>0, <2>1, CommitFacts
  <2>3. CASE mempool[1].awaited
    BY <1>6, <2>2, <2>3, DeliverFailsFacts, FailedType DEF WorkerInOrder
  <2>4. CASE ~mempool[1].awaited
    <3>1. UNCHANGED <<step, waiting>>
      BY <1>6, <2>4, DeliverFailsFacts
    <3>2. QED
      BY <1>0, <2>1, <2>2, <3>1 DEF WorkerInOrder
  <2>5. QED
    BY <2>3, <2>4
<1>7. CASE Crash
  BY <1>0, <1>7 DEF Crash, WorkerInOrder
<1>8. QED
  BY <1>1, <1>2, <1>3, <1>4, <1>5, <1>6, <1>7, IssuanceCases

\* What the mempool holds stays sound, awaited only at its end, and while
\* nothing failed awaited or foreign.
LEMMA PendingStep ==
    IssuanceInv /\ [IssuanceNext]_allVars => PendingSound' /\ AwaitedIsLast' /\ CleanIsAwaited'
<1> SUFFICES ASSUME IssuanceInv, [IssuanceNext]_allVars
             PROVE  PendingSound' /\ AwaitedIsLast' /\ CleanIsAwaited'
  OBVIOUS
<1> USE DEF IssuanceInv
<1>0. \A tx : Sound(tx) => Sound(tx)'
  BY SoundGrows
<1>1. mempool \in Seq(Txs) /\ Len(mempool) \in Nat /\ DOMAIN mempool = 1 .. Len(mempool)
  BY DEF IssuanceTypeOK
<1>2. ~waiting => \A i \in DOMAIN mempool : ~mempool[i].awaited
  BY DEF AwaitedIsLast
<1>3. CASE LocalStep
  <2>1. mempool' = mempool
    BY <1>3, LocalChain DEF ChainStays
  <2>2. PendingSound'
    BY <1>0, <2>1 DEF PendingSound
  <2>3. \/ UNCHANGED <<step, waiting, clean>>
        \/ ~waiting /\ clean' = clean
        \/ ~waiting /\ clean' = FALSE
    <3>1. ASSUME NEW p \in Powers, QueueLight(p)
          PROVE  UNCHANGED <<step, waiting, clean>>
      BY <3>1 DEF QueueLight
    <3>2. ASSUME NEW answered \in BOOLEAN, WrongSequence(answered) \/ Refused(answered)
          PROVE  ~waiting /\ clean' = FALSE
      BY <3>2 DEF WrongSequence, Refused, Failed
    <3>3. FirstQueryFails => ~waiting /\ clean' = FALSE
      BY DEF FirstQueryFails, Failed
    <3>4. QueueBurn \/ BlockCreator \/ QueueIssue => UNCHANGED <<step, waiting, clean>>
      BY DEF QueueBurn, BlockCreator, QueueIssue
    <3>5. UNCHANGED allVars => UNCHANGED <<step, waiting, clean>>
      BY DEF allVars, issuanceVars, bridgeVars
    <3>6. TakeTask => ~waiting /\ clean' = clean
      BY TakeFacts DEF WorkerInOrder
    <3>7. QED
      BY <1>3, <3>1, <3>2, <3>3, <3>4, <3>5, <3>6 DEF LocalStep
  <2>4. AwaitedIsLast'
    BY <1>2, <2>1, <2>3 DEF AwaitedIsLast
  <2>5. CleanIsAwaited'
    BY <2>1, <2>3 DEF CleanIsAwaited
  <2>6. QED
    BY <2>2, <2>4, <2>5
<1>4. CASE Submit
  <2> DEFINE n == Len(mempool) + 1
             tx == CurrentTx
  <2>1. /\ step # "idle" /\ ~waiting /\ waiting' = TRUE
        /\ UNCHANGED <<step, clean, created, height>>
        /\ tx \in Txs /\ mempool' = Append(mempool, tx)
    BY <1>4, SubmitFacts
  <2>2. /\ DOMAIN mempool' = 1 .. n /\ Len(mempool') = n
        /\ \A i \in DOMAIN mempool : mempool'[i] = mempool[i]
        /\ mempool'[n] = tx
        /\ \A i \in DOMAIN mempool' : i \in DOMAIN mempool \/ i = n
    BY <1>1, <2>1, PushFacts
  <2>3. tx.step = step /\ tx.awaited
    BY <2>1, CurrentFacts
  <2>4. Sound(tx)
    <3>1. step = "energy" => power \in Energies /\ power > 0
      <4>1. SUFFICES ASSUME step = "energy" PROVE power \in Energies /\ power > 0
        OBVIOUS
      <4>2. power \in Powers /\ power > 0 /\ power \in Int
        BY <4>1 DEF WorkerInOrder, IssuanceTypeOK
      <4>3. power \in Nat
        BY <4>2
      <4>4. QED
        BY <4>2, <4>3, IssuanceAssumption
    <3>2. step = "create" => recCount \in Nat /\ recCount > 0
      BY <1>4, SubmitFacts DEF IssuanceTypeOK
    <3>3. step = "append" => recID \in created /\ Earlier(recID)
      BY DEF WorkerInOrder
    <3>4. /\ tx.id = IF step = "append" THEN recID ELSE NoId
          /\ step = "create" => tx.amount = recCount
          /\ step = "energy" => tx.amount = power
      BY <2>1, CurrentFacts
    <3> HIDE DEF tx
    <3>5. QED
      BY <2>3, <3>1, <3>2, <3>3, <3>4 DEF Sound
  <2> HIDE DEF n, tx
  <2>5. PendingSound'
    BY <1>0, <2>2, <2>4 DEF PendingSound
  <2>6. AwaitedIsLast'
    BY <1>2, <2>1, <2>2, <2>3 DEF AwaitedIsLast
  <2>7. CleanIsAwaited'
    BY <2>1, <2>2, <2>3 DEF CleanIsAwaited
  <2>8. QED
    BY <2>5, <2>6, <2>7
<1>5. ASSUME clean' = FALSE,
             mempool' = [i \in DOMAIN mempool |-> [mempool[i] EXCEPT !.awaited = FALSE]]
      PROVE  PendingSound' /\ AwaitedIsLast' /\ CleanIsAwaited'
  <2>1. /\ DOMAIN mempool' = DOMAIN mempool
        /\ \A i \in DOMAIN mempool :
              /\ ~mempool'[i].awaited
              /\ mempool'[i].step = mempool[i].step
              /\ mempool'[i].amount = mempool[i].amount
              /\ mempool'[i].id = mempool[i].id
    BY <1>1, <1>5, UnawaitFacts
  <2>2. PendingSound'
    BY <1>0, <2>1 DEF PendingSound, Sound
  <2>3. QED
    BY <1>5, <2>1, <2>2 DEF AwaitedIsLast, CleanIsAwaited
<1>6. CASE ForeignTx
  <2> DEFINE tx == [step |-> "foreign", amount |-> 0, id |-> NoId, awaited |-> FALSE]
  <2>1. mempool' = <<tx>>
    BY <1>6 DEF ForeignTx
  <2>2. tx.step = "foreign" /\ tx.id = NoId /\ ~tx.awaited
    OBVIOUS
  <2> HIDE DEF tx
  <2>3. \A i \in DOMAIN mempool' : mempool'[i] = tx
    BY <2>1
  <2>4. QED
    BY <2>2, <2>3 DEF PendingSound, Sound, AwaitedIsLast, CleanIsAwaited
<1>7. CASE Deliver \/ \E answered \in BOOLEAN : DeliverFails(answered)
  <2>1. Commit
    BY <1>7 DEF Deliver, DeliverFails
  <2>2. /\ 1 \in DOMAIN mempool /\ Len(mempool') = Len(mempool) - 1
        /\ DOMAIN mempool' = 1 .. Len(mempool) - 1
        /\ \A i \in DOMAIN mempool' : mempool'[i] = mempool[i + 1] /\ i + 1 \in DOMAIN mempool
    BY <2>1, CommitFacts, PopFacts
  <2>3. PendingSound'
    BY <1>0, <2>2 DEF PendingSound
  <2>4. CASE mempool[1].awaited
    <3>1. Len(mempool) = 1
      BY <2>2, <2>4 DEF AwaitedIsLast
    <3>2. DOMAIN mempool' = {}
      BY <2>2, <3>1
    <3>3. QED
      BY <2>3, <3>2 DEF AwaitedIsLast, CleanIsAwaited
  <2>5. CASE ~mempool[1].awaited
    <3>1. UNCHANGED <<step, waiting, clean>>
      BY <1>7, <2>5, DeliverFacts, DeliverFailsFacts
    <3>2. AwaitedIsLast'
      <4>1. \A i \in DOMAIN mempool' : i + 1 = Len(mempool) => i = Len(mempool')
        BY <1>1, <2>2
      <4>2. QED
        BY <2>2, <3>1, <4>1 DEF AwaitedIsLast
    <3>3. CleanIsAwaited'
      BY <2>2, <3>1 DEF CleanIsAwaited
    <3>4. QED
      BY <2>3, <3>2, <3>3
  <2>6. QED
    BY <2>4, <2>5
<1>8. QED
  <2>1. ASSUME NEW answered \in BOOLEAN, Timeout(answered)
        PROVE  /\ clean' = FALSE
               /\ mempool' = [i \in DOMAIN mempool |-> [mempool[i] EXCEPT !.awaited = FALSE]]
    BY <2>1 DEF Timeout, Failed
  <2>2. Crash => /\ clean' = FALSE
                 /\ mempool' = [i \in DOMAIN mempool |-> [mempool[i] EXCEPT !.awaited = FALSE]]
    BY DEF Crash
  <2>3. QED
    BY <1>3, <1>4, <1>5, <1>6, <1>7, <2>1, <2>2, IssuanceCases

\* A bridge and a chain that have just started satisfy the invariant.
LEMMA IssuanceInvInit == IssuanceInit => IssuanceInv
<1> SUFFICES ASSUME IssuanceInit PROVE IssuanceInv
  OBVIOUS
<1>1. TypeOK
  BY EnergyAssumption DEF IssuanceInit, Init, TypeOK, EmptyFunction
<1>2. ChainTypeOK
  BY IssuanceAssumption DEF IssuanceInit, ChainTypeOK
<1>3. WorkerInOrder /\ PendingSound /\ AwaitedIsLast /\ CleanIsAwaited
  BY IssuanceAssumption
     DEF IssuanceInit, WorkerInOrder, PendingSound, AwaitedIsLast, CleanIsAwaited
<1>4. BridgeTypeOK
  <2>1. queue \in Seq(Tasks) /\ Len(queue) <= QueueCap /\ bounds \in [Events -> Nat]
    BY IssuanceAssumption DEF IssuanceInit
  <2>2. seqCache \in 0 .. SeqModulus - 1 /\ power \in Int /\ recCount \in Nat
        /\ stale \in Nat /\ disturbed \in Nat
    BY IssuanceAssumption DEF IssuanceInit
  <2>3. /\ creatorAt \in {"idle", "send"} /\ step \in Steps \cup {"idle"}
        /\ waiting \in BOOLEAN /\ cached \in BOOLEAN /\ clean \in BOOLEAN
        /\ recID \in RecIds \cup {NoId}
    BY DEF IssuanceInit
  <2>4. QED
    BY <2>1, <2>2, <2>3 DEF BridgeTypeOK
<1>5. QED
  BY <1>1, <1>2, <1>3, <1>4, TypeParts DEF IssuanceInv

\* The invariant holds in every state of the bridge and the chain.
THEOREM IssuanceInvHolds == IssuanceSpec => []IssuanceInv
<1>1. IssuanceInv /\ [IssuanceNext]_allVars => IssuanceInv'
  BY IssuanceTypeStep, WorkerStep, PendingStep DEF IssuanceInv
<1>2. QED
  BY <1>1, IssuanceInvInit, PTL DEF IssuanceSpec

\* The bridge, its cache and the chain keep the ranges of their state, the
\* sequences below their modulus and TxQueue within its capacity.
THEOREM IssuanceTypeCorrect == IssuanceSpec => []IssuanceTypeOK
<1>1. IssuanceInv => IssuanceTypeOK
  BY DEF IssuanceInv
<1>2. QED
  BY <1>1, IssuanceInvHolds, PTL

\* The bridge drives the energy book only through its messages, with positive
\* energy and rec ids the chain created: what holds of EnergyLedger for every
\* client holds of it here.
THEOREM IssuanceImplementsLedger == IssuanceSpec => Spec
<1>1. IssuanceInit => Init
  BY DEF IssuanceInit
<1>2. QED
  BY <1>1, LedgerStep, IssuanceInvHolds, PTL DEF IssuanceSpec, Spec

-----------------------------------------------------------------------------
(* RECs announced and RECs asked for *)

\* What a transaction adds to the RECs announced so far.
LEMMA ExecuteAnnounces ==
    ASSUME IssuanceTypeOK, NEW tx \in Txs, Execute(tx)
    PROVE  LET recs == Counted(totalEnergy + tx.amount) IN
           /\ recs \in Nat
           /\ authorised' = authorised + IF tx.step = "energy" THEN recs ELSE 0
<1>1. Counted(totalEnergy + tx.amount) \in Nat
  <2>1. totalEnergy + tx.amount \in Int
    BY DEF IssuanceTypeOK, TypeOK, Txs
  <2>2. QED
    BY <2>1, ResidueFacts
<1>2. authorised \in Nat
  BY DEF IssuanceTypeOK, TypeOK
<1>3. CASE tx.step = "energy"
  BY <1>1, <1>3 DEF Execute, AddEnergy
<1>4. CASE tx.step # "energy"
  <2>1. authorised' = authorised
    BY <1>4 DEF Execute, AppendTxNode, vars, historyVars
  <2>2. QED
    BY <1>1, <1>2, <1>4, <2>1
<1>5. QED
  BY <1>3, <1>4

\* A failed submission spends or loses RECs, never finds any.
LEMMA FailedUnspent ==
    ASSUME IssuanceTypeOK, Failed
    PROVE  Unspent' \in Nat /\ Unspent \in Nat /\ Unspent' <= Unspent
  BY DEF IssuanceTypeOK, Failed, Unspent, Steps

\* The two sides of the RECs' account: nothing is asked for that was not
\* announced, and, while nothing failed, nothing announced is lost.
LEMMA BalanceStep ==
    ASSUME IssuanceInv, NeverOverRequested, NothingLostWhileClean, [IssuanceNext]_allVars
    PROVE  NeverOverRequested' /\ NothingLostWhileClean'
<1> USE DEF IssuanceInv
<1>0. requested \in Nat /\ authorised \in Nat /\ recCount \in Nat /\ Unspent \in Nat
  BY DEF IssuanceTypeOK, TypeOK, Unspent
<1>1. ASSUME Failed, UNCHANGED <<authorised, requested>>
      PROVE  NeverOverRequested' /\ NothingLostWhileClean'
  <2>1. Unspent' \in Nat /\ Unspent' <= Unspent
    BY <1>1, FailedUnspent
  <2>2. ~clean'
    BY <1>1 DEF Failed
  <2>3. requested' + Unspent' <= authorised'
    <3>1. requested' = requested /\ authorised' = authorised
      BY <1>1
    <3>2. requested + Unspent <= authorised
      BY DEF NeverOverRequested
    <3>3. \A r, u, v, a \in Nat : r + u <= a /\ v <= u => r + v <= a
      OBVIOUS
    <3>4. QED
      BY <1>0, <2>1, <3>1, <3>2, <3>3
  <2>4. QED
    BY <2>2, <2>3 DEF NeverOverRequested, NothingLostWhileClean
<1>2. ASSUME UNCHANGED <<authorised, requested, clean>>, Unspent' = Unspent
      PROVE  NeverOverRequested' /\ NothingLostWhileClean'
  BY <1>2 DEF NeverOverRequested, NothingLostWhileClean
<1>3. CASE LocalStep
  <2>1. UNCHANGED <<authorised, requested>>
    BY <1>3, LocalChain DEF ChainStays, vars, historyVars
  <2>2. CASE UNCHANGED <<step, waiting, recCount, clean>>
    BY <1>2, <2>1, <2>2 DEF Unspent
  <2>3. CASE TakeTask
    <3>1. /\ step = "idle" /\ step' \in {"idle", "reward", "create", "burn"} /\ ~waiting
          /\ UNCHANGED <<waiting, recCount, clean>>
      BY <2>3, TakeFacts DEF WorkerInOrder
    <3>2. QED
      BY <1>2, <2>1, <3>1 DEF Unspent
  <2>4. QED
    <3>1. ASSUME NEW p \in Powers, QueueLight(p)
          PROVE  UNCHANGED <<step, waiting, recCount, clean>>
      BY <3>1 DEF QueueLight
    <3>2. ASSUME NEW answered \in BOOLEAN, WrongSequence(answered) \/ Refused(answered)
          PROVE  Failed
      BY <3>2 DEF WrongSequence, Refused
    <3>3. FirstQueryFails => Failed
      BY DEF FirstQueryFails
    <3>4. QueueBurn \/ BlockCreator \/ QueueIssue => UNCHANGED <<step, waiting, recCount, clean>>
      BY DEF QueueBurn, BlockCreator, QueueIssue
    <3>5. UNCHANGED allVars => UNCHANGED <<step, waiting, recCount, clean>>
      BY DEF allVars, issuanceVars, bridgeVars
    <3>6. QED
      BY <1>1, <1>3, <2>1, <2>2, <2>3, <3>1, <3>2, <3>3, <3>4, <3>5 DEF LocalStep
<1>4. CASE Submit
  <2>1. /\ ~waiting /\ waiting' = TRUE /\ UNCHANGED <<step, recCount, clean, vars>>
        /\ requested' = requested + IF step = "create" THEN recCount ELSE 0
    BY <1>4, SubmitFacts
  <2>2. authorised' = authorised
    BY <2>1 DEF vars, historyVars
  <2>3. requested' + Unspent' = requested + Unspent
    <3>1. CASE step = "create"
      <4>1. Unspent = recCount /\ Unspent' = 0 /\ requested' = requested + recCount
        BY <2>1, <3>1 DEF Unspent
      <4>2. QED
        BY <1>0, <4>1
    <3>2. CASE step # "create"
      <4>1. Unspent' = Unspent /\ requested' = requested + 0
        BY <2>1, <3>2 DEF Unspent
      <4>2. QED
        BY <1>0, <4>1
    <3>3. QED
      BY <3>1, <3>2
  <2>4. QED
    BY <2>1, <2>2, <2>3 DEF NeverOverRequested, NothingLostWhileClean
<1>5. ASSUME NEW answered \in BOOLEAN, Timeout(answered)
      PROVE  NeverOverRequested' /\ NothingLostWhileClean'
  <2>1. Failed /\ UNCHANGED <<authorised, requested>>
    BY <1>5, TimeoutFacts DEF vars, historyVars
  <2>2. QED
    BY <1>1, <2>1
<1>6. CASE ForeignTx
  BY <1>2, <1>6 DEF ForeignTx, bridgeVars, vars, historyVars, Unspent
<1>7. CASE Deliver
  <2> DEFINE tx == mempool[1]
             recs == Counted(totalEnergy + tx.amount)
             overwrites == recs > 0 => recCount = 0
  <2>1. Commit /\ Execute(tx) /\ tx \in Txs /\ UNCHANGED requested
    BY <1>7, DeliverFacts, CommitFacts, PopFacts
  <2>2. recs \in Nat /\ authorised' = authorised + IF tx.step = "energy" THEN recs ELSE 0
    BY <2>1, ExecuteAnnounces
  <2>3. CASE tx.awaited
    <3>1. Succeeded(tx) /\ tx.step = step /\ waiting
      BY <1>7, <2>3, DeliverFacts
    <3>2. CASE step = "energy"
      <4>1. /\ step' = "idle" /\ recCount' = (IF recs > 0 THEN recs ELSE recCount)
            /\ clean' = (clean /\ overwrites)
        BY <3>1, <3>2 DEF Succeeded
      <4>2. clean' => clean /\ overwrites
        BY <4>1, Zenon
      <4> HIDE DEF recs
      <4>3. Unspent = recCount /\ Unspent' = recCount'
        BY <3>2, <4>1 DEF Unspent
      <4>4. NeverOverRequested'
        BY <1>0, <2>1, <2>2, <3>1, <3>2, <4>1, <4>3 DEF NeverOverRequested
      <4>5. NothingLostWhileClean'
        BY <1>0, <2>1, <2>2, <3>1, <3>2, <4>1, <4>2, <4>3 DEF NothingLostWhileClean
      <4>6. QED
        BY <4>4, <4>5
    <3>3. CASE step # "energy"
      <4>1. UNCHANGED <<authorised, clean>>
        BY <1>0, <2>2, <3>1, <3>3 DEF Succeeded
      <4>2. Unspent' = Unspent
        BY <3>1, <3>3 DEF Succeeded, Unspent
      <4>3. QED
        BY <1>2, <2>1, <4>1, <4>2
    <3>4. QED
      BY <3>2, <3>3
  <2>4. CASE ~tx.awaited
    <3>1. UNCHANGED <<step, waiting, recCount, clean>>
      BY <1>7, <2>4, DeliverFacts
    <3>2. Unspent' = Unspent
      BY <3>1 DEF Unspent
    <3>3. authorised' \in Nat /\ authorised <= authorised'
      BY <1>0, <2>2
    <3>4. NeverOverRequested'
      BY <1>0, <2>1, <3>2, <3>3 DEF NeverOverRequested
    <3>5. 1 \in DOMAIN mempool
      BY <2>1, CommitFacts, PopFacts
    <3>6. clean => tx.step = "foreign"
      BY <2>4, <3>5 DEF CleanIsAwaited
    <3>7. clean => authorised' = authorised
      BY <1>0, <2>2, <3>6
    <3>8. NothingLostWhileClean'
      BY <2>1, <3>1, <3>2, <3>7 DEF NothingLostWhileClean
    <3>9. QED
      BY <3>4, <3>8
  <2>5. QED
    BY <2>3, <2>4
<1>8. ASSUME NEW answered \in BOOLEAN, DeliverFails(answered)
      PROVE  NeverOverRequested' /\ NothingLostWhileClean'
  <2>1. Commit /\ UNCHANGED authorised
    BY <1>8, DeliverFailsFacts DEF vars, historyVars
  <2>2. UNCHANGED requested
    BY <2>1, CommitFacts
  <2>3. CASE mempool[1].awaited
    BY <1>1, <1>8, <2>1, <2>2, <2>3, DeliverFailsFacts
  <2>4. CASE ~mempool[1].awaited
    <3>1. UNCHANGED <<step, waiting, recCount, clean>>
      BY <1>8, <2>4, DeliverFailsFacts
    <3>2. QED
      BY <1>2, <2>1, <2>2, <3>1 DEF Unspent
  <2>5. QED
    BY <2>3, <2>4
<1>9. CASE Crash
  <2>1. /\ step' = "idle" /\ recCount' = 0 /\ clean' = FALSE
        /\ UNCHANGED <<authorised, requested>>
    BY <1>9 DEF Crash, vars, historyVars
  <2>2. Unspent' = 0
    BY <2>1 DEF Unspent
  <2>3. QED
    BY <1>0, <2>1, <2>2 DEF NeverOverRequested, NothingLostWhileClean
<1>10. QED
  BY <1>3, <1>4, <1>5, <1>6, <1>7, <1>8, <1>9, IssuanceCases

\* The two together, with the invariant they need.
LEMMA BalanceHolds == IssuanceSpec => [](NeverOverRequested /\ NothingLostWhileClean)
<1>1. IssuanceInit => NeverOverRequested /\ NothingLostWhileClean
  BY DEF IssuanceInit, Init, NeverOverRequested, NothingLostWhileClean, Unspent
<1>2. IssuanceInv /\ (NeverOverRequested /\ NothingLostWhileClean) /\ [IssuanceNext]_allVars
         => (NeverOverRequested /\ NothingLostWhileClean)'
  BY BalanceStep
<1>3. QED
  BY <1>1, <1>2, IssuanceInvHolds, PTL DEF IssuanceSpec

\* The bridge never asks for more RECs than AddEnergy announced, through any
\* repeated block creator messages, overwritten counts, timeouts, failures and
\* restarts.
THEOREM NeverOverRequestedHolds == IssuanceSpec => []NeverOverRequested
  BY BalanceHolds, PTL

\* Until a submission fails, the bridge dies or a count is overwritten, every
\* announced REC is created, about to be created or still counted.
THEOREM NothingLostHolds == IssuanceSpec => []NothingLostWhileClean
  BY BalanceHolds, PTL

-----------------------------------------------------------------------------
(* RECs on the chain *)

\* The RECs a pending transaction will create.
Cost(tx) == IF tx.step = "create" THEN tx.amount ELSE 0

\* f adds up the RECs on the chain and those of the pending creates, oldest
\* first, and never exceeds what was asked for.
PartialSums(f) ==
    /\ f \in [0 .. Len(mempool) -> Nat]
    /\ Cardinality(created) <= f[0]
    /\ \A i \in 1 .. Len(mempool) : f[i] = f[i - 1] + Cost(mempool[i])
    /\ \A i \in 0 .. Len(mempool) : f[i] <= requested

RecsRequested == IsFiniteSet(created) /\ \E f : PartialSums(f)

\* Reports are positive, so the remainder is not negative.
RemainderIsEnergy == totalEnergy >= 0

\* A create of n RECs adds at most n to the chain's.
LEMMA CreatedGrows ==
    ASSUME NEW h \in Nat, NEW n \in Nat, NEW S, IsFiniteSet(S)
    PROVE  LET T == S \cup {<<h, i>> : i \in 0 .. (n - 1)}
           IN  IsFiniteSet(T) /\ Cardinality(T) <= Cardinality(S) + n
<1> DEFINE D == 0 .. (n - 1)
           N == {<<h, i>> : i \in D}
           F == [i \in D |-> <<h, i>>]
<1>1. IsFiniteSet(D) /\ Cardinality(D) = n
  <2>1. 0 \in Int /\ n - 1 \in Int
    OBVIOUS
  <2>2. /\ IsFiniteSet(D)
        /\ Cardinality(D) = IF 0 > n - 1 THEN 0 ELSE (n - 1) - 0 + 1
    BY <2>1, FS_Interval
  <2>3. QED
    BY <2>2
<1>2. F \in Surjection(D, N)
  BY DEF Surjection
<1>3. IsFiniteSet(N) /\ Cardinality(N) <= Cardinality(D)
  BY <1>1, <1>2, FS_Surjection
<1> HIDE DEF D, N, F
<1>4. /\ IsFiniteSet(S \cup N)
      /\ Cardinality(S \cup N) = Cardinality(S) + Cardinality(N) - Cardinality(S \cap N)
  BY <1>3, FS_Union
<1>5. IsFiniteSet(S \cap N)
  BY <1>3, FS_Intersection
<1>6. /\ Cardinality(S) \in Nat /\ Cardinality(N) \in Nat /\ Cardinality(S \cap N) \in Nat
  BY <1>3, <1>5, FS_CardinalityType
<1>7. QED
  BY <1>1, <1>3, <1>4, <1>6 DEF D, N

\* The cost of a transaction is a number.
LEMMA CostType == ASSUME NEW tx \in Txs, Sound(tx) PROVE Cost(tx) \in Nat
  BY DEF Cost, Sound

\* Whatever a block's transaction does, it leaves no more RECs on the chain than
\* it asked for.
LEMMA CommitRecs ==
    ASSUME IssuanceInv, RecsRequested, Deliver \/ \E answered \in BOOLEAN : DeliverFails(answered)
    PROVE  /\ IsFiniteSet(created')
           /\ Cardinality(created') <= Cardinality(created) + Cost(mempool[1])
           /\ Cardinality(created) \in Nat /\ Cost(mempool[1]) \in Nat
           /\ Cardinality(created') \in Nat
<1> USE DEF IssuanceInv
<1>0. IsFiniteSet(created) /\ Cardinality(created) \in Nat
  BY FS_CardinalityType DEF RecsRequested
<1>1. Commit
  BY DEF Deliver, DeliverFails
<1>2. mempool[1] \in Txs /\ 1 \in DOMAIN mempool
  BY <1>1, CommitFacts, PopFacts
<1>3. Cost(mempool[1]) \in Nat
  BY <1>2, CostType DEF PendingSound
<1>4. CASE created' = created
  BY <1>0, <1>3, <1>4
<1>5. CASE Deliver /\ mempool[1].step = "create"
  <2>1. Execute(mempool[1])
    BY <1>5, DeliverFacts
  <2>2. created' = created \cup {<<height, i>> : i \in 0 .. (mempool[1].amount - 1)}
    BY <1>5, <2>1 DEF Execute
  <2>3. mempool[1].amount = Cost(mempool[1])
    BY <1>5 DEF Cost
  <2>4. height \in Nat
    BY DEF IssuanceTypeOK
  <2>5. IsFiniteSet(created') /\ Cardinality(created') <= Cardinality(created) + Cost(mempool[1])
    BY <1>0, <1>3, <2>2, <2>3, <2>4, CreatedGrows
  <2>6. QED
    BY <1>0, <1>3, <2>5, FS_CardinalityType
<1>6. QED
  <2>1. ASSUME NEW answered \in BOOLEAN, DeliverFails(answered)
        PROVE  created' = created
    BY <2>1 DEF DeliverFails
  <2>2. Deliver => Execute(mempool[1]) /\ height <= MaxHeight
    BY DeliverFacts, CommitFacts
  <2>3. Deliver /\ mempool[1].step # "create" => created' = created
    BY <1>2, <2>2, ExecuteFacts DEF PendingSound
  <2>4. QED
    BY <1>4, <1>5, <2>1, <2>3

\* The RECs on the chain and in pending creates stay covered by requests.
LEMMA RequestedStep ==
    ASSUME IssuanceInv, RecsRequested, [IssuanceNext]_allVars
    PROVE  RecsRequested'
<1> USE DEF IssuanceInv
<1> DEFINE n == Len(mempool)
<1>0. /\ mempool \in Seq(Txs) /\ n \in Nat /\ DOMAIN mempool = 1 .. n /\ requested \in Nat
      /\ IsFiniteSet(created) /\ Cardinality(created) \in Nat
  BY FS_CardinalityType DEF IssuanceTypeOK, RecsRequested
<1>1. PICK f : PartialSums(f)
  BY DEF RecsRequested
<1>2. /\ f \in [0 .. n -> Nat] /\ Cardinality(created) <= f[0]
      /\ \A i \in 1 .. n : f[i] = f[i - 1] + Cost(mempool[i])
      /\ \A i \in 0 .. n : f[i] <= requested
  BY <1>1 DEF PartialSums
<1>3. ASSUME created' = created, requested' = requested,
             Len(mempool') = n, \A i \in 1 .. n : Cost(mempool'[i]) = Cost(mempool[i])
      PROVE  RecsRequested'
  <2>1. PartialSums(f)'
    BY <1>2, <1>3 DEF PartialSums
  <2>2. QED
    BY <1>0, <1>3, <2>1 DEF RecsRequested
<1> HIDE DEF n
<1>4. CASE LocalStep
  BY <1>3, <1>4, LocalChain DEF ChainStays, n
<1>5. CASE Submit
  <2> DEFINE tx == CurrentTx
             g == [i \in 0 .. n + 1 |-> IF i = n + 1 THEN f[n] + Cost(tx) ELSE f[i]]
  <2>1. /\ tx \in Txs /\ mempool' = Append(mempool, tx) /\ created' = created
        /\ step # "idle"
        /\ requested' = requested + IF step = "create" THEN recCount ELSE 0
    BY <1>5, SubmitFacts
  <2>2. /\ tx.step = step
        /\ step = "create" => tx.amount = recCount
    BY <2>1, CurrentFacts
  <2>3. Len(mempool') = n + 1 /\ mempool'[n + 1] = tx
        /\ \A i \in 1 .. n : mempool'[i] = mempool[i]
    BY <1>0, <2>1, PushFacts DEF n
  <2>4. recCount \in Nat
    BY DEF IssuanceTypeOK
  <2> HIDE DEF tx
  <2>5. Cost(tx) \in Nat /\ requested' = requested + Cost(tx)
    BY <1>0, <2>1, <2>2, <2>4 DEF Cost
  <2>6. f[n] \in Nat /\ n \in 0 .. n
    BY <1>0, <1>2
  <2>7. /\ g \in [0 .. n + 1 -> Nat]
        /\ g[n + 1] = f[n] + Cost(tx)
        /\ \A i \in 0 .. n : g[i] = f[i]
    BY <1>0, <1>2, <2>5, <2>6
  <2> HIDE DEF g
  <2>8. \A i \in 1 .. n + 1 : g[i] = g[i - 1] + Cost(mempool'[i])
    <3>1. SUFFICES ASSUME NEW i \in 1 .. n + 1
                   PROVE  g[i] = g[i - 1] + Cost(mempool'[i])
      OBVIOUS
    <3>2. CASE i = n + 1
      <4>1. g[i - 1] = f[n] /\ mempool'[i] = tx
        BY <1>0, <2>3, <2>6, <2>7, <3>2
      <4>2. QED
        BY <2>7, <3>2, <4>1
    <3>3. CASE i # n + 1
      <4>1. i \in 1 .. n /\ i \in 0 .. n /\ i - 1 \in 0 .. n
        BY <1>0, <3>3
      <4>2. QED
        BY <1>2, <2>3, <2>7, <4>1
    <3>4. QED
      BY <3>2, <3>3
  <2>9. \A i \in 0 .. n + 1 : g[i] <= requested'
    <3>1. SUFFICES ASSUME NEW i \in 0 .. n + 1
                   PROVE  g[i] <= requested'
      OBVIOUS
    <3>2. CASE i = n + 1
      BY <1>0, <1>2, <2>5, <2>6, <2>7, <3>2
    <3>3. CASE i # n + 1
      <4>1. i \in 0 .. n
        BY <1>0, <3>3
      <4>2. f[i] \in Nat /\ f[i] <= requested /\ g[i] = f[i]
        BY <1>2, <2>7, <4>1
      <4>3. QED
        BY <1>0, <2>5, <4>2
    <3>4. QED
      BY <3>2, <3>3
  <2>10. 0 \in 0 .. n
    BY <1>0
  <2>11. \A h : h = g => PartialSums(h)'
    BY <1>2, <2>1, <2>3, <2>7, <2>8, <2>9, <2>10 DEF PartialSums
  <2>12. QED
    BY <1>0, <2>1, <2>11 DEF RecsRequested
<1>6. ASSUME created' = created, requested' = requested,
             mempool' = [i \in DOMAIN mempool |-> [mempool[i] EXCEPT !.awaited = FALSE]]
      PROVE  RecsRequested'
  <2>1. /\ Len(mempool') = n
        /\ \A i \in 1 .. n : /\ mempool'[i].step = mempool[i].step
                             /\ mempool'[i].amount = mempool[i].amount
    BY <1>0, <1>6, UnawaitFacts DEF n
  <2>2. QED
    BY <1>3, <1>6, <2>1 DEF Cost, n
<1>7. CASE ForeignTx
  <2> DEFINE tx == [step |-> "foreign", amount |-> 0, id |-> NoId, awaited |-> FALSE]
             g == [i \in 0 .. 1 |-> f[0]]
  <2>1. mempool = <<>> /\ mempool' = <<tx>> /\ UNCHANGED <<created, requested>>
    BY <1>7 DEF ForeignTx
  <2>2. Cost(tx) = 0
    BY DEF Cost
  <2> HIDE DEF tx
  <2>3. Len(mempool') = 1 /\ mempool'[1] = tx
    BY <2>1
  <2>4. f[0] \in Nat /\ f[0] <= requested
    BY <1>0, <1>2
  <2>5. PartialSums(g)'
    <3>1. g \in [0 .. 1 -> Nat] /\ g[0] = f[0] /\ g[1] = f[0]
      BY <2>4
    <3> HIDE DEF g
    <3>2. \A i \in 1 .. 1 : g[i] = g[i - 1] + Cost(mempool'[i])
      <4>1. \A i \in 1 .. 1 : i = 1 /\ i - 1 = 0
        OBVIOUS
      <4>2. QED
        BY <2>2, <2>3, <2>4, <3>1, <4>1
    <3>3. \A i \in 0 .. 1 : g[i] <= requested'
      <4>1. \A i \in 0 .. 1 : i = 0 \/ i = 1
        OBVIOUS
      <4>2. QED
        BY <2>1, <2>4, <3>1, <4>1
    <3>4. QED
      BY <1>2, <2>1, <2>3, <3>1, <3>2, <3>3 DEF PartialSums
  <2>6. QED
    BY <1>0, <2>1, <2>5 DEF RecsRequested
<1>8. CASE Deliver \/ \E answered \in BOOLEAN : DeliverFails(answered)
  <2> DEFINE g == [i \in 0 .. n - 1 |-> f[i + 1]]
  <2>1. Commit
    BY <1>8 DEF Deliver, DeliverFails
  <2>2. /\ Len(mempool') = n - 1 /\ n > 0 /\ requested' = requested
        /\ \A i \in 1 .. n - 1 : mempool'[i] = mempool[i + 1]
    BY <2>1, CommitFacts, PopFacts DEF n
  <2>3. /\ IsFiniteSet(created') /\ Cardinality(created') \in Nat
        /\ Cardinality(created') <= Cardinality(created) + Cost(mempool[1])
        /\ Cost(mempool[1]) \in Nat
    BY <1>8, CommitRecs
  <2>4. /\ g \in [0 .. n - 1 -> Nat]
        /\ \A i \in 0 .. n - 1 : g[i] = f[i + 1] /\ i + 1 \in 1 .. n
    BY <1>0, <1>2, <2>2
  <2> HIDE DEF g
  <2>5. Cardinality(created') <= g[0]
    <3>1. g[0] = f[1] /\ f[0] \in Nat /\ f[1] = f[0] + Cost(mempool[1])
      <4>1. 0 \in 0 .. n - 1 /\ 1 \in 1 .. n /\ 0 \in 0 .. n /\ 1 - 1 = 0 /\ 0 + 1 = 1
        BY <1>0, <2>2
      <4>2. QED
        BY <1>2, <2>4, <4>1
    <3>2. QED
      BY <1>0, <1>2, <2>3, <3>1
  <2>6. \A i \in 1 .. n - 1 : g[i] = g[i - 1] + Cost(mempool'[i])
    <3>1. SUFFICES ASSUME NEW i \in 1 .. n - 1
                   PROVE  g[i] = g[i - 1] + Cost(mempool'[i])
      OBVIOUS
    <3>2. i \in 0 .. n - 1 /\ i - 1 \in 0 .. n - 1 /\ i + 1 \in 1 .. n
          /\ (i + 1) - 1 = i /\ (i - 1) + 1 = i
      BY <1>0, <2>2
    <3>3. g[i] = f[i + 1] /\ g[i - 1] = f[i]
      BY <2>4, <3>2
    <3>4. f[i + 1] = f[i] + Cost(mempool[i + 1])
      BY <1>2, <3>2
    <3>5. QED
      BY <2>2, <3>3, <3>4
  <2>7. \A i \in 0 .. n - 1 : g[i] <= requested'
    <3>1. \A i \in 0 .. n - 1 : i + 1 \in 0 .. n
      BY <1>0, <2>2
    <3>2. QED
      BY <1>2, <2>2, <2>4, <3>1
  <2>8. \A h : h = g => PartialSums(h)'
    BY <2>2, <2>4, <2>5, <2>6, <2>7 DEF PartialSums
  <2>9. QED
    BY <2>3, <2>8 DEF RecsRequested
<1>9. QED
  <2>1. ASSUME NEW answered \in BOOLEAN, Timeout(answered)
        PROVE  /\ UNCHANGED <<created, requested>>
               /\ mempool' = [i \in DOMAIN mempool |-> [mempool[i] EXCEPT !.awaited = FALSE]]
    BY <2>1 DEF Timeout
  <2>2. Crash => /\ UNCHANGED <<created, requested>>
                 /\ mempool' = [i \in DOMAIN mempool |-> [mempool[i] EXCEPT !.awaited = FALSE]]
    BY DEF Crash
  <2>3. QED
    BY <1>4, <1>5, <1>6, <1>7, <1>8, <2>1, <2>2, IssuanceCases

\* What is left of a positive total after whole RECs is not negative.
LEMMA ResidueOfPositive ==
    ASSUME NEW total \in Nat
    PROVE  Residue(total) >= 0
<1>1. OneREC \in Nat \ {0}
  BY EnergyAssumption
<1>2. (total \div OneREC) \in Nat /\ (total \div OneREC) * OneREC <= total
  BY <1>1, QuotientRemainder
<1>3. WholeRECs(total) = total \div OneREC
  BY DEF WholeRECs
<1> DEFINE q == total \div OneREC
<1> HIDE DEF q
<1>4. q * OneREC \in Int /\ q * OneREC <= total /\ WholeRECs(total) = q
  BY <1>1, <1>2, <1>3 DEF q
<1>5. QED
  BY <1>4 DEF Residue

\* The bridge reports positive energy only.
LEMMA RemainderStep ==
    ASSUME IssuanceInv, RemainderIsEnergy, [IssuanceNext]_allVars
    PROVE  RemainderIsEnergy'
<1> USE DEF IssuanceInv
<1>1. CASE totalEnergy' = totalEnergy
  BY <1>1 DEF RemainderIsEnergy
<1>2. CASE Deliver
  <2>1. Commit /\ Execute(mempool[1])
    BY <1>2, DeliverFacts
  <2>2. mempool[1] \in Txs /\ 1 \in DOMAIN mempool
    BY <2>1, CommitFacts, PopFacts
  <2>3. CASE mempool[1].step = "energy"
    <3>1. totalEnergy' = Residue(totalEnergy + mempool[1].amount)
      BY <2>1, <2>3 DEF Execute, AddEnergy
    <3>2. mempool[1].amount \in Int /\ mempool[1].amount > 0
      BY <2>2, <2>3 DEF PendingSound, Sound, Txs
    <3>3. totalEnergy + mempool[1].amount \in Nat
      BY <3>2 DEF RemainderIsEnergy, IssuanceTypeOK, TypeOK
    <3>4. QED
      BY <3>1, <3>3, ResidueOfPositive DEF RemainderIsEnergy
  <2>4. CASE mempool[1].step # "energy"
    BY <1>1, <2>1, <2>4 DEF Execute, AppendTxNode, ResetEnergyStore, vars, ledgerVars
  <2>5. QED
    BY <2>3, <2>4
<1>3. QED
  <2>1. LocalStep => totalEnergy' = totalEnergy
    BY LocalChain DEF ChainStays, vars, ledgerVars
  <2>2. Submit \/ ForeignTx \/ Crash => totalEnergy' = totalEnergy
    BY DEF Submit, ForeignTx, Crash, vars, ledgerVars
  <2>3. ASSUME NEW answered \in BOOLEAN, Timeout(answered) \/ DeliverFails(answered)
        PROVE  totalEnergy' = totalEnergy
    BY <2>3 DEF Timeout, DeliverFails, vars, ledgerVars
  <2>4. QED
    BY <1>1, <1>2, <2>1, <2>2, <2>3, IssuanceCases

\* Products keep order.
LEMMA TimesMonotone ==
    ASSUME NEW a \in Nat, NEW b \in Nat, NEW c \in Nat, a <= b
    PROVE  a * c \in Nat /\ b * c \in Nat /\ a * c <= b * c
  BY SMT

\* RECs on the chain, RECs asked for, RECs announced and energy are in that
\* order, one OneREC each.
LEMMA CoveredByEnergy ==
    ASSUME IssuanceTypeOK, RecsRequested, RemainderIsEnergy, NeverOverRequested, EnergyConserved
    PROVE  RecsCoveredByEnergy
<1>1. /\ authorised \in Nat /\ OneREC \in Nat /\ totalEnergy \in Int /\ energyIn \in Int
      /\ requested \in Nat /\ Unspent \in Nat
  BY EnergyAssumption DEF IssuanceTypeOK, TypeOK, Unspent
<1>2. Cardinality(created) \in Nat
  BY FS_CardinalityType DEF RecsRequested
<1>3. Cardinality(created) <= requested
  <2>1. PICK f : PartialSums(f)
    BY DEF RecsRequested
  <2>2. Len(mempool) \in Nat
    BY DEF IssuanceTypeOK
  <2>3. 0 \in 0 .. Len(mempool)
    BY <2>2
  <2>4. f[0] \in Nat /\ f[0] <= requested /\ Cardinality(created) <= f[0]
    BY <2>1, <2>3 DEF PartialSums
  <2>5. QED
    BY <1>1, <1>2, <2>4
<1>4. requested <= authorised
  BY <1>1 DEF NeverOverRequested
<1>5. Cardinality(created) <= authorised
  BY <1>1, <1>2, <1>3, <1>4
<1>6. /\ Cardinality(created) * OneREC <= authorised * OneREC
      /\ Cardinality(created) * OneREC \in Nat /\ authorised * OneREC \in Nat
  BY <1>1, <1>2, <1>5, TimesMonotone
<1> DEFINE a == authorised * OneREC
           c == Cardinality(created) * OneREC
<1>7. energyIn = totalEnergy + a /\ totalEnergy >= 0 /\ c <= a /\ c \in Nat /\ a \in Nat
  BY <1>6 DEF EnergyConserved, RemainderIsEnergy
<1> HIDE DEF a, c
<1>8. c <= energyIn
  BY <1>1, <1>7
<1>9. QED
  BY <1>8 DEF RecsCoveredByEnergy, c

\* Every REC on the chain stands for OneREC of reported energy, whatever failed,
\* was repeated or committed late on the way.
THEOREM RecsCoveredHolds == IssuanceSpec => []RecsCoveredByEnergy
<1>1. IssuanceInit => RecsRequested /\ RemainderIsEnergy
  <2> SUFFICES ASSUME IssuanceInit PROVE RecsRequested /\ RemainderIsEnergy
    OBVIOUS
  <2>1. created = {} /\ mempool = <<>> /\ requested = 0 /\ totalEnergy = 0
    BY DEF IssuanceInit, Init
  <2>2. IsFiniteSet(created) /\ Cardinality(created) = 0
    BY <2>1, FS_EmptySet
  <2> DEFINE g == [i \in 0 .. 0 |-> 0]
  <2>3. Len(mempool) = 0
    BY <2>1
  <2>4. PartialSums(g)
    BY <2>1, <2>2, <2>3 DEF PartialSums
  <2>5. QED
    BY <2>1, <2>2, <2>4 DEF RecsRequested, RemainderIsEnergy
<1>2. IssuanceInv /\ (RecsRequested /\ RemainderIsEnergy) /\ [IssuanceNext]_allVars
         => (RecsRequested /\ RemainderIsEnergy)'
  BY RequestedStep, RemainderStep
<1>3. IssuanceSpec => [](RecsRequested /\ RemainderIsEnergy)
  BY <1>1, <1>2, IssuanceInvHolds, PTL DEF IssuanceSpec
<1>4. IssuanceSpec => []EnergyConserved
  BY IssuanceImplementsLedger, NoEnergyLost, PTL
<1>5. IssuanceInv /\ (RecsRequested /\ RemainderIsEnergy) /\ NeverOverRequested /\ EnergyConserved
         => RecsCoveredByEnergy
  BY CoveredByEnergy DEF IssuanceInv
<1>6. QED
  BY <1>3, <1>4, <1>5, IssuanceInvHolds, NeverOverRequestedHolds, PTL

-----------------------------------------------------------------------------
(* The guessed sequence *)

\* The cache is in step with the chain: the next submission will use the
\* sequence the chain expects, or the one that used it is all that is pending.
InStep ==
    \/ mempool = <<>> /\ (cached => (seqCache + 1) % SeqModulus = chainSeq)
    \/ Len(mempool) = 1 /\ mempool[1].awaited /\ seqCache = chainSeq

\* The cache is out of step only after a disturbance not paid for yet.
SequenceInv ==
    /\ stale <= disturbed
    /\ stale = disturbed => InStep

\* One less than the committed sequence and one more is the committed sequence,
\* around the end of uint64 too.
LEMMA DownAndUp ==
    ASSUME NEW x \in 0 .. SeqModulus - 1
    PROVE  /\ x % SeqModulus = x
           /\ (((x - 1) % SeqModulus) + 1) % SeqModulus = x
<1>1. SeqModulus \in Nat /\ SeqModulus > 0 /\ x \in Int
  BY IssuanceAssumption
<1>2. x % SeqModulus = x
  BY <1>1
<1>3. CASE x > 0
  <2>1. x - 1 \in 0 .. SeqModulus - 1 /\ (x - 1) + 1 = x
    BY <1>1, <1>3
  <2>2. (x - 1) % SeqModulus = x - 1
    BY <1>1, <2>1
  <2>3. QED
    BY <1>2, <2>1, <2>2
<1>4. CASE x = 0
  <2>1. (0 - 1) % SeqModulus = SeqModulus - 1
    BY <1>1
  <2>2. (SeqModulus - 1) + 1 = SeqModulus /\ SeqModulus % SeqModulus = 0
    BY <1>1
  <2>3. QED
    BY <1>2, <1>4, <2>1, <2>2
<1>5. QED
  BY <1>1, <1>2, <1>3, <1>4

\* Every step that leaves the cache out of step counts as a disturbance, and a
\* refusal brings it back.
LEMMA SequenceStep ==
    ASSUME IssuanceInv, SequenceInv, [IssuanceNext]_allVars
    PROVE  SequenceInv'
<1> USE DEF IssuanceInv
<1>0. /\ stale \in Nat /\ disturbed \in Nat /\ chainSeq \in 0 .. SeqModulus - 1
      /\ mempool \in Seq(Txs) /\ stale <= disturbed
  BY DEF IssuanceTypeOK, SequenceInv
<1>1. ~waiting /\ stale = disturbed
         => /\ mempool = <<>>
            /\ cached => (seqCache + 1) % SeqModulus = chainSeq
  BY <1>0 DEF SequenceInv, InStep, AwaitedIsLast
<1>2. chainSeq + Len(<<>>) = chainSeq /\ chainSeq % SeqModulus = chainSeq
  BY <1>0, DownAndUp
<1>3. ~waiting /\ stale = disturbed => NextSeq = chainSeq /\ CheckSeq = chainSeq
  BY <1>1, <1>2 DEF NextSeq, CheckSeq
<1>4. ASSUME UNCHANGED <<mempool, cached, seqCache, chainSeq, stale, disturbed>>
      PROVE  SequenceInv'
  BY <1>4 DEF SequenceInv, InStep
<1>5. ASSUME stale' = stale, disturbed' = disturbed + 1
      PROVE  SequenceInv'
  BY <1>0, <1>5 DEF SequenceInv
<1>6. ASSUME NEW answered \in BOOLEAN, WrongSequence(answered)
      PROVE  SequenceInv'
  <2>1. stale < disturbed
    BY <1>0, <1>3, <1>6 DEF WrongSequence
  <2>2. /\ stale' = stale + IF mempool = <<>> THEN 1 ELSE 0
        /\ disturbed' = disturbed + IF answered THEN 0 ELSE 1
        /\ UNCHANGED <<mempool, chainSeq>>
    BY <1>6 DEF WrongSequence, chainVars
  <2>3. CASE answered /\ mempool = <<>>
    <3>1. seqCache' = (chainSeq - 1) % SeqModulus /\ cached' = TRUE
      BY <1>6, <2>3 DEF WrongSequence, Resync
    <3>2. (seqCache' + 1) % SeqModulus = chainSeq
      BY <1>0, <3>1, DownAndUp
    <3>3. InStep'
      BY <2>2, <2>3, <3>2 DEF InStep
    <3>4. stale' <= disturbed'
      BY <1>0, <2>1, <2>2, <2>3
    <3>5. QED
      BY <3>3, <3>4 DEF SequenceInv
  <2>4. CASE ~(answered /\ mempool = <<>>)
    <3>1. stale' < disturbed' /\ stale' \in Nat /\ disturbed' \in Nat
      BY <1>0, <2>1, <2>2, <2>4
    <3>2. QED
      BY <3>1 DEF SequenceInv
  <2>5. QED
    BY <2>3, <2>4
<1>7. ASSUME NEW answered \in BOOLEAN, Refused(answered)
      PROVE  SequenceInv'
  <2>1. /\ ~waiting /\ stale' = stale
        /\ disturbed' = disturbed + IF answered THEN 0 ELSE 1
        /\ UNCHANGED <<mempool, chainSeq>>
    BY <1>7 DEF Refused, chainVars
  <2>2. CASE ~answered
    BY <1>0, <1>5, <2>1, <2>2
  <2>3. CASE answered
    <3>1. seqCache' = (chainSeq - 1) % SeqModulus /\ cached' = TRUE
      BY <1>7, <2>3 DEF Refused, Resync
    <3>2. (seqCache' + 1) % SeqModulus = chainSeq
      BY <1>0, <3>1, DownAndUp
    <3>3. disturbed' = disturbed
      BY <1>0, <2>1, <2>3
    <3>4. mempool = <<>> => InStep'
      BY <2>1, <3>2 DEF InStep
    <3>5. QED
      BY <1>0, <1>1, <2>1, <3>3, <3>4 DEF SequenceInv
  <2>4. QED
    BY <2>2, <2>3
<1>8. CASE Submit
  <2>1. /\ ~waiting /\ NextSeq = CheckSeq /\ seqCache' = NextSeq
        /\ CurrentTx \in Txs /\ mempool' = Append(mempool, CurrentTx)
        /\ UNCHANGED <<chainSeq, stale, disturbed>> /\ step # "idle"
    BY <1>8, SubmitFacts
  <2>2. stale = disturbed => InStep'
    <3>1. SUFFICES ASSUME stale = disturbed PROVE InStep'
      OBVIOUS
    <3>2. mempool = <<>> /\ seqCache' = chainSeq
      BY <1>1, <1>3, <2>1, <3>1
    <3>3. Len(mempool') = 1 /\ mempool'[1] = CurrentTx
      BY <2>1, <3>2
    <3>4. CurrentTx.awaited
      BY <2>1, CurrentFacts
    <3>5. QED
      BY <2>1, <3>2, <3>3, <3>4 DEF InStep
  <2>3. QED
    BY <1>0, <2>1, <2>2 DEF SequenceInv
<1>9. CASE Deliver \/ \E answered \in BOOLEAN : DeliverFails(answered)
  <2>1. Commit /\ UNCHANGED disturbed
    BY <1>9 DEF Deliver, DeliverFails
  <2>2. /\ mempool # <<>> /\ mempool' = Tail(mempool)
        /\ chainSeq' = (chainSeq + 1) % SeqModulus
        /\ UNCHANGED <<cached, stale>>
    BY <2>1, CommitFacts
  <2>3. stale = disturbed => InStep'
    <3>1. SUFFICES ASSUME stale = disturbed PROVE InStep'
      OBVIOUS
    <3>2. Len(mempool) = 1 /\ mempool[1].awaited /\ seqCache = chainSeq
      BY <2>2, <3>1 DEF SequenceInv, InStep
    <3>3. seqCache' = chainSeq
      BY <1>9, <3>2, DeliverFacts, DeliverFailsFacts
    <3>4. mempool' = <<>>
      BY <1>0, <2>2, <3>2
    <3>5. QED
      BY <2>2, <3>3, <3>4 DEF InStep
  <2>4. QED
    BY <1>0, <2>1, <2>2, <2>3 DEF SequenceInv
<1>10. QED
  <2>1. ASSUME NEW p \in Powers, QueueLight(p)
        PROVE  UNCHANGED <<mempool, cached, seqCache, chainSeq, stale, disturbed>>
    BY <2>1 DEF QueueLight, seqVars, chainVars
  <2>2. QueueBurn \/ BlockCreator \/ QueueIssue \/ FirstQueryFails
           => UNCHANGED <<mempool, cached, seqCache, chainSeq, stale, disturbed>>
    BY DEF QueueBurn, BlockCreator, QueueIssue, FirstQueryFails, seqVars, chainVars
  <2>3. TakeTask => UNCHANGED <<mempool, cached, seqCache, chainSeq, stale, disturbed>>
    BY DEF TakeTask, seqVars, chainVars
  <2>4. UNCHANGED allVars => UNCHANGED <<mempool, cached, seqCache, chainSeq, stale, disturbed>>
    BY DEF allVars, issuanceVars, seqVars, chainVars
  <2>5. LocalStep => SequenceInv'
    BY <1>4, <1>6, <1>7, <2>1, <2>2, <2>3, <2>4 DEF LocalStep
  <2>6. ASSUME NEW answered \in BOOLEAN, Timeout(answered)
        PROVE  stale' = stale /\ disturbed' = disturbed + 1
    BY <2>6 DEF Timeout
  <2>7. ForeignTx \/ Crash => stale' = stale /\ disturbed' = disturbed + 1
    BY DEF ForeignTx, Crash
  <2>8. QED
    BY <1>5, <1>8, <1>9, <2>5, <2>6, <2>7, IssuanceCases

\* Every submission refused although nothing was pending is paid for by one
\* event outside the bridge's control: the cache recovers after one failure.
THEOREM StaleAtMostDisturbedHolds == IssuanceSpec => []StaleAtMostDisturbed
<1>1. IssuanceInit => SequenceInv
  BY DEF IssuanceInit, SequenceInv, InStep
<1>2. IssuanceInv /\ SequenceInv /\ [IssuanceNext]_allVars => SequenceInv'
  BY SequenceStep
<1>3. SequenceInv => StaleAtMostDisturbed
  BY DEF SequenceInv, StaleAtMostDisturbed
<1>4. QED
  BY <1>1, <1>2, <1>3, IssuanceInvHolds, PTL DEF IssuanceSpec

-----------------------------------------------------------------------------
(* The node list *)

\* Every appended rec id is one of a REC of an earlier block; none of the ids in
\* the mempool was appended before or is there twice; and the one the worker is
\* about to submit is in neither.
AppendsFresh ==
    /\ \A i \in DOMAIN appended : appended[i] \in created /\ Earlier(appended[i])
    /\ FreshAppends
    /\ \A i \in DOMAIN mempool :
          mempool[i].step = "append" =>
             /\ \A j \in DOMAIN appended : appended[j] # mempool[i].id
             /\ \A j \in DOMAIN mempool : j # i => mempool[j].id # mempool[i].id
    /\ step = "append" /\ ~waiting =>
          /\ \A j \in DOMAIN appended : appended[j] # recID
          /\ \A j \in DOMAIN mempool : mempool[j].id # recID

\* An id of an earlier block is not that of the current one, nor the empty one.
LEMMA EarlierIsOther ==
    ASSUME NEW id, Earlier(id), height \in Nat
    PROVE  id # <<height, 0>> /\ id # NoId
<1>1. id \in RecIds /\ id[1] \in Nat /\ id[1] < height
  BY IssuanceAssumption DEF Earlier
<1>2. QED
  BY <1>1, EnergyAssumption

\* What a transaction adds to the list.
LEMMA ExecuteAppends ==
    ASSUME IssuanceTypeOK, NEW tx \in Txs, Sound(tx), Execute(tx)
    PROVE  /\ tx.step # "append" => appended' = appended
           /\ tx.step = "append" => appended' = Append(appended, tx.id)
  BY DEF Execute, AppendTxNode, AddEnergy, vars, historyVars, Txs, Steps

\* Rec ids are appended once.
LEMMA AppendsStep ==
    ASSUME IssuanceInv, AppendsFresh, [IssuanceNext]_allVars
    PROVE  AppendsFresh'
<1> USE DEF IssuanceInv
<1>0. /\ created \subseteq created' /\ \A id : Earlier(id) => Earlier(id)'
      /\ mempool \in Seq(Txs) /\ Len(mempool) \in Nat /\ DOMAIN mempool = 1 .. Len(mempool)
      /\ appended \in Seq(RecIds) /\ height \in Nat
  BY ChainGrows, SoundGrows DEF IssuanceTypeOK, TypeOK
<1>1. \A i \in DOMAIN mempool : mempool[i].id = NoId \/ Earlier(mempool[i].id)
  BY DEF PendingSound, Sound
<1>2. ASSUME appended' = appended, DOMAIN mempool' = DOMAIN mempool,
             \A i \in DOMAIN mempool : mempool'[i].step = mempool[i].step
                                       /\ mempool'[i].id = mempool[i].id,
             step' = "append" /\ ~waiting' => step = "append" /\ ~waiting /\ recID' = recID
      PROVE  AppendsFresh'
  BY <1>0, <1>2 DEF AppendsFresh, FreshAppends
<1>3. CASE LocalStep
  <2>1. UNCHANGED <<mempool, appended>>
    BY <1>3, LocalChain DEF ChainStays, vars, historyVars
  <2>2. step' = "append" => UNCHANGED <<step, waiting, recID>>
    <3>1. ASSUME NEW p \in Powers, QueueLight(p)
          PROVE  UNCHANGED <<step, waiting, recID>>
      BY <3>1 DEF QueueLight
    <3>2. ASSUME NEW answered \in BOOLEAN, WrongSequence(answered) \/ Refused(answered)
          PROVE  step' # "append"
      BY <3>2, FailedType DEF WrongSequence, Refused
    <3>3. FirstQueryFails => step' # "append"
      BY FailedType DEF FirstQueryFails
    <3>4. TakeTask => step' # "append"
      BY TakeFacts
    <3>5. QueueBurn \/ BlockCreator \/ QueueIssue => UNCHANGED <<step, waiting, recID>>
      BY DEF QueueBurn, BlockCreator, QueueIssue
    <3>6. UNCHANGED allVars => UNCHANGED <<step, waiting, recID>>
      BY DEF allVars, issuanceVars, bridgeVars
    <3>7. QED
      BY <1>3, <3>1, <3>2, <3>3, <3>4, <3>5, <3>6 DEF LocalStep
  <2>3. QED
    BY <1>2, <2>1, <2>2
<1>4. CASE Submit
  <2> DEFINE n == Len(mempool) + 1
             tx == CurrentTx
  <2>1. /\ step # "idle" /\ ~waiting /\ waiting' = TRUE /\ UNCHANGED <<vars, step, recID>>
        /\ tx \in Txs /\ mempool' = Append(mempool, tx)
    BY <1>4, SubmitFacts
  <2>2. /\ n \notin DOMAIN mempool
        /\ \A i \in DOMAIN mempool : i \in DOMAIN mempool' /\ mempool'[i] = mempool[i]
        /\ mempool'[n] = tx
        /\ \A i \in DOMAIN mempool' : i \in DOMAIN mempool \/ i = n
    BY <1>0, <2>1, PushFacts
  <2>3. tx.step = step /\ tx.id = IF step = "append" THEN recID ELSE NoId
    BY <2>1, CurrentFacts
  <2> HIDE DEF n, tx
  <2>4. appended' = appended
    BY <2>1 DEF vars, historyVars
  <2>5. \A i \in DOMAIN mempool : mempool[i].step = "append" => mempool[i].id # tx.id
    <3>1. \A i \in DOMAIN mempool : mempool[i].step = "append" => Earlier(mempool[i].id)
      BY DEF PendingSound, Sound
    <3>2. QED
      BY <1>0, <2>1, <2>3, <3>1, EarlierIsOther DEF AppendsFresh
  <2>6. step = "append" => /\ \A j \in DOMAIN appended : appended[j] # tx.id
                           /\ \A j \in DOMAIN mempool : mempool[j].id # tx.id
    BY <2>1, <2>3 DEF AppendsFresh
  <2>7. \A i \in DOMAIN mempool' :
          mempool'[i].step = "append" =>
             /\ \A j \in DOMAIN appended' : appended'[j] # mempool'[i].id
             /\ \A j \in DOMAIN mempool' : j # i => mempool'[j].id # mempool'[i].id
    BY <2>2, <2>3, <2>4, <2>5, <2>6 DEF AppendsFresh
  <2>8. QED
    BY <1>0, <2>1, <2>4, <2>7 DEF AppendsFresh, FreshAppends
<1>5. ASSUME appended' = appended, step' # "append",
             mempool' = [i \in DOMAIN mempool |-> [mempool[i] EXCEPT !.awaited = FALSE]]
      PROVE  AppendsFresh'
  BY <1>0, <1>2, <1>5, UnawaitFacts
<1>6. CASE ForeignTx
  <2> DEFINE tx == [step |-> "foreign", amount |-> 0, id |-> NoId, awaited |-> FALSE]
  <2>1. mempool' = <<tx>> /\ UNCHANGED <<step, waiting, recID, appended>>
    BY <1>6 DEF ForeignTx, bridgeVars, vars, historyVars
  <2>2. tx.step = "foreign" /\ tx.id = NoId
    OBVIOUS
  <2> HIDE DEF tx
  <2>3. \A i \in DOMAIN mempool' : mempool'[i] = tx
    BY <2>1
  <2>4. step = "append" => recID # NoId
    BY <1>0, EarlierIsOther DEF WorkerInOrder
  <2>5. QED
    BY <1>0, <2>1, <2>2, <2>3, <2>4 DEF AppendsFresh, FreshAppends
<1>7. CASE Deliver \/ \E answered \in BOOLEAN : DeliverFails(answered)
  <2>1. Commit
    BY <1>7 DEF Deliver, DeliverFails
  <2>2. /\ 1 \in DOMAIN mempool /\ mempool[1] \in Txs
        /\ DOMAIN mempool' = 1 .. Len(mempool) - 1
        /\ \A i \in DOMAIN mempool' : mempool'[i] = mempool[i + 1] /\ i + 1 \in DOMAIN mempool
    BY <2>1, CommitFacts, PopFacts
  <2>3. \A i, j \in DOMAIN mempool' : /\ i + 1 # 1
                                      /\ i # j => i + 1 # j + 1
    BY <1>0, <2>2
  <2>4. \/ appended' = appended
        \/ /\ appended' = Append(appended, mempool[1].id)
           /\ mempool[1].step = "append"
    <3>1. ASSUME NEW answered \in BOOLEAN, DeliverFails(answered)
          PROVE  appended' = appended
      BY <3>1 DEF DeliverFails, vars, historyVars
    <3>2. Deliver => Execute(mempool[1])
      BY DeliverFacts
    <3>3. QED
      BY <1>7, <2>2, <3>1, <3>2, ExecuteAppends DEF PendingSound
  <2> DEFINE n == Len(appended)
             x == mempool[1].id
  <2>5. /\ \A j \in DOMAIN appended' :
              \/ j \in DOMAIN appended /\ appended'[j] = appended[j]
              \/ j = n + 1 /\ appended'[j] = x /\ mempool[1].step = "append"
        /\ n + 1 \notin DOMAIN appended
    BY <1>0, <2>4
  <2> HIDE DEF n, x
  <2>6. mempool[1].step = "append" =>
           /\ x \in created /\ Earlier(x)
           /\ \A j \in DOMAIN appended : appended[j] # x
           /\ \A j \in DOMAIN mempool : j # 1 => mempool[j].id # x
    BY <2>2 DEF PendingSound, Sound, AppendsFresh, x
  <2>7. (\A i \in DOMAIN appended : appended[i] \in created /\ Earlier(appended[i]))'
    <3>1. \A i \in DOMAIN appended' : \A id : id = appended'[i] => id \in created /\ Earlier(id)
      BY <2>5, <2>6 DEF AppendsFresh
    <3>2. \A i \in DOMAIN appended' : \A id : id = appended'[i] => id \in created' /\ Earlier(id)'
      BY <1>0, <3>1
    <3>3. \A i \in DOMAIN appended' : \A id : id = appended'[i] => id \in RecIds /\ id[1] < height'
      BY <3>2 DEF Earlier
    <3>4. QED
      BY <3>2, <3>3 DEF Earlier
  <2>8. FreshAppends'
    BY <2>5, <2>6 DEF AppendsFresh, FreshAppends
  <2>9. \A i \in DOMAIN mempool' :
          mempool'[i].step = "append" =>
             /\ \A j \in DOMAIN appended' : appended'[j] # mempool'[i].id
             /\ \A j \in DOMAIN mempool' : j # i => mempool'[j].id # mempool'[i].id
    BY <2>2, <2>3, <2>5, <2>6 DEF AppendsFresh
  <2>10. step' = "append" /\ ~waiting' =>
            /\ \A j \in DOMAIN appended' : appended'[j] # recID'
            /\ \A j \in DOMAIN mempool' : mempool'[j].id # recID'
    <3>1. CASE UNCHANGED <<step, waiting, recID>>
      BY <2>2, <2>5, <3>1 DEF AppendsFresh, x
    <3>2. CASE recID' = <<height, 0>> /\ <<height, 0>> \in RecIds
      <4>1. \A i \in DOMAIN appended' : Earlier(appended'[i])
        BY <2>5, <2>6 DEF AppendsFresh
      <4>2. NoId # <<height, 0>>
        BY <3>2, EnergyAssumption
      <4>3. \A i \in DOMAIN mempool' : mempool'[i].id # <<height, 0>>
        BY <1>0, <1>1, <2>2, <4>2, EarlierIsOther
      <4>4. QED
        BY <1>0, <3>2, <4>1, <4>3, EarlierIsOther
    <3>3. CASE step' # "append"
      BY <3>3
    <3>4. CASE mempool[1].awaited
      <4>1. CASE Deliver
        <5>1. Succeeded(mempool[1]) /\ height <= MaxHeight
          BY <2>1, <3>4, <4>1, DeliverFacts, CommitFacts
        <5>2. QED
          BY <2>2, <3>2, <3>3, <5>1, SucceededType
      <4>2. ASSUME NEW answered \in BOOLEAN, DeliverFails(answered)
            PROVE  step' # "append"
        BY <3>4, <4>2, DeliverFailsFacts, FailedType
      <4>3. QED
        BY <1>7, <3>3, <4>1, <4>2
    <3>5. CASE ~mempool[1].awaited
      <4>1. Deliver => UNCHANGED <<step, waiting, recID>>
        BY <3>5, DeliverFacts
      <4>2. ASSUME NEW answered \in BOOLEAN, DeliverFails(answered)
            PROVE  UNCHANGED <<step, waiting, recID>>
        BY <3>5, <4>2, DeliverFailsFacts
      <4>3. QED
        BY <1>7, <3>1, <4>1, <4>2
    <3>6. QED
      BY <3>4, <3>5
  <2>11. QED
    BY <2>7, <2>8, <2>9, <2>10 DEF AppendsFresh
<1>8. QED
  <2>1. ASSUME NEW answered \in BOOLEAN, Timeout(answered)
        PROVE  /\ appended' = appended /\ step' # "append"
               /\ mempool' = [i \in DOMAIN mempool |-> [mempool[i] EXCEPT !.awaited = FALSE]]
    BY <2>1, TimeoutFacts, FailedType DEF vars, historyVars
  <2>2. Crash => /\ appended' = appended /\ step' # "append"
                 /\ mempool' = [i \in DOMAIN mempool |-> [mempool[i] EXCEPT !.awaited = FALSE]]
    BY DEF Crash, vars, historyVars
  <2>3. QED
    BY <1>3, <1>4, <1>5, <1>6, <1>7, <2>1, <2>2, IssuanceCases

\* The bridge leaves the next value of its messages empty.
LEMMA NextStaysEmpty == IssuanceSpec => [](sentNext = NoId)
<1>1. IssuanceInit => sentNext = NoId
  BY DEF IssuanceInit, Init
<1>2. IssuanceInv /\ sentNext = NoId /\ [IssuanceNext]_allVars => (sentNext = NoId)'
  <2> SUFFICES ASSUME IssuanceInv, sentNext = NoId, [IssuanceNext]_allVars
               PROVE  sentNext' = NoId
    OBVIOUS
  <2> USE DEF IssuanceInv
  <2>1. UNCHANGED vars => sentNext' = sentNext
    BY DEF vars, historyVars
  <2>2. CASE LocalStep
    BY <2>1, <2>2, LocalChain DEF ChainStays
  <2>3. Deliver => Execute(mempool[1])
    BY DeliverFacts
  <2>4. ASSUME NEW tx, Execute(tx)
        PROVE  sentNext' = NoId
    BY <2>1, <2>4 DEF Execute, AppendTxNode, AddEnergy
  <2>5. ASSUME NEW answered \in BOOLEAN, DeliverFails(answered) \/ Timeout(answered)
        PROVE  UNCHANGED vars
    BY <2>5, TimeoutFacts DEF DeliverFails
  <2>6. Submit \/ ForeignTx \/ Crash => UNCHANGED vars
    BY SubmitFacts DEF ForeignTx, Crash
  <2>7. QED
    BY <2>1, <2>2, <2>3, <2>4, <2>5, <2>6, IssuanceCases
<1>3. QED
  BY <1>1, <1>2, IssuanceInvHolds, PTL DEF IssuanceSpec

\* The bridge appends each rec id once and only ids of RECs that exist, so the
\* list never runs into itself and the TxNodeList query returns.
THEOREM AppendsAreRecsHolds == IssuanceSpec => []AppendsAreRecs
<1>1. IssuanceInit => AppendsFresh
  BY DEF IssuanceInit, Init, AppendsFresh, FreshAppends
<1>2. IssuanceInv /\ AppendsFresh /\ [IssuanceNext]_allVars => AppendsFresh'
  BY AppendsStep
<1>3. IssuanceSpec => []AppendsFresh
  BY <1>1, <1>2, IssuanceInvHolds, PTL DEF IssuanceSpec
<1>4. IssuanceSpec => []ListIsHistory
  BY IssuanceImplementsLedger, ListIsHistoryHolds, PTL
<1>5. IssuanceSpec => []TypeOK
  BY IssuanceImplementsLedger, LedgerTypeCorrect, PTL
<1>6. TypeOK /\ AppendsFresh /\ ListIsHistory /\ sentNext = NoId => AppendsAreRecs
  BY EnergyAssumption DEF TypeOK, AppendsFresh, ListIsHistory, AppendsAreRecs, QueryReturns
<1>7. QED
  BY <1>3, <1>4, <1>5, <1>6, NextStaysEmpty, PTL
=============================================================================
