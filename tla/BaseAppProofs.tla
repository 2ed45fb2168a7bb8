---------------------------- MODULE BaseAppProofs ----------------------------
(***************************************************************************)
(* Proofs about BaseApp, for every set of accounts, devices and signed     *)
(* transactions and every value of the prices and limits: each transaction *)
(* an account is charged for is charged once and in the order of its       *)
(* sequences, the committed state and the one a block is making are the    *)
(* outcome of the logged transactions, a full block runs nothing, and      *)
(* checkState is ahead of the committed state by the mempool.  The log     *)
(* with its outcome, and the mempool with what is still to be rechecked,   *)
(* are followed step by step by AppInv.                                    *)
(***************************************************************************)
EXTENDS BaseApp, SumTheorems, FiniteSetTheorems, SequenceTheorems, TLAPS

-----------------------------------------------------------------------------
(* Steps, stores and transactions *)

\* The states f of n steps g from x.
Steps(f, V, x, n, g) ==
    /\ f \in [0 .. n -> V]
    /\ \A i \in 0 .. n : f[i] = IF i = 0 THEN x ELSE g[<<i, f[i - 1]>>]

\* Repeating a step gives a sequence of states.
LEMMA StepsExist ==
    ASSUME NEW V, NEW x \in V, NEW n \in Nat, NEW g \in [(1 .. n) \X V -> V]
    PROVE  \E f : Steps(f, V, x, n, g)
<1> DEFINE Upto(f, m) == /\ f \in [0 .. m -> V]
                         /\ \A i \in 0 .. m : f[i] = IF i = 0 THEN x ELSE g[<<i, f[i - 1]>>]
           T == {m \in 0 .. n : ~\E f : Upto(f, m)}
<1>1. SUFFICES ASSUME T # {} PROVE FALSE
  <2>1. T = {} => \E f : Upto(f, n)
    <3> HIDE DEF Upto
    <3>1. n \in 0 .. n
      OBVIOUS
    <3>2. QED
      BY <3>1
  <2>2. QED
    BY <2>1, Zenon DEF Steps
<1>2. PICK m \in T : \A k \in T : m <= k
  <2>1. T \subseteq Nat
    OBVIOUS
  <2> HIDE DEF T
  <2>2. QED
    BY <1>1, <2>1, LeastNumber
<1>3. m \in 0 .. n /\ ~\E f : Upto(f, m)
  BY <1>2
<1>4. CASE m = 0
  <2>1. Upto([k \in 0 .. 0 |-> x], 0)
    OBVIOUS
  <2>2. QED
    BY <1>3, <1>4, <2>1
<1>5. CASE m # 0
  <2>1. m - 1 \in 0 .. n /\ m - 1 \notin T /\ m \in 1 .. n
    BY <1>2, <1>3, <1>5
  <2>2. PICK f : Upto(f, m - 1)
    BY <2>1
  <2>3. f[m - 1] \in V /\ g[<<m, f[m - 1]>>] \in V
    BY <2>1, <2>2
  <2> DEFINE e == [k \in 0 .. m |-> IF k = m THEN g[<<m, f[m - 1]>>] ELSE f[k]]
  <2>4. e \in [0 .. m -> V]
    BY <2>1, <2>2, <2>3
  <2>5. ASSUME NEW i \in 0 .. m PROVE e[i] = IF i = 0 THEN x ELSE g[<<i, e[i - 1]>>]
    <3>1. CASE i = m
      <4>1. m - 1 \in 0 .. m /\ m - 1 # m /\ m \in 0 .. m /\ m # 0
        BY <2>1
      <4>2. e[m - 1] = f[m - 1] /\ e[m] = g[<<m, f[m - 1]>>]
        BY <4>1
      <4> HIDE DEF e
      <4>3. QED
        BY <3>1, <4>1, <4>2
    <3>2. CASE i # m
      <4>1. i \in 0 .. (m - 1) /\ e[i] = f[i]
        BY <2>1, <3>2
      <4>2. i # 0 => i - 1 \in 0 .. m /\ e[i - 1] = f[i - 1]
        BY <2>1, <4>1
      <4>3. f[i] = IF i = 0 THEN x ELSE g[<<i, f[i - 1]>>]
        BY <2>2, <4>1
      <4> HIDE DEF e
      <4>4. QED
        BY <4>1, <4>2, <4>3
    <3>3. QED
      BY <3>1, <3>2
  <2> HIDE DEF e
  <2>6. Upto(e, m)
    BY <2>4, <2>5
  <2>7. QED
    BY <1>3, <2>6
<1>6. QED
  BY <1>4, <1>5

\* What holds at first and after each step holds of all.
LEMMA UpToAll ==
    ASSUME NEW n \in Nat, NEW Q, 0 \in Q, \A i \in 1 .. n : i - 1 \in Q => i \in Q
    PROVE  \A i \in 0 .. n : i \in Q
<1> DEFINE T == {i \in 0 .. n : i \notin Q}
<1>1. SUFFICES ASSUME T # {} PROVE FALSE
  OBVIOUS
<1>2. PICK m \in T : \A k \in T : m <= k
  <2>1. T \subseteq Nat
    OBVIOUS
  <2> HIDE DEF T
  <2>2. QED
    BY <1>1, <2>1, LeastNumber
<1>3. m \in 1 .. n /\ m - 1 \in 0 .. n /\ m - 1 \notin T
  BY <1>2
<1>4. QED
  BY <1>2, <1>3

-----------------------------------------------------------------------------
Stores == [live : BOOLEAN, seq : [Accounts -> Nat], bal : [Accounts -> Nat], fees : Nat,
           device : [Devices -> Accounts \cup {NoAddr}]]

Entries == [height : Nat, tx : Txs, code : {"ok", "failed", "ante", "malformed", "full"},
            charge : Nat]

\* What the transactions are.
LEMMA TxFacts ==
    ASSUME BaseAppConstants, NEW tx \in Txs
    PROVE  /\ tx.signer \in Accounts /\ tx.seq \in Nat /\ tx.fee \in Nat /\ tx.gas \in Nat
           /\ tx.timeout \in Nat
           /\ tx.msgs \in Seq([device : Devices, addr : Accounts \cup {BadAddr}])
           /\ Len(tx.msgs) \in Nat /\ DOMAIN tx.msgs = 1 .. Len(tx.msgs)
           /\ \A i \in 1 .. Len(tx.msgs) : /\ tx.msgs[i].device \in Devices
                                           /\ tx.msgs[i].addr \in Accounts \cup {BadAddr}
<1>1. TxOK(tx)
  BY DEF BaseAppConstants
<1>2. /\ tx.signer \in Accounts /\ tx.seq \in Nat /\ tx.fee \in Nat /\ tx.gas \in Nat
      /\ tx.timeout \in Nat
      /\ tx.msgs \in Seq([device : Devices, addr : Accounts \cup {BadAddr}])
  BY <1>1 DEF TxOK
<1> DEFINE M == [device : Devices, addr : Accounts \cup {BadAddr}]
<1>3. \A m \in M : m.device \in Devices /\ m.addr \in Accounts \cup {BadAddr}
  OBVIOUS
<1> HIDE DEF M
<1>4. Len(tx.msgs) \in Nat /\ DOMAIN tx.msgs = 1 .. Len(tx.msgs)
      /\ \A i \in 1 .. Len(tx.msgs) : tx.msgs[i] \in M
  <2>1. tx.msgs \in Seq(M)
    BY <1>2 DEF M
  <2>2. QED
    BY <2>1
<1>5. QED
  BY <1>2, <1>3, <1>4

\* A transaction the account can pay for is charged to it alone.
LEMMA ChargedFacts ==
    ASSUME BaseAppConstants, NEW tx \in Txs, NEW st \in Stores, ~CannotPay(st, tx)
    PROVE  /\ Charged(st, tx) \in Stores
           /\ Charged(st, tx).device = st.device
           /\ Charged(st, tx).fees = st.fees + tx.fee
           /\ \A a \in Accounts :
                 /\ Charged(st, tx).seq[a] = IF a = tx.signer THEN st.seq[a] + 1 ELSE st.seq[a]
                 /\ Charged(st, tx).bal[a] = IF a = tx.signer THEN st.bal[a] - tx.fee ELSE st.bal[a]
<1>1. tx.signer \in Accounts /\ tx.fee \in Nat
  BY TxFacts
<1>2. st.bal[tx.signer] \in Nat /\ st.bal[tx.signer] - tx.fee \in Nat /\ st.seq[tx.signer] + 1 \in Nat
  BY <1>1 DEF CannotPay, Stores
<1>3. Charged(st, tx) = [live |-> st.live, seq |-> [st.seq EXCEPT ![tx.signer] = @ + 1],
                         bal |-> [st.bal EXCEPT ![tx.signer] = @ - tx.fee],
                         fees |-> st.fees + tx.fee, device |-> st.device]
  <2>1. Charged(st, tx) = [st EXCEPT !.bal = [st.bal EXCEPT ![tx.signer] = @ - tx.fee],
                                     !.fees = st.fees + tx.fee,
                                     !.seq = [st.seq EXCEPT ![tx.signer] = @ + 1]]
    BY DEF Charged
  <2>2. QED
    BY <2>1 DEF Stores
<1>4. /\ [st.seq EXCEPT ![tx.signer] = @ + 1] \in [Accounts -> Nat]
      /\ [st.bal EXCEPT ![tx.signer] = @ - tx.fee] \in [Accounts -> Nat]
      /\ st.fees + tx.fee \in Nat /\ st.live \in BOOLEAN
      /\ st.device \in [Devices -> Accounts \cup {NoAddr}]
  BY <1>1, <1>2 DEF Stores
<1>5. Charged(st, tx) \in Stores
  BY <1>3, <1>4 DEF Stores
<1>6. /\ Charged(st, tx).device = st.device /\ Charged(st, tx).fees = st.fees + tx.fee
      /\ Charged(st, tx).seq = [st.seq EXCEPT ![tx.signer] = @ + 1]
      /\ Charged(st, tx).bal = [st.bal EXCEPT ![tx.signer] = @ - tx.fee]
  BY <1>3
<1>7. st.seq \in [Accounts -> Nat] /\ st.bal \in [Accounts -> Nat]
  BY DEF Stores
<1>8. QED
  BY <1>1, <1>5, <1>6, <1>7

\* A transaction past the ante handler was paid for and, unless it is rechecked,
\* carries the account's sequence.
LEMMA AnteFacts ==
    ASSUME BaseAppConstants, NEW tx \in Txs, NEW st \in Stores, NEW mode, NEW h,
           NEW ante, ante = AnteHandle(st, tx, mode, h)
    PROVE  /\ ante.used \in Nat /\ ante.ok \in BOOLEAN
           /\ ante.ok => /\ ~CannotPay(st, tx) /\ ante.store = Charged(st, tx)
                         /\ mode # "recheck" => tx.seq = st.seq[tx.signer]
  BY DEF AnteHandle, BadSignature
-----------------------------------------------------------------------------
MsgStates == [ok : BOOLEAN, used : Nat, store : Stores]

\* Only the device mapping differs.
SameAccounts(st, r) == r.live = st.live /\ r.seq = st.seq /\ r.bal = st.bal /\ r.fees = st.fees

\* Devices from is to after the first n messages, each registering its device.
Registered(from, msgs, n, to) ==
    \A d \in Devices :
        \/ (\A k \in 1 .. n : msgs[k].device # d) /\ to[d] = from[d]
        \/ \E k \in 1 .. n : /\ msgs[k].device = d /\ to[d] = msgs[k].addr
                             /\ \A j \in 1 .. n : msgs[j].device = d => j <= k

\* A message writes its device or fails.
LEMMA RegisterFacts ==
    ASSUME BaseAppConstants, NEW tx \in Txs, NEW r \in MsgStates, NEW m, m.device \in Devices,
           m.addr \in Accounts \cup {BadAddr}, NEW mode, NEW h,
           NEW q, q = RegisterDevice(r, m, tx, mode, h)
    PROVE  /\ q \in MsgStates
           /\ q.ok => /\ SameAccounts(r.store, q.store)
                      /\ \A d \in Devices : q.store.device[d] = IF d = m.device THEN m.addr
                                                                ELSE r.store.device[d]
<1>1. MsgGas \in Nat
  BY DEF BaseAppConstants
<1>2. /\ r.ok \in BOOLEAN /\ r.used \in Nat /\ r.used + MsgGas \in Nat /\ r.store \in Stores
      /\ r = [ok |-> r.ok, used |-> r.used, store |-> r.store]
  BY <1>1 DEF MsgStates
<1>3. CASE m.addr = BadAddr
  <2>1. q = [r EXCEPT !.ok = FALSE]
    BY <1>3 DEF RegisterDevice
  <2>2. q = [ok |-> FALSE, used |-> r.used, store |-> r.store]
    BY <1>2, <2>1
  <2>3. QED
    BY <1>2, <2>2 DEF MsgStates
<1>4. CASE m.addr # BadAddr /\ OutOfGas(tx, r.used + MsgGas, mode, h)
  <2>1. q = [r EXCEPT !.ok = FALSE, !.used = @ + MsgGas]
    BY <1>4 DEF RegisterDevice
  <2>2. q = [ok |-> FALSE, used |-> r.used + MsgGas, store |-> r.store]
    BY <1>2, <2>1
  <2>3. QED
    BY <1>2, <2>2 DEF MsgStates
<1>5. CASE m.addr # BadAddr /\ ~OutOfGas(tx, r.used + MsgGas, mode, h)
  <2> DEFINE w == SetDeviceMapping(r.store, m.device, m.addr)
  <2>1. q = [r EXCEPT !.used = @ + MsgGas, !.store = w]
    BY <1>5 DEF RegisterDevice
  <2>2. w \in Stores /\ SameAccounts(r.store, w) /\ w.device = [r.store.device EXCEPT ![m.device] = m.addr]
    <3>1. w = [live |-> r.store.live, seq |-> r.store.seq, bal |-> r.store.bal, fees |-> r.store.fees,
               device |-> [r.store.device EXCEPT ![m.device] = m.addr]]
      BY <1>2 DEF SetDeviceMapping, Stores
    <3>2. [r.store.device EXCEPT ![m.device] = m.addr] \in [Devices -> Accounts \cup {NoAddr}]
      BY <1>2, <1>5 DEF Stores
    <3> HIDE DEF w
    <3>3. w \in Stores
      BY <1>2, <3>1, <3>2 DEF Stores
    <3>4. QED
      BY <3>1, <3>3 DEF SameAccounts
  <2> HIDE DEF w
  <2>3. q = [ok |-> r.ok, used |-> r.used + MsgGas, store |-> w]
    BY <1>2, <2>1
  <2>4. q \in MsgStates /\ q.store = w
    BY <1>2, <2>2, <2>3 DEF MsgStates
  <2>5. r.store.device \in [Devices -> Accounts \cup {NoAddr}]
    BY <1>2 DEF Stores
  <2>6. QED
    BY <2>2, <2>4, <2>5
<1>6. QED
  BY <1>3, <1>4, <1>5

\* One more message is registered.
LEMMA RegisteredNext ==
    ASSUME NEW from, NEW msgs, NEW n \in Nat, n # 0, NEW mid, NEW to, Registered(from, msgs, n - 1, mid),
           \A d \in Devices : to[d] = IF d = msgs[n].device THEN msgs[n].addr ELSE mid[d]
    PROVE  Registered(from, msgs, n, to)
<1>1. SUFFICES ASSUME NEW d \in Devices
               PROVE  \/ (\A k \in 1 .. n : msgs[k].device # d) /\ to[d] = from[d]
                      \/ \E k \in 1 .. n : /\ msgs[k].device = d /\ to[d] = msgs[k].addr
                                           /\ \A j \in 1 .. n : msgs[j].device = d => j <= k
  BY DEF Registered
<1>2. \A j \in 1 .. n : j <= n /\ (j # n => j \in 1 .. (n - 1))
  OBVIOUS
<1>3. n \in 1 .. n /\ \A j \in 1 .. (n - 1) : j \in 1 .. n
  OBVIOUS
<1>4. CASE d = msgs[n].device
  BY <1>2, <1>3, <1>4
<1>5. CASE d # msgs[n].device
  <2>1. to[d] = mid[d]
    BY <1>5
  <2>2. \/ (\A k \in 1 .. (n - 1) : msgs[k].device # d) /\ mid[d] = from[d]
        \/ \E k \in 1 .. (n - 1) : /\ msgs[k].device = d /\ mid[d] = msgs[k].addr
                                   /\ \A j \in 1 .. (n - 1) : msgs[j].device = d => j <= k
    BY DEF Registered
  <2>3. CASE (\A k \in 1 .. (n - 1) : msgs[k].device # d) /\ mid[d] = from[d]
    BY <1>2, <1>5, <2>1, <2>3
  <2>4. ASSUME NEW k \in 1 .. (n - 1), msgs[k].device = d, mid[d] = msgs[k].addr,
               \A j \in 1 .. (n - 1) : msgs[j].device = d => j <= k
        PROVE  \E i \in 1 .. n : /\ msgs[i].device = d /\ to[d] = msgs[i].addr
                                 /\ \A j \in 1 .. n : msgs[j].device = d => j <= i
    <3>1. \A j \in 1 .. n : msgs[j].device = d => j <= k
      BY <1>2, <1>5, <2>4
    <3>2. QED
      BY <1>3, <2>1, <2>4, <3>1
  <2>5. QED
    BY <2>2, <2>3, <2>4
<1>6. QED
  BY <1>4, <1>5

\* What the messages leave, when none failed: only registrations, the last of a
\* device counts.
LEMMA MsgsFacts ==
    ASSUME BaseAppConstants, NEW tx \in Txs, NEW st \in Stores, NEW used \in Nat, NEW mode, NEW h,
           NEW r, r = runMsgs(st, used, tx, mode, h)
    PROVE  /\ r \in MsgStates
           /\ r.ok => SameAccounts(st, r.store)
           /\ mode = "deliver" /\ r.ok => Registered(st.device, tx.msgs, Len(tx.msgs), r.store.device)
           /\ mode \in {"check", "recheck"} => r.ok
<1> DEFINE n == IF mode \in {"check", "recheck"} THEN 0 ELSE Len(tx.msgs)
           x == [ok |-> TRUE, used |-> used, store |-> st]
           Step(s, i) == IF ~s.ok THEN s ELSE RegisterDevice(s, tx.msgs[i], tx, mode, h)
           Res(f) == f = [i \in 0 .. n |-> IF i = 0 THEN x
                                           ELSE IF ~f[i - 1].ok THEN f[i - 1]
                                           ELSE RegisterDevice(f[i - 1], tx.msgs[i], tx, mode, h)]
           res == CHOOSE f : Res(f)
<1>1. r = res[n]
  BY Zenon DEF runMsgs
<1>2. n \in Nat /\ x \in MsgStates /\ \A i \in 1 .. n : i \in 1 .. Len(tx.msgs)
  BY TxFacts DEF MsgStates
<1>3. ASSUME NEW i \in 1 .. n, NEW s \in MsgStates
      PROVE  /\ Step(s, i) \in MsgStates
             /\ s.ok /\ Step(s, i).ok =>
                   /\ SameAccounts(s.store, Step(s, i).store)
                   /\ \A d \in Devices : Step(s, i).store.device[d] =
                         IF d = tx.msgs[i].device THEN tx.msgs[i].addr ELSE s.store.device[d]
  <2>1. tx.msgs[i].device \in Devices /\ tx.msgs[i].addr \in Accounts \cup {BadAddr}
    BY <1>2, TxFacts
  <2> DEFINE q == RegisterDevice(s, tx.msgs[i], tx, mode, h)
  <2>2. /\ q \in MsgStates
        /\ q.ok => /\ SameAccounts(s.store, q.store)
                   /\ \A d \in Devices : q.store.device[d] = IF d = tx.msgs[i].device THEN tx.msgs[i].addr
                                                             ELSE s.store.device[d]
    BY <2>1, RegisterFacts
  <2> HIDE DEF q
  <2>3. Step(s, i) = IF ~s.ok THEN s ELSE q
    BY DEF q
  <2> HIDE DEF Step
  <2>4. QED
    BY <2>2, <2>3
<1>4. \E f : Res(f)
  <2> DEFINE g == [p \in (1 .. n) \X MsgStates |-> Step(p[2], p[1])]
  <2> HIDE DEF n, x, Step
  <2>1. g \in [(1 .. n) \X MsgStates -> MsgStates]
    BY <1>3
  <2>2. \A i \in 1 .. n, s \in MsgStates : g[<<i, s>>] = Step(s, i)
    OBVIOUS
  <2> HIDE DEF g
  <2>3. PICK f \in [0 .. n -> MsgStates] :
             \A i \in 0 .. n : f[i] = IF i = 0 THEN x ELSE g[<<i, f[i - 1]>>]
    <3>1. PICK f : Steps(f, MsgStates, x, n, g)
      BY <1>2, <2>1, StepsExist
    <3>2. QED
      BY <3>1 DEF Steps
  <2>4. ASSUME NEW i \in 0 .. n PROVE f[i] = IF i = 0 THEN x ELSE Step(f[i - 1], i)
    <3>1. i # 0 => i \in 1 .. n /\ i - 1 \in 0 .. n
      BY <1>2
    <3>2. QED
      BY <2>2, <2>3, <3>1
  <2>5. Res(f)
    BY <2>3, <2>4 DEF Step
  <2>6. QED
    BY <2>5
<1>5. Res(res)
  BY <1>4
<1>6. \A i \in 0 .. n : res[i] = IF i = 0 THEN x ELSE Step(res[i - 1], i)
  <2> HIDE DEF n, x, res
  <2>1. QED
    BY <1>5
<1> HIDE DEF res, Res
<1> DEFINE Q == {i \in 0 .. n : /\ res[i] \in MsgStates
                                /\ res[i].ok => /\ SameAccounts(st, res[i].store)
                                                /\ Registered(st.device, tx.msgs, i, res[i].store.device)}
<1>7. 0 \in Q
  <2>1. res[0] = x /\ x.ok /\ x.store = st /\ 0 \in 0 .. n
    <3>1. x.ok /\ x.store = st
      OBVIOUS
    <3> HIDE DEF x, n, Step
    <3>2. 0 \in 0 .. n
      BY <1>2
    <3>3. QED
      BY <1>6, <3>1, <3>2
  <2>2. SameAccounts(st, st) /\ Registered(st.device, tx.msgs, 0, st.device)
    BY DEF SameAccounts, Registered
  <2> HIDE DEF x, n
  <2>3. QED
    BY <1>2, <2>1, <2>2
<1>8. ASSUME NEW i \in 1 .. n, i - 1 \in Q PROVE i \in Q
  <2> HIDE DEF x, n
  <2>1. i \in 0 .. n /\ i # 0 /\ i \in Nat /\ i - 1 \in 0 .. n
    BY <1>2
  <2>2. res[i] = Step(res[i - 1], i) /\ res[i - 1] \in MsgStates
    BY <1>6, <1>8, <2>1
  <2>3. res[i] \in MsgStates
    BY <1>3, <2>2
  <2>4. ASSUME res[i].ok
        PROVE  SameAccounts(st, res[i].store) /\ Registered(st.device, tx.msgs, i, res[i].store.device)
    <3>1. res[i - 1].ok
      BY <2>2, <2>4
    <3>2. SameAccounts(st, res[i - 1].store) /\ Registered(st.device, tx.msgs, i - 1, res[i - 1].store.device)
      BY <1>8, <3>1
    <3>3. /\ SameAccounts(res[i - 1].store, res[i].store)
          /\ \A d \in Devices : res[i].store.device[d] = IF d = tx.msgs[i].device THEN tx.msgs[i].addr
                                                         ELSE res[i - 1].store.device[d]
      BY <1>3, <2>2, <2>4, <3>1
    <3>4. Registered(st.device, tx.msgs, i, res[i].store.device)
      BY <2>1, <3>2, <3>3, RegisteredNext
    <3>5. QED
      BY <3>2, <3>3, <3>4 DEF SameAccounts
  <2>5. QED
    BY <2>1, <2>3, <2>4
<1>9. n \in Q
  <2> HIDE DEF Q, n
  <2>1. n \in 0 .. n
    BY <1>2
  <2>2. QED
    BY <1>2, <1>7, <1>8, <2>1, UpToAll
<1>10. r \in MsgStates /\ (r.ok => SameAccounts(st, r.store) /\ Registered(st.device, tx.msgs, n, r.store.device))
  <2> HIDE DEF n
  <2>1. QED
    BY <1>1, <1>9
<1>11. mode \in {"check", "recheck"} => r.ok
  BY <1>1, <1>2, <1>6
<1>12. mode = "deliver" => n = Len(tx.msgs)
  OBVIOUS
<1> HIDE DEF n
<1>13. QED
  BY <1>10, <1>11, <1>12

-----------------------------------------------------------------------------
\* The smaller of two numbers.
LEMMA LeastFacts ==
    ASSUME NEW m \in Nat, NEW n \in Nat
    PROVE  Least(m, n) \in Nat /\ Least(m, n) <= n
  BY DEF Least

\* A (re)check charges the account or leaves checkState alone.
LEMMA CheckRunFacts ==
    ASSUME BaseAppConstants, NEW tx \in Txs, NEW st \in Stores, NEW mode \in {"check", "recheck"}, NEW h,
           NEW base, NEW r, r = runTx(st, tx, mode, h, base)
    PROVE  /\ r.code = "ok" => ~CannotPay(st, tx) /\ r.store = Charged(st, tx)
           /\ r.code # "ok" => r.store = st
<1> DEFINE ante == AnteHandle(st, tx, mode, h)
           run == runMsgs(ante.store, ante.used, tx, mode, h)
<1>1. /\ ante.used \in Nat /\ ante.ok \in BOOLEAN
      /\ ante.ok => ~CannotPay(st, tx) /\ ante.store = Charged(st, tx)
  BY AnteFacts
<1>2. ante.ok => run.ok
  <2>1. SUFFICES ASSUME ante.ok PROVE run.ok
    OBVIOUS
  <2>2. ante.store \in Stores
    BY <1>1, <2>1, ChargedFacts
  <2> HIDE DEF ante
  <2>3. QED
    BY <1>1, <2>2, MsgsFacts
<1>3. \/ r = [code |-> "malformed", store |-> st, charge |-> base]
      \/ r = [code |-> "ante", store |-> st, charge |-> Least(ante.used, tx.gas)]
      \/ ante.ok /\ r = [code |-> "ok", store |-> ante.store, charge |-> Least(run.used, tx.gas)]
  <2>1. ante.ok \in BOOLEAN /\ (ante.ok => run.ok)
    BY <1>1, <1>2
  <2>2. mode # "deliver"
    OBVIOUS
  <2>3. QED
    BY <2>1, <2>2 DEF runTx
<1> HIDE DEF ante, run
<1>4. QED
  BY <1>1, <1>3

\* Account part of a store charged for a transaction.
ChargedOnce(st, tx, r) ==
    /\ r.fees = st.fees + tx.fee
    /\ \A a \in Accounts :
          /\ r.seq[a] = IF a = tx.signer THEN st.seq[a] + 1 ELSE st.seq[a]
          /\ r.bal[a] = IF a = tx.signer THEN st.bal[a] - tx.fee ELSE st.bal[a]

\* What runTx makes of a delivered transaction.
LEMMA TxRunFacts ==
    ASSUME BaseAppConstants, NEW tx \in Txs, NEW st \in Stores, NEW h, NEW base \in Nat,
           NEW r, r = runTx(st, tx, "deliver", h, base)
    PROVE  /\ r.code \in {"ok", "failed", "ante", "malformed"} /\ r.charge \in Nat /\ r.store \in Stores
           /\ IsCharged(r) => /\ tx.seq = st.seq[tx.signer] /\ ChargedOnce(st, tx, r.store)
                              /\ AnteHandle(st, tx, "deliver", h).store = Charged(st, tx)
                              /\ ~CannotPay(st, tx)
           /\ ~IsCharged(r) => r.store = st
           /\ r.code = "failed" => r.store.device = st.device
           /\ r.code = "ok" => Registered(st.device, tx.msgs, Len(tx.msgs), r.store.device)
           /\ r.code # "malformed" => r.charge <= tx.gas
<1> DEFINE ante == AnteHandle(st, tx, "deliver", h)
           run == runMsgs(ante.store, ante.used, tx, "deliver", h)
<1>1. /\ ante.used \in Nat /\ ante.ok \in BOOLEAN
      /\ ante.ok => /\ ~CannotPay(st, tx) /\ ante.store = Charged(st, tx)
                    /\ tx.seq = st.seq[tx.signer]
  BY AnteFacts
<1>2. tx.gas \in Nat
  BY TxFacts
<1>3. ASSUME ante.ok
      PROVE  /\ ante.store \in Stores /\ ante.store.device = st.device
             /\ ChargedOnce(st, tx, ante.store)
             /\ run \in MsgStates
             /\ run.ok => /\ SameAccounts(ante.store, run.store)
                          /\ Registered(st.device, tx.msgs, Len(tx.msgs), run.store.device)
  <2>1. ante.store \in Stores /\ ante.store.device = st.device /\ ChargedOnce(st, tx, ante.store)
    BY <1>1, <1>3, ChargedFacts DEF ChargedOnce
  <2> HIDE DEF ante
  <2>2. /\ run \in MsgStates
        /\ run.ok => /\ SameAccounts(ante.store, run.store)
                     /\ Registered(ante.store.device, tx.msgs, Len(tx.msgs), run.store.device)
    BY <1>1, <2>1, MsgsFacts
  <2> HIDE DEF run
  <2>3. QED
    BY <2>1, <2>2
<1>4. \/ r = [code |-> "malformed", store |-> st, charge |-> base]
      \/ r = [code |-> "ante", store |-> st, charge |-> Least(ante.used, tx.gas)]
      \/ ante.ok /\ r = [code |-> "failed", store |-> ante.store, charge |-> Least(run.used, tx.gas)]
      \/ ante.ok /\ run.ok /\ r = [code |-> "ok", store |-> run.store, charge |-> Least(run.used, tx.gas)]
  BY Zenon DEF runTx
<1>5. ante = AnteHandle(st, tx, "deliver", h)
  OBVIOUS
<1> HIDE DEF ante, run
<1>6. CASE r = [code |-> "malformed", store |-> st, charge |-> base]
  BY <1>6 DEF IsCharged
<1>7. CASE r = [code |-> "ante", store |-> st, charge |-> Least(ante.used, tx.gas)]
  <2>1. r.code = "ante" /\ r.store = st /\ r.charge = Least(ante.used, tx.gas)
    BY <1>7
  <2>2. r.charge \in Nat /\ r.charge <= tx.gas
    BY <1>1, <1>2, <2>1, LeastFacts
  <2>3. QED
    BY <2>1, <2>2 DEF IsCharged
<1>8. CASE ante.ok /\ r = [code |-> "failed", store |-> ante.store, charge |-> Least(run.used, tx.gas)]
  <2>1. run.used \in Nat
    BY <1>3, <1>8 DEF MsgStates
  <2>2. r.code = "failed" /\ r.store = ante.store /\ r.charge = Least(run.used, tx.gas)
    BY <1>8
  <2>3. r.charge \in Nat /\ r.charge <= tx.gas
    BY <1>2, <2>1, <2>2, LeastFacts
  <2>4. QED
    BY <1>1, <1>3, <1>5, <1>8, <2>2, <2>3 DEF IsCharged
<1>9. CASE ante.ok /\ run.ok /\ r = [code |-> "ok", store |-> run.store, charge |-> Least(run.used, tx.gas)]
  <2>1. run.used \in Nat /\ run.store \in Stores
    BY <1>3, <1>9 DEF MsgStates
  <2>2. ChargedOnce(st, tx, run.store)
    BY <1>3, <1>9 DEF ChargedOnce, SameAccounts
  <2>3. r.code = "ok" /\ r.store = run.store /\ r.charge = Least(run.used, tx.gas)
    BY <1>9
  <2>4. r.charge \in Nat /\ r.charge <= tx.gas
    BY <1>2, <2>1, <2>3, LeastFacts
  <2>5. QED
    BY <1>1, <1>3, <1>5, <1>9, <2>1, <2>2, <2>3, <2>4 DEF IsCharged
<1>10. QED
  BY <1>4, <1>6, <1>7, <1>8, <1>9

\* What a delivered transaction leaves, within the gas of its block.
LEMMA DeliverRunFacts ==
    ASSUME BaseAppConstants, NEW tx \in Txs, NEW st \in Stores, NEW h, NEW gas \in Nat,
           NEW base \in Nat, NEW r, r = runDeliver(st, tx, h, gas, base)
    PROVE  /\ r.code \in {"ok", "failed", "ante", "malformed", "full"}
           /\ r.charge \in Nat /\ r.store \in Stores
           /\ IsCharged(r) => tx.seq = st.seq[tx.signer] /\ ChargedOnce(st, tx, r.store)
           /\ ~IsCharged(r) => r.store = st
           /\ r.code = "failed" => r.store.device = st.device
           /\ r.code = "ok" => Registered(st.device, tx.msgs, Len(tx.msgs), r.store.device)
           /\ r.code = "ok" => gas + r.charge <= MaxBlockGas
           /\ r.code = "full" <=> gas >= MaxBlockGas
           /\ r.code # "malformed" => r.charge <= tx.gas
<1> DEFINE q == runTx(st, tx, "deliver", h, base)
           ante == AnteHandle(st, tx, "deliver", h)
<1>1. /\ q.code \in {"ok", "failed", "ante", "malformed"} /\ q.charge \in Nat /\ q.store \in Stores
      /\ IsCharged(q) => /\ tx.seq = st.seq[tx.signer] /\ ChargedOnce(st, tx, q.store)
                         /\ ante.store = Charged(st, tx) /\ ~CannotPay(st, tx)
      /\ ~IsCharged(q) => q.store = st
      /\ q.code = "failed" => q.store.device = st.device
      /\ q.code = "ok" => Registered(st.device, tx.msgs, Len(tx.msgs), q.store.device)
      /\ q.code # "malformed" => q.charge <= tx.gas
  BY TxRunFacts
<1>2. r = IF gas >= MaxBlockGas THEN [code |-> "full", store |-> st, charge |-> 0]
          ELSE IF q.code = "ok" /\ gas + q.charge > MaxBlockGas
               THEN [code |-> "failed", store |-> ante.store, charge |-> q.charge]
               ELSE q
  BY DEF runDeliver
<1> HIDE DEF q, ante
<1>3. MaxBlockGas \in Nat /\ tx.gas \in Nat
  BY TxFacts DEF BaseAppConstants
<1>4. CASE gas >= MaxBlockGas
  <2>1. r = [code |-> "full", store |-> st, charge |-> 0]
    BY <1>2, <1>4
  <2>2. QED
    BY <1>3, <1>4, <2>1 DEF IsCharged
<1>5. CASE ~(gas >= MaxBlockGas) /\ q.code = "ok" /\ gas + q.charge > MaxBlockGas
  <2>1. r = [code |-> "failed", store |-> ante.store, charge |-> q.charge]
    BY <1>2, <1>5
  <2>2. ante.store = Charged(st, tx) /\ ~CannotPay(st, tx) /\ tx.seq = st.seq[tx.signer]
    BY <1>1, <1>5 DEF IsCharged
  <2>3. ante.store \in Stores /\ ante.store.device = st.device /\ ChargedOnce(st, tx, ante.store)
    BY <2>2, ChargedFacts DEF ChargedOnce
  <2>4. QED
    BY <1>1, <1>3, <1>5, <2>1, <2>2, <2>3 DEF IsCharged
<1>6. CASE ~(gas >= MaxBlockGas) /\ ~(q.code = "ok" /\ gas + q.charge > MaxBlockGas)
  <2>1. r = q
    BY <1>2, <1>6
  <2>2. QED
    BY <1>1, <1>3, <1>6, <2>1 DEF IsCharged
<1>7. QED
  BY <1>4, <1>5, <1>6

-----------------------------------------------------------------------------
(* The outcome of a log *)

ChargesIn(l, a, h) ==
    {i \in DOMAIN l : l[i].height <= h /\ IsCharged(l[i]) /\ l[i].tx.signer = a}
AllCharges(l, h) == {i \in DOMAIN l : l[i].height <= h /\ IsCharged(l[i])}
FeesIn(l, S) == SumFunction([i \in S |-> l[i].tx.fee])
MsgsOn(tx, d) == {k \in DOMAIN tx.msgs : tx.msgs[k].device = d}
WritesIn(l, d, h) ==
    UNION {{<<i, k>> : k \in MsgsOn(l[i].tx, d)} :
           i \in {i \in DOMAIN l : l[i].height <= h /\ l[i].code = "ok"}}
LastWrite(l, d, h, dev) ==
    \/ WritesIn(l, d, h) = {} /\ dev[d] = NoAddr
    \/ \E w \in WritesIn(l, d, h) : /\ IsLast(w, WritesIn(l, d, h))
                                    /\ dev[d] = l[w[1]].tx.msgs[w[2]].addr

\* OutcomeOf, of any log.
Outcome(l, st, h) ==
    /\ \A a \in Accounts : /\ st.seq[a] = Cardinality(ChargesIn(l, a, h))
                           /\ st.bal[a] = InitBal - FeesIn(l, ChargesIn(l, a, h))
    /\ st.fees = FeesIn(l, AllCharges(l, h))
    /\ \A d \in Devices : LastWrite(l, d, h, st.device)

\* It is OutcomeOf of the log.
LEMMA OutcomeOfLog ==
    ASSUME BaseAppConstants, log \in Seq(Entries), NEW st, NEW h, Outcome(log, st, h)
    PROVE  OutcomeOf(st, h)
<1>1. \A a : ChargesOf(a, h) = ChargesIn(log, a, h) /\ ChargesIn(log, a, h) \subseteq DOMAIN log
  BY DEF ChargesOf, ChargesIn
<1>2. UNION {ChargesOf(a, h) : a \in Accounts} = AllCharges(log, h)
  <2>1. ASSUME NEW i \in DOMAIN log PROVE log[i].tx.signer \in Accounts
    <3>1. log[i].tx \in Txs
      <4>1. log[i] \in Entries
        OBVIOUS
      <4>2. QED
        BY <4>1 DEF Entries
    <3>2. QED
      BY <3>1, TxFacts
  <2>2. QED
    BY <2>1 DEF ChargesOf, AllCharges
<1>3. ASSUME NEW S \in SUBSET DOMAIN log PROVE FeeSum(LogTxs, S) = FeesIn(log, S)
  <2>1. [i \in S |-> LogTxs[i].fee] = [i \in S |-> log[i].tx.fee]
    BY DEF LogTxs
  <2>2. QED
    BY <2>1 DEF FeeSum, FeesIn
<1>4. AllCharges(log, h) \subseteq DOMAIN log
  BY DEF AllCharges
<1>5. \A d : Writes(d, h) = WritesIn(log, d, h)
  BY Zenon DEF Writes, WritesIn, MsgsOn
<1>6. \A a \in Accounts : /\ st.seq[a] = Cardinality(ChargesOf(a, h))
                          /\ st.bal[a] = InitBal - FeeSum(LogTxs, ChargesOf(a, h))
  BY <1>1, <1>3 DEF Outcome
<1>7. st.fees = FeeSum(LogTxs, UNION {ChargesOf(a, h) : a \in Accounts})
  BY <1>2, <1>3, <1>4 DEF Outcome
<1>8. \A d \in Devices :
          \/ Writes(d, h) = {} /\ st.device[d] = NoAddr
          \/ \E w \in Writes(d, h) : /\ IsLast(w, Writes(d, h))
                                     /\ st.device[d] = log[w[1]].tx.msgs[w[2]].addr
  BY <1>5 DEF Outcome, LastWrite
<1>9. QED
  BY <1>6, <1>7, <1>8 DEF OutcomeOf

\* The outcome depends on the entries up to the height.
LEMMA OutcomeFrame ==
    ASSUME NEW l \in Seq(Entries), NEW m \in Seq(Entries), NEW h \in Nat, NEW q \in Nat,
           \A i \in DOMAIN l : l[i].height <= h => i \in DOMAIN m /\ m[i] = l[i] /\ m[i].height <= q,
           \A i \in DOMAIN m : m[i].height <= q => i \in DOMAIN l /\ m[i] = l[i] /\ l[i].height <= h,
           NEW st, Outcome(l, st, h)
    PROVE  Outcome(m, st, q)
<1>1. \A a : ChargesIn(l, a, h) = ChargesIn(m, a, q)
  BY DEF ChargesIn
<1>2. AllCharges(l, h) = AllCharges(m, q)
  BY DEF AllCharges
<1>3. ASSUME NEW S, \A i \in S : m[i] = l[i] PROVE FeesIn(l, S) = FeesIn(m, S)
  <2>1. [i \in S |-> l[i].tx.fee] = [i \in S |-> m[i].tx.fee]
    BY <1>3
  <2>2. QED
    BY <2>1 DEF FeesIn
<1>4. \A a : \A i \in ChargesIn(l, a, h) : m[i] = l[i]
  BY DEF ChargesIn
<1>5. \A i \in AllCharges(l, h) : m[i] = l[i]
  BY DEF AllCharges
<1>6. \A d : WritesIn(l, d, h) = WritesIn(m, d, q)
  <2>1. {i \in DOMAIN l : l[i].height <= h /\ l[i].code = "ok"} = {i \in DOMAIN m : m[i].height <= q /\ m[i].code = "ok"}
    OBVIOUS
  <2> DEFINE K == {i \in DOMAIN l : l[i].height <= h /\ l[i].code = "ok"}
  <2>2. \A i \in K : m[i] = l[i]
    OBVIOUS
  <2> HIDE DEF K
  <2>3. \A d : WritesIn(l, d, h) = UNION {{<<i, k>> : k \in MsgsOn(l[i].tx, d)} : i \in K}
    BY Zenon DEF WritesIn, K
  <2>4. \A d : WritesIn(m, d, q) = UNION {{<<i, k>> : k \in MsgsOn(m[i].tx, d)} : i \in K}
    BY <2>1, Zenon DEF WritesIn, K
  <2>5. ASSUME NEW d, NEW w PROVE w \in WritesIn(l, d, h) <=> w \in WritesIn(m, d, q)
    <3>1. w \in WritesIn(l, d, h) <=> \E i \in K : \E k \in MsgsOn(l[i].tx, d) : w = <<i, k>>
      BY <2>3
    <3>2. w \in WritesIn(m, d, q) <=> \E i \in K : \E k \in MsgsOn(m[i].tx, d) : w = <<i, k>>
      BY <2>4
    <3>3. QED
      BY <2>2, <3>1, <3>2
  <2>6. ASSUME NEW d PROVE WritesIn(l, d, h) = WritesIn(m, d, q)
    <3> DEFINE L1 == WritesIn(l, d, h)
               L2 == WritesIn(m, d, q)
    <3>1. \A w : w \in L1 <=> w \in L2
      BY <2>5
    <3> HIDE DEF L1, L2
    <3>2. L1 = L2
      BY <3>1
    <3>3. QED
      BY <3>2 DEF L1, L2
  <2>7. QED
    BY <2>6
<1>7. \A d : \A w \in WritesIn(l, d, h) : l[w[1]] = m[w[1]]
  BY DEF WritesIn
<1>8. \A d \in Devices : LastWrite(m, d, q, st.device)
  BY <1>6, <1>7 DEF Outcome, LastWrite
<1>9. \A a \in Accounts : /\ st.seq[a] = Cardinality(ChargesIn(m, a, q))
                          /\ st.bal[a] = InitBal - FeesIn(m, ChargesIn(m, a, q))
  BY <1>1, <1>3, <1>4 DEF Outcome
<1>10. st.fees = FeesIn(m, AllCharges(m, q))
  BY <1>2, <1>3, <1>5 DEF Outcome
<1>11. QED
  BY <1>8, <1>9, <1>10 DEF Outcome

\* Positions of a log are a finite set.
LEMMA LogFinite ==
    ASSUME NEW l \in Seq(Entries)
    PROVE  /\ Len(l) \in Nat /\ DOMAIN l = 1 .. Len(l) /\ IsFiniteSet(DOMAIN l)
           /\ \A S \in SUBSET DOMAIN l : IsFiniteSet(S) /\ Cardinality(S) \in Nat
           /\ \A i \in DOMAIN l : l[i] \in Entries
<1>1. Len(l) \in Nat /\ DOMAIN l = 1 .. Len(l) /\ \A i \in DOMAIN l : l[i] \in Entries
  OBVIOUS
<1>2. IsFiniteSet(DOMAIN l)
  BY <1>1, FS_Interval
<1>3. QED
  BY <1>1, <1>2, FS_Subset, FS_CardinalityType

\* Log m is l with entry e.
Longer(m, l, e) == m = Append(l, e)

\* An entry is appended.
LEMMA Appended ==
    ASSUME NEW l \in Seq(Entries), NEW e \in Entries, NEW m, Longer(m, l, e)
    PROVE  /\ m \in Seq(Entries) /\ Len(m) = Len(l) + 1
           /\ Len(m) \in Nat /\ Len(m) \notin DOMAIN l /\ DOMAIN m = DOMAIN l \cup {Len(m)}
           /\ m[Len(m)] = e /\ \A i \in DOMAIN l : m[i] = l[i]
  BY DEF Longer

\* The logs agree at S, where fees are numbers.
AgreeAt(l, m, S) == \A i \in S : m[i] = l[i] /\ l[i].tx.fee \in Int

\* T is S with n, which is not in S.
OneMore(T, S, n) == n \notin S /\ T = S \cup {n}

\* The fees at the same positions, and with one more.
LEMMA FeesWith ==
    ASSUME NEW l, NEW m, NEW S, IsFiniteSet(S), AgreeAt(l, m, S),
           NEW n, NEW T, OneMore(T, S, n), m[n].tx.fee \in Int
    PROVE  /\ FeesIn(l, S) \in Int /\ FeesIn(m, S) = FeesIn(l, S)
           /\ FeesIn(m, T) = FeesIn(l, S) + m[n].tx.fee
<1> DEFINE f == [i \in S |-> l[i].tx.fee]
           g == [i \in T |-> m[i].tx.fee]
<1>1. f \in [S -> Int] /\ [i \in S |-> m[i].tx.fee] = f
  BY DEF AgreeAt
<1>2. g[n] = m[n].tx.fee /\ Extends(g, f, S, n)
  BY DEF Extends, OneMore, AgreeAt
<1>3. FeesIn(l, S) = SumFunction(f) /\ FeesIn(m, T) = SumFunction(g)
  BY Zenon DEF FeesIn
<1>4. FeesIn(m, S) = SumFunction(f)
  BY <1>1 DEF FeesIn
<1> HIDE DEF f, g
<1>5. SumFunction(g) = SumFunction(f) + g[n]
  BY <1>1, <1>2, SumExtended DEF OneMore
<1>6. SumFunction(f) \in Int
  BY <1>1, SumFacts
<1>7. QED
  BY <1>2, <1>3, <1>4, <1>5, <1>6

\* The fees at positions of a log, and with the appended entry.
LEMMA FeesAppended ==
    ASSUME BaseAppConstants, NEW l \in Seq(Entries), NEW e \in Entries, NEW m, Longer(m, l, e),
           NEW S \in SUBSET DOMAIN l, NEW n, n = Len(m), NEW T, OneMore(T, S, n)
    PROVE  /\ FeesIn(l, S) \in Int /\ FeesIn(m, S) = FeesIn(l, S)
           /\ FeesIn(m, T) = FeesIn(l, S) + e.tx.fee
<1>1. /\ m[n] = e /\ \A i \in S : m[i] = l[i] /\ l[i] \in Entries
  <2>1. m[Len(m)] = e /\ \A i \in DOMAIN l : m[i] = l[i]
    BY Appended, Zenon
  <2>2. \A i \in DOMAIN l : l[i] \in Entries
    BY LogFinite, Zenon
  <2>3. QED
    BY <2>1, <2>2, Zenon
<1>2. m[n].tx.fee \in Int /\ AgreeAt(l, m, S)
  BY <1>1, TxFacts DEF Entries, AgreeAt
<1>3. IsFiniteSet(S)
  BY LogFinite
<1>4. /\ FeesIn(l, S) \in Int /\ FeesIn(m, S) = FeesIn(l, S)
      /\ FeesIn(m, T) = FeesIn(l, S) + m[n].tx.fee
  BY <1>2, <1>3, FeesWith
<1>5. QED
  BY <1>1, <1>4

\* The outcome with one transaction more.
LEMMA OutcomeAppended ==
    ASSUME BaseAppConstants, NEW l \in Seq(Entries), NEW e \in Entries, NEW m, Longer(m, l, e),
           NEW h \in Nat, e.height = h, \A i \in DOMAIN l : l[i].height <= h,
           NEW st \in Stores, NEW r \in Stores, Outcome(l, st, h),
           IsCharged(e) => ChargedOnce(st, e.tx, r), ~IsCharged(e) => r = st,
           e.code = "failed" => r.device = st.device,
           e.code = "ok" => Registered(st.device, e.tx.msgs, Len(e.tx.msgs), r.device)
    PROVE  Outcome(m, r, h)
<1> DEFINE n == Len(m)
<1>1. /\ m \in Seq(Entries) /\ n \in Nat /\ n = Len(l) + 1 /\ n \notin DOMAIN l /\ DOMAIN m = DOMAIN l \cup {n}
      /\ m[n] = e /\ \A i \in DOMAIN l : m[i] = l[i]
  BY DEF Longer
<1> HIDE DEF n
<1>2. e.tx \in Txs /\ e.tx.signer \in Accounts /\ e.tx.fee \in Nat
  BY TxFacts DEF Entries
<1>3. ASSUME NEW a \in Accounts
      PROVE  /\ r.seq[a] = Cardinality(ChargesIn(m, a, h))
             /\ r.bal[a] = InitBal - FeesIn(m, ChargesIn(m, a, h))
  <2> DEFINE S == ChargesIn(l, a, h)
             T == S \cup {n}
  <2>1. S \in SUBSET DOMAIN l /\ IsFiniteSet(S) /\ Cardinality(S) \in Nat /\ n \notin S
    BY <1>1, LogFinite DEF ChargesIn
  <2>2. st.seq[a] = Cardinality(S) /\ st.bal[a] = InitBal - FeesIn(l, S)
    BY DEF Outcome
  <2>3. /\ FeesIn(l, S) \in Int /\ FeesIn(m, S) = FeesIn(l, S)
        /\ FeesIn(m, T) = FeesIn(l, S) + e.tx.fee
    <3>1. OneMore(T, S, n) /\ n = Len(m)
      BY <2>1 DEF n, OneMore
    <3> HIDE DEF S, T
    <3>2. QED
      BY <2>1, <3>1, FeesAppended
  <2>4. CASE IsCharged(e) /\ e.tx.signer = a
    <3>1. ChargesIn(m, a, h) = T
      BY <1>1, <2>4 DEF ChargesIn
    <3>2. Cardinality(T) = Cardinality(S) + 1
      BY <2>1, FS_AddElement
    <3>3. r.seq[a] = st.seq[a] + 1 /\ r.bal[a] = st.bal[a] - e.tx.fee
      BY <2>4 DEF ChargedOnce
    <3>4. InitBal \in Nat
      BY DEF BaseAppConstants
    <3> HIDE DEF S, T
    <3>5. QED
      BY <1>2, <2>2, <2>3, <3>1, <3>2, <3>3, <3>4
  <2>5. CASE ~(IsCharged(e) /\ e.tx.signer = a)
    <3>1. ChargesIn(m, a, h) = S
      BY <1>1, <2>5 DEF ChargesIn
    <3>2. r.seq[a] = st.seq[a] /\ r.bal[a] = st.bal[a]
      BY <2>5 DEF ChargedOnce
    <3> HIDE DEF S, T
    <3>3. QED
      BY <2>2, <2>3, <3>1, <3>2
  <2>6. QED
    BY <2>4, <2>5
<1>4. r.fees = FeesIn(m, AllCharges(m, h))
  <2> DEFINE S == AllCharges(l, h)
             T == S \cup {n}
  <2>1. S \in SUBSET DOMAIN l /\ n \notin S
    BY <1>1 DEF AllCharges
  <2>2. st.fees = FeesIn(l, S)
    BY DEF Outcome
  <2>3. /\ FeesIn(l, S) \in Int /\ FeesIn(m, S) = FeesIn(l, S)
        /\ FeesIn(m, T) = FeesIn(l, S) + e.tx.fee
    <3>1. OneMore(T, S, n) /\ n = Len(m)
      BY <2>1 DEF n, OneMore
    <3> HIDE DEF S, T
    <3>2. QED
      BY <2>1, <3>1, FeesAppended
  <2>4. CASE IsCharged(e)
    <3>1. AllCharges(m, h) = T
      BY <1>1, <2>4 DEF AllCharges
    <3>2. r.fees = st.fees + e.tx.fee
      BY <2>4 DEF ChargedOnce
    <3> HIDE DEF S, T
    <3>3. QED
      BY <2>2, <2>3, <3>1, <3>2
  <2>5. CASE ~IsCharged(e)
    <3>1. AllCharges(m, h) = S
      BY <1>1, <2>5 DEF AllCharges
    <3> HIDE DEF S, T
    <3>2. QED
      BY <2>2, <2>3, <2>5, <3>1
  <2>6. QED
    BY <2>4, <2>5
<1>5. ASSUME NEW d \in Devices PROVE LastWrite(m, d, h, r.device)
  <2> DEFINE W == WritesIn(l, d, h)
             Z == WritesIn(m, d, h)
  <2>1. \A w : w \in W <=> \E i \in DOMAIN l : /\ l[i].height <= h /\ l[i].code = "ok"
                                               /\ \E k \in MsgsOn(l[i].tx, d) : w = <<i, k>>
    BY DEF WritesIn
  <2>2. \A w : w \in Z <=> \E i \in DOMAIN m : /\ m[i].height <= h /\ m[i].code = "ok"
                                               /\ \E k \in MsgsOn(m[i].tx, d) : w = <<i, k>>
    BY DEF WritesIn
  <2>3. \/ W = {} /\ st.device[d] = NoAddr
        \/ \E w \in W : IsLast(w, W) /\ st.device[d] = l[w[1]].tx.msgs[w[2]].addr
    BY DEF Outcome, LastWrite
  <2>4. LastWrite(m, d, h, r.device) <=>
           \/ Z = {} /\ r.device[d] = NoAddr
           \/ \E w \in Z : IsLast(w, Z) /\ r.device[d] = m[w[1]].tx.msgs[w[2]].addr
    BY DEF LastWrite
  <2> HIDE DEF W, Z
  <2>5. \A w : w \in Z <=> w \in W \/ (e.code = "ok" /\ \E k \in MsgsOn(e.tx, d) : w = <<n, k>>)
    <3>1. ASSUME NEW w, w \in Z PROVE w \in W \/ (e.code = "ok" /\ \E k \in MsgsOn(e.tx, d) : w = <<n, k>>)
      BY <1>1, <2>1, <2>2, <3>1
    <3>2. ASSUME NEW w, w \in W PROVE w \in Z
      BY <1>1, <2>1, <2>2, <3>2
    <3>3. ASSUME NEW k \in MsgsOn(e.tx, d), e.code = "ok" PROVE <<n, k>> \in Z
      BY <1>1, <2>2, <3>3
    <3>4. QED
      BY <3>1, <3>2, <3>3
  <2>6. \A w \in W : w[1] \in DOMAIN l /\ w[1] < n
    <3>1. DOMAIN l = 1 .. Len(l) /\ Len(l) \in Nat
      BY LogFinite
    <3>2. \A i \in DOMAIN l : i < n
      BY <1>1, <3>1
    <3>3. QED
      BY <2>1, <3>2
  <2>7. ASSUME Z = W, r.device[d] = st.device[d] PROVE LastWrite(m, d, h, r.device)
    BY <1>1, <2>3, <2>4, <2>6, <2>7
  <2>8. CASE e.code # "ok"
    <3>1. Z = W
      BY <2>5, <2>8
    <3>2. r.device = st.device
      BY <2>8 DEF IsCharged
    <3>3. QED
      BY <2>7, <3>1, <3>2
  <2>9. CASE e.code = "ok"
    <3> DEFINE msgs == e.tx.msgs
    <3>1. DOMAIN msgs = 1 .. Len(msgs) /\ \A k : k \in MsgsOn(e.tx, d) <=> k \in 1 .. Len(msgs) /\ msgs[k].device = d
      BY <1>2, TxFacts DEF MsgsOn
    <3>2. \/ (\A k \in 1 .. Len(msgs) : msgs[k].device # d) /\ r.device[d] = st.device[d]
          \/ \E k \in 1 .. Len(msgs) : /\ msgs[k].device = d /\ r.device[d] = msgs[k].addr
                                       /\ \A j \in 1 .. Len(msgs) : msgs[j].device = d => j <= k
      BY <2>9 DEF Registered
    <3>3. CASE (\A k \in 1 .. Len(msgs) : msgs[k].device # d) /\ r.device[d] = st.device[d]
      <4>1. \A w : w \in Z <=> w \in W
        BY <2>5, <3>1, <3>3
      <4>2. Z = W
        BY <4>1
      <4>3. QED
        BY <2>7, <3>3, <4>2
    <3>4. ASSUME NEW k \in 1 .. Len(msgs), msgs[k].device = d, r.device[d] = msgs[k].addr,
                 \A j \in 1 .. Len(msgs) : msgs[j].device = d => j <= k
          PROVE  LastWrite(m, d, h, r.device)
      <4>1. <<n, k>> \in Z
        BY <2>5, <2>9, <3>1, <3>4
      <4>2. ASSUME NEW v \in Z PROVE v[1] < n \/ (v[1] = n /\ v[2] <= k)
        <5>1. CASE v \in W
          BY <2>6, <5>1
        <5>2. ASSUME NEW j \in MsgsOn(e.tx, d), v = <<n, j>> PROVE v[1] = n /\ v[2] <= k
          BY <3>1, <3>4, <5>2
        <5>3. QED
          BY <2>5, <5>1, <5>2
      <4>3. IsLast(<<n, k>>, Z)
        BY <4>1, <4>2 DEF IsLast
      <4>4. m[n].tx.msgs[k].addr = r.device[d]
        BY <1>1, <3>4
      <4>5. QED
        BY <2>4, <4>1, <4>3, <4>4
    <3>5. QED
      BY <3>2, <3>3, <3>4
  <2>10. QED
    BY <2>8, <2>9
<1>6. QED
  BY <1>3, <1>4, <1>5 DEF Outcome

-----------------------------------------------------------------------------
(* What holds of every log *)

\* The positions before i where the account of i was charged.
Earlier(l, i) == {j \in DOMAIN l : j < i /\ IsCharged(l[j]) /\ l[j].tx.signer = l[i].tx.signer}
InOrder(l) == \A i \in DOMAIN l : IsCharged(l[i]) => l[i].tx.seq = Cardinality(Earlier(l, i))

\* The gas of block h among the first n entries.
At(l, n, h) == {j \in 1 .. n : l[j].height = h}
GasIn(l, n, h) == SumFunction([j \in At(l, n, h) |-> l[j].charge])
GasFits(l, i) ==
    /\ l[i].code = "ok" => GasIn(l, i, l[i].height) <= MaxBlockGas
    /\ l[i].code = "full" <=> GasIn(l, i, l[i].height) - l[i].charge >= MaxBlockGas
    /\ l[i].code # "malformed" => l[i].charge <= l[i].tx.gas

\* Blocks follow each other.
Rising(l) == \A i, j \in DOMAIN l : i < j => l[i].height <= l[j].height

LogOK(l) == InOrder(l) /\ (\A i \in DOMAIN l : GasFits(l, i)) /\ Rising(l)

\* m agrees with l on the first n entries.
AgreeTo(l, m, n) == \A i \in 1 .. n : i \in DOMAIN l /\ i \in DOMAIN m /\ m[i] = l[i]

\* What is said of an entry depends on those before it.
LEMMA EntryKept ==
    ASSUME NEW l \in Seq(Entries), NEW m \in Seq(Entries), NEW n \in Nat, AgreeTo(l, m, n),
           LogOK(l), NEW i \in 1 .. n
    PROVE  /\ IsCharged(m[i]) => m[i].tx.seq = Cardinality(Earlier(m, i))
           /\ GasFits(m, i)
<1>1. m[i] = l[i] /\ i \in DOMAIN l
  BY DEF AgreeTo
<1>2. Earlier(m, i) = Earlier(l, i)
  <2>1. ASSUME NEW j, j \in DOMAIN l \/ j \in DOMAIN m, j < i PROVE j \in DOMAIN l /\ j \in DOMAIN m /\ m[j] = l[j]
    <3>1. j \in 1 .. n
      BY <2>1
    <3>2. QED
      BY <3>1 DEF AgreeTo
  <2>2. \A j : j \in Earlier(m, i) <=> j \in Earlier(l, i)
    BY <1>1, <2>1 DEF Earlier
  <2>3. QED
    BY <2>2
<1>3. GasIn(m, i, m[i].height) = GasIn(l, i, l[i].height)
  <2> DEFINE h == l[i].height
  <2>1. \A j \in 1 .. i : j \in 1 .. n /\ m[j] = l[j]
    BY DEF AgreeTo
  <2> HIDE DEF h
  <2>2. At(m, i, h) = At(l, i, h) /\ \A j \in At(l, i, h) : m[j] = l[j]
    BY <2>1 DEF At
  <2>3. [j \in At(m, i, h) |-> m[j].charge] = [j \in At(l, i, h) |-> l[j].charge]
    <3> DEFINE A == At(l, i, h)
    <3>1. At(m, i, h) = A /\ \A j \in A : m[j] = l[j]
      BY <2>2
    <3> HIDE DEF A
    <3>2. [j \in A |-> m[j].charge] = [j \in A |-> l[j].charge]
      BY <3>1
    <3>3. QED
      BY <3>1, <3>2, Zenon DEF A
  <2>4. GasIn(m, i, h) = GasIn(l, i, h)
    BY <2>3 DEF GasIn
  <2>5. QED
    BY <1>1, <2>4 DEF h
<1>4. GasFits(l, i) /\ (IsCharged(l[i]) => l[i].tx.seq = Cardinality(Earlier(l, i)))
  BY <1>1 DEF LogOK, InOrder
<1>5. GasFits(m, i)
  BY <1>1, <1>3, <1>4 DEF GasFits
<1>6. QED
  BY <1>1, <1>2, <1>4, <1>5

\* The start of a log is one.
LEMMA StartKept ==
    ASSUME NEW l \in Seq(Entries), NEW m \in Seq(Entries), AgreeTo(l, m, Len(m)), LogOK(l)
    PROVE  LogOK(m)
<1>1. Len(m) \in Nat /\ DOMAIN m = 1 .. Len(m)
  BY LogFinite, Zenon
<1>2. ASSUME NEW i \in DOMAIN m
      PROVE  /\ IsCharged(m[i]) => m[i].tx.seq = Cardinality(Earlier(m, i))
             /\ GasFits(m, i)
  BY <1>1, EntryKept
<1>3. Rising(m)
  <2>1. \A i \in DOMAIN m : i \in DOMAIN l /\ m[i] = l[i]
    BY <1>1 DEF AgreeTo
  <2>2. Rising(l)
    BY DEF LogOK
  <2>3. QED
    BY <2>1, <2>2 DEF Rising
<1>4. QED
  BY <1>2, <1>3 DEF LogOK, InOrder

\* The gas of a block with one entry more.
LEMMA GasAppended ==
    ASSUME NEW l \in Seq(Entries), NEW e \in Entries, NEW m, Longer(m, l, e)
    PROVE  /\ GasIn(l, Len(l), e.height) \in Nat
           /\ GasIn(m, Len(m), e.height) = GasIn(l, Len(l), e.height) + e.charge
<1> DEFINE n == Len(m)
           h == e.height
           S == At(l, Len(l), h)
           T == At(m, n, h)
           f == [j \in S |-> l[j].charge]
           g == [j \in T |-> m[j].charge]
<1>1. /\ m \in Seq(Entries) /\ n \in Nat /\ n = Len(l) + 1 /\ n \notin DOMAIN l /\ DOMAIN m = DOMAIN l \cup {n}
      /\ m[n] = e /\ \A i \in DOMAIN l : m[i] = l[i]
  BY DEF Longer
<1>2. Len(l) \in Nat /\ DOMAIN l = 1 .. Len(l) /\ \A i \in DOMAIN l : l[i] \in Entries
  BY LogFinite, Zenon
<1> HIDE DEF n
<1>3. 1 .. n = DOMAIN l \cup {n} /\ m[n].height = h
  BY <1>1, <1>2
<1>4. OneMore(T, S, n)
  BY <1>1, <1>2, <1>3 DEF OneMore, At
<1>5. S \subseteq DOMAIN l /\ IsFiniteSet(S)
  <2>1. S \subseteq DOMAIN l
    BY <1>2 DEF At
  <2>2. QED
    BY <2>1, LogFinite
<1>6. e.charge \in Nat /\ \A j \in S : l[j].charge \in Nat /\ m[j] = l[j]
  BY <1>1, <1>2, <1>5 DEF Entries
<1> HIDE DEF S, T, h
<1>7. f \in [S -> Nat] /\ f \in [S -> Int]
  BY <1>6
<1>8. Extends(g, f, S, n) /\ g[n] = e.charge
  BY <1>1, <1>4, <1>6 DEF Extends, OneMore
<1>9. GasIn(l, Len(l), h) = SumFunction(f) /\ GasIn(m, n, h) = SumFunction(g)
  BY Zenon DEF GasIn, S, T
<1> HIDE DEF f, g
<1>10. SumFunction(f) \in Nat
  BY <1>5, <1>7, SumNat
<1>11. SumFunction(g) = SumFunction(f) + g[n]
  BY <1>4, <1>5, <1>7, <1>8, SumExtended DEF OneMore
<1>12. QED
  BY <1>8, <1>9, <1>10, <1>11 DEF n, h

\* A transaction that carries the sequence its account has in the log, and fits
\* the block, is logged.
LEMMA EntryLogged ==
    ASSUME BaseAppConstants, NEW l \in Seq(Entries), NEW e \in Entries, NEW m, Longer(m, l, e), LogOK(l),
           \A i \in DOMAIN l : l[i].height <= e.height,
           IsCharged(e) => e.tx.seq = Cardinality(ChargesIn(l, e.tx.signer, e.height)),
           NEW gas, gas = GasIn(l, Len(l), e.height),
           e.code = "ok" => gas + e.charge <= MaxBlockGas,
           e.code = "full" <=> gas >= MaxBlockGas,
           e.code # "malformed" => e.charge <= e.tx.gas
    PROVE  LogOK(m) /\ GasIn(m, Len(m), e.height) = gas + e.charge
<1> DEFINE n == Len(m)
<1>1. /\ m \in Seq(Entries) /\ n \in Nat /\ n = Len(l) + 1 /\ n \notin DOMAIN l /\ DOMAIN m = DOMAIN l \cup {n}
      /\ m[n] = e /\ \A i \in DOMAIN l : m[i] = l[i]
  BY DEF Longer
<1>2. Len(l) \in Nat /\ DOMAIN l = 1 .. Len(l) /\ \A i \in DOMAIN l : l[i] \in Entries
  BY LogFinite, Zenon
<1>3. gas \in Nat /\ GasIn(m, n, e.height) = gas + e.charge /\ e.charge \in Nat
  BY GasAppended DEF Entries
<1> HIDE DEF n
<1>4. AgreeTo(l, m, Len(l)) /\ \A i \in DOMAIN l : i < n
  BY <1>1, <1>2 DEF AgreeTo
<1>5. ASSUME NEW i \in DOMAIN l
      PROVE  /\ IsCharged(m[i]) => m[i].tx.seq = Cardinality(Earlier(m, i))
             /\ GasFits(m, i)
  BY <1>1, <1>2, <1>4, EntryKept
<1>6. Earlier(m, n) = ChargesIn(l, e.tx.signer, e.height)
  BY <1>1, <1>4 DEF Earlier, ChargesIn
<1>7. IsCharged(m[n]) => m[n].tx.seq = Cardinality(Earlier(m, n))
  BY <1>1, <1>6
<1>8. GasFits(m, n)
  <2>1. GasIn(m, n, m[n].height) = gas + e.charge /\ (gas + e.charge) - e.charge = gas
    BY <1>1, <1>3
  <2>2. QED
    BY <1>1, <2>1 DEF GasFits
<1>9. Rising(m)
  <2>1. ASSUME NEW i \in DOMAIN m, NEW j \in DOMAIN m, i < j PROVE m[i].height <= m[j].height
    <3>1. i \in DOMAIN l
      BY <1>1, <1>2, <2>1
    <3>2. CASE j \in DOMAIN l
      BY <1>1, <2>1, <3>1, <3>2 DEF LogOK, Rising
    <3>3. CASE j = n
      BY <1>1, <3>1, <3>3
    <3>4. QED
      BY <1>1, <3>2, <3>3
  <2>2. QED
    BY <2>1 DEF Rising
<1>10. \A i \in DOMAIN m : GasFits(m, i) /\ (IsCharged(m[i]) => m[i].tx.seq = Cardinality(Earlier(m, i)))
  BY <1>1, <1>5, <1>7, <1>8
<1>11. LogOK(m)
  BY <1>9, <1>10 DEF LogOK, InOrder
<1>12. QED
  BY <1>3, <1>11 DEF n

-----------------------------------------------------------------------------
(* The mempool *)

\* The rest of a sequence is one, no longer than it.
LEMMA WithoutFacts ==
    ASSUME NEW V, NEW s \in Seq(V), NEW S
    PROVE  Without(s, S) \in Seq(V)
<1> DEFINE n == Len(s)
           Step(r, i) == IF s[i] \in S THEN r ELSE Append(r, s[i])
           Res(f) == f = [i \in 0 .. n |-> IF i = 0 THEN <<>>
                                           ELSE IF s[i] \in S THEN f[i - 1] ELSE Append(f[i - 1], s[i])]
           res == CHOOSE f : Res(f)
<1>1. Without(s, S) = res[n]
  BY Zenon DEF Without
<1>2. n \in Nat /\ <<>> \in Seq(V) /\ \A i \in 1 .. n : s[i] \in V
  OBVIOUS
<1>3. ASSUME NEW i \in 1 .. n, NEW r \in Seq(V) PROVE Step(r, i) \in Seq(V)
  <2>1. s[i] \in V
    BY <1>2
  <2>2. Append(r, s[i]) \in Seq(V)
    BY <2>1
  <2>3. QED
    BY <2>2
<1> HIDE DEF n
<1>4. \E f : Res(f)
  <2> DEFINE g == [p \in (1 .. n) \X Seq(V) |-> Step(p[2], p[1])]
  <2> HIDE DEF Step
  <2>1. g \in [(1 .. n) \X Seq(V) -> Seq(V)]
    BY <1>3
  <2>2. \A i \in 1 .. n, r \in Seq(V) : g[<<i, r>>] = Step(r, i)
    OBVIOUS
  <2> HIDE DEF g
  <2>3. PICK f \in [0 .. n -> Seq(V)] :
             \A i \in 0 .. n : f[i] = IF i = 0 THEN <<>> ELSE g[<<i, f[i - 1]>>]
    <3> DEFINE W == Seq(V)
               x == <<>>
    <3> HIDE DEF Res, res
    <3>1. x \in W /\ g \in [(1 .. n) \X W -> W] /\ n \in Nat
      BY <1>2, <2>1
    <3> HIDE DEF W, x
    <3>2. PICK f : Steps(f, W, x, n, g)
      BY <3>1, StepsExist, Zenon
    <3>3. QED
      BY <3>2 DEF W, x, Steps
  <2>4. ASSUME NEW i \in 0 .. n PROVE f[i] = IF i = 0 THEN <<>> ELSE Step(f[i - 1], i)
    <3>1. i # 0 => i \in 1 .. n /\ i - 1 \in 0 .. n
      BY <1>2
    <3>2. QED
      BY <2>2, <2>3, <3>1
  <2>5. f = [i \in 0 .. n |-> IF i = 0 THEN <<>> ELSE Step(f[i - 1], i)]
    BY <2>3, <2>4
  <2>6. Res(f)
    BY <2>5, Zenon DEF Step
  <2>7. QED
    BY <2>6
<1>5. Res(res)
  BY <1>4
<1>6. \A i \in 0 .. n : res[i] = IF i = 0 THEN <<>> ELSE Step(res[i - 1], i)
  <2> HIDE DEF res
  <2>1. QED
    BY <1>5
<1> HIDE DEF res, Res, Step
<1> DEFINE Q == {i \in 0 .. n : res[i] \in Seq(V)}
<1>7. 0 \in Q
  <2>1. 0 \in 0 .. n
    BY <1>2
  <2>2. res[0] = <<>>
    BY <1>6, <2>1
  <2>3. QED
    BY <1>2, <2>1, <2>2
<1>8. ASSUME NEW i \in 1 .. n, i - 1 \in Q PROVE i \in Q
  <2>1. i \in 0 .. n /\ i # 0 /\ res[i - 1] \in Seq(V)
    BY <1>2, <1>8
  <2>2. QED
    BY <1>3, <1>6, <2>1
<1>9. n \in Q
  <2> HIDE DEF Q
  <2>1. n \in 0 .. n
    BY <1>2
  <2>2. QED
    BY <1>2, <1>7, <1>8, <2>1, UpToAll
<1>10. QED
  BY <1>1, <1>9

\* The positions of account a among the first k of pool p.
MineIn(p, k, a) == {i \in 1 .. k : p[i].signer = a}

\* Store c is store b with the first k transactions of p charged.
Ahead(c, b, p, k) ==
    \A a \in Accounts : /\ c.seq[a] = b.seq[a] + Cardinality(MineIn(p, k, a))
                        /\ c.bal[a] = b.bal[a] - FeeSum(p, MineIn(p, k, a))

\* None is charged.
LEMMA AheadNone ==
    ASSUME NEW c \in Stores, NEW p
    PROVE  Ahead(c, c, p, 0)
<1>1. \A a : MineIn(p, 0, a) = {}
  BY DEF MineIn
<1>2. Cardinality({}) = 0 /\ IsFiniteSet({})
  BY FS_EmptySet
<1>3. FeeSum(p, {}) = 0
  <2> DEFINE f == [i \in {} |-> p[i].fee]
  <2>1. f \in [{} -> Int] /\ \A x \in {} : f[x] = 0
    OBVIOUS
  <2>2. FeeSum(p, {}) = SumFunction(f)
    BY Zenon DEF FeeSum
  <2> HIDE DEF f
  <2>3. QED
    BY <1>2, <2>1, <2>2, SumFacts
<1>4. c.seq \in [Accounts -> Nat] /\ c.bal \in [Accounts -> Nat]
  BY DEF Stores
<1>5. QED
  BY <1>1, <1>2, <1>3, <1>4 DEF Ahead

\* Pools p and q have the same first k transactions.
SameStart(p, q, k) == \A i \in 1 .. k : q[i] = p[i] /\ p[i] \in Txs

\* Only those count.
LEMMA AheadKept ==
    ASSUME NEW c, NEW b, NEW p, NEW q, NEW k \in Nat, SameStart(p, q, k), Ahead(c, b, p, k)
    PROVE  Ahead(c, b, q, k)
<1>1. ASSUME NEW a PROVE MineIn(q, k, a) = MineIn(p, k, a) /\ \A i \in MineIn(p, k, a) : q[i] = p[i]
  BY DEF MineIn, SameStart
<1>2. ASSUME NEW a PROVE FeeSum(q, MineIn(q, k, a)) = FeeSum(p, MineIn(p, k, a))
  <2> DEFINE A == MineIn(p, k, a)
  <2>1. MineIn(q, k, a) = A /\ \A i \in A : q[i] = p[i]
    BY <1>1
  <2> HIDE DEF A
  <2>2. [i \in A |-> q[i].fee] = [i \in A |-> p[i].fee]
    BY <2>1
  <2>3. FeeSum(q, A) = FeeSum(p, A)
    BY <2>2 DEF FeeSum
  <2>4. QED
    BY <2>1, <2>3 DEF A
<1>3. QED
  BY <1>1, <1>2 DEF Ahead

\* The fees at some positions, and at one more.
LEMMA FeesOfOneMore ==
    ASSUME NEW p, NEW S, IsFiniteSet(S), NEW n, NEW T, OneMore(T, S, n), \A i \in T : p[i].fee \in Int
    PROVE  FeeSum(p, T) = FeeSum(p, S) + p[n].fee /\ FeeSum(p, S) \in Int
<1> DEFINE f == [i \in S |-> p[i].fee]
           g == [i \in T |-> p[i].fee]
<1>1. f \in [S -> Int] /\ g[n] = p[n].fee /\ Extends(g, f, S, n)
  BY DEF Extends, OneMore
<1>2. FeeSum(p, S) = SumFunction(f) /\ FeeSum(p, T) = SumFunction(g)
  BY Zenon DEF FeeSum
<1> HIDE DEF f, g
<1>3. SumFunction(g) = SumFunction(f) + g[n]
  BY <1>1, SumExtended DEF OneMore
<1>4. SumFunction(f) \in Int
  BY <1>1, SumFacts
<1>5. QED
  BY <1>1, <1>2, <1>3, <1>4

\* The next one is charged.
LEMMA AheadNext ==
    ASSUME BaseAppConstants, NEW c \in Stores, NEW b \in Stores, NEW p, NEW k \in Nat,
           \A i \in 1 .. (k + 1) : p[i] \in Txs, Ahead(c, b, p, k), NEW tx, tx = p[k + 1], ~CannotPay(c, tx)
    PROVE  Ahead(Charged(c, tx), b, p, k + 1)
<1> DEFINE n == k + 1
<1>1. n \in Nat /\ n \in 1 .. n /\ n \notin 1 .. k /\ 1 .. n = (1 .. k) \cup {n}
  OBVIOUS
<1>2. tx \in Txs /\ tx = p[n]
  BY <1>1
<1>3. tx.signer \in Accounts /\ tx.fee \in Nat /\ \A i \in 1 .. n : p[i].fee \in Nat
  BY <1>2, TxFacts
<1>4. \A a \in Accounts :
         /\ Charged(c, tx).seq[a] = IF a = tx.signer THEN c.seq[a] + 1 ELSE c.seq[a]
         /\ Charged(c, tx).bal[a] = IF a = tx.signer THEN c.bal[a] - tx.fee ELSE c.bal[a]
  BY <1>2, ChargedFacts
<1>5. c.seq \in [Accounts -> Nat] /\ c.bal \in [Accounts -> Nat] /\ b.seq \in [Accounts -> Nat]
      /\ b.bal \in [Accounts -> Nat]
  BY DEF Stores
<1> HIDE DEF n
<1>6. ASSUME NEW a \in Accounts
      PROVE  /\ Charged(c, tx).seq[a] = b.seq[a] + Cardinality(MineIn(p, n, a))
             /\ Charged(c, tx).bal[a] = b.bal[a] - FeeSum(p, MineIn(p, n, a))
  <2> DEFINE S == MineIn(p, k, a)
             T == MineIn(p, n, a)
  <2>1. c.seq[a] = b.seq[a] + Cardinality(S) /\ c.bal[a] = b.bal[a] - FeeSum(p, S)
    BY DEF Ahead
  <2>2. S \subseteq 1 .. k /\ IsFiniteSet(S) /\ Cardinality(S) \in Nat /\ n \notin S
    <3>1. S \subseteq 1 .. k
      BY DEF MineIn
    <3>2. IsFiniteSet(1 .. k)
      BY FS_Interval
    <3> HIDE DEF S
    <3>3. QED
      BY <1>1, <3>1, <3>2, FS_Subset, FS_CardinalityType
  <2>3. CASE a = tx.signer
    <3>1. OneMore(T, S, n)
      BY <1>1, <1>2, <2>2, <2>3 DEF MineIn, OneMore
    <3>2. \A i \in T : p[i].fee \in Int
      BY <1>3 DEF MineIn
    <3> HIDE DEF S, T
    <3>3. FeeSum(p, T) = FeeSum(p, S) + p[n].fee /\ FeeSum(p, S) \in Int
      BY <2>2, <3>1, <3>2, FeesOfOneMore
    <3>7. Cardinality(T) = Cardinality(S) + 1
      BY <2>2, <3>1, FS_AddElement DEF OneMore
    <3>8. Charged(c, tx).seq[a] = c.seq[a] + 1 /\ Charged(c, tx).bal[a] = c.bal[a] - tx.fee
      BY <1>4, <2>3
    <3>9. FeeSum(p, T) = FeeSum(p, S) + tx.fee /\ FeeSum(p, S) \in Int
      BY <1>2, <3>3
    <3>10. QED
      BY <1>3, <1>5, <2>1, <2>2, <3>7, <3>8, <3>9 DEF T
  <2>4. CASE a # tx.signer
    <3>1. T = S
      BY <1>1, <1>2, <2>4 DEF MineIn
    <3>2. Charged(c, tx).seq[a] = c.seq[a] /\ Charged(c, tx).bal[a] = c.bal[a]
      BY <1>4, <2>4
    <3>3. QED
      BY <2>1, <3>1, <3>2
  <2>5. QED
    BY <2>3, <2>4
<1>7. Ahead(Charged(c, tx), b, p, n)
  BY <1>6 DEF Ahead
<1>8. QED
  BY <1>7 DEF n

\* The mempool p, the transactions r of its end still to be rechecked, and
\* checkState c, which is ahead of the committed store b by the others.
PoolOK(c, b, p, r) ==
    /\ p \in Seq(Txs) /\ r \in Seq(Txs) /\ Len(r) <= Len(p)
    /\ \A i \in 1 .. Len(r) : r[i] = p[Len(p) - Len(r) + i]
    /\ Ahead(c, b, p, Len(p) - Len(r))

\* A new block: all are rechecked.
LEMMA PoolStart ==
    ASSUME NEW c \in Stores, NEW p \in Seq(Txs)
    PROVE  PoolOK(c, c, p, p)
<1>1. Len(p) \in Nat /\ Len(p) - Len(p) = 0
  OBVIOUS
<1>2. Ahead(c, c, p, Len(p) - Len(p))
  BY <1>1, AheadNone
<1>3. \A i \in 1 .. Len(p) : Len(p) - Len(p) + i = i
  BY <1>1
<1>4. QED
  BY <1>1, <1>2, <1>3 DEF PoolOK

\* A transaction joins the mempool.
LEMMA PoolChecked ==
    ASSUME BaseAppConstants, NEW c \in Stores, NEW b \in Stores, NEW p, NEW r, r = <<>>, PoolOK(c, b, p, r),
           NEW tx \in Txs, ~CannotPay(c, tx)
    PROVE  PoolOK(Charged(c, tx), b, Append(p, tx), r)
<1> DEFINE q == Append(p, tx)
           k == Len(p)
<1>1. p \in Seq(Txs) /\ Len(r) = 0 /\ r \in Seq(Txs)
  BY DEF PoolOK
<1>2. /\ q \in Seq(Txs) /\ k \in Nat /\ Len(q) = k + 1 /\ q[k + 1] = tx
      /\ \A i \in 1 .. k : q[i] = p[i] /\ p[i] \in Txs
  BY <1>1
<1>3. Ahead(c, b, p, k)
  <2>1. Len(p) - Len(r) = k
    BY <1>1
  <2>2. QED
    BY <2>1 DEF PoolOK
<1> HIDE DEF q, k
<1>4. SameStart(p, q, k)
  BY <1>2 DEF SameStart
<1>5. Ahead(c, b, q, k)
  BY <1>2, <1>3, <1>4, AheadKept
<1>6. \A i \in 1 .. (k + 1) : q[i] \in Txs
  BY <1>2
<1>7. Ahead(Charged(c, tx), b, q, k + 1)
  BY <1>2, <1>5, <1>6, AheadNext
<1>8. Len(q) - Len(r) = k + 1 /\ Len(r) <= Len(q) /\ 1 .. Len(r) = {}
  BY <1>1, <1>2
<1>9. PoolOK(Charged(c, tx), b, q, r)
  BY <1>1, <1>2, <1>7, <1>8 DEF PoolOK
<1>10. QED
  BY <1>9 DEF q

\* The transactions to be rechecked without the first.
LEMMA TailFacts ==
    ASSUME NEW r \in Seq(Txs), r # <<>>
    PROVE  /\ Len(r) \in Nat \ {0} /\ Head(r) = r[1] /\ r[1] \in Txs
           /\ Tail(r) \in Seq(Txs) /\ Len(Tail(r)) = Len(r) - 1
           /\ \A i \in 1 .. (Len(r) - 1) : Tail(r)[i] = r[i + 1]
  OBVIOUS

\* The next one passes its recheck.
LEMMA PoolRechecked ==
    ASSUME BaseAppConstants, NEW c \in Stores, NEW b \in Stores, NEW p, NEW r, r # <<>>, PoolOK(c, b, p, r),
           NEW tx, tx = Head(r), ~CannotPay(c, tx)
    PROVE  PoolOK(Charged(c, tx), b, p, Tail(r))
<1> DEFINE k == Len(p) - Len(r)
           t == Tail(r)
<1>1. p \in Seq(Txs) /\ r \in Seq(Txs) /\ Len(r) <= Len(p) /\ Ahead(c, b, p, k)
      /\ \A i \in 1 .. Len(r) : r[i] = p[k + i]
  BY DEF PoolOK
<1>2. /\ Len(r) \in Nat \ {0} /\ Head(r) = r[1] /\ t \in Seq(Txs) /\ Len(t) = Len(r) - 1
      /\ \A i \in 1 .. (Len(r) - 1) : t[i] = r[i + 1]
  BY <1>1, TailFacts
<1>3. Len(p) \in Nat /\ \A i \in 1 .. Len(p) : p[i] \in Txs
  BY <1>1
<1>4. /\ k \in Nat /\ k + 1 \in 1 .. Len(p) /\ Len(p) - Len(t) = k + 1 /\ Len(t) <= Len(p)
      /\ Len(t) \in Nat /\ 1 \in 1 .. Len(r)
      /\ \A i \in 1 .. Len(t) : i \in Int /\ i \in 1 .. (Len(r) - 1) /\ i + 1 \in 1 .. Len(r) /\ k + 1 + i = k + (i + 1)
  BY <1>1, <1>2, <1>3
<1> HIDE DEF k, t
<1>5. tx = p[k + 1] /\ \A i \in 1 .. (k + 1) : p[i] \in Txs
  <2>1. r[1] = p[k + 1]
    BY <1>1, <1>4
  <2>2. \A i \in 1 .. (k + 1) : i \in 1 .. Len(p)
    BY <1>3, <1>4
  <2>3. QED
    BY <1>2, <1>3, <2>1, <2>2
<1>6. Ahead(Charged(c, tx), b, p, k + 1)
  BY <1>1, <1>4, <1>5, AheadNext
<1>7. ASSUME NEW i \in 1 .. Len(t) PROVE t[i] = p[k + 1 + i]
  <2>1. t[i] = r[i + 1]
    BY <1>2, <1>4
  <2>2. r[i + 1] = p[k + (i + 1)]
    BY <1>1, <1>4
  <2>3. QED
    BY <1>4, <2>1, <2>2
<1>8. PoolOK(Charged(c, tx), b, p, t)
  BY <1>1, <1>2, <1>4, <1>6, <1>7 DEF PoolOK
<1>9. QED
  BY <1>8 DEF t

\* A sequence without one element.
LEMMA RemovedFacts ==
    ASSUME NEW p \in Seq(Txs), NEW j \in 1 .. Len(p), NEW q, q = RemoveAt(p, j)
    PROVE  /\ q \in Seq(Txs) /\ Len(q) = Len(p) - 1
           /\ \A i \in 1 .. (j - 1) : q[i] = p[i]
           /\ \A i \in j .. (Len(p) - 1) : q[i] = p[i + 1]
<1> DEFINE u == SubSeq(p, 1, j - 1)
           v == SubSeq(p, j + 1, Len(p))
<1>1. q = u \o v
  BY DEF RemoveAt
<1>2. Len(p) \in Nat /\ j \in Nat /\ j >= 1 /\ j <= Len(p)
  OBVIOUS
<1>3. u \in Seq(Txs) /\ Len(u) = j - 1 /\ \A i \in 1 .. (j - 1) : u[i] = p[i]
  BY <1>2
<1>4. v \in Seq(Txs) /\ Len(v) = Len(p) - j /\ \A i \in 1 .. (Len(p) - j) : v[i] = p[j + i]
  BY <1>2
<1> HIDE DEF u, v
<1>5. q \in Seq(Txs) /\ Len(q) = Len(p) - 1
  <2>1. q \in Seq(Txs) /\ Len(q) = Len(u) + Len(v)
    BY <1>1, <1>3, <1>4, ConcatProperties
  <2>2. QED
    BY <1>2, <1>3, <1>4, <2>1
<1>6. ASSUME NEW i \in 1 .. (j - 1) PROVE q[i] = p[i]
  BY <1>1, <1>2, <1>3, <1>4
<1>7. ASSUME NEW i \in j .. (Len(p) - 1) PROVE q[i] = p[i + 1]
  <2>1. i - Len(u) \in 1 .. (Len(p) - j) /\ i > Len(u) /\ i <= Len(u) + Len(v)
    BY <1>2, <1>3, <1>4
  <2>2. q[i] = v[i - Len(u)]
    BY <1>1, <1>3, <1>4, <2>1
  <2>3. v[i - Len(u)] = p[j + (i - Len(u))] /\ j + (i - Len(u)) = i + 1
    BY <1>2, <1>3, <1>4, <2>1
  <2>4. QED
    BY <2>2, <2>3
<1>8. QED
  BY <1>5, <1>6, <1>7

\* The next one fails its recheck.
LEMMA PoolDropped ==
    ASSUME NEW c, NEW b, NEW p, NEW r, r # <<>>, PoolOK(c, b, p, r)
    PROVE  PoolOK(c, b, RemoveAt(p, Len(p) - Len(r) + 1), Tail(r))
<1> DEFINE k == Len(p) - Len(r)
           t == Tail(r)
           q == RemoveAt(p, k + 1)
<1>1. p \in Seq(Txs) /\ r \in Seq(Txs) /\ Len(r) <= Len(p) /\ Ahead(c, b, p, k)
      /\ \A i \in 1 .. Len(r) : r[i] = p[k + i]
  BY DEF PoolOK
<1>2. /\ Len(r) \in Nat \ {0} /\ t \in Seq(Txs) /\ Len(t) = Len(r) - 1
      /\ \A i \in 1 .. (Len(r) - 1) : t[i] = r[i + 1]
  BY <1>1, TailFacts
<1>3. Len(p) \in Nat /\ \A i \in 1 .. Len(p) : p[i] \in Txs
  BY <1>1
<1>4. /\ k \in Nat /\ k + 1 \in 1 .. Len(p) /\ Len(p) - 1 - Len(t) = k /\ Len(t) <= Len(p) - 1
      /\ Len(t) \in Nat /\ (k + 1) - 1 = k
      /\ \A i \in 1 .. Len(t) : /\ i \in Int /\ i \in 1 .. (Len(r) - 1) /\ i + 1 \in 1 .. Len(r)
                                /\ k + i \in (k + 1) .. (Len(p) - 1) /\ (k + i) + 1 = k + (i + 1)
      /\ \A i \in 1 .. k : i \in 1 .. Len(p)
  BY <1>1, <1>2, <1>3
<1> HIDE DEF k, t
<1>5. /\ q \in Seq(Txs) /\ Len(q) = Len(p) - 1
      /\ \A i \in 1 .. ((k + 1) - 1) : q[i] = p[i]
      /\ \A i \in (k + 1) .. (Len(p) - 1) : q[i] = p[i + 1]
  BY <1>1, <1>4, RemovedFacts
<1> HIDE DEF q
<1>6. SameStart(p, q, k)
  BY <1>3, <1>4, <1>5 DEF SameStart
<1>7. Ahead(c, b, q, k)
  BY <1>1, <1>4, <1>6, AheadKept
<1>8. ASSUME NEW i \in 1 .. Len(t) PROVE t[i] = q[k + i]
  <2>1. t[i] = r[i + 1]
    BY <1>2, <1>4
  <2>2. r[i + 1] = p[k + (i + 1)]
    BY <1>1, <1>4
  <2>3. q[k + i] = p[(k + i) + 1]
    BY <1>4, <1>5
  <2>4. QED
    BY <1>4, <2>1, <2>2, <2>3
<1>9. Len(q) - Len(t) = k /\ Len(t) <= Len(q)
  BY <1>4, <1>5
<1>10. PoolOK(c, b, q, t)
  BY <1>2, <1>5, <1>7, <1>8, <1>9 DEF PoolOK
<1>11. QED
  BY <1>10 DEF k, q, t

\* The first z elements of l.
StartOf(m, l, z) == m = SubSeq(l, 1, z)

\* They are a sequence.
LEMMA StartFacts ==
    ASSUME NEW V, NEW l \in Seq(V), NEW z \in 0 .. Len(l), NEW m, StartOf(m, l, z)
    PROVE  m \in Seq(V) /\ Len(m) = z /\ DOMAIN m = 1 .. z /\ \A i \in 1 .. z : m[i] = l[i]
<1>1. m \in Seq(V) /\ Len(m) = z /\ \A i \in 1 .. z : m[i] = l[i]
  BY DEF StartOf
<1>2. DOMAIN m = 1 .. z
  BY <1>1
<1>3. QED
  BY <1>1, <1>2

\* The entries of block h are the last ones of a log up to it.
LEMMA TopsCounted ==
    ASSUME NEW l \in Seq(Entries), Rising(l), NEW h \in Nat, \A i \in DOMAIN l : l[i].height <= h + 1
    PROVE  \E c \in 0 .. Len(l) : /\ Cardinality({i \in DOMAIN l : l[i].height = h + 1}) = c
                                  /\ \A i \in DOMAIN l : l[i].height <= h <=> ~(i > Len(l) - c)
<1> DEFINE U == {i \in DOMAIN l : l[i].height = h + 1}
           n == Len(l)
<1>1. n \in Nat /\ DOMAIN l = 1 .. n /\ \A i \in 1 .. n : l[i] \in Entries /\ l[i].height \in Nat
  <2>1. \A e \in Entries : e.height \in Nat
    BY DEF Entries
  <2>2. n \in Nat /\ DOMAIN l = 1 .. n /\ \A i \in 1 .. n : l[i] \in Entries
    OBVIOUS
  <2>3. QED
    BY <2>1, <2>2
<1>2. \E c \in 0 .. n : Cardinality(U) = c /\ \A i \in 1 .. n : i \in U <=> i > n - c
  <2>1. CASE U = {}
    <3>1. Cardinality(U) = 0
      BY <2>1, FS_EmptySet
    <3>2. \A i \in 1 .. n : i \in U <=> i > n - 0
      BY <1>1, <2>1
    <3>3. 0 \in 0 .. n
      BY <1>1
    <3> HIDE DEF U
    <3>4. QED
      BY <3>1, <3>2, <3>3
  <2>2. CASE U # {}
    <3>1. U \subseteq Nat /\ U \subseteq 1 .. n
      BY <1>1
    <3>2. PICK k \in U : \A i \in U : k <= i
      <4> HIDE DEF U
      <4>1. QED
        BY <2>2, <3>1, LeastNumber
    <3>3. k \in 1 .. n /\ l[k].height = h + 1
      BY <1>1, <3>2
    <3>4. ASSUME NEW i \in 1 .. n, i >= k PROVE i \in U
      <4>1. l[k].height <= l[i].height
        BY <1>1, <3>3, <3>4 DEF Rising
      <4>2. l[i].height <= h + 1 /\ l[i].height \in Nat
        BY <1>1
      <4>3. QED
        BY <1>1, <3>3, <4>1, <4>2
    <3> HIDE DEF U
    <3>5. U = k .. n
      <4>1. ASSUME NEW i \in U PROVE i \in k .. n
        <5>1. i \in 1 .. n /\ k <= i
          BY <3>1, <3>2
        <5>2. QED
          BY <1>1, <3>3, <5>1
      <4>2. ASSUME NEW i \in k .. n PROVE i \in U
        <5>1. i \in 1 .. n /\ i >= k
          BY <1>1, <3>3
        <5>2. QED
          BY <3>4, <5>1
      <4>3. QED
        BY <4>1, <4>2
    <3>6. Cardinality(U) = n - k + 1
      BY <1>1, <3>3, <3>5, FS_Interval
    <3>7. n - k + 1 \in 0 .. n /\ \A i \in 1 .. n : i \in U <=> i > n - (n - k + 1)
      BY <1>1, <3>3, <3>5
    <3>8. QED
      BY <3>6, <3>7
  <2>3. QED
    BY <2>1, <2>2
<1>3. \A i \in 1 .. n : i \in U <=> ~(l[i].height <= h)
  BY <1>1
<1> HIDE DEF U
<1>4. \E c \in 0 .. n : Cardinality(U) = c /\ \A i \in DOMAIN l : l[i].height <= h <=> ~(i > n - c)
  BY <1>1, <1>2, <1>3
<1>5. QED
  BY <1>4 DEF U

\* A log without the entries of the last block.
LEMMA TopsDropped ==
    ASSUME NEW l \in Seq(Entries), NEW h, NEW c \in 0 .. Len(l),
           \A i \in DOMAIN l : l[i].height <= h <=> ~(i > Len(l) - c), NEW m, StartOf(m, l, Len(l) - c)
    PROVE  /\ m \in Seq(Entries) /\ AgreeTo(l, m, Len(m))
           /\ \A i \in DOMAIN l : l[i].height <= h <=> i \in DOMAIN m
           /\ \A i \in DOMAIN m : i \in DOMAIN l /\ m[i] = l[i]
<1> DEFINE z == Len(l) - c
<1>1. Len(l) \in Nat /\ DOMAIN l = 1 .. Len(l) /\ z \in 0 .. Len(l) /\ StartOf(m, l, z)
  OBVIOUS
<1>2. \A i \in DOMAIN l : l[i].height <= h <=> ~(i > z)
  OBVIOUS
<1> HIDE DEF z
<1>3. m \in Seq(Entries) /\ Len(m) = z /\ DOMAIN m = 1 .. z /\ \A i \in 1 .. z : m[i] = l[i]
  BY <1>1, StartFacts
<1>4. \A i \in 1 .. z : i \in 1 .. Len(l)
  BY <1>1
<1>5. \A i \in DOMAIN l : l[i].height <= h <=> i \in 1 .. z
  BY <1>1, <1>2
<1>6. QED
  BY <1>1, <1>3, <1>4, <1>5 DEF AgreeTo

\* A decided block is a sequence of transactions.
LEMMA BlockIsSeq ==
    ASSUME BaseAppConstants, NEW b \in Blocks
    PROVE  b \in Seq(Txs)
<1>1. PICK n \in 0 .. MaxBlockTxs : b \in [1 .. n -> Txs]
  BY DEF Blocks
<1>2. n \in Nat
  BY <1>1 DEF BaseAppConstants
<1>3. QED
  BY <1>1, <1>2, SeqDef

-----------------------------------------------------------------------------
(* The invariant *)

\* Types.
AppTypes ==
    /\ cms \in [height : Nat, store : Stores]
    /\ deliver \in [on : BOOLEAN, store : Stores, gas : Nat, meter : Nat]
    /\ check \in [store : Stores, height : Nat]
    /\ blocks \in Seq(Seq(Txs)) /\ log \in Seq(Entries)
    /\ phase \in {"idle", "begun", "ended"}

\* At most one decided block is not committed, and only such a block is run.
AppBlocks ==
    /\ cms.height <= Len(blocks) /\ Len(blocks) <= cms.height + 1 /\ Len(blocks) <= MaxHeight
    /\ phase # "idle" => Len(blocks) = cms.height + 1 /\ deliver.on

\* The block a log may have entries of.
Top == IF phase = "idle" THEN cms.height ELSE cms.height + 1

\* The log is in order and ends with the block being run.
AppLog == LogOK(log) /\ \A i \in DOMAIN log : log[i].height >= 1 /\ log[i].height <= Top

\* Before the first commit no transaction passes CheckTx, and only genesis is
\* in deliverState; afterwards deliverState is there only while a block runs.
AppStart ==
    /\ cms.height = 0 => ~check.store.live /\ ~cms.store.live /\ pool = <<>> /\ recheck = <<>>
    /\ phase = "idle" /\ deliver.on => cms.height = 0 /\ deliver.store = Genesis

\* The committed state and the one being made are the outcome of the log.
AppState ==
    /\ cms.height > 0 => Outcome(log, cms.store, cms.height)
    /\ phase # "idle" => /\ Outcome(log, deliver.store, cms.height + 1)
                         /\ deliver.gas = GasIn(log, Len(log), cms.height + 1)

\* checkState is ahead of the committed state by the rechecked transactions.
AppPool == PoolOK(check.store, cms.store, pool, recheck)

AppInv == AppTypes /\ AppBlocks /\ AppLog /\ AppStart /\ AppState /\ AppPool

\* The stores a node starts with.
LEMMA FirstStores ==
    ASSUME BaseAppConstants
    PROVE  /\ EmptyStore \in Stores /\ ~EmptyStore.live /\ Genesis \in Stores
           /\ NoDeliver \in [on : BOOLEAN, store : Stores, gas : Nat, meter : Nat] /\ ~NoDeliver.on
           /\ \A a \in Accounts : Genesis.seq[a] = 0 /\ Genesis.bal[a] = InitBal
           /\ Genesis.fees = 0 /\ \A d \in Devices : Genesis.device[d] = NoAddr
<1>1. InitBal \in Nat
  BY DEF BaseAppConstants
<1>2. EmptyStore \in Stores /\ ~EmptyStore.live
  BY DEF EmptyStore, Stores
<1>3. Genesis = [live |-> TRUE, seq |-> [a \in Accounts |-> 0], bal |-> [a \in Accounts |-> InitBal],
                 fees |-> 0, device |-> [d \in Devices |-> NoAddr]]
  <2> DEFINE z == [a \in Accounts |-> 0]
             y == [a \in Accounts |-> InitBal]
             n == [d \in Devices |-> NoAddr]
  <2>1. EmptyStore = [live |-> FALSE, seq |-> z, bal |-> z, fees |-> 0, device |-> n]
    BY DEF EmptyStore
  <2>2. Genesis = [EmptyStore EXCEPT !.live = TRUE, !.bal = y]
    BY DEF Genesis
  <2> HIDE DEF z, y, n
  <2>3. Genesis = [live |-> TRUE, seq |-> z, bal |-> y, fees |-> 0, device |-> n]
    BY <2>1, <2>2
  <2>4. QED
    BY <2>3 DEF z, y, n
<1>4. Genesis \in Stores
  BY <1>1, <1>3 DEF Stores
<1>5. NoDeliver \in [on : BOOLEAN, store : Stores, gas : Nat, meter : Nat] /\ ~NoDeliver.on
  BY <1>2 DEF NoDeliver
<1>6. QED
  BY <1>2, <1>3, <1>4, <1>5

\* Genesis is the outcome of no transaction.
LEMMA GenesisOutcome ==
    ASSUME BaseAppConstants, NEW l, l = <<>>, NEW h
    PROVE  Outcome(l, Genesis, h)
<1>1. DOMAIN l = {}
  OBVIOUS
<1>2. /\ \A a : ChargesIn(l, a, h) = {}
      /\ AllCharges(l, h) = {}
      /\ \A d : WritesIn(l, d, h) = {}
  BY <1>1 DEF ChargesIn, AllCharges, WritesIn
<1>3. Cardinality({}) = 0 /\ IsFiniteSet({})
  BY FS_EmptySet
<1>4. FeesIn(l, {}) = 0
  <2> DEFINE f == [i \in {} |-> l[i].tx.fee]
  <2>1. f \in [{} -> Int] /\ \A x \in {} : f[x] = 0
    OBVIOUS
  <2>2. FeesIn(l, {}) = SumFunction(f)
    BY Zenon DEF FeesIn
  <2> HIDE DEF f
  <2>3. QED
    BY <1>3, <2>1, <2>2, SumFacts
<1>5. \A d \in Devices : LastWrite(l, d, h, Genesis.device)
  BY <1>2, FirstStores DEF LastWrite
<1>6. InitBal \in Nat
  BY DEF BaseAppConstants
<1>7. \A a \in Accounts : Genesis.seq[a] = 0 /\ Genesis.bal[a] = InitBal
  BY FirstStores
<1>8. Genesis.fees = 0
  BY FirstStores
<1>9. Genesis.fees = FeesIn(l, AllCharges(l, h))
  BY <1>2, <1>4, <1>8
<1>10. ASSUME NEW a \in Accounts
       PROVE  /\ Genesis.seq[a] = Cardinality(ChargesIn(l, a, h))
              /\ Genesis.bal[a] = InitBal - FeesIn(l, ChargesIn(l, a, h))
  <2>1. ChargesIn(l, a, h) = {} /\ InitBal - 0 = InitBal
    BY <1>2, <1>6
  <2>2. QED
    BY <1>3, <1>4, <1>7, <2>1
<1>11. QED
  BY <1>5, <1>9, <1>10 DEF Outcome

\* A block without entries has used no gas.
LEMMA NoGas ==
    ASSUME NEW l \in Seq(Entries), NEW h, \A i \in DOMAIN l : l[i].height # h
    PROVE  GasIn(l, Len(l), h) = 0
<1>1. At(l, Len(l), h) = {}
  BY DEF At
<1>2. IsFiniteSet({})
  BY FS_EmptySet
<1> DEFINE f == [j \in {} |-> l[j].charge]
<1>3. f \in [{} -> Int] /\ \A x \in {} : f[x] = 0
  OBVIOUS
<1>4. GasIn(l, Len(l), h) = SumFunction(f)
  BY <1>1 DEF GasIn
<1> HIDE DEF f
<1>5. QED
  BY <1>2, <1>3, <1>4, SumFacts

\* The parts of the state.
LEMMA AppParts ==
    ASSUME AppTypes
    PROVE  /\ cms.height \in Nat /\ cms.store \in Stores
           /\ deliver.on \in BOOLEAN /\ deliver.store \in Stores /\ deliver.gas \in Nat /\ deliver.meter \in Nat
           /\ check.store \in Stores /\ check.height \in Nat
           /\ Len(blocks) \in Nat /\ DOMAIN blocks = 1 .. Len(blocks)
           /\ \A i \in 1 .. Len(blocks) : blocks[i] \in Seq(Txs)
<1>1. cms.height \in Nat /\ cms.store \in Stores
  BY DEF AppTypes
<1>2. deliver.on \in BOOLEAN /\ deliver.store \in Stores /\ deliver.gas \in Nat /\ deliver.meter \in Nat
  BY DEF AppTypes
<1>3. check.store \in Stores /\ check.height \in Nat
  BY DEF AppTypes
<1>4. blocks \in Seq(Seq(Txs))
  BY DEF AppTypes
<1> DEFINE S == Seq(Txs)
<1>5. blocks \in Seq(S)
  BY <1>4
<1> HIDE DEF S
<1>6. Len(blocks) \in Nat /\ DOMAIN blocks = 1 .. Len(blocks) /\ \A i \in 1 .. Len(blocks) : blocks[i] \in S
  BY <1>5
<1>7. QED
  BY <1>1, <1>2, <1>3, <1>6 DEF S

\* The state a node starts in.
LEMMA AppInit ==
    ASSUME BaseAppConstants, Init
    PROVE  AppInv
<1>1. cms.height = 0 /\ cms.store = EmptyStore /\ check.store = EmptyStore /\ deliver = NoDeliver
      /\ phase = "idle" /\ pool = <<>> /\ recheck = <<>> /\ blocks = <<>> /\ log = <<>>
  BY DEF Init
<1>2. EmptyStore \in Stores /\ ~EmptyStore.live /\ ~NoDeliver.on
      /\ NoDeliver \in [on : BOOLEAN, store : Stores, gas : Nat, meter : Nat]
  BY FirstStores
<1>3. AppTypes
  BY <1>2 DEF Init, AppTypes
<1>4. MaxHeight \in Nat
  BY DEF BaseAppConstants
<1>5. AppBlocks
  BY <1>1, <1>4 DEF AppBlocks
<1>6. AppLog
  <2>1. DOMAIN log = {}
    BY <1>1
  <2>2. QED
    BY <2>1 DEF AppLog, LogOK, InOrder, Rising
<1>7. AppStart
  BY <1>1, <1>2 DEF AppStart
<1>8. AppState
  BY <1>1 DEF AppState
<1>9. AppPool
  <2>1. pool \in Seq(Txs)
    BY <1>1
  <2>2. PoolOK(EmptyStore, EmptyStore, pool, pool)
    BY <1>2, <2>1, PoolStart
  <2>3. QED
    BY <1>1, <2>2 DEF AppPool
<1>10. QED
  BY <1>3, <1>5, <1>6, <1>7, <1>8, <1>9 DEF AppInv

\* What the engine only has to remember leaves the application's part alone.
LEMMA AppLogSame ==
    ASSUME AppLog, UNCHANGED <<log, cms, phase>>
    PROVE  AppLog'
<1>1. log' = log /\ cms' = cms /\ phase' = phase
  OBVIOUS
<1>2. QED
  BY <1>1 DEF AppLog, Top, LogOK, InOrder, Rising, GasFits, Earlier, GasIn, At, IsCharged

\* Neither has the log another outcome.
LEMMA AppStateSame ==
    ASSUME AppState, UNCHANGED <<log, cms, phase>>, phase # "idle" => deliver' = deliver
    PROVE  AppState'
<1>1. log' = log /\ cms' = cms /\ phase' = phase
  OBVIOUS
<1>2. cms.height > 0 => Outcome(log, cms.store, cms.height)'
  BY <1>1 DEF AppState, Outcome
<1>3. QED
  BY <1>1 DEF AppState

\* InitChain
LEMMA AppInitChain ==
    ASSUME BaseAppConstants, AppInv, InitChain
    PROVE  AppInv'
<1>1. AppTypes /\ AppBlocks /\ AppLog /\ AppStart /\ AppState /\ AppPool
  BY DEF AppInv
<1>2. /\ cms.height = 0 /\ ~deliver.on
      /\ deliver' = [on |-> TRUE, store |-> Genesis, gas |-> 0, meter |-> BlockGas]
      /\ check' = [store |-> cms.store, height |-> 0]
      /\ UNCHANGED <<cms, pool, recheck, blocks, phase, crashes, log>>
  BY DEF InitChain
<1>3. cms.store \in Stores /\ Genesis \in Stores /\ BlockGas \in Nat
  BY <1>1, AppParts, FirstStores DEF BaseAppConstants
<1>4. AppTypes'
  BY <1>1, <1>2, <1>3 DEF AppTypes
<1>5. phase = "idle"
  BY <1>1, <1>2 DEF AppBlocks
<1>6. AppBlocks'
  BY <1>1, <1>2, <1>5 DEF AppBlocks
<1>7. AppLog'
  BY <1>1, <1>2, AppLogSame
<1>8. AppStart'
  BY <1>1, <1>2 DEF AppStart
<1>9. AppState'
  BY <1>1, <1>2, <1>5, AppStateSame
<1>10. AppPool'
  <2>1. pool = <<>> /\ recheck = <<>> /\ pool \in Seq(Txs)
    BY <1>1, <1>2 DEF AppStart
  <2>2. PoolOK(cms.store, cms.store, pool, pool)
    BY <1>3, <2>1, PoolStart
  <2>3. check'.store = cms.store /\ cms' = cms /\ pool' = pool /\ recheck' = pool
    BY <1>2, <2>1
  <2>4. QED
    BY <2>2, <2>3 DEF AppPool
<1>11. QED
  BY <1>4, <1>6, <1>7, <1>8, <1>9, <1>10 DEF AppInv

\* A block is decided
LEMMA AppDecide ==
    ASSUME BaseAppConstants, AppInv, NEW b \in Blocks, Decide(b)
    PROVE  AppInv'
<1>1. AppTypes /\ AppBlocks /\ AppLog /\ AppStart /\ AppState /\ AppPool
  BY DEF AppInv
<1>2. /\ Len(blocks) = cms.height /\ cms.height < MaxHeight /\ blocks' = Append(blocks, b)
      /\ UNCHANGED <<cms, deliver, check, pool, recheck, phase, crashes, log>>
  BY DEF Decide
<1> DEFINE S == Seq(Txs)
<1>3. blocks \in Seq(S) /\ b \in S
  BY <1>1, BlockIsSeq DEF AppTypes
<1> HIDE DEF S
<1>4. blocks' \in Seq(S) /\ Len(blocks') = Len(blocks) + 1
  BY <1>2, <1>3
<1>5. AppTypes'
  BY <1>1, <1>2, <1>4 DEF AppTypes, S
<1>6. cms.height \in Nat /\ MaxHeight \in Nat
  BY <1>1, AppParts DEF BaseAppConstants
<1>7. AppBlocks'
  BY <1>1, <1>2, <1>4, <1>6 DEF AppBlocks
<1>8. AppLog'
  BY <1>1, <1>2, AppLogSame
<1>9. AppStart'
  BY <1>1, <1>2 DEF AppStart
<1>10. AppState'
  BY <1>1, <1>2, AppStateSame
<1>11. AppPool'
  BY <1>1, <1>2 DEF AppPool
<1>12. QED
  BY <1>5, <1>7, <1>8, <1>9, <1>10, <1>11 DEF AppInv

\* BeginBlock
LEMMA AppBeginBlock ==
    ASSUME BaseAppConstants, AppInv, BeginBlock
    PROVE  AppInv'
<1>1. AppTypes /\ AppBlocks /\ AppLog /\ AppStart /\ AppState /\ AppPool
  BY DEF AppInv
<1> DEFINE st == IF deliver.on THEN deliver.store ELSE cms.store
           h == cms.height + 1
<1>2. /\ Len(blocks) = h /\ phase = "idle" /\ (cms.height = 0 => deliver.on)
      /\ deliver' = [on |-> TRUE, gas |-> 0, store |-> st, meter |-> deliver.meter + BlockGas]
      /\ phase' = "begun" /\ cms' = cms /\ check' = check /\ pool' = pool /\ recheck' = recheck
      /\ blocks' = blocks /\ log' = log
  BY DEF BeginBlock
<1>3. cms.height \in Nat /\ st \in Stores /\ deliver.meter \in Nat /\ BlockGas \in Nat /\ h \in Nat
  BY <1>1, AppParts DEF BaseAppConstants
<1>4. log \in Seq(Entries) /\ \A i \in DOMAIN log : log[i].height >= 1 /\ log[i].height <= cms.height
  BY <1>1, <1>2 DEF AppTypes, AppLog, Top
<1>5. \A i \in DOMAIN log : log[i].height \in Nat
  <2>1. \A e \in Entries : e.height \in Nat
    BY DEF Entries
  <2>2. QED
    BY <1>4, <2>1, LogFinite
<1>6. deliver'.on /\ deliver'.store = st /\ deliver'.gas = 0
  BY <1>2
<1>7. Outcome(log, st, h)
  <2>1. CASE cms.height = 0
    <3>1. DOMAIN log = {}
      BY <1>4, <1>5, <2>1
    <3>2. log = <<>>
      BY <1>4, <3>1
    <3>3. st = Genesis
      BY <1>1, <1>2, <2>1 DEF AppStart
    <3>4. QED
      BY <3>2, <3>3, GenesisOutcome
  <2>2. CASE cms.height # 0
    <3>1. st = cms.store /\ Outcome(log, cms.store, cms.height)
      BY <1>1, <1>2, <1>3, <2>2 DEF AppStart, AppState
    <3>2. \A i \in DOMAIN log : log[i].height <= h
      BY <1>3, <1>4, <1>5
    <3> HIDE DEF h, st
    <3>3. QED
      BY <1>3, <1>4, <3>1, <3>2, OutcomeFrame
  <2>3. QED
    BY <2>1, <2>2
<1>8. GasIn(log, Len(log), h) = 0
  <2>1. \A i \in DOMAIN log : log[i].height # h
    BY <1>3, <1>4, <1>5
  <2> HIDE DEF h
  <2>2. QED
    BY <1>4, <2>1, NoGas
<1>9. AppTypes'
  <2> HIDE DEF st
  <2>1. QED
    BY <1>1, <1>2, <1>3 DEF AppTypes
<1> HIDE DEF st
<1>10. AppBlocks'
  BY <1>1, <1>2, <1>6 DEF AppBlocks
<1>11. AppLog'
  <2>1. Top' = h
    BY <1>2 DEF Top
  <2>2. \A i \in DOMAIN log : log[i].height >= 1 /\ log[i].height <= h
    BY <1>3, <1>4, <1>5
  <2>3. LogOK(log)
    BY <1>1 DEF AppLog
  <2>4. QED
    BY <1>2, <2>1, <2>2, <2>3 DEF AppLog
<1>12. AppStart'
  BY <1>1, <1>2 DEF AppStart
<1>13. AppState'
  <2>1. cms.height > 0 => Outcome(log, cms.store, cms.height)
    BY <1>1 DEF AppState
  <2>2. QED
    BY <1>2, <1>6, <1>7, <1>8, <2>1 DEF AppState
<1>14. AppPool'
  BY <1>1, <1>2 DEF AppPool
<1>15. QED
  BY <1>9, <1>10, <1>11, <1>12, <1>13, <1>14 DEF AppInv

\* The transaction DeliverTx runs.
LEMMA NextTx ==
    ASSUME AppInv, phase = "begun", NEW h, h = cms.height + 1, Done(h) < Len(blocks[h])
    PROVE  blocks[h][Done(h) + 1] \in Txs
<1>1. AppTypes /\ AppBlocks
  BY DEF AppInv
<1>2. cms.height \in Nat /\ Len(blocks) \in Nat /\ \A i \in 1 .. Len(blocks) : blocks[i] \in Seq(Txs)
  BY <1>1, AppParts
<1>3. Len(blocks) = cms.height + 1
  BY <1>1 DEF AppBlocks
<1>4. h \in 1 .. Len(blocks)
  BY <1>2, <1>3
<1>5. blocks[h] \in Seq(Txs)
  BY <1>2, <1>4
<1>6. Done(h) \in Nat
  <2>1. log \in Seq(Entries)
    BY <1>1 DEF AppTypes
  <2> DEFINE S == {i \in DOMAIN log : log[i].height = h}
  <2>2. S \in SUBSET DOMAIN log
    OBVIOUS
  <2> HIDE DEF S
  <2>3. Cardinality(S) \in Nat
    BY <2>1, <2>2, LogFinite
  <2>4. QED
    BY <2>3 DEF S, Done
<1> DEFINE b == blocks[h]
           i == Done(h) + 1
<1>7. b \in Seq(Txs) /\ i \in Nat /\ i >= 1 /\ i <= Len(b)
  BY <1>5, <1>6
<1> HIDE DEF b, i
<1>8. b[i] \in Txs
  BY <1>7
<1>9. QED
  BY <1>8 DEF b, i

\* Result r is that of DeliverTx.
ResultOf(r, st, tx, h, gas, base) == r = runDeliver(st, tx, h, gas, base)

\* Log m is l with it.
LoggedAt(m, l, h, tx, r) == Longer(m, l, [height |-> h, tx |-> tx, code |-> r.code, charge |-> r.charge])

\* Log l, up to block h, with the outcome st and the gas used in the block.
Running(l, st, gas, h) ==
    /\ l \in Seq(Entries) /\ LogOK(l) /\ \A i \in DOMAIN l : l[i].height <= h
    /\ st \in Stores /\ Outcome(l, st, h) /\ gas = GasIn(l, Len(l), h)

\* What the entry of r in log m adds to it.
EntryOf(m, l, r, gas, h) ==
    /\ m \in Seq(Entries) /\ LogOK(m) /\ r.store \in Stores /\ r.charge \in Nat
    /\ Outcome(m, r.store, h) /\ GasIn(m, Len(m), h) = gas + r.charge
    /\ \A i \in DOMAIN l : m[i] = l[i]
    /\ DOMAIN m = DOMAIN l \cup {Len(m)} /\ Len(m) \notin DOMAIN l /\ m[Len(m)].height = h

\* DeliverTx: the log with the entry and the outcome of it.
LEMMA EntryDelivered ==
    ASSUME BaseAppConstants, NEW l, NEW st, NEW gas, NEW h \in Nat, Running(l, st, gas, h), NEW base \in Nat,
           NEW tx \in Txs, NEW r, ResultOf(r, st, tx, h, gas, base), NEW m, LoggedAt(m, l, h, tx, r)
    PROVE  EntryOf(m, l, r, gas, h)
<1>0. /\ l \in Seq(Entries) /\ LogOK(l) /\ \A i \in DOMAIN l : l[i].height <= h
      /\ st \in Stores /\ Outcome(l, st, h) /\ gas = GasIn(l, Len(l), h)
  BY DEF Running
<1> DEFINE e == [height |-> h, tx |-> tx, code |-> r.code, charge |-> r.charge]
<1>1. gas \in Nat
  <2> DEFINE d == [height |-> h, tx |-> tx, code |-> "ok", charge |-> 0]
  <2>1. d \in Entries /\ d.height = h
    BY DEF Entries
  <2>2. \E n : Longer(n, l, d)
    BY DEF Longer
  <2> HIDE DEF d
  <2>3. GasIn(l, Len(l), d.height) \in Nat
    BY <1>0, <2>1, <2>2, GasAppended
  <2>4. QED
    BY <1>0, <2>1, <2>3
<1>2. /\ r.code \in {"ok", "failed", "ante", "malformed", "full"}
      /\ r.charge \in Nat /\ r.store \in Stores
      /\ IsCharged(r) => tx.seq = st.seq[tx.signer] /\ ChargedOnce(st, tx, r.store)
      /\ ~IsCharged(r) => r.store = st
      /\ r.code = "failed" => r.store.device = st.device
      /\ r.code = "ok" => Registered(st.device, tx.msgs, Len(tx.msgs), r.store.device)
      /\ r.code = "ok" => gas + r.charge <= MaxBlockGas
      /\ r.code = "full" <=> gas >= MaxBlockGas
      /\ r.code # "malformed" => r.charge <= tx.gas
  BY <1>0, <1>1, DeliverRunFacts DEF ResultOf
<1>3. e \in Entries /\ e.height = h /\ e.tx = tx /\ e.code = r.code /\ e.charge = r.charge
  BY <1>2 DEF Entries
<1>4. IsCharged(e) <=> IsCharged(r)
  BY DEF IsCharged
<1>5. Longer(m, l, e)
  BY Zenon DEF LoggedAt
<1> HIDE DEF e
<1> DEFINE s == r.store
<1>6. /\ IsCharged(e) => ChargedOnce(st, e.tx, s) /\ e.tx.seq = st.seq[e.tx.signer]
      /\ ~IsCharged(e) => s = st
      /\ e.code = "failed" => s.device = st.device
      /\ e.code = "ok" => Registered(st.device, e.tx.msgs, Len(e.tx.msgs), s.device)
      /\ e.code = "ok" => gas + e.charge <= MaxBlockGas
      /\ e.code = "full" <=> gas >= MaxBlockGas
      /\ e.code # "malformed" => e.charge <= e.tx.gas
  BY <1>2, <1>3, <1>4
<1>7. s \in Stores
  BY <1>2
<1> HIDE DEF s
<1>8. Outcome(m, s, h)
  BY <1>0, <1>3, <1>5, <1>6, <1>7, OutcomeAppended
<1>9. IsCharged(e) => e.tx.seq = Cardinality(ChargesIn(l, e.tx.signer, e.height))
  <2>1. tx.signer \in Accounts
    BY TxFacts
  <2>2. st.seq[tx.signer] = Cardinality(ChargesIn(l, tx.signer, h))
    BY <1>0, <2>1 DEF Outcome
  <2>3. QED
    BY <1>3, <1>6, <2>2
<1>10. LogOK(m) /\ GasIn(m, Len(m), e.height) = gas + e.charge
  <2>1. gas = GasIn(l, Len(l), e.height) /\ \A i \in DOMAIN l : l[i].height <= e.height
    BY <1>0, <1>3
  <2>2. QED
    BY <1>0, <1>3, <1>5, <1>6, <1>9, <2>1, EntryLogged
<1>11. /\ m \in Seq(Entries) /\ DOMAIN m = DOMAIN l \cup {Len(m)} /\ m[Len(m)] = e /\ Len(m) \notin DOMAIN l
       /\ \A i \in DOMAIN l : m[i] = l[i]
  <2>1. e \in Entries
    BY <1>3
  <2>2. m \in Seq(Entries) /\ DOMAIN m = DOMAIN l \cup {Len(m)} /\ Len(m) \notin DOMAIN l
    BY <1>0, <1>5, <2>1, Appended
  <2>3. m[Len(m)] = e /\ \A i \in DOMAIN l : m[i] = l[i]
    BY <1>0, <1>5, <2>1, Appended, Zenon
  <2>4. QED
    BY <2>2, <2>3
<1>12. QED
  BY <1>2, <1>3, <1>8, <1>10, <1>11 DEF s, EntryOf

\* DeliverTx
LEMMA AppDeliverTx ==
    ASSUME BaseAppConstants, AppInv, DeliverTx
    PROVE  AppInv'
<1>1. AppTypes /\ AppBlocks /\ AppLog /\ AppStart /\ AppState /\ AppPool
  BY DEF AppInv
<1> DEFINE h == cms.height + 1
           tx == blocks[h][Done(h) + 1]
           base == deliver.meter + ParamGas
           r == runDeliver(deliver.store, tx, h, deliver.gas, base)
           e == [height |-> h, tx |-> tx, code |-> r.code, charge |-> r.charge]
<1>2. /\ phase = "begun" /\ Done(h) < Len(blocks[h])
      /\ deliver' = [deliver EXCEPT !.store = r.store, !.gas = @ + r.charge, !.meter = @ + ParamGas]
      /\ log' = Append(log, e)
      /\ cms' = cms /\ check' = check /\ pool' = pool /\ recheck' = recheck /\ blocks' = blocks
      /\ phase' = phase
  BY DEF DeliverTx
<1>3. tx \in Txs
  BY <1>2, NextTx
<1>4. cms.height \in Nat /\ h \in Nat /\ deliver.store \in Stores /\ deliver.gas \in Nat /\ deliver.meter \in Nat
      /\ base \in Nat /\ ParamGas \in Nat
  <2>1. cms.height \in Nat /\ deliver.store \in Stores /\ deliver.gas \in Nat /\ deliver.meter \in Nat
    BY <1>1, AppParts
  <2>2. ParamGas \in Nat
    BY DEF BaseAppConstants
  <2>3. QED
    BY <2>1, <2>2
<1>5. log \in Seq(Entries) /\ LogOK(log) /\ \A i \in DOMAIN log : log[i].height >= 1 /\ log[i].height <= h
  BY <1>1, <1>2 DEF AppTypes, AppLog, Top
<1>6. Outcome(log, deliver.store, h) /\ deliver.gas = GasIn(log, Len(log), h)
  BY <1>1, <1>2 DEF AppState
<1>7. LoggedAt(log', log, h, tx, r)
  BY <1>2, Zenon DEF LoggedAt, Longer
<1>8. ResultOf(r, deliver.store, tx, h, deliver.gas, base)
  BY Zenon DEF ResultOf
<1>9. deliver' = [deliver EXCEPT !.store = r.store, !.gas = @ + r.charge, !.meter = @ + ParamGas]
  BY <1>2
<1> HIDE DEF r, e, base, tx, h
<1>10. /\ log' \in Seq(Entries) /\ LogOK(log') /\ r.store \in Stores /\ r.charge \in Nat
       /\ Outcome(log', r.store, h) /\ GasIn(log', Len(log'), h) = deliver.gas + r.charge
       /\ \A i \in DOMAIN log : log'[i] = log[i]
       /\ DOMAIN log' = DOMAIN log \cup {Len(log')} /\ Len(log') \notin DOMAIN log /\ log'[Len(log')].height = h
  <2>1. Running(log, deliver.store, deliver.gas, h)
    BY <1>4, <1>5, <1>6 DEF Running
  <2>2. EntryOf(log', log, r, deliver.gas, h)
    BY <1>3, <1>4, <1>7, <1>8, <2>1, EntryDelivered
  <2>3. QED
    BY <2>2 DEF EntryOf
<1>11. /\ deliver' \in [on : BOOLEAN, store : Stores, gas : Nat, meter : Nat]
       /\ deliver'.on = deliver.on /\ deliver'.store = r.store /\ deliver'.gas = deliver.gas + r.charge
  <2>1. deliver \in [on : BOOLEAN, store : Stores, gas : Nat, meter : Nat]
    BY <1>1 DEF AppTypes
  <2>2. r.store \in Stores /\ deliver.gas + r.charge \in Nat /\ deliver.meter + ParamGas \in Nat
    BY <1>4, <1>10
  <2>3. deliver' = [deliver EXCEPT !.store = r.store, !.gas = deliver.gas + r.charge,
                                   !.meter = deliver.meter + ParamGas]
    BY <1>9
  <2>4. QED
    BY <2>1, <2>2, <2>3
<1>12. AppTypes'
  BY <1>1, <1>2, <1>10, <1>11 DEF AppTypes
<1>13. AppBlocks'
  BY <1>1, <1>2, <1>11 DEF AppBlocks
<1>14. Top' = h /\ h >= 1
  BY <1>2, <1>4 DEF Top, h
<1>15. AppLog'
  <2>1. ASSUME NEW i \in DOMAIN log' PROVE log'[i].height >= 1 /\ log'[i].height <= h
    <3>1. CASE i \in DOMAIN log
      BY <1>5, <1>10, <3>1
    <3>2. CASE i = Len(log')
      BY <1>4, <1>10, <1>14, <3>2
    <3>3. QED
      BY <1>10, <3>1, <3>2
  <2>2. QED
    BY <1>10, <1>14, <2>1 DEF AppLog
<1>16. AppStart'
  BY <1>1, <1>2 DEF AppStart
<1>17. AppState'
  <2>1. ASSUME cms.height > 0 PROVE Outcome(log', cms.store, cms.height)
    <3>1. Outcome(log, cms.store, cms.height)
      BY <1>1, <2>1 DEF AppState
    <3>2. cms.height \in Nat /\ ~(h <= cms.height)
      BY <1>4 DEF h
    <3>3. \A i \in DOMAIN log : log[i].height <= cms.height =>
              i \in DOMAIN log' /\ log'[i] = log[i] /\ log'[i].height <= cms.height
      BY <1>10
    <3>4. \A i \in DOMAIN log' : log'[i].height <= cms.height =>
              i \in DOMAIN log /\ log'[i] = log[i] /\ log[i].height <= cms.height
      BY <1>10, <3>2
    <3>5. QED
      BY <1>5, <1>10, <3>1, <3>2, <3>3, <3>4, OutcomeFrame
  <2>2. Outcome(log', deliver'.store, h) /\ deliver'.gas = GasIn(log', Len(log'), h)
    BY <1>10, <1>11
  <2>3. QED
    BY <1>2, <2>1, <2>2 DEF AppState, h
<1>18. AppPool'
  BY <1>1, <1>2 DEF AppPool
<1>19. QED
  BY <1>12, <1>13, <1>15, <1>16, <1>17, <1>18 DEF AppInv

\* EndBlock
LEMMA AppEndBlock ==
    ASSUME BaseAppConstants, AppInv, EndBlock
    PROVE  AppInv'
<1>1. AppTypes /\ AppBlocks /\ AppLog /\ AppStart /\ AppState /\ AppPool
  BY DEF AppInv
<1>2. /\ phase = "begun" /\ phase' = "ended" /\ cms' = cms /\ check' = check /\ pool' = pool
      /\ recheck' = recheck /\ blocks' = blocks /\ log' = log /\ deliver' = deliver
  BY DEF EndBlock
<1>3. AppTypes'
  BY <1>1, <1>2 DEF AppTypes
<1>4. AppBlocks'
  BY <1>1, <1>2 DEF AppBlocks
<1>5. AppLog'
  <2>1. Top' = Top
    BY <1>2 DEF Top
  <2>2. QED
    BY <1>1, <1>2, <2>1 DEF AppLog
<1>6. AppStart'
  BY <1>1, <1>2 DEF AppStart
<1>7. AppState'
  BY <1>1, <1>2 DEF AppState
<1>8. AppPool'
  BY <1>1, <1>2 DEF AppPool
<1>9. QED
  BY <1>3, <1>4, <1>5, <1>6, <1>7, <1>8 DEF AppInv

\* Commit
LEMMA AppCommit ==
    ASSUME BaseAppConstants, AppInv, Commit
    PROVE  AppInv'
<1>1. AppTypes /\ AppBlocks /\ AppLog /\ AppStart /\ AppState /\ AppPool
  BY DEF AppInv
<1> DEFINE h == cms.height + 1
           rest == Without(pool, Ids(blocks[h]))
<1>2. /\ phase = "ended" /\ phase' = "idle" /\ deliver' = NoDeliver
      /\ cms' = [height |-> h, store |-> deliver.store]
      /\ check' = [store |-> deliver.store, height |-> h]
      /\ pool' = rest /\ recheck' = rest /\ blocks' = blocks /\ log' = log
  BY DEF Commit
<1>3. cms.height \in Nat /\ h \in Nat /\ h > 0 /\ h # 0 /\ deliver.store \in Stores
  BY <1>1, AppParts
<1>4. cms'.height = h /\ cms'.store = deliver.store /\ check'.store = deliver.store
  BY <1>2
<1>5. NoDeliver \in [on : BOOLEAN, store : Stores, gas : Nat, meter : Nat] /\ ~NoDeliver.on
  BY FirstStores
<1>6. rest \in Seq(Txs)
  BY <1>1, WithoutFacts DEF AppPool, PoolOK
<1> HIDE DEF rest
<1>7. AppTypes'
  BY <1>1, <1>2, <1>3, <1>5 DEF AppTypes
<1>8. AppBlocks'
  BY <1>1, <1>2, <1>3, <1>4 DEF AppBlocks
<1>9. AppLog'
  <2>1. Top' = Top
    BY <1>2, <1>4 DEF Top
  <2>2. QED
    BY <1>1, <1>2, <2>1 DEF AppLog
<1>10. AppStart'
  BY <1>2, <1>3, <1>4, <1>5 DEF AppStart
<1>11. AppState'
  BY <1>1, <1>2, <1>4 DEF AppState
<1>12. AppPool'
  <2>1. PoolOK(deliver.store, deliver.store, rest, rest)
    BY <1>3, <1>6, PoolStart
  <2>2. QED
    BY <1>2, <1>4, <2>1 DEF AppPool
<1>13. QED
  BY <1>7, <1>8, <1>9, <1>10, <1>11, <1>12 DEF AppInv

\* CheckTx
LEMMA AppCheckTx ==
    ASSUME BaseAppConstants, AppInv, NEW tx \in Txs, CheckTx(tx)
    PROVE  AppInv'
<1>1. AppTypes /\ AppBlocks /\ AppLog /\ AppStart /\ AppState /\ AppPool
  BY DEF AppInv
<1> DEFINE r == runTx(check.store, tx, "check", check.height, 0)
<1>2. /\ recheck = <<>> /\ r.code = "ok" /\ check' = [check EXCEPT !.store = r.store]
      /\ pool' = Append(pool, tx)
      /\ UNCHANGED <<cms, deliver, recheck, blocks, phase, crashes, log>>
  BY DEF CheckTx
<1>3. check.store \in Stores /\ cms.store \in Stores
  BY <1>1, AppParts
<1>4. ~CannotPay(check.store, tx) /\ r.store = Charged(check.store, tx)
  BY <1>2, <1>3, CheckRunFacts
<1> HIDE DEF r
<1>5. Charged(check.store, tx) \in Stores
  BY <1>3, <1>4, ChargedFacts
<1>6. check' \in [store : Stores, height : Nat] /\ check'.store = Charged(check.store, tx)
  <2>1. check \in [store : Stores, height : Nat]
    BY <1>1 DEF AppTypes
  <2>2. QED
    BY <1>2, <1>4, <1>5, <2>1
<1>7. AppTypes'
  BY <1>1, <1>2, <1>6 DEF AppTypes
<1>8. AppBlocks'
  BY <1>1, <1>2 DEF AppBlocks
<1>9. AppLog'
  BY <1>1, <1>2, AppLogSame
<1>10. cms.height # 0
  BY <1>1, <1>4 DEF AppStart, CannotPay
<1>11. AppStart'
  BY <1>1, <1>2, <1>10 DEF AppStart
<1>12. AppState'
  BY <1>1, <1>2, AppStateSame
<1>13. AppPool'
  <2>1. PoolOK(Charged(check.store, tx), cms.store, Append(pool, tx), recheck)
    BY <1>1, <1>2, <1>3, <1>4, PoolChecked DEF AppPool
  <2>2. QED
    BY <1>2, <1>6, <2>1 DEF AppPool
<1>14. QED
  BY <1>7, <1>8, <1>9, <1>11, <1>12, <1>13 DEF AppInv

\* A recheck
LEMMA AppReCheckTx ==
    ASSUME BaseAppConstants, AppInv, ReCheckTx
    PROVE  AppInv'
<1>1. AppTypes /\ AppBlocks /\ AppLog /\ AppStart /\ AppState /\ AppPool
  BY DEF AppInv
<1> DEFINE tx == Head(recheck)
           cursor == Len(pool) - Len(recheck) + 1
           r == runTx(check.store, tx, "recheck", check.height, 0)
<1>2. /\ recheck # <<>> /\ recheck' = Tail(recheck) /\ check' = [check EXCEPT !.store = r.store]
      /\ pool' = IF r.code = "ok" THEN pool ELSE RemoveAt(pool, cursor)
      /\ UNCHANGED <<cms, deliver, blocks, phase, crashes, log>>
  BY DEF ReCheckTx
<1>3. check.store \in Stores /\ cms.store \in Stores
  BY <1>1, AppParts
<1>4. tx \in Txs
  BY <1>1, <1>2, TailFacts DEF AppPool, PoolOK
<1>5. /\ r.code = "ok" => ~CannotPay(check.store, tx) /\ r.store = Charged(check.store, tx)
      /\ r.code # "ok" => r.store = check.store
  BY <1>3, <1>4, CheckRunFacts
<1> HIDE DEF r
<1>6. r.store \in Stores
  BY <1>3, <1>4, <1>5, ChargedFacts
<1>7. check' \in [store : Stores, height : Nat] /\ check'.store = r.store
  <2>1. check \in [store : Stores, height : Nat]
    BY <1>1 DEF AppTypes
  <2>2. QED
    BY <1>2, <1>6, <2>1
<1>8. AppTypes'
  BY <1>1, <1>2, <1>7 DEF AppTypes
<1>9. AppBlocks'
  BY <1>1, <1>2 DEF AppBlocks
<1>10. AppLog'
  BY <1>1, <1>2, AppLogSame
<1>11. cms.height # 0
  BY <1>1, <1>2 DEF AppStart
<1>12. AppStart'
  BY <1>1, <1>2, <1>11 DEF AppStart
<1>13. AppState'
  BY <1>1, <1>2, AppStateSame
<1>14. AppPool'
  <2>1. CASE r.code = "ok"
    <3>1. PoolOK(Charged(check.store, tx), cms.store, pool, Tail(recheck))
      BY <1>1, <1>2, <1>3, <1>5, <2>1, PoolRechecked DEF AppPool
    <3> HIDE DEF tx, cursor
    <3>2. QED
      BY <1>2, <1>5, <1>7, <2>1, <3>1 DEF AppPool
  <2>2. CASE r.code # "ok"
    <3>1. PoolOK(check.store, cms.store, RemoveAt(pool, cursor), Tail(recheck))
      BY <1>1, <1>2, PoolDropped DEF AppPool
    <3> HIDE DEF tx, cursor
    <3>2. QED
      BY <1>2, <1>5, <1>7, <2>2, <3>1 DEF AppPool
  <2>3. QED
    BY <2>1, <2>2
<1>15. QED
  BY <1>8, <1>9, <1>10, <1>12, <1>13, <1>14 DEF AppInv

\* A simulation changes nothing.
LEMMA AppSimulate ==
    ASSUME AppInv, NEW tx, Simulate(tx)
    PROVE  AppInv'
<1>1. AppTypes /\ AppBlocks /\ AppLog /\ AppStart /\ AppState /\ AppPool
  BY DEF AppInv
<1>2. check' = check
  BY <1>1 DEF Simulate, AppTypes
<1>3. UNCHANGED <<cms, deliver, pool, recheck, blocks, phase, crashes, log>>
  BY DEF Simulate
<1>4. AppTypes'
  BY <1>1, <1>2, <1>3 DEF AppTypes
<1>5. AppBlocks' /\ AppStart' /\ AppPool'
  BY <1>1, <1>2, <1>3 DEF AppBlocks, AppStart, AppPool
<1>6. AppLog' /\ AppState'
  BY <1>1, <1>3, AppLogSame, AppStateSame
<1>7. QED
  BY <1>4, <1>5, <1>6 DEF AppInv

\* A crash
LEMMA AppCrash ==
    ASSUME BaseAppConstants, AppInv, Crash
    PROVE  AppInv'
<1>1. AppTypes /\ AppBlocks /\ AppLog /\ AppStart /\ AppState /\ AppPool
  BY DEF AppInv
<1> DEFINE h == cms.height
<1>2. /\ deliver' = NoDeliver /\ phase' = "idle" /\ check' = [store |-> cms.store, height |-> 0]
      /\ pool' = <<>> /\ recheck' = <<>> /\ cms' = cms /\ blocks' = blocks
      /\ log' = SubSeq(log, 1, Len(log) - Done(h + 1))
  BY DEF Crash
<1>3. h \in Nat /\ cms.store \in Stores
  BY <1>1, AppParts
<1>4. log \in Seq(Entries) /\ LogOK(log) /\ Rising(log)
      /\ \A i \in DOMAIN log : log[i].height >= 1 /\ log[i].height <= Top
  BY <1>1 DEF AppTypes, AppLog, LogOK
<1>5. \A i \in DOMAIN log : log[i].height <= h + 1
  <2>1. \A e \in Entries : e.height \in Nat
    BY DEF Entries
  <2>2. \A i \in DOMAIN log : log[i].height \in Nat
    BY <1>4, <2>1, LogFinite
  <2>3. Top \in Nat /\ Top <= h + 1
    BY <1>3 DEF Top
  <2>4. QED
    BY <1>3, <1>4, <2>2, <2>3
<1> HIDE DEF h
<1>6. PICK c \in 0 .. Len(log) : /\ Cardinality({i \in DOMAIN log : log[i].height = h + 1}) = c
                                 /\ \A i \in DOMAIN log : log[i].height <= h <=> ~(i > Len(log) - c)
  BY <1>3, <1>4, <1>5, TopsCounted
<1>7. StartOf(log', log, Len(log) - c)
  BY <1>2, <1>6 DEF StartOf, Done
<1>8. /\ log' \in Seq(Entries) /\ AgreeTo(log, log', Len(log'))
      /\ \A i \in DOMAIN log : log[i].height <= h <=> i \in DOMAIN log'
      /\ \A i \in DOMAIN log' : i \in DOMAIN log /\ log'[i] = log[i]
  BY <1>4, <1>6, <1>7, TopsDropped
<1>9. LogOK(log')
  BY <1>4, <1>8, StartKept
<1>10. NoDeliver \in [on : BOOLEAN, store : Stores, gas : Nat, meter : Nat] /\ ~NoDeliver.on
  BY FirstStores
<1>11. check'.store = cms.store /\ check' \in [store : Stores, height : Nat]
  BY <1>2, <1>3
<1>12. AppTypes'
  BY <1>1, <1>2, <1>8, <1>10, <1>11 DEF AppTypes
<1>13. AppBlocks'
  BY <1>1, <1>2 DEF AppBlocks
<1>14. AppLog'
  <2>1. Top' = h
    BY <1>2 DEF Top, h
  <2>2. \A i \in DOMAIN log' : log'[i].height >= 1 /\ log'[i].height <= h
    BY <1>4, <1>8
  <2>3. QED
    BY <1>9, <2>1, <2>2 DEF AppLog
<1>15. AppStart'
  BY <1>1, <1>2, <1>10, <1>11 DEF AppStart
<1>16. AppState'
  <2>1. ASSUME h > 0 PROVE Outcome(log', cms.store, h)
    <3>1. Outcome(log, cms.store, h)
      BY <1>1, <2>1 DEF AppState, h
    <3>2. \A i \in DOMAIN log : log[i].height <= h => i \in DOMAIN log' /\ log'[i] = log[i] /\ log'[i].height <= h
      BY <1>8
    <3>3. \A i \in DOMAIN log' : log'[i].height <= h => i \in DOMAIN log /\ log'[i] = log[i] /\ log[i].height <= h
      BY <1>8
    <3>4. QED
      BY <1>3, <1>4, <1>8, <3>1, <3>2, <3>3, OutcomeFrame
  <2>2. QED
    BY <1>2, <2>1 DEF AppState, h
<1>17. AppPool'
  <2>1. pool' \in Seq(Txs)
    BY <1>2
  <2>2. PoolOK(cms.store, cms.store, pool', pool')
    BY <1>3, <2>1, PoolStart
  <2>3. recheck' = pool' /\ cms' = cms
    BY <1>2
  <2>4. QED
    BY <1>11, <2>2, <2>3 DEF AppPool
<1>18. QED
  BY <1>12, <1>13, <1>14, <1>15, <1>16, <1>17 DEF AppInv

\* Every step keeps the invariant.
LEMMA AppNext ==
    ASSUME BaseAppConstants, AppInv, [Next]_vars
    PROVE  AppInv'
<1>1. CASE InitChain
  BY <1>1, AppInitChain
<1>2. ASSUME NEW b \in Blocks, Decide(b) PROVE AppInv'
  BY <1>2, AppDecide
<1>3. CASE BeginBlock
  BY <1>3, AppBeginBlock
<1>4. CASE DeliverTx
  BY <1>4, AppDeliverTx
<1>5. CASE EndBlock
  BY <1>5, AppEndBlock
<1>6. CASE Commit
  BY <1>6, AppCommit
<1>7. ASSUME NEW tx \in Txs, CheckTx(tx) PROVE AppInv'
  BY <1>7, AppCheckTx
<1>8. ASSUME NEW tx \in Txs, Simulate(tx) PROVE AppInv'
  BY <1>8, AppSimulate
<1>9. CASE ReCheckTx
  BY <1>9, AppReCheckTx
<1>10. CASE Crash
  BY <1>10, AppCrash
<1>11. CASE UNCHANGED vars
  <2>1. UNCHANGED <<cms, deliver, check, pool, recheck, blocks, phase, log>>
    BY <1>11 DEF vars
  <2>2. AppTypes /\ AppBlocks /\ AppLog /\ AppStart /\ AppState /\ AppPool
    BY DEF AppInv
  <2>3. AppTypes' /\ AppBlocks' /\ AppStart' /\ AppPool'
    BY <2>1, <2>2 DEF AppTypes, AppBlocks, AppStart, AppPool
  <2>4. AppLog' /\ AppState'
    BY <2>1, <2>2, AppLogSame, AppStateSame
  <2>5. QED
    BY <2>3, <2>4 DEF AppInv
<1>12. QED
  BY <1>1, <1>2, <1>3, <1>4, <1>5, <1>6, <1>7, <1>8, <1>9, <1>10, <1>11 DEF Next

\* What the invariant says of the log, the committed state and checkState.
LEMMA AppMeaning ==
    ASSUME BaseAppConstants, AppInv
    PROVE  SequencesInOrder /\ StateIsLog /\ GasStopsBlock /\ CheckIsPoolAhead
<1>1. AppTypes /\ AppBlocks /\ AppLog /\ AppStart /\ AppState /\ AppPool
  BY DEF AppInv
<1>2. log \in Seq(Entries) /\ LogOK(log) /\ DOMAIN log = 1 .. Len(log) /\ Len(log) \in Nat
  BY <1>1, LogFinite DEF AppTypes, AppLog
<1>3. SequencesInOrder
  <2>1. \A i \in DOMAIN log : log[i].height <= MaxHeight
    <3>1. \A e \in Entries : e.height \in Nat
      BY DEF Entries
    <3>2. \A i \in DOMAIN log : log[i].height \in Nat
      BY <1>2, <3>1, LogFinite
    <3>3. MaxHeight \in Nat /\ cms.height \in Nat /\ Len(blocks) \in Nat
      BY <1>1, AppParts DEF BaseAppConstants
    <3>4. Top \in Nat /\ Top <= MaxHeight
      BY <1>1, <3>3 DEF AppBlocks, Top, AppTypes
    <3>5. QED
      BY <1>1, <3>2, <3>3, <3>4 DEF AppLog
  <2>2. ASSUME NEW i \in DOMAIN log
        PROVE  {j \in ChargesOf(log[i].tx.signer, MaxHeight) : j < i} = Earlier(log, i)
    BY <2>1 DEF ChargesOf, Earlier
  <2>3. InOrder(log)
    BY <1>2 DEF LogOK
  <2>4. QED
    BY <2>2, <2>3 DEF SequencesInOrder, InOrder
<1>4. StateIsLog
  BY <1>1, <1>2, OutcomeOfLog DEF AppState, StateIsLog
<1>5. GasStopsBlock
  <2>1. ASSUME NEW i \in DOMAIN log PROVE GasUpTo(i) = GasIn(log, i, log[i].height)
    BY Zenon DEF GasUpTo, GasIn, At
  <2>2. \A i \in DOMAIN log : GasFits(log, i)
    BY <1>2 DEF LogOK
  <2>3. QED
    BY <2>1, <2>2 DEF GasStopsBlock, GasFits
<1>6. CheckIsPoolAhead
  <2>1. SUFFICES ASSUME recheck = <<>>, NEW a \in Accounts
                 PROVE  LET mine == {i \in DOMAIN pool : pool[i].signer = a}
                        IN  /\ check.store.seq[a] = cms.store.seq[a] + Cardinality(mine)
                            /\ check.store.bal[a] = cms.store.bal[a] - FeeSum(pool, mine)
    BY DEF CheckIsPoolAhead
  <2>2. pool \in Seq(Txs) /\ Ahead(check.store, cms.store, pool, Len(pool) - Len(recheck))
    BY <1>1 DEF AppPool, PoolOK
  <2>3. Len(pool) - Len(recheck) = Len(pool) /\ DOMAIN pool = 1 .. Len(pool)
    BY <2>1, <2>2
  <2>4. Ahead(check.store, cms.store, pool, Len(pool))
    BY <2>2, <2>3
  <2>5. MineIn(pool, Len(pool), a) = {i \in DOMAIN pool : pool[i].signer = a}
    BY <2>3 DEF MineIn
  <2>6. QED
    BY <2>4, <2>5 DEF Ahead
<1>7. QED
  BY <1>3, <1>4, <1>5, <1>6

\* For every value of the constants: charges follow the sequences of the account,
\* state is the outcome of what was charged and of the transactions that succeeded
\* as a whole, blocks stop at their gas, and checkState counts the mempool, through
\* blocks that repeat transactions, rechecks, simulations, crashes and replays.
THEOREM TransactionsSafe ==
    ASSUME BaseAppConstants
    PROVE  Spec => [](SequencesInOrder /\ StateIsLog /\ GasStopsBlock /\ CheckIsPoolAhead)
<1>1. Init => AppInv
  BY AppInit
<1>2. AppInv /\ [Next]_vars => AppInv'
  BY AppNext
<1>3. AppInv => SequencesInOrder /\ StateIsLog /\ GasStopsBlock /\ CheckIsPoolAhead
  BY AppMeaning
<1>4. QED
  BY <1>1, <1>2, <1>3, PTL DEF Spec

=============================================================================
