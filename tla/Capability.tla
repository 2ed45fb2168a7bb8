------------------------------ MODULE Capability ------------------------------
(***************************************************************************)
(* The capability keeper of one node.  What it knows lives in three        *)
(* places: the owners and the index in the persistent store, the forward   *)
(* and reverse mappings in the memory store, and the capabilities          *)
(* themselves in a Go map.  Both stores are branched by the block and by   *)
(* the transaction and are dropped when it fails; the map is shared by     *)
(* everything that runs and is never rolled back.  A restart loses the     *)
(* memory store and the map, and the first block after it builds them      *)
(* again from the owners.  Two transactions may run at a time: one         *)
(* delivered and one simulated.  A capability is its index and a number    *)
(* for the address at which it was allocated; no address is given twice.   *)
(***************************************************************************)
EXTENDS Integers, FiniteSets, FiniteSetsExt

CONSTANTS
    Modules, Names,     \* scoped modules; names are numbers, in the order of their keys
    Tidy,               \* a module claims a capability once, and under a name it does not use
    MaxIndex, MaxAddress, MaxBlocks     \* bounds

\* What the constants are.
CapabilityConstants ==
    /\ Tidy \in BOOLEAN
    /\ {MaxIndex, MaxAddress, MaxBlocks} \subseteq Nat
    /\ Names \subseteq Nat

VARIABLES
    root,      \* the committed stores: see States
    block,     \* the stores of the block being delivered, or NoStores
    tx,        \* the stores of the running transactions, or NoStores
    held,      \* the capabilities each transaction has a reference to
    dropped,   \* indices the delivered transaction took out of the map
    lost,      \* history: indices whose entry in the map was changed by a transaction
               \* that had no effect, or that were claimed without an entry
    capMap,    \* Keeper.capMap: index to capability
    address,   \* last address given to a capability
    blocks     \* blocks begun so far

vars == <<root, block, tx, held, dropped, lost, capMap, address, blocks>>

NoStores == <<>>       \* no stores: there is no block, or no transaction
Kinds == {"deliver", "simulate"}
Put(f, x, y) == [z \in DOMAIN f \cup {x} |-> IF z = x THEN y ELSE f[z]]
Without(f, x) == [z \in DOMAIN f \ {x} |-> f[z]]

-------------------------------------------------------------------------------
getOwners(s, i) == IF i \in DOMAIN s.owners THEN s.owners[i] ELSE {}

\* InitializeCapability for every index: the owners come in the order of their
\* keys and the indices in their order, so the last of each wins.
InitializeCapabilities(s, at) ==
    [s EXCEPT
       !.fwd = [x \in UNION {{<<o[1], at[i]>> : o \in s.owners[i]} : i \in DOMAIN s.owners} |->
                  Max({o[2] : o \in {p \in s.owners[x[2][1]] : p[1] = x[1]}})],
       !.rev = [o \in UNION {s.owners[i] : i \in DOMAIN s.owners} |->
                  Max({i \in DOMAIN s.owners : o \in s.owners[i]})],
       !.ready = TRUE]

\* BeginBlocker: InitMemStore does nothing unless the memory store was lost.
InitMemStore(s) ==
    LET at == [i \in DOMAIN s.owners |->
                 <<i, address + Cardinality({j \in DOMAIN s.owners : j <= i})>>]
    IN  IF s.ready THEN block' = s /\ UNCHANGED <<capMap, address, lost>>
        ELSE /\ block' = InitializeCapabilities(s, at)
             /\ capMap' = [i \in DOMAIN capMap \cup DOMAIN at |->
                             IF i \in DOMAIN at THEN at[i] ELSE capMap[i]]
             /\ address' = address + Cardinality(DOMAIN at)
             /\ lost' = lost \ DOMAIN at

BeginBlock ==
    /\ block = NoStores
    /\ blocks < MaxBlocks
    /\ blocks' = blocks + 1
    /\ InitMemStore(root)
    /\ UNCHANGED <<root, tx, held, dropped>>

Commit ==
    /\ block # NoStores
    /\ tx["deliver"] = NoStores
    /\ root' = block
    /\ block' = NoStores
    /\ UNCHANGED <<tx, held, dropped, lost, capMap, address, blocks>>

\* A delivered transaction branches the block's stores, a simulated one the
\* committed ones.
BeginTx(k) ==
    /\ tx[k] = NoStores
    /\ k = "deliver" => block # NoStores
    /\ tx' = [tx EXCEPT ![k] = IF k = "deliver" THEN block ELSE root]
    /\ UNCHANGED <<root, block, held, dropped, lost, capMap, address, blocks>>

Ended(k) ==
    /\ tx' = [tx EXCEPT ![k] = NoStores]
    /\ held' = [held EXCEPT ![k] = {}]
    /\ dropped' = IF k = "deliver" THEN {} ELSE dropped

\* The branch is written back when every message succeeded, and dropped after
\* an error, a panic or a simulation; what left the map stays out of it.
Succeeds(k) ==
    /\ k = "deliver" /\ tx[k] # NoStores
    /\ block' = tx[k]
    /\ Ended(k)
    /\ UNCHANGED <<root, lost, capMap, address, blocks>>

Fails(k) ==
    /\ tx[k] # NoStores
    /\ Ended(k)
    /\ lost' = IF k = "deliver" THEN lost \cup dropped ELSE lost
    /\ UNCHANGED <<root, block, capMap, address, blocks>>

\* Faulty: the index of the last capability is used again.
NextIndexStays(s) == s.index

NextIndex(s) == s.index + 1

\* NewCapability fails when the module has the name already.  A simulated one
\* replaces the capability that a block may have made with the same index.
NewCapability(k, m, n) ==
    /\ tx[k] # NoStores
    /\ <<m, n>> \notin DOMAIN tx[k].rev
    /\ tx[k].index <= MaxIndex /\ address < MaxAddress
    /\ LET s == tx[k]
           i == s.index
           c == <<i, address + 1>>
       IN  /\ tx' = [tx EXCEPT ![k] =
                       [s EXCEPT !.index = NextIndex(s),
                                 !.owners = Put(s.owners, i, getOwners(s, i) \cup {<<m, n>>}),
                                 !.fwd = Put(s.fwd, <<m, c>>, n),
                                 !.rev = Put(s.rev, <<m, n>>, i)]]
           /\ capMap' = Put(capMap, i, c)
           /\ address' = address + 1
           /\ held' = [held EXCEPT ![k] = @ \cup {c}]
           /\ lost' = IF k = "deliver" THEN lost \ {i} ELSE lost \cup {i}
    /\ UNCHANGED <<root, block, dropped, blocks>>

\* GetCapability panics, and the transaction fails, when the map lost the index.
GetCapability(k, m, n) ==
    /\ tx[k] # NoStores
    /\ <<m, n>> \in DOMAIN tx[k].rev
    /\ LET i == tx[k].rev[<<m, n>>]
       IN  \/ /\ i \in DOMAIN capMap
              /\ held' = [held EXCEPT ![k] = @ \cup {capMap[i]}]
              /\ UNCHANGED <<root, block, tx, dropped, lost, capMap, address, blocks>>
           \/ i \notin DOMAIN capMap /\ Fails(k)

\* The rules of the modules: one capability for a name and one name for it.
TidyClaim(s, m, c, n) ==
    <<m, n>> \notin DOMAIN s.rev /\ ~\E o \in getOwners(s, c[1]) : o[1] = m

InMap(c) == c[1] \in DOMAIN capMap /\ capMap[c[1]] = c

\* Faulty: the persistent owners are not updated.
ClaimCapabilityMemory(k, m, c, n) ==
    /\ tx[k] # NoStores
    /\ c \in held[k]
    /\ <<m, n>> \notin getOwners(tx[k], c[1])
    /\ Tidy => TidyClaim(tx[k], m, c, n)
    /\ tx' = [tx EXCEPT ![k].fwd = Put(@, <<m, c>>, n), ![k].rev = Put(@, <<m, n>>, c[1])]
    /\ lost' = IF k = "deliver" /\ ~InMap(c) THEN lost \cup {c[1]} ELSE lost
    /\ UNCHANGED <<root, block, held, dropped, capMap, address, blocks>>

\* ClaimCapability of a capability another module handed over, which may have
\* been released and have left the map.
ClaimCapability(k, m, c, n) ==
    /\ tx[k] # NoStores
    /\ c \in held[k]
    /\ <<m, n>> \notin getOwners(tx[k], c[1])
    /\ Tidy => TidyClaim(tx[k], m, c, n)
    /\ LET s == tx[k]
           i == c[1]
       IN  /\ tx' = [tx EXCEPT ![k] =
                       [s EXCEPT !.owners = Put(s.owners, i, getOwners(s, i) \cup {<<m, n>>}),
                                 !.fwd = Put(s.fwd, <<m, c>>, n),
                                 !.rev = Put(s.rev, <<m, n>>, i)]]
           /\ lost' = IF k = "deliver" /\ ~InMap(c) THEN lost \cup {i} ELSE lost
    /\ UNCHANGED <<root, block, held, dropped, capMap, address, blocks>>

\* Faulty: the capability leaves the map while it still has owners.
LastOwnerNever(owners) == TRUE

LastOwner(owners) == owners = {}

\* ReleaseCapability: with its last owner the capability leaves the map.
ReleaseCapability(k, m, c) ==
    /\ tx[k] # NoStores
    /\ c \in held[k]
    /\ <<m, c>> \in DOMAIN tx[k].fwd
    /\ LET s == tx[k]
           i == c[1]
           n == s.fwd[<<m, c>>]
           left == getOwners(s, i) \ {<<m, n>>}
       IN  /\ tx' = [tx EXCEPT ![k] =
                       [s EXCEPT !.fwd = Without(s.fwd, <<m, c>>),
                                 !.rev = Without(s.rev, <<m, n>>),
                                 !.owners = IF left = {} THEN Without(s.owners, i)
                                            ELSE Put(s.owners, i, left)]]
           /\ capMap' = IF LastOwner(left) THEN Without(capMap, i) ELSE capMap
           /\ dropped' = IF LastOwner(left) /\ k = "deliver" THEN dropped \cup {i} ELSE dropped
           /\ lost' = IF LastOwner(left) /\ k = "simulate" THEN lost \cup {i} ELSE lost
    /\ UNCHANGED <<root, block, held, address, blocks>>

\* The node stops and starts: memory is lost, the committed store is not.
Restart ==
    /\ root' = [root EXCEPT !.fwd = <<>>, !.rev = <<>>, !.ready = FALSE]
    /\ block' = NoStores
    /\ tx' = [k \in Kinds |-> NoStores]
    /\ held' = [k \in Kinds |-> {}]
    /\ dropped' = {} /\ lost' = {}
    /\ capMap' = <<>>
    /\ UNCHANGED <<address, blocks>>

\* InitGenesis: no capability, the index is one.
Init ==
    /\ root = [index |-> 1, owners |-> <<>>, fwd |-> <<>>, rev |-> <<>>, ready |-> TRUE]
    /\ block = NoStores
    /\ tx = [k \in Kinds |-> NoStores]
    /\ held = [k \in Kinds |-> {}]
    /\ dropped = {} /\ lost = {}
    /\ capMap = <<>>
    /\ address = 0
    /\ blocks = 0

Next ==
    \/ BeginBlock \/ Commit \/ Restart
    \/ \E k \in Kinds :
         \/ BeginTx(k) \/ Succeeds(k) \/ Fails(k)
         \/ \E m \in Modules, n \in Names :
              \/ NewCapability(k, m, n) \/ GetCapability(k, m, n)
              \/ \E c \in held[k] : ClaimCapability(k, m, c, n)
         \/ \E m \in Modules, c \in held[k] : ReleaseCapability(k, m, c)

Spec == Init /\ [][Next]_vars

-------------------------------------------------------------------------------
Owners == Modules \X Names
Indices == 1..MaxIndex
Capabilities == Indices \X (1..(MaxAddress + MaxIndex * MaxBlocks))
States(s) ==
    /\ s.index \in 1..(MaxIndex + 1)
    /\ DOMAIN s.owners \subseteq Indices
    /\ \A i \in DOMAIN s.owners : s.owners[i] \subseteq Owners /\ s.owners[i] # {}
    /\ DOMAIN s.fwd \subseteq Modules \X Capabilities
    /\ DOMAIN s.rev \subseteq Owners
    /\ s.ready \in BOOLEAN

\* The type of the state; no capability is kept without an owner.
TypeOK ==
    /\ States(root)
    /\ block # NoStores => States(block)
    /\ \A k \in Kinds : tx[k] # NoStores => States(tx[k])
    /\ DOMAIN capMap \subseteq Indices /\ lost \subseteq Indices
    /\ blocks \in 0..MaxBlocks

\* What the next delivered message sees.
View == IF tx["deliver"] # NoStores THEN tx["deliver"] ELSE IF block # NoStores THEN block ELSE root

\* A capability the memory store names is in the map, and GetCapability does not
\* panic in a delivered transaction, unless a transaction that had no effect took
\* it out since the last restart, or it was claimed after its release.
NeverMissing == \A o \in DOMAIN View.rev : View.rev[o] \in DOMAIN capMap \cup lost

\* GetCapabilityName: the name of capability c in module m, if it has one.
GetCapabilityName(s, m, c) == {s.fwd[x] : x \in {<<m, c>>} \cap DOMAIN s.fwd}

\* Once the memory store is built, each owner of a capability finds its index
\* under its name, and can authenticate what the map holds for it unless that
\* was lost; other failures, simulations and restarts do no harm.
OwnersAuthenticate ==
    View.ready => \A i \in DOMAIN View.owners : \A o \in View.owners[i] :
        /\ o \in DOMAIN View.rev /\ View.rev[o] = i
        /\ i \notin lost => GetCapabilityName(View, o[1], capMap[i]) = {o[2]}

\* What a node answers does not depend on whether it was restarted: the memory
\* store names what InitMemStore would name, for each capability not lost.
RestartInvisible ==
    View.ready =>
        LET at == [i \in DOMAIN View.owners |-> <<i, 0>>]
            again == InitializeCapabilities(View, at)
        IN  /\ View.rev = again.rev
            /\ \A i \in DOMAIN View.owners \ lost : \A m \in Modules :
                  GetCapabilityName(View, m, capMap[i]) = GetCapabilityName(again, m, at[i])
===============================================================================
