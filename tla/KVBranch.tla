-------------------------------- MODULE KVBranch --------------------------------
(***************************************************************************)
(* What a branch of a key-value store promises (store/types/store.go,      *)
(* KVStore, CacheKVStore and Iterator): reads see the writes of the branch *)
(* over its parent, the parent changes only by Write, and an iterator      *)
(* returns the keys its domain held when it was opened, in order, whatever *)
(* is written meanwhile to keys outside the domain or already returned.    *)
(***************************************************************************)
EXTENDS Integers

CONSTANTS MaxKey, Values, Nil, Domains

Keys == 1..MaxKey

VARIABLES
    parent,   \* the store under the branch
    view,     \* what the branch holds
    open,     \* the domain of the open iterator, or Nil
    rest,     \* the set of <<key, value>> pairs the open iterator has still to return
    got       \* the answer of a read or iterator step just made

vars == <<parent, view, open, rest, got>>

\* 0 stands for a nil bound.
InDomain(k, d) == k >= d.start /\ (d.end = 0 \/ k < d.end)

\* The pairs of m in domain d.
Listing(m, d) == {<<k, m[k]>> : k \in {j \in Keys : InDomain(j, d) /\ m[j] # Nil}}

Init ==
    /\ parent \in [Keys -> Values \cup {Nil}]
    /\ view = parent /\ open = Nil /\ rest = {} /\ got = Nil

\* Keys that may be written: any without an iterator, else those outside its
\* domain and the one it has just returned.
MayWrite(k) == open # Nil => ~InDomain(k, open) \/ (got # Nil /\ got[1] = k)

Get(k) ==
    /\ open = Nil
    /\ got' = <<k, view[k]>>
    /\ UNCHANGED <<parent, view, open, rest>>

Put(k, v) ==
    /\ MayWrite(k)
    /\ view' = [view EXCEPT ![k] = v]
    /\ got' = IF open # Nil THEN got ELSE Nil
    /\ UNCHANGED <<parent, open, rest>>

Write ==
    /\ open = Nil
    /\ parent' = view /\ got' = Nil
    /\ UNCHANGED <<view, open, rest>>

Open(d) ==
    /\ open = Nil
    /\ open' = d /\ rest' = Listing(view, d) /\ got' = Nil
    /\ UNCHANGED <<parent, view>>

Step ==
    /\ open # Nil
    /\ \E p \in rest :
          /\ \A q \in rest : IF open.asc THEN p[1] <= q[1] ELSE p[1] >= q[1]
          /\ got' = p /\ rest' = rest \ {p}
    /\ UNCHANGED <<parent, view, open>>

Close ==
    /\ open # Nil /\ rest = {}
    /\ open' = Nil /\ got' = Nil
    /\ UNCHANGED <<parent, view, rest>>

Next ==
    \/ Write \/ Step \/ Close
    \/ \E d \in Domains : Open(d)
    \/ \E k \in Keys : Get(k) \/ (\E v \in Values \cup {Nil} : Put(k, v))

Spec == Init /\ [][Next]_vars
===============================================================================
