-------------------------------- MODULE CacheKV --------------------------------
(***************************************************************************)
(* store/cachekv: the branch every transaction, message and end blocker    *)
(* writes to.  Dirty keys are collected unsorted and moved to a sorted     *)
(* copy when an iterator is opened; the iterator merges that copy with the *)
(* parent's keys.  Keys are the numbers 1..MaxKey in their byte order and  *)
(* 0 is a nil bound, which converts to the empty string and sorts below    *)
(* every key.  Iterators of the parent and of the sorted copy (tm-db) are  *)
(* external and read a snapshot.                                           *)
(***************************************************************************)
EXTENDS Integers, Sequences, FiniteSets

CONSTANTS
    MaxKey, Values, Nil,
    Domains,      \* domains iterators are opened on: [start, end, asc]
    Threshold     \* 1024 in the code: from this many unsorted keys on, search

Keys == 1..MaxKey

\* What the constants are.
CacheKVConstants ==
    /\ MaxKey \in Nat /\ Threshold \in Nat /\ Nil \notin Values
    /\ \A d \in Domains : {d.start, d.end} \subseteq 0..(MaxKey + 1) /\ d.asc \in BOOLEAN

NoEntry == [in |-> FALSE, value |-> Nil, dirty |-> FALSE]
NoIter == [on |-> FALSE, d |-> Nil, par |-> <<>>, mem |-> <<>>, last |-> Nil, read |-> FALSE]

VARIABLES
    parent,     \* [Keys -> value or Nil]
    cache,      \* [Keys -> entry], in is FALSE when there is none
    deleted,    \* set of keys
    unsorted,   \* unsortedCache, set of keys
    sorted,     \* sortedCache: [Keys -> <<>> or <<value>>]
    iter,       \* the open iterator: what par and mem iterators have left,
                \* lastKey of the memIterator, whether the current item was read
    got         \* ghost: the answer of a Get or iterator step just made

vars == <<parent, cache, deleted, unsorted, sorted, iter, got>>

Init ==
    /\ parent \in [Keys -> Values \cup {Nil}]
    /\ cache = [k \in Keys |-> NoEntry]
    /\ deleted = {} /\ unsorted = {} /\ sorted = [k \in Keys |-> <<>>]
    /\ iter = NoIter /\ got = Nil

-------------------------------------------------------------------------------
(* Reads and writes. *)

\* Only entry point to mutate the cache.
setCacheValue(k, v, isDeleted, dirty) ==
    /\ cache' = [cache EXCEPT ![k] = [in |-> TRUE, value |-> v, dirty |-> dirty]]
    /\ deleted' = IF isDeleted THEN deleted \cup {k} ELSE deleted \ {k}
    /\ unsorted' = IF dirty THEN unsorted \cup {k} ELSE unsorted

Get(k) ==
    /\ ~iter.on
    /\ IF cache[k].in
       THEN got' = <<k, cache[k].value>> /\ UNCHANGED <<cache, deleted, unsorted>>
       ELSE got' = <<k, parent[k]>> /\ setCacheValue(k, parent[k], FALSE, FALSE)
    /\ UNCHANGED <<parent, sorted, iter>>

InDomain(k, d) == k >= d.start /\ (d.end = 0 \/ k < d.end)

\* Writes beside an open iterator: outside its domain, or to the item just read.
MayWrite(k) == iter.on => ~InDomain(k, iter.d) \/ (iter.read /\ got[1] = k)

Set(k, v) ==
    /\ MayWrite(k)
    /\ setCacheValue(k, v, FALSE, TRUE)
    /\ got' = IF iter.on THEN got ELSE Nil
    /\ UNCHANGED <<parent, sorted, iter>>

Delete(k) ==
    /\ MayWrite(k)
    /\ setCacheValue(k, Nil, TRUE, TRUE)
    /\ got' = IF iter.on THEN got ELSE Nil
    /\ UNCHANGED <<parent, sorted, iter>>

\* Write: dirty keys go to the parent in order, then everything is cleared.
Write ==
    /\ ~iter.on
    /\ parent' = [k \in Keys |->
                    IF ~cache[k].dirty THEN parent[k]
                    ELSE IF k \in deleted THEN Nil
                    ELSE IF cache[k].value # Nil THEN cache[k].value ELSE parent[k]]
    /\ cache' = [k \in Keys |-> NoEntry] /\ deleted' = {} /\ unsorted' = {}
    /\ sorted' = [k \in Keys |-> <<>>] /\ got' = Nil
    /\ UNCHANGED iter

-------------------------------------------------------------------------------
(* dirtyItems. *)

\* The unsorted keys in ascending order.
strL == [i \in 1..Cardinality(unsorted) |->
           CHOOSE k \in unsorted : Cardinality({j \in unsorted : j < k}) = i - 1]

\* The binary search over s for q: the position of q, or, negated, the position
\* left where the search ended (right is one less).
Search(s, q) ==
    LET at[l \in 1..(Len(s) + 1), r \in 0..Len(s)] ==
            LET mid == (l + r) \div 2
            IN  IF l > r THEN -l
                ELSE IF s[mid] = q THEN mid
                ELSE IF s[mid] < q THEN at[mid + 1, r] ELSE at[l, mid - 1]
    IN  at[1, Len(s)]

\* First position with s[i] >= q; 0 when there is none (-1 in the code).
findStartIndex(s, q) ==
    LET i == Search(s, q)
    IN  IF i > 0 THEN i ELSE IF -i <= Len(s) THEN -i ELSE 0

\* The position of q, or else the last one with s[i] < q; 0 if there is none.
findEndIndex(s, q) ==
    LET i == Search(s, q) IN IF i > 0 THEN i ELSE (-i) - 1

\* The keys the search path moves: from startIndex to endIndex, where an end
\* that was not found is the last key and a start not found the first.
SearchedKeys(d) ==
    LET e == findEndIndex(strL, d.end)
        s == findStartIndex(strL, d.start)
        last  == IF e = 0 THEN Len(strL) ELSE e
        first == IF s = 0 THEN 1 ELSE s
    IN  {strL[i] : i \in first..last}

\* The keys moved for domain d.  A nil end compares as the empty string.
dirtyItems(d) ==
    IF d.start > d.end THEN {}
    ELSE IF Cardinality(unsorted) < Threshold THEN {k \in unsorted : InDomain(k, d)}
    ELSE SearchedKeys(d)

\* Mutant: the whole unsorted cache is cleared.
clearUnsortedCacheAll(keys) == {}

\* clearUnsortedCacheSubset: the keys leave the unsorted cache ...
clearUnsortedCacheSubset(keys) == unsorted \ keys

\* ... and enter the sorted one; a deleted key gets an arbitrary value.
Moved(keys) ==
    [k \in Keys |-> IF k \in keys THEN <<cache[k].value>> ELSE sorted[k]]

-------------------------------------------------------------------------------
(* The merging iterator. *)

\* The keys of set S in domain d, in the direction of the iterator.
Ordered(S, d) ==
    LET has == {k \in S : InDomain(k, d)}
    IN  [i \in 1..Cardinality(has) |-> CHOOSE k \in has :
            Cardinality({j \in has : IF d.asc THEN j < k ELSE j > k}) = i - 1]

\* store.iterator: the parent's iterator, then the dirty items, then the
\* memIterator over the sorted copy.
Iterator(d) ==
    LET moved == dirtyItems(d)
        after == Moved(moved)
    IN  /\ ~iter.on
        /\ unsorted' = clearUnsortedCacheSubset(moved) /\ sorted' = after
        /\ iter' = [on |-> TRUE, d |-> d, last |-> Nil, read |-> FALSE,
                    par |-> LET ks == Ordered({k \in Keys : parent[k] # Nil}, d)
                            IN  [i \in DOMAIN ks |-> <<ks[i], parent[ks[i]]>>],
                    mem |-> LET ks == Ordered({k \in Keys : after[k] # <<>>}, d)
                            IN  [i \in DOMAIN ks |-> <<ks[i], after[ks[i]][1]>>]]
        /\ got' = Nil
        /\ UNCHANGED <<parent, cache, deleted>>

Prior(a, b) == IF iter.d.asc THEN a < b ELSE a > b

\* Mutant: the last key read is not remembered.
MemValueForgets(item, last) == IF item[1] \in deleted THEN Nil ELSE item[2]

\* memIterator.Value: Nil for a key deleted by now, unless it was the last read.
MemValue(item, last) ==
    IF item[1] \in deleted /\ item[1] # last THEN Nil ELSE item[2]

\* skipUntilExistsOrInvalid: drop deleted items of the cache that come first,
\* with the parent's item when it has the same key.
skipUntilExistsOrInvalid(it) ==
    LET at[i \in 1..(Len(it.par) + 1), j \in 1..(Len(it.mem) + 1)] ==
            IF j > Len(it.mem) THEN <<i, j>>
            ELSE IF i <= Len(it.par) /\ Prior(it.par[i][1], it.mem[j][1]) THEN <<i, j>>
            ELSE IF MemValue(it.mem[j], it.last) # Nil THEN <<i, j>>
            ELSE IF i <= Len(it.par) /\ it.par[i][1] = it.mem[j][1] THEN at[i + 1, j + 1]
            ELSE at[i, j + 1]
        p == at[1, 1]
    IN  [it EXCEPT !.par = SubSeq(@, p[1], Len(@)), !.mem = SubSeq(@, p[2], Len(@))]

\* Whether the current item is the parent's, the cache's, or both have its key.
FromParent(it) == it.par # <<>> /\ (it.mem = <<>> \/ Prior(it.par[1][1], it.mem[1][1]))
FromCache(it) == it.mem # <<>> /\ (it.par = <<>> \/ Prior(it.mem[1][1], it.par[1][1]))

\* Valid, Key and Value: the current item.  Reading the value of a cached item
\* makes it the memIterator's last key.
Current ==
    LET it == skipUntilExistsOrInvalid(iter)
    IN  /\ iter.on /\ ~iter.read
        /\ it.par # <<>> \/ it.mem # <<>>
        /\ got' = IF FromParent(it) THEN it.par[1] ELSE it.mem[1]
        /\ iter' = [it EXCEPT !.read = TRUE,
                              !.last = IF FromParent(it) THEN @ ELSE it.mem[1][1]]
        /\ UNCHANGED <<parent, cache, deleted, unsorted, sorted>>

\* Next, after the caller's loop body; it panics on an iterator that is not valid.
Advance ==
    LET it == skipUntilExistsOrInvalid(iter)
    IN  /\ iter.on /\ iter.read
        /\ it.par # <<>> \/ it.mem # <<>>
        /\ iter' = [it EXCEPT !.read = FALSE,
                       !.par = IF FromCache(it) THEN @ ELSE Tail(@),
                       !.mem = IF FromParent(it) THEN @ ELSE Tail(@)]
        /\ UNCHANGED <<parent, cache, deleted, unsorted, sorted, got>>

\* Valid is FALSE and the caller closes the iterator.
Close ==
    LET it == skipUntilExistsOrInvalid(iter)
    IN  /\ iter.on /\ ~iter.read /\ it.par = <<>> /\ it.mem = <<>>
        /\ iter' = NoIter /\ got' = Nil
        /\ UNCHANGED <<parent, cache, deleted, unsorted, sorted>>

Next ==
    \/ \E k \in Keys : Get(k) \/ Delete(k) \/ (\E v \in Values : Set(k, v))
    \/ Write
    \/ \E d \in Domains : Iterator(d)
    \/ Current \/ Advance \/ Close

Spec == Init /\ [][Next]_vars

-------------------------------------------------------------------------------
(* Properties. *)

\* What a reader of the branch sees.
View == [k \in Keys |-> IF cache[k].in THEN cache[k].value ELSE parent[k]]

\* The types; a deleted key is dirty and without a value, and nothing waits to
\* be sorted that is not dirty.
TypeOK ==
    /\ parent \in [Keys -> Values \cup {Nil}]
    /\ \A k \in Keys :
          /\ cache[k].value \in Values \cup {Nil} /\ {cache[k].in, cache[k].dirty} \subseteq BOOLEAN
          /\ cache[k].dirty /\ cache[k].value = Nil <=> k \in deleted
          /\ k \in unsorted => cache[k].dirty
          /\ ~cache[k].dirty => sorted[k] = <<>> /\ (cache[k].in => cache[k].value = parent[k])
    /\ iter.on \in BOOLEAN

\* The pairs an open iterator has still to return: the cache's items that are
\* not deleted and the parent's that the cache does not shadow.
Remaining ==
    LET mem == {iter.mem[i] : i \in DOMAIN iter.mem}
        par == {iter.par[i] : i \in DOMAIN iter.par}
        live == {p \in mem : MemValue(p, iter.last) # Nil}
                \cup {p \in par : \A m \in mem : m[1] # p[1]}
    IN  IF iter.read THEN {p \in live : p[1] # got[1]} ELSE live

B == INSTANCE KVBranch WITH view <- View, open <- iter.d, rest <- Remaining

\* The cached branch implements the abstract one: reads and iterators return
\* what the branch holds, across any mix of writes, re-sorting and deletes of
\* the item being visited, and Write makes the parent equal to the branch.
ImplementsBranch == B!Spec
===============================================================================
