--------------------------------- MODULE Lru ---------------------------------
(***************************************************************************)
(* The bounded map of the `lru` crate (LruCache<K, V>), as src/storage.rs  *)
(* uses it: new, put, get_mut, contains, peek and iter.                    *)
(*                                                                         *)
(* The crate keeps its entries in a list, most recently used first.  Here  *)
(* a cache is a function from the keys it holds to entries, and `used` is  *)
(* the moment an entry was last moved to the front of that list: the list  *)
(* is the entries by descending `used`.  The moment is the store's `seq`,  *)
(* which grows in every critical section that touches a cache, and no      *)
(* section moves two entries of one cache.                                 *)
(***************************************************************************)
EXTENDS Naturals, FiniteSets

\* A cache with keys in K, and the values it holds.
IsCache(c, K) ==
  /\ DOMAIN c \subseteq K
  /\ c = [k \in DOMAIN c |-> [val |-> c[k].val, used |-> c[k].used]]
  /\ \A k \in DOMAIN c : c[k].used \in Nat
Values(c) == {c[k].val : k \in DOMAIN c}

\* LruCache::new
EmptyCache == [k \in {} |-> [val |-> 0, used |-> 0]]

\* The entry at the back of the list: the next one to be evicted.
Oldest(c) == CHOOSE k \in DOMAIN c : \A j \in DOMAIN c : c[k].used <= c[j].used

\* Faulty variant: a cache is full one entry too late.
KeptOneMore(c, k, capacity) ==
  IF k \in DOMAIN c \/ Cardinality(DOMAIN c) <= capacity
    THEN DOMAIN c
    ELSE DOMAIN c \ {Oldest(c)}

\* The keys that survive the insertion of k: inserting a new key into a full
\* cache evicts the entry at the back, replacing a present one evicts nothing.
Kept(c, k, capacity) ==
  IF k \in DOMAIN c \/ Cardinality(DOMAIN c) < capacity
    THEN DOMAIN c
    ELSE DOMAIN c \ {Oldest(c)}

\* LruCache::put, and get_mut followed by an assignment to the value: the
\* entry is written and moved to the front.
Put(c, k, v, now, capacity) ==
  [j \in Kept(c, k, capacity) \cup {k} |->
     IF j = k THEN [val |-> v, used |-> now] ELSE c[j]]

\* LruCache::peek, contains and iter leave the list alone.
Peek(c, k) == c

Bounded(c, capacity) ==
  /\ IsFiniteSet(DOMAIN c)
  /\ Cardinality(DOMAIN c) <= capacity
=============================================================================
