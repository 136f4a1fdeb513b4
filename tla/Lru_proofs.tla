----------------------------- MODULE Lru_proofs ------------------------------
(***************************************************************************)
(* What `put` does to a bounded cache, for every cache, key, value and      *)
(* capacity: it holds the new entry at the front, loses at most the entry   *)
(* at the back, and stays within its capacity.                              *)
(***************************************************************************)
EXTENDS Lru, FiniteSetTheorems, FunctionTheorems, WellFoundedInduction, TLAPS

\* A cache that is not empty has an entry at the back: Oldest is one of its
\* keys, and no entry was used before it.  This is the entry `put` evicts.
LEMMA OldestIsLeastUsed ==
  ASSUME NEW K, NEW c, IsCache(c, K), DOMAIN c # {}
  PROVE  /\ Oldest(c) \in DOMAIN c
         /\ \A j \in DOMAIN c : c[Oldest(c)].used <= c[j].used
PROOF
<1> DEFINE U == {c[k].used : k \in DOMAIN c}
<1>1. U \subseteq Nat /\ U # {}
  BY DEF IsCache
<1>2. PICK x \in U : \A y \in U : ~(<<y, x>> \in OpToRel(<, Nat))
  BY <1>1, NatLessThanWellFounded, WFMin
<1>3. \A y \in U : x <= y
  <2>1. SUFFICES ASSUME NEW y \in U, ~(x <= y) PROVE FALSE
    OBVIOUS
  <2>2. x \in Nat /\ y \in Nat
    BY <1>1
  <2>3. y < x
    BY <2>1, <2>2
  <2>4. <<y, x>> \in OpToRel(<, Nat)
    BY <2>2, <2>3 DEF OpToRel
  <2> QED
    BY <1>2, <2>4
<1>4. \E k \in DOMAIN c : \A j \in DOMAIN c : c[k].used <= c[j].used
  <2>1. PICK k \in DOMAIN c : c[k].used = x
    OBVIOUS
  <2> QED
    BY <1>3, <2>1
<1> QED
  BY <1>4 DEF Oldest

\* The keys after a put: the new one, and no key that was not there.
LEMMA PutDomain ==
  ASSUME NEW c, NEW k, NEW v, NEW now, NEW capacity
  PROVE  /\ k \in DOMAIN Put(c, k, v, now, capacity)
         /\ DOMAIN Put(c, k, v, now, capacity) \subseteq DOMAIN c \cup {k}
         /\ Put(c, k, v, now, capacity)[k] = [val |-> v, used |-> now]
         /\ \A j \in DOMAIN Put(c, k, v, now, capacity) :
              j # k => j \in DOMAIN c /\ Put(c, k, v, now, capacity)[j] = c[j]
BY DEF Put, Kept

\* A put of a key and a value of the right kind keeps a cache a cache.
LEMMA PutIsCache ==
  ASSUME NEW K, NEW c, IsCache(c, K), NEW k \in K, NEW v, NEW now \in Nat,
         NEW capacity
  PROVE  /\ IsCache(Put(c, k, v, now, capacity), K)
         /\ Values(Put(c, k, v, now, capacity)) \subseteq Values(c) \cup {v}
PROOF
<1> DEFINE p == Put(c, k, v, now, capacity)
<1>1. /\ DOMAIN p \subseteq K
      /\ p[k] = [val |-> v, used |-> now]
      /\ \A j \in DOMAIN p : j # k => j \in DOMAIN c /\ p[j] = c[j]
  BY PutDomain DEF IsCache
<1>2. \A j \in DOMAIN p : p[j] = [val |-> p[j].val, used |-> p[j].used]
  <2> SUFFICES ASSUME NEW j \in DOMAIN p
               PROVE  p[j] = [val |-> p[j].val, used |-> p[j].used]
    OBVIOUS
  <2>1. CASE j = k
    BY <1>1, <2>1
  <2>2. CASE j # k
    BY <1>1, <2>2 DEF IsCache
  <2> QED
    BY <2>1, <2>2
<1>3. \A j \in DOMAIN p : p[j].used \in Nat
  BY <1>1 DEF IsCache
<1>4. p = [j \in DOMAIN p |-> p[j]]
  BY DEF Put
<1>5. IsCache(p, K)
  BY <1>1, <1>2, <1>3, <1>4 DEF IsCache
<1>6. Values(p) \subseteq Values(c) \cup {v}
  BY <1>1 DEF Values
<1> QED
  BY <1>5, <1>6

\* The memory bound of the crate: with room for one entry or more, a put keeps
\* a bounded cache bounded, because a full cache gives up its oldest entry.
LEMMA PutBounded ==
  ASSUME NEW K, NEW c, IsCache(c, K), NEW k, NEW v, NEW now,
         NEW capacity \in Nat \ {0}, Bounded(c, capacity)
  PROVE  Bounded(Put(c, k, v, now, capacity), capacity)
PROOF
<1> DEFINE D == DOMAIN c
           kept == Kept(c, k, capacity)
<1>1. IsFiniteSet(D) /\ Cardinality(D) \in Nat /\ Cardinality(D) <= capacity
  BY FS_CardinalityType DEF Bounded
<1>2. DOMAIN Put(c, k, v, now, capacity) = kept \cup {k}
  BY DEF Put
<1>3. IsFiniteSet(kept \cup {k}) /\ Cardinality(kept \cup {k}) <= capacity
  <2>1. CASE k \in D
    <3>1. kept \cup {k} = D
      BY <2>1 DEF Kept
    <3> QED
      BY <1>1, <3>1
  <2>2. CASE k \notin D /\ Cardinality(D) < capacity
    <3>1. kept = D
      BY <2>2 DEF Kept
    <3>2. IsFiniteSet(D \cup {k}) /\ Cardinality(D \cup {k}) = Cardinality(D) + 1
      BY <1>1, <2>2, FS_AddElement
    <3> QED
      BY <1>1, <2>2, <3>1, <3>2
  <2>3. CASE k \notin D /\ ~(Cardinality(D) < capacity)
    <3>1. kept = D \ {Oldest(c)}
      BY <2>3 DEF Kept
    <3>2. D # {}
      BY <1>1, <2>3, FS_EmptySet
    <3>3. Oldest(c) \in D
      BY <3>2, OldestIsLeastUsed
    <3>4. /\ IsFiniteSet(D \ {Oldest(c)})
          /\ Cardinality(D \ {Oldest(c)}) = Cardinality(D) - 1
      BY <1>1, <3>3, FS_RemoveElement
    <3>5. Cardinality((D \ {Oldest(c)}) \cup {k}) = Cardinality(D)
      <4>1. k \notin D \ {Oldest(c)}
        BY <2>3
      <4>2. Cardinality((D \ {Oldest(c)}) \cup {k})
              = Cardinality(D \ {Oldest(c)}) + 1
        BY <3>4, <4>1, FS_AddElement
      <4> QED
        BY <1>1, <3>4, <4>2
    <3>6. IsFiniteSet((D \ {Oldest(c)}) \cup {k})
      BY <3>4, FS_AddElement
    <3> QED
      BY <1>1, <3>1, <3>5, <3>6
  <2> QED
    BY <2>1, <2>2, <2>3
<1> QED
  BY <1>2, <1>3 DEF Bounded

\* LruCache::new
LEMMA EmptyCacheIsCache ==
  ASSUME NEW K, NEW n \in Nat
  PROVE  /\ IsCache(EmptyCache, K)
         /\ Bounded(EmptyCache, n)
         /\ Values(EmptyCache) = {}
         /\ DOMAIN EmptyCache = {}
PROOF
<1>1. DOMAIN EmptyCache = {}
  BY DEF EmptyCache
<1>2. IsCache(EmptyCache, K)
  BY <1>1 DEF IsCache, EmptyCache
<1>3. Bounded(EmptyCache, n)
  BY <1>1, FS_EmptySet DEF Bounded
<1>4. Values(EmptyCache) = {}
  BY <1>1 DEF Values
<1> QED
  BY <1>1, <1>2, <1>3, <1>4

-----------------------------------------------------------------------------
(***************************************************************************)
(* A cache and its history.  A history is a function from moments to the   *)
(* keys that were put in them; it may begin late, but has no gap.          *)
(***************************************************************************)

\* A cache c of capacity C follows a history f: a key that is held was last put
\* when its entry says, and a key that is not held is older than everything in a
\* full cache.
Follows(c, f, C) ==
  /\ \A k \in DOMAIN c, i \in DOMAIN f :
       /\ f[i] = k => i <= c[k].used
       /\ i <= c[k].used => c[k].used \in DOMAIN f /\ f[c[k].used] = k
  /\ \A i \in DOMAIN f : f[i] \notin DOMAIN c =>
       /\ Cardinality(DOMAIN c) >= C
       /\ \A k \in DOMAIN c : i < c[k].used

\* g is what is left of the history f when its first moments are forgotten.
EndOf(g, f) ==
  /\ DOMAIN g \subseteq DOMAIN f
  /\ \A i \in DOMAIN g : g[i] = f[i]
  /\ \A i \in DOMAIN g, j \in DOMAIN f : i <= j => j \in DOMAIN g

\* A cache that follows a history follows the end of it.
LEMMA EndIsFollowed ==
  ASSUME NEW K, NEW c, IsCache(c, K), NEW f, NEW g, NEW C, Follows(c, f, C), EndOf(g, f)
  PROVE  Follows(c, g, C)
PROOF
<1>1. ASSUME NEW k \in DOMAIN c, NEW i \in DOMAIN g
      PROVE  /\ g[i] = k => i <= c[k].used
             /\ i <= c[k].used => c[k].used \in DOMAIN g /\ g[c[k].used] = k
  <2>1. i \in DOMAIN f /\ g[i] = f[i]
    BY DEF EndOf
  <2>2. g[i] = k => i <= c[k].used
    BY <2>1 DEF Follows
  <2>3. ASSUME i <= c[k].used
        PROVE  c[k].used \in DOMAIN g /\ g[c[k].used] = k
    <3>1. c[k].used \in DOMAIN f /\ f[c[k].used] = k
      BY <2>1, <2>3 DEF Follows
    <3>2. c[k].used \in DOMAIN g
      BY <2>3, <3>1 DEF EndOf
    <3> QED
      BY <3>1, <3>2 DEF EndOf
  <2> QED
    BY <2>2, <2>3
<1>2. ASSUME NEW i \in DOMAIN g, g[i] \notin DOMAIN c
      PROVE  Cardinality(DOMAIN c) >= C /\ \A k \in DOMAIN c : i < c[k].used
  BY <1>2 DEF EndOf, Follows
<1> QED
  BY <1>1, <1>2 DEF Follows

\* A put keeps following: the entry it evicts is older than all that stay.
LEMMA PutFollows ==
  ASSUME NEW K, NEW c, IsCache(c, K), NEW C \in Nat \ {0}, Bounded(c, C),
         NEW g, NEW h, NEW n \in Nat, NEW k, NEW v, Follows(c, g, C),
         DOMAIN g \subseteq Nat, \A i \in DOMAIN g : i < n,
         \A j \in DOMAIN c : c[j].used < n,
         DOMAIN h = DOMAIN g \cup {n}, h[n] = k, \A i \in DOMAIN g : h[i] = g[i]
  PROVE  Follows(Put(c, k, v, n, C), h, C)
PROOF
<1> DEFINE p == Put(c, k, v, n, C)
           D == DOMAIN c
<1>1. /\ k \in DOMAIN p /\ p[k] = [val |-> v, used |-> n]
      /\ \A j \in DOMAIN p : j # k => j \in D /\ p[j] = c[j]
  BY PutDomain
<1>2. p[k].used = n
  BY <1>1
<1>3. \A j \in D : c[j].used \in Nat
  BY DEF IsCache
<1>4. IsFiniteSet(D) /\ Cardinality(D) \in Nat /\ Cardinality(D) <= C
  BY FS_CardinalityType DEF Bounded
<1>5. DOMAIN p = Kept(c, k, C) \cup {k}
  BY DEF Put
\* Either every key stays, or the cache is full and its oldest key goes.
<1>6. \/ DOMAIN p = D \cup {k}
      \/ /\ k \notin D /\ Cardinality(D) = C /\ Oldest(c) \in D /\ Oldest(c) # k
         /\ DOMAIN p = (D \ {Oldest(c)}) \cup {k}
         /\ \A j \in D : c[Oldest(c)].used <= c[j].used
  <2>1. CASE k \in D \/ Cardinality(D) < C
    BY <1>5, <2>1 DEF Kept
  <2>2. CASE ~(k \in D \/ Cardinality(D) < C)
    <3>1. Cardinality(D) = C /\ D # {}
      BY <1>4, <2>2, FS_EmptySet
    <3>2. Kept(c, k, C) = D \ {Oldest(c)}
      BY <2>2 DEF Kept
    <3> QED
      BY <1>5, <2>2, <3>1, <3>2, OldestIsLeastUsed
  <2> QED
    BY <2>1, <2>2
<1>7. Cardinality(D) >= C => Cardinality(DOMAIN p) >= C
  <2>1. CASE DOMAIN p = D \cup {k}
    <3>1. Cardinality(D \cup {k}) =
            IF k \in D THEN Cardinality(D) ELSE Cardinality(D) + 1
      BY <1>4, FS_AddElement
    <3> HIDE DEF D
    <3>2. Cardinality(D \cup {k}) >= Cardinality(D)
      BY <1>4, <3>1
    <3> QED
      BY <1>4, <2>1, <3>1, <3>2
  <2>2. CASE DOMAIN p # D \cup {k}
    <3>1. /\ k \notin D /\ Cardinality(D) = C /\ Oldest(c) \in D
          /\ DOMAIN p = (D \ {Oldest(c)}) \cup {k}
      BY <1>6, <2>2
    <3>2. /\ IsFiniteSet(D \ {Oldest(c)})
          /\ Cardinality(D \ {Oldest(c)}) = Cardinality(D) - 1
      BY <1>4, <3>1, FS_RemoveElement
    <3>3. Cardinality(DOMAIN p) = Cardinality(D \ {Oldest(c)}) + 1
      BY <3>1, <3>2, FS_AddElement
    <3> QED
      BY <1>4, <3>1, <3>2, <3>3
  <2> QED
    BY <2>1, <2>2
<1> HIDE DEF p
<1>8. ASSUME NEW x \in DOMAIN p, NEW i \in DOMAIN h
      PROVE  /\ h[i] = x => i <= p[x].used
             /\ i <= p[x].used => p[x].used \in DOMAIN h /\ h[p[x].used] = x
  <2>1. CASE x = k
    BY <1>2, <2>1
  <2>2. CASE x # k /\ i = n
    <3>1. x \in D /\ p[x].used < n /\ p[x].used \in Nat
      BY <1>1, <1>3, <2>2
    <3> QED
      BY <2>2, <3>1
  <2>3. CASE x # k /\ i # n
    <3>1. x \in D /\ p[x] = c[x] /\ i \in DOMAIN g /\ h[i] = g[i]
      BY <1>1, <2>3
    <3>2. i <= c[x].used => c[x].used \in DOMAIN g /\ g[c[x].used] = x
      BY <3>1 DEF Follows
    <3>3. g[i] = x => i <= c[x].used
      BY <3>1 DEF Follows
    <3> QED
      BY <3>1, <3>2, <3>3
  <2> QED
    BY <2>1, <2>2, <2>3
<1>9. ASSUME NEW i \in DOMAIN h, h[i] \notin DOMAIN p
      PROVE  Cardinality(DOMAIN p) >= C /\ \A x \in DOMAIN p : i < p[x].used
  <2>1. i \in DOMAIN g /\ h[i] = g[i] /\ i < n /\ i \in Nat
    BY <1>1, <1>9
  <2>2. CASE g[i] \notin D
    <3>1. Cardinality(D) >= C /\ \A x \in D : i < c[x].used
      BY <2>1, <2>2 DEF Follows
    <3> QED
      BY <1>1, <1>2, <1>7, <2>1, <3>1
  <2>3. CASE g[i] \in D
    <3> DEFINE o == Oldest(c)
    <3>1. /\ o \in D /\ g[i] = o /\ Cardinality(D) = C
          /\ \A j \in D : c[o].used <= c[j].used
      BY <1>6, <1>9, <2>1, <2>3
    <3> HIDE DEF o
    <3>2. i <= c[o].used /\ c[o].used \in Nat
      BY <1>3, <2>1, <3>1 DEF Follows
    <3>3. ASSUME NEW x \in DOMAIN p PROVE i < p[x].used
      <4>1. CASE x = k
        BY <1>2, <2>1, <4>1
      <4>2. CASE x # k
        <5>1. x \in D /\ p[x] = c[x] /\ x # o
          BY <1>1, <1>9, <2>1, <3>1, <4>2
        <5>2. i <= c[x].used /\ c[x].used \in Nat
          BY <1>3, <2>1, <3>1, <3>2, <5>1
        <5>3. c[x].used # i
          <6>1. i <= i
            BY <2>1
          <6>2. i <= c[x].used => g[c[x].used] = x
            BY <2>1, <5>1 DEF Follows
          <6> QED
            BY <3>1, <5>1, <5>2, <6>2
        <5> QED
          BY <2>1, <5>1, <5>2, <5>3
      <4> QED
        BY <4>1, <4>2
    <3> QED
      BY <1>4, <1>7, <3>1, <3>3
  <2> QED
    BY <2>2, <2>3
<1> QED
  BY <1>8, <1>9 DEF Follows, p

\* The two together: f goes on with a put at the moment n, to become h.
LEMMA PutFollowsOn ==
  ASSUME NEW K, NEW c, IsCache(c, K), NEW C \in Nat \ {0}, Bounded(c, C),
         NEW f, NEW h, NEW n \in Nat, NEW k, NEW v, Follows(c, f, C),
         DOMAIN f \subseteq Nat, \A i \in DOMAIN f : i < n,
         \A j \in DOMAIN c : c[j].used < n,
         n \in DOMAIN h, h[n] = k,
         \A i \in DOMAIN h : i # n => i \in DOMAIN f /\ h[i] = f[i],
         \A i \in DOMAIN h, j \in DOMAIN f : i <= j => j \in DOMAIN h
  PROVE  Follows(Put(c, k, v, n, C), h, C)
PROOF
<1>1. PICK g : g = [i \in DOMAIN h \ {n} |-> f[i]]
  OBVIOUS
<1>2. DOMAIN g = DOMAIN h \ {n} /\ \A i \in DOMAIN g : g[i] = f[i]
  BY <1>1
<1>3. EndOf(g, f)
  <2>1. ASSUME NEW i \in DOMAIN g, NEW j \in DOMAIN f, i <= j
        PROVE  j \in DOMAIN g
    <3>1. j \in DOMAIN h
      BY <1>2, <2>1
    <3>2. j # n
      BY <2>1
    <3> QED
      BY <1>2, <3>1, <3>2
  <2> QED
    BY <1>2, <2>1 DEF EndOf
<1>4. Follows(c, g, C)
  BY <1>3, EndIsFollowed
<1>5. DOMAIN g \subseteq Nat /\ \A i \in DOMAIN g : i < n
  BY <1>2
<1>6. DOMAIN h = DOMAIN g \cup {n} /\ \A i \in DOMAIN g : h[i] = g[i]
  BY <1>2
<1> QED
  BY <1>4, <1>5, <1>6, PutFollows

\* What a cache that follows its history has forgotten made way for as many other
\* keys as it has room for.
LEMMA ForgottenForOthers ==
  ASSUME NEW K, NEW c, IsCache(c, K), NEW C \in Nat, NEW f, Follows(c, f, C),
         DOMAIN f \subseteq Nat, IsFiniteSet(DOMAIN f),
         NEW i \in DOMAIN f, f[i] \notin DOMAIN c
  PROVE  Cardinality({f[j] : j \in {m \in DOMAIN f : m > i}} \ {f[i]}) >= C
PROOF
<1> DEFINE L == {m \in DOMAIN f : m > i}
           T == {f[j] : j \in L}
           O == T \ {f[i]}
<1>1. IsFiniteSet(T)
  <2>1. IsFiniteSet(L)
    BY FS_Subset
  <2>2. [j \in L |-> f[j]] \in Surjection(L, T)
    <3>1. [j \in L |-> f[j]] \in [L -> T]
      OBVIOUS
    <3>2. \A t \in T : \E j \in L : [x \in L |-> f[x]][j] = t
      OBVIOUS
    <3> HIDE DEF L, T
    <3> QED
      BY <3>1, <3>2, Fun_IsSurj
  <2> HIDE DEF L, T
  <2> QED
    BY <2>1, <2>2, FS_Surjection
<1>2. Cardinality(DOMAIN c) >= C /\ \A k \in DOMAIN c : i < c[k].used
  BY DEF Follows
<1>3. \A k \in DOMAIN c : k \in O
  <2> SUFFICES ASSUME NEW k \in DOMAIN c PROVE k \in O
    OBVIOUS
  <2>1. c[k].used \in Nat /\ i < c[k].used /\ i \in Nat
    BY <1>2 DEF IsCache
  <2>2. i <= c[k].used
    BY <2>1
  <2>3. c[k].used \in DOMAIN f /\ f[c[k].used] = k
    BY <2>2 DEF Follows
  <2> QED
    BY <2>1, <2>3
<1>4. IsFiniteSet(O)
  BY <1>1, FS_Subset
<1> HIDE DEF O
<1>5. /\ IsFiniteSet(DOMAIN c) /\ Cardinality(DOMAIN c) <= Cardinality(O)
      /\ Cardinality(DOMAIN c) \in Nat /\ Cardinality(O) \in Nat
  BY <1>3, <1>4, FS_Subset, FS_CardinalityType
<1>6. Cardinality(O) >= C
  BY <1>2, <1>5
<1> QED
  BY <1>6 DEF O

\* The other keys put since i only become more while the history goes on and i
\* stays in it.
LEMMA OthersGrow ==
  ASSUME NEW f, NEW h, IsFiniteSet(DOMAIN h), NEW i \in DOMAIN f \cap DOMAIN h,
         \A j \in DOMAIN f : j > i => j \in DOMAIN h,
         \A j \in DOMAIN f \cap DOMAIN h : h[j] = f[j]
  PROVE  LET old == {f[j] : j \in {m \in DOMAIN f : m > i}} \ {f[i]}
             new == {h[j] : j \in {m \in DOMAIN h : m > i}} \ {h[i]}
         IN  /\ Cardinality(old) \in Nat /\ Cardinality(new) \in Nat
             /\ Cardinality(old) <= Cardinality(new)
PROOF
<1> DEFINE L == {m \in DOMAIN h : m > i}
           T == {h[j] : j \in L}
           new == T \ {h[i]}
           old == {f[j] : j \in {m \in DOMAIN f : m > i}} \ {f[i]}
<1>1. IsFiniteSet(T)
  <2>1. IsFiniteSet(L)
    BY FS_Subset
  <2>2. [j \in L |-> h[j]] \in Surjection(L, T)
    <3>1. [j \in L |-> h[j]] \in [L -> T]
      OBVIOUS
    <3>2. \A t \in T : \E j \in L : [x \in L |-> h[x]][j] = t
      OBVIOUS
    <3> HIDE DEF L, T
    <3> QED
      BY <3>1, <3>2, Fun_IsSurj
  <2> HIDE DEF L, T
  <2> QED
    BY <2>1, <2>2, FS_Surjection
<1>2. old \subseteq new
  OBVIOUS
<1>3. IsFiniteSet(new)
  BY <1>1, FS_Subset
<1> HIDE DEF old, new
<1>4. /\ Cardinality(old) \in Nat /\ Cardinality(new) \in Nat
      /\ Cardinality(old) <= Cardinality(new)
  BY <1>2, <1>3, FS_Subset, FS_CardinalityType
<1> QED
  BY <1>4 DEF old, new

\* A ring is a cache whose keys are the moments of their puts: a put forgets the
\* least key, if any, and fills the ring up to its capacity.
LEMMA RingPut ==
  ASSUME NEW K, NEW c, IsCache(c, K), NEW C \in Nat \ {0}, Bounded(c, C),
         NEW n \in Nat, NEW v, \A i \in DOMAIN c : c[i].used = i /\ i < n
  PROVE  LET p == Put(c, n, v, n, C)
         IN  /\ n \in DOMAIN p /\ p[n].val = v
             /\ \A i \in DOMAIN p : i # n => i \in DOMAIN c /\ p[i] = c[i]
             /\ \A i \in DOMAIN p : p[i].used = i /\ i \in Nat /\ i <= n
             /\ \A i \in DOMAIN c : i \notin DOMAIN p => \A j \in DOMAIN p : i < j
             /\ Cardinality(DOMAIN p) =
                  IF Cardinality(DOMAIN c) < C THEN Cardinality(DOMAIN c) + 1 ELSE C
PROOF
<1> DEFINE p == Put(c, n, v, n, C)
           D == DOMAIN c
           o == Oldest(c)
<1>1. /\ n \in DOMAIN p /\ p[n] = [val |-> v, used |-> n]
      /\ \A j \in DOMAIN p : j # n => j \in D /\ p[j] = c[j]
  BY PutDomain
<1>2. n \notin D /\ \A i \in D : i \in Nat /\ i < n
  BY DEF IsCache
<1>3. IsFiniteSet(D) /\ Cardinality(D) \in Nat /\ Cardinality(D) <= C
  BY FS_CardinalityType DEF Bounded
<1>4. DOMAIN p = Kept(c, n, C) \cup {n}
  BY DEF Put
<1>5. CASE Cardinality(D) < C
  <2>1. DOMAIN p = D \cup {n}
    BY <1>4, <1>5 DEF Kept
  <2>2. Cardinality(DOMAIN p) = Cardinality(D) + 1
    BY <1>2, <1>3, <2>1, FS_AddElement
  <2> HIDE DEF p
  <2> QED
    BY <1>1, <1>2, <1>5, <2>1, <2>2 DEF p
<1>6. CASE ~(Cardinality(D) < C)
  <2>1. Cardinality(D) = C /\ D # {}
    BY <1>3, <1>6, FS_EmptySet
  <2>2. DOMAIN p = (D \ {o}) \cup {n}
    BY <1>2, <1>4, <1>6 DEF Kept
  <2>3. o \in D /\ \A j \in D : c[o].used <= c[j].used
    BY <2>1, OldestIsLeastUsed
  <2> HIDE DEF o
  <2>4. \A j \in D : o <= j
    BY <2>3
  <2>5. Cardinality(DOMAIN p) = C
    <3>1. IsFiniteSet(D \ {o}) /\ Cardinality(D \ {o}) = Cardinality(D) - 1
      BY <1>3, <2>3, FS_RemoveElement
    <3>2. Cardinality((D \ {o}) \cup {n}) = Cardinality(D \ {o}) + 1
      BY <1>2, <3>1, FS_AddElement
    <3> QED
      BY <1>3, <2>1, <2>2, <3>1, <3>2
  <2> HIDE DEF p
  <2>6. \A i \in D : i \notin DOMAIN p => \A j \in DOMAIN p : i < j
    BY <1>2, <2>2, <2>3, <2>4
  <2>7. \A i \in DOMAIN p : p[i].used = i /\ i \in Nat /\ i <= n
    BY <1>1, <1>2
  <2> QED
    BY <1>1, <1>6, <2>5, <2>6, <2>7 DEF p
<1> QED
  BY <1>5, <1>6

\* Moments up to n have a last one.
LEMMA LastMoment ==
  ASSUME NEW S \in SUBSET Nat, S # {}, NEW n \in Nat, \A i \in S : i <= n
  PROVE  \E m \in S : \A i \in S : i <= m
PROOF
<1> DEFINE U == {n - i : i \in S}
<1>1. U \subseteq Nat /\ U # {}
  <2>1. \A i \in S : n - i \in Nat /\ n - i \in U
    OBVIOUS
  <2> QED
    BY <2>1
<1>2. PICK x \in U : \A y \in U : ~(<<y, x>> \in OpToRel(<, Nat))
  <2> HIDE DEF U
  <2> QED
    BY <1>1, NatLessThanWellFounded, WFMin
<1>3. PICK m \in S : x = n - m
  OBVIOUS
<1>4. ASSUME NEW i \in S PROVE i <= m
  <2>1. n - i \in U /\ n - i \in Nat /\ x \in Nat
    BY <1>1
  <2> DEFINE y == n - i
  <2>2. ~(<<y, x>> \in OpToRel(<, Nat))
    BY <1>2, <2>1
  <2>3. ~(y < x)
    <3> HIDE DEF y, U
    <3> QED
      BY <2>1, <2>2 DEF OpToRel, y
  <2> QED
    BY <1>3, <2>1, <2>3
<1> QED
  BY <1>3, <1>4
=============================================================================
