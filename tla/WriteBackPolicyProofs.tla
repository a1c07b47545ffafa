----------------------- MODULE WriteBackPolicyProofs -----------------------
(***************************************************************************)
(* Proofs about WriteBackPolicy, for any keys, clients, workers, shards    *)
(* and queue size: the policies track the entries, and with LRU or FIFO    *)
(* the cache implements WriteBack with a policy that spares the key just   *)
(* put, from which it inherits, with one worker, that no write is lost.    *)
(***************************************************************************)
EXTENDS WriteBackPolicy, FlushProofs, SequenceTheorems, WellFoundedInduction

-----------------------------------------------------------------------------
(* Ordered dictionaries.                                                   *)

\* No key occurs twice in order s.
Distinct(s) == \A i, j \in 1 .. Len(s) : s[i] = s[j] => i = j

LEMMA MinOfNats ==
    ASSUME NEW N \in SUBSET Nat, N # {}
    PROVE  Min(N) \in N
<1>1. PICK m \in N : \A n \in N : ~(<<n, m>> \in OpToRel(<, Nat))
  BY Zenon, WFMin, NatLessThanWellFounded
<1>2. ASSUME NEW n \in N
      PROVE  m <= n
  <2>1. n < m => <<n, m>> \in OpToRel(<, Nat)
    <3>1. <<n, m>>[1] = n /\ <<n, m>>[2] = m /\ <<n, m>> \in Nat \X Nat
      BY Zenon
    <3>2. OpToRel(<, Nat) = {ss \in Nat \X Nat : ss[1] < ss[2]}
      BY Zenon DEF OpToRel
    <3> QED BY Zenon, <3>1, <3>2
  <2>2. ~(n < m)
    BY Zenon, <1>1, <2>1
  <2> QED BY <2>2
<1>3. \E x \in N : \A n \in N : x <= n
  BY Zenon, <1>2
<1> QED BY Zenon, <1>3 DEF Min

\* del of the key at position i, or popping it.
LEMMA RemoveAtPosition ==
    ASSUME NEW K, NEW s \in Seq(K), NEW i \in 1 .. Len(s)
    PROVE  /\ RemoveAt(s, i) \in Seq(K)
           /\ Len(RemoveAt(s, i)) = Len(s) - 1
           /\ \A j \in 1 .. Len(s) - 1 :
                  RemoveAt(s, i)[j] = s[IF j < i THEN j ELSE j + 1]
<1> DEFINE a == SubSeq(s, 1, i - 1)
           b == SubSeq(s, i + 1, Len(s))
           c == a \o b
<1>1. Len(s) \in Nat /\ i \in Int /\ \A j \in 1 .. Len(s) : s[j] \in K
  BY ElementOfSeq
<1>2. a \in Seq(K) /\ Len(a) = i - 1 /\ \A j \in 1 .. i - 1 : a[j] = s[j]
  BY <1>1, SubSeqProperties
<1>3. b \in Seq(K) /\ Len(b) = Len(s) - i /\ \A j \in 1 .. Len(s) - i : b[j] = s[i + j]
  BY <1>1, SubSeqProperties
<1>4. RemoveAt(s, i) = c
  BY Zenon DEF RemoveAt
<1> HIDE DEF a, b
<1>5. /\ c \in Seq(K) /\ Len(c) = Len(a) + Len(b)
      /\ \A j \in 1 .. Len(a) + Len(b) :
             c[j] = IF j <= Len(a) THEN a[j] ELSE b[j - Len(a)]
  BY Zenon, <1>2, <1>3, ConcatProperties
<1> HIDE DEF c
<1>6. /\ Len(c) = Len(s) - 1
      /\ \A j \in 1 .. Len(s) - 1 : c[j] = IF j <= i - 1 THEN a[j] ELSE b[j - (i - 1)]
  BY <1>1, <1>2, <1>3, <1>5
<1>7. ASSUME NEW j \in 1 .. Len(s) - 1
      PROVE  c[j] = s[IF j < i THEN j ELSE j + 1]
  <2>1. CASE j < i
    BY <1>1, <1>2, <1>6, <2>1
  <2>2. CASE ~(j < i)
    <3>1. j - (i - 1) \in 1 .. Len(s) - i /\ i + (j - (i - 1)) = j + 1
      BY <1>1, <2>2
    <3>2. c[j] = b[j - (i - 1)]
      BY <1>1, <1>6, <2>2
    <3> QED BY Zenon, <1>3, <2>2, <3>1, <3>2
  <2> QED BY Zenon, <2>1, <2>2
<1> QED BY Zenon, <1>4, <1>5, <1>6, <1>7

LEMMA RemoveFirstPosition ==
    ASSUME NEW K, NEW s \in Seq(K), NEW k, NEW j \in 1 .. Len(s), s[j] = k
    PROVE  \E i \in 1 .. Len(s) : s[i] = k /\ RemoveFirst(s, k) = RemoveAt(s, i)
<1> DEFINE I == {i \in 1 .. Len(s) : s[i] = k}
<1>1. I \in SUBSET Nat /\ j \in I
  OBVIOUS
<1>2. Min(I) \in I
  BY Zenon, <1>1, MinOfNats
<1>3. RemoveFirst(s, k) = RemoveAt(s, Min(I))
  BY Zenon, <1>1 DEF RemoveFirst, SelectInSeq
<1> QED BY Zenon, <1>2, <1>3

LEMMA RemoveFirstType ==
    ASSUME NEW K, NEW s \in Seq(K), NEW k
    PROVE  RemoveFirst(s, k) \in Seq(K)
<1>1. CASE \E j \in 1 .. Len(s) : s[j] = k
  BY <1>1, RemoveFirstPosition, RemoveAtPosition
<1>2. CASE ~\E j \in 1 .. Len(s) : s[j] = k
  BY Zenon, <1>2 DEF RemoveFirst
<1> QED BY Zenon, <1>1, <1>2

\* Removing a key from an order without duplicates.
LEMMA RemoveFirstKeys ==
    ASSUME NEW K, NEW s \in Seq(K), NEW k, Distinct(s)
    PROVE  /\ Distinct(RemoveFirst(s, k))
           /\ ToSet(RemoveFirst(s, k)) = ToSet(s) \ {k}
<1>0. Len(s) \in Nat /\ DOMAIN s = 1 .. Len(s)
  OBVIOUS
<1>1. CASE ~\E j \in 1 .. Len(s) : s[j] = k
  BY Zenon, <1>0, <1>1 DEF RemoveFirst, ToSet
<1>2. CASE \E j \in 1 .. Len(s) : s[j] = k
  <2>1. PICK i \in 1 .. Len(s) : s[i] = k /\ RemoveFirst(s, k) = RemoveAt(s, i)
    BY Zenon, <1>2, RemoveFirstPosition
  <2> DEFINE r == RemoveFirst(s, k)
             At(j) == IF j < i THEN j ELSE j + 1
  <2>2. /\ r \in Seq(K) /\ Len(r) = Len(s) - 1
        /\ \A j \in 1 .. Len(s) - 1 : r[j] = s[At(j)]
    BY Zenon, <2>1, RemoveAtPosition
  <2>3. DOMAIN r = 1 .. Len(s) - 1
    BY <1>0, <2>2
  <2>4. \A j \in 1 .. Len(s) - 1 : At(j) \in 1 .. Len(s) /\ At(j) # i
    BY <1>0
  <2>5. \A m, n \in 1 .. Len(s) - 1 : At(m) = At(n) => m = n
    BY <1>0
  <2>6. \A x \in 1 .. Len(s) : x # i => \E j \in 1 .. Len(s) - 1 : At(j) = x
    <3> TAKE x \in 1 .. Len(s)
    <3> HAVE x # i
    <3>1. CASE x < i
      <4>1. x \in 1 .. Len(s) - 1 /\ At(x) = x
        BY <1>0, <3>1
      <4> QED BY Zenon, <4>1
    <3>2. CASE x > i
      <4>1. x - 1 \in 1 .. Len(s) - 1 /\ At(x - 1) = x
        BY <1>0, <3>2
      <4> QED BY Zenon, <4>1
    <3> QED BY <1>0, <3>1, <3>2
  <2> HIDE DEF r, At
  <2>7. Distinct(r)
    BY ZenonT(60), <1>0, <2>2, <2>4, <2>5 DEF Distinct
  <2>8. ToSet(r) \subseteq ToSet(s) \ {k}
    <3>1. ASSUME NEW j \in 1 .. Len(s) - 1
          PROVE  r[j] \in ToSet(s) \ {k}
      <4>1. r[j] = s[At(j)] /\ At(j) \in 1 .. Len(s) /\ At(j) # i
        BY Zenon, <2>2, <2>4
      <4> QED BY Zenon, <1>0, <2>1, <4>1 DEF ToSet, Distinct
    <3> QED BY Zenon, <2>3, <3>1 DEF ToSet
  <2>9. ToSet(s) \ {k} \subseteq ToSet(r)
    <3>1. ASSUME NEW x \in 1 .. Len(s), s[x] # k
          PROVE  s[x] \in ToSet(r)
      <4>1. PICK j \in 1 .. Len(s) - 1 : At(j) = x
        BY Zenon, <2>1, <2>6, <3>1
      <4> QED BY Zenon, <2>2, <2>3, <4>1 DEF ToSet
    <3> QED BY Zenon, <1>0, <3>1 DEF ToSet
  <2> QED BY Zenon, <2>7, <2>8, <2>9 DEF r
<1> QED BY Zenon, <1>1, <1>2

\* A key joins at the end, and the first key stays the first.
LEMMA AppendKeys ==
    ASSUME NEW K, NEW s \in Seq(K), NEW k \in K, Distinct(s), k \notin ToSet(s)
    PROVE  /\ Append(s, k) \in Seq(K)
           /\ Distinct(Append(s, k))
           /\ ToSet(Append(s, k)) = ToSet(s) \cup {k}
           /\ ToSet(s) # {} => First(Append(s, k)) \in ToSet(s)
<1> DEFINE t == Append(s, k)
<1>0. Len(s) \in Nat /\ DOMAIN s = 1 .. Len(s)
  OBVIOUS
<1>1. /\ t \in Seq(K) /\ Len(t) = Len(s) + 1
      /\ \A i \in 1 .. Len(s) : t[i] = s[i]
      /\ t[Len(s) + 1] = k
  BY <1>0, AppendProperties
<1>2. DOMAIN t = 1 .. Len(s) + 1 /\ t # <<>> /\ Head(t) = t[1]
  BY <1>0, <1>1
<1> HIDE DEF t
<1>3. \A i \in 1 .. Len(s) : s[i] \in ToSet(s) /\ s[i] # k
  BY Zenon, <1>0 DEF ToSet
<1>4. Distinct(t)
  <2> SUFFICES ASSUME NEW i \in 1 .. Len(s) + 1, NEW j \in 1 .. Len(s) + 1, t[i] = t[j]
               PROVE  i = j
    BY Zenon, <1>1 DEF Distinct
  <2>1. CASE i \in 1 .. Len(s) /\ j \in 1 .. Len(s)
    BY Zenon, <1>1, <2>1 DEF Distinct
  <2>2. CASE i = Len(s) + 1 \/ j = Len(s) + 1
    BY <1>0, <1>1, <1>3, <2>2
  <2> QED BY <1>0, <2>1, <2>2
<1>5. ToSet(t) = ToSet(s) \cup {k}
  <2>1. ToSet(t) \subseteq ToSet(s) \cup {k}
    <3>1. ASSUME NEW i \in 1 .. Len(s) + 1
          PROVE  t[i] \in ToSet(s) \cup {k}
      BY <1>0, <1>1, <1>3
    <3> QED BY Zenon, <1>2, <3>1 DEF ToSet
  <2>2. k \in ToSet(t)
    <3>1. Len(s) + 1 \in DOMAIN t
      BY <1>0, <1>2
    <3> QED BY Zenon, <1>1, <3>1 DEF ToSet
  <2>3. ToSet(s) \subseteq ToSet(t)
    <3>1. \A i \in 1 .. Len(s) : i \in DOMAIN t
      BY <1>0, <1>2
    <3> QED BY Zenon, <1>0, <1>1, <3>1 DEF ToSet
  <2> QED BY Zenon, <2>1, <2>2, <2>3
<1>6. ToSet(s) # {} => First(t) \in ToSet(s)
  <2>1. ToSet(s) # {} => 1 \in 1 .. Len(s)
    BY <1>0 DEF ToSet
  <2> QED BY Zenon, <1>1, <1>2, <1>3, <2>1 DEF First
<1> QED BY Zenon, <1>1, <1>4, <1>5, <1>6 DEF t

-----------------------------------------------------------------------------
(* What the calls of a policy do to the keys it tracks.                    *)

\* The bookkeeping of a policy for the keys of K: the orders of LRU and FIFO
\* have no duplicates, the buckets of LFU hold keys of K.
Right(p, K) ==
    IF name = "lfu" THEN \A f \in DOMAIN p.buckets : p.buckets[f] \in Seq(K)
                    ELSE p \in Seq(K) /\ Distinct(p)

KnownPolicy == name \in {"lru", "fifo", "lfu"}

LEMMA LeaveBucketType ==
    ASSUME NEW b, NEW K, \A f \in DOMAIN b : b[f] \in Seq(K), NEW f, NEW k
    PROVE  \A g \in DOMAIN LeaveBucket(b, f, k) : LeaveBucket(b, f, k)[g] \in Seq(K)
<1>1. CASE RemoveFirst(b[f], k) = <<>>
  BY Zenon, <1>1 DEF LeaveBucket, Restrict
<1>2. CASE RemoveFirst(b[f], k) # <<>>
  <2> DEFINE c == [b EXCEPT ![f] = RemoveFirst(b[f], k)]
  <2>1. LeaveBucket(b, f, k) = c
    BY Zenon, <1>2 DEF LeaveBucket
  <2>2. \A g \in DOMAIN b : c[g] = IF g = f THEN RemoveFirst(b[f], k) ELSE b[g]
    BY Zenon
  <2>3. DOMAIN c = DOMAIN b
    BY Zenon
  <2>4. f \in DOMAIN b => RemoveFirst(b[f], k) \in Seq(K)
    BY Zenon, RemoveFirstType
  <2> HIDE DEF c
  <2> QED BY Zenon, <2>1, <2>2, <2>3, <2>4
<1> QED BY Zenon, <1>1, <1>2

LEMMA JoinBucketType ==
    ASSUME NEW b, NEW K, \A f \in DOMAIN b : b[f] \in Seq(K), NEW f, NEW k \in K
    PROVE  \A g \in DOMAIN JoinBucket(b, f, k) : JoinBucket(b, f, k)[g] \in Seq(K)
<1>1. Bucket(b, f) \in Seq(K)
  BY DEF Bucket
<1>2. Append(Bucket(b, f), k) \in Seq(K)
  BY Zenon, <1>1, AppendProperties
<1> QED BY Zenon, <1>2 DEF JoinBucket, SetAt

LEMMA OnDeleteTracks ==
    ASSUME KnownPolicy, NEW p, NEW K, Right(p, K), NEW k
    PROVE  /\ Right(OnDelete(p, k), K)
           /\ Tracked(OnDelete(p, k)) = Tracked(p) \ {k}
<1>1. CASE name \in {"lru", "fifo"}
  <2>1. OnDelete(p, k) = RemoveFirst(p, k)
    BY Zenon, <1>1 DEF OnDelete, LruOnDelete, FifoOnDelete
  <2>2. p \in Seq(K) /\ Distinct(p)
    BY Zenon, <1>1 DEF Right
  <2>3. /\ RemoveFirst(p, k) \in Seq(K) /\ Distinct(RemoveFirst(p, k))
        /\ ToSet(RemoveFirst(p, k)) = ToSet(p) \ {k}
    BY Zenon, <2>2, RemoveFirstType, RemoveFirstKeys
  <2> QED BY Zenon, <1>1, <2>1, <2>3 DEF Right, Tracked
<1>2. CASE name = "lfu"
  <2>1. OnDelete(p, k) = LfuOnDelete(p, k)
    BY Zenon, <1>2 DEF OnDelete
  <2>2. CASE k \notin LfuKeys(p)
    BY Zenon, <1>2, <2>1, <2>2 DEF LfuOnDelete, Tracked
  <2>3. CASE k \in LfuKeys(p)
    <3> DEFINE q == LfuOnDelete(p, k)
               left == LeaveBucket(p.buckets, p.freq[k], k)
    <3>1. /\ q.freq = Restrict(p.freq, LfuKeys(p) \ {k})
          /\ q.buckets = left
      BY Zenon, <2>3 DEF LfuOnDelete
    <3>2. \A g \in DOMAIN left : left[g] \in Seq(K)
      BY Zenon, <1>2, LeaveBucketType DEF Right
    <3> HIDE DEF q, left
    <3>3. Right(q, K) /\ LfuKeys(q) = LfuKeys(p) \ {k}
      BY Zenon, <1>2, <3>1, <3>2 DEF Right, LfuKeys, Restrict
    <3> QED BY Zenon, <1>2, <2>1, <3>3 DEF Tracked, q
  <2> QED BY Zenon, <2>2, <2>3
<1> QED BY Zenon, <1>1, <1>2 DEF KnownPolicy

LEMMA BumpTracks ==
    ASSUME name = "lfu", NEW p, NEW K, Right(p, K), NEW k \in K, k \in LfuKeys(p)
    PROVE  Right(LfuBump(p, k), K) /\ LfuKeys(LfuBump(p, k)) = LfuKeys(p)
<1> DEFINE old == p.freq[k]
           left == LeaveBucket(p.buckets, old, k)
           joined == JoinBucket(left, old + 1, k)
           q == LfuBump(p, k)
<1>1. q.freq = SetAt(p.freq, k, old + 1) /\ q.buckets = joined
  BY Zenon DEF LfuBump
<1>2. \A g \in DOMAIN left : left[g] \in Seq(K)
  BY Zenon, LeaveBucketType DEF Right
<1> HIDE DEF left
<1>3. \A g \in DOMAIN joined : joined[g] \in Seq(K)
  BY Zenon, <1>2, JoinBucketType
<1> HIDE DEF joined, q
<1>4. Right(q, K) /\ LfuKeys(q) = LfuKeys(p)
  BY Zenon, <1>1, <1>3 DEF Right, LfuKeys, SetAt
<1> QED BY Zenon, <1>4 DEF q

LEMMA OnPutTracks ==
    ASSUME KnownPolicy, NEW p, NEW K, Right(p, K), NEW k \in K
    PROVE  /\ Right(OnPut(p, k), K)
           /\ Tracked(OnPut(p, k)) = Tracked(p) \cup {k}
<1>1. CASE name = "lru"
  <2> DEFINE r == RemoveFirst(p, k)
  <2>1. OnPut(p, k) = Append(r, k)
    BY Zenon, <1>1 DEF OnPut, LruOnPut, MoveToEnd
  <2>2. p \in Seq(K) /\ Distinct(p)
    BY Zenon, <1>1 DEF Right
  <2>3. r \in Seq(K) /\ Distinct(r) /\ ToSet(r) = ToSet(p) \ {k}
    BY Zenon, <2>2, RemoveFirstType, RemoveFirstKeys
  <2> HIDE DEF r
  <2>4. /\ Append(r, k) \in Seq(K) /\ Distinct(Append(r, k))
        /\ ToSet(Append(r, k)) = ToSet(r) \cup {k}
    BY Zenon, <2>3, AppendKeys
  <2> QED BY Zenon, <1>1, <2>1, <2>3, <2>4 DEF Right, Tracked
<1>2. CASE name = "fifo"
  <2>1. p \in Seq(K) /\ Distinct(p) /\ DOMAIN p = 1 .. Len(p)
    BY <1>2 DEF Right
  <2>2. OnPut(p, k) = FifoOnPut(p, k)
    BY Zenon, <1>2 DEF OnPut
  <2>3. CASE k \in ToSet(p)
    <3>1. OnPut(p, k) = p
      BY Zenon, <2>1, <2>2, <2>3 DEF FifoOnPut, Contains, ToSet
    <3> QED BY Zenon, <1>2, <2>3, <3>1 DEF Tracked
  <2>4. CASE k \notin ToSet(p)
    <3>1. OnPut(p, k) = Append(p, k)
      BY Zenon, <2>1, <2>2, <2>4 DEF FifoOnPut, Contains, ToSet
    <3>2. /\ Append(p, k) \in Seq(K) /\ Distinct(Append(p, k))
          /\ ToSet(Append(p, k)) = ToSet(p) \cup {k}
      BY <2>1, <2>4, AppendKeys
    <3> QED BY Zenon, <1>2, <3>1, <3>2 DEF Right, Tracked
  <2> QED BY Zenon, <2>3, <2>4
<1>3. CASE name = "lfu"
  <2>1. OnPut(p, k) = LfuOnPut(p, k)
    BY Zenon, <1>3 DEF OnPut
  <2>2. CASE k \in LfuKeys(p)
    BY ZenonT(60), <1>3, <2>1, <2>2, BumpTracks DEF LfuOnPut, Tracked
  <2>3. CASE k \notin LfuKeys(p)
    <3> DEFINE q == LfuOnPut(p, k)
               joined == JoinBucket(p.buckets, 1, k)
    <3>1. q.freq = SetAt(p.freq, k, 1) /\ q.buckets = joined
      BY Zenon, <2>3 DEF LfuOnPut
    <3>2. \A g \in DOMAIN joined : joined[g] \in Seq(K)
      BY Zenon, <1>3, JoinBucketType DEF Right
    <3> HIDE DEF q, joined
    <3>3. Right(q, K) /\ LfuKeys(q) = LfuKeys(p) \cup {k}
      BY Zenon, <1>3, <3>1, <3>2 DEF Right, LfuKeys, SetAt
    <3> QED BY Zenon, <1>3, <2>1, <3>3 DEF Tracked, q
  <2> QED BY Zenon, <2>2, <2>3
<1> QED BY Zenon, <1>1, <1>2, <1>3 DEF KnownPolicy

LEMMA OnGetTracks ==
    ASSUME KnownPolicy, NEW p, NEW K, Right(p, K), NEW k \in K
    PROVE  Right(OnGet(p, k), K) /\ Tracked(OnGet(p, k)) = Tracked(p)
<1>1. CASE name = "lru"
  <2>0. p \in Seq(K) /\ DOMAIN p = 1 .. Len(p)
    BY <1>1 DEF Right
  <2>1. CASE k \in ToSet(p)
    <3>1. OnGet(p, k) = OnPut(p, k)
      BY Zenon, <1>1, <2>0, <2>1 DEF OnGet, OnPut, LruOnGet, LruOnPut, Contains, ToSet
    <3>2. Tracked(p) = Tracked(p) \cup {k}
      BY Zenon, <1>1, <2>1 DEF Tracked
    <3>3. Right(OnPut(p, k), K) /\ Tracked(OnPut(p, k)) = Tracked(p)
      BY Zenon, <3>2, OnPutTracks
    <3> QED BY <3>1, <3>3, Zenon
  <2>2. CASE k \notin ToSet(p)
    <3>1. OnGet(p, k) = p
      BY Zenon, <1>1, <2>0, <2>2 DEF OnGet, LruOnGet, Contains, ToSet
    <3> QED BY Zenon, <3>1
  <2> QED BY Zenon, <2>1, <2>2
<1>2. CASE name = "fifo"
  BY Zenon, <1>2 DEF OnGet, FifoOnGet
<1>3. CASE name = "lfu"
  <2>1. OnGet(p, k) = IF k \in LfuKeys(p) THEN LfuBump(p, k) ELSE p
    BY Zenon, <1>3 DEF OnGet, LfuOnGet
  <2> QED BY Zenon, <1>3, <2>1, BumpTracks DEF Tracked
<1> QED BY Zenon, <1>1, <1>2, <1>3 DEF KnownPolicy

LEMMA FirstType ==
    ASSUME NEW K, NEW s \in Seq(K)
    PROVE  First(s) \in K \cup {None}
BY DEF First

LEMMA CandidateType ==
    ASSUME KnownPolicy, NEW p, NEW K, Right(p, K)
    PROVE  EvictCandidate(p) \in K \cup {None}
<1>1. CASE name \in {"lru", "fifo"}
  <2>1. EvictCandidate(p) = First(p) /\ p \in Seq(K)
    BY Zenon, <1>1 DEF EvictCandidate, LruCandidate, FifoCandidate, Right
  <2> QED BY Zenon, <2>1, FirstType
<1>2. CASE name = "lfu"
  <2>1. EvictCandidate(p) = LfuCandidate(p)
    BY Zenon, <1>2 DEF EvictCandidate
  <2>2. Bucket(p.buckets, p.min) \in Seq(K)
    BY <1>2 DEF Right, Bucket
  <2> QED BY Zenon, <2>1, <2>2, FirstType DEF LfuCandidate
<1> QED BY Zenon, <1>1, <1>2 DEF KnownPolicy

\* LRU and FIFO do not evict a key that has just been inserted, unless it is
\* the only one.
LEMMA CandidateIsOld ==
    ASSUME name \in {"lru", "fifo"}, NEW p, NEW K, Right(p, K), NEW k \in K,
           k \notin Tracked(p), Tracked(p) # {}
    PROVE  EvictCandidate(OnPut(p, k)) \in Tracked(p)
<1>1. /\ p \in Seq(K) /\ Distinct(p) /\ DOMAIN p = 1 .. Len(p)
      /\ Tracked(p) = ToSet(p)
  BY DEF Right, Tracked
<1>2. ~\E i \in 1 .. Len(p) : p[i] = k
  BY Zenon, <1>1 DEF ToSet
<1>3. OnPut(p, k) = Append(p, k)
  <2>1. CASE name = "lru"
    BY Zenon, <1>2, <2>1 DEF OnPut, LruOnPut, MoveToEnd, RemoveFirst
  <2>2. CASE name = "fifo"
    BY Zenon, <1>2, <2>2 DEF OnPut, FifoOnPut, Contains
  <2> QED BY Zenon, <2>1, <2>2
<1>4. EvictCandidate(Append(p, k)) = First(Append(p, k))
  BY Zenon DEF EvictCandidate, LruCandidate, FifoCandidate
<1>5. First(Append(p, k)) \in ToSet(p)
  BY Zenon, <1>1, AppendKeys
<1> QED BY Zenon, <1>1, <1>3, <1>4, <1>5

-----------------------------------------------------------------------------
(* What the operations of the cache do to the live keys.                   *)

ShardKeys(i) == {k \in Keys : ShardOf[k] = i}

LEMMA PutCached ==
    ASSUME slot \in [Keys -> Slot], NEW k \in Keys, writes[k] \in Nat,
           NEW s \in {slot[k], RemoveEntry(slot[k])}, s \in Slot,
           NEW E, NEW x \in Keys
    PROVE  Cached(AfterPut(k, s, E)[x]) <=> x \notin E /\ (x = k \/ Cached(slot[x]))
<1> DEFINE w == writes[k] + 1
           t == StoreEntry(s, w)
<1>0. w \in Nat
  OBVIOUS
<1> HIDE DEF w
<1>1. t \in Slot
  BY Zenon, <1>0, StoreEntryCoherent
<1>2. Cached(t)
  <2> DEFINE n == NextVersion(s)
  <2>1. n \in Slot /\ n.mark > 0
    BY DEF NextVersion, Slot
  <2>2. t = [n EXCEPT !.tomb = 0, !.version = n.mark, !.write = w, !.dirty = TRUE]
    BY Zenon DEF StoreEntry
  <2> HIDE DEF n
  <2>3. t.version = n.mark
    BY Zenon, <2>1, <2>2 DEF Slot
  <2> QED BY Zenon, <2>1, <2>3 DEF Cached
<1>3. RemoveEntry(t) \in Slot
  BY Zenon, <1>1 DEF RemoveEntry, MaybePruneMarks, Slot
<1> DEFINE u == IF k \in E THEN RemoveEntry(t) ELSE t
<1>4. AfterPut(k, s, E)[x] =
          IF x = k THEN RegisterPending(u)
          ELSE IF x \in E THEN RemoveEntry(slot[x]) ELSE slot[x]
  BY Zenon DEF AfterPut, w
<1> HIDE DEF t
<1>5. u \in Slot /\ (Cached(u) <=> k \notin E)
  BY Zenon, <1>1, <1>2, <1>3, SlotEntries
<1> HIDE DEF u
<1>6. Cached(RegisterPending(u)) <=> k \notin E
  BY Zenon, <1>5, SlotEntries DEF SameEntry, Cached
<1>7. slot[x] \in Slot /\ ~Cached(RemoveEntry(slot[x]))
  BY Zenon, SlotEntries
<1>8. CASE x = k
  BY Zenon, <1>4, <1>6, <1>8
<1>9. CASE x # k
  BY Zenon, <1>4, <1>7, <1>9
<1> QED BY Zenon, <1>8, <1>9

\* The steps that do not concern a policy leave the live keys alone.
LEMMA OthersKeepLive ==
    ASSUME slot \in [Keys -> Slot], OtherStep, NEW x \in Keys
    PROVE  Cached(slot'[x]) <=> Cached(slot[x])
<1>1. slot[x] \in Slot
  BY Zenon
<1>2. CASE UNCHANGED slot
  BY Zenon, <1>2
<1>3. ASSUME NEW k, slot' = [slot EXCEPT ![k] = ResolvePending(slot[k])]
      PROVE  Cached(slot'[x]) <=> Cached(slot[x])
  <2>1. slot'[x] = IF x = k THEN ResolvePending(slot[x]) ELSE slot[x]
    BY Zenon, <1>3
  <2> QED BY Zenon, <1>1, <2>1, SlotEntries DEF SameEntry, Cached
<1>4. ASSUME NEW c \in Clients, Release(c)
      PROVE  Cached(slot'[x]) <=> Cached(slot[x])
  <2>1. PICK j \in hand[c] : slot' = [slot EXCEPT ![j.key] = ResolvePending(slot[j.key])]
    BY Zenon, <1>4 DEF Release, NextJobs
  <2> QED BY Zenon, <1>3, <2>1
<1>5. ASSUME NEW w \in Workers, Skip(w) \/ GiveUp(w)
      PROVE  Cached(slot'[x]) <=> Cached(slot[x])
  BY Zenon, <1>3, <1>5 DEF Skip, GiveUp
<1>6. ASSUME NEW w \in Workers, Settle(w)
      PROVE  Cached(slot'[x]) <=> Cached(slot[x])
  <2> DEFINE t == MarkClean(slot[x], wjob[w])
  <2>1. slot'[x] = ResolvePending(t) \/ slot'[x] = slot[x]
    BY Zenon, <1>6 DEF Settle
  <2>2. t \in Slot /\ t.version = slot[x].version
    BY Zenon, <1>1, MarkCleanCoherent DEF MarkClean, Slot
  <2> HIDE DEF t
  <2> QED BY ZenonT(60), <2>1, <2>2, SlotEntries DEF SameEntry, Cached
<1>7. ASSUME NEW c \in Clients, StartClear(c) \/ Enqueue(c) \/ EnqueueTimeout(c)
      PROVE  UNCHANGED slot
  BY Zenon, <1>7 DEF StartClear, Enqueue, EnqueueTimeout
<1>8. ASSUME NEW w \in Workers,
             Take(w) \/ Pass(w) \/ Apply(w) \/ ApplyFails(w) \/ Retry(w) \/ RetryTimeout(w)
      PROVE  UNCHANGED slot
  BY Zenon, <1>8 DEF Take, Pass, Apply, ApplyFails, Retry, RetryTimeout
<1>9. ASSUME NEW w \in Workers, WorkerStep(w)
      PROVE  Cached(slot'[x]) <=> Cached(slot[x])
  BY Zenon, <1>2, <1>5, <1>6, <1>8, <1>9 DEF WorkerStep
<1>10. UNCHANGED vars => UNCHANGED slot
  BY Zenon DEF vars
<1> QED BY Zenon, <1>2, <1>4, <1>7, <1>9, <1>10 DEF OtherStep

-----------------------------------------------------------------------------
(* The policies track the entries.                                         *)

\* The policy p of shard i is in order and tracks the live keys of slots sl.
Follows(p, sl, i) == Right(p, ShardKeys(i)) /\ Tracked(p) = Live(sl, i)

PoliciesFollow ==
    /\ name \in Policies
    /\ policy = [i \in 1 .. ShardCount |-> policy[i]]
    /\ \A i \in 1 .. ShardCount : Follows(policy[i], slot, i)

LEMMA PolicyKnown ==
    ASSUME PoliciesFollow
    PROVE  KnownPolicy
BY Zenon, PolicyAssumption DEF PoliciesFollow, KnownPolicy

\* It is enough to look at the shard whose policy is called.
LEMMA OnePolicyCalled ==
    ASSUME PoliciesFollow, name' = name, NEW i \in 1 .. ShardCount, NEW q,
           policy' = [policy EXCEPT ![i] = q],
           Right(q, ShardKeys(i)), Tracked(q) = Live(slot', i),
           \A j \in 1 .. ShardCount : j # i => Live(slot', j) = Live(slot, j)
    PROVE  PoliciesFollow'
<1>1. \A j \in 1 .. ShardCount : policy'[j] = IF j = i THEN q ELSE policy[j]
  BY Zenon DEF PoliciesFollow
<1>2. policy' = [j \in 1 .. ShardCount |-> policy'[j]]
  BY Zenon DEF PoliciesFollow
<1>3. ASSUME NEW j \in 1 .. ShardCount
      PROVE  Follows(policy'[j], slot', j)
  BY Zenon, <1>1, <1>3 DEF PoliciesFollow, Follows
<1>4. name' \in Policies
  BY Zenon DEF PoliciesFollow
<1>5. \A j \in 1 .. ShardCount : Follows(policy[j], slot, j)'
  BY Zenon, <1>3 DEF Follows, Right, Tracked, Live, ShardKeys
<1> QED BY Zenon, <1>2, <1>4, <1>5 DEF PoliciesFollow

\* The victims of put() are keys of its shard.
LEMMA VictimsType ==
    ASSUME PoliciesFollow, NEW p, NEW i, Right(p, ShardKeys(i)), NEW k \in ShardKeys(i)
    PROVE  /\ {EvictCandidate(OnPut(p, k))} \ {None} \in SUBSET ShardKeys(i)
           /\ {EvictCandidate(OnPut(p, k))} \ {None} \in SUBSET Keys
<1>1. Right(OnPut(p, k), ShardKeys(i))
  BY Zenon, PolicyKnown, OnPutTracks
<1>2. EvictCandidate(OnPut(p, k)) \in ShardKeys(i) \cup {None}
  BY Zenon, <1>1, PolicyKnown, CandidateType
<1> QED BY Zenon, <1>2 DEF ShardKeys

LEMMA GetFollows ==
    ASSUME Inv, PoliciesFollow, name' = name, NEW k \in Keys, Get(k)
    PROVE  Inv' /\ PoliciesFollow'
<1> DEFINE i == ShardOf[k]
           q == OnGet(policy[i], k)
<1>1. i \in 1 .. ShardCount /\ k \in ShardKeys(i)
  BY Zenon, ConstantsAssumption DEF ShardKeys
<1>2. KnownPolicy /\ Follows(policy[i], slot, i)
  BY Zenon, <1>1, PolicyKnown DEF PoliciesFollow
<1>3. policy' = [policy EXCEPT ![i] = q] /\ UNCHANGED vars
  BY Zenon DEF Get
<1>4. Right(q, ShardKeys(i)) /\ Tracked(q) = Live(slot, i)
  BY Zenon, <1>1, <1>2, OnGetTracks DEF Follows
<1>5. slot' = slot
  BY Zenon, <1>3 DEF vars
<1> HIDE DEF i, q
<1>6. PoliciesFollow'
  BY Zenon, <1>1, <1>3, <1>4, <1>5, OnePolicyCalled
<1>7. Inv'
  BY Zenon, <1>3 DEF vars, Inv, TypeOK, BusyHoldsJob, MetadataBounded
<1> QED BY Zenon, <1>6, <1>7

\* A step that takes the entry of k, and no other, out of the cache, and tells
\* the policy.
LEMMA RemovalFollows ==
    ASSUME PoliciesFollow, name' = name, NEW k \in Keys,
           policy' = [policy EXCEPT ![ShardOf[k]] = OnDelete(@, k)],
           \A x \in Keys : Cached(slot'[x]) <=> x # k /\ Cached(slot[x])
    PROVE  PoliciesFollow'
<1> DEFINE i == ShardOf[k]
           q == OnDelete(policy[i], k)
<1>1. i \in 1 .. ShardCount
  BY Zenon, ConstantsAssumption
<1>2. KnownPolicy /\ Follows(policy[i], slot, i)
  BY Zenon, <1>1, PolicyKnown DEF PoliciesFollow
<1>3. Right(q, ShardKeys(i)) /\ Tracked(q) = Live(slot, i) \ {k}
  BY Zenon, <1>2, OnDeleteTracks DEF Follows
<1>4. policy' = [policy EXCEPT ![i] = q]
  BY Zenon
<1>5. Live(slot', i) = Live(slot, i) \ {k}
  BY Zenon DEF Live
<1>6. \A j \in 1 .. ShardCount : j # i => Live(slot', j) = Live(slot, j)
  BY Zenon DEF Live
<1> HIDE DEF i, q
<1> QED BY Zenon, <1>1, <1>3, <1>4, <1>5, <1>6, OnePolicyCalled

LEMMA ExpireFollows ==
    ASSUME Inv, PoliciesFollow, name' = name, NEW k \in Keys, PolicyExpire(k)
    PROVE  Inv' /\ PoliciesFollow'
<1>1. Inv'
  BY Zenon, ExpireInv DEF PolicyExpire
<1>2. slot \in [Keys -> Slot]
  BY Zenon DEF Inv, TypeOK
<1>3. \A x \in Keys : slot'[x] = IF x = k THEN RemoveEntry(slot[x]) ELSE slot[x]
  BY Zenon, <1>2 DEF PolicyExpire, Expire
<1>4. \A x \in Keys : Cached(slot'[x]) <=> x # k /\ Cached(slot[x])
  BY Zenon, <1>2, <1>3, SlotEntries
<1>5. policy' = [policy EXCEPT ![ShardOf[k]] = OnDelete(@, k)]
  BY Zenon DEF PolicyExpire
<1> QED BY Zenon, <1>1, <1>4, <1>5, RemovalFollows

LEMMA DeleteFollows ==
    ASSUME Inv, PoliciesFollow, name' = name, NEW c \in Clients, NEW k \in Keys,
           PolicyDelete(c, k)
    PROVE  Inv' /\ PoliciesFollow'
<1>1. Inv'
  BY Zenon, ClientStepInv DEF PolicyDelete, ClientStep
<1>2. slot \in [Keys -> Slot]
  BY Zenon DEF Inv, TypeOK
<1>3. \A x \in Keys : slot'[x] = IF x = k THEN DeleteEntry(slot[x]) ELSE slot[x]
  BY Zenon, <1>2 DEF PolicyDelete, Delete
<1>4. \A x \in Keys : Cached(slot'[x]) <=> x # k /\ Cached(slot[x])
  BY Zenon, <1>2, <1>3, SlotEntries
<1>5. policy' = [policy EXCEPT ![ShardOf[k]] = OnDelete(@, k)]
  BY Zenon DEF PolicyDelete
<1> QED BY Zenon, <1>1, <1>4, <1>5, RemovalFollows

\* A new policy tracks no key.
LEMMA MakePolicyTracks ==
    ASSUME KnownPolicy, NEW K
    PROVE  Right(MakePolicy, K) /\ Tracked(MakePolicy) = {}
<1>1. CASE name \in {"lru", "fifo"}
  <2>1. MakePolicy = <<>>
    BY Zenon, <1>1 DEF MakePolicy, LruInit, FifoInit
  <2>2. <<>> \in Seq(K) /\ Distinct(<<>>) /\ ToSet(<<>>) = {}
    BY DEF Distinct, ToSet
  <2> QED BY Zenon, <1>1, <2>1, <2>2 DEF Right, Tracked
<1>2. CASE name = "lfu"
  <2>1. MakePolicy = LfuInit
    BY Zenon, <1>2 DEF MakePolicy
  <2>2. DOMAIN LfuInit.buckets = {} /\ DOMAIN LfuInit.freq = {}
    BY DEF LfuInit
  <2> QED BY Zenon, <1>2, <2>1, <2>2 DEF Right, Tracked, LfuKeys
<1> QED BY Zenon, <1>1, <1>2 DEF KnownPolicy

LEMMA ClearFollows ==
    ASSUME Inv, PoliciesFollow, name' = name, NEW c \in Clients, PolicyClearShard(c)
    PROVE  Inv' /\ PoliciesFollow'
<1> DEFINE i == nextShard[c]
<1>1. Inv'
  BY Zenon, ClientStepInv DEF PolicyClearShard, ClientStep, ClientProgress
<1>2. slot \in [Keys -> Slot] /\ i \in 1 .. ShardCount
  BY Zenon DEF Inv, TypeOK
<1>3. \A x \in Keys : slot'[x] = IF x \in Live(slot, i) THEN DeleteEntry(slot[x])
                                                         ELSE slot[x]
  BY Zenon DEF PolicyClearShard, ClearShard
<1>4. \A x \in Keys : Cached(slot'[x]) <=> ShardOf[x] # i /\ Cached(slot[x])
  BY Zenon, <1>2, <1>3, SlotEntries DEF Live
<1>5. policy' = [policy EXCEPT ![i] = MakePolicy]
  BY Zenon DEF PolicyClearShard
<1>6. Right(MakePolicy, ShardKeys(i)) /\ Tracked(MakePolicy) = {}
  BY Zenon, PolicyKnown, MakePolicyTracks
<1>7. Live(slot', i) = {}
  BY Zenon, <1>4 DEF Live
<1>8. \A j \in 1 .. ShardCount : j # i => Live(slot', j) = Live(slot, j)
  BY Zenon, <1>4 DEF Live
<1> HIDE DEF i
<1>9. PoliciesFollow'
  BY Zenon, <1>2, <1>5, <1>6, <1>7, <1>8, OnePolicyCalled
<1> QED BY Zenon, <1>1, <1>9

LEMMA OthersFollow ==
    ASSUME Inv, PoliciesFollow, name' = name, OtherStep
    PROVE  Inv' /\ PoliciesFollow'
<1>1. Inv'
  <2>1. CASE UNCHANGED vars
    BY Zenon, <2>1 DEF vars, Inv, TypeOK, BusyHoldsJob, MetadataBounded
  <2>2. ASSUME NEW c \in Clients,
               StartClear(c) \/ Enqueue(c) \/ EnqueueTimeout(c) \/ Release(c)
        PROVE  Inv'
    BY Zenon, <2>2, ClientStepInv DEF ClientStep, ClientProgress
  <2> QED BY Zenon, <2>1, <2>2, WorkerStepInv DEF OtherStep
<1>2. slot \in [Keys -> Slot]
  BY Zenon DEF Inv, TypeOK
<1>3. \A x \in Keys : Cached(slot'[x]) <=> Cached(slot[x])
  BY Zenon, <1>2, OthersKeepLive
<1>4. \A i \in 1 .. ShardCount : Live(slot', i) = Live(slot, i)
  BY Zenon, <1>3 DEF Live
<1>5. policy' = policy
  BY Zenon DEF OtherStep
<1>6. \A i \in 1 .. ShardCount : Follows(policy[i], slot', i)
  BY Zenon, <1>4 DEF PoliciesFollow, Follows
<1>7. \A i \in 1 .. ShardCount : Follows(policy[i], slot, i)'
  BY Zenon, <1>5, <1>6 DEF Follows, Right, Tracked, Live, ShardKeys
<1> QED BY Zenon, <1>1, <1>5, <1>7 DEF PoliciesFollow

-----------------------------------------------------------------------------
(* put().                                                                  *)

\* The policy's bookkeeping once an expired entry has been dropped, whether
\* the shard is over capacity with the new entry, and the keys then evicted.
Before(k, expired) ==
    IF expired THEN OnDelete(policy[ShardOf[k]], k) ELSE policy[ShardOf[k]]

Full(k, expired) ==
    Cardinality(Live(Stored(k, expired), ShardOf[k])) > ShardCapacity(ShardOf[k])

Victims(k, expired) ==
    IF Full(k, expired) THEN {EvictCandidate(OnPut(Before(k, expired), k))} \ {None}
                        ELSE {}

PutWith(c, k, expired) ==
    /\ writes[k] < MaxWrites[k]
    /\ PutEvicting(c, k, expired, Victims(k, expired))
    /\ policy' = [policy EXCEPT ![ShardOf[k]] =
           IF Victims(k, expired) = {} THEN OnPut(Before(k, expired), k)
           ELSE OnDelete(OnPut(Before(k, expired), k),
                         EvictCandidate(OnPut(Before(k, expired), k)))]

LEMMA PolicyPutParts ==
    ASSUME NEW c, NEW k, PolicyPut(c, k)
    PROVE  \E expired \in {FALSE, Cached(slot[k])} : PutWith(c, k, expired)
BY Zenon DEF PolicyPut, PutWith, Before, Full, Victims

LEMMA BeforeTracks ==
    ASSUME PoliciesFollow, NEW k \in Keys, NEW expired \in BOOLEAN
    PROVE  /\ Right(Before(k, expired), ShardKeys(ShardOf[k]))
           /\ Tracked(Before(k, expired)) =
                  Live(slot, ShardOf[k]) \ (IF expired THEN {k} ELSE {})
<1> DEFINE i == ShardOf[k]
<1>1. i \in 1 .. ShardCount
  BY Zenon, ConstantsAssumption
<1>2. KnownPolicy /\ Right(policy[i], ShardKeys(i)) /\ Tracked(policy[i]) = Live(slot, i)
  BY Zenon, <1>1, PolicyKnown DEF PoliciesFollow, Follows
<1> HIDE DEF i
<1>3. CASE expired
  BY Zenon, <1>2, <1>3, OnDeleteTracks DEF Before, i
<1>4. CASE ~expired
  BY Zenon, <1>2, <1>4 DEF Before, i
<1> QED BY Zenon, <1>3, <1>4

LEMMA VictimsInShard ==
    ASSUME PoliciesFollow, NEW k \in Keys, NEW expired \in BOOLEAN
    PROVE  /\ Victims(k, expired) \in SUBSET ShardKeys(ShardOf[k])
           /\ Victims(k, expired) \in SUBSET Keys
<1>1. Right(Before(k, expired), ShardKeys(ShardOf[k])) /\ k \in ShardKeys(ShardOf[k])
  BY Zenon, BeforeTracks DEF ShardKeys
<1> QED BY Zenon, <1>1, VictimsType DEF Victims

LEMMA PutFollows ==
    ASSUME Inv, PoliciesFollow, name' = name, NEW c \in Clients, NEW k \in Keys,
           PolicyPut(c, k)
    PROVE  Inv' /\ PoliciesFollow'
<1>1. PICK expired \in {FALSE, Cached(slot[k])} : PutWith(c, k, expired)
  BY Zenon, PolicyPutParts
<1> DEFINE i == ShardOf[k]
           E == Victims(k, expired)
           p == OnPut(Before(k, expired), k)
           v == EvictCandidate(p)
           q == IF E = {} THEN p ELSE OnDelete(p, v)
           s == IF expired THEN RemoveEntry(slot[k]) ELSE slot[k]
<1>2. expired \in BOOLEAN
  <2>1. Cached(slot[k]) \in BOOLEAN
    BY DEF Cached
  <2> QED BY Zenon, <1>1, <2>1
<1>3. i \in 1 .. ShardCount /\ k \in ShardKeys(i)
  BY Zenon, ConstantsAssumption DEF ShardKeys
<1>4. slot \in [Keys -> Slot] /\ slot[k] \in Slot /\ Coherent(slot[k]) /\ writes[k] \in Nat
  BY Zenon DEF Inv, TypeOK, MetadataBounded
<1>5. E \in SUBSET ShardKeys(i) /\ E \in SUBSET Keys
  BY Zenon, <1>2, VictimsInShard
<1>6. Inv'
  <2>1. Good(Job, Phases)
    BY Zenon, InvIsGood
  <2>2. Good(Job, Phases)'
    BY Zenon, <1>1, <1>2, <1>5, <2>1, PutEvictingGood DEF PutWith
  <2> QED BY <2>2, InvIsGood, PTL
<1>7. slot' = AfterPut(k, s, E)
  <2>1. PutEvicting(c, k, expired, E)
    BY Zenon, <1>1 DEF PutWith
  <2> HIDE DEF E
  <2> QED BY <1>2, <1>4, <2>1, PutEvictingEffect
<1>8. s \in {slot[k], RemoveEntry(slot[k])} /\ s \in Slot
  BY Zenon, <1>4, RemoveEntryCoherent DEF Coherent
<1> HIDE DEF s
<1>9. \A x \in Keys : Cached(slot'[x]) <=> x \notin E /\ (x = k \/ Cached(slot[x]))
  BY <1>4, <1>7, <1>8, PutCached
<1>10. /\ Right(p, ShardKeys(i))
       /\ Tracked(p) = Live(slot, i) \cup {k}
  <2>1. /\ Right(Before(k, expired), ShardKeys(i))
        /\ Tracked(Before(k, expired)) = Live(slot, i) \ (IF expired THEN {k} ELSE {})
    BY Zenon, <1>2, BeforeTracks
  <2>2. /\ Right(p, ShardKeys(i))
        /\ Tracked(p) = Tracked(Before(k, expired)) \cup {k}
    BY Zenon, <1>3, <2>1, PolicyKnown, OnPutTracks
  <2> QED BY Zenon, <2>1, <2>2
<1>11. E = {} \/ E = {v}
  BY Zenon DEF Victims
<1> HIDE DEF p
<1>12. Right(q, ShardKeys(i)) /\ Tracked(q) = (Live(slot, i) \cup {k}) \ E
  <2>1. CASE E = {}
    BY Zenon, <1>10, <2>1
  <2>2. CASE E # {}
    <3>1. /\ Right(OnDelete(p, v), ShardKeys(i))
          /\ Tracked(OnDelete(p, v)) = Tracked(p) \ {v}
      BY Zenon, <1>10, PolicyKnown, OnDeleteTracks
    <3>2. q = OnDelete(p, v) /\ E = {v}
      BY Zenon, <1>11, <2>2
    <3> HIDE DEF q, E, v
    <3> QED BY Zenon, <1>10, <3>1, <3>2
  <2> QED BY Zenon, <2>1, <2>2
<1>13. policy' = [policy EXCEPT ![i] = q]
  BY Zenon, <1>1 DEF p, PutWith
<1> HIDE DEF q, E, v
<1>14. Live(slot', i) = (Live(slot, i) \cup {k}) \ E
  BY Zenon, <1>9 DEF Live, i
<1>15. \A j \in 1 .. ShardCount : j # i => Live(slot', j) = Live(slot, j)
  BY Zenon, <1>5, <1>9 DEF Live, i, ShardKeys
<1> HIDE DEF i
<1>16. PoliciesFollow'
  BY Zenon, <1>3, <1>12, <1>13, <1>14, <1>15, OnePolicyCalled
<1> QED BY Zenon, <1>6, <1>16

LEMMA FollowsInit ==
    ASSUME PolicyInit
    PROVE  Inv /\ PoliciesFollow
<1>1. Inv
  <2>1. EmptySlot \in Slot /\ Coherent(EmptySlot)
    BY DEF EmptySlot, Slot, Coherent, Cached
  <2> QED BY <2>1, ConstantsAssumption
          DEF PolicyInit, Init, Inv, TypeOK, BusyHoldsJob, MetadataBounded
<1>2. name \in Policies /\ policy = [i \in 1 .. ShardCount |-> MakePolicy]
  BY Zenon DEF PolicyInit
<1>3. KnownPolicy
  BY Zenon, <1>2, PolicyAssumption DEF KnownPolicy
<1>4. \A i : Live(slot, i) = {}
  BY DEF PolicyInit, Init, EmptySlot, Live, Cached
<1>5. \A i : Follows(MakePolicy, slot, i)
  BY Zenon, <1>3, <1>4, MakePolicyTracks DEF Follows
<1> HIDE DEF PolicyInit
<1> QED BY Zenon, <1>1, <1>2, <1>5 DEF PoliciesFollow

LEMMA FollowsStep ==
    ASSUME Inv, PoliciesFollow, [PolicyNext]_policyVars
    PROVE  Inv' /\ PoliciesFollow'
<1>1. CASE UNCHANGED policyVars
  BY Zenon, <1>1 DEF policyVars, vars, Inv, TypeOK, BusyHoldsJob, MetadataBounded,
              PoliciesFollow, Follows, Right, Tracked, Live, ShardKeys
<1>2. CASE PolicyNext
  BY Zenon, <1>2, GetFollows, ExpireFollows, PutFollows, DeleteFollows, ClearFollows,
     OthersFollow DEF PolicyNext
<1> QED BY Zenon, <1>1, <1>2

\* With any policy, and however puts, evictions, expirations, deletes and
\* clear() interleave, a shard's policy tracks exactly the keys its backend
\* holds: every entry is known to the policy, and no key that is gone.
THEOREM PoliciesTrackEntries == PolicySpec => []PolicyTracksEntries
<1>1. PolicyInit => Inv /\ PoliciesFollow
  BY Zenon, FollowsInit
<1>2. Inv /\ PoliciesFollow /\ [PolicyNext]_policyVars => Inv' /\ PoliciesFollow'
  BY Zenon, FollowsStep
<1>3. PoliciesFollow => PolicyTracksEntries
  BY Zenon DEF PoliciesFollow, Follows, PolicyTracksEntries
<1> QED BY <1>1, <1>2, <1>3, PTL DEF PolicySpec

-----------------------------------------------------------------------------
(* LRU and FIFO implement WriteBack with a policy that spares the newest.  *)

Ordered == Policies \subseteq {"lru", "fifo"}

LEMMA StoredCached ==
    ASSUME Inv, NEW k \in Keys, NEW expired \in BOOLEAN, NEW x \in Keys
    PROVE  Cached(Stored(k, expired)[x]) <=> x = k \/ Cached(slot[x])
<1> DEFINE s == IF expired THEN RemoveEntry(slot[k]) ELSE slot[k]
           w == writes[k] + 1
           t == StoreEntry(s, w)
<1>1. slot \in [Keys -> Slot] /\ Coherent(slot[k]) /\ w \in Nat
  BY DEF Inv, TypeOK, MetadataBounded
<1>2. s \in Slot
  BY Zenon, <1>1, RemoveEntryCoherent DEF Coherent
<1>3. Stored(k, expired)[x] = IF x = k THEN t ELSE slot[x]
  BY Zenon, <1>1 DEF Stored
<1> HIDE DEF s, w
<1>4. Cached(t)
  <2> DEFINE n == NextVersion(s)
  <2>1. n \in Slot /\ n.mark > 0
    BY <1>2 DEF NextVersion, Slot
  <2>2. t = [n EXCEPT !.tomb = 0, !.version = n.mark, !.write = w, !.dirty = TRUE]
    BY Zenon DEF StoreEntry
  <2> HIDE DEF n
  <2>3. t.version = n.mark
    BY Zenon, <2>1, <2>2 DEF Slot
  <2> QED BY Zenon, <2>1, <2>3 DEF Cached
<1> QED BY Zenon, <1>3, <1>4

LEMMA CapacityPositive ==
    ASSUME NEW i \in 1 .. ShardCount
    PROVE  ShardCapacity(i) \in Nat \ {0}
<1>1. /\ TotalCapacity \in Nat /\ ShardCount \in Nat \ {0} /\ TotalCapacity >= ShardCount
  BY Zenon, ConstantsAssumption
<1>2. TotalCapacity \div ShardCount \in Nat \ {0}
  BY <1>1
<1> QED BY <1>2 DEF ShardCapacity

\* The victim of a put() that fills its shard is one older entry.
LEMMA VictimsAreChoices ==
    ASSUME Inv, PoliciesFollow, CapacityHeld, name \in {"lru", "fifo"},
           NEW k \in Keys, NEW expired \in {FALSE, Cached(slot[k])}
    PROVE  /\ Victims(k, expired) \in EvictChoices(Stored(k, expired), k)
           /\ k \notin Victims(k, expired)
<1> DEFINE i == ShardOf[k]
           old == Live(slot, i)
           new == Live(Stored(k, expired), i)
           E == Victims(k, expired)
<1>1. expired \in BOOLEAN
  <2>1. Cached(slot[k]) \in BOOLEAN
    BY DEF Cached
  <2> QED BY Zenon, <2>1
<1>2. i \in 1 .. ShardCount /\ k \in ShardKeys(i)
  BY Zenon, ConstantsAssumption DEF ShardKeys
<1>3. new = old \cup {k}
  BY Zenon, <1>1, StoredCached DEF Live
<1>4. /\ IsFiniteSet(old) /\ Cardinality(old) \in Nat
      /\ IsFiniteSet(new) /\ Cardinality(new) \in Nat
  BY Zenon, LiveFinite
<1>5. ShardCapacity(i) \in Nat \ {0} /\ Cardinality(old) <= ShardCapacity(i)
  BY Zenon, <1>2, CapacityPositive DEF CapacityHeld
<1>6. Full(k, expired) <=> Cardinality(new) > ShardCapacity(i)
  BY Zenon DEF Full
<1>7. EvictChoices(Stored(k, expired), k) =
        {F \in SUBSET new :
            /\ Cardinality(F) = (IF Cardinality(new) - ShardCapacity(i) > 0
                                 THEN Cardinality(new) - ShardCapacity(i) ELSE 0)
            /\ EvictsNewest \/ k \notin F}
  BY Zenon DEF EvictChoices
<1>8. CASE ~Full(k, expired)
  <2>1. E = {}
    BY Zenon, <1>8 DEF Victims
  <2>2. Cardinality({}) = 0
    BY Zenon, FS_EmptySet
  <2> HIDE DEF E, new, i
  <2> QED BY <1>4, <1>5, <1>6, <1>7, <1>8, <2>1, <2>2 DEF E
<1>9. CASE Full(k, expired)
  <2> DEFINE v == EvictCandidate(OnPut(policy[i], k))
  <2>1. k \notin old
    <3>1. SUFFICES ASSUME k \in old PROVE FALSE
      BY Zenon
    <3>2. new = old
      BY Zenon, <1>3, <3>1
    <3> HIDE DEF new, old, i
    <3> QED BY <1>4, <1>5, <1>6, <1>9, <3>2
  <2>2. Cardinality(new) = Cardinality(old) + 1
    BY Zenon, <1>3, <1>4, <2>1, FS_AddElement
  <2>3. Cardinality(new) - ShardCapacity(i) = 1 /\ Cardinality(old) # 0
    <3> HIDE DEF new, old, i
    <3> QED BY <1>4, <1>5, <1>6, <1>9, <2>2
  <2>4. old # {}
    BY Zenon, <2>3, FS_EmptySet
  <2>5. ~expired
    BY Zenon, <2>1 DEF Live
  <2>6. Before(k, expired) = policy[i]
    BY Zenon, <2>5 DEF Before
  <2>7. Right(policy[i], ShardKeys(i)) /\ Tracked(policy[i]) = old
    BY Zenon, <1>2 DEF PoliciesFollow, Follows
  <2>8. v \in old
    BY Zenon, <1>2, <2>1, <2>4, <2>7, CandidateIsOld
  <2>9. v # None /\ v # k
    BY Zenon, <2>1, <2>8, NoneAssumption DEF Live
  <2>10. E = {v}
    BY Zenon, <1>9, <2>6, <2>9 DEF Victims
  <2>11. Cardinality({v}) = 1
    BY Zenon, FS_Singleton
  <2> HIDE DEF v, new, old, i, E
  <2>12. {v} \in SUBSET new /\ k \notin {v}
    BY Zenon, <1>3, <2>8, <2>9
  <2>13. E \in EvictChoices(Stored(k, expired), k) /\ k \notin E
    BY <1>7, <2>3, <2>10, <2>11, <2>12
  <2> QED BY Zenon, <2>13 DEF E
<1> QED BY Zenon, <1>8, <1>9

\* With an ordered policy every step is a step of WriteBack, whatever
\* EvictsNewest is, and the capacity is kept.
LEMMA OrderedPut ==
    ASSUME Ordered, Inv, PoliciesFollow, CapacityHeld, NEW c \in Clients,
           NEW k \in Keys, PolicyPut(c, k)
    PROVE  Put(c, k) /\ CapacityHeld'
<1>1. PICK expired \in {FALSE, Cached(slot[k])} : PutWith(c, k, expired)
  BY Zenon, PolicyPutParts
<1>2. name \in {"lru", "fifo"}
  BY Zenon DEF Ordered, PoliciesFollow
<1>3. Victims(k, expired) \in EvictChoices(Stored(k, expired), k)
  BY Zenon, <1>2, VictimsAreChoices
<1>4. Put(c, k)
  BY Zenon, <1>1, <1>3 DEF PutWith, Put, PutCall
<1> QED BY Zenon, <1>4, PutCapacity

LEMMA OrderedStep ==
    ASSUME Ordered, Inv, PoliciesFollow, CapacityHeld, [PolicyNext]_policyVars
    PROVE  [Next]_vars
<1> SUFFICES ASSUME PolicyNext PROVE [Next]_vars
  BY Zenon DEF policyVars
<1> USE DEF Next, ClientStep, ClientProgress
<1>1. ASSUME NEW c \in Clients, NEW k \in Keys, PolicyPut(c, k)
      PROVE  Next
  BY Zenon, <1>1, OrderedPut
<1>2. ASSUME NEW c \in Clients, NEW k \in Keys, PolicyDelete(c, k)
      PROVE  Next
  BY Zenon, <1>2 DEF PolicyDelete
<1>3. ASSUME NEW c \in Clients, PolicyClearShard(c)
      PROVE  Next
  BY Zenon, <1>3 DEF PolicyClearShard
<1>4. ASSUME NEW k \in Keys, PolicyExpire(k)
      PROVE  Next
  BY Zenon, <1>4 DEF PolicyExpire
<1>5. ASSUME NEW k \in Keys, Get(k)
      PROVE  UNCHANGED vars
  BY Zenon, <1>5 DEF Get
<1>6. ASSUME OtherStep
      PROVE  [Next]_vars
  BY Zenon, <1>6 DEF OtherStep
<1> HIDE DEF Next, ClientStep, ClientProgress
<1> QED BY Zenon, <1>1, <1>2, <1>3, <1>4, <1>5, <1>6 DEF PolicyNext

\* With LRU and FIFO the cache implements WriteBack, in particular with a policy
\* that never evicts the key just put: whatever holds of that cache holds with
\* these two policies.  (With LFU it does not: the key just put may be the
\* victim.)
THEOREM OrderedPoliciesSpareNewest ==
    ASSUME Ordered
    PROVE  PolicySpec => ImplementsWriteBack
<1>1. PolicyInit => Inv /\ PoliciesFollow /\ CapacityHeld /\ Init
  BY Zenon, FollowsInit, CapacityInit DEF PolicyInit
<1>2. Inv /\ PoliciesFollow /\ CapacityHeld /\ [PolicyNext]_policyVars
          => Inv' /\ PoliciesFollow' /\ CapacityHeld' /\ [Next]_vars
  BY Zenon, FollowsStep, OrderedStep, CapacityStep
<1> QED BY <1>1, <1>2, PTL DEF PolicySpec, ImplementsWriteBack, Spec

\* With the LRU or FIFO policy as it is in the code, and one worker, no write
\* is lost silently.  (PolicySpec does not depend on EvictsNewest, which is
\* given the value that describes these policies.)
THEOREM OrderedPoliciesLoseNothing ==
    ASSUME Ordered, ~EvictsNewest, \A v, w \in Workers : v = w
    PROVE  PolicySpec => []NoSilentLoss
BY OrderedPoliciesSpareNewest, NothingLostSilently, PTL DEF ImplementsWriteBack

\* Under the same assumptions a clean entry is what the source of truth holds.
THEOREM OrderedPoliciesPersist ==
    ASSUME Ordered, ~EvictsNewest, \A v, w \in Workers : v = w
    PROVE  PolicySpec => []CleanMeansPersisted
BY OrderedPoliciesSpareNewest, CleanIsPersisted, PTL DEF ImplementsWriteBack

=============================================================================
