---------------------------- MODULE PolicyProofs ----------------------------
(***************************************************************************)
(* Each eviction policy chooses the key that the history of the calls      *)
(* designates, for any set of keys and any number of calls.                *)
(***************************************************************************)
EXTENDS PolicyHistory, SequenceTheorems, WellFoundedInduction, TLAPS

\* The sequence order lists the keys of S, each once, by increasing stamp.
Lists(order, S, stamp) ==
    /\ order \in Seq(Keys)
    /\ ToSet(order) = S
    /\ \A i, j \in 1 .. Len(order) : i < j => stamp[order[i]] < stamp[order[j]]

-----------------------------------------------------------------------------
(* Ordered dictionaries.                                                   *)

LEMMA RemoveAtIndex ==
    ASSUME NEW s \in Seq(Keys), NEW i \in 1 .. Len(s)
    PROVE  /\ RemoveAt(s, i) \in Seq(Keys)
           /\ Len(RemoveAt(s, i)) = Len(s) - 1
           /\ \A j \in 1 .. Len(s) - 1 :
                  RemoveAt(s, i)[j] = IF j < i THEN s[j] ELSE s[j + 1]
<1> DEFINE a == SubSeq(s, 1, i - 1)
           b == SubSeq(s, i + 1, Len(s))
<1>1. Len(s) \in Nat /\ i \in Int
  OBVIOUS
<1>2. /\ a \in Seq(Keys) /\ Len(a) = i - 1
      /\ \A j \in 1 .. i - 1 : a[j] = s[j]
  <2>1. \A j \in 1 .. i - 1 : s[j] \in Keys
    BY <1>1, ElementOfSeq
  <2>2. QED
    BY <2>1, <1>1, SubSeqProperties
<1>3. /\ b \in Seq(Keys) /\ Len(b) = Len(s) - i
      /\ \A j \in 1 .. Len(s) - i : b[j] = s[i + j]
  <2>1. \A j \in i + 1 .. Len(s) : s[j] \in Keys
    BY <1>1, ElementOfSeq
  <2>2. QED
    BY <2>1, <1>1, SubSeqProperties
<1>4. RemoveAt(s, i) = a \o b
  BY Zenon DEF RemoveAt
<1> HIDE DEF a, b
<1>5. /\ a \o b \in Seq(Keys)
      /\ Len(a \o b) = Len(a) + Len(b)
      /\ \A j \in 1 .. Len(a) + Len(b) :
             (a \o b)[j] = IF j <= Len(a) THEN a[j] ELSE b[j - Len(a)]
  BY Zenon, <1>2, <1>3, ConcatProperties
<1> DEFINE c == a \o b
<1> HIDE DEF c
<1>6. /\ c \in Seq(Keys) /\ Len(c) = Len(s) - 1
      /\ \A j \in 1 .. Len(s) - 1 : c[j] = IF j <= i - 1 THEN a[j] ELSE b[j - (i - 1)]
  BY <1>1, <1>2, <1>3, <1>5 DEF c
<1>7. \A j \in 1 .. Len(s) - 1 : c[j] = IF j < i THEN s[j] ELSE s[j + 1]
  <2> TAKE j \in 1 .. Len(s) - 1
  <2>1. CASE j < i
    BY <1>1, <1>2, <1>6, <2>1
  <2>2. CASE ~(j < i)
    <3>1. j - (i - 1) \in 1 .. Len(s) - i /\ i + (j - (i - 1)) = j + 1
      BY <1>1, <2>2
    <3>2. c[j] = b[j - (i - 1)]
      BY <1>1, <1>6, <2>2
    <3>3. QED
      BY Zenon, <1>3, <2>2, <3>1, <3>2
  <2>3. QED
    BY Zenon, <2>1, <2>2
<1>8. QED
  BY Zenon, <1>4, <1>6, <1>7 DEF c

\* Removing a key from an ordered dictionary that has it.
LEMMA RemoveFirstIndex ==
    ASSUME NEW s \in Seq(Keys), NEW i \in 1 .. Len(s),
           \A j \in 1 .. Len(s) : s[j] = s[i] => j = i
    PROVE  RemoveFirst(s, s[i]) = RemoveAt(s, i)
<1> DEFINE I == {j \in 1 .. Len(s) : s[j] = s[i]}
<1>1. I = {i}
  BY Zenon
<1>2. Min(I) = i
  BY <1>1 DEF Min
<1>3. QED
  BY Zenon, <1>1, <1>2 DEF RemoveFirst, SelectInSeq

LEMMA ListsRemove ==
    ASSUME NEW order, NEW S, NEW stamp \in [Keys -> Nat], NEW k \in Keys,
           Lists(order, S, stamp)
    PROVE  Lists(RemoveFirst(order, k), S \ {k}, stamp)
<1>1. order \in Seq(Keys) /\ Len(order) \in Nat /\ DOMAIN order = 1 .. Len(order)
  BY DEF Lists
<1>2. CASE k \notin S
  BY Zenon, <1>1, <1>2 DEF Lists, RemoveFirst, ToSet
<1>3. CASE k \in S
  <2>1. PICK i \in 1 .. Len(order) : order[i] = k
    BY Zenon, <1>1, <1>3 DEF Lists, ToSet
  <2> DEFINE rest == RemoveAt(order, i)
  <2>2. \A j \in 1 .. Len(order) : order[j] = order[i] => j = i
    BY <1>1 DEF Lists
  <2>3. RemoveFirst(order, k) = rest
    BY Zenon, <1>1, <2>1, <2>2, RemoveFirstIndex
  <2>4. /\ rest \in Seq(Keys) /\ Len(rest) = Len(order) - 1
        /\ \A j \in 1 .. Len(order) - 1 :
               rest[j] = IF j < i THEN order[j] ELSE order[j + 1]
    BY Zenon, <1>1, RemoveAtIndex
  <2> HIDE DEF rest
  <2>5. ASSUME NEW m \in 1 .. Len(rest), NEW n \in 1 .. Len(rest), m < n
        PROVE  stamp[rest[m]] < stamp[rest[n]]
    <3> DEFINE At(j) == IF j < i THEN j ELSE j + 1
    <3>1. rest[m] = order[At(m)] /\ rest[n] = order[At(n)]
      BY Zenon, <1>1, <2>4
    <3>2. At(m) \in 1 .. Len(order) /\ At(n) \in 1 .. Len(order) /\ At(m) < At(n)
      BY <1>1, <2>4, <2>5, SMTT(30)
    <3> HIDE DEF At
    <3>3. QED
      BY Zenon, <3>1, <3>2 DEF Lists
  <2>6. ToSet(rest) = S \ {k}
    <3>1. DOMAIN rest = 1 .. Len(order) - 1
      BY <1>1, <2>4
    <3>2. ASSUME NEW j \in 1 .. Len(order) - 1 PROVE rest[j] \in S /\ rest[j] # k
      <4> DEFINE m == IF j < i THEN j ELSE j + 1
      <4>1. m \in 1 .. Len(order) /\ rest[j] = order[m] /\ m # i
        BY <1>1, <2>4
      <4> HIDE DEF m
      <4>2. QED
        BY Zenon, <1>1, <2>1, <2>2, <4>1 DEF Lists, ToSet
    <3>3. ASSUME NEW x \in S \ {k} PROVE x \in ToSet(rest)
      <4>1. PICK j \in 1 .. Len(order) : order[j] = x
        BY Zenon, <1>1 DEF Lists, ToSet
      <4>2. CASE j < i
        <5>1. j \in 1 .. Len(order) - 1 /\ rest[j] = x
          BY <1>1, <4>1, <4>2, <2>4
        <5>2. QED
          BY Zenon, <5>1, <3>1 DEF ToSet
      <4>3. CASE j > i
        <5>1. j - 1 \in 1 .. Len(order) - 1 /\ rest[j - 1] = x
          BY <1>1, <4>1, <4>3, <2>4, SMTT(30)
        <5>2. QED
          BY Zenon, <5>1, <3>1 DEF ToSet
      <4>4. QED
        BY <2>1, <4>1, <4>2, <4>3
    <3>4. QED
      BY Zenon, <3>1, <3>2, <3>3 DEF ToSet
  <2>7. QED
    BY Zenon, <2>3, <2>4, <2>5, <2>6 DEF Lists
<1>4. QED
  BY Zenon, <1>2, <1>3

LEMMA ListsAppend ==
    ASSUME NEW order, NEW S, NEW stamp \in [Keys -> Nat], NEW k \in Keys,
           Lists(order, S, stamp),
           \A x \in S : stamp[x] < stamp[k]
    PROVE  Lists(Append(order, k), S \cup {k}, stamp)
<1> DEFINE longer == Append(order, k)
<1>1. order \in Seq(Keys) /\ Len(order) \in Nat /\ DOMAIN order = 1 .. Len(order)
  BY DEF Lists
<1>2. /\ longer \in Seq(Keys) /\ Len(longer) = Len(order) + 1
      /\ \A i \in 1 .. Len(order) : longer[i] = order[i]
      /\ longer[Len(order) + 1] = k
  BY <1>1, AppendProperties
<1>3. \A i \in 1 .. Len(order) : order[i] \in S
  BY Zenon, <1>1 DEF Lists, ToSet
<1> HIDE DEF longer
<1>4. ASSUME NEW i \in 1 .. Len(longer), NEW j \in 1 .. Len(longer), i < j
      PROVE  stamp[longer[i]] < stamp[longer[j]]
  <2>1. i \in 1 .. Len(order)
    BY <1>1, <1>2, <1>4
  <2>2. CASE j \in 1 .. Len(order)
    BY Zenon, <2>1, <2>2, <1>2, <1>4 DEF Lists
  <2>3. CASE j = Len(order) + 1
    BY Zenon, <2>1, <2>3, <1>2, <1>3
  <2>4. QED
    BY <1>1, <1>2, <2>2, <2>3
<1>5. ToSet(longer) = S \cup {k}
  <2>1. DOMAIN longer = 1 .. Len(order) + 1
    BY <1>1, <1>2
  <2>2. ToSet(longer) \subseteq S \cup {k}
    <3>1. ASSUME NEW i \in DOMAIN longer
          PROVE  i \in 1 .. Len(order) \/ i = Len(order) + 1
      BY <1>1, <2>1
    <3>2. QED
      BY Zenon, <1>2, <1>3, <3>1 DEF ToSet
  <2>3. \A x \in S : \E i \in 1 .. Len(order) : order[i] = x
    BY Zenon, <1>1 DEF Lists, ToSet
  <2>4. S \subseteq ToSet(longer)
    <3>1. \A i \in 1 .. Len(order) : i \in DOMAIN longer
      BY <1>1, <2>1
    <3>2. QED
      BY Zenon, <1>2, <2>3, <3>1 DEF ToSet
  <2>5. k \in ToSet(longer)
    <3>1. Len(order) + 1 \in DOMAIN longer
      BY <1>1, <2>1
    <3>2. QED
      BY Zenon, <1>2, <3>1 DEF ToSet
  <2>6. QED
    BY Zenon, <2>2, <2>4, <2>5
<1>6. QED
  BY Zenon, <1>2, <1>4, <1>5 DEF Lists, longer

\* Only the stamps of the keys that are listed matter.
LEMMA ListsAgree ==
    ASSUME NEW order, NEW S, NEW stamp, NEW other,
           Lists(order, S, stamp), \A x \in S : other[x] = stamp[x]
    PROVE  Lists(order, S, other)
<1>1. order \in Seq(Keys) /\ DOMAIN order = 1 .. Len(order)
  BY DEF Lists
<1>2. \A i \in 1 .. Len(order) : order[i] \in S
  BY Zenon, <1>1 DEF Lists, ToSet
<1>3. QED
  BY Zenon, <1>1, <1>2 DEF Lists

\* The first key of an ordered dictionary is the one with the least stamp.
LEMMA ListsFirst ==
    ASSUME NEW order, NEW S, NEW stamp \in [Keys -> Nat], Lists(order, S, stamp)
    PROVE  IF S = {} THEN First(order) = None
           ELSE /\ First(order) \in S
                /\ \A x \in S \ {First(order)} : stamp[First(order)] < stamp[x]
<1>1. order \in Seq(Keys) /\ Len(order) \in Nat /\ DOMAIN order = 1 .. Len(order)
  BY DEF Lists
<1>2. CASE S = {}
  <2>1. DOMAIN order = {}
    BY Zenon, <1>2 DEF Lists, ToSet
  <2>2. Len(order) = 0
    BY <1>1, <2>1
  <2>3. order = <<>>
    BY Zenon, <1>1, <2>2, EmptySeq
  <2>4. QED
    BY Zenon, <1>2, <2>3 DEF First
<1>3. CASE S # {}
  <2>1. DOMAIN order # {}
    BY Zenon, <1>1, <1>3 DEF Lists, ToSet
  <2>2. order # <<>> /\ Len(order) > 0 /\ First(order) = order[1]
    BY <1>1, <2>1 DEF First
  <2>3. order[1] \in S
    BY <1>1, <2>2 DEF Lists, ToSet
  <2>4. ASSUME NEW x \in S, x # order[1] PROVE stamp[order[1]] < stamp[x]
    <3>1. PICK j \in 1 .. Len(order) : order[j] = x
      BY Zenon, <1>1 DEF Lists, ToSet
    <3>2. 1 < j /\ 1 \in 1 .. Len(order)
      BY <3>1, <2>4, <2>2, <1>1
    <3>3. QED
      BY Zenon, <3>1, <3>2 DEF Lists
  <2>5. QED
    BY Zenon, <1>3, <2>2, <2>3, <2>4
<1>4. QED
  BY Zenon, <1>2, <1>3

-----------------------------------------------------------------------------
(* The buckets of LFUPolicy.                                               *)

\* The keys of S are filed in buckets b, each under its count.
Filed(b, S, count, stamp) ==
    /\ DOMAIN b = {count[k] : k \in S}
    /\ \A f \in DOMAIN b : Lists(b[f], {k \in S : count[k] = f}, stamp)

\* The smallest count of a key in S.
Least(S, count) == IF S = {} THEN 0 ELSE Min({count[k] : k \in S})

LEMMA MinIs ==
    ASSUME NEW N \in SUBSET Nat, NEW m \in N, \A n \in N : m <= n
    PROVE  Min(N) = m
<1>1. \A x \in N : (\A n \in N : x <= n) => x = m
  OBVIOUS
<1>2. QED
  BY Zenon, <1>1 DEF Min

LEMMA MinExists ==
    ASSUME NEW N \in SUBSET Nat, N # {}
    PROVE  Min(N) \in N /\ \A n \in N : Min(N) <= n
<1>1. PICK m \in N : \A n \in N : ~(<<n, m>> \in OpToRel(<, Nat))
  BY Zenon, WFMin, NatLessThanWellFounded
<1>2. ASSUME NEW n \in N PROVE m <= n
  <2>1. n < m => <<n, m>> \in OpToRel(<, Nat)
    <3>1. <<n, m>>[1] = n /\ <<n, m>>[2] = m /\ <<n, m>> \in Nat \X Nat
      BY Zenon
    <3>2. OpToRel(<, Nat) = {ss \in Nat \X Nat : ss[1] < ss[2]}
      BY Zenon DEF OpToRel
    <3>3. QED
      BY Zenon, <3>1, <3>2
  <2>2. ~(n < m)
    BY Zenon, <1>1, <2>1
  <2>3. QED
    BY <2>2
<1>3. QED
  BY Zenon, <1>2, MinIs

LEMMA LeastIs ==
    ASSUME NEW S \in SUBSET Keys, NEW count \in [Keys -> Nat], NEW k \in S,
           \A x \in S : count[k] <= count[x]
    PROVE  Least(S, count) = count[k]
<1> DEFINE N == {count[x] : x \in S}
<1>1. N \in SUBSET Nat /\ count[k] \in N /\ \A n \in N : count[k] <= n
  BY Zenon
<1>2. Min(N) = count[k]
  BY Zenon, <1>1, MinIs
<1>3. QED
  BY Zenon, <1>2 DEF Least

LEMMA LeastExists ==
    ASSUME NEW S \in SUBSET Keys, NEW count \in [Keys -> Nat], S # {}
    PROVE  \E k \in S : Least(S, count) = count[k] /\ \A x \in S : count[k] <= count[x]
<1> DEFINE N == {count[x] : x \in S}
<1>1. N \in SUBSET Nat /\ N # {}
  BY Zenon
<1>2. Min(N) \in N /\ \A n \in N : Min(N) <= n
  BY Zenon, <1>1, MinExists
<1>3. PICK k \in S : Min(N) = count[k]
  BY Zenon, <1>2
<1>4. \A x \in S : count[k] <= count[x]
  BY Zenon, <1>2, <1>3
<1>5. QED
  BY Zenon, <1>3, <1>4 DEF Least

LEMMA FiledAgree ==
    ASSUME NEW b, NEW S, NEW count, NEW stamp, NEW count2, NEW stamp2,
           Filed(b, S, count, stamp),
           \A x \in S : count2[x] = count[x] /\ stamp2[x] = stamp[x]
    PROVE  Filed(b, S, count2, stamp2)
<1>1. DOMAIN b = {count2[k] : k \in S}
  BY Zenon DEF Filed
<1>2. ASSUME NEW f \in DOMAIN b
      PROVE  Lists(b[f], {k \in S : count2[k] = f}, stamp2)
  <2>1. {k \in S : count2[k] = f} = {k \in S : count[k] = f}
    BY Zenon
  <2>2. Lists(b[f], {k \in S : count[k] = f}, stamp)
    BY Zenon DEF Filed
  <2>3. QED
    BY Zenon, <2>1, <2>2, ListsAgree
<1>3. QED
  BY Zenon, <1>1, <1>2 DEF Filed

\* A bucket that is dropped was that of a single key.
LEMMA LeaveFiled ==
    ASSUME NEW b, NEW S \in SUBSET Keys, NEW count, NEW stamp \in [Keys -> Nat],
           NEW k \in S, Filed(b, S, count, stamp)
    PROVE  Filed(LeaveBucket(b, count[k], k), S \ {k}, count, stamp)
<1> DEFINE f == count[k]
           rest == RemoveFirst(b[f], k)
           peers == {x \in S : count[x] = f}
           left == LeaveBucket(b, f, k)
<1>1. f \in DOMAIN b /\ Lists(b[f], peers, stamp)
  BY Zenon DEF Filed
<1>2. Lists(rest, peers \ {k}, stamp)
  BY Zenon, <1>1, ListsRemove
<1>3. rest = <<>> <=> peers = {k}
  <2>1. rest \in Seq(Keys) /\ ToSet(rest) = peers \ {k}
    BY Zenon, <1>2 DEF Lists
  <2>2. rest = <<>> <=> ToSet(rest) = {}
    <3> HIDE DEF rest
    <3>1. ToSet(rest) = {} <=> DOMAIN rest = {}
      BY Zenon DEF ToSet
    <3>2. DOMAIN rest = 1 .. Len(rest) /\ Len(rest) \in Nat
      BY <2>1
    <3>3. DOMAIN rest = {} <=> Len(rest) = 0
      BY <3>2
    <3>4. rest = <<>> <=> Len(rest) = 0
      BY Zenon, <2>1, EmptySeq
    <3>5. QED
      BY Zenon, <3>1, <3>3, <3>4
  <2>3. k \in peers
    BY Zenon
  <2>4. QED
    BY Zenon, <2>1, <2>2, <2>3
<1> HIDE DEF rest
<1>4. CASE rest = <<>>
  <2>1. left = [y \in DOMAIN b \ {f} |-> b[y]]
    BY Zenon, <1>4 DEF LeaveBucket, Restrict, rest
  <2>2. \A x \in S \ {k} : count[x] # f
    BY Zenon, <1>3, <1>4
  <2> HIDE DEF f, left
  <2>3. DOMAIN left = {count[x] : x \in S \ {k}}
    BY Zenon, <2>1, <2>2 DEF Filed, f
  <2>4. ASSUME NEW g \in DOMAIN left
        PROVE  Lists(left[g], {x \in S \ {k} : count[x] = g}, stamp)
    <3>1. g \in DOMAIN b /\ g # f /\ left[g] = b[g]
      BY Zenon, <2>1
    <3>2. {x \in S \ {k} : count[x] = g} = {x \in S : count[x] = g}
      BY Zenon, <3>1 DEF f
    <3>3. QED
      BY Zenon, <3>1, <3>2 DEF Filed
  <2>5. QED
    BY Zenon, <2>3, <2>4 DEF Filed, left, f
<1>5. CASE rest # <<>>
  <2>1. left = [b EXCEPT ![f] = rest]
    BY Zenon, <1>5 DEF LeaveBucket, rest
  <2>2. \E x \in S \ {k} : count[x] = f
    BY <1>3, <1>5
  <2> HIDE DEF f, left
  <2>3. DOMAIN left = {count[x] : x \in S \ {k}}
    BY Zenon, <2>1, <2>2 DEF Filed, f
  <2>4. ASSUME NEW g \in DOMAIN left
        PROVE  Lists(left[g], {x \in S \ {k} : count[x] = g}, stamp)
    <3>1. g \in DOMAIN b
      BY Zenon, <2>1
    <3>2. CASE g = f
      <4>1. {x \in S \ {k} : count[x] = g} = peers \ {k}
        BY Zenon, <3>2
      <4>2. left[g] = rest
        BY Zenon, <2>1, <3>1, <3>2
      <4>3. QED
        BY Zenon, <4>1, <4>2, <1>2
    <3>3. CASE g # f
      <4>1. {x \in S \ {k} : count[x] = g} = {x \in S : count[x] = g}
        BY Zenon, <3>3 DEF f
      <4>2. left[g] = b[g]
        BY Zenon, <2>1, <3>1, <3>3
      <4>3. QED
        BY Zenon, <3>1, <4>1, <4>2 DEF Filed
    <3>4. QED
      BY Zenon, <3>2, <3>3
  <2>5. QED
    BY Zenon, <2>3, <2>4 DEF Filed, left, f
<1>6. QED
  BY Zenon, <1>4, <1>5

LEMMA JoinFiled ==
    ASSUME NEW b, NEW S \in SUBSET Keys, NEW count, NEW stamp \in [Keys -> Nat],
           NEW k \in Keys \ S, Filed(b, S, count, stamp),
           \A x \in S : stamp[x] < stamp[k]
    PROVE  Filed(JoinBucket(b, count[k], k), S \cup {k}, count, stamp)
<1> DEFINE f == count[k]
           peers == {x \in S : count[x] = f}
           longer == Append(Bucket(b, f), k)
           joined == JoinBucket(b, f, k)
<1>1. Lists(Bucket(b, f), peers, stamp)
  <2>1. CASE f \in DOMAIN b
    BY Zenon, <2>1 DEF Filed, Bucket
  <2>2. CASE f \notin DOMAIN b
    <3>1. peers = {}
      BY Zenon, <2>2 DEF Filed
    <3>2. Bucket(b, f) = <<>>
      BY Zenon, <2>2 DEF Bucket
    <3>3. Lists(<<>>, {}, stamp)
      BY EmptySeq DEF Lists, ToSet
    <3>4. QED
      BY Zenon, <3>1, <3>2, <3>3
  <2>3. QED
    BY Zenon, <2>1, <2>2
<1>2. Lists(longer, peers \cup {k}, stamp)
  BY Zenon, <1>1, ListsAppend
<1>3. joined = [y \in DOMAIN b \cup {f} |-> IF y = f THEN longer ELSE b[y]]
  BY Zenon DEF JoinBucket, SetAt
<1>4. peers \cup {k} = {x \in S \cup {k} : count[x] = f}
  BY Zenon
<1> HIDE DEF longer, joined
<1>5. DOMAIN joined = {count[x] : x \in S \cup {k}}
  BY Zenon, <1>3 DEF Filed
<1>6. ASSUME NEW g \in DOMAIN joined
      PROVE  Lists(joined[g], {x \in S \cup {k} : count[x] = g}, stamp)
  <2>1. CASE g = f
    BY Zenon, <2>1, <1>2, <1>3, <1>4
  <2>2. CASE g # f
    <3>1. g \in DOMAIN b /\ joined[g] = b[g]
      BY Zenon, <1>3, <2>2
    <3>2. {x \in S \cup {k} : count[x] = g} = {x \in S : count[x] = g}
      BY Zenon, <2>2
    <3>3. QED
      BY Zenon, <3>1, <3>2 DEF Filed
  <2>3. QED
    BY Zenon, <2>1, <2>2
<1>7. QED
  BY Zenon, <1>5, <1>6 DEF Filed, joined

\* The bookkeeping p of LFUPolicy is right: S are its keys.
LfuRight(p, S, count, stamp) ==
    /\ p.freq = [k \in S |-> count[k]]
    /\ Filed(p.buckets, S, count, stamp)
    /\ p.min = Least(S, count)

\* _bump
LEMMA BumpRight ==
    ASSUME NEW p, NEW S \in SUBSET Keys, NEW count \in [Keys -> Nat],
           NEW stamp \in [Keys -> Nat], NEW k \in S, NEW t \in Nat,
           LfuRight(p, S, count, stamp), \A x \in S : stamp[x] < t
    PROVE  LfuRight(LfuBump(p, k), S, [count EXCEPT ![k] = @ + 1],
                    [stamp EXCEPT ![k] = t])
<1> DEFINE old == count[k]
           left == LeaveBucket(p.buckets, old, k)
           count2 == [count EXCEPT ![k] = @ + 1]
           stamp2 == [stamp EXCEPT ![k] = t]
           q == LfuBump(p, k)
<1>1. k \in Keys /\ old \in Nat /\ p.freq[k] = old
  BY Zenon DEF LfuRight
<1>2. /\ count2 \in [Keys -> Nat] /\ count2[k] = old + 1
      /\ \A x \in Keys \ {k} : count2[x] = count[x]
  BY <1>1
<1>3. /\ stamp2 \in [Keys -> Nat] /\ stamp2[k] = t
      /\ \A x \in Keys \ {k} : stamp2[x] = stamp[x]
  BY Zenon, <1>1
<1>4. Filed(left, S \ {k}, count, stamp)
  BY Zenon, LeaveFiled DEF LfuRight
<1> HIDE DEF left, count2, stamp2
<1>5. Filed(left, S \ {k}, count2, stamp2)
  BY <1>2, <1>3, <1>4, FiledAgree
<1>6. \A x \in S \ {k} : stamp2[x] < stamp2[k]
  BY Zenon, <1>3
<1>7. Filed(JoinBucket(left, count2[k], k), (S \ {k}) \cup {k}, count2, stamp2)
  BY Zenon, <1>1, <1>2, <1>3, <1>5, <1>6, JoinFiled
<1>8. (S \ {k}) \cup {k} = S
  BY Zenon
<1>9. /\ q.freq = SetAt(p.freq, k, old + 1)
      /\ q.buckets = JoinBucket(left, old + 1, k)
      /\ q.min = MinAfterBump(p.min, old, left)
  BY Zenon, <1>1 DEF LfuBump, left
<1>10. q.freq = [x \in S |-> count2[x]]
  BY <1>1, <1>2, <1>9 DEF LfuRight, SetAt
<1>11. q.min = Least(S, count2)
  <2>1. PICK m \in S : Least(S, count) = count[m] /\ \A x \in S : count[m] <= count[x]
    BY Zenon, LeastExists
  <2>2. p.min = count[m]
    BY Zenon, <2>1 DEF LfuRight
  <2>3. old \notin DOMAIN left <=> \A x \in S \ {k} : count[x] # old
    BY Zenon, <1>4 DEF Filed
  <2>4. CASE old \notin DOMAIN left /\ p.min = old
    <3>1. q.min = count2[k]
      BY Zenon, <1>2, <1>9, <2>4 DEF MinAfterBump
    <3>2. ASSUME NEW x \in S PROVE count2[k] <= count2[x]
      <4>1. CASE x = k
        BY <1>2, <1>1, <4>1
      <4>2. CASE x # k
        <5>1. count[x] # old /\ old <= count[x] /\ count[x] \in Nat
          BY Zenon, <2>1, <2>2, <2>3, <2>4, <4>2
        <5>2. QED
          BY <5>1, <1>1, <1>2, <4>2
      <4>3. QED
        BY Zenon, <4>1, <4>2
    <3>3. QED
      BY Zenon, <1>2, <3>1, <3>2, LeastIs
  <2>5. CASE ~(old \notin DOMAIN left /\ p.min = old)
    <3>1. q.min = p.min
      BY Zenon, <1>9, <2>5 DEF MinAfterBump
    <3>2. PICK n \in S \ {k} : count[n] = count[m]
      BY Zenon, <2>2, <2>3, <2>5
    <3>3. ASSUME NEW x \in S PROVE count2[n] <= count2[x]
      <4>1. count2[n] = count[m] /\ count[m] <= count[x] /\ count[x] \in Nat
        BY Zenon, <1>2, <2>1, <3>2
      <4>2. count[x] <= count2[x]
        BY <1>1, <1>2, <4>1
      <4>3. QED
        BY <1>2, <4>1, <4>2
    <3>4. QED
      BY Zenon, <1>2, <2>2, <3>1, <3>2, <3>3, LeastIs
  <2>6. QED
    BY Zenon, <2>4, <2>5
<1>12. QED
  BY Zenon, <1>2, <1>7, <1>8, <1>9, <1>10, <1>11 DEF LfuRight, count2, stamp2

\* on_put of a key that is new.
LEMMA InsertRight ==
    ASSUME NEW p, NEW S \in SUBSET Keys, NEW count \in [Keys -> Nat],
           NEW stamp \in [Keys -> Nat], NEW k \in Keys \ S, NEW t \in Nat,
           LfuRight(p, S, count, stamp), \A x \in S : stamp[x] < t,
           count[k] = 0, \A x \in S : count[x] > 0
    PROVE  LfuRight(LfuOnPut(p, k), S \cup {k}, [count EXCEPT ![k] = @ + 1],
                    [stamp EXCEPT ![k] = t])
<1> DEFINE count2 == [count EXCEPT ![k] = @ + 1]
           stamp2 == [stamp EXCEPT ![k] = t]
           q == LfuOnPut(p, k)
<1>1. /\ count2 \in [Keys -> Nat] /\ count2[k] = 1
      /\ \A x \in Keys \ {k} : count2[x] = count[x]
  OBVIOUS
<1>2. /\ stamp2 \in [Keys -> Nat] /\ stamp2[k] = t
      /\ \A x \in Keys \ {k} : stamp2[x] = stamp[x]
  BY Zenon
<1> HIDE DEF count2, stamp2
<1>3. Filed(p.buckets, S, count2, stamp2)
  <2>1. \A x \in S : count2[x] = count[x] /\ stamp2[x] = stamp[x]
    BY Zenon, <1>1, <1>2
  <2>2. Filed(p.buckets, S, count, stamp)
    BY Zenon DEF LfuRight
  <2>3. QED
    BY Zenon, <2>1, <2>2, FiledAgree
<1>4. \A x \in S : stamp2[x] < stamp2[k]
  BY Zenon, <1>2
<1>5. Filed(JoinBucket(p.buckets, count2[k], k), S \cup {k}, count2, stamp2)
  BY Zenon, <1>2, <1>3, <1>4, JoinFiled
<1>6. DOMAIN p.freq = S
  BY Zenon DEF LfuRight
<1>7. /\ q.freq = SetAt(p.freq, k, 1)
      /\ q.buckets = JoinBucket(p.buckets, 1, k)
      /\ q.min = 1
  BY Zenon, <1>6 DEF LfuOnPut, LfuKeys
<1>8. q.freq = [x \in S \cup {k} |-> count2[x]]
  BY <1>1, <1>6, <1>7 DEF LfuRight, SetAt
<1>9. Least(S \cup {k}, count2) = count2[k]
  <2>1. \A x \in S \cup {k} : count2[k] <= count2[x]
    BY <1>1
  <2>2. QED
    BY <1>1, <2>1, LeastIs
<1>10. QED
  BY Zenon, <1>1, <1>5, <1>7, <1>8, <1>9 DEF LfuRight, count2, stamp2

\* on_delete of a key that is there.
LEMMA DeleteRight ==
    ASSUME NEW p, NEW S \in SUBSET Keys, NEW count \in [Keys -> Nat],
           NEW stamp \in [Keys -> Nat], NEW k \in S,
           LfuRight(p, S, count, stamp)
    PROVE  LfuRight(LfuOnDelete(p, k), S \ {k}, [count EXCEPT ![k] = 0],
                    [stamp EXCEPT ![k] = 0])
<1> DEFINE f == count[k]
           left == LeaveBucket(p.buckets, f, k)
           T == S \ {k}
           count2 == [count EXCEPT ![k] = 0]
           stamp2 == [stamp EXCEPT ![k] = 0]
           q == LfuOnDelete(p, k)
<1>1. k \in Keys /\ f \in Nat /\ p.freq[k] = f /\ DOMAIN p.freq = S
  BY Zenon DEF LfuRight
<1>2. /\ count2 \in [Keys -> Nat]
      /\ \A x \in T : count2[x] = count[x] /\ stamp2[x] = stamp[x]
  BY Zenon, <1>1
<1>3. Filed(left, T, count, stamp)
  BY Zenon, LeaveFiled DEF LfuRight
<1>4. /\ q.freq = Restrict(p.freq, T)
      /\ q.buckets = left
      /\ q.min = MinAfterDelete(p.min, f, left)
  BY Zenon, <1>1 DEF LfuOnDelete, LfuKeys
<1> HIDE DEF left, count2, stamp2, q
<1>5. Filed(left, T, count2, stamp2)
  BY Zenon, <1>2, <1>3, FiledAgree
<1>6. q.freq = [x \in T |-> count2[x]]
  BY <1>2, <1>4 DEF LfuRight, Restrict
<1>7. q.min = Least(T, count2)
  <2>1. PICK m \in S : Least(S, count) = count[m] /\ \A x \in S : count[m] <= count[x]
    BY Zenon, LeastExists
  <2>2. p.min = count[m]
    BY Zenon, <2>1 DEF LfuRight
  <2>3. DOMAIN left = {count2[x] : x \in T}
    BY Zenon, <1>5 DEF Filed
  <2>4. CASE f \notin DOMAIN left /\ p.min = f
    <3>1. DOMAIN left = {} <=> T = {}
      <4> HIDE DEF T
      <4>1. \A x \in T : count2[x] \in DOMAIN left
        BY Zenon, <2>3
      <4>2. \A g \in DOMAIN left : \E x \in T : g = count2[x]
        BY Zenon, <2>3
      <4>3. QED
        BY <4>1, <4>2, Zenon
    <3>2. QED
      BY Zenon, <1>4, <2>3, <2>4, <3>1 DEF MinAfterDelete, Least
  <2>5. CASE ~(f \notin DOMAIN left /\ p.min = f)
    <3>1. q.min = p.min
      BY Zenon, <1>4, <2>5 DEF MinAfterDelete
    <3>2. PICK n \in T : count[n] = count[m]
      <4>1. CASE f \in DOMAIN left /\ p.min = f
        BY <1>2, <2>2, <2>3, <4>1
      <4>2. CASE p.min # f
        BY Zenon, <2>2, <4>2
      <4>3. QED
        BY Zenon, <2>5, <4>1, <4>2
    <3>3. \A x \in T : count2[n] <= count2[x]
      BY Zenon, <1>2, <2>1, <3>2
    <3>4. T \in SUBSET Keys
      BY Zenon
    <3>5. Least(T, count2) = count2[n]
      BY Zenon, <1>2, <3>3, <3>4, LeastIs
    <3>6. QED
      BY Zenon, <1>2, <2>2, <3>1, <3>2, <3>5
  <2>6. QED
    BY Zenon, <2>4, <2>5
<1>8. QED
  BY Zenon, <1>4, <1>5, <1>6, <1>7 DEF LfuRight, count2, stamp2, q

-----------------------------------------------------------------------------
(* The policies and the history of their calls.                            *)

\* The history knows of the same keys in its three maps, and of nothing later
\* than the last call.
HistoryOK ==
    /\ calls \in 0 .. MaxCalls
    /\ inserted \in [Keys -> Nat] /\ used \in [Keys -> Nat] /\ uses \in [Keys -> Nat]
    /\ \A k \in Keys : /\ inserted[k] <= calls /\ used[k] <= calls
                       /\ inserted[k] > 0 <=> uses[k] > 0

PolicyInv ==
    /\ HistoryOK
    /\ Lists(lru, Present, used)
    /\ Lists(fifo, Present, inserted)
    /\ LfuRight(lfu, Present, uses, used)

LEMMA NothingListed ==
    ASSUME NEW S, S = {}
    PROVE  /\ \A stamp : Lists(<<>>, S, stamp)
           /\ \A count, stamp : LfuRight(LfuInit, S, count, stamp)
<1>1. <<>> \in Seq(Keys) /\ DOMAIN <<>> = {} /\ Len(<<>>) = 0
  BY EmptySeq
<1>2. \A stamp : Lists(<<>>, S, stamp)
  BY <1>1 DEF Lists, ToSet
<1>3. ASSUME NEW count, NEW stamp
      PROVE  LfuRight(LfuInit, S, count, stamp)
  <2>1. <<>> = [k \in S |-> count[k]]
    BY <1>1
  <2>2. Filed(<<>>, S, count, stamp)
    BY Zenon, <1>1 DEF Filed
  <2>3. QED
    BY Zenon, <2>1, <2>2 DEF LfuRight, LfuInit, Least
<1>4. QED
  BY Zenon, <1>2, <1>3

LEMMA PolicyInit == Init => PolicyInv
<1> SUFFICES ASSUME Init PROVE PolicyInv
  BY Zenon
<1>1. HistoryOK /\ Present = {}
  BY MaxCallsAssumption DEF Init, HistoryOK, Zero, Present
<1>2. QED
  BY Zenon, <1>1, NothingListed DEF Init, PolicyInv, LruInit, FifoInit

\* What every call leaves to the policies: stamps that are still to come.
LEMMA TimeGoesOn ==
    ASSUME PolicyInv, Tick
    PROVE  /\ calls' \in Nat /\ calls' > 0 /\ calls' \in 0 .. MaxCalls
           /\ \A x \in Keys : used[x] < calls' /\ inserted[x] < calls'
           /\ Present \in SUBSET Keys
           /\ \A x \in Present : uses[x] > 0 /\ inserted[x] > 0
           /\ \A x \in Keys \ Present : uses[x] = 0 /\ inserted[x] = 0
BY MaxCallsAssumption DEF PolicyInv, HistoryOK, Tick, Present

\* A use of key k at time t makes it the last of an order by last use.
LEMMA ListsMove ==
    ASSUME NEW order, NEW S \in SUBSET Keys, NEW stamp \in [Keys -> Nat],
           NEW k \in Keys, NEW t \in Nat, Lists(order, S, stamp),
           \A x \in S : stamp[x] < t
    PROVE  Lists(MoveToEnd(order, k), S \cup {k}, [stamp EXCEPT ![k] = t])
<1> DEFINE stamp2 == [stamp EXCEPT ![k] = t]
<1>1. /\ stamp2 \in [Keys -> Nat] /\ stamp2[k] = t
      /\ \A x \in S \ {k} : stamp2[x] = stamp[x]
  BY Zenon
<1> HIDE DEF stamp2
<1>2. Lists(RemoveFirst(order, k), S \ {k}, stamp)
  BY Zenon, ListsRemove
<1>3. Lists(RemoveFirst(order, k), S \ {k}, stamp2)
  BY Zenon, <1>1, <1>2, ListsAgree
<1>4. \A x \in S \ {k} : stamp2[x] < stamp2[k]
  BY Zenon, <1>1
<1>5. Lists(Append(RemoveFirst(order, k), k), (S \ {k}) \cup {k}, stamp2)
  BY Zenon, <1>1, <1>3, <1>4, ListsAppend
<1>6. (S \ {k}) \cup {k} = S \cup {k}
  BY Zenon
<1>7. QED
  BY Zenon, <1>5, <1>6 DEF MoveToEnd, stamp2

LEMMA ListsContains ==
    ASSUME NEW order, NEW S, NEW stamp, Lists(order, S, stamp), NEW k
    PROVE  Contains(order, k) <=> k \in S
<1>1. order \in Seq(Keys) /\ DOMAIN order = 1 .. Len(order) /\ ToSet(order) = S
  BY DEF Lists
<1>2. QED
  BY Zenon, <1>1 DEF Contains, ToSet

LEMMA OnGetInv ==
    ASSUME PolicyInv, NEW k \in Keys, OnGet(k)
    PROVE  PolicyInv'
<1>1. Tick /\ inserted' = inserted /\ fifo' = fifo
  BY Zenon DEF OnGet, FifoOnGet
<1>2. Present' = Present
  BY Zenon, <1>1 DEF Present
<1>3. /\ calls' \in Nat /\ calls' \in 0 .. MaxCalls
      /\ \A x \in Keys : used[x] < calls' /\ inserted[x] < calls'
      /\ Present \in SUBSET Keys
      /\ \A x \in Present : uses[x] > 0
      /\ \A x \in Keys \ Present : uses[x] = 0
  BY Zenon, <1>1, TimeGoesOn
<1>4. used \in [Keys -> Nat] /\ uses \in [Keys -> Nat] /\ inserted \in [Keys -> Nat]
  BY Zenon DEF PolicyInv, HistoryOK
<1>5. /\ Lists(lru, Present, used) /\ Lists(fifo, Present, inserted)
      /\ LfuRight(lfu, Present, uses, used)
      /\ \A x \in Keys : inserted[x] > 0 <=> uses[x] > 0
  BY Zenon DEF PolicyInv, HistoryOK
<1>6. (Contains(lru, k) <=> k \in Present) /\ (k \in LfuKeys(lfu) <=> k \in Present)
  BY Zenon, <1>5, ListsContains DEF LfuRight, LfuKeys
<1>7. CASE k \notin Present
  <2>1. used' = used /\ uses' = uses
    BY <1>3, <1>7 DEF OnGet
  <2>2. lru' = lru /\ lfu' = lfu
    BY Zenon, <1>6, <1>7 DEF OnGet, LruOnGet, LfuOnGet
  <2>3. HistoryOK'
    BY <1>1, <1>3, <1>4, <1>5, <2>1 DEF HistoryOK
  <2>4. QED
    BY Zenon, <1>1, <1>2, <1>5, <2>1, <2>2, <2>3 DEF PolicyInv
<1>8. CASE k \in Present
  <2>1. used' = [used EXCEPT ![k] = calls'] /\ uses' = [uses EXCEPT ![k] = @ + 1]
    BY <1>3, <1>8 DEF OnGet
  <2>2. lru' = MoveToEnd(lru, k) /\ lfu' = LfuBump(lfu, k)
    BY Zenon, <1>6, <1>8 DEF OnGet, LruOnGet, LfuOnGet
  <2>3. HistoryOK'
    <3>1. used' \in [Keys -> Nat] /\ uses' \in [Keys -> Nat]
      BY <1>3, <1>4, <2>1
    <3>2. ASSUME NEW x \in Keys
          PROVE  /\ inserted'[x] <= calls' /\ used'[x] <= calls'
                 /\ inserted'[x] > 0 <=> uses'[x] > 0
      BY <1>1, <1>3, <1>4, <1>5, <1>8, <2>1
    <3>3. QED
      BY Zenon, <1>1, <1>3, <1>4, <3>1, <3>2 DEF HistoryOK
  <2>4. Lists(lru', Present, used')
    <3>1. Lists(lru', Present \cup {k}, used')
      BY Zenon, <1>3, <1>4, <1>5, <2>1, <2>2, ListsMove
    <3>2. Present \cup {k} = Present
      BY Zenon, <1>8
    <3>3. QED
      BY Zenon, <3>1, <3>2
  <2>5. LfuRight(lfu', Present, uses', used')
    BY Zenon, <1>3, <1>4, <1>5, <1>8, <2>1, <2>2, BumpRight
  <2>6. QED
    BY Zenon, <1>1, <1>2, <1>5, <2>3, <2>4, <2>5 DEF PolicyInv
<1>9. QED
  BY Zenon, <1>7, <1>8

LEMMA OnPutInv ==
    ASSUME PolicyInv, NEW k \in Keys, OnPut(k)
    PROVE  PolicyInv'
<1>1. /\ Tick /\ used' = [used EXCEPT ![k] = calls']
      /\ uses' = [uses EXCEPT ![k] = @ + 1]
      /\ inserted' = [inserted EXCEPT ![k] = IF @ = 0 THEN calls' ELSE @]
  BY Zenon DEF OnPut
<1>2. /\ calls' \in Nat /\ calls' > 0 /\ calls' \in 0 .. MaxCalls
      /\ \A x \in Keys : used[x] < calls' /\ inserted[x] < calls'
      /\ Present \in SUBSET Keys
      /\ \A x \in Present : uses[x] > 0 /\ inserted[x] > 0
      /\ \A x \in Keys \ Present : uses[x] = 0 /\ inserted[x] = 0
  BY Zenon, <1>1, TimeGoesOn
<1>3. used \in [Keys -> Nat] /\ uses \in [Keys -> Nat] /\ inserted \in [Keys -> Nat]
  BY Zenon DEF PolicyInv, HistoryOK
<1>4. /\ Lists(lru, Present, used) /\ Lists(fifo, Present, inserted)
      /\ LfuRight(lfu, Present, uses, used)
      /\ \A x \in Keys : inserted[x] > 0 <=> uses[x] > 0
  BY Zenon DEF PolicyInv, HistoryOK
<1>5. inserted' \in [Keys -> Nat] /\ used' \in [Keys -> Nat] /\ uses' \in [Keys -> Nat]
  BY <1>1, <1>2, <1>3
<1>6. Present' = Present \cup {k}
  BY Zenon, <1>1, <1>2, <1>3 DEF Present
<1>7. HistoryOK'
  <2>1. ASSUME NEW x \in Keys
        PROVE  /\ inserted'[x] <= calls' /\ used'[x] <= calls'
               /\ inserted'[x] > 0 <=> uses'[x] > 0
    BY <1>1, <1>2, <1>3, <1>4
  <2>2. QED
    BY Zenon, <1>2, <1>5, <2>1 DEF HistoryOK
<1>8. Lists(lru', Present', used')
  <2>1. lru' = MoveToEnd(lru, k)
    BY Zenon DEF OnPut, LruOnPut
  <2>2. \A x \in Present : used[x] < calls'
    BY Zenon, <1>2
  <2>3. Lists(MoveToEnd(lru, k), Present \cup {k}, [used EXCEPT ![k] = calls'])
    BY Zenon, <1>2, <1>3, <1>4, <2>2, ListsMove
  <2>4. QED
    BY Zenon, <1>1, <1>6, <2>1, <2>3
<1>9. CASE k \in Present
  <2>1. Present' = Present /\ inserted' = inserted
    BY <1>1, <1>2, <1>3, <1>6, <1>9
  <2>2. fifo' = fifo
    BY Zenon, <1>4, <1>9, ListsContains DEF OnPut, FifoOnPut
  <2>3. lfu' = LfuBump(lfu, k)
    BY Zenon, <1>4, <1>9 DEF OnPut, LfuOnPut, LfuKeys, LfuRight
  <2>4. LfuRight(lfu', Present', uses', used')
    BY Zenon, <1>1, <1>2, <1>3, <1>4, <1>9, <2>1, <2>3, BumpRight
  <2>5. QED
    BY Zenon, <1>4, <1>7, <1>8, <2>1, <2>2, <2>4 DEF PolicyInv
<1>10. CASE k \notin Present
  <2>1. fifo' = Append(fifo, k)
    BY Zenon, <1>4, <1>10, ListsContains DEF OnPut, FifoOnPut
  <2>2. inserted'[k] = calls' /\ \A x \in Present : inserted'[x] = inserted[x]
    BY Zenon, <1>1, <1>2, <1>3, <1>10
  <2>3. Lists(fifo, Present, inserted')
    BY Zenon, <1>4, <2>2, ListsAgree
  <2>4. \A x \in Present : inserted'[x] < inserted'[k]
    BY Zenon, <1>2, <2>2
  <2>5. Lists(fifo', Present', inserted')
    BY Zenon, <1>5, <1>6, <2>1, <2>3, <2>4, ListsAppend
  <2>6. LfuRight(lfu', Present', uses', used')
    <3>1. lfu' = LfuOnPut(lfu, k)
      BY Zenon DEF OnPut
    <3>2. \A x \in Present : used[x] < calls'
      BY Zenon, <1>2
    <3>3. uses[k] = 0 /\ k \in Keys \ Present
      BY Zenon, <1>2, <1>10
    <3>4. LfuRight(LfuOnPut(lfu, k), Present \cup {k}, [uses EXCEPT ![k] = @ + 1],
                   [used EXCEPT ![k] = calls'])
      BY Zenon, <1>2, <1>3, <1>4, <3>2, <3>3, InsertRight
    <3>5. QED
      BY Zenon, <1>1, <1>6, <3>1, <3>4
  <2>7. QED
    BY Zenon, <1>7, <1>8, <2>5, <2>6 DEF PolicyInv
<1>11. QED
  BY Zenon, <1>9, <1>10

LEMMA OnDeleteInv ==
    ASSUME PolicyInv, NEW k \in Keys, OnDelete(k)
    PROVE  PolicyInv'
<1>1. /\ Tick /\ used' = [used EXCEPT ![k] = 0]
      /\ uses' = [uses EXCEPT ![k] = 0]
      /\ inserted' = [inserted EXCEPT ![k] = 0]
  BY Zenon DEF OnDelete
<1>2. /\ calls' \in 0 .. MaxCalls
      /\ \A x \in Keys : used[x] < calls' /\ inserted[x] < calls'
      /\ Present \in SUBSET Keys /\ calls' \in Nat
  BY Zenon, <1>1, TimeGoesOn
<1>3. used \in [Keys -> Nat] /\ uses \in [Keys -> Nat] /\ inserted \in [Keys -> Nat]
  BY Zenon DEF PolicyInv, HistoryOK
<1>4. /\ Lists(lru, Present, used) /\ Lists(fifo, Present, inserted)
      /\ LfuRight(lfu, Present, uses, used)
      /\ \A x \in Keys : inserted[x] > 0 <=> uses[x] > 0
  BY Zenon DEF PolicyInv, HistoryOK
<1>5. Present' = Present \ {k}
  BY <1>1, <1>3 DEF Present
<1>6. HistoryOK'
  <2>1. inserted' \in [Keys -> Nat] /\ used' \in [Keys -> Nat] /\ uses' \in [Keys -> Nat]
    BY Zenon, <1>1, <1>3
  <2>2. ASSUME NEW x \in Keys
        PROVE  /\ inserted'[x] <= calls' /\ used'[x] <= calls'
               /\ inserted'[x] > 0 <=> uses'[x] > 0
    BY <1>1, <1>2, <1>3, <1>4
  <2>3. QED
    BY Zenon, <1>2, <2>1, <2>2 DEF HistoryOK
<1>7. \A x \in Present \ {k} : /\ used'[x] = used[x] /\ uses'[x] = uses[x]
                               /\ inserted'[x] = inserted[x]
  BY Zenon, <1>1, <1>2, <1>3
<1>8. Lists(lru', Present', used')
  <2>1. Lists(RemoveFirst(lru, k), Present \ {k}, used)
    BY Zenon, <1>3, <1>4, ListsRemove
  <2>2. Lists(RemoveFirst(lru, k), Present \ {k}, used')
    BY Zenon, <1>7, <2>1, ListsAgree
  <2>3. QED
    BY Zenon, <1>5, <2>2 DEF OnDelete, LruOnDelete
<1>9. Lists(fifo', Present', inserted')
  <2>1. Lists(RemoveFirst(fifo, k), Present \ {k}, inserted)
    BY Zenon, <1>3, <1>4, ListsRemove
  <2>2. Lists(RemoveFirst(fifo, k), Present \ {k}, inserted')
    BY Zenon, <1>7, <2>1, ListsAgree
  <2>3. QED
    BY Zenon, <1>5, <2>2 DEF OnDelete, FifoOnDelete
<1>10. LfuRight(lfu', Present', uses', used')
  <2>1. CASE k \in Present
    <3>1. lfu' = LfuOnDelete(lfu, k)
      BY Zenon DEF OnDelete
    <3>2. LfuRight(LfuOnDelete(lfu, k), Present \ {k}, [uses EXCEPT ![k] = 0],
                   [used EXCEPT ![k] = 0])
      BY Zenon, <1>2, <1>3, <1>4, <2>1, DeleteRight
    <3>3. QED
      BY Zenon, <1>1, <1>5, <3>1, <3>2
  <2>2. CASE k \notin Present
    <3>1. lfu' = lfu /\ Present' = Present
      BY Zenon, <1>4, <1>5, <2>2 DEF OnDelete, LfuOnDelete, LfuKeys, LfuRight
    <3>2. \A x \in Present : used'[x] = used[x] /\ uses'[x] = uses[x]
      BY Zenon, <1>7, <2>2
    <3>3. Filed(lfu.buckets, Present, uses', used')
      BY <1>4, <3>2, FiledAgree DEF LfuRight
    <3>4. {uses'[x] : x \in Present} = {uses[x] : x \in Present}
      BY Zenon, <3>2
    <3>5. QED
      BY Zenon, <1>4, <3>1, <3>2, <3>3, <3>4 DEF LfuRight, Least
  <2>3. QED
    BY Zenon, <2>1, <2>2
<1>11. QED
  BY Zenon, <1>6, <1>8, <1>9, <1>10 DEF PolicyInv

LEMMA ClearInv ==
    ASSUME PolicyInv, Clear
    PROVE  PolicyInv'
<1>1. calls' \in 0 .. MaxCalls /\ calls' \in Nat
  BY Zenon, TimeGoesOn DEF Clear
<1>2. HistoryOK' /\ Present' = {}
  BY <1>1 DEF Clear, HistoryOK, Zero, Present
<1>3. QED
  BY Zenon, <1>2, NothingListed DEF Clear, PolicyInv, LruInit, FifoInit

LEMMA PolicyStep == PolicyInv /\ [Next]_vars => PolicyInv'
<1> SUFFICES ASSUME PolicyInv, [Next]_vars PROVE PolicyInv'
  BY Zenon
<1>1. CASE \E k \in Keys : OnGet(k) \/ OnPut(k) \/ OnDelete(k)
  BY Zenon, <1>1, OnGetInv, OnPutInv, OnDeleteInv
<1>2. CASE Clear
  BY Zenon, <1>2, ClearInv
<1>3. CASE Done \/ UNCHANGED vars
  <2>1. UNCHANGED vars
    BY Zenon, <1>3 DEF Done
  <2>2. Present' = Present /\ HistoryOK'
    BY Zenon, <2>1 DEF PolicyInv, HistoryOK, Present, vars
  <2>3. QED
    BY Zenon, <2>1, <2>2 DEF PolicyInv, vars
<1>4. QED
  BY Zenon, <1>1, <1>2, <1>3 DEF Next

LEMMA PoliciesRight == Spec => []PolicyInv
<1>1. QED
  BY PolicyInit, PolicyStep, PTL DEF Spec

\* The bookkeeping of the three policies and of the history has its types.
THEOREM PolicyTypes == Spec => []TypeOK
<1>1. PolicyInv => TypeOK
  <2> SUFFICES ASSUME PolicyInv PROVE TypeOK
    BY Zenon
  <2>1. HistoryOK /\ lru \in Seq(Keys) /\ fifo \in Seq(Keys)
    BY Zenon DEF PolicyInv, Lists
  <2>2. LfuRight(lfu, Present, uses, used) /\ Present \subseteq Keys
    BY Zenon DEF PolicyInv, Present
  <2>3. /\ LfuKeys(lfu) = Present
        /\ \A k \in Present : uses[k] \in Nat \ {0}
    BY <2>1, <2>2 DEF LfuRight, LfuKeys, HistoryOK, Present
  <2>4. lfu.freq \in [LfuKeys(lfu) -> Nat \ {0}]
    BY Zenon, <2>2, <2>3 DEF LfuRight
  <2>5. \A f \in DOMAIN lfu.buckets : f \in Nat /\ lfu.buckets[f] \in Seq(Keys)
    BY Zenon, <2>2, <2>3 DEF LfuRight, Filed, Lists
  <2>6. lfu.min \in Nat
    <3>1. CASE Present = {}
      BY <2>2, <3>1 DEF LfuRight, Least
    <3>2. CASE Present # {}
      <4>1. uses \in [Keys -> Nat]
        BY Zenon, <2>1 DEF HistoryOK
      <4>2. PICK k \in Present : Least(Present, uses) = uses[k]
        BY Zenon, <2>2, <3>2, <4>1, LeastExists
      <4>3. QED
        BY Zenon, <2>2, <2>3, <4>2 DEF LfuRight
    <3>3. QED
      BY Zenon, <3>1, <3>2
  <2>7. QED
    BY Zenon, <2>1, <2>2, <2>3, <2>4, <2>5, <2>6 DEF TypeOK, HistoryOK
<1>2. QED
  BY <1>1, PoliciesRight, PTL

\* LRUPolicy chooses the least recently used key, whatever calls were made.
THEOREM LruIsRight == Spec => []LruEvictsLeastRecent
<1>1. PolicyInv => LruEvictsLeastRecent
  <2> SUFFICES ASSUME PolicyInv PROVE LruEvictsLeastRecent
    BY Zenon
  <2> DEFINE c == First(lru)
  <2>1. used \in [Keys -> Nat] /\ Present \subseteq Keys
    BY Zenon DEF PolicyInv, HistoryOK, Present
  <2>2. IF Present = {} THEN c = None
        ELSE c \in Present /\ \A x \in Present \ {c} : used[c] < used[x]
    BY Zenon, <2>1, ListsFirst DEF PolicyInv
  <2> HIDE DEF c
  <2>3. CASE Present = {}
    BY Zenon, <2>2, <2>3 DEF LruEvictsLeastRecent, LruCandidate, FirstBy, c
  <2>4. CASE Present # {}
    <3>1. \A k \in Present : (\A x \in Present \ {k} : used[k] < used[x]) => k = c
      BY <2>1, <2>2, <2>4
    <3>2. (CHOOSE k \in Present : \A x \in Present \ {k} : used[k] < used[x]) = c
      BY Zenon, <2>2, <2>4, <3>1
    <3>3. QED
      BY Zenon, <2>4, <3>2 DEF LruEvictsLeastRecent, LruCandidate, FirstBy, c
  <2>5. QED
    BY Zenon, <2>3, <2>4
<1>2. QED
  BY <1>1, PoliciesRight, PTL

\* FIFOPolicy chooses the key inserted longest ago, whatever calls were made.
THEOREM FifoIsRight == Spec => []FifoEvictsOldest
<1>1. PolicyInv => FifoEvictsOldest
  <2> SUFFICES ASSUME PolicyInv PROVE FifoEvictsOldest
    BY Zenon
  <2> DEFINE c == First(fifo)
  <2>1. inserted \in [Keys -> Nat] /\ Present \subseteq Keys
    BY Zenon DEF PolicyInv, HistoryOK, Present
  <2>2. IF Present = {} THEN c = None
        ELSE c \in Present /\ \A x \in Present \ {c} : inserted[c] < inserted[x]
    BY Zenon, <2>1, ListsFirst DEF PolicyInv
  <2> HIDE DEF c
  <2>3. CASE Present = {}
    BY Zenon, <2>2, <2>3 DEF FifoEvictsOldest, FifoCandidate, FirstBy, c
  <2>4. CASE Present # {}
    <3>1. \A k \in Present :
              (\A x \in Present \ {k} : inserted[k] < inserted[x]) => k = c
      BY <2>1, <2>2, <2>4
    <3>2. (CHOOSE k \in Present : \A x \in Present \ {k} : inserted[k] < inserted[x]) = c
      BY Zenon, <2>2, <2>4, <3>1
    <3>3. QED
      BY Zenon, <2>4, <3>2 DEF FifoEvictsOldest, FifoCandidate, FirstBy, c
  <2>5. QED
    BY Zenon, <2>3, <2>4
<1>2. QED
  BY <1>1, PoliciesRight, PTL

\* The buckets and _min_freq of LFUPolicy always agree with the frequencies.
THEOREM LfuBucketsRight == Spec => []LfuBucketsPartition
<1>1. PolicyInv => LfuBucketsPartition
  <2> SUFFICES ASSUME PolicyInv PROVE LfuBucketsPartition
    BY Zenon
  <2>1. LfuRight(lfu, Present, uses, used) /\ used \in [Keys -> Nat] /\ Present \subseteq Keys
    BY Zenon DEF PolicyInv, HistoryOK, Present
  <2>2. LfuKeys(lfu) = Present /\ \A k \in Present : lfu.freq[k] = uses[k]
    BY Zenon, <2>1 DEF LfuRight, LfuKeys
  <2>3. {lfu.freq[k] : k \in Present} = {uses[k] : k \in Present}
    BY Zenon, <2>2
  <2>4. DOMAIN lfu.buckets = {uses[k] : k \in Present}
    BY Zenon, <2>1 DEF LfuRight, Filed
  <2>5. ASSUME NEW f \in DOMAIN lfu.buckets
        PROVE  /\ ToSet(lfu.buckets[f]) = {k \in LfuKeys(lfu) : lfu.freq[k] = f}
               /\ IsInjective(lfu.buckets[f])
    <3> DEFINE b == lfu.buckets[f]
    <3>1. Lists(b, {k \in Present : uses[k] = f}, used)
      BY Zenon, <2>1 DEF LfuRight, Filed
    <3>2. ToSet(b) = {k \in Present : uses[k] = f}
      BY Zenon, <3>1 DEF Lists
    <3>3. {k \in Present : uses[k] = f} = {k \in LfuKeys(lfu) : lfu.freq[k] = f}
      BY Zenon, <2>2
    <3> HIDE DEF b
    <3>4. b \in Seq(Keys) /\ DOMAIN b = 1 .. Len(b) /\ Len(b) \in Nat
      BY <3>1 DEF Lists
    <3>5. ASSUME NEW i \in DOMAIN b, NEW j \in DOMAIN b, b[i] = b[j] PROVE i = j
      <4>1. b[i] \in Keys /\ used[b[i]] \in Nat
        BY <2>1, <3>4
      <4>2. ~(i < j) /\ ~(j < i)
        BY <3>1, <3>4, <3>5, <4>1 DEF Lists
      <4>3. QED
        BY <3>4, <4>2
    <3>6. QED
      BY Zenon, <3>2, <3>3, <3>5 DEF IsInjective, b
  <2>6. lfu.min = IF LfuKeys(lfu) = {} THEN 0 ELSE Min(DOMAIN lfu.buckets)
    BY Zenon, <2>1, <2>2, <2>4 DEF LfuRight, Least
  <2>7. QED
    BY Zenon, <2>2, <2>3, <2>4, <2>5, <2>6 DEF LfuBucketsPartition
<1>2. QED
  BY <1>1, PoliciesRight, PTL

\* LFUPolicy chooses the key used least often since its insertion, and the
\* least recently used one of those.
THEOREM LfuIsRight == Spec => []LfuEvictsLeastFrequent
<1>1. PolicyInv => LfuEvictsLeastFrequent
  <2> SUFFICES ASSUME PolicyInv PROVE LfuEvictsLeastFrequent
    BY Zenon
  <2> DEFINE Before(a, b) == \/ uses[a] < uses[b]
                             \/ uses[a] = uses[b] /\ used[a] < used[b]
             c == LfuCandidate(lfu)
  <2>1. /\ LfuRight(lfu, Present, uses, used) /\ Present \in SUBSET Keys
        /\ used \in [Keys -> Nat] /\ uses \in [Keys -> Nat]
        /\ \A k \in Present : uses[k] > 0
    BY Zenon DEF PolicyInv, HistoryOK, Present
  <2>2. CASE Present = {}
    <3>1. c = None
      BY Zenon, <2>1, <2>2 DEF LfuCandidate, LfuRight, Least
    <3>2. QED
      BY Zenon, <2>2, <3>1 DEF LfuEvictsLeastFrequent, FirstBy
  <2>3. CASE Present # {}
    <3>1. PICK m \in Present : /\ Least(Present, uses) = uses[m]
                               /\ \A x \in Present : uses[m] <= uses[x]
      BY Zenon, <2>1, <2>3, LeastExists
    <3> DEFINE f == uses[m]
               peers == {k \in Present : uses[k] = f}
    <3>2. lfu.min = f /\ f \in DOMAIN lfu.buckets /\ f # 0
      BY <2>1, <3>1 DEF LfuRight, Filed
    <3>3. c = First(lfu.buckets[f]) /\ Lists(lfu.buckets[f], peers, used)
      BY Zenon, <2>1, <3>2 DEF LfuCandidate, Bucket, LfuRight, Filed
    <3>4. peers # {}
      BY Zenon
    <3> HIDE DEF peers, c
    <3>5. c \in peers /\ \A x \in peers \ {c} : used[c] < used[x]
      BY Zenon, <2>1, <3>3, <3>4, ListsFirst
    <3>6. c \in Present /\ uses[c] = f
      BY Zenon, <3>5 DEF peers
    <3>7. \A x \in Present \ {c} : Before(c, x)
      BY <2>1, <3>1, <3>5, <3>6 DEF peers
    <3>8. \A k \in Present : (\A x \in Present \ {k} : Before(k, x)) => k = c
      BY <2>1, <3>6, <3>7
    <3>9. (CHOOSE k \in Present : \A x \in Present \ {k} : Before(k, x)) = c
      <4> HIDE DEF Before
      <4>1. QED
        BY Zenon, <3>6, <3>7, <3>8
    <3>10. QED
      BY Zenon, <2>3, <3>9 DEF LfuEvictsLeastFrequent, FirstBy, c
  <2>4. QED
    BY Zenon, <2>2, <2>3
<1>2. QED
  BY <1>1, PoliciesRight, PTL

=============================================================================
