-------------------------- MODULE EvictionPolicies --------------------------
(***************************************************************************)
(* The three eviction policies as functions of their own bookkeeping.  An  *)
(* OrderedDict is the sequence of its keys, oldest first.                  *)
(***************************************************************************)
EXTENDS Integers, SequencesExt

CONSTANT
    None  \* evict_candidate() of an empty policy

First(order) == IF order = <<>> THEN None ELSE Head(order)

\* OrderedDict.move_to_end, which also inserts a key that is absent.
MoveToEnd(order, k) == Append(RemoveFirst(order, k), k)

-----------------------------------------------------------------------------
(* LRUPolicy: _order, least recently used first.                           *)

LruInit == <<>>

LruOnGet(order, k) == IF Contains(order, k) THEN MoveToEnd(order, k) ELSE order

\* A faulty variant: an update does not refresh the key.
LruOnPutNoMove(order, k) == IF Contains(order, k) THEN order ELSE Append(order, k)

LruOnPut(order, k) == MoveToEnd(order, k)

LruOnDelete(order, k) == RemoveFirst(order, k)

LruCandidate(order) == First(order)

-----------------------------------------------------------------------------
(* FIFOPolicy: _order, oldest insertion first.                             *)

FifoInit == <<>>

FifoOnGet(order, k) == order

\* A faulty variant: an update counts as a new insertion.
FifoOnPutMoves(order, k) == MoveToEnd(order, k)

FifoOnPut(order, k) == IF Contains(order, k) THEN order ELSE Append(order, k)

FifoOnDelete(order, k) == RemoveFirst(order, k)

\* A faulty variant: the newest insertion is evicted.
FifoCandidateNewest(order) == IF order = <<>> THEN None ELSE Last(order)

FifoCandidate(order) == First(order)

-----------------------------------------------------------------------------
(* LFUPolicy: freq is _key_to_freq, buckets is _freq_to_keys (only the     *)
(* nonempty buckets are present) and min is _min_freq.                     *)

LfuInit == [freq |-> <<>>, buckets |-> <<>>, min |-> 0]

LfuKeys(p) == DOMAIN p.freq

Bucket(buckets, f) == IF f \in DOMAIN buckets THEN buckets[f] ELSE <<>>

SetAt(f, x, v) == [y \in DOMAIN f \cup {x} |-> IF y = x THEN v ELSE f[y]]

JoinBucket(buckets, f, k) == SetAt(buckets, f, Append(Bucket(buckets, f), k))

\* A faulty variant: an emptied bucket is kept.
LeaveBucketKeepsEmpty(buckets, f, k) == [buckets EXCEPT ![f] = RemoveFirst(@, k)]

\* Key k leaves bucket f, which is dropped when it becomes empty.
LeaveBucket(buckets, f, k) ==
    IF RemoveFirst(buckets[f], k) = <<>>
    THEN Restrict(buckets, DOMAIN buckets \ {f})
    ELSE [buckets EXCEPT ![f] = RemoveFirst(@, k)]

\* A faulty variant: _min_freq is not advanced when its bucket empties.
MinAfterBumpStale(min, old, left) == min

\* _min_freq after a key of frequency old was bumped, leaving buckets left.
MinAfterBump(min, old, left) ==
    IF old \notin DOMAIN left /\ min = old THEN old + 1 ELSE min

\* A faulty variant: the next frequency up is taken to be the new minimum.
MinAfterDeleteNext(min, f, left) ==
    IF f \in DOMAIN left \/ min # f THEN min
    ELSE IF DOMAIN left = {} THEN 0 ELSE f + 1

\* A faulty variant: no minimum at all when the last key goes.
MinAfterDeleteNone(min, f, left) ==
    IF f \in DOMAIN left \/ min # f THEN min
    ELSE IF DOMAIN left = {} THEN None ELSE Min(DOMAIN left)

\* _min_freq after a key of frequency f was removed, leaving buckets left.
MinAfterDelete(min, f, left) ==
    IF f \in DOMAIN left \/ min # f THEN min
    ELSE IF DOMAIN left = {} THEN 0 ELSE Min(DOMAIN left)

\* _bump
LfuBump(p, k) ==
    LET old == p.freq[k]
        left == LeaveBucket(p.buckets, old, k)
    IN  [freq |-> SetAt(p.freq, k, old + 1),
         buckets |-> JoinBucket(left, old + 1, k),
         min |-> MinAfterBump(p.min, old, left)]

LfuOnGet(p, k) == IF k \in LfuKeys(p) THEN LfuBump(p, k) ELSE p

LfuOnPut(p, k) ==
    IF k \in LfuKeys(p)
    THEN LfuBump(p, k)
    ELSE [freq |-> SetAt(p.freq, k, 1),
          buckets |-> JoinBucket(p.buckets, 1, k),
          min |-> 1]

LfuOnDelete(p, k) ==
    IF k \notin LfuKeys(p) THEN p
    ELSE LET f == p.freq[k]
             left == LeaveBucket(p.buckets, f, k)
         IN  [freq |-> Restrict(p.freq, LfuKeys(p) \ {k}),
              buckets |-> left,
              min |-> MinAfterDelete(p.min, f, left)]

LfuCandidate(p) == IF p.min = 0 THEN None ELSE First(Bucket(p.buckets, p.min))

=============================================================================
