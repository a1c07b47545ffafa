--------------------------- MODULE PolicyHistory ---------------------------
(***************************************************************************)
(* The three policies driven by the same calls, next to the history of     *)
(* those calls.  The history gives an independent definition of the key    *)
(* each policy should evict: the one used longest ago (LRU), inserted      *)
(* longest ago (FIFO), or used least often, longest ago among ties (LFU).  *)
(***************************************************************************)
EXTENDS EvictionPolicies

CONSTANTS
    Keys,     \* the keys of one shard
    MaxCalls  \* bound: calls made to the policy

ASSUME MaxCallsAssumption == MaxCalls \in Nat

VARIABLES
    lru, fifo, lfu,  \* the bookkeeping of the three policies
    calls,           \* history: calls made so far, the time of the last one
    inserted,        \* history: per key, when it was inserted; 0 if absent
    used,            \* history: per key, when it was last used; 0 if absent
    uses             \* history: per key, how often it was used since insertion

vars == <<lru, fifo, lfu, calls, inserted, used, uses>>

Zero == [k \in Keys |-> 0]

Init ==
    /\ lru = LruInit /\ fifo = FifoInit /\ lfu = LfuInit
    /\ calls = 0
    /\ inserted = Zero /\ used = Zero /\ uses = Zero

Tick == calls < MaxCalls /\ calls' = calls + 1

OnGet(k) ==
    /\ Tick
    /\ lru' = LruOnGet(lru, k)
    /\ fifo' = FifoOnGet(fifo, k)
    /\ lfu' = LfuOnGet(lfu, k)
    /\ \/ uses[k] = 0 /\ UNCHANGED <<used, uses>>
       \/ /\ uses[k] > 0
          /\ used' = [used EXCEPT ![k] = calls']
          /\ uses' = [uses EXCEPT ![k] = @ + 1]
    /\ UNCHANGED inserted

OnPut(k) ==
    /\ Tick
    /\ lru' = LruOnPut(lru, k)
    /\ fifo' = FifoOnPut(fifo, k)
    /\ lfu' = LfuOnPut(lfu, k)
    /\ inserted' = [inserted EXCEPT ![k] = IF @ = 0 THEN calls' ELSE @]
    /\ used' = [used EXCEPT ![k] = calls']
    /\ uses' = [uses EXCEPT ![k] = @ + 1]

OnDelete(k) ==
    /\ Tick
    /\ lru' = LruOnDelete(lru, k)
    /\ fifo' = FifoOnDelete(fifo, k)
    /\ lfu' = LfuOnDelete(lfu, k)
    /\ inserted' = [inserted EXCEPT ![k] = 0]
    /\ used' = [used EXCEPT ![k] = 0]
    /\ uses' = [uses EXCEPT ![k] = 0]

Clear ==
    /\ Tick
    /\ lru' = LruInit /\ fifo' = FifoInit /\ lfu' = LfuInit
    /\ inserted' = Zero /\ used' = Zero /\ uses' = Zero

\* The bound on calls is reached.
Done == calls = MaxCalls /\ UNCHANGED vars

Next == (\E k \in Keys : OnGet(k) \/ OnPut(k) \/ OnDelete(k)) \/ Clear \/ Done

Spec == Init /\ [][Next]_vars

-----------------------------------------------------------------------------

TypeOK ==
    /\ lru \in Seq(Keys) /\ fifo \in Seq(Keys)
    /\ lfu.freq \in [LfuKeys(lfu) -> Nat \ {0}] /\ LfuKeys(lfu) \subseteq Keys
    /\ \A f \in DOMAIN lfu.buckets : f \in Nat /\ lfu.buckets[f] \in Seq(Keys)
    /\ lfu.min \in Nat
    /\ calls \in 0 .. MaxCalls
    /\ {inserted, used, uses} \subseteq [Keys -> Nat]

Present == {k \in Keys : inserted[k] > 0}

\* The key of Present that comes first in the order Before, None if there is
\* no key at all.
FirstBy(Before(_, _)) ==
    IF Present = {} THEN None
    ELSE CHOOSE k \in Present : \A x \in Present \ {k} : Before(k, x)

\* LRUPolicy.evict_candidate() is the key whose last get or put is oldest.
LruEvictsLeastRecent ==
    LruCandidate(lru) = FirstBy(LAMBDA a, b : used[a] < used[b])

\* FIFOPolicy.evict_candidate() is the key inserted longest ago, whatever
\* gets and updates happened since.
FifoEvictsOldest ==
    FifoCandidate(fifo) = FirstBy(LAMBDA a, b : inserted[a] < inserted[b])

\* LFUPolicy.evict_candidate() is the key used least often since insertion,
\* and the least recently used one of those ("recency tie-breaking inside
\* frequency buckets").
LfuEvictsLeastFrequent ==
    LfuCandidate(lfu) =
        FirstBy(LAMBDA a, b : \/ uses[a] < uses[b]
                              \/ uses[a] = uses[b] /\ used[a] < used[b])

\* The O(1) bookkeeping of LFUPolicy is consistent: every key is in the bucket
\* of its frequency once and nowhere else, no bucket is empty, and _min_freq
\* is the smallest frequency in use.
LfuBucketsPartition ==
    /\ DOMAIN lfu.buckets = {lfu.freq[k] : k \in LfuKeys(lfu)}
    /\ \A f \in DOMAIN lfu.buckets :
        /\ ToSet(lfu.buckets[f]) = {k \in LfuKeys(lfu) : lfu.freq[k] = f}
        /\ IsInjective(lfu.buckets[f])
    /\ lfu.min = IF LfuKeys(lfu) = {} THEN 0 ELSE Min(DOMAIN lfu.buckets)

=============================================================================
