-------------------------- MODULE WriteBackPolicy --------------------------
(***************************************************************************)
(* WriteBack composed with an actual eviction policy per shard: every      *)
(* critical section also makes the calls to the shard's policy, and the    *)
(* victims of put() are the policy's candidates.                           *)
(***************************************************************************)
EXTENDS WriteBack, EvictionPolicies

CONSTANT Policies  \* the values of config.policy considered

ASSUME PolicyAssumption == Policies \subseteq {"lru", "fifo", "lfu"}

\* evict_candidate() returns None only if the policy tracks no key.
ASSUME NoneAssumption == None \notin Keys

VARIABLES
    name,   \* config.policy, chosen once and for all
    policy  \* per shard, the bookkeeping of its policy

policyVars == <<vars, name, policy>>

\* make_policy, and the calls of the EvictionPolicy interface.
MakePolicy == CASE name = "lru" -> LruInit
                [] name = "fifo" -> FifoInit
                [] name = "lfu" -> LfuInit

OnGet(p, k) == CASE name = "lru" -> LruOnGet(p, k)
                 [] name = "fifo" -> FifoOnGet(p, k)
                 [] name = "lfu" -> LfuOnGet(p, k)

OnPut(p, k) == CASE name = "lru" -> LruOnPut(p, k)
                 [] name = "fifo" -> FifoOnPut(p, k)
                 [] name = "lfu" -> LfuOnPut(p, k)

OnDelete(p, k) == CASE name = "lru" -> LruOnDelete(p, k)
                    [] name = "fifo" -> FifoOnDelete(p, k)
                    [] name = "lfu" -> LfuOnDelete(p, k)

EvictCandidate(p) == CASE name = "lru" -> LruCandidate(p)
                       [] name = "fifo" -> FifoCandidate(p)
                       [] name = "lfu" -> LfuCandidate(p)

Tracked(p) == IF name = "lfu" THEN LfuKeys(p) ELSE ToSet(p)

-----------------------------------------------------------------------------

PolicyInit ==
    /\ Init
    /\ name \in Policies
    /\ policy = [i \in 1 .. ShardCount |-> MakePolicy]

\* A get() that hits; it changes nothing but the policy's bookkeeping.
Get(k) ==
    /\ Cached(slot[k])
    /\ policy' = [policy EXCEPT ![ShardOf[k]] = OnGet(@, k)]
    /\ UNCHANGED vars

\* A shard is never over capacity between two sections, so the loop of
\* _enforce_capacity_locked evicts at most one key.
PolicyPut(c, k) ==
    \E expired \in {FALSE, Cached(slot[k])} :
        LET i == ShardOf[k]
            p == IF expired THEN OnDelete(policy[i], k) ELSE policy[i]
            full == Cardinality(Live(Stored(k, expired), i)) > ShardCapacity(i)
            E == IF full THEN {EvictCandidate(OnPut(p, k))} \ {None} ELSE {}
        IN  /\ writes[k] < MaxWrites[k]
            /\ PutEvicting(c, k, expired, E)
            /\ policy' = [policy EXCEPT ![i] =
                   IF E = {} THEN OnPut(p, k)
                   ELSE OnDelete(OnPut(p, k), EvictCandidate(OnPut(p, k)))]

PolicyDelete(c, k) ==
    /\ Delete(c, k)
    /\ policy' = [policy EXCEPT ![ShardOf[k]] = OnDelete(@, k)]

PolicyClearShard(c) ==
    /\ ClearShard(c)
    /\ policy' = [policy EXCEPT ![nextShard[c]] = MakePolicy]

\* A faulty variant: the policy is not told of an expiration.
PolicyExpireUntold(k) ==
    /\ Expire(k)
    /\ UNCHANGED policy

PolicyExpire(k) ==
    /\ Expire(k)
    /\ policy' = [policy EXCEPT ![ShardOf[k]] = OnDelete(@, k)]

\* Steps that do not touch a policy.
OtherStep ==
    /\ \/ \E c \in Clients :
            StartClear(c) \/ Enqueue(c) \/ EnqueueTimeout(c) \/ Release(c)
       \/ \E w \in Workers : WorkerStep(w)
       \/ Quiet /\ UNCHANGED vars
    /\ UNCHANGED policy

PolicyNext ==
    /\ \/ \E k \in Keys : Get(k) \/ PolicyExpire(k)
       \/ \E c \in Clients :
            \/ \E k \in Keys : PolicyPut(c, k) \/ PolicyDelete(c, k)
            \/ PolicyClearShard(c)
       \/ OtherStep
    /\ UNCHANGED name

PolicySpec == PolicyInit /\ [][PolicyNext]_policyVars

-----------------------------------------------------------------------------

\* A shard's policy tracks exactly the keys its backend holds, through
\* evictions, expirations, deletes and clear().
PolicyTracksEntries ==
    \A i \in 1 .. ShardCount : Tracked(policy[i]) = Live(slot, i)

\* The cache with its real policy behaves as WriteBack says.  With LRU or FIFO
\* it does so also when EvictsNewest is FALSE: the key just put is never the
\* victim of its own put.
ImplementsWriteBack == Spec

=============================================================================
