----------------------------- MODULE WriteBack -----------------------------
(***************************************************************************)
(* Write-back mode of the cache between start() and close(): client        *)
(* threads that put, delete and clear, the bounded job queue, the worker   *)
(* threads that flush jobs to the source of truth, and the per-key         *)
(* bookkeeping (version marks, tombstones, pending-flush counts) that is   *)
(* to keep stale jobs from being applied.                                  *)
(*                                                                         *)
(* A step is one critical section of the code, that is, one stretch during *)
(* which a thread holds a shard lock, the queue's lock or the source's     *)
(* lock.  Values are abstracted to the number of the write, per key, that  *)
(* produced them, so two different writes are always told apart.           *)
(***************************************************************************)
EXTENDS Integers, Sequences, FiniteSets

CONSTANTS
    Keys,           \* the keys in use
    Clients,        \* threads that call put, delete and clear
    Workers,        \* worker threads of the pool
    ShardCount,     \* number of shards
    ShardOf,        \* the shard of each key (the hash of the key)
    TotalCapacity,  \* config.capacity
    QueueMaxSize,   \* config.queue_size; 0 means unbounded
    RetryCount,     \* config.write_back_retry_count
    EvictsNewest,   \* TRUE for a policy that may evict the key just put (LFU)
    MaxWrites,      \* bound: puts and deletes of each key
    MaxFaults,      \* bound: calls to the source of truth that fail
    NoJob           \* what a worker holds when it holds no job

ASSUME ConstantsAssumption ==
    /\ ShardCount \in Nat \ {0}
    /\ ShardOf \in [Keys -> 1 .. ShardCount]
    /\ TotalCapacity \in Nat /\ TotalCapacity >= ShardCount
    /\ QueueMaxSize \in Nat
    /\ RetryCount \in Nat
    /\ EvictsNewest \in BOOLEAN
    /\ MaxWrites \in [Keys -> Nat]
    /\ MaxFaults \in Nat

ASSUME KeysFinite == IsFiniteSet(Keys)

ASSUME ThreadsFinite == IsFiniteSet(Clients) /\ IsFiniteSet(Workers)

VARIABLES
    slot,       \* per key: cache entry, version mark, tombstone, pending count
    queue,      \* CacheJobQueue: the queued flush jobs, oldest first
    cpc,        \* where each client thread is
    nextShard,  \* the shard a client's clear() handles next
    hand,       \* the flush jobs a client has still to enqueue
    wpc,        \* where each worker thread is
    wjob,       \* the job a worker is handling
    source,     \* source of truth: per key, the number of the write it holds
    faults,     \* failing calls the source of truth may still make
    writes,     \* history: writes accepted so far, per key
    reported    \* history: writes whose flush was reported as failed, per key

vars == <<slot, queue, cpc, nextShard, hand, wpc, wjob, source, faults,
          writes, reported>>

Slot == [version : Nat, write : Nat, dirty : BOOLEAN,
         mark : Nat, tomb : Nat, pending : Nat]

Job == [key : Keys, version : Nat, write : Nat, op : {"put", "delete"},
        retries : Nat]

ASSUME NoJobAssumption == NoJob \notin Job

-----------------------------------------------------------------------------
(* The per-key state of a shard.  Versions start at 1, so 0 stands for a   *)
(* key that is absent from the entries, marks, tombstones or counts.       *)

EmptySlot == [version |-> 0, write |-> 0, dirty |-> FALSE,
              mark |-> 0, tomb |-> 0, pending |-> 0]

Cached(s) == s.version > 0

\* CacheShard.next_version
NextVersion(s) == [s EXCEPT !.mark = @ + 1]

\* A faulty variant: outstanding flush jobs do not pin the marks.
PruneIgnoringPending(s) ==
    IF Cached(s) THEN s ELSE [s EXCEPT !.mark = 0, !.tomb = 0]

\* _maybe_prune_marks_locked
MaybePruneMarks(s) ==
    IF s.pending > 0 \/ Cached(s) THEN s ELSE [s EXCEPT !.mark = 0, !.tomb = 0]

\* _remove_entry_locked
RemoveEntry(s) ==
    MaybePruneMarks([s EXCEPT !.version = 0, !.write = 0, !.dirty = FALSE])

\* _register_pending_locked
RegisterPending(s) == [s EXCEPT !.pending = @ + 1]

\* A faulty variant: the marks are not pruned with the last pending flush.
ResolveWithoutPruning(s) ==
    [s EXCEPT !.pending = IF @ > 1 THEN @ - 1 ELSE 0]

\* _resolve_pending_locked
ResolvePending(s) ==
    MaybePruneMarks([s EXCEPT !.pending = IF @ > 1 THEN @ - 1 ELSE 0])

\* The slot of a key once put() has stored its entry, before capacity is
\* enforced and the pending flush is registered.
StoreEntry(s, w) ==
    LET t == NextVersion(s)
    IN  [t EXCEPT !.tomb = 0, !.version = t.mark, !.write = w, !.dirty = TRUE]

\* The slot of a key once delete() has bumped its version, planted the
\* tombstone, registered the pending flush and removed the entry.
DeleteEntry(s) ==
    LET t == NextVersion(s)
    IN  RemoveEntry(RegisterPending([t EXCEPT !.tomb = t.mark]))

\* A faulty variant: a flush of an older version marks the entry clean.
MarkCleanAnyVersion(s, j) ==
    IF j.op = "put" /\ Cached(s) THEN [s EXCEPT !.dirty = FALSE] ELSE s

\* The settling section of _flush_write_back_job after a successful apply.
MarkClean(s, j) ==
    IF j.op = "put" /\ Cached(s) /\ s.version = j.version
    THEN [s EXCEPT !.dirty = FALSE]
    ELSE s

\* is_stale_write_back
IsStale(s, j) ==
    \/ s.mark # j.version
    \/ j.op = "put" /\ s.tomb >= j.version
    \/ j.op = "delete" /\ s.tomb # j.version

FlushJob(k, v, w, op) ==
    [key |-> k, version |-> v, write |-> w, op |-> op, retries |-> RetryCount]

-----------------------------------------------------------------------------
(* Capacity.                                                               *)

\* shard_capacities
ShardCapacity(i) ==
    TotalCapacity \div ShardCount
        + (IF i <= TotalCapacity % ShardCount THEN 1 ELSE 0)

Live(sl, i) == {k \in Keys : ShardOf[k] = i /\ Cached(sl[k])}

\* A faulty variant: the loop stops one entry too early.
EvictChoicesOneShort(sl, k) ==
    LET live == Live(sl, ShardOf[k])
        excess == Cardinality(live) - ShardCapacity(ShardOf[k]) - 1
    IN  {E \in SUBSET live :
            /\ Cardinality(E) = (IF excess > 0 THEN excess ELSE 0)
            /\ EvictsNewest \/ k \notin E}

\* _enforce_capacity_locked: the sets of keys the loop may evict from slots
\* sl, once k has been stored.  The victims are the policy's choice.
EvictChoices(sl, k) ==
    LET live == Live(sl, ShardOf[k])
        excess == Cardinality(live) - ShardCapacity(ShardOf[k])
    IN  {E \in SUBSET live :
            /\ Cardinality(E) = (IF excess > 0 THEN excess ELSE 0)
            /\ EvictsNewest \/ k \notin E}

-----------------------------------------------------------------------------
(* Clients.                                                                *)

Init ==
    /\ slot = [k \in Keys |-> EmptySlot]
    /\ queue = <<>>
    /\ cpc = [c \in Clients |-> "idle"]
    /\ nextShard = [c \in Clients |-> 1]
    /\ hand = [c \in Clients |-> {}]
    /\ wpc = [w \in Workers |-> "idle"]
    /\ wjob = [w \in Workers |-> NoJob]
    /\ source = [k \in Keys |-> 0]
    /\ faults = MaxFaults
    /\ writes = [k \in Keys |-> 0]
    /\ reported = [k \in Keys |-> {}]

\* The slots once put() has dropped the entry of k if it had expired, and
\* stored the new one.
Stored(k, expired) ==
    [slot EXCEPT ![k] =
        StoreEntry(IF expired THEN RemoveEntry(@) ELSE @, writes[k] + 1)]

\* put(), up to the release of the shard lock, when capacity enforcement evicts
\* the keys of E.  The pending flush is registered last, after the evictions.
PutEvicting(c, k, expired, E) ==
    LET stored == Stored(k, expired)
        left == [x \in Keys |-> IF x \in E THEN RemoveEntry(stored[x])
                                           ELSE stored[x]]
    IN  /\ cpc[c] = "idle"
        /\ slot' = [left EXCEPT ![k] = RegisterPending(@)]
        /\ hand' = [hand EXCEPT ![c] =
               {FlushJob(k, stored[k].version, writes[k] + 1, "put")}]
        /\ writes' = [writes EXCEPT ![k] = @ + 1]
        /\ cpc' = [cpc EXCEPT ![c] = "enqueue"]
        /\ UNCHANGED <<queue, nextShard, wpc, wjob, source, faults, reported>>

PutCall(c, k) ==
    \E expired \in {FALSE, Cached(slot[k])} :
        \E E \in EvictChoices(Stored(k, expired), k) :
            PutEvicting(c, k, expired, E)

Put(c, k) == writes[k] < MaxWrites[k] /\ PutCall(c, k)

\* delete(), up to the release of the shard lock.
Delete(c, k) ==
    /\ cpc[c] = "idle"
    /\ writes[k] < MaxWrites[k]
    /\ slot' = [slot EXCEPT ![k] = DeleteEntry(@)]
    /\ hand' = [hand EXCEPT ![c] =
           {FlushJob(k, slot[k].mark + 1, writes[k] + 1, "delete")}]
    /\ writes' = [writes EXCEPT ![k] = @ + 1]
    /\ cpc' = [cpc EXCEPT ![c] = "enqueue"]
    /\ UNCHANGED <<queue, nextShard, wpc, wjob, source, faults, reported>>

StartClear(c) ==
    /\ cpc[c] = "idle"
    /\ cpc' = [cpc EXCEPT ![c] = "clear"]
    /\ nextShard' = [nextShard EXCEPT ![c] = 1]
    /\ UNCHANGED <<slot, queue, hand, wpc, wjob, source, faults, writes,
                   reported>>

\* clear(): the section that deletes every key of one shard.  The flush jobs
\* of all the shards are enqueued once the last shard is done.
ClearShard(c) ==
    LET live == Live(slot, nextShard[c])
        jobs == {FlushJob(k, slot[k].mark + 1, writes[k] + 1, "delete") :
                     k \in live}
        last == nextShard[c] = ShardCount
    IN  /\ cpc[c] = "clear"
        /\ slot' = [k \in Keys |-> IF k \in live THEN DeleteEntry(slot[k])
                                                 ELSE slot[k]]
        /\ writes' = [k \in Keys |-> IF k \in live THEN writes[k] + 1
                                                   ELSE writes[k]]
        /\ hand' = [hand EXCEPT ![c] = @ \cup jobs]
        /\ nextShard' = [nextShard EXCEPT ![c] = IF last THEN 1 ELSE @ + 1]
        /\ cpc' = [cpc EXCEPT ![c] =
               IF ~last THEN "clear"
               ELSE IF hand'[c] = {} THEN "idle" ELSE "enqueue"]
        /\ UNCHANGED <<queue, wpc, wjob, source, faults, reported>>

\* Removal of an expired entry by get, contains, inspect, dump, expire_all
\* or a worker's ExpireShard job.
Expire(k) ==
    /\ Cached(slot[k])
    /\ slot' = [slot EXCEPT ![k] = RemoveEntry(@)]
    /\ UNCHANGED <<queue, cpc, nextShard, hand, wpc, wjob, source, faults,
                   writes, reported>>

\* CacheJobQueue has a free place.
Room == QueueMaxSize = 0 \/ Len(queue) < QueueMaxSize

\* The jobs a client may enqueue, or release, next.  clear() lists them shard by
\* shard; within a shard they come in the order of the backend, which is open.
NextJobs(c) ==
    {j \in hand[c] : \A i \in hand[c] : ShardOf[j.key] <= ShardOf[i.key]}

AfterLastJob(jobs, pc) == IF jobs = {} THEN "idle" ELSE pc

\* _enqueue_flush_jobs: one job is accepted by the queue.
Enqueue(c) ==
    /\ cpc[c] = "enqueue"
    /\ Room
    /\ \E j \in NextJobs(c) :
        /\ queue' = Append(queue, j)
        /\ hand' = [hand EXCEPT ![c] = @ \ {j}]
    /\ cpc' = [cpc EXCEPT ![c] = AfterLastJob(hand'[c], "enqueue")]
    /\ UNCHANGED <<slot, nextShard, wpc, wjob, source, faults, writes,
                   reported>>

\* The writes of a set of jobs are reported to the caller or counted in
\* flush_failures.
Report(jobs) ==
    reported' = [k \in Keys |->
        reported[k] \cup {j.write : j \in {i \in jobs : i.key = k}}]

\* queue_put_timeout runs out while the queue is full.
EnqueueTimeout(c) ==
    /\ cpc[c] = "enqueue"
    /\ ~Room
    /\ cpc' = [cpc EXCEPT ![c] = "release"]
    /\ Report(hand[c])
    /\ UNCHANGED <<slot, queue, nextShard, hand, wpc, wjob, source, faults,
                   writes>>

\* _enqueue_flush_jobs: the rejected job and every later one give up their
\* pending counts, one lock section each, before QueueBackpressureError.
Release(c) ==
    /\ cpc[c] = "release"
    /\ \E j \in NextJobs(c) :
        /\ slot' = [slot EXCEPT ![j.key] = ResolvePending(@)]
        /\ hand' = [hand EXCEPT ![c] = @ \ {j}]
    /\ cpc' = [cpc EXCEPT ![c] = AfterLastJob(hand'[c], "release")]
    /\ UNCHANGED <<queue, nextShard, wpc, wjob, source, faults, writes,
                   reported>>

-----------------------------------------------------------------------------
(* Workers: _run of the pool and _flush_write_back_job.                    *)

Goto(w, pc) == wpc' = [wpc EXCEPT ![w] = pc]

Finish(w) ==
    /\ Goto(w, "idle")
    /\ wjob' = [wjob EXCEPT ![w] = NoJob]

Take(w) ==
    /\ wpc[w] = "idle"
    /\ queue # <<>>
    /\ wjob' = [wjob EXCEPT ![w] = Head(queue)]
    /\ queue' = Tail(queue)
    /\ Goto(w, "check")
    /\ UNCHANGED <<slot, cpc, nextShard, hand, source, faults, writes,
                   reported>>

\* The job is stale under the shard lock: it is skipped.
Skip(w) ==
    LET j == wjob[w]
    IN  /\ wpc[w] = "check"
        /\ IsStale(slot[j.key], j)
        /\ slot' = [slot EXCEPT ![j.key] = ResolvePending(@)]
        /\ Finish(w)
        /\ UNCHANGED <<queue, cpc, nextShard, hand, source, faults, writes,
                       reported>>

\* A faulty variant: a retry is not checked again.
PassUnchecked(w) ==
    /\ wpc[w] = "check"
    /\ IsStale(slot[wjob[w].key], wjob[w]) => wjob[w].retries < RetryCount
    /\ Goto(w, "apply")
    /\ UNCHANGED <<slot, queue, cpc, nextShard, hand, wjob, source, faults,
                   writes, reported>>

\* The job is not stale under the shard lock, which is then released.
Pass(w) ==
    /\ wpc[w] = "check"
    /\ ~IsStale(slot[wjob[w].key], wjob[w])
    /\ Goto(w, "apply")
    /\ UNCHANGED <<slot, queue, cpc, nextShard, hand, wjob, source, faults,
                   writes, reported>>

\* apply_write_back succeeds; no shard lock is held.
Apply(w) ==
    /\ wpc[w] = "apply"
    /\ source' = [source EXCEPT ![wjob[w].key] = wjob[w].write]
    /\ Goto(w, "settle")
    /\ UNCHANGED <<slot, queue, cpc, nextShard, hand, wjob, faults, writes,
                   reported>>

\* A faulty variant: a job with no retry left is retried.
ApplyFailsRetriesAtZero(w) ==
    /\ wpc[w] = "apply"
    /\ faults > 0
    /\ faults' = faults - 1
    /\ Goto(w, "retry")
    /\ UNCHANGED <<slot, queue, cpc, nextShard, hand, wjob, source, writes,
                   reported>>

\* apply_write_back raises: the job is retried, or it is given up.
ApplyFails(w) ==
    /\ wpc[w] = "apply"
    /\ faults > 0
    /\ faults' = faults - 1
    /\ \/ /\ wjob[w].retries > 0
          /\ Goto(w, "retry")
          /\ UNCHANGED reported
       \/ /\ wjob[w].retries = 0
          /\ Goto(w, "giveup")
          /\ Report({wjob[w]})
    /\ UNCHANGED <<slot, queue, cpc, nextShard, hand, wjob, source, writes>>

\* The entry is marked clean if it is still the version that was flushed.
Settle(w) ==
    LET j == wjob[w]
    IN  /\ wpc[w] = "settle"
        /\ slot' = [slot EXCEPT ![j.key] = ResolvePending(MarkClean(@, j))]
        /\ Finish(w)
        /\ UNCHANGED <<queue, cpc, nextShard, hand, source, faults, writes,
                       reported>>

\* The retry is queued behind the jobs that arrived since; the pending count
\* stays with it.
Retry(w) ==
    /\ wpc[w] = "retry"
    /\ Room
    /\ queue' = Append(queue, [wjob[w] EXCEPT !.retries = @ - 1])
    /\ Finish(w)
    /\ UNCHANGED <<slot, cpc, nextShard, hand, source, faults, writes,
                   reported>>

\* A faulty variant: the dropped retry is not counted in flush_failures.
RetryTimeoutSilent(w) ==
    /\ wpc[w] = "retry"
    /\ ~Room
    /\ Goto(w, "giveup")
    /\ UNCHANGED <<slot, queue, cpc, nextShard, hand, wjob, source, faults,
                   writes, reported>>

\* queue_put_timeout runs out while the queue is full: the retry is dropped
\* and counted in flush_failures.
RetryTimeout(w) ==
    /\ wpc[w] = "retry"
    /\ ~Room
    /\ Goto(w, "giveup")
    /\ Report({wjob[w]})
    /\ UNCHANGED <<slot, queue, cpc, nextShard, hand, wjob, source, faults,
                   writes>>

\* A faulty variant: a job that is given up keeps its pending count.
GiveUpKeepsPending(w) ==
    /\ wpc[w] = "giveup"
    /\ Finish(w)
    /\ UNCHANGED <<slot, queue, cpc, nextShard, hand, source, faults, writes,
                   reported>>

\* The pending count of a job that cannot be flushed is released.
GiveUp(w) ==
    /\ wpc[w] = "giveup"
    /\ slot' = [slot EXCEPT ![wjob[w].key] = ResolvePending(@)]
    /\ Finish(w)
    /\ UNCHANGED <<queue, cpc, nextShard, hand, source, faults, writes,
                   reported>>

-----------------------------------------------------------------------------

ClientProgress(c) == ClearShard(c) \/ Enqueue(c) \/ EnqueueTimeout(c) \/ Release(c)

ClientStep(c) ==
    \/ \E k \in Keys : Put(c, k) \/ Delete(c, k)
    \/ StartClear(c)
    \/ ClientProgress(c)

WorkerStep(w) ==
    \/ Take(w) \/ Skip(w) \/ Pass(w) \/ Apply(w) \/ ApplyFails(w)
    \/ Settle(w) \/ Retry(w) \/ RetryTimeout(w) \/ GiveUp(w)

\* Nothing is left to do until a client calls again.
Quiet ==
    /\ queue = <<>>
    /\ \A c \in Clients : cpc[c] = "idle"
    /\ \A w \in Workers : wpc[w] = "idle"

Next ==
    \/ \E c \in Clients : ClientStep(c)
    \/ \E k \in Keys : Expire(k)
    \/ \E w \in Workers : WorkerStep(w)
    \/ Quiet /\ UNCHANGED vars

Spec == Init /\ [][Next]_vars

\* A thread that has begun an operation is scheduled again, and so are the
\* workers; nobody has to call the cache.
Fairness ==
    /\ \A c \in Clients : WF_vars(ClientProgress(c))
    /\ \A w \in Workers : WF_vars(WorkerStep(w))

FairSpec == Spec /\ Fairness

-----------------------------------------------------------------------------
(* Properties.                                                             *)

TypeOK ==
    /\ slot \in [Keys -> Slot]
    /\ queue \in Seq(Job)
    /\ cpc \in [Clients -> {"idle", "clear", "enqueue", "release"}]
    /\ nextShard \in [Clients -> 1 .. ShardCount]
    /\ hand \in [Clients -> SUBSET Job]
    /\ wpc \in [Workers -> {"idle", "check", "apply", "settle", "retry", "giveup"}]
    /\ wjob \in [Workers -> Job \cup {NoJob}]
    /\ source \in [Keys -> Nat]
    /\ faults \in Nat
    /\ writes \in [Keys -> Nat]
    /\ reported \in [Keys -> SUBSET Nat]

\* The jobs that still own a pending count: queued, held by a client that has
\* yet to enqueue them, or being handled by a worker.
Outstanding ==
    {queue[i] : i \in DOMAIN queue}
        \cup (UNION {hand[c] : c \in Clients})
        \cup {wjob[w] : w \in {x \in Workers : wpc[x] # "idle"}}

\* The bookkeeping of one key agrees with itself.
Coherent(s) ==
    /\ s.mark > 0 => Cached(s) \/ s.pending > 0
    /\ s.tomb > 0 => ~Cached(s) /\ s.pending > 0 /\ s.tomb = s.mark
    /\ Cached(s) => s.version = s.mark

\* The version marks and tombstones are bounded by the live keys plus the
\* keys with outstanding flushes (_maybe_prune_marks_locked's comment), and
\* the three maps agree with the entries: a live entry carries the key's
\* current version and no tombstone, a tombstone is the current version.
MetadataBounded == \A k \in Keys : Coherent(slot[k])

\* pending_flushes[k] is exactly the number of flush jobs for k that are
\* outstanding: no path through enqueue, rejection, skip, retry, success or
\* failure leaks a count or releases one twice.
PendingExact ==
    \A k \in Keys :
        slot[k].pending =
              Cardinality({i \in DOMAIN queue : queue[i].key = k})
            + Cardinality({c \in Clients : \E j \in hand[c] : j.key = k})
            + Cardinality({w \in Workers : wpc[w] # "idle" /\ wjob[w].key = k})

\* is_stale_write_back judges an outstanding job stale exactly when a later
\* put or delete of its key has been accepted, however jobs, retries,
\* evictions and expirations interleave.
StaleIffSuperseded ==
    \A j \in Outstanding : IsStale(slot[j.key], j) <=> j.write # writes[j.key]

\* No shard holds more entries than its capacity between two lock sections.
CapacityHeld ==
    \A i \in 1 .. ShardCount : Cardinality(Live(slot, i)) <= ShardCapacity(i)

\* An entry that is not dirty is what the source of truth holds.
CleanMeansPersisted ==
    \A k \in Keys :
        Cached(slot[k]) /\ ~slot[k].dirty => source[k] = slot[k].write

\* The source of truth never goes back to an older write of a key.
SourceNeverRegresses == [][\A k \in Keys : source'[k] >= source[k]]_vars

\* The newest write of a key is never lost without a trace: it has reached the
\* source of truth, or its job is outstanding, or its entry is cached and
\* dirty (close() flushes it), or its flush failure was reported.
NoSilentLoss ==
    \A k \in Keys :
        \/ source[k] = writes[k]
        \/ \E j \in Outstanding : j.key = k /\ j.write = writes[k]
        \/ Cached(slot[k]) /\ slot[k].dirty /\ slot[k].write = writes[k]
        \/ writes[k] \in reported[k]

\* Every registered flush is settled in the end, and so the key's marks and
\* tombstones can be pruned.
FlushesSettle == \A k \in Keys : slot[k].pending > 0 ~> slot[k].pending = 0

\* Every accepted write reaches the source of truth in the end, unless a later
\* write of its key supersedes it or its flush failure is reported.
WritesReachSource ==
    \A k \in Keys : \A n \in 1 .. MaxWrites[k] + 1 :
        writes[k] = n ~> \/ source[k] = n
                         \/ writes[k] # n
                         \/ n \in reported[k]

=============================================================================
