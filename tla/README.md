# CacheLab: TLA+ verification project

CacheLab is a thread-safe, sharded, in-memory cache with eviction policies, TTLs,
single-flight loading, a pool of background workers, three write modes (cache-only,
write-through, write-back) and a command line tool that keeps a cache in a state file.
This directory holds TLA+ models of it, the TLC configurations that check them on small
instances, and TLAPS proofs of the main properties for every instance. Source paths below
are relative to `src/cachelab/` in the repository; `PROJECT.json` maps every definition to
its lines.

## 1. The system: inventory

| Part | Code | State | Where it is modelled |
| --- | --- | --- | --- |
| Write-back pipeline: put, delete, clear, enqueue, flush, retry | `core/cache.py`, `workers/write_back_worker.py`, `workers/messages.py` | version marks, tombstones, pending counts, dirty flags, jobs | `WriteBack`, `WriteBackProofs`, `FlushProofs` |
| Job queue | `workers/queue.py` | bounded FIFO | `WriteBack` (flush jobs), `Shutdown` (droppable jobs, sentinels, join, drain) |
| Worker pool | `workers/worker_pool.py`, `workers/shutdown.py` | threads, the job in hand, stop event | `WriteBack`, `Shutdown` |
| Lifecycle, shutdown flush | `core/cache.py` (`start`, `close`, `_flush_dirty_entries_sync`), `core/lifecycle.py` | lifecycle state and lock | `Shutdown`, `ShutdownProofs`, `CloseProofs` |
| Expiration scheduler | `workers/scheduler.py` | next tick, stop event | `Shutdown` |
| Eviction policies | `policies/*.py` | LRU and FIFO orders, LFU buckets | `EvictionPolicies`, `PolicyHistory`, `WriteBackPolicy`, `PolicyProofs`, `WriteBackPolicyProofs` |
| Single-flight loading | `core/cache.py` (`get_or_compute`), `concurrency/singleflight.py` | registered flights and their events | `SingleFlight`, `ShardProofs` |
| Entries, TTLs, expiration, clock | `core/entry.py`, `core/clock.py`, `workers/expiration_worker.py` | deadlines | `Shard`, `TtlMap`, `ShardProofs` |
| Cache-only and write-through modes | `core/cache.py`, `storage/write_modes.py` | entries and source, changed under one lock | `Shard` |
| Statistics | `core/stats.py` | counters per shard | `Shard` (counters); snapshots left out |
| Source of truth | `storage/slow_dict.py` | values, injected failures | `Shard`, `WriteBack` |
| Shards and capacity | `concurrency/shards.py`, `storage/memory.py` | entries per shard | `Shard`, `WriteBack`, `ShardProofs`, `WriteBackProofs` |
| State file and its lock | `storage/serialization.py` | lock file, state file | `StateFileLock`, `CliStateProofs` |
| CLI state commands | `cli/commands/basic.py` | entries with the time they have left, in a file | `CliState`, `CliStateProofs` |
| Key hashing | `concurrency/hashing.py` | none | a fixed function from keys to shards |
| Configuration, locks | `core/config.py`, `concurrency/locks.py` | none that matters | ASSUMEs; a lock section is one step |
| Workloads, benchmarks, demos, rendering, logging, `teaching/` | `workloads/`, `cli/`, `observability/`, `teaching/` | none of the cache's own | not modelled |

The parts interact in one direction. A client call first looks, under the lifecycle lock,
whether the cache is open. It then changes one shard under that shard's lock and, in
write-back mode, leaves a flush job to be enqueued after the lock is released. A worker
takes the job, decides under the shard lock whether a later write has superseded it, calls
the source of truth without any lock, and settles the job under the shard lock again.
`close()` holds the lifecycle lock from beginning to end and does the same three sections
itself for what the workers left. These sections are what interleaves, and most of the
hazards in `PROJECT.json` are about what may happen between them. The command line tool
stands apart: its processes share nothing but the state file and its lock file.

## 2. The modules

**`WriteBack`** — write-back mode between `start()` and `close()`. A key's slot holds its
entry (version, write number, dirty flag), its version mark, its tombstone and its
pending-flush count; `0` stands for "absent from that dict". Values are abstracted to the
number of the write of the key that produced them. One action is one critical section:
`Put`, `Delete`, `StartClear`/`ClearShard` (one step per shard), `Expire` (lazy or active
removal of an expired key at any moment), `Enqueue`/`EnqueueTimeout`/`Release`
(`_enqueue_flush_jobs`, with backpressure), and for a worker `Take`, `Skip` or `Pass` (the
staleness check), `Apply` or `ApplyFails` (the source call), `Settle`, `Retry`,
`RetryTimeout`, `GiveUp`. `EvictsNewest` says whether the policy may choose the key just
put as its victim. `writes` and `reported` are history variables.

**`Shutdown`** — the whole life of a write-back cache. It extends `WriteBack` and adds the
lifecycle state, the check at the beginning of each call (`Admit`, then `Section`), the
pool's start, the scheduler (`SchedulerWakes`, `TickShard`), expire and preload jobs and
sentinels on the workers, and the thread in `close()`: stop the scheduler, `Collect` and
`Offer` the dirty entries and tombstones of each shard, join the queue or time out
(`Joined`, `JoinTimeout`), flush what is left synchronously (`Gather`, `SyncSkip`,
`SyncPass`, `SyncWrite`/`SyncWriteFails`, `SyncMark`, `SyncClear`), stop the pool
(`StopPool`, `OfferStop`, `ThreadsJoined`), `Drain` and `Closed`. A worker that runs a
preload is a client too: its `put()` needs the lifecycle lock that `close()` holds while it
joins the workers. `overlap` (keys with a caller's write in flight during `close()`) and
`discarded` (writes whose jobs `drain()` threw away) are history.

**`EvictionPolicies`** — LRU, FIFO and LFU as operators on their data structures, with
`LFUPolicy._bump` and the incremental `_min_freq`. **`PolicyHistory`** drives all three
with the same calls and compares each candidate with the key the call history designates.
**`WriteBackPolicy`** composes a real policy with `WriteBack`: the same steps, each
telling the policy what the code tells it, and the victim being the policy's candidate.

**`SingleFlight`** — `get_or_compute` for one key: leaders that register a flight, load,
store through `put()` and publish or fail; waiters; `DeleteOrClear`, which unregisters the
flight; entries that vanish by expiry or eviction.

**`Shard`** — one shard in cache-only or write-through mode. Every operation holds the
shard lock throughout, the source call included, so it is one action; it reads the clock
first and the source may take time. The actions are `Read` (`get`, `contains`),
`Inspect`, `Dump`, `Put`, `Delete`, `Clear`, their failing variants, `ExpireShard` and
`Tick`. A deadline of `0` is "no expiry". Eviction may choose any victim.
**`TtlMap`** is what the shard promises: a map whose entries are gone from the instant of
their deadline on, in which a put may lose at most one key. `Shard` implements it with
`content <- Visible`, the entries that have not expired.

**`StateFileLock`** — processes that create the lock file exclusively, or find it, judge it
stale in one step and remove it in another, wait, time out, release, or are killed while
they hold it. An unlink may fail and removes whatever file is there. `broken` is history: a
lock file was removed under a live holder.
**`CliState`** extends it with what happens inside the lock: `Load` the state file into a
fresh cache, one command (`PutCommand`, `DeleteCommand`, `ClearCommand`, or one that only
reads), `Save`. `TtlFromStateItem`, `LoadCacheState` and `SaveCacheState` are the
conversions between deadlines and the time that is left, older `expires_wall` items and
unreadable ones included; `AtPositions` is the loop that keeps the elements that are not
skipped. A state file is one the tool wrote: each item has a key of its own
(`InitialFilesAssumption`).

`MCWriteBack`, `MCWriteBackPolicy`, `MCShard`, `MCShutdown` and `MCCliState` add the
definitions and symmetry sets that TLC needs. Definitions commented "A faulty variant" are
what a plausible bug would make of the definition they precede; no specification uses
them. They show that each property can fail.

## 3. The runs

| Run | Checks | Instance |
| --- | --- | --- |
| `wb_one_worker` | types, `MetadataBounded`, `PendingExact`, `StaleIffSuperseded`, `CapacityHeld`, `CleanMeansPersisted`, `NoSilentLoss`, `SourceNeverRegresses` | 2 clients, 1 worker, 2 keys for 1 entry, queue of 2, 1 retry, 2 faults |
| `wb_race` (violation) | `CleanMeansPersisted` with two workers | 1 client, 2 workers |
| `wb_live` | `FlushesSettle`, `WritesReachSource` | 2 shards, queue of 1, 1 retry, 2 faults, `clear()` |
| `wb_policies` | `PolicyTracksEntries`, `ImplementsWriteBack` | LRU and FIFO, 3 keys for 2 entries |
| `wb_lfu` (violation) | `NoSilentLoss` with the real LFU policy | 2 keys for 1 entry |
| `policies` | the victim of each policy, the LFU buckets | 3 keys, 9 calls |
| `single_flight` | `RegisteredIsLed`, `NoOrphanedWaiter`, `LeadersAreDistinct`, `LoadersCollapse`, `CallsReturn` | 3 threads, 4 flights, 2 deletes |
| `single_flight_delete` (violation) | `OneLoaderSinceDelete` | the same |
| `shard_write_through` | types, `MarksMatchEntries`, `StatsBalance`, `SourceAgrees`, `CapacityHeld`, `ImplementsTtlMap` | 3 keys for 2 entries, source delay 1, 1 fault, 4 calls, clock to 3 |
| `shutdown` | `MetadataBounded`, `CloseAccountsForWrites`, `NoDirtyEntryLeft`, `CloseReturns`, `WorkersEnd` | 1 caller, 1 worker, scheduler on, 2 keys for 1 entry, queue of 1, 1 fault, 2 calls or ticks |
| `shutdown_drain` (violation) | `CloseFlushesEverything` | 1 caller, no worker |
| `cli_state` | `ExclusiveUnlessBroken`, `FileWellFormed`, `NoLostUpdate`, `OtherKeysSurvive`, `CommandsEnd` | 2 processes, 3 keys, capacity 2, clock to 3, two initial files |

What they show, taken together:

* With one worker and a policy that spares the key just put (which LRU and FIFO do, by
  `ImplementsWriteBack`), write-back never loses a write silently, never lets the source
  of truth go back and never leaks a version mark, a tombstone or a pending count. With
  more workers the bookkeeping stays exact, but the data does not (see Findings).
* `close()` returns whatever the workers do, the workers end, and a `close(flush=True)` that
  raises nothing has persisted, or reported before, the newest write of every key that no
  caller was writing at the time — with the exception of jobs that `drain()` throws away
  when no worker was ever started (see Findings).
* Outside write-back mode a shard is a map with deadlines, and agrees with the source.
* Commands of the tool exclude each other unless a lock file is removed under its holder,
  and until then no save overwrites a state it has not read or changes a key that is not
  its own.

**Bounds and why they are enough.** Every bound is a constant with the comment "bound".
Two keys and one entry make every put of the other key evict; two writes per key are what
it takes to supersede a job, and two of each key with a retry and two faults lets the
older job land behind the newer one. `clear()` needs a write number beyond the bound for
each key it tombstones, hence `MaxWrites[k] + 1` in `WritesReachSource`. A queue of one
place makes both clients and workers meet a full queue; a queue of two is needed for a
retry to queue behind a newer job. Nine policy calls on three keys reach LFU frequencies at
which the lowest bucket empties and the next one in use is not the next number. Three
threads and two deletes let a stale leader unregister a second leader's flight and a third
thread start a loader. For `Shard`, TTLs of 1 and 2 and a clock to 3 let an entry expire, be
overwritten at the instant of its deadline, and expire again; two entries are what it takes
for `clear()` to fail half way; a source delay of 1 lets an entry be stored when it has
already expired. In `shutdown`, two calls are enough for a write that is queued, one that is
dirty in the cache and a preload that meets the closing lock, and a queue of one place makes
`Offer`, the sentinels and the ticks find it full. In `cli_state` a lock is stale after 2 and
a process gives up after 1, so a process can wait out a dead holder or time out on a live
one; one initial file is of the older format with an unreadable item, the other holds more
items than the capacity.

Deadlock is checked in every run: a state in which nothing is outstanding allows a
stuttering step (`Quiet`, `Over`, `Done`), any other state must allow a real one.

**Fairness.** `WriteBack!Fairness` is weak fairness of each worker's step and of each
client's progress inside a call: threads are scheduled by the operating system, workers
loop on `queue.get` with a timeout, and a blocked `queue.put` returns within
`queue_put_timeout`. Nothing obliges a client to start a call. `Shutdown!LifeFairness` adds
the scheduler's tick once begun and the thread in `close()`, whose waits all have timeouts;
nobody has to call `close()`, and
a call that was admitted may be delayed for ever before its first lock section.
`SingleFlight!FlightFairness` is weak fairness of each thread's progress inside `get_or_compute`; a
loader that never returns is outside what the code can promise. `CliState!CliFairness` is
weak fairness of each started process, which may still be killed at any point while it holds
the lock, and of the clock. `Shard` claims no liveness.

## 4. Findings

Four disagreements between the code and what its documents say, each the counterexample
of a run marked "violation":

* `wb_race`: `_flush_write_back_job` checks staleness under the shard lock and writes to
  the source after releasing it. With two workers an older write can land after a newer
  one, whose entry is then marked clean.
* `wb_lfu`: `put()` enforces capacity before it registers the pending flush. With LFU the
  key just put can be the victim; its mark is pruned and its flush job is skipped as stale,
  with nothing reported.
* `single_flight_delete`: a leader removes the registration of its key even when a delete
  has replaced it by a later flight, so a further miss starts a second concurrent loader.
* `shutdown_drain`: without workers, the flush job of an entry that was evicted or expired
  before `close(flush=True)` is in no place but the queue; `drain()` throws it away and
  `close()` reports success.

Other behaviours the models show, which no document excludes:

* A `put()` admitted before `close()` may store its entry after the synchronous flush, and
  its job goes to a queue nobody reads; `CloseAccountsForWrites` leaves such keys out
  (`overlap`).
* The synchronous flush clears all pending counts of a key whose job went stale, those of a
  call that is still enqueuing included; `MetadataBounded` holds nevertheless.
* `close()` joins the workers while it holds the lifecycle lock a preloading worker needs.
  The joins time out, the flush counts as failed although every write may have been
  persisted, and the worker ends after `close()` has returned.
* A delete flush whose retries are exhausted prunes its tombstone, so that
  `close(flush=True)` cannot try it again; only `flush_failures` tells.
* A lock file that was judged stale, or could not be inspected, may be removed after another
  process has taken it afresh, and `__exit__` removes whatever file is there. Hence
  "unless broken" in the properties of the lock.
* `inspect` and `dump` remove the expired entries they meet, which the repository's README
  denies and a comment in the code states.

## 5. The proofs

All proofs are for arbitrary values of the constants under the named ASSUMEs: finite sets of
keys and threads, the ranges that `CacheConfig` validates, model values distinct from the
values they are told apart from (`NoneAssumption`: `None` is not a key), and initial state
files with one item per key. TLC evaluates the same ASSUMEs in the runs.

**`WriteBackProofs`** — `TypeCorrect` and `MetadataStaysBounded`. The inductive invariant is
`Inv == TypeOK /\ BusyHoldsJob /\ MetadataBounded`: a worker that is not idle holds a job
(needed because its steps read the job's key), and each slot is coherent. Coherence is
preserved slot by slot: one lemma per helper on slots (`RemoveEntryCoherent`,
`StoreEntryCoherent`, `ResolvePendingCoherent`, ...), then one step per action. The eviction
policy is arbitrary, so the result covers LFU too.

The same module proves `PendingStaysExact`: the pending counts are exact for any number of
clients and workers and any policy. The invariant is `CountInv == Inv /\ HandsInOrder /\
PendingExact`. `HandsInOrder` is what the sum of cardinalities needs: a client holds at most
one job per key, none when it is idle, and during `clear()` only jobs of shards already
done, so that the next shard adds fresh keys. `CountAppend`, `CountTail`, `CountHand` and
`CountWorker` say how each of the three cardinalities moves; each action combines two of
them.

`CapacityStaysHeld` in the same module: no shard exceeds its share, whatever is evicted.
Only `put()` makes a key live, and `EvictionsSuffice` bounds what it leaves.

**`FlushProofs`** — what the flush jobs may do, when the policy spares the key just put.
`StalenessIsExact` holds for any number of workers. Its invariant `NumberInv` adds to
`CountInv` that every outstanding job is `Numbered`: its version equals the key's mark
exactly if it carries the latest write, and then the tombstone fits its operation. The count
is needed because only a positive count keeps a mark from being pruned, and with it the
versions from starting over (`SlotMarks`, `StepNumbered`). `CleanIsPersisted`,
`NothingLostSilently` and `SourceMovesForward` also assume a single worker. Their invariant
`FlushInv` adds that a cached entry is the latest write, that the source is never ahead of
the writes, that a job about to be applied is no older than what the source holds, that a
job being settled is what the source holds, that a job being given up has been reported, and
that the latest write is in the source, outstanding or reported. Both assumptions are
necessary: `wb_race` and `wb_lfu` refute the properties without them.

**`PolicyProofs`** — the policies after any sequence of calls: `PolicyTypes`, `LruIsRight`,
`FifoIsRight`, `LfuBucketsRight` and `LfuIsRight`. The history keeps, per key, the times of
its insertion and last use and how often it was used; the invariant `PolicyInv` relates the
order of each data structure to them. The LRU and FIFO orders are sorted by the time that
matters; an LFU bucket holds the keys of its frequency sorted by last use.
`LfuBucketsPartition` is needed with it: `_min_freq` names a bucket only because it is the
lowest one in use, which `_bump` must preserve when it empties the lowest bucket.

**`WriteBackPolicyProofs`** — the policies inside the pipeline. `PoliciesTrackEntries` holds
for all three: its invariant `Inv /\ PoliciesFollow` says that the bookkeeping is well
formed (LRU and FIFO orders hold no key twice; LFU's buckets hold keys of the shard) and
tracks exactly the live keys of its shard. `OrderedPoliciesSpareNewest`, for LRU and FIFO,
is the refinement of `WriteBack` with either value of `EvictsNewest`; `FALSE`, a policy that
spares the key just put, is the one that matters. It adds `CapacityHeld` to the invariant: a
put that overflows a shard found it full, so there is an older key in front of the new one
(`VictimsAreChoices`, `OrderedPut`); the other actions map to themselves and `Get` to a
stutter (`OrderedStep`). `OrderedPoliciesLoseNothing` and `OrderedPoliciesPersist` carry the
results of `FlushProofs` over to the two real policies, with one worker.

**`ShutdownProofs`** — the whole life of the cache, for any numbers of callers, workers and
shards, and any policy. `LifeTypes` and `LifeKeepsMetadataBounded` use the lemmas of
`WriteBackProofs` on the wider state, which is why those are stated for any set of jobs and
of worker phases (`Good(J, P)`); the steps of the closer and the other kinds of job are
added. `NoDirtyEntryIsLeft` needs `LifeInv == LifeTyped /\ PhaseInv /\ DirtyCovered`.
`PhaseInv` says which threads may still run in each phase of `close()`, and that no preload
puts anything once the queue was joined; `DirtyCovered` that, while the flush has not
failed, it has yet to come to every dirty entry (`Ahead`), but for keys written during
`close()`. At the end nothing is ahead.

**`CloseProofs`** — `CloseAccountsForAllWrites`: what `close(flush=True)` promises, for any
numbers of keys, callers, shards, writes and retries, with at most one worker (none
included) and a policy that spares the key just put. The invariant `CloseInv` has two
halves, because the synchronous flush clears pending counts while jobs are still
outstanding, after which the counts say nothing any more. Until the queue is joined,
`EarlyInv` is the invariant of `FlushProofs` over the wider state: the jobs the closer holds
while it queues dirty entries are counted and numbered like those of a client. `FlushGood(J,
P, X)` in `FlushProofs` is stated for this use, with the jobs and worker phases there are
and the set `X` of jobs one more thread holds; `FlushInv` is the case without such a thread.
`Joined` finds no unfinished job if the pool runs, so the newest write of each key is in the
source or was reported; if no worker was ever started it may still be queued. From then on `LateInv`
follows each key outside `overlap` (`LateKey`): its entry is the newest write and is dirty
or in the source, what the closer holds for it is that write, and the write stays saved
until `close()` returns, or queued or drained without workers. This uses `PhaseInv`, that no
preload is under way (`PreloadsOnly`), that what callers still hold is of keys in `overlap`
(`CallsNoted`), and that only a started pool is stopped (`PoolStops`).

**`ShardProofs`** — the invariants of the shard and `Implementation`, that it implements
`TtlMap`, in both modes. The invariant is `TypeOK /\ CapacityHeld /\ MarksMatchEntries /\
StatsBalance /\ SourceAgrees`. Steps are grouped by what they do to the entries: those that
only collect expired keys (`Collects`), those that delete keys (`Deletes`), `Put`, and those
that change no entry. `Put` rests on `VictimsOfPut`: since the shard was within its
capacity, at most one key is evicted. The refinement then goes through `Seen(e, t)`, what is
visible of an entry at time `t`: `SeenLater` says how it ages, `SeenRemoval` and
`SeenCollection` that removing expired keys is not seen at all, and one lemma per action
maps it to a step of `TtlMap` or a stutter.

The single-flight results are a second part of the same module, independent of the first:
`JoinsALiveFlight` (the registered flight is led), `OneLeaderPerFlight`, `NoLostWakeup`
(nobody waits on a flight that is neither led nor settled) and `LoadersBounded`.
`NoOrphanedWaiter` is not inductive alone: a step that settles a flight must be known to
settle the flight of exactly one leader (`LeadersAreDistinct`), a joiner needs
`RegisteredIsLed`, and a new flight must be fresh (`StartedFlights`). `LoadersBounded`
counts the leaders.

**`CliStateProofs`** — `CliImplementsLock`: a command uses the lock only as `StateFileLock`
allows. Hence `CommandsExcludeEachOther`, from the invariant that, while nothing was broken,
whoever is inside owns the lock file; and `SavesAreSerial` (`NoLostUpdate`), from the
invariant that what a process inside has loaded is then the current file.
`FileStaysWellFormed` and `OtherKeysAreKept` (`OtherKeysSurvive`) rest on `FileInv`: the
file and every cache hold each key once and the caches respect the capacity (`Sound`), and,
while nothing was broken, a cache that was loaded is `LoadCacheState` of the current file,
and one that was changed is `Carried` from it: an entry of an untouched key is the one the
item loads to. `LoadSound`, `PutSound`, `WithoutSound` and `SaveSound` say what each
conversion keeps. All of them go through `AtPositions`, whose result is characterised by
`AtPositionsSelects`: it enumerates exactly the chosen positions in order. This is proved
without an induction schema, by taking the least prefix for which it would fail (`UpTo`).

**Only model-checked.** Liveness (`FlushesSettle`, `WritesReachSource`, `CallsReturn`,
`CloseReturns`, `WorkersEnd`, `CommandsEnd`) is out of the prover's reach. Every safety
property of a passing run is proved; those of the violation runs are false, and the theorems
that share their names say under which assumptions they hold (`OneLoaderSinceDelete` and
`CloseFlushesEverything` hold under none: `LoadersBounded` and `CloseAccountsForAllWrites`
are what is true instead). Cache-only mode is covered by the proofs alone, which treat both
modes of `Shard`; and the bookkeeping of several workers by the proofs and, on the way to
its counterexample only, by `wb_race`.

## 6. Not modelled

* Values, access times and hit counts of entries (but for those in the state file), log
  events, and metrics that no property is about.
* Composition of single-flight with the other operations beyond their effect on the flight
  (an entry appears, disappears, is deleted): loaders call `put()`, whose own behaviour is
  in `Shard` and `WriteBack`.
* The order in which `clear()` meets the keys of a shard: any order is allowed.
* Floating-point time: the clock is a natural number; only comparisons and differences
  matter.
* `SnapshotStats` jobs and the aggregation of counters into snapshots: they read and store
  numbers no other part uses. (Two workers may store their snapshots out of order, so
  that `last_snapshot()` goes back.) A second `close()` returns at once.
* The command line tool with `--shards` other than 1, where the victim of an eviction depends
  on the hash of the key; argument parsing; what commands print.
* Key canonicalisation and hashing (`concurrency/hashing.py`) and TOML configuration are
  conversions of Python values without state; a model of them would restate them.
* Workloads, benchmarks, demos, rendering and logging drive or display the cache and have no
  state of its own; `teaching/` is deliberately unsafe code.
