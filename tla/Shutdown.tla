------------------------------ MODULE Shutdown ------------------------------
(***************************************************************************)
(* The life of a write-back cache, from construction over start() to the   *)
(* end of close(): WriteBack composed with the lifecycle lock, the worker  *)
(* pool's start and stop, the expiration scheduler, preload jobs and the   *)
(* thread that closes the cache.                                           *)
(*                                                                         *)
(* close() holds the lifecycle lock until the cache is closed.  Every call *)
(* of the public interface takes that lock once, at its beginning, to see  *)
(* that the cache is open; a preload job makes such a call on a worker.    *)
(***************************************************************************)
EXTENDS WriteBack

CONSTANTS
    Callers,            \* the client threads proper
    ActiveExpiration,   \* config.active_expiration
    MaxCalls            \* bound: calls of the callers and ticks of the scheduler

\* A worker that runs a preload job is a client as well.
ASSUME ClientsAssumption ==
    /\ Clients = Callers \cup Workers
    /\ Callers \cap Workers = {}
    /\ ActiveExpiration \in BOOLEAN
    /\ MaxCalls \in Nat

VARIABLES
    lifecycle,  \* LifecycleState
    admitted,   \* the threads whose call has found the cache open
    pool,       \* the worker pool: "new", "running", "stopping" or "stopped"
    sched,      \* the shard the scheduler thread handles next, or what it does
    calls,      \* calls and ticks so far
    closer,     \* the thread in close()
    overlap,    \* history: keys with a call of a client in flight during close()
    discarded   \* history: writes whose jobs drain() threw away, per key

lifeVars == <<lifecycle, admitted, pool, sched, calls, closer, overlap,
              discarded>>

allVars == <<vars, lifeVars>>

\* The jobs that are not flush jobs.
StopWorker == [kind |-> "stop"]
ExpireShard(i) == [kind |-> "expire", shard |-> i]
PreloadKey(k) == [kind |-> "preload", key |-> k]

HeadIs(kind) ==
    /\ queue # <<>>
    /\ IF "kind" \in DOMAIN Head(queue) THEN Head(queue).kind = kind
                                        ELSE kind = "flush"

\* The scheduler thread does not run, or is between two ticks.
Off == -1
Waiting == 0

LifeInit ==
    /\ Init
    /\ lifecycle = "created"
    /\ admitted = {}
    /\ pool = "new"
    /\ sched = Off
    /\ calls = 0
    /\ closer = [pc |-> "idle", step |-> 1, jobs |-> {}, job |-> NoJob,
                 flush |-> FALSE, failed |-> FALSE]
    /\ overlap = {}
    /\ discarded = [k \in Keys |-> {}]

\* close() has begun; it holds the lifecycle lock unless it is through.
Closing == closer.pc # "idle"

LifecycleLockFree == closer.pc \in {"idle", "closed"}

-----------------------------------------------------------------------------
(* start() and the calls of the clients.                                   *)

\* config.worker_count > 0; preload() raises without.
HaveWorkers == Workers # {}

\* WorkerPool.start: without workers the pool is never started.
PoolStart == pool' = IF HaveWorkers THEN "running" ELSE pool

\* ExpirationScheduler.start, which start() calls if it has workers.
SchedulerStart ==
    sched' = IF ActiveExpiration /\ HaveWorkers THEN Waiting ELSE sched

\* start() of a cache that was not started; it changes nothing in a started
\* cache and raises in a closed one.
Start ==
    /\ lifecycle = "created"
    /\ lifecycle' = "started"
    /\ PoolStart
    /\ SchedulerStart
    /\ UNCHANGED <<vars, admitted, calls, closer, overlap, discarded>>

Open == LifecycleLockFree /\ lifecycle \in {"created", "started"}

\* _require_not_closed passes.
Admit(c) ==
    /\ cpc[c] = "idle"
    /\ c \notin admitted
    /\ calls < MaxCalls
    /\ calls' = calls + 1
    /\ Open
    /\ admitted' = admitted \cup {c}
    /\ UNCHANGED <<vars, lifecycle, pool, sched, closer, overlap,
                   discarded>>

\* The keys client c writes in this step are at risk if close() has begun.
NoteOverlap(c) ==
    overlap' = IF Closing /\ c \in Callers
               THEN overlap \cup {k \in Keys : writes'[k] # writes[k]}
               ELSE overlap

\* The first lock section of an admitted call: put, delete, clear, or a read
\* that may find the entry expired.
Section(c) ==
    /\ c \in admitted
    /\ admitted' = admitted \ {c}
    /\ \/ \E k \in Keys : Put(c, k) \/ Delete(c, k) \/ Expire(k)
       \/ StartClear(c)
    /\ NoteOverlap(c)
    /\ UNCHANGED <<lifecycle, pool, sched, calls, closer, discarded>>

\* preload(): a droppable job.
Preload(c) ==
    /\ c \in admitted
    /\ HaveWorkers
    /\ admitted' = admitted \ {c}
    /\ \E k \in Keys :
           queue' = IF Room THEN Append(queue, PreloadKey(k)) ELSE queue
    /\ UNCHANGED <<slot, cpc, nextShard, hand, wpc, wjob, source, faults, writes,
                   reported, lifecycle, pool, sched, calls, closer, overlap,
                   discarded>>

Continue(c) ==
    /\ ClientProgress(c)
    /\ NoteOverlap(c)
    /\ UNCHANGED <<lifecycle, admitted, pool, sched, calls, closer,
                   discarded>>

-----------------------------------------------------------------------------
(* The scheduler and the workers.                                          *)

\* ExpirationScheduler._run: the wait times out.  Once the stop event is set
\* the thread ends instead.
SchedulerWakes ==
    /\ sched = Waiting
    /\ ~Closing
    /\ calls < MaxCalls
    /\ calls' = calls + 1
    /\ sched' = 1
    /\ UNCHANGED <<vars, lifecycle, admitted, pool, closer, overlap, discarded>>

\* tick_once: one droppable ExpireShard job per shard.
TickShard ==
    /\ sched \in 1 .. ShardCount
    /\ queue' = IF Room THEN Append(queue, ExpireShard(sched)) ELSE queue
    /\ sched' = IF sched = ShardCount THEN Waiting ELSE sched + 1
    /\ UNCHANGED <<slot, cpc, nextShard, hand, wpc, wjob, source, faults, writes,
                   reported, lifecycle, admitted, pool, calls, closer,
                   overlap, discarded>>

\* A worker takes a job that is not a flush job.
TakeOther(w, kind) ==
    /\ pool # "new"
    /\ wpc[w] = "idle"
    /\ HeadIs(kind)
    /\ wjob' = [wjob EXCEPT ![w] = Head(queue)]
    /\ queue' = Tail(queue)
    /\ Goto(w, kind)
    /\ UNCHANGED <<slot, cpc, nextShard, hand, source, faults, writes, reported,
                   lifeVars>>

\* _expire_shard on a worker: which entries have expired is open.
RunExpire(w) ==
    /\ wpc[w] = "expire"
    /\ \E E \in SUBSET Live(slot, wjob[w].shard) :
           slot' = [k \in Keys |-> IF k \in E THEN RemoveEntry(slot[k])
                                              ELSE slot[k]]
    /\ Finish(w)
    /\ UNCHANGED <<queue, cpc, nextShard, hand, source, faults, writes, reported,
                   lifeVars>>

\* _handle_job of a preload: the loader raises and the job is over.
LoaderFails(w) ==
    /\ pool # "new"
    /\ wpc[w] = "idle"
    /\ HeadIs("preload")
    /\ queue' = Tail(queue)
    /\ UNCHANGED <<slot, cpc, nextShard, hand, wpc, wjob, source, faults, writes,
                   reported, lifeVars>>

\* The put() of what it loaded has to get past the lifecycle lock, and fails in a closed cache.
PreloadAdmit(w) ==
    /\ wpc[w] = "preload"
    /\ \/ /\ Open
          /\ admitted' = admitted \cup {w}
          /\ Goto(w, "putting")
          /\ UNCHANGED wjob
       \/ /\ lifecycle = "closed"
          /\ Finish(w)
          /\ UNCHANGED admitted
    /\ UNCHANGED <<slot, queue, cpc, nextShard, hand, source, faults, writes,
                   reported, lifecycle, pool, sched, calls, closer, overlap,
                   discarded>>

PreloadPut(w) ==
    /\ wpc[w] = "putting"
    /\ w \in admitted
    /\ admitted' = admitted \ {w}
    /\ PutCall(w, wjob[w].key)
    /\ UNCHANGED <<lifecycle, pool, sched, calls, closer, overlap,
                   discarded>>

PreloadDone(w) ==
    /\ wpc[w] = "putting"
    /\ w \notin admitted
    /\ cpc[w] = "idle"
    /\ Finish(w)
    /\ UNCHANGED <<slot, queue, cpc, nextShard, hand, source, faults, writes,
                   reported, lifeVars>>

\* WorkerPool._run: the worker takes a sentinel and ends.
TakeStop(w) ==
    /\ wpc[w] = "idle"
    /\ HeadIs("stop")
    /\ queue' = Tail(queue)
    /\ Goto(w, "exited")
    /\ UNCHANGED <<slot, cpc, nextShard, hand, wjob, source, faults, writes,
                   reported, lifeVars>>

\* A faulty variant: only the sentinels end a worker, which polls for ever.
IdleStopNever(w) ==
    /\ wpc[w] = "idle"
    /\ queue = <<>>
    /\ UNCHANGED allVars

\* WorkerPool._run: the worker finds the queue empty and the stop event set.
IdleStop(w) ==
    /\ wpc[w] = "idle"
    /\ queue = <<>>
    /\ pool \in {"stopping", "stopped"}
    /\ Goto(w, "exited")
    /\ UNCHANGED <<slot, queue, cpc, nextShard, hand, wjob, source, faults,
                   writes, reported, lifeVars>>

FlushStep(w) ==
    /\ pool # "new"
    /\ wpc[w] = "idle" => HeadIs("flush")
    /\ WorkerStep(w)
    /\ UNCHANGED lifeVars

PoolStep(w) ==
    \/ FlushStep(w)
    \/ TakeOther(w, "expire") \/ RunExpire(w)
    \/ TakeOther(w, "preload") \/ LoaderFails(w)
    \/ PreloadAdmit(w) \/ PreloadPut(w) \/ Continue(w) \/ PreloadDone(w)
    \/ TakeStop(w) \/ IdleStop(w)

-----------------------------------------------------------------------------
(* close().                                                                *)

\* CLOSING is set and the scheduler's stop event with it.
BeginClose(flush) ==
    /\ closer.pc = "idle"
    /\ lifecycle' = "closing"
    /\ closer' = [closer EXCEPT !.pc = "scheduler", !.flush = flush]
    /\ overlap' = {j.key : j \in UNION {hand[c] : c \in Callers}}
    /\ UNCHANGED <<vars, admitted, pool, sched, calls, discarded>>

\* The scheduler's thread has ended or the join times out; then the dirty
\* entries are collected, or the pool is stopped at once.
SchedulerJoined ==
    /\ closer.pc = "scheduler"
    /\ closer' = [closer EXCEPT !.pc =
                     IF closer.flush THEN "collect" ELSE "stop"]
    /\ UNCHANGED <<vars, lifecycle, admitted, pool, sched, calls, overlap,
                   discarded>>

\* The flush jobs of a shard: its dirty entries and its tombstones.
DirtyJobs(i) ==
    {FlushJob(k, slot[k].version, slot[k].write, "put") :
        k \in {x \in Live(slot, i) : slot[x].dirty}}
    \cup
    {FlushJob(k, slot[k].tomb, writes[k], "delete") :
        k \in {x \in Keys : ShardOf[x] = i /\ slot[x].tomb > 0}}

\* The closer has no job left in its hands: on to the next shard, in phase
\* "again", or to phase "then" after the last shard.
NextPhase(c, jobs, busy, again, then) ==
    IF jobs # {} THEN [c EXCEPT !.pc = busy, !.jobs = jobs, !.job = NoJob]
    ELSE IF c.step < ShardCount
    THEN [c EXCEPT !.pc = again, !.step = @ + 1, !.jobs = {}, !.job = NoJob]
    ELSE [c EXCEPT !.pc = then, !.step = 1, !.jobs = {}, !.job = NoJob]

\* The puts come before the deletes.
CloserJobs ==
    {j \in closer.jobs : j.op = "put" \/ \A i \in closer.jobs : i.op = "delete"}

\* _enqueue_dirty_write_back_jobs: the lock section of one shard.
Collect ==
    LET jobs == DirtyJobs(closer.step)
    IN  /\ closer.pc = "collect"
        /\ slot' = [k \in Keys |-> IF \E j \in jobs : j.key = k
                                   THEN RegisterPending(slot[k]) ELSE slot[k]]
        /\ closer' = NextPhase(closer, jobs, "offer", "collect", "join")
        /\ UNCHANGED <<queue, cpc, nextShard, hand, wpc, wjob, source, faults,
                       writes, reported, lifecycle, admitted, pool, sched,
                       calls, overlap, discarded>>

\* One of the jobs is queued.
Offer ==
    /\ closer.pc = "offer"
    /\ Room
    /\ \E j \in CloserJobs :
           /\ queue' = Append(queue, j)
           /\ closer' = NextPhase(closer, closer.jobs \ {j}, "offer", "collect",
                                  "join")
    /\ UNCHANGED <<slot, cpc, nextShard, hand, wpc, wjob, source, faults, writes,
                   reported, lifecycle, admitted, pool, sched, calls, overlap,
                   discarded>>

\* queue_put_timeout runs out: the rest of the shard is released, job by job.
OfferTimeout ==
    /\ closer.pc = "offer"
    /\ ~Room
    /\ closer' = [closer EXCEPT !.pc = "unregister"]
    /\ UNCHANGED <<vars, lifecycle, admitted, pool, sched, calls, overlap,
                   discarded>>

Unregister ==
    /\ closer.pc = "unregister"
    /\ \E j \in CloserJobs :
           /\ slot' = [slot EXCEPT ![j.key] = ResolvePending(@)]
           /\ closer' = NextPhase(closer, closer.jobs \ {j}, "unregister",
                                  "collect", "join")
    /\ UNCHANGED <<queue, cpc, nextShard, hand, wpc, wjob, source, faults, writes,
                   reported, lifecycle, admitted, pool, sched, calls, overlap,
                   discarded>>

\* Queue.unfinished_tasks: jobs put and not yet task_done.
Busy == {w \in Workers : wpc[w] \notin {"idle", "exited"}}
Unfinished == Len(queue) + Cardinality(Busy)

\* A faulty variant: the queue is not joined.
NotJoined ==
    /\ closer.pc = "join"
    /\ closer' = [closer EXCEPT !.pc = "gather"]
    /\ UNCHANGED <<vars, lifecycle, admitted, pool, sched, calls, overlap,
                   discarded>>

\* join_until: the queue is settled, or the pool was never started.
Joined ==
    /\ closer.pc = "join"
    /\ pool = "running" => Unfinished = 0
    /\ closer' = [closer EXCEPT !.pc = "gather"]
    /\ UNCHANGED <<vars, lifecycle, admitted, pool, sched, calls, overlap,
                   discarded>>

\* A faulty variant: the queue is joined without a timeout.
JoinTimeoutNever ==
    /\ closer.pc = "join"
    /\ pool = "running" /\ Unfinished > 0
    /\ UNCHANGED allVars

\* join_until times out: the flush counts as failed.
JoinTimeout ==
    /\ closer.pc = "join"
    /\ pool = "running" /\ Unfinished > 0
    /\ closer' = [closer EXCEPT !.pc = "gather", !.failed = TRUE]
    /\ UNCHANGED <<vars, lifecycle, admitted, pool, sched, calls, overlap,
                   discarded>>

\* _flush_dirty_entries_sync: the section that lists the jobs of a shard.
Gather ==
    /\ closer.pc = "gather"
    /\ closer' = NextPhase(closer, DirtyJobs(closer.step), "sync", "gather", "stop")
    /\ UNCHANGED <<vars, lifecycle, admitted, pool, sched, calls, overlap,
                   discarded>>

\* A faulty variant: the marks are not pruned with the counts.
ClearPendingOnly(s) == [s EXCEPT !.pending = 0]

\* _clear_pending_flushes_locked
ClearPending(s) == MaybePruneMarks([s EXCEPT !.pending = 0])

\* A job of the list that went stale is dropped with all counts of its key.
SyncSkip ==
    /\ closer.pc = "sync"
    /\ \E j \in CloserJobs :
           /\ IsStale(slot[j.key], j)
           /\ slot' = [slot EXCEPT ![j.key] = ClearPending(@)]
           /\ closer' = NextPhase(closer, closer.jobs \ {j}, "sync", "gather", "stop")
    /\ UNCHANGED <<queue, cpc, nextShard, hand, wpc, wjob, source, faults, writes,
                   reported, lifecycle, admitted, pool, sched, calls, overlap,
                   discarded>>

SyncPass ==
    /\ closer.pc = "sync"
    /\ \E j \in CloserJobs :
           /\ ~IsStale(slot[j.key], j)
           /\ closer' = [closer EXCEPT !.pc = "write", !.job = j]
    /\ UNCHANGED <<vars, lifecycle, admitted, pool, sched, calls, overlap,
                   discarded>>

\* The source of truth takes the write, at the latest at the last attempt.
SyncWrite ==
    /\ closer.pc = "write"
    /\ \E f \in 0 .. RetryCount : f <= faults /\ faults' = faults - f
    /\ source' = [source EXCEPT ![closer.job.key] = closer.job.write]
    /\ closer' = [closer EXCEPT
                     !.pc = IF closer.job.op = "put" THEN "mark" ELSE "clear"]
    /\ UNCHANGED <<slot, queue, cpc, nextShard, hand, wpc, wjob, writes, reported,
                   lifecycle, admitted, pool, sched, calls, overlap, discarded>>

\* A faulty variant: a write that fails for good is only counted.
SyncWriteFailsSilently ==
    /\ closer.pc = "write"
    /\ faults > RetryCount
    /\ faults' = faults - RetryCount - 1
    /\ closer' = [closer EXCEPT !.pc = "clear"]
    /\ Report({closer.job})
    /\ UNCHANGED <<slot, queue, cpc, nextShard, hand, wpc, wjob, source, writes,
                   lifecycle, admitted, pool, sched, calls, overlap, discarded>>

\* Every attempt raises, and the flush has failed.
SyncWriteFails ==
    /\ closer.pc = "write"
    /\ faults > RetryCount
    /\ faults' = faults - RetryCount - 1
    /\ closer' = [closer EXCEPT !.pc = "clear", !.failed = TRUE]
    /\ Report({closer.job})
    /\ UNCHANGED <<slot, queue, cpc, nextShard, hand, wpc, wjob, source, writes,
                   lifecycle, admitted, pool, sched, calls, overlap, discarded>>

SyncMark ==
    /\ closer.pc = "mark"
    /\ slot' = [slot EXCEPT ![closer.job.key] = MarkClean(@, closer.job)]
    /\ closer' = [closer EXCEPT !.pc = "clear"]
    /\ UNCHANGED <<queue, cpc, nextShard, hand, wpc, wjob, source, faults, writes,
                   reported, lifecycle, admitted, pool, sched, calls, overlap,
                   discarded>>

SyncClear ==
    /\ closer.pc = "clear"
    /\ slot' = [slot EXCEPT ![closer.job.key] = ClearPending(@)]
    /\ closer' = NextPhase(closer, closer.jobs \ {closer.job}, "sync", "gather",
                           "stop")
    /\ UNCHANGED <<queue, cpc, nextShard, hand, wpc, wjob, source, faults, writes,
                   reported, lifecycle, admitted, pool, sched, calls, overlap,
                   discarded>>

\* WorkerPool.stop: the stop event, if the pool was started.
StopPool ==
    /\ closer.pc = "stop"
    /\ pool' = IF pool = "running" THEN "stopping" ELSE pool
    /\ closer' = [closer EXCEPT
                     !.pc = IF pool = "running" THEN "sentinels" ELSE "drain"]
    /\ UNCHANGED <<vars, lifecycle, admitted, sched, calls, overlap,
                   discarded>>

\* One sentinel per thread, dropped if the queue is full.
OfferStop ==
    LET last == closer.step = Cardinality(Workers)
    IN  /\ closer.pc = "sentinels"
        /\ queue' = IF Room THEN Append(queue, StopWorker) ELSE queue
        /\ closer' = [closer EXCEPT !.pc = IF last THEN "threads" ELSE @,
                                    !.step = IF last THEN 1 ELSE @ + 1]
        /\ UNCHANGED <<slot, cpc, nextShard, hand, wpc, wjob, source, faults,
                       writes, reported, lifecycle, admitted, pool, sched,
                       calls, overlap, discarded>>

\* join_all: the threads have ended, or the joins time out.
ThreadsJoined ==
    /\ closer.pc = "threads"
    /\ pool' = "stopped"
    /\ closer' = [closer EXCEPT !.pc = "drain"]
    /\ UNCHANGED <<vars, lifecycle, admitted, sched, calls, overlap, discarded>>

\* drain(): a job that is left is thrown away.
Drain ==
    /\ closer.pc = "drain"
    /\ queue # <<>>
    /\ queue' = Tail(queue)
    /\ discarded' = IF HeadIs("flush")
                    THEN [discarded EXCEPT ![Head(queue).key] =
                              @ \cup {Head(queue).write}]
                    ELSE discarded
    /\ UNCHANGED <<slot, cpc, nextShard, hand, wpc, wjob, source, faults, writes,
                   reported, lifecycle, admitted, pool, sched, calls, closer,
                   overlap>>

\* CLOSED; the lock is released, and ShutdownFlushError raised if failed is set.
Closed ==
    /\ closer.pc = "drain"
    /\ queue = <<>>
    /\ lifecycle' = "closed"
    /\ closer' = [closer EXCEPT !.pc = "closed"]
    /\ UNCHANGED <<vars, admitted, pool, sched, calls, overlap, discarded>>

CloserStep ==
    \/ SchedulerJoined
    \/ Collect \/ Offer \/ OfferTimeout \/ Unregister
    \/ Joined \/ JoinTimeout
    \/ Gather \/ SyncSkip \/ SyncPass \/ SyncWrite \/ SyncWriteFails
    \/ SyncMark \/ SyncClear
    \/ StopPool \/ OfferStop \/ ThreadsJoined \/ Drain \/ Closed

-----------------------------------------------------------------------------

\* Nothing is left to do after close().
Over ==
    /\ lifecycle = "closed"
    /\ admitted = {}
    /\ \A c \in Clients : cpc[c] = "idle"
    /\ pool = "new" \/ \A w \in Workers : wpc[w] = "exited"

LifeNext ==
    \/ Start
    \/ \E c \in Callers : Admit(c) \/ Section(c) \/ Preload(c) \/ Continue(c)
    \/ SchedulerWakes \/ TickShard
    \/ \E w \in Workers : PoolStep(w)
    \/ \E flush \in BOOLEAN : BeginClose(flush)
    \/ CloserStep
    \/ Over /\ UNCHANGED allVars

LifeSpec == LifeInit /\ [][LifeNext]_allVars

\* The threads that run are scheduled; nobody has to call the cache or to
\* close it.
LifeFairness ==
    /\ \A c \in Callers : WF_allVars(Continue(c))
    /\ \A w \in Workers : WF_allVars(PoolStep(w))
    /\ WF_allVars(TickShard)
    /\ WF_allVars(CloserStep)

LifeFairSpec == LifeSpec /\ LifeFairness

-----------------------------------------------------------------------------
(* Properties.                                                             *)

\* close(flush=True) has returned without an error.
FlushedClose == lifecycle = "closed" /\ closer.flush /\ ~closer.failed

\* The write of k was thrown away by drain() after its entry had left the
\* cache, which happens only if no worker was ever started.
DroppedByDrain(k) ==
    pool = "new" /\ ~Cached(slot[k]) /\ writes[k] \in discarded[k]

\* After a close(flush=True) that reports success the newest write of a key
\* has reached the source of truth or was reported as failed before, except
\* for a key with a call in flight during close(), and for a job that drain()
\* throws away.
CloseAccountsForWrites ==
    FlushedClose =>
        \A k \in Keys \ overlap :
            \/ source[k] = writes[k]
            \/ writes[k] \in reported[k]
            \/ DroppedByDrain(k)

\* The same without the exceptions for drain(): close(flush=True) drains
\* pending flushes and reports ShutdownFlushError if anything cannot be
\* persisted.
CloseFlushesEverything ==
    FlushedClose =>
        \A k \in Keys \ overlap :
            source[k] = writes[k] \/ writes[k] \in reported[k]

\* After a close(flush=True) that reports success no entry is dirty.
NoDirtyEntryLeft ==
    FlushedClose =>
        \A k \in Keys \ overlap : Cached(slot[k]) => ~slot[k].dirty

\* close() returns, also when a worker waits for the lock that it holds.
CloseReturns == Closing ~> lifecycle = "closed"

\* Every worker ends after close(), survivors of the join included.
WorkersEnd ==
    lifecycle = "closed" /\ pool # "new"
        ~> \A w \in Workers : wpc[w] = "exited"

=============================================================================
