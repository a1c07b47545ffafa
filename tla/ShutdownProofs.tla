-------------------------- MODULE ShutdownProofs ---------------------------
(***************************************************************************)
(* Proofs about the life of a write-back cache, for any keys, callers,     *)
(* workers, shards, queue size, retry count and eviction policy.           *)
(***************************************************************************)
EXTENDS Shutdown, WriteBackProofs

-----------------------------------------------------------------------------
(* Types.                                                                  *)

OtherJob ==
    {StopWorker} \cup {ExpireShard(i) : i \in 1 .. ShardCount}
        \cup {PreloadKey(k) : k \in Keys}

AnyJob == Job \cup OtherJob

WorkerPhases == Phases \cup {"expire", "preload", "putting", "exited"}

BeforeGather == {"idle", "scheduler", "collect", "offer", "unregister", "join"}
Flushing == {"sync", "write", "mark", "clear"}
AfterFlush == {"stop", "sentinels", "threads", "drain", "closed"}

CloserPhases == BeforeGather \cup {"gather"} \cup Flushing \cup AfterFlush

Closer == [pc : CloserPhases, step : Nat, jobs : SUBSET Job,
           job : Job \cup {NoJob}, flush : BOOLEAN, failed : BOOLEAN]

\* What the worker handles when it preloads, and what the closer writes.
Handles ==
    /\ \A w \in Workers :
           wpc[w] \in {"preload", "putting"} => wjob[w].key \in Keys
    /\ closer.pc \in {"write", "mark", "clear"} =>
           closer.job \in closer.jobs /\ closer.job \in Job
    /\ closer.pc = "mark" => closer.job.op = "put"

\* A queued job is a flush job or carries its kind.
LEMMA JobKinds ==
    ASSUME NEW j \in AnyJob
    PROVE  /\ "kind" \notin DOMAIN j => j \in Job
           /\ "kind" \in DOMAIN j => j \in OtherJob
<1>1. j \in Job => "kind" \notin DOMAIN j
  BY Zenon DEF Job
<1>2. j \in OtherJob => "kind" \in DOMAIN j
  BY DEF OtherJob, StopWorker, ExpireShard, PreloadKey
<1> QED BY Zenon, <1>1, <1>2 DEF AnyJob

\* What the head of the queue is.
LEMMA HeadKinds ==
    ASSUME queue \in Seq(AnyJob), NEW kind, HeadIs(kind)
    PROVE  /\ queue # <<>> /\ Head(queue) \in AnyJob /\ Tail(queue) \in Seq(AnyJob)
           /\ kind = "flush" => Head(queue) \in Job
           /\ kind = "preload" => Head(queue).key \in Keys
<1>1. queue # <<>> /\ Head(queue) \in AnyJob /\ Tail(queue) \in Seq(AnyJob)
  BY DEF HeadIs
<1>2. \A j \in OtherJob : j.kind \in {"stop", "expire", "preload"}
  BY DEF OtherJob, StopWorker, ExpireShard, PreloadKey
<1>3. \A j \in OtherJob : j.kind = "preload" => j.key \in Keys
  BY DEF OtherJob, StopWorker, ExpireShard, PreloadKey
<1>4. kind = "flush" => Head(queue) \in Job
  BY Zenon, <1>1, <1>2, JobKinds DEF HeadIs
<1>5. kind = "preload" => Head(queue) \in OtherJob /\ Head(queue).kind = "preload"
  BY Zenon, <1>1, JobKinds DEF HeadIs
<1> QED BY Zenon, <1>1, <1>3, <1>4, <1>5

\* The closer's next phase, field by field.
LEMMA NextPhaseFields ==
    ASSUME NEW c \in Closer, NEW jobs \in SUBSET Job, NEW busy \in CloserPhases,
           NEW again \in CloserPhases, NEW then \in CloserPhases,
           NEW n, n = NextPhase(c, jobs, busy, again, then)
    PROVE  /\ n \in Closer
           /\ n.flush = c.flush /\ n.failed = c.failed /\ n.jobs = jobs
           /\ n.job = NoJob
           /\ jobs # {} => n.pc = busy /\ n.step = c.step
           /\ jobs = {} /\ c.step < ShardCount => n.pc = again /\ n.step = c.step + 1
           /\ jobs = {} /\ ~(c.step < ShardCount) => n.pc = then /\ n.step = 1
<1>1. CASE jobs # {}
  <2>1. n = [c EXCEPT !.pc = busy, !.jobs = jobs, !.job = NoJob]
    BY Zenon, <1>1 DEF NextPhase
  <2> QED BY Zenon, <1>1, <2>1 DEF Closer
<1>2. CASE jobs = {} /\ c.step < ShardCount
  <2>1. n = [c EXCEPT !.pc = again, !.step = c.step + 1, !.jobs = {}, !.job = NoJob]
    BY Zenon, <1>2 DEF NextPhase
  <2>2. c.step \in Nat
    BY Zenon DEF Closer
  <2>3. c.step + 1 \in Nat
    BY <2>2
  <2> DEFINE s == c.step + 1
  <2>4. s \in Nat /\ n = [c EXCEPT !.pc = again, !.step = s, !.jobs = {}, !.job = NoJob]
    BY Zenon, <2>1, <2>3
  <2> HIDE DEF s
  <2>5. /\ n \in Closer /\ n.pc = again /\ n.step = s /\ n.jobs = {} /\ n.job = NoJob
        /\ n.flush = c.flush /\ n.failed = c.failed
    BY Zenon, <2>4 DEF Closer
  <2> QED BY Zenon, <1>2, <2>5 DEF s
<1>3. CASE jobs = {} /\ ~(c.step < ShardCount)
  <2> DEFINE s == 1
  <2>1. s \in Nat /\ n = [c EXCEPT !.pc = then, !.step = s, !.jobs = {}, !.job = NoJob]
    BY Zenon, <1>3 DEF NextPhase
  <2> HIDE DEF s
  <2>2. /\ n \in Closer /\ n.pc = then /\ n.step = s /\ n.jobs = {} /\ n.job = NoJob
        /\ n.flush = c.flush /\ n.failed = c.failed
    BY Zenon, <2>1 DEF Closer
  <2> QED BY Zenon, <1>3, <2>2 DEF s
<1> QED BY Zenon, <1>1, <1>2, <1>3

-----------------------------------------------------------------------------
(* The state of WriteBack, step by step.                                   *)

LifeGood == Good(AnyJob, WorkerPhases)

LEMMA LifeSets == Job \subseteq AnyJob /\ Phases \subseteq WorkerPhases
BY Zenon DEF AnyJob, WorkerPhases

LEMMA GoodSame ==
    ASSUME LifeGood, UNCHANGED vars
    PROVE  LifeGood'
BY Zenon DEF LifeGood, Good, Typed, FlushersHoldJobs, MetadataBounded, vars

\* Only the slots change, and remain coherent.
LEMMA GoodSlotsOnly ==
    ASSUME LifeGood, GoodSlots(slot'),
           UNCHANGED <<queue, cpc, nextShard, hand, wpc, wjob, source, faults,
                       writes, reported>>
    PROVE  LifeGood'
BY Zenon DEF LifeGood, Good, Typed, FlushersHoldJobs, MetadataBounded, GoodSlots

\* Only the queue changes.
LEMMA GoodQueueOnly ==
    ASSUME LifeGood, queue' \in Seq(AnyJob),
           UNCHANGED <<slot, cpc, nextShard, hand, wpc, wjob, source, faults,
                       writes, reported>>
    PROVE  LifeGood'
BY Zenon DEF LifeGood, Good, Typed, FlushersHoldJobs, MetadataBounded

LEMMA QueueGrows ==
    ASSUME LifeGood, NEW j \in AnyJob,
           queue' = IF Room THEN Append(queue, j) ELSE queue
    PROVE  queue' \in Seq(AnyJob)
<1>1. queue \in Seq(AnyJob)
  BY Zenon DEF LifeGood, Good, Typed
<1>2. Append(queue, j) \in Seq(AnyJob)
  BY <1>1
<1> QED BY Zenon, <1>1, <1>2

\* A worker enters a phase that is not one of a flush, or goes idle.
LEMMA GoodWorkerMoves ==
    ASSUME LifeGood, NEW w \in Workers,
           NEW pc \in WorkerPhases \ FlushPhases, Goto(w, pc),
           NEW j \in AnyJob \cup {NoJob},
           wjob' = wjob \/ wjob' = [wjob EXCEPT ![w] = j],
           queue' \in Seq(AnyJob), GoodSlots(slot'),
           UNCHANGED <<cpc, nextShard, hand, source, faults, writes, reported>>
    PROVE  LifeGood'
<1>1. /\ wpc \in [Workers -> WorkerPhases]
      /\ wjob \in [Workers -> AnyJob \cup {NoJob}]
  BY Zenon DEF LifeGood, Good, Typed
<1>2. wpc' \in [Workers -> WorkerPhases]
  BY Zenon, <1>1 DEF Goto
<1>3. wjob' \in [Workers -> AnyJob \cup {NoJob}]
  BY Zenon, <1>1
<1>4. FlushersHoldJobs'
  <2> SUFFICES ASSUME NEW x \in Workers
               PROVE  /\ wpc'[x] \in FlushPhases => wjob'[x] \in Job
                      /\ wpc'[x] = "retry" => wjob'[x].retries > 0
    BY Zenon DEF FlushersHoldJobs
  <2>1. CASE x = w
    <3>1. wpc'[x] = pc
      BY Zenon, <1>1, <2>1 DEF Goto
    <3> QED BY Zenon, <3>1 DEF FlushPhases, Phases
  <2>2. CASE x # w
    <3>1. wpc'[x] = wpc[x] /\ wjob'[x] = wjob[x]
      BY Zenon, <1>1, <2>2 DEF Goto
    <3> QED BY Zenon, <3>1 DEF LifeGood, Good, FlushersHoldJobs
  <2> QED BY Zenon, <2>1, <2>2
<1> QED BY Zenon, <1>2, <1>3, <1>4
        DEF LifeGood, Good, Typed, MetadataBounded, GoodSlots

\* _clear_pending_flushes_locked keeps a slot coherent.
LEMMA ClearPendingCoherent ==
    ASSUME NEW s \in Slot, Coherent(s)
    PROVE  /\ ClearPending(s) \in Slot /\ Coherent(ClearPending(s))
           /\ SameEntry(ClearPending(s), s)
<1> DEFINE t == [s EXCEPT !.pending = 0]
<1>1. t \in Slot /\ t.pending = 0 /\ t.version = s.version /\ t.write = s.write
      /\ t.dirty = s.dirty /\ t.mark = s.mark /\ t.tomb = s.tomb
  BY Zenon DEF Slot
<1> HIDE DEF t
<1>2. MaybePruneMarks(t) \in Slot
  BY Zenon, <1>1, MaybePruneMarksType
<1>3. Coherent(MaybePruneMarks(t)) /\ SameEntry(MaybePruneMarks(t), s)
  BY Zenon, <1>1 DEF MaybePruneMarks, Coherent, Cached, Slot, SameEntry
<1> QED BY Zenon, <1>2, <1>3 DEF ClearPending, t

\* The jobs of the closer are flush jobs.
LEMMA DirtyJobsType ==
    ASSUME LifeGood, NEW i
    PROVE  DirtyJobs(i) \subseteq Job
<1>0. \A k \in Keys : slot[k] \in Slot /\ writes[k] \in Nat
  BY Zenon DEF LifeGood, Good, Typed
<1>1. \A k \in Keys : /\ slot[k].version \in Nat /\ slot[k].write \in Nat
                      /\ slot[k].tomb \in Nat /\ writes[k] \in Nat
  BY Zenon, <1>0 DEF Slot
<1>2. \A k \in Keys : /\ FlushJob(k, slot[k].version, slot[k].write, "put") \in Job
                      /\ FlushJob(k, slot[k].tomb, writes[k], "delete") \in Job
  BY Zenon, <1>1, FlushJobType
<1> QED BY Zenon, <1>2 DEF DirtyJobs, Live

LifeTyped == LifeGood /\ closer \in Closer /\ Handles

LEMMA HandlesSame ==
    ASSUME Handles, UNCHANGED <<wpc, wjob, closer>>
    PROVE  Handles'
BY Zenon DEF Handles

\* The steps that leave the worker pool and the closer alone.
LEMMA ThreadStepTyped ==
    ASSUME LifeTyped,
           \/ Start \/ SchedulerWakes \/ TickShard
           \/ \E c \in Callers : Admit(c) \/ Section(c) \/ Preload(c) \/ Continue(c)
           \/ UNCHANGED allVars
    PROVE  LifeTyped' /\ UNCHANGED <<wpc, wjob, closer>>
<1>0. LifeGood /\ closer \in Closer /\ Handles
  BY Zenon DEF LifeTyped
<1>1. ASSUME LifeGood', UNCHANGED <<wpc, wjob, closer>>
      PROVE  LifeTyped' /\ UNCHANGED <<wpc, wjob, closer>>
  BY Zenon, <1>0, <1>1, HandlesSame DEF LifeTyped
<1>2. CASE Start \/ SchedulerWakes \/ (\E c \in Callers : Admit(c)) \/ UNCHANGED allVars
  <2>1. UNCHANGED vars /\ UNCHANGED closer
    BY Zenon, <1>2 DEF Start, SchedulerWakes, Admit, allVars, lifeVars
  <2> QED BY Zenon, <1>0, <1>1, <2>1, GoodSame DEF vars
<1>3. CASE TickShard
  <2>1. ExpireShard(sched) \in AnyJob
    BY Zenon, <1>3 DEF TickShard, AnyJob, OtherJob
  <2>2. queue' \in Seq(AnyJob)
    BY Zenon, <1>0, <1>3, <2>1, QueueGrows DEF TickShard
  <2> QED BY Zenon, <1>0, <1>1, <1>3, <2>2, GoodQueueOnly DEF TickShard
<1>4. ASSUME NEW c \in Callers, Section(c) \/ Continue(c)
      PROVE  LifeGood' /\ UNCHANGED <<wpc, wjob, closer>>
  <2>1. c \in Clients
    BY Zenon, ClientsAssumption
  <2>2. CASE \E k \in Keys : Expire(k)
    <3>1. LifeGood'
      BY Zenon, <1>0, <2>2, ExpireGood DEF LifeGood
    <3> QED BY Zenon, <1>4, <2>2, <3>1 DEF Expire, Section, Continue
  <2>3. CASE \/ \E k \in Keys : PutCall(c, k) \/ Delete(c, k)
             \/ StartClear(c) \/ ClientProgress(c)
    <3>1. LifeGood'
      BY Zenon, <1>0, <2>1, <2>3, LifeSets, ClientStepGood DEF LifeGood, ClientCall
    <3>2. UNCHANGED <<wpc, wjob>>
      BY Zenon, <2>3 DEF PutCall, PutEvicting, Delete, StartClear, ClientProgress,
                  ClearShard, Enqueue, EnqueueTimeout, Release
    <3> QED BY Zenon, <1>4, <3>1, <3>2 DEF Section, Continue
  <2> QED BY Zenon, <1>4, <2>2, <2>3 DEF Section, Continue, Put
<1>5. ASSUME NEW c \in Callers, Preload(c)
      PROVE  LifeGood' /\ UNCHANGED <<wpc, wjob, closer>>
  <2>1. PICK k \in Keys :
            queue' = IF Room THEN Append(queue, PreloadKey(k)) ELSE queue
    BY Zenon, <1>5 DEF Preload
  <2>2. PreloadKey(k) \in AnyJob
    BY Zenon DEF AnyJob, OtherJob
  <2>3. queue' \in Seq(AnyJob)
    BY Zenon, <1>0, <2>1, <2>2, QueueGrows
  <2> QED BY Zenon, <1>0, <1>5, <2>3, GoodQueueOnly DEF Preload
<1> QED BY Zenon, <1>1, <1>2, <1>3, <1>4, <1>5

LEMMA PoolStepTyped ==
    ASSUME LifeTyped, NEW w \in Workers, PoolStep(w)
    PROVE  LifeTyped' /\ UNCHANGED closer
<1>0. /\ LifeGood /\ closer \in Closer /\ Handles /\ GoodSlots(slot)
      /\ queue \in Seq(AnyJob)
      /\ wpc \in [Workers -> WorkerPhases]
      /\ wjob \in [Workers -> AnyJob \cup {NoJob}]
  BY Zenon, GoodSlotsOfGood DEF LifeTyped, LifeGood, Good, Typed
\* Only the phase of w, and its job, change.
<1>1. ASSUME LifeGood', UNCHANGED closer,
             \A x \in Workers \ {w} : wpc'[x] = wpc[x] /\ wjob'[x] = wjob[x],
             wpc'[w] \in {"preload", "putting"} => wjob'[w].key \in Keys
      PROVE  LifeTyped' /\ UNCHANGED closer
  <2>1. \A x \in Workers :
            wpc'[x] \in {"preload", "putting"} => wjob'[x].key \in Keys
    BY Zenon, <1>0, <1>1 DEF Handles
  <2> QED BY Zenon, <1>0, <1>1, <2>1 DEF LifeTyped, Handles
<1>2. CASE FlushStep(w)
  <2>1. Take(w) => Head(queue) \in Job
    BY Zenon, <1>0, <1>2, HeadKinds DEF FlushStep, Take
  <2>2. LifeGood'
    BY Zenon, <1>0, <1>2, <2>1, LifeSets, WorkerStepGood DEF LifeGood, FlushStep
  <2>3. PICK pc \in Phases : wpc' = [wpc EXCEPT ![w] = pc]
    BY Zenon, <1>2 DEF FlushStep, WorkerStep, Take, Skip, Pass, Apply, ApplyFails,
                Settle, Retry, RetryTimeout, GiveUp, Goto, Finish, Phases
  <2>4. wjob' = wjob \/ \E j : wjob' = [wjob EXCEPT ![w] = j]
    BY Zenon, <1>2 DEF FlushStep, WorkerStep, Take, Skip, Pass, Apply, ApplyFails,
                Settle, Retry, RetryTimeout, GiveUp, Finish
  <2>5. \A x \in Workers \ {w} : wpc'[x] = wpc[x] /\ wjob'[x] = wjob[x]
    BY Zenon, <1>0, <2>3, <2>4
  <2>6. wpc'[w] \notin {"preload", "putting"}
    BY Zenon, <1>0, <2>3 DEF Phases
  <2> QED BY Zenon, <1>1, <1>2, <2>2, <2>5, <2>6 DEF FlushStep, lifeVars
<1>3. ASSUME NEW kind \in {"expire", "preload"}, TakeOther(w, kind)
      PROVE  LifeTyped' /\ UNCHANGED closer
  <2>1. /\ Head(queue) \in AnyJob /\ Tail(queue) \in Seq(AnyJob)
        /\ kind = "preload" => Head(queue).key \in Keys
    BY Zenon, <1>0, <1>3, HeadKinds DEF TakeOther
  <2>2. kind \in WorkerPhases \ FlushPhases
    BY Zenon DEF WorkerPhases, FlushPhases, Phases
  <2>3. LifeGood'
    BY Zenon, <1>0, <1>3, <2>1, <2>2, GoodWorkerMoves DEF TakeOther
  <2>4. /\ \A x \in Workers \ {w} : wpc'[x] = wpc[x] /\ wjob'[x] = wjob[x]
        /\ wpc'[w] = kind /\ wjob'[w] = Head(queue)
    BY Zenon, <1>0, <1>3 DEF TakeOther, Goto
  <2>5. UNCHANGED closer
    BY Zenon, <1>3 DEF TakeOther, lifeVars
  <2> QED BY Zenon, <1>1, <2>1, <2>3, <2>4, <2>5
\* The job of w is over.
<1>4. ASSUME GoodSlots(slot'), Finish(w), UNCHANGED closer,
             UNCHANGED <<queue, cpc, nextShard, hand, source, faults, writes,
                         reported>>
      PROVE  LifeTyped' /\ UNCHANGED closer
  <2>1. "idle" \in WorkerPhases \ FlushPhases
    BY Zenon DEF WorkerPhases, FlushPhases, Phases
  <2>2. /\ Goto(w, "idle") /\ wjob' = [wjob EXCEPT ![w] = NoJob]
        /\ queue' \in Seq(AnyJob)
    BY Zenon, <1>0, <1>4 DEF Finish
  <2>3. LifeGood'
    BY Zenon, <1>0, <1>4, <2>1, <2>2, GoodWorkerMoves
  <2>4. /\ \A x \in Workers \ {w} : wpc'[x] = wpc[x] /\ wjob'[x] = wjob[x]
        /\ wpc'[w] = "idle"
    BY Zenon, <1>0, <2>2 DEF Goto
  <2> QED BY Zenon, <1>1, <1>4, <2>3, <2>4
<1>5. CASE RunExpire(w)
  <2>1. PICK E \in SUBSET Live(slot, wjob[w].shard) :
            slot' = [k \in Keys |-> IF k \in E THEN RemoveEntry(slot[k])
                                               ELSE slot[k]]
    BY Zenon, <1>5 DEF RunExpire
  <2>2. \A k \in Keys : slot[k] \in Slot /\ Coherent(slot[k])
    BY Zenon, <1>0 DEF GoodSlots
  <2>3. \A k \in Keys : RemoveEntry(slot[k]) \in Slot /\ Coherent(RemoveEntry(slot[k]))
    BY Zenon, <2>2, RemoveEntryCoherent DEF Coherent
  <2>4. GoodSlots(slot')
    BY Zenon, <2>1, <2>2, <2>3 DEF GoodSlots
  <2> QED BY Zenon, <1>4, <1>5, <2>4 DEF RunExpire, lifeVars
<1>6. CASE LoaderFails(w)
  <2>1. queue' \in Seq(AnyJob)
    BY Zenon, <1>0, <1>6, HeadKinds DEF LoaderFails
  <2>2. LifeGood'
    BY Zenon, <1>0, <1>6, <2>1, GoodQueueOnly DEF LoaderFails
  <2> QED BY Zenon, <1>0, <1>6, <2>2, HandlesSame DEF LoaderFails, lifeVars, LifeTyped
<1>7. CASE PreloadAdmit(w)
  <2>1. CASE Open /\ Goto(w, "putting") /\ UNCHANGED wjob
    <3>1. "putting" \in WorkerPhases \ FlushPhases
      BY Zenon DEF WorkerPhases, FlushPhases, Phases
    <3>2. UNCHANGED <<slot, queue, cpc, nextShard, hand, source, faults, writes,
                      reported, closer>>
      BY Zenon, <1>7 DEF PreloadAdmit
    <3>3. queue' \in Seq(AnyJob) /\ GoodSlots(slot')
      BY Zenon, <1>0, <3>2 DEF GoodSlots
    <3>4. LifeGood'
      BY Zenon, <1>0, <2>1, <3>1, <3>2, <3>3, GoodWorkerMoves
    <3>5. wjob[w].key \in Keys
      BY Zenon, <1>0, <1>7 DEF PreloadAdmit, Handles
    <3> QED BY Zenon, <1>0, <1>1, <2>1, <3>2, <3>4, <3>5 DEF Goto
  <2>2. CASE Finish(w)
    <3>1. GoodSlots(slot')
      BY Zenon, <1>0, <1>7 DEF PreloadAdmit, GoodSlots
    <3> QED BY Zenon, <1>4, <1>7, <2>2, <3>1 DEF PreloadAdmit
  <2> QED BY Zenon, <1>7, <2>1, <2>2 DEF PreloadAdmit
<1>8. CASE PreloadPut(w) \/ Continue(w)
  <2>1. w \in Clients
    BY Zenon, ClientsAssumption
  <2>2. PreloadPut(w) => wjob[w].key \in Keys
    BY Zenon, <1>0 DEF PreloadPut, Handles
  <2>3. LifeGood'
    BY Zenon, <1>0, <1>8, <2>1, <2>2, LifeSets, ClientStepGood
    DEF LifeGood, PreloadPut, Continue, ClientCall
  <2>4. UNCHANGED <<wpc, wjob, closer>>
    BY Zenon, <1>8 DEF PreloadPut, Continue, PutCall, PutEvicting, ClientProgress,
                ClearShard, Enqueue, EnqueueTimeout, Release
  <2> QED BY Zenon, <1>0, <2>3, <2>4, HandlesSame DEF LifeTyped
<1>9. CASE PreloadDone(w)
  <2>1. GoodSlots(slot')
    BY Zenon, <1>0, <1>9 DEF PreloadDone, GoodSlots
  <2> QED BY Zenon, <1>4, <1>9, <2>1 DEF PreloadDone, lifeVars
<1>10. CASE TakeStop(w) \/ IdleStop(w)
  <2>1. "exited" \in WorkerPhases \ FlushPhases
    BY Zenon DEF WorkerPhases, FlushPhases, Phases
  <2>2. queue' \in Seq(AnyJob)
    BY Zenon, <1>0, <1>10, HeadKinds DEF TakeStop, IdleStop
  <2>3. /\ UNCHANGED <<slot, cpc, nextShard, hand, wjob, source, faults, writes,
                       reported, closer>>
        /\ Goto(w, "exited")
    BY Zenon, <1>10 DEF TakeStop, IdleStop, lifeVars
  <2>4. GoodSlots(slot')
    BY Zenon, <1>0, <2>3 DEF GoodSlots
  <2>5. LifeGood'
    BY Zenon, <1>0, <2>1, <2>2, <2>3, <2>4, GoodWorkerMoves
  <2> QED BY Zenon, <1>0, <1>1, <2>3, <2>5 DEF Goto
<1> QED BY Zenon, <1>2, <1>3, <1>5, <1>6, <1>7, <1>8, <1>9, <1>10 DEF PoolStep

\* The closer changes nothing but its phase and its own fields.
LEMMA CloserMoves ==
    ASSUME LifeTyped, LifeGood', UNCHANGED <<wpc, wjob>>, closer' \in Closer,
           closer'.pc \notin {"write", "mark", "clear"}
    PROVE  LifeTyped'
BY Zenon DEF LifeTyped, Handles

LEMMA CloserJobsType ==
    ASSUME LifeTyped, NEW j \in CloserJobs
    PROVE  /\ j \in closer.jobs /\ j \in Job /\ j.key \in Keys
           /\ closer.jobs \ {j} \in SUBSET Job
BY Zenon DEF LifeTyped, CloserJobs, Closer, Job

LEMMA CloserStepTyped ==
    ASSUME LifeTyped, CloserStep \/ \E flush \in BOOLEAN : BeginClose(flush)
    PROVE  LifeTyped'
<1>0. /\ LifeGood /\ closer \in Closer /\ Handles /\ GoodSlots(slot)
      /\ queue \in Seq(AnyJob) /\ closer.jobs \in SUBSET Job
  BY Zenon, GoodSlotsOfGood DEF LifeTyped, LifeGood, Good, Typed, Closer
<1>p. /\ "offer" \in CloserPhases /\ "unregister" \in CloserPhases
      /\ "collect" \in CloserPhases /\ "join" \in CloserPhases
      /\ "gather" \in CloserPhases /\ "sync" \in CloserPhases
      /\ "write" \in CloserPhases /\ "mark" \in CloserPhases
      /\ "clear" \in CloserPhases /\ "scheduler" \in CloserPhases
      /\ "stop" \in CloserPhases /\ "sentinels" \in CloserPhases
      /\ "threads" \in CloserPhases /\ "drain" \in CloserPhases
      /\ "closed" \in CloserPhases
  BY Zenon DEF CloserPhases, BeforeGather, Flushing, AfterFlush
<1>1. ASSUME \/ SchedulerJoined \/ OfferTimeout \/ Joined \/ JoinTimeout
             \/ StopPool \/ ThreadsJoined \/ Closed
             \/ \E flush \in BOOLEAN : BeginClose(flush)
      PROVE  LifeTyped'
  <2>1. UNCHANGED vars
    BY Zenon, <1>1 DEF SchedulerJoined, OfferTimeout, Joined, JoinTimeout, StopPool,
                ThreadsJoined, Closed, BeginClose
  <2>2. closer' \in Closer /\ closer'.pc \notin {"write", "mark", "clear"}
    BY ZenonT(60), <1>0, <1>p, <1>1
    DEF SchedulerJoined, OfferTimeout, Joined, JoinTimeout, StopPool,
                ThreadsJoined, Closed, BeginClose, Closer
  <2>3. LifeGood'
    BY Zenon, <1>0, <2>1, GoodSame
  <2> QED BY Zenon, <2>1, <2>2, <2>3, CloserMoves DEF vars
<1>2. CASE Collect
  <2> DEFINE jobs == DirtyJobs(closer.step)
  <2>1. jobs \in SUBSET Job
    BY Zenon, <1>0, DirtyJobsType
  <2>2. closer' \in Closer /\ closer'.pc \notin {"write", "mark", "clear"}
    <3>1. closer' = NextPhase(closer, jobs, "offer", "collect", "join")
      BY Zenon, <1>2 DEF Collect
    <3> HIDE DEF jobs
    <3>2. closer' \in Closer /\ closer'.pc \in {"offer", "collect", "join"}
      BY <1>0, <2>1, <3>1, <1>p, NextPhaseFields
    <3> QED BY Zenon, <3>2
  <2>3. GoodSlots(slot')
    <3>1. \A k \in Keys : slot[k] \in Slot /\ Coherent(slot[k])
      BY Zenon, <1>0 DEF GoodSlots
    <3>2. \A k \in Keys : /\ RegisterPending(slot[k]) \in Slot
                          /\ Coherent(RegisterPending(slot[k]))
      BY Zenon, <3>1, RegisterPendingCoherent
    <3>3. slot' = [k \in Keys |-> IF \E j \in jobs : j.key = k
                                  THEN RegisterPending(slot[k]) ELSE slot[k]]
      BY Zenon, <1>2 DEF Collect
    <3> HIDE DEF jobs
    <3> QED BY Zenon, <3>1, <3>2, <3>3 DEF GoodSlots
  <2>4. LifeGood'
    BY Zenon, <1>0, <1>2, <2>3, GoodSlotsOnly DEF Collect
  <2> QED BY Zenon, <1>2, <2>2, <2>4, CloserMoves DEF Collect
<1>3. CASE Offer
  <2>1. PICK j \in CloserJobs :
            /\ queue' = Append(queue, j)
            /\ closer' = NextPhase(closer, closer.jobs \ {j}, "offer", "collect",
                                   "join")
    BY Zenon, <1>3 DEF Offer
  <2>2. j \in Job /\ closer.jobs \ {j} \in SUBSET Job
    BY Zenon, CloserJobsType
  <2>3. closer' \in Closer /\ closer'.pc \in {"offer", "collect", "join"}
    BY <1>0, <2>1, <2>2, <1>p, NextPhaseFields
  <2>4. queue' \in Seq(AnyJob)
    BY <1>0, <2>1, <2>2, LifeSets
  <2>5. LifeGood'
    BY Zenon, <1>0, <1>3, <2>4, GoodQueueOnly DEF Offer
  <2> QED BY Zenon, <1>3, <2>3, <2>5, CloserMoves DEF Offer
<1>4. CASE Unregister
  <2>1. PICK j \in CloserJobs :
            /\ slot' = [slot EXCEPT ![j.key] = ResolvePending(@)]
            /\ closer' = NextPhase(closer, closer.jobs \ {j}, "unregister",
                                   "collect", "join")
    BY Zenon, <1>4 DEF Unregister
  <2>2. j \in Job /\ closer.jobs \ {j} \in SUBSET Job
    BY Zenon, CloserJobsType
  <2>3. closer' \in Closer /\ closer'.pc \in {"unregister", "collect", "join"}
    BY <1>0, <2>1, <2>2, <1>p, NextPhaseFields
  <2>4. GoodSlots(slot')
    BY Zenon, <1>0, <2>1, <2>2, ResolveSlots
  <2>5. LifeGood'
    BY Zenon, <1>0, <1>4, <2>4, GoodSlotsOnly DEF Unregister
  <2> QED BY Zenon, <1>4, <2>3, <2>5, CloserMoves DEF Unregister
<1>5. CASE Gather
  <2> DEFINE jobs == DirtyJobs(closer.step)
  <2>1. jobs \in SUBSET Job
    BY Zenon, <1>0, DirtyJobsType
  <2>2. closer' = NextPhase(closer, jobs, "sync", "gather", "stop")
    BY Zenon, <1>5 DEF Gather
  <2> HIDE DEF jobs
  <2>3. closer' \in Closer /\ closer'.pc \in {"sync", "gather", "stop"}
    BY <1>0, <2>1, <2>2, <1>p, NextPhaseFields
  <2>4. UNCHANGED vars
    BY Zenon, <1>5 DEF Gather
  <2>5. LifeGood'
    BY Zenon, <1>0, <2>4, GoodSame
  <2> QED BY Zenon, <2>3, <2>4, <2>5, CloserMoves DEF vars
\* The closer is through with one of its jobs.
<1>6. ASSUME NEW j \in closer.jobs, j \in Job,
             slot' = [slot EXCEPT ![j.key] = ClearPending(@)],
             closer' = NextPhase(closer, closer.jobs \ {j}, "sync", "gather", "stop"),
             UNCHANGED <<queue, cpc, nextShard, hand, wpc, wjob, source, faults,
                         writes, reported>>
      PROVE  LifeTyped'
  <2>1. j.key \in Keys /\ closer.jobs \ {j} \in SUBSET Job
    BY Zenon, <1>0, <1>6 DEF Job
  <2>2. closer' \in Closer /\ closer'.pc \in {"sync", "gather", "stop"}
    BY <1>0, <1>6, <2>1, <1>p, NextPhaseFields
  <2>3. GoodSlots(slot')
    <3>1. slot[j.key] \in Slot /\ Coherent(slot[j.key])
      BY Zenon, <1>0, <2>1 DEF GoodSlots
    <3>2. ClearPending(slot[j.key]) \in Slot /\ Coherent(ClearPending(slot[j.key]))
      BY Zenon, <3>1, ClearPendingCoherent
    <3> QED BY Zenon, <1>0, <1>6, <2>1, <3>2, GoodSlotsExcept
  <2>4. LifeGood'
    BY Zenon, <1>0, <1>6, <2>3, GoodSlotsOnly
  <2> QED BY Zenon, <1>6, <2>2, <2>4, CloserMoves
<1>7. CASE SyncSkip
  <2>1. PICK j \in CloserJobs :
            /\ slot' = [slot EXCEPT ![j.key] = ClearPending(@)]
            /\ closer' = NextPhase(closer, closer.jobs \ {j}, "sync", "gather", "stop")
    BY Zenon, <1>7 DEF SyncSkip
  <2>2. j \in closer.jobs /\ j \in Job
    BY Zenon, CloserJobsType
  <2> QED BY Zenon, <1>6, <1>7, <2>1, <2>2 DEF SyncSkip
<1>8. CASE SyncClear
  <2>1. closer.job \in closer.jobs /\ closer.job \in Job
    BY Zenon, <1>0, <1>8 DEF SyncClear, Handles
  <2> QED BY Zenon, <1>6, <1>8, <2>1 DEF SyncClear
<1>9. CASE SyncPass
  <2>1. PICK j \in CloserJobs : closer' = [closer EXCEPT !.pc = "write", !.job = j]
    BY Zenon, <1>9 DEF SyncPass
  <2>2. j \in closer.jobs /\ j \in Job
    BY Zenon, CloserJobsType
  <2>3. /\ closer' \in Closer /\ closer'.pc = "write"
        /\ closer'.job = j /\ closer'.jobs = closer.jobs
    BY Zenon, <1>0, <1>p, <2>1, <2>2 DEF Closer
  <2>4. UNCHANGED vars
    BY Zenon, <1>9 DEF SyncPass
  <2>5. LifeGood'
    BY Zenon, <1>0, <2>4, GoodSame
  <2>6. Handles'
    BY Zenon, <1>0, <2>2, <2>3, <2>4 DEF Handles, vars
  <2> QED BY Zenon, <2>3, <2>5, <2>6 DEF LifeTyped
\* A step that keeps the job in the closer's hands.
<1>10. ASSUME LifeGood', UNCHANGED <<wpc, wjob>>, closer.pc \in {"write", "mark"},
              NEW pc \in {"mark", "clear"}, pc = "mark" => closer.job.op = "put",
              NEW failed \in BOOLEAN,
              closer' = [closer EXCEPT !.pc = pc, !.failed = failed]
       PROVE  LifeTyped'
  <2>1. closer.job \in closer.jobs /\ closer.job \in Job
    BY Zenon, <1>0, <1>10 DEF Handles
  <2>2. /\ closer' \in Closer /\ closer'.pc = pc
        /\ closer'.job = closer.job /\ closer'.jobs = closer.jobs
    BY Zenon, <1>0, <1>p, <1>10 DEF Closer
  <2>3. Handles'
    BY Zenon, <1>0, <1>10, <2>1, <2>2 DEF Handles
  <2> QED BY Zenon, <1>10, <2>2, <2>3 DEF LifeTyped
<1>11. CASE SyncWrite
  <2>1. closer.job \in Job
    BY Zenon, <1>0, <1>11 DEF SyncWrite, Handles
  <2>2. source' \in [Keys -> Nat] /\ faults' \in Nat
    <3>1. source \in [Keys -> Nat] /\ faults \in Nat
      BY Zenon, <1>0 DEF LifeGood, Good, Typed
    <3>2. faults' \in Nat
      BY <1>11, <3>1, ConstantsAssumption DEF SyncWrite
    <3> QED BY Zenon, <1>11, <2>1, <3>1, <3>2 DEF SyncWrite, Job
  <2>3. LifeGood'
    BY Zenon, <1>0, <1>11, <2>2
    DEF SyncWrite, LifeGood, Good, Typed, FlushersHoldJobs, MetadataBounded
  <2> DEFINE pc == IF closer.job.op = "put" THEN "mark" ELSE "clear"
  <2>4. /\ pc \in {"mark", "clear"} /\ (pc = "mark" => closer.job.op = "put")
        /\ closer.failed \in BOOLEAN
        /\ closer' = [closer EXCEPT !.pc = pc, !.failed = closer.failed]
    BY Zenon, <1>0, <1>p, <1>11 DEF SyncWrite, Closer
  <2>5. UNCHANGED <<wpc, wjob>> /\ closer.pc \in {"write", "mark"}
    BY Zenon, <1>11 DEF SyncWrite
  <2> HIDE DEF pc
  <2> QED BY Zenon, <1>10, <2>3, <2>4, <2>5
<1>12. CASE SyncWriteFails
  <2>1. closer.job \in Job
    BY Zenon, <1>0, <1>12 DEF SyncWriteFails, Handles
  <2>2. reported' \in [Keys -> SUBSET Nat] /\ faults' \in Nat
    <3>1. reported \in [Keys -> SUBSET Nat] /\ faults \in Nat
      BY Zenon, <1>0 DEF LifeGood, Good, Typed
    <3>2. faults' \in Nat
      BY <1>12, <3>1, ConstantsAssumption DEF SyncWriteFails
    <3>3. {closer.job} \in SUBSET Job
      BY Zenon, <2>1
    <3> QED BY Zenon, <1>12, <3>1, <3>2, <3>3, ReportType DEF SyncWriteFails
  <2>3. LifeGood'
    BY Zenon, <1>0, <1>12, <2>2
    DEF SyncWriteFails, LifeGood, Good, Typed, FlushersHoldJobs, MetadataBounded
  <2> QED BY Zenon, <1>10, <1>12, <2>3 DEF SyncWriteFails
<1>13. CASE SyncMark
  <2>1. closer.job \in Job
    BY Zenon, <1>0, <1>13 DEF SyncMark, Handles
  <2>2. GoodSlots(slot')
    <3>1. closer.job.key \in Keys
      BY Zenon, <2>1 DEF Job
    <3>2. slot[closer.job.key] \in Slot /\ Coherent(slot[closer.job.key])
      BY Zenon, <1>0, <3>1 DEF GoodSlots
    <3>3. /\ MarkClean(slot[closer.job.key], closer.job) \in Slot
          /\ Coherent(MarkClean(slot[closer.job.key], closer.job))
      BY Zenon, <3>2, MarkCleanCoherent
    <3> QED BY Zenon, <1>0, <1>13, <3>1, <3>3, GoodSlotsExcept DEF SyncMark
  <2>3. LifeGood'
    BY Zenon, <1>0, <1>13, <2>2, GoodSlotsOnly DEF SyncMark
  <2>4. /\ closer.failed \in BOOLEAN
        /\ closer' = [closer EXCEPT !.pc = "clear", !.failed = closer.failed]
    BY Zenon, <1>0, <1>p, <1>13 DEF SyncMark, Closer
  <2> QED BY Zenon, <1>10, <1>13, <2>3, <2>4 DEF SyncMark
<1>14. CASE OfferStop
  <2>1. StopWorker \in AnyJob
    BY Zenon DEF AnyJob, OtherJob
  <2>2. queue' \in Seq(AnyJob)
    BY Zenon, <1>0, <1>14, <2>1, QueueGrows DEF OfferStop
  <2>3. LifeGood'
    BY Zenon, <1>0, <1>14, <2>2, GoodQueueOnly DEF OfferStop
  <2> DEFINE last == closer.step = Cardinality(Workers)
             step == IF last THEN 1 ELSE closer.step + 1
             pc == IF last THEN "threads" ELSE closer.pc
  <2>4. step \in Nat /\ pc \in {"sentinels", "threads"}
    BY <1>0, <1>14 DEF OfferStop, Closer
  <2>5. closer' = [closer EXCEPT !.pc = pc, !.step = step]
    BY Zenon, <1>14 DEF OfferStop
  <2> HIDE DEF step, pc
  <2>6. closer' \in Closer /\ closer'.pc \in {"sentinels", "threads"}
    BY Zenon, <1>0, <1>p, <2>4, <2>5 DEF Closer
  <2> QED BY Zenon, <1>14, <2>3, <2>6, CloserMoves DEF OfferStop
<1>15. CASE Drain
  <2>1. queue' \in Seq(AnyJob)
    BY <1>0, <1>15 DEF Drain
  <2>2. LifeGood'
    BY Zenon, <1>0, <1>15, <2>1, GoodQueueOnly DEF Drain
  <2> QED BY Zenon, <1>0, <1>15, <2>2, HandlesSame DEF Drain, LifeTyped
<1> QED BY Zenon, <1>1, <1>2, <1>3, <1>4, <1>5, <1>7, <1>8, <1>9, <1>11, <1>12, <1>13,
           <1>14, <1>15 DEF CloserStep

LEMMA LifeTypedInit == LifeInit => LifeTyped
<1> SUFFICES ASSUME LifeInit
             PROVE  LifeTyped
  BY Zenon
<1>1. Typed(AnyJob, WorkerPhases)
  BY ConstantsAssumption
  DEF LifeInit, Init, Typed, EmptySlot, Slot, WorkerPhases, Phases
<1>2. FlushersHoldJobs /\ MetadataBounded
  BY DEF LifeInit, Init, FlushersHoldJobs, FlushPhases, MetadataBounded, EmptySlot,
         Coherent, Cached
<1>3. closer \in Closer
  BY Zenon DEF LifeInit, Closer, CloserPhases, BeforeGather
<1>4. Handles
  BY Zenon DEF LifeInit, Init, Handles
<1> QED BY Zenon, <1>1, <1>2, <1>3, <1>4 DEF LifeTyped, LifeGood, Good

LEMMA LifeTypedStep == LifeTyped /\ [LifeNext]_allVars => LifeTyped'
<1> SUFFICES ASSUME LifeTyped, [LifeNext]_allVars
             PROVE  LifeTyped'
  BY Zenon
<1>1. CASE CloserStep \/ \E flush \in BOOLEAN : BeginClose(flush)
  BY Zenon, <1>1, CloserStepTyped
<1>2. CASE \E w \in Workers : PoolStep(w)
  BY Zenon, <1>2, PoolStepTyped
<1> QED BY Zenon, <1>1, <1>2, ThreadStepTyped DEF LifeNext

\* The queue, the slots, the workers and the closer keep their types, and a
\* thread that handles a job holds one of the right kind.
THEOREM LifeTypes == LifeSpec => []LifeTyped
BY LifeTypedInit, LifeTypedStep, PTL DEF LifeSpec

\* From construction to the end of close(), the version marks and tombstones
\* stay bounded by the live keys plus the keys with outstanding flushes, and
\* agree with the entries: the jobs that close() collects, its synchronous
\* flush, preloads and the scheduler's expirations included.
THEOREM LifeKeepsMetadataBounded == LifeSpec => []MetadataBounded
<1>1. LifeTyped => MetadataBounded
  BY Zenon DEF LifeTyped, LifeGood, Good
<1> QED BY <1>1, LifeTypes, PTL

-----------------------------------------------------------------------------
(* The phases of close().                                                  *)

Stopped == {"sentinels", "threads", "drain", "closed"}

\* The lifecycle follows the closer; the pool stops after the flush; a pool
\* that was never started is idle; the closer begins with the first shard; a
\* preload that was admitted is still there.
CloserInv ==
    /\ closer.pc = "idle" => lifecycle \in {"created", "started"}
    /\ closer.pc # "idle" =>
           lifecycle = IF closer.pc = "closed" THEN "closed" ELSE "closing"
    /\ closer.pc \notin Stopped => pool \in {"new", "running"}
    /\ closer.pc \in {"idle", "scheduler", "join"} => closer.step = 1

PoolInv ==
    /\ pool = "new" => \A w \in Workers : wpc[w] \in {"idle", "exited"}
    /\ \A w \in Workers \cap admitted : wpc[w] = "putting"

\* Once the queue has been joined, no preload puts anything.
NoLatePreload ==
    closer.flush /\ ~closer.failed /\ closer.pc \notin BeforeGather =>
        admitted \cap Workers = {}

PhaseInv == CloserInv /\ PoolInv /\ NoLatePreload

LEMMA PhaseInvInit == LifeInit => PhaseInv
BY DEF LifeInit, Init, PhaseInv, CloserInv, PoolInv, NoLatePreload, Stopped,
       BeforeGather

LEMMA ThreadStepPhases ==
    ASSUME LifeTyped, PhaseInv,
           \/ Start \/ SchedulerWakes \/ TickShard
           \/ \E c \in Callers : Admit(c) \/ Section(c) \/ Preload(c) \/ Continue(c)
           \/ UNCHANGED allVars
    PROVE  PhaseInv'
<1>1. UNCHANGED <<wpc, wjob, closer>>
  BY Zenon, ThreadStepTyped
<1>2. admitted' \cap Workers \subseteq admitted \cap Workers
  BY Zenon, ClientsAssumption
  DEF Start, SchedulerWakes, TickShard, Admit, Section, Preload, Continue,
      allVars, lifeVars
<1>3. CASE Start
  <2>1. closer.pc = "idle" /\ pool \in {"new", "running"}
    BY Zenon, <1>3 DEF Start, PhaseInv, CloserInv, Stopped
  <2> QED BY Zenon, <1>1, <1>2, <1>3, <2>1
          DEF Start, PoolStart, PhaseInv, CloserInv, PoolInv, NoLatePreload
<1>4. CASE ~Start
  <2>1. UNCHANGED <<lifecycle, pool>>
    BY Zenon, <1>4 DEF SchedulerWakes, TickShard, Admit, Section, Preload, Continue,
                allVars, lifeVars
  <2> QED BY Zenon, <1>1, <1>2, <2>1 DEF PhaseInv, CloserInv, PoolInv, NoLatePreload
<1> QED BY Zenon, <1>3, <1>4

LEMMA PoolStepPhases ==
    ASSUME LifeTyped, PhaseInv, NEW w \in Workers, PoolStep(w)
    PROVE  PhaseInv'
<1>0. wpc \in [Workers -> WorkerPhases] /\ UNCHANGED closer
  BY Zenon, PoolStepTyped DEF LifeTyped, LifeGood, Good, Typed
<1>1. UNCHANGED <<lifecycle, pool>>
  BY Zenon DEF PoolStep, FlushStep, TakeOther, RunExpire, LoaderFails, PreloadAdmit,
         PreloadPut, Continue, PreloadDone, TakeStop, IdleStop, lifeVars
<1>2. CloserInv'
  BY Zenon, <1>0, <1>1 DEF PhaseInv, CloserInv
<1>3. CASE PreloadAdmit(w)
  <2>1. pool # "new"
    BY Zenon, <1>3 DEF PreloadAdmit, PhaseInv, PoolInv
  <2>2. CASE Open /\ admitted' = admitted \cup {w} /\ Goto(w, "putting")
    <3>1. closer.pc = "idle"
      BY Zenon, <2>2 DEF Open, LifecycleLockFree, PhaseInv, CloserInv
    <3> QED BY Zenon, <1>0, <1>1, <1>2, <2>1, <2>2, <3>1
            DEF PhaseInv, PoolInv, NoLatePreload, BeforeGather, Goto
  <2>3. CASE Finish(w) /\ UNCHANGED admitted
    <3>1. w \notin admitted
      BY Zenon, <1>3 DEF PreloadAdmit, PhaseInv, PoolInv
    <3> QED BY Zenon, <1>0, <1>1, <1>2, <2>1, <2>3, <3>1
            DEF PhaseInv, PoolInv, NoLatePreload, Finish, Goto
  <2> QED BY Zenon, <1>3, <2>2, <2>3 DEF PreloadAdmit
<1>4. CASE PreloadPut(w) \/ Continue(w)
  <2>1. UNCHANGED wpc /\ admitted' \subseteq admitted
    BY Zenon, <1>4 DEF PreloadPut, Continue, PutCall, PutEvicting, ClientProgress,
                ClearShard, Enqueue, EnqueueTimeout, Release
  <2> QED BY Zenon, <1>0, <1>1, <1>2, <2>1 DEF PhaseInv, PoolInv, NoLatePreload
<1>5. CASE LoaderFails(w)
  BY Zenon, <1>0, <1>1, <1>2, <1>5
  DEF LoaderFails, lifeVars, PhaseInv, PoolInv, NoLatePreload
<1>6. CASE \/ FlushStep(w) \/ TakeOther(w, "expire") \/ TakeOther(w, "preload")
           \/ RunExpire(w) \/ PreloadDone(w) \/ TakeStop(w) \/ IdleStop(w)
  <2>1. w \notin admitted /\ UNCHANGED admitted
    BY Zenon, <1>6 DEF FlushStep, TakeOther, RunExpire, PreloadDone, TakeStop, IdleStop,
                lifeVars, PhaseInv, PoolInv, WorkerStep, Take, Skip, Pass, Apply,
                ApplyFails, Settle, Retry, RetryTimeout, GiveUp
  <2>2. \A x \in Workers \ {w} : wpc'[x] = wpc[x]
    BY Zenon, <1>0, <1>6
    DEF FlushStep, TakeOther, RunExpire, PreloadDone, TakeStop, IdleStop, Goto,
        Finish, WorkerStep, Take, Skip, Pass, Apply, ApplyFails, Settle, Retry,
        RetryTimeout, GiveUp
  <2>3. pool = "new" => wpc'[w] \in {"idle", "exited"}
    BY Zenon, <1>0, <1>6
    DEF FlushStep, TakeOther, RunExpire, PreloadDone, TakeStop, IdleStop, Goto,
        Finish, PhaseInv, PoolInv
  <2> QED BY Zenon, <1>0, <1>1, <1>2, <2>1, <2>2, <2>3 DEF PhaseInv, PoolInv, NoLatePreload
<1> QED BY Zenon, <1>3, <1>4, <1>5, <1>6 DEF PoolStep

\* How the closer moves from phase to phase.
LEMMA CloserFields ==
    ASSUME LifeTyped
    PROVE  /\ SchedulerJoined =>
                  /\ closer'.pc = IF closer.flush THEN "collect" ELSE "stop"
                  /\ closer'.flush = closer.flush
           /\ Collect \/ Offer \/ Unregister =>
                  /\ closer.pc \in {"collect", "offer", "unregister"}
                  /\ closer'.pc \in {"collect", "offer", "unregister", "join"}
                  /\ closer'.pc = "join" => closer'.step = 1
           /\ OfferTimeout => closer.pc = "offer" /\ closer'.pc = "unregister"
           /\ Joined => /\ closer'.pc = "gather" /\ closer'.step = closer.step
                        /\ closer'.flush = closer.flush
                        /\ closer'.failed = closer.failed
           /\ JoinTimeout => closer'.pc = "gather" /\ closer'.failed
           /\ Gather \/ SyncSkip \/ SyncClear =>
                  /\ closer.pc \in {"gather", "sync", "clear"}
                  /\ closer'.pc \in {"gather", "sync", "stop"}
                  /\ closer'.flush = closer.flush /\ closer'.failed = closer.failed
           /\ SyncPass \/ SyncWrite \/ SyncWriteFails \/ SyncMark =>
                  /\ closer.pc \in {"sync", "write", "mark"}
                  /\ closer'.pc \in {"write", "mark", "clear"}
                  /\ closer'.flush = closer.flush
                  /\ closer.failed => closer'.failed
           /\ StopPool \/ OfferStop \/ ThreadsJoined \/ Drain =>
                  /\ closer.pc \in {"stop", "sentinels", "threads", "drain"}
                  /\ closer'.pc \in {"sentinels", "threads", "drain"}
                  /\ closer'.flush = closer.flush /\ closer'.failed = closer.failed
           /\ Closed => /\ closer.pc = "drain" /\ closer'.pc = "closed"
                        /\ closer'.flush = closer.flush
                        /\ closer'.failed = closer.failed
<1>0. closer \in Closer /\ closer.jobs \in SUBSET Job
  BY Zenon DEF LifeTyped, Closer
<1>p. /\ "offer" \in CloserPhases /\ "unregister" \in CloserPhases
      /\ "collect" \in CloserPhases /\ "join" \in CloserPhases
      /\ "gather" \in CloserPhases /\ "sync" \in CloserPhases
      /\ "stop" \in CloserPhases
  BY Zenon DEF CloserPhases, BeforeGather, Flushing, AfterFlush
<1>1. SchedulerJoined \/ OfferTimeout \/ Joined \/ JoinTimeout =>
         /\ SchedulerJoined =>
                /\ closer'.pc = IF closer.flush THEN "collect" ELSE "stop"
                /\ closer'.flush = closer.flush
         /\ OfferTimeout => closer.pc = "offer" /\ closer'.pc = "unregister"
         /\ Joined => /\ closer'.pc = "gather" /\ closer'.step = closer.step
                      /\ closer'.flush = closer.flush
                      /\ closer'.failed = closer.failed
         /\ JoinTimeout => closer'.pc = "gather" /\ closer'.failed
  BY Zenon, <1>0 DEF SchedulerJoined, OfferTimeout, Joined, JoinTimeout, Closer
<1>2. ASSUME Collect \/ Offer \/ Unregister
      PROVE  /\ closer.pc \in {"collect", "offer", "unregister"}
             /\ closer'.pc \in {"collect", "offer", "unregister", "join"}
             /\ closer'.pc = "join" => closer'.step = 1
  <2>1. PICK jobs \in SUBSET Job, busy \in {"offer", "unregister"} :
            closer' = NextPhase(closer, jobs, busy, "collect", "join")
    <3>1. CASE Collect
      <4>1. DirtyJobs(closer.step) \in SUBSET Job
        BY Zenon, DirtyJobsType DEF LifeTyped
      <4> QED BY Zenon, <3>1, <4>1 DEF Collect
    <3>2. CASE Offer
      BY Zenon, <1>0, <3>2 DEF Offer
    <3>3. CASE Unregister
      BY Zenon, <1>0, <3>3 DEF Unregister
    <3> QED BY Zenon, <1>2, <3>1, <3>2, <3>3
  <2>2. busy \in CloserPhases
    BY Zenon, <1>p
  <2>3. /\ closer'.pc \in {busy, "collect", "join"}
        /\ closer'.pc = "join" => closer'.step = 1
    BY <1>0, <1>p, <2>1, <2>2, NextPhaseFields
  <2>4. closer.pc \in {"collect", "offer", "unregister"}
    BY Zenon, <1>2 DEF Collect, Offer, Unregister
  <2> QED BY Zenon, <2>3, <2>4
<1>3. ASSUME Gather \/ SyncSkip \/ SyncClear
      PROVE  /\ closer.pc \in {"gather", "sync", "clear"}
             /\ closer'.pc \in {"gather", "sync", "stop"}
             /\ closer'.flush = closer.flush /\ closer'.failed = closer.failed
  <2>1. PICK jobs \in SUBSET Job :
            closer' = NextPhase(closer, jobs, "sync", "gather", "stop")
    <3>1. CASE Gather
      <4>1. DirtyJobs(closer.step) \in SUBSET Job
        BY Zenon, DirtyJobsType DEF LifeTyped
      <4> QED BY Zenon, <3>1, <4>1 DEF Gather
    <3>2. CASE SyncSkip
      BY Zenon, <1>0, <3>2 DEF SyncSkip
    <3>3. CASE SyncClear
      BY Zenon, <1>0, <3>3 DEF SyncClear
    <3> QED BY Zenon, <1>3, <3>1, <3>2, <3>3
  <2>2. /\ closer'.pc \in {"gather", "sync", "stop"}
        /\ closer'.flush = closer.flush /\ closer'.failed = closer.failed
    BY <1>0, <1>p, <2>1, NextPhaseFields
  <2>3. closer.pc \in {"gather", "sync", "clear"}
    BY Zenon, <1>3 DEF Gather, SyncSkip, SyncClear
  <2> QED BY Zenon, <2>2, <2>3
<1>4. ASSUME SyncPass \/ SyncWrite \/ SyncWriteFails \/ SyncMark
      PROVE  /\ closer.pc \in {"sync", "write", "mark"}
             /\ closer'.pc \in {"write", "mark", "clear"}
             /\ closer'.flush = closer.flush
             /\ closer.failed => closer'.failed
  BY Zenon, <1>0, <1>4 DEF SyncPass, SyncWrite, SyncWriteFails, SyncMark, Closer
<1>5. ASSUME StopPool \/ OfferStop \/ ThreadsJoined \/ Drain \/ Closed
      PROVE  /\ closer.pc \in {"stop", "sentinels", "threads", "drain"}
             /\ closer'.pc \in {"sentinels", "threads", "drain", "closed"}
             /\ Closed => closer.pc = "drain" /\ closer'.pc = "closed"
             /\ ~Closed => closer'.pc # "closed"
             /\ closer'.flush = closer.flush /\ closer'.failed = closer.failed
  BY Zenon, <1>0, <1>5 DEF StopPool, OfferStop, ThreadsJoined, Drain, Closed, Closer
<1>6. ~(Closed /\ (StopPool \/ OfferStop \/ ThreadsJoined \/ Drain))
  BY Zenon DEF StopPool, OfferStop, ThreadsJoined, Drain, Closed
<1> QED BY Zenon, <1>1, <1>2, <1>3, <1>4, <1>5, <1>6

LEMMA CloserStepPhases ==
    ASSUME LifeTyped, PhaseInv, CloserStep \/ \E flush \in BOOLEAN : BeginClose(flush)
    PROVE  PhaseInv'
<1>0. closer \in Closer
  BY Zenon DEF LifeTyped
<1>1. UNCHANGED <<wpc, admitted>> /\ (pool' = "new" => pool = "new")
  BY Zenon DEF CloserStep, BeginClose, SchedulerJoined, Collect, Offer, OfferTimeout,
         Unregister, Joined, JoinTimeout, Gather, SyncSkip, SyncPass, SyncWrite,
         SyncWriteFails, SyncMark, SyncClear, StopPool, OfferStop, ThreadsJoined,
         Drain, Closed, vars
<1>2. PoolInv'
  BY Zenon, <1>1 DEF PhaseInv, PoolInv
<1>3. ASSUME NEW flush \in BOOLEAN, BeginClose(flush)
      PROVE  CloserInv' /\ NoLatePreload'
  <2>1. closer'.pc = "scheduler" /\ closer'.step = closer.step
    BY Zenon, <1>0, <1>3 DEF BeginClose, Closer
  <2> QED BY Zenon, <1>3, <2>1 DEF BeginClose, PhaseInv, CloserInv, NoLatePreload,
                            BeforeGather, Stopped
<1>4. CASE SchedulerJoined \/ Collect \/ Offer \/ Unregister \/ OfferTimeout
  <2>1. UNCHANGED <<lifecycle, pool>>
    BY Zenon, <1>4 DEF SchedulerJoined, Collect, Offer, Unregister, OfferTimeout
  <2>2. /\ closer.pc \in {"scheduler", "collect", "offer", "unregister"}
        /\ closer'.pc \in {"collect", "offer", "unregister", "join", "stop"}
        /\ closer'.pc = "join" => closer'.step = 1
        /\ closer'.pc = "stop" => ~closer'.flush
    BY Zenon, <1>4, CloserFields DEF SchedulerJoined
  <2> QED BY Zenon, <1>2, <2>1, <2>2
          DEF PhaseInv, CloserInv, NoLatePreload, BeforeGather, Stopped
<1>5. CASE Joined
  <2>1. /\ UNCHANGED <<lifecycle, pool>>
        /\ closer.pc = "join" /\ closer'.pc = "gather"
    BY Zenon, <1>5, CloserFields DEF Joined
  <2>2. \A w \in Workers : wpc[w] \in {"idle", "exited"}
    <3>1. CASE pool = "running"
      <4>1. Len(queue) \in Nat /\ IsFiniteSet(Busy)
        <5>1. queue \in Seq(AnyJob)
          BY Zenon DEF LifeTyped, LifeGood, Good, Typed
        <5> QED BY <5>1, ThreadsFinite, FS_Subset DEF Busy
      <4>2. Cardinality(Busy) \in Nat
        BY Zenon, <4>1, FS_CardinalityType
      <4>3. Cardinality(Busy) = 0
        BY <1>5, <3>1, <4>1, <4>2 DEF Joined, Unfinished
      <4>4. Busy = {}
        BY Zenon, <4>1, <4>3, FS_EmptySet
      <4> QED BY Zenon, <4>4 DEF Busy
    <3>2. CASE pool = "new"
      BY Zenon, <3>2 DEF PhaseInv, PoolInv
    <3> QED BY Zenon, <2>1, <3>1, <3>2 DEF PhaseInv, CloserInv, Stopped
  <2>3. admitted \cap Workers = {}
    BY Zenon, <2>2 DEF PhaseInv, PoolInv
  <2> QED BY Zenon, <1>1, <1>2, <2>1, <2>3 DEF PhaseInv, CloserInv, NoLatePreload, Stopped
<1>6. CASE JoinTimeout
  <2>1. /\ UNCHANGED <<lifecycle, pool>> /\ closer'.failed
        /\ closer.pc = "join" /\ closer'.pc = "gather"
    BY Zenon, <1>6, CloserFields DEF JoinTimeout
  <2> QED BY Zenon, <1>1, <1>2, <2>1 DEF PhaseInv, CloserInv, NoLatePreload, Stopped
<1>7. CASE \/ Gather \/ SyncSkip \/ SyncClear
           \/ SyncPass \/ SyncWrite \/ SyncWriteFails \/ SyncMark
  <2>1. UNCHANGED <<lifecycle, pool>>
    BY Zenon, <1>7 DEF Gather, SyncSkip, SyncClear, SyncPass, SyncWrite, SyncWriteFails,
                SyncMark
  <2>2. /\ closer.pc \in {"gather", "sync", "write", "mark", "clear"}
        /\ closer'.pc \in {"gather", "sync", "write", "mark", "clear", "stop"}
        /\ closer'.flush = closer.flush /\ (closer.failed => closer'.failed)
    BY Zenon, <1>7, CloserFields
  <2> QED BY Zenon, <1>1, <1>2, <2>1, <2>2
          DEF PhaseInv, CloserInv, NoLatePreload, Stopped, BeforeGather
<1>8. CASE StopPool \/ OfferStop \/ ThreadsJoined \/ Drain
  <2>1. UNCHANGED lifecycle
    BY Zenon, <1>8 DEF StopPool, OfferStop, ThreadsJoined, Drain
  <2>2. /\ closer.pc \in {"stop", "sentinels", "threads", "drain"}
        /\ closer'.pc \in {"sentinels", "threads", "drain"}
        /\ closer'.flush = closer.flush /\ closer'.failed = closer.failed
    BY Zenon, <1>8, CloserFields
  <2> QED BY Zenon, <1>1, <1>2, <2>1, <2>2
          DEF PhaseInv, CloserInv, NoLatePreload, Stopped, BeforeGather
<1>9. CASE Closed
  <2>1. /\ closer.pc = "drain" /\ closer'.pc = "closed" /\ lifecycle' = "closed"
        /\ closer'.flush = closer.flush /\ closer'.failed = closer.failed
    BY Zenon, <1>9, CloserFields DEF Closed
  <2> QED BY Zenon, <1>1, <1>2, <2>1
          DEF PhaseInv, CloserInv, NoLatePreload, Stopped, BeforeGather
<1> QED BY Zenon, <1>2, <1>3, <1>4, <1>5, <1>6, <1>7, <1>8, <1>9
        DEF CloserStep, PhaseInv

LEMMA PhaseInvStep == LifeTyped /\ PhaseInv /\ [LifeNext]_allVars => PhaseInv'
<1> SUFFICES ASSUME LifeTyped, PhaseInv, [LifeNext]_allVars
             PROVE  PhaseInv'
  BY Zenon
<1>1. CASE CloserStep \/ \E flush \in BOOLEAN : BeginClose(flush)
  BY Zenon, <1>1, CloserStepPhases
<1>2. CASE \E w \in Workers : PoolStep(w)
  BY Zenon, <1>2, PoolStepPhases
<1> QED BY Zenon, <1>1, <1>2, ThreadStepPhases DEF LifeNext

-----------------------------------------------------------------------------
(* Where the dirty entries are during close().                             *)

\* One of the jobs is the flush of the entry of k as it is now.
Listed(k, jobs) ==
    \E j \in jobs : j.key = k /\ j.op = "put" /\ j.version = slot[k].version

\* The flush has yet to come to the entry of k.
Ahead(k) ==
    \/ closer.pc \in BeforeGather
    \/ closer.pc = "gather" /\ ShardOf[k] >= closer.step
    \/ closer.pc \in Flushing /\ ShardOf[k] > closer.step
    \/ closer.pc \in {"sync", "write", "mark"} /\ Listed(k, closer.jobs)
    \/ closer.pc = "clear" /\ Listed(k, closer.jobs \ {closer.job})

\* While a close(flush=True) has not failed, the flush has yet to come to
\* every dirty entry, except for keys that were written during close().
DirtyCovered ==
    closer.flush /\ ~closer.failed =>
        \A k \in Keys \ overlap : Cached(slot[k]) /\ slot[k].dirty => Ahead(k)

\* Slot t, a successor of s, holds no dirty entry but the one s holds.
Keeps(s, t) ==
    Cached(t) /\ t.dirty => Cached(s) /\ s.dirty /\ t.version = s.version

\* Only put() makes an entry dirty.
LEMMA SlotKeeps ==
    ASSUME NEW s \in Slot, Coherent(s)
    PROVE  /\ Keeps(s, s) /\ Keeps(s, RemoveEntry(s)) /\ Keeps(s, DeleteEntry(s))
           /\ Keeps(s, RegisterPending(s)) /\ Keeps(s, ResolvePending(s))
           /\ Keeps(s, ClearPending(s))
           /\ \A j : /\ Keeps(s, MarkClean(s, j))
                     /\ Keeps(s, ResolvePending(MarkClean(s, j)))
<1>1. Keeps(s, RemoveEntry(s)) /\ Keeps(s, DeleteEntry(s)) /\ Keeps(s, s)
  BY Zenon, SlotEntries DEF Keeps
<1>2. ASSUME NEW r \in Slot, NEW t, SameEntry(t, r), Keeps(s, r)
      PROVE  Keeps(s, t)
  BY Zenon, <1>2 DEF Keeps, SameEntry, Cached
<1>3. Keeps(s, RegisterPending(s)) /\ Keeps(s, ResolvePending(s))
  BY Zenon, <1>1, <1>2, SlotEntries
<1>4. Keeps(s, ClearPending(s))
  BY Zenon, <1>1, <1>2, ClearPendingCoherent
<1>5. ASSUME NEW j
      PROVE  Keeps(s, MarkClean(s, j)) /\ Keeps(s, ResolvePending(MarkClean(s, j)))
  <2>1. Keeps(s, MarkClean(s, j)) /\ MarkClean(s, j) \in Slot
    BY Zenon, MarkCleanCoherent DEF MarkClean, Keeps, Slot, Cached
  <2>2. SameEntry(ResolvePending(MarkClean(s, j)), MarkClean(s, j))
    BY Zenon, <2>1, SlotEntries
  <2> QED BY Zenon, <1>2, <2>1, <2>2
<1> QED BY Zenon, <1>1, <1>3, <1>4, <1>5

\* The slots, as the lemma above needs them.
LEMMA SlotsOfLife ==
    ASSUME LifeTyped
    PROVE  /\ slot \in [Keys -> Slot]
           /\ \A k \in Keys : slot[k] \in Slot /\ Coherent(slot[k])
BY Zenon, GoodSlotsOfGood DEF LifeTyped, LifeGood, GoodSlots

\* One slot changes.
LEMMA OneSlotKeeps ==
    ASSUME LifeTyped, NEW k \in Keys, NEW t, Keeps(slot[k], t),
           slot' = [slot EXCEPT ![k] = t]
    PROVE  \A x \in Keys : Keeps(slot[x], slot'[x])
<1>1. ASSUME NEW x \in Keys
      PROVE  Keeps(slot[x], slot'[x])
  <2>1. CASE x = k
    BY Zenon, <2>1, SlotsOfLife
  <2>2. CASE x # k
    <3>1. slot'[x] = slot[x]
      BY Zenon, <2>2, SlotsOfLife
    <3> QED BY Zenon, <3>1, SlotsOfLife, SlotKeeps
  <2> QED BY Zenon, <2>1, <2>2
<1> QED BY Zenon, <1>1

\* A step of another thread, which may make the entries of K dirty.
LEMMA CoveredKept ==
    ASSUME LifeTyped, DirtyCovered, NEW K,
           \A k \in Keys \ K : Keeps(slot[k], slot'[k]),
           \/ K \subseteq overlap'
           \/ closer.pc \in BeforeGather
           \/ ~(closer.flush /\ ~closer.failed),
           UNCHANGED closer, overlap \subseteq overlap'
    PROVE  DirtyCovered'
<1> SUFFICES ASSUME closer.flush, ~closer.failed, closer.pc \notin BeforeGather,
                    NEW k \in Keys \ overlap', Cached(slot'[k]), slot'[k].dirty
             PROVE  Ahead(k)'
  BY Zenon DEF DirtyCovered, Ahead
<1>1. k \notin K /\ k \notin overlap
  BY Zenon
<1>2. Cached(slot[k]) /\ slot[k].dirty /\ slot'[k].version = slot[k].version
  BY Zenon, <1>1 DEF Keeps
<1>3. Ahead(k)
  BY Zenon, <1>1, <1>2 DEF DirtyCovered
<1> QED BY Zenon, <1>2, <1>3 DEF Ahead, Listed

LEMMA ClientKeeps ==
    ASSUME LifeTyped, NEW c \in Clients,
           \/ \E k \in Keys : Delete(c, k) \/ Expire(k)
           \/ StartClear(c) \/ ClientProgress(c)
    PROVE  \A x \in Keys : Keeps(slot[x], slot'[x])
<1>0. slot \in [Keys -> Slot] /\ \A k \in Keys : slot[k] \in Slot /\ Coherent(slot[k])
  BY Zenon, SlotsOfLife
<1>1. ASSUME NEW k \in Keys, Delete(c, k)
      PROVE  \A x \in Keys : Keeps(slot[x], slot'[x])
  <2>1. Keeps(slot[k], DeleteEntry(slot[k]))
    BY Zenon, <1>0, SlotKeeps
  <2> QED BY Zenon, <1>1, <2>1, OneSlotKeeps DEF Delete
<1>2. ASSUME NEW k \in Keys, Expire(k)
      PROVE  \A x \in Keys : Keeps(slot[x], slot'[x])
  <2>1. Keeps(slot[k], RemoveEntry(slot[k]))
    BY Zenon, <1>0, SlotKeeps
  <2> QED BY Zenon, <1>2, <2>1, OneSlotKeeps DEF Expire
<1>3. CASE ClearShard(c)
  <2> DEFINE live == Live(slot, nextShard[c])
  <2>1. slot' = [k \in Keys |-> IF k \in live THEN DeleteEntry(slot[k]) ELSE slot[k]]
    BY Zenon, <1>3 DEF ClearShard
  <2> HIDE DEF live
  <2>2. \A k \in Keys : slot'[k] = DeleteEntry(slot[k]) \/ slot'[k] = slot[k]
    BY Zenon, <2>1
  <2>3. \A k \in Keys : Keeps(slot[k], DeleteEntry(slot[k])) /\ Keeps(slot[k], slot[k])
    BY Zenon, <1>0, SlotKeeps
  <2> QED BY Zenon, <2>2, <2>3
<1>4. CASE Release(c)
  <2>1. PICK j \in hand[c] : slot' = [slot EXCEPT ![j.key] = ResolvePending(@)]
    BY Zenon, <1>4 DEF Release, NextJobs
  <2>2. j.key \in Keys
    BY DEF LifeTyped, LifeGood, Good, Typed, Job
  <2>3. Keeps(slot[j.key], ResolvePending(slot[j.key]))
    BY Zenon, <1>0, <2>2, SlotKeeps
  <2> QED BY Zenon, <2>1, <2>2, <2>3, OneSlotKeeps
<1>5. CASE StartClear(c) \/ Enqueue(c) \/ EnqueueTimeout(c)
  <2>1. UNCHANGED slot
    BY Zenon, <1>5 DEF StartClear, Enqueue, EnqueueTimeout
  <2> QED BY Zenon, <1>0, <2>1, SlotKeeps
<1> QED BY Zenon, <1>1, <1>2, <1>3, <1>4, <1>5 DEF ClientProgress

LEMMA PutKeeps ==
    ASSUME LifeTyped, NEW c \in Clients, NEW k \in Keys, PutCall(c, k)
    PROVE  /\ \A x \in Keys \ {k} : Keeps(slot[x], slot'[x])
           /\ writes'[k] # writes[k]
<1>0. slot \in [Keys -> Slot] /\ \A x \in Keys : slot[x] \in Slot /\ Coherent(slot[x])
  BY Zenon, SlotsOfLife
<1>1. PICK s \in {slot[k], RemoveEntry(slot[k])}, E \in SUBSET Keys :
          /\ slot' = AfterPut(k, s, E)
          /\ writes' = [writes EXCEPT ![k] = @ + 1]
  BY <1>0, PutCallEffect, Zenon
<1>2. \A x \in Keys \ {k} : slot'[x] = RemoveEntry(slot[x]) \/ slot'[x] = slot[x]
  BY Zenon, <1>1 DEF AfterPut
<1>3. \A x \in Keys : Keeps(slot[x], RemoveEntry(slot[x])) /\ Keeps(slot[x], slot[x])
  BY Zenon, <1>0, SlotKeeps
<1>4. writes \in [Keys -> Nat]
  BY Zenon DEF LifeTyped, LifeGood, Good, Typed
<1>5. writes[k] \in Nat /\ writes'[k] = writes[k] + 1
  BY Zenon, <1>1, <1>4
<1> QED BY <1>2, <1>3, <1>5

LEMMA ThreadStepCovers ==
    ASSUME LifeTyped, DirtyCovered,
           \/ Start \/ SchedulerWakes \/ TickShard
           \/ \E c \in Callers : Admit(c) \/ Section(c) \/ Preload(c) \/ Continue(c)
           \/ UNCHANGED allVars
    PROVE  DirtyCovered'
<1>0. UNCHANGED closer
  BY Zenon, ThreadStepTyped
<1>1. CASE \/ Start \/ SchedulerWakes \/ TickShard \/ UNCHANGED allVars
           \/ \E c \in Callers : Admit(c) \/ Preload(c)
  <2>1. UNCHANGED <<slot, overlap>>
    BY Zenon, <1>1 DEF Start, SchedulerWakes, TickShard, Admit, Preload, allVars, vars,
                lifeVars
  <2>2. \A k \in Keys \ {} : Keeps(slot[k], slot'[k])
    BY Zenon, <2>1, SlotsOfLife, SlotKeeps
  <2> QED BY Zenon, <1>0, <2>1, <2>2, CoveredKept
<1>2. ASSUME NEW c \in Callers, Section(c) \/ Continue(c)
      PROVE  DirtyCovered'
  <2>1. c \in Clients /\ overlap \subseteq overlap'
    BY Zenon, <1>2, ClientsAssumption DEF Section, Continue, NoteOverlap
  <2>2. CASE \/ \E k \in Keys : Delete(c, k) \/ Expire(k)
             \/ StartClear(c) \/ ClientProgress(c)
    <3>1. \A k \in Keys \ {} : Keeps(slot[k], slot'[k])
      BY Zenon, <2>1, <2>2, ClientKeeps
    <3> QED BY Zenon, <1>0, <2>1, <3>1, CoveredKept
  <2>3. ASSUME NEW k \in Keys, Put(c, k), Section(c)
        PROVE  DirtyCovered'
    <3>1. /\ \A x \in Keys \ {k} : Keeps(slot[x], slot'[x])
          /\ writes'[k] # writes[k]
      BY Zenon, <2>1, <2>3, PutKeeps DEF Put
    <3>2. {k} \subseteq overlap' \/ closer.pc \in BeforeGather
      BY Zenon, <2>3, <3>1 DEF Section, NoteOverlap, Closing, BeforeGather
    <3> QED BY Zenon, <1>0, <2>1, <3>1, <3>2, CoveredKept
  <2> QED BY Zenon, <1>2, <2>2, <2>3 DEF Section, Continue
<1> QED BY Zenon, <1>1, <1>2

LEMMA PoolStepCovers ==
    ASSUME LifeTyped, PhaseInv, DirtyCovered, NEW w \in Workers, PoolStep(w)
    PROVE  DirtyCovered'
<1>0. UNCHANGED closer
  BY Zenon, PoolStepTyped
<1>1. overlap \subseteq overlap'
  BY Zenon DEF PoolStep, FlushStep, TakeOther, RunExpire, LoaderFails, PreloadAdmit,
         PreloadPut, Continue, NoteOverlap, PreloadDone, TakeStop, IdleStop, lifeVars
<1>2. /\ slot \in [Keys -> Slot]
      /\ \A x \in Keys : slot[x] \in Slot /\ Coherent(slot[x])
  BY Zenon, SlotsOfLife
<1>3. CASE PreloadPut(w)
  <2> DEFINE k == wjob[w].key
  <2>1. k \in Keys /\ w \in Clients
    BY Zenon, <1>3, ClientsAssumption DEF PreloadPut, LifeTyped, Handles
  <2>2. \A x \in Keys \ {k} : Keeps(slot[x], slot'[x])
    BY Zenon, <1>3, <2>1, PutKeeps DEF PreloadPut
  <2>3. closer.pc \in BeforeGather \/ ~(closer.flush /\ ~closer.failed)
    BY Zenon, <1>3 DEF PreloadPut, PhaseInv, NoLatePreload
  <2> HIDE DEF k
  <2> QED BY Zenon, <1>0, <1>1, <2>2, <2>3, CoveredKept
<1>4. ASSUME \A x \in Keys : Keeps(slot[x], slot'[x])
      PROVE  DirtyCovered'
  <2>1. \A x \in Keys \ {} : Keeps(slot[x], slot'[x])
    BY Zenon, <1>4
  <2> QED BY Zenon, <1>0, <1>1, <2>1, CoveredKept
<1>5. CASE Continue(w)
  BY Zenon, <1>4, <1>5, ClientKeeps, ClientsAssumption DEF Continue
<1>6. CASE RunExpire(w)
  <2>1. PICK E \in SUBSET Live(slot, wjob[w].shard) :
            slot' = [k \in Keys |-> IF k \in E THEN RemoveEntry(slot[k])
                                               ELSE slot[k]]
    BY Zenon, <1>6 DEF RunExpire
  <2>2. \A k \in Keys : slot'[k] = RemoveEntry(slot[k]) \/ slot'[k] = slot[k]
    BY Zenon, <2>1
  <2>3. \A k \in Keys : Keeps(slot[k], RemoveEntry(slot[k])) /\ Keeps(slot[k], slot[k])
    BY Zenon, <1>2, SlotKeeps
  <2> QED BY Zenon, <1>4, <2>2, <2>3
<1>7. CASE FlushStep(w) /\ (Skip(w) \/ Settle(w) \/ GiveUp(w))
  <2>1. wjob[w] \in Job
    BY SMTT(30), <1>7 DEF Skip, Settle, GiveUp, LifeTyped, LifeGood, Good,
                          FlushersHoldJobs, FlushPhases, Phases
  <2> DEFINE j == wjob[w]
  <2>2. j.key \in Keys
    BY Zenon, <2>1 DEF Job
  <2>3. \/ slot' = [slot EXCEPT ![j.key] = ResolvePending(@)]
        \/ slot' = [slot EXCEPT ![j.key] = ResolvePending(MarkClean(@, j))]
    BY Zenon, <1>7 DEF Skip, Settle, GiveUp
  <2>4. /\ Keeps(slot[j.key], ResolvePending(slot[j.key]))
        /\ Keeps(slot[j.key], ResolvePending(MarkClean(slot[j.key], j)))
    BY Zenon, <1>2, <2>2, SlotKeeps
  <2> HIDE DEF j
  <2>5. CASE slot' = [slot EXCEPT ![j.key] = ResolvePending(@)]
    BY Zenon, <1>4, <2>2, <2>4, <2>5, OneSlotKeeps
  <2>6. CASE slot' = [slot EXCEPT ![j.key] = ResolvePending(MarkClean(@, j))]
    BY Zenon, <1>4, <2>2, <2>4, <2>6, OneSlotKeeps
  <2> QED BY Zenon, <2>3, <2>5, <2>6
<1>8. CASE UNCHANGED slot
  BY Zenon, <1>2, <1>4, <1>8, SlotKeeps
<1>9. \/ PreloadPut(w) \/ Continue(w) \/ RunExpire(w)
      \/ FlushStep(w) /\ (Skip(w) \/ Settle(w) \/ GiveUp(w))
      \/ UNCHANGED slot
  BY Zenon DEF PoolStep, FlushStep, TakeOther, LoaderFails, PreloadAdmit, PreloadDone,
         TakeStop, IdleStop, WorkerStep, Take, Pass, Apply, ApplyFails, Retry,
         RetryTimeout
<1> QED BY Zenon, <1>3, <1>5, <1>6, <1>7, <1>8, <1>9

\* The closer goes on to its next job, or to the next shard.
LEMMA NextPhaseAhead ==
    ASSUME LifeTyped, NEW jobs \in SUBSET Job, NEW k \in Keys,
           closer' = NextPhase(closer, jobs, "sync", "gather", "stop"),
           \/ ShardOf[k] > closer.step
           \/ Listed(k, jobs)'
    PROVE  Ahead(k)'
<1>1. closer \in Closer /\ closer.step \in Nat
  BY Zenon DEF LifeTyped, Closer
<1>2. ShardOf[k] \in 1 .. ShardCount /\ ShardCount \in Nat
  BY Zenon, ConstantsAssumption
<1>3. "sync" \in CloserPhases /\ "gather" \in CloserPhases /\ "stop" \in CloserPhases
  BY Zenon DEF CloserPhases, BeforeGather, Flushing, AfterFlush
<1>4. /\ closer'.jobs = jobs
      /\ jobs # {} => closer'.pc = "sync" /\ closer'.step = closer.step
      /\ jobs = {} /\ closer.step < ShardCount =>
             closer'.pc = "gather" /\ closer'.step = closer.step + 1
  BY <1>1, <1>3, NextPhaseFields
<1>5. CASE Listed(k, jobs)'
  <2>1. jobs # {}
    BY Zenon, <1>5 DEF Listed
  <2> QED BY Zenon, <1>4, <1>5, <2>1 DEF Ahead
<1>6. CASE ShardOf[k] > closer.step
  <2>1. closer.step < ShardCount
    BY <1>1, <1>2, <1>6
  <2>2. CASE jobs # {}
    BY Zenon, <1>4, <1>6, <2>2 DEF Ahead, Flushing
  <2>3. CASE jobs = {}
    <3>1. ShardOf[k] >= closer.step + 1
      BY <1>1, <1>2, <1>6
    <3> QED BY Zenon, <1>4, <2>1, <2>3, <3>1 DEF Ahead
  <2> QED BY Zenon, <2>2, <2>3
<1> QED BY Zenon, <1>5, <1>6

LEMMA CloserStepCovers ==
    ASSUME LifeTyped, PhaseInv, DirtyCovered,
           CloserStep \/ \E flush \in BOOLEAN : BeginClose(flush)
    PROVE  DirtyCovered'
<1>0. /\ closer \in Closer /\ closer.jobs \in SUBSET Job
      /\ slot \in [Keys -> Slot]
      /\ \A x \in Keys : slot[x] \in Slot /\ Coherent(slot[x])
  BY Zenon, SlotsOfLife DEF LifeTyped, Closer
<1>1. ASSUME NEW flush \in BOOLEAN, BeginClose(flush)
      PROVE  DirtyCovered'
  <2>1. closer'.pc = "scheduler"
    BY Zenon, <1>0, <1>1 DEF BeginClose, Closer
  <2> QED BY Zenon, <2>1 DEF DirtyCovered, Ahead, BeforeGather
<1>2. CASE SchedulerJoined \/ Collect \/ Offer \/ OfferTimeout \/ Unregister \/ JoinTimeout
  <2>1. closer'.pc \in BeforeGather \/ ~closer'.flush \/ closer'.failed
    BY Zenon, <1>2, CloserFields DEF BeforeGather
  <2> QED BY Zenon, <2>1 DEF DirtyCovered, Ahead
<1>3. CASE Joined
  <2>1. closer'.pc = "gather" /\ closer'.step = 1
    BY Zenon, <1>3, CloserFields DEF Joined, PhaseInv, CloserInv
  <2>2. \A k \in Keys : ShardOf[k] >= 1
    BY ConstantsAssumption
  <2> QED BY Zenon, <2>1, <2>2 DEF DirtyCovered, Ahead
<1>4. CASE Gather
  <2> SUFFICES ASSUME closer.flush, ~closer.failed,
                      NEW k \in Keys \ overlap, Cached(slot[k]), slot[k].dirty
               PROVE  Ahead(k)'
    <3>1. UNCHANGED <<slot, overlap>>
      BY Zenon, <1>4 DEF Gather, vars
    <3>2. closer'.flush = closer.flush /\ closer'.failed = closer.failed
      BY Zenon, <1>4, CloserFields
    <3> QED BY Zenon, <3>1, <3>2 DEF DirtyCovered
  <2> DEFINE jobs == DirtyJobs(closer.step)
  <2>1. /\ closer' = NextPhase(closer, jobs, "sync", "gather", "stop")
        /\ slot' = slot /\ closer.pc = "gather"
    BY Zenon, <1>4 DEF Gather, vars
  <2>2. jobs \in SUBSET Job
    BY Zenon, DirtyJobsType DEF LifeTyped
  <2>3. ShardOf[k] >= closer.step
    BY Zenon, <2>1 DEF DirtyCovered, Ahead, BeforeGather, Flushing
  <2>4. ShardOf[k] = closer.step => Listed(k, jobs)
    <3> SUFFICES ASSUME ShardOf[k] = closer.step
                 PROVE  Listed(k, jobs)
      BY Zenon
    <3> DEFINE j == FlushJob(k, slot[k].version, slot[k].write, "put")
    <3>1. j \in jobs
      BY Zenon DEF DirtyJobs, Live
    <3>2. j.key = k /\ j.op = "put" /\ j.version = slot[k].version
      BY Zenon DEF FlushJob
    <3> HIDE DEF jobs, j
    <3> QED BY Zenon, <3>1, <3>2 DEF Listed
  <2> HIDE DEF jobs
  <2>5. PICK J \in SUBSET Job : J = jobs
    BY Zenon, <2>2
  <2>6. ShardOf[k] > closer.step \/ Listed(k, J)'
    <3>1. closer.step \in Nat /\ ShardOf[k] \in Nat
      BY <1>0, ConstantsAssumption DEF Closer
    <3>2. Listed(k, J) => Listed(k, J)'
      BY Zenon, <2>1 DEF Listed
    <3> QED BY <2>3, <2>4, <2>5, <3>1, <3>2
  <2> QED BY Zenon, <2>1, <2>5, <2>6, NextPhaseAhead
\* A job leaves the list, and it is not the flush of a dirty entry.
<1>5. ASSUME NEW j \in closer.jobs, j \in Job, closer.pc \in {"sync", "clear"},
             \A k \in Keys : Cached(slot[k]) /\ slot[k].dirty /\ Ahead(k) =>
                 Listed(k, closer.jobs \ {j}) \/ ShardOf[k] > closer.step,
             closer.pc \notin BeforeGather,
             slot' = [slot EXCEPT ![j.key] = ClearPending(@)],
             closer' = NextPhase(closer, closer.jobs \ {j}, "sync", "gather", "stop"),
             closer'.flush = closer.flush, closer'.failed = closer.failed,
             UNCHANGED overlap
      PROVE  DirtyCovered'
  <2> SUFFICES ASSUME closer.flush, ~closer.failed,
                      NEW k \in Keys \ overlap, Cached(slot'[k]), slot'[k].dirty
               PROVE  Ahead(k)'
    BY Zenon, <1>5 DEF DirtyCovered
  <2>1. \A x \in Keys : Keeps(slot[x], slot'[x])
    <3>1. j.key \in Keys
      BY Zenon, <1>5 DEF Job
    <3>2. Keeps(slot[j.key], ClearPending(slot[j.key]))
      BY Zenon, <1>0, <3>1, SlotKeeps
    <3> QED BY Zenon, <1>5, <3>1, <3>2, OneSlotKeeps
  <2>2. Cached(slot[k]) /\ slot[k].dirty /\ slot'[k].version = slot[k].version
    BY Zenon, <2>1 DEF Keeps
  <2>3. Ahead(k)
    BY Zenon, <2>2 DEF DirtyCovered
  <2> DEFINE jobs == closer.jobs \ {j}
  <2>4. Listed(k, jobs) \/ ShardOf[k] > closer.step
    BY Zenon, <1>5, <2>2, <2>3
  <2>5. jobs \in SUBSET Job /\ closer' = NextPhase(closer, jobs, "sync", "gather", "stop")
    BY Zenon, <1>0, <1>5
  <2>6. Listed(k, jobs) => \E i \in jobs :
            i.key = k /\ i.op = "put" /\ i.version = slot'[k].version
    BY Zenon, <2>2 DEF Listed
  <2> HIDE DEF jobs
  <2>7. PICK J \in SUBSET Job : J = jobs
    BY Zenon, <2>5
  <2>8. ShardOf[k] > closer.step \/ Listed(k, J)'
    BY Zenon, <2>4, <2>6, <2>7 DEF Listed
  <2> QED BY Zenon, <2>5, <2>7, <2>8, NextPhaseAhead
<1>6. CASE SyncSkip
  <2>1. PICK j \in CloserJobs :
            /\ IsStale(slot[j.key], j)
            /\ slot' = [slot EXCEPT ![j.key] = ClearPending(@)]
            /\ closer' = NextPhase(closer, closer.jobs \ {j}, "sync", "gather", "stop")
    BY Zenon, <1>6 DEF SyncSkip
  <2>2. j \in closer.jobs /\ j \in Job
    BY Zenon, CloserJobsType
  <2>3. closer.pc = "sync" /\ UNCHANGED overlap
    BY Zenon, <1>6 DEF SyncSkip
  <2>4. ASSUME NEW k \in Keys, Cached(slot[k]), slot[k].dirty, Ahead(k)
        PROVE  Listed(k, closer.jobs \ {j}) \/ ShardOf[k] > closer.step
    <3>1. Listed(k, closer.jobs) \/ ShardOf[k] > closer.step
      BY Zenon, <2>3, <2>4 DEF Ahead, BeforeGather
    <3>2. ASSUME NEW i \in closer.jobs, i.key = k, i.op = "put",
                 i.version = slot[k].version
          PROVE  i # j
      <4>1. slot[k] \in Slot /\ Coherent(slot[k])
        BY Zenon, <1>0
      <4>2. ~IsStale(slot[k], i)
        BY <2>4, <3>2, <4>1 DEF IsStale, Coherent, Cached, Slot
      <4> QED BY Zenon, <2>1, <3>2, <4>2
    <3> QED BY Zenon, <3>1, <3>2 DEF Listed
  <2>5. closer'.flush = closer.flush /\ closer'.failed = closer.failed
    BY Zenon, <1>6, CloserFields
  <2> QED BY Zenon, <1>5, <2>1, <2>2, <2>3, <2>4, <2>5 DEF BeforeGather
<1>7. CASE SyncClear
  <2>1. closer.job \in closer.jobs /\ closer.job \in Job
    BY Zenon, <1>7 DEF SyncClear, LifeTyped, Handles
  <2>2. \A k \in Keys : Cached(slot[k]) /\ slot[k].dirty /\ Ahead(k) =>
            Listed(k, closer.jobs \ {closer.job}) \/ ShardOf[k] > closer.step
    BY Zenon, <1>7 DEF SyncClear, Ahead, BeforeGather, Flushing
  <2>3. closer'.flush = closer.flush /\ closer'.failed = closer.failed
    BY Zenon, <1>7, CloserFields
  <2> QED BY Zenon, <1>5, <1>7, <2>1, <2>2, <2>3 DEF SyncClear, BeforeGather
<1>8. CASE SyncPass \/ SyncWrite
  <2>1. UNCHANGED <<slot, overlap>>
    BY Zenon, <1>8 DEF SyncPass, SyncWrite, vars
  <2>2. /\ closer'.step = closer.step /\ closer'.jobs = closer.jobs
        /\ closer'.flush = closer.flush /\ closer'.failed = closer.failed
        /\ SyncPass => closer.pc = "sync" /\ closer'.pc = "write"
        /\ SyncWrite => /\ closer.pc = "write" /\ closer'.job = closer.job
                        /\ closer'.pc = IF closer.job.op = "put" THEN "mark"
                                                                 ELSE "clear"
    BY Zenon, <1>0, <1>8 DEF SyncPass, SyncWrite, Closer
  <2>3. ASSUME NEW k \in Keys, Ahead(k)
        PROVE  Ahead(k)'
    <3>1. Listed(k, closer.jobs) \/ ShardOf[k] > closer.step
      BY Zenon, <1>8, <2>2, <2>3 DEF Ahead, BeforeGather
    <3>2. \/ closer'.pc \in {"write", "mark"}
          \/ closer'.pc = "clear" /\ closer.job.op # "put" /\ closer'.job = closer.job
      <4>1. CASE SyncPass
        BY Zenon, <2>2, <4>1
      <4>2. CASE SyncWrite /\ closer.job.op = "put"
        BY Zenon, <2>2, <4>2
      <4>3. CASE SyncWrite /\ closer.job.op # "put"
        BY Zenon, <2>2, <4>3
      <4> QED BY Zenon, <1>8, <4>1, <4>2, <4>3
    <3>3. CASE ShardOf[k] > closer.step
      BY Zenon, <2>2, <3>2, <3>3 DEF Ahead, Flushing
    <3>4. CASE Listed(k, closer.jobs)
      <4>1. Listed(k, closer.jobs)'
        BY Zenon, <2>1, <2>2, <3>4 DEF Listed
      <4>2. CASE closer'.pc \in {"write", "mark"}
        BY Zenon, <4>1, <4>2 DEF Ahead
      <4>3. CASE closer'.pc = "clear" /\ closer.job.op # "put" /\ closer'.job = closer.job
        <5>1. Listed(k, closer.jobs \ {closer.job})'
          BY Zenon, <4>1, <4>3 DEF Listed
        <5> QED BY Zenon, <4>3, <5>1 DEF Ahead
      <4> QED BY Zenon, <3>2, <4>2, <4>3
    <3> QED BY Zenon, <3>1, <3>3, <3>4
  <2> QED BY Zenon, <2>1, <2>2, <2>3 DEF DirtyCovered
<1>9. CASE SyncWriteFails
  <2>1. closer'.failed
    BY Zenon, <1>0, <1>9 DEF SyncWriteFails, Closer
  <2> QED BY Zenon, <2>1 DEF DirtyCovered
<1>10. CASE SyncMark
  <2> DEFINE j == closer.job
  <2>1. j \in Job /\ j.key \in Keys /\ j.op = "put" /\ closer.pc = "mark"
    BY Zenon, <1>10 DEF SyncMark, LifeTyped, Handles, Job
  <2>2. /\ closer'.step = closer.step /\ closer'.jobs = closer.jobs
        /\ closer'.flush = closer.flush /\ closer'.failed = closer.failed
        /\ closer'.job = j /\ closer'.pc = "clear"
        /\ UNCHANGED overlap
        /\ slot' = [slot EXCEPT ![j.key] = MarkClean(slot[j.key], j)]
    BY Zenon, <1>0, <1>10 DEF SyncMark, Closer
  <2> HIDE DEF j
  <2>3. \A x \in Keys : Keeps(slot[x], slot'[x])
    <3>1. Keeps(slot[j.key], MarkClean(slot[j.key], j))
      BY Zenon, <1>0, <2>1, SlotKeeps
    <3> QED BY Zenon, <2>1, <2>2, <3>1, OneSlotKeeps
  <2> SUFFICES ASSUME closer.flush, ~closer.failed,
                      NEW k \in Keys \ overlap, Cached(slot'[k]), slot'[k].dirty
               PROVE  Ahead(k)'
    BY Zenon, <2>2 DEF DirtyCovered
  <2>4. Cached(slot[k]) /\ slot[k].dirty /\ slot'[k].version = slot[k].version
    BY Zenon, <2>3 DEF Keeps
  <2>5. Listed(k, closer.jobs) \/ ShardOf[k] > closer.step
    BY Zenon, <2>1, <2>4 DEF DirtyCovered, Ahead, BeforeGather
  <2>6. CASE ShardOf[k] > closer.step
    BY Zenon, <2>2, <2>6 DEF Ahead, Flushing
  <2>7. CASE Listed(k, closer.jobs)
    <3>1. PICK i \in closer.jobs : i.key = k /\ i.op = "put" /\ i.version = slot[k].version
      BY Zenon, <2>7 DEF Listed
    <3>2. i # j
      <4> SUFFICES ASSUME i = j
                   PROVE  FALSE
        BY Zenon
      <4>1. slot'[k] = MarkClean(slot[k], j)
        BY Zenon, <1>0, <2>2, <3>1
      <4>2. ~MarkClean(slot[k], j).dirty
        BY Zenon, <1>0, <2>4, <3>1 DEF MarkClean, Slot
      <4> QED BY Zenon, <4>1, <4>2
    <3> QED BY Zenon, <2>2, <2>4, <3>1, <3>2 DEF Ahead, Listed
  <2> QED BY Zenon, <2>5, <2>6, <2>7
<1>11. CASE StopPool \/ OfferStop \/ ThreadsJoined \/ Drain \/ Closed
  <2>1. UNCHANGED <<slot, overlap>>
    BY Zenon, <1>11 DEF StopPool, OfferStop, ThreadsJoined, Drain, Closed, vars
  <2>2. /\ closer.pc \in {"stop", "sentinels", "threads", "drain"}
        /\ closer'.flush = closer.flush /\ closer'.failed = closer.failed
    BY Zenon, <1>11, CloserFields
  <2>3. \A k \in Keys : ~Ahead(k)
    BY Zenon, <2>2 DEF Ahead, BeforeGather, Flushing
  <2> QED BY Zenon, <2>1, <2>2, <2>3 DEF DirtyCovered
<1> QED BY Zenon, <1>1, <1>2, <1>3, <1>4, <1>6, <1>7, <1>8, <1>9, <1>10, <1>11
        DEF CloserStep

\* What the phases and the dirty entries have in common with the types.
LifeInv == LifeTyped /\ PhaseInv /\ DirtyCovered

LEMMA LifeInvStep == LifeInv /\ [LifeNext]_allVars => LifeInv'
<1> SUFFICES ASSUME LifeTyped, PhaseInv, DirtyCovered, [LifeNext]_allVars
             PROVE  DirtyCovered'
  BY Zenon, LifeTypedStep, PhaseInvStep DEF LifeInv
<1>1. CASE CloserStep \/ \E flush \in BOOLEAN : BeginClose(flush)
  BY Zenon, <1>1, CloserStepCovers
<1>2. CASE \E w \in Workers : PoolStep(w)
  BY Zenon, <1>2, PoolStepCovers
<1> QED BY Zenon, <1>1, <1>2, ThreadStepCovers DEF LifeNext

\* After a close(flush=True) that reports success, no entry is left dirty in
\* the cache, except for a key that a caller wrote while close() ran: whatever
\* the workers, preloads and expirations do meanwhile, for every policy and
\* every number of workers.
THEOREM NoDirtyEntryIsLeft == LifeSpec => []NoDirtyEntryLeft
<1>1. LifeInit => LifeInv
  <2> SUFFICES ASSUME LifeInit PROVE LifeInv
    BY Zenon
  <2>1. ~closer.flush
    BY Zenon DEF LifeInit
  <2>2. DirtyCovered
    BY Zenon, <2>1 DEF DirtyCovered
  <2> QED BY Zenon, <2>2, LifeTypedInit, PhaseInvInit DEF LifeInv
<1>2. LifeInv => NoDirtyEntryLeft
  <2> SUFFICES ASSUME LifeInv, FlushedClose
               PROVE  \A k \in Keys \ overlap : Cached(slot[k]) => ~slot[k].dirty
    BY Zenon DEF NoDirtyEntryLeft
  <2>1. closer.pc = "closed" /\ closer.flush /\ ~closer.failed
    BY Zenon DEF FlushedClose, LifeInv, PhaseInv, CloserInv
  <2> QED BY Zenon, <2>1 DEF LifeInv, DirtyCovered, Ahead, BeforeGather, Flushing
<1> QED BY <1>1, <1>2, LifeInvStep, PTL DEF LifeSpec

=============================================================================
