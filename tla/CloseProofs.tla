---------------------------- MODULE CloseProofs ----------------------------
(***************************************************************************)
(* Proof of what close(flush=True) promises: with one worker and a policy  *)
(* that spares the key just put, the newest write of every key is          *)
(* accounted for.  The jobs the closer holds before it joins the queue are *)
(* counted and numbered like the others; what the join leaves is followed  *)
(* to the end of close(), key by key.                                      *)
(***************************************************************************)
EXTENDS ShutdownProofs, FlushProofs

-----------------------------------------------------------------------------
(* Steps that move no flush job.                                           *)

\* The queue is left alone, but for jobs that are not flush jobs.
OtherJobsOnly ==
    \/ queue' = queue
    \/ \E o \in OtherJob : queue' = Append(queue, o)
    \/ queue # <<>> /\ Head(queue) \in OtherJob /\ queue' = Tail(queue)

\* The entries may expire, and workers may handle other jobs.
NoFlushMoves ==
    /\ UNCHANGED <<hand, cpc, nextShard, source, writes, reported>>
    /\ OtherJobsOnly
    /\ \A w \in Workers :
           \/ wpc[w] \notin FlushPhases /\ wpc'[w] \notin FlushPhases
           \/ wpc'[w] = wpc[w] /\ wjob'[w] = wjob[w]
    /\ \A k \in Keys : slot'[k] = slot[k] \/ slot'[k] = RemoveEntry(slot[k])

LEMMA OtherIsNoFlush == \A j \in OtherJob : j \notin Job /\ j \in AnyJob
<1>1. \A j \in Job : "kind" \notin DOMAIN j
  BY Zenon DEF Job
<1>2. \A j \in OtherJob : "kind" \in DOMAIN j
  BY DEF OtherJob, StopWorker, ExpireShard, PreloadKey
<1> QED BY Zenon, <1>1, <1>2 DEF AnyJob

\* The flush jobs in the queue remain the same.
LEMMA SameQueued ==
    ASSUME queue \in Seq(AnyJob), OtherJobsOnly
    PROVE  /\ \A k : Cardinality(QueuedFor(queue', k)) = Cardinality(QueuedFor(queue, k))
           /\ \A j : (\E i \in DOMAIN queue' : queue'[i] \in Job /\ j = queue'[i])
                         <=> \E i \in DOMAIN queue : queue[i] \in Job /\ j = queue[i]
<1>0. \A k : Cardinality(QueuedFor(queue, k)) \in Nat
  BY Zenon, CountTypes
<1>1. CASE queue' = queue
  BY Zenon, <1>1
<1>2. ASSUME NEW o \in OtherJob, queue' = Append(queue, o)
      PROVE  /\ \A k : Cardinality(QueuedFor(queue', k)) = Cardinality(QueuedFor(queue, k))
             /\ \A j : (\E i \in DOMAIN queue' : queue'[i] \in Job /\ j = queue'[i])
                           <=> \E i \in DOMAIN queue : queue[i] \in Job /\ j = queue[i]
  <2>1. o \notin Job /\ o \in AnyJob
    BY Zenon, OtherIsNoFlush
  <2>2. \A k : Fills(o, k) = 0
    BY Zenon, <2>1 DEF Fills
  <2>3. /\ DOMAIN queue' = 1 .. Len(queue) + 1 /\ DOMAIN queue = 1 .. Len(queue)
        /\ Len(queue) \in Nat
        /\ \A i \in 1 .. Len(queue) : queue'[i] = queue[i]
        /\ queue'[Len(queue) + 1] = o
    BY <1>2, <2>1
  <2>4. \A k : Cardinality(QueuedFor(queue', k)) = Cardinality(QueuedFor(queue, k))
    BY <1>0, <1>2, <2>1, <2>2, CountAppend
  <2>5. \A i \in DOMAIN queue' :
            queue'[i] \in Job => i \in DOMAIN queue /\ queue'[i] = queue[i]
    BY <2>1, <2>3
  <2>6. \A i \in DOMAIN queue : i \in DOMAIN queue' /\ queue'[i] = queue[i]
    BY <2>3
  <2> QED BY Zenon, <2>4, <2>5, <2>6
<1>3. ASSUME queue # <<>>, Head(queue) \in OtherJob, queue' = Tail(queue)
      PROVE  /\ \A k : Cardinality(QueuedFor(queue', k)) = Cardinality(QueuedFor(queue, k))
             /\ \A j : (\E i \in DOMAIN queue' : queue'[i] \in Job /\ j = queue'[i])
                           <=> \E i \in DOMAIN queue : queue[i] \in Job /\ j = queue[i]
  <2>1. Head(queue) \notin Job
    BY Zenon, <1>3, OtherIsNoFlush
  <2>2. \A k : Fills(Head(queue), k) = 0
    BY Zenon, <2>1 DEF Fills
  <2>3. \A k : Cardinality(QueuedFor(queue', k)) = Cardinality(QueuedFor(queue, k))
    BY <1>0, <1>3, <2>2, CountTail
  <2>4. \A i \in DOMAIN queue' : i + 1 \in DOMAIN queue /\ queue'[i] = queue[i + 1]
    BY <1>3
  <2>5. \A i \in DOMAIN queue : queue[i] \in Job =>
            i - 1 \in DOMAIN queue' /\ queue'[i - 1] = queue[i]
    <3>1. Head(queue) = queue[1]
      BY <1>3
    <3> QED BY SMTT(30), <1>3, <2>1, <3>1
  <2> QED BY Zenon, <2>3, <2>4, <2>5
<1> QED BY Zenon, <1>1, <1>2, <1>3 DEF OtherJobsOnly

LEMMA QuietJobs ==
    ASSUME queue \in Seq(AnyJob), NoFlushMoves
    PROVE  InFlight' = InFlight
<1>1. \A j : j \in InFlight' <=> j \in InFlight
  BY SMTT(30), SameQueued, InFlightPlaces DEF NoFlushMoves
<1> QED BY Zenon, <1>1

\* They preserve the invariant of the flush jobs.
LEMMA QuietStep ==
    ASSUME NEW X, FlushGood(AnyJob, WorkerPhases, X), LifeGood', NoFlushMoves
    PROVE  FlushGood(AnyJob, WorkerPhases, X)'
<1>1. /\ Counted(AnyJob, WorkerPhases, X) /\ X \in SUBSET Job /\ JobsNumbered(X)
      /\ SourceInv /\ FailuresReported /\ Accounted
      /\ Good(AnyJob, WorkerPhases) /\ PendingCounted(X)
  BY Zenon DEF FlushGood, NumberGood, Counted
<1>2. /\ queue \in Seq(AnyJob) /\ \A k \in Keys : slot[k] \in Slot
      /\ \A k \in Keys : slot[k].pending \in Nat
  BY Zenon, <1>1, SlotTypes DEF Slot
<1>3. InFlight' = InFlight
  BY Zenon, <1>2, QuietJobs
<1>4. PendingCounted(X)'
  <2>1. ASSUME NEW k \in Keys
        PROVE  slot'[k].pending = Count(queue', hand', wpc', wjob', k) + Has(X, k)
    <3>1. Cardinality(QueuedFor(queue', k)) = Cardinality(QueuedFor(queue, k)) 
      BY Zenon, <1>2, SameQueued DEF NoFlushMoves
    <3>2. HandledFor(wpc', wjob', k) = HandledFor(wpc, wjob, k)
      BY Zenon DEF HandledFor, NoFlushMoves
    <3>3. slot'[k].pending = slot[k].pending
      BY Zenon, <1>2, SlotPending DEF NoFlushMoves
    <3>4. hand' = hand
      BY Zenon DEF NoFlushMoves
    <3> QED BY Zenon, <1>1, <3>1, <3>2, <3>3, <3>4 DEF PendingCounted, Count
  <2> QED BY Zenon, <2>1 DEF PendingCounted
<1>5. Counted(AnyJob, WorkerPhases, X)'
  <2>1. HandsInOrder'
    BY Zenon, <1>1 DEF Counted, HandsInOrder, NoFlushMoves
  <2> QED BY Zenon, <1>4, <2>1 DEF Counted, LifeGood
<1>6. JobsNumbered(X)'
  <2>1. \A j \in InFlight' : j \in InFlight /\ SameJob(j, j)
    BY Zenon, <1>3 DEF SameJob
  <2>2. ASSUME NEW x \in Keys, slot'[x].pending > 0
        PROVE  slot'[x].mark = slot[x].mark /\ slot'[x].tomb = slot[x].tomb
    BY Zenon, <1>2, <2>2, SlotMarks DEF NoFlushMoves
  <2>3. {} \in SUBSET Keys /\ UNCHANGED writes
    BY Zenon DEF NoFlushMoves
  <2> QED BY Zenon, <1>1, <1>5, <2>1, <2>2, <2>3, StepNumbered
<1>7. SourceInv'
  <2>1. \A k \in Keys : Cached(slot'[k]) => slot'[k] = slot[k]
    BY Zenon, <1>2, SlotEntries DEF NoFlushMoves
  <2>2. \A w \in Workers : wpc'[w] \in {"apply", "settle"} =>
            wpc'[w] = wpc[w] /\ wjob'[w] = wjob[w]
    BY Zenon DEF NoFlushMoves, FlushPhases, Phases
  <2>3. UNCHANGED <<source, writes>>
    BY Zenon DEF NoFlushMoves
  <2> QED BY SMTT(30), <1>1, <2>1, <2>2, <2>3
          DEF SourceInv, EntriesNewest, SourceBehind, AppliesForward, SettlesApplied,
              CleanMeansPersisted
<1>8. FailuresReported'
  <2>1. \A w \in Workers : wpc'[w] = "giveup" => wpc'[w] = wpc[w] /\ wjob'[w] = wjob[w]
    BY Zenon DEF NoFlushMoves, FlushPhases, Phases
  <2> QED BY SMTT(30), <1>1, <2>1 DEF FailuresReported, NoFlushMoves
<1>9. Accounted'
  BY Zenon, <1>1, <1>3 DEF Accounted, NoFlushMoves
<1> QED BY Zenon, <1>1, <1>5, <1>6, <1>7, <1>8, <1>9 DEF FlushGood, NumberGood

-----------------------------------------------------------------------------
(* The steps of the threads that do not close the cache.                   *)

\* A preload on worker w is in its put().
PreloadCall(w) == ClientCall(w) /\ (w \in admitted \/ cpc[w] # "idle")

FlushMove(w) ==
    pool # "new" /\ WorkerStep(w) /\ (Take(w) => Head(queue) \in Job)

\* What such a step may do to the flush jobs.
Move ==
    \/ NoFlushMoves
    \/ \E c \in Callers : ClientCall(c) /\ NoteOverlap(c)
    \/ \E w \in Workers : PreloadCall(w) \/ FlushMove(w)

LEMMA ThreadMoves ==
    ASSUME LifeTyped, PhaseInv,
           \/ Start \/ SchedulerWakes \/ TickShard
           \/ \E c \in Callers : Admit(c) \/ Section(c) \/ Preload(c) \/ Continue(c)
           \/ UNCHANGED allVars
    PROVE  /\ Move /\ UNCHANGED <<closer, discarded>> /\ overlap \subseteq overlap'
           /\ pool' = pool \/ closer.pc = "idle"
<1>0. slot \in [Keys -> Slot] /\ UNCHANGED <<closer, wpc, wjob>>
  BY Zenon, ThreadStepTyped DEF LifeTyped, LifeGood, Good, Typed
<1>1. /\ overlap \subseteq overlap' /\ UNCHANGED discarded
      /\ pool' = pool \/ closer.pc = "idle"
  BY Zenon DEF Start, SchedulerWakes, TickShard, Admit, Section, Preload, Continue,
         NoteOverlap, allVars, lifeVars, PhaseInv, CloserInv
<1>2. CASE \/ Start \/ SchedulerWakes \/ TickShard \/ UNCHANGED allVars
           \/ \E c \in Callers : Admit(c) \/ Preload(c)
  <2>1. UNCHANGED <<slot, hand, cpc, nextShard, source, writes, reported>>
    BY Zenon, <1>2 DEF Start, SchedulerWakes, TickShard, Admit, Preload, allVars, vars
  <2>2. OtherJobsOnly
    <3>1. CASE Start \/ SchedulerWakes \/ UNCHANGED allVars \/ \E c \in Callers : Admit(c)
      BY Zenon, <3>1 DEF Start, SchedulerWakes, Admit, allVars, vars, OtherJobsOnly
    <3>2. CASE TickShard
      BY Zenon, <3>2 DEF TickShard, OtherJobsOnly, OtherJob
    <3>3. CASE \E c \in Callers : Preload(c)
      BY Zenon, <3>3 DEF Preload, OtherJobsOnly, OtherJob
    <3> QED BY Zenon, <1>2, <3>1, <3>2, <3>3
  <2> QED BY Zenon, <1>0, <1>1, <2>1, <2>2 DEF Move, NoFlushMoves
<1>3. ASSUME NEW c \in Callers, Section(c) \/ Continue(c)
      PROVE  Move
  <2>1. CASE \E k \in Keys : Expire(k)
    <3>1. PICK k \in Keys : Expire(k)
      BY Zenon, <2>1
    <3>2. \A x \in Keys : slot'[x] = IF x = k THEN RemoveEntry(slot[k]) ELSE slot[x]
      BY Zenon, <1>0, <3>1 DEF Expire
    <3>3. UNCHANGED <<queue, hand, cpc, nextShard, source, writes, reported>>
      BY Zenon, <3>1 DEF Expire
    <3> QED BY Zenon, <1>0, <3>2, <3>3 DEF Move, NoFlushMoves, OtherJobsOnly
  <2>2. CASE ~\E k \in Keys : Expire(k)
    <3>1. ClientCall(c) /\ NoteOverlap(c)
      BY Zenon, <1>3, <2>2 DEF Section, Continue, ClientCall, Put
    <3> QED BY Zenon, <3>1 DEF Move
  <2> QED BY Zenon, <2>1, <2>2
<1> QED BY Zenon, <1>0, <1>1, <1>2, <1>3

LEMMA PoolMoves ==
    ASSUME LifeTyped, NEW w \in Workers, PoolStep(w)
    PROVE  /\ Move /\ UNCHANGED <<closer, discarded, pool>>
           /\ overlap \subseteq overlap'
<1>0. /\ slot \in [Keys -> Slot] /\ queue \in Seq(AnyJob) /\ Handles
      /\ wpc \in [Workers -> WorkerPhases] /\ wjob \in [Workers -> AnyJob \cup {NoJob}]
      /\ UNCHANGED closer
  BY Zenon, PoolStepTyped DEF LifeTyped, LifeGood, Good, Typed
<1>1. overlap \subseteq overlap' /\ UNCHANGED <<discarded, pool>>
  BY Zenon DEF PoolStep, FlushStep, TakeOther, RunExpire, LoaderFails, PreloadAdmit,
         PreloadPut, Continue, PreloadDone, TakeStop, IdleStop, NoteOverlap, lifeVars
<1>2. CASE FlushStep(w)
  <2>1. Take(w) => Head(queue) \in Job
    BY Zenon, <1>0, <1>2, HeadKinds DEF FlushStep, Take
  <2> QED BY Zenon, <1>0, <1>1, <1>2, <2>1 DEF FlushStep, Move, FlushMove
<1>3. CASE PreloadPut(w)
  BY Zenon, <1>0, <1>1, <1>3 DEF PreloadPut, Move, PreloadCall, ClientCall, Handles
<1>4. CASE Continue(w)
  <2>1. cpc[w] # "idle" /\ ClientCall(w)
    BY Zenon, <1>4 DEF Continue, ClientCall, ClientProgress, ClearShard, Enqueue,
                EnqueueTimeout, Release
  <2> QED BY Zenon, <1>0, <1>1, <2>1 DEF Move, PreloadCall
<1>5. CASE \/ TakeOther(w, "expire") \/ TakeOther(w, "preload") \/ LoaderFails(w)
           \/ TakeStop(w) \/ IdleStop(w) \/ RunExpire(w) \/ PreloadAdmit(w)
           \/ PreloadDone(w)
  <2>1. UNCHANGED <<hand, cpc, nextShard, source, writes, reported>>
    BY Zenon, <1>5 DEF TakeOther, LoaderFails, TakeStop, IdleStop, RunExpire, PreloadAdmit,
                PreloadDone
  <2>2. OtherJobsOnly
    <3>1. CASE \/ TakeOther(w, "expire") \/ TakeOther(w, "preload") \/ LoaderFails(w)
               \/ TakeStop(w)
      <4>1. /\ queue # <<>> /\ queue' = Tail(queue) /\ Head(queue) \in AnyJob
            /\ HeadIs("expire") \/ HeadIs("preload") \/ HeadIs("stop")
        BY Zenon, <1>0, <3>1, HeadKinds DEF TakeOther, LoaderFails, TakeStop
      <4>2. Head(queue) \in OtherJob
        BY Zenon, <4>1, JobKinds DEF HeadIs
      <4> QED BY Zenon, <4>1, <4>2 DEF OtherJobsOnly
    <3>2. CASE ~(\/ TakeOther(w, "expire") \/ TakeOther(w, "preload")
                 \/ LoaderFails(w) \/ TakeStop(w))
      BY Zenon, <1>5, <3>2 DEF IdleStop, RunExpire, PreloadAdmit, PreloadDone, OtherJobsOnly
    <3> QED BY Zenon, <3>1, <3>2
  <2>3. \A v \in Workers :
            \/ wpc[v] \notin FlushPhases /\ wpc'[v] \notin FlushPhases
            \/ wpc'[v] = wpc[v] /\ wjob'[v] = wjob[v]
    <3>1. \A v \in Workers \ {w} : wpc'[v] = wpc[v] /\ wjob'[v] = wjob[v]
      BY Zenon, <1>0, <1>5 DEF TakeOther, LoaderFails, TakeStop, IdleStop, RunExpire,
                        PreloadAdmit, PreloadDone, Goto, Finish
    <3>2. wpc[w] \in {"idle", "expire", "preload", "putting"}
      BY Zenon, <1>5 DEF TakeOther, LoaderFails, TakeStop, IdleStop, RunExpire,
                  PreloadAdmit, PreloadDone
    <3>3. wpc'[w] \in {"idle", "expire", "preload", "putting", "exited"}
      BY Zenon, <1>0, <1>5 DEF TakeOther, LoaderFails, TakeStop, IdleStop, RunExpire,
                        PreloadAdmit, PreloadDone, Goto, Finish
    <3> QED BY Zenon, <3>1, <3>2, <3>3 DEF FlushPhases, Phases
  <2>4. \A k \in Keys : slot'[k] = slot[k] \/ slot'[k] = RemoveEntry(slot[k])
    BY Zenon, <1>0, <1>5 DEF TakeOther, LoaderFails, TakeStop, IdleStop, RunExpire,
                      PreloadAdmit, PreloadDone
  <2> QED BY Zenon, <1>0, <1>1, <2>1, <2>2, <2>3, <2>4 DEF Move, NoFlushMoves
<1> QED BY Zenon, <1>2, <1>3, <1>4, <1>5 DEF PoolStep

\* Before the queue is joined such a step preserves the invariant of the jobs.
LEMMA EarlyMoves ==
    ASSUME ~EvictsNewest, \A v, w \in Workers : v = w,
           NEW X, FlushGood(AnyJob, WorkerPhases, X), LifeGood', Move
    PROVE  FlushGood(AnyJob, WorkerPhases, X)'
<1>1. CASE NoFlushMoves
  BY Zenon, <1>1, QuietStep
<1>2. Job \subseteq AnyJob /\ Phases \subseteq WorkerPhases /\ Callers \subseteq Clients
      /\ Workers \subseteq Clients
  BY Zenon, LifeSets, ClientsAssumption
<1>3. CASE \E c \in Clients : ClientCall(c)
  BY Zenon, <1>2, <1>3, FlushSteps
<1>4. CASE \E w \in Workers : FlushMove(w)
  BY Zenon, <1>2, <1>4, FlushSteps DEF FlushMove
<1> QED BY Zenon, <1>1, <1>2, <1>3, <1>4 DEF Move, PreloadCall

-----------------------------------------------------------------------------
(* The jobs the closer collects, queues and releases.                      *)

OnePerKey(X) == \A i, j \in X : i.key = j.key => i = j

\* The steps of the closer leave alone what a flush job does not need.
CloserOnly == UNCHANGED <<hand, cpc, nextShard, wpc, wjob, source, writes, reported>>

\* The closer takes up or gives back a job of k.
LEMMA CloserCount ==
    ASSUME LifeGood, NEW X, PendingCounted(X), NEW Y, NEW k \in Keys, CloserOnly,
           NEW q \in Int,
           Cardinality(QueuedFor(queue', k)) = Cardinality(QueuedFor(queue, k)) + q,
           slot'[k].pending = slot[k].pending + q + (Has(Y, k) - Has(X, k))
    PROVE  slot'[k].pending = Count(queue', hand', wpc', wjob', k) + Has(Y, k)
<1>1. /\ Cardinality(QueuedFor(queue, k)) \in Nat
      /\ Cardinality(HeldFor(hand, k)) \in Nat
      /\ Cardinality(HandledFor(wpc, wjob, k)) \in Nat
  BY ZenonT(30), CountTypes DEF LifeGood, Good, Typed
<1>2. slot[k].pending = Cardinality(QueuedFor(queue, k))
          + Cardinality(HeldFor(hand, k)) + Cardinality(HandledFor(wpc, wjob, k))
          + Has(X, k)
  BY Zenon DEF PendingCounted, Count
<1>3. Has(X, k) \in {0, 1} /\ Has(Y, k) \in {0, 1}
  BY Zenon, CountedOnce
<1>4. Count(queue', hand', wpc', wjob', k) = Cardinality(QueuedFor(queue', k))
          + Cardinality(HeldFor(hand, k)) + Cardinality(HandledFor(wpc, wjob, k))
  BY Zenon DEF Count, CloserOnly
<1> QED BY SMTT(30), <1>1, <1>2, <1>3, <1>4

\* What remains to be shown of such a step.
LEMMA CloserFlushGood ==
    ASSUME NEW X, FlushGood(AnyJob, WorkerPhases, X), LifeGood', CloserOnly,
           NEW Y \in SUBSET Job, PendingCounted(Y)', JobsNumbered(Y)',
           \A k \in Keys : SameEntry(slot'[k], slot[k]), InFlight \subseteq InFlight'
    PROVE  FlushGood(AnyJob, WorkerPhases, Y)'
<1>1. /\ HandsInOrder /\ SourceInv /\ FailuresReported /\ Accounted
  BY Zenon DEF FlushGood, NumberGood, Counted
<1>2. HandsInOrder'
  BY Zenon, <1>1 DEF HandsInOrder, CloserOnly
<1>3. SourceInv'
  BY SMTT(30), <1>1 DEF SourceInv, EntriesNewest, SourceBehind, AppliesForward,
         SettlesApplied, CleanMeansPersisted, CloserOnly, SameEntry, Cached
<1>4. FailuresReported'
  BY Zenon, <1>1 DEF FailuresReported, CloserOnly
<1>5. Accounted'
  BY SMTT(30), <1>1 DEF Accounted, CloserOnly
<1> QED BY Zenon, <1>2, <1>3, <1>4, <1>5 DEF FlushGood, NumberGood, Counted, LifeGood

LEMMA CollectStep ==
    ASSUME LifeTyped, LifeGood', FlushGood(AnyJob, WorkerPhases, {}), Collect,
           NEW Y, Y = DirtyJobs(closer.step)
    PROVE  FlushGood(AnyJob, WorkerPhases, Y)' /\ OnePerKey(Y)
<1>0. /\ LifeGood /\ PendingCounted({}) /\ JobsNumbered({}) /\ EntriesNewest
      /\ queue \in Seq(AnyJob) /\ {} \in SUBSET Job
      /\ Counted(AnyJob, WorkerPhases, {})
  BY Zenon DEF FlushGood, NumberGood, Counted, LifeTyped, LifeGood, Good, Typed, SourceInv
<1>1. CloserOnly /\ UNCHANGED queue
  BY Zenon DEF Collect, CloserOnly
<1>2. \A k \in Keys : slot[k] \in Slot /\ Coherent(slot[k]) /\ writes[k] \in Nat
  BY Zenon, <1>0, SlotTypes DEF LifeGood
<1>3. Y \in SUBSET Job
  BY Zenon, <1>0, DirtyJobsType
<1>4. \A j \in Y : \E k \in Keys :
          \/ j = FlushJob(k, slot[k].version, slot[k].write, "put") /\ Cached(slot[k])
          \/ j = FlushJob(k, slot[k].tomb, writes[k], "delete") /\ slot[k].tomb > 0
  BY Zenon DEF DirtyJobs, Live
<1>5. ASSUME NEW j \in Y
      PROVE  /\ j.key \in Keys
             /\ \/ /\ Cached(slot[j.key])
                   /\ j = FlushJob(j.key, slot[j.key].version, slot[j.key].write, "put")
                \/ /\ slot[j.key].tomb > 0
                   /\ j = FlushJob(j.key, slot[j.key].tomb, writes[j.key], "delete")
  <2>1. PICK k \in Keys :
            \/ j = FlushJob(k, slot[k].version, slot[k].write, "put") /\ Cached(slot[k])
            \/ j = FlushJob(k, slot[k].tomb, writes[k], "delete") /\ slot[k].tomb > 0
    BY Zenon, <1>4
  <2>2. j.key = k
    BY <2>1 DEF FlushJob
  <2> QED BY Zenon, <2>1, <2>2
<1>6. OnePerKey(Y)
  <2>1. \A k \in Keys : slot[k].tomb > 0 => ~Cached(slot[k])
    BY Zenon, <1>2 DEF Coherent
  <2> SUFFICES ASSUME NEW i \in Y, NEW j \in Y, i.key = j.key
               PROVE  i = j
    BY Zenon DEF OnePerKey
  <2>2. PICK k \in Keys : k = i.key /\ k = j.key
    BY Zenon, <1>5
  <2>3. \/ /\ Cached(slot[k])
           /\ i = FlushJob(k, slot[k].version, slot[k].write, "put")
        \/ /\ slot[k].tomb > 0
           /\ i = FlushJob(k, slot[k].tomb, writes[k], "delete")
    BY Zenon, <1>5, <2>2
  <2>4. \/ /\ Cached(slot[k])
           /\ j = FlushJob(k, slot[k].version, slot[k].write, "put")
        \/ /\ slot[k].tomb > 0
           /\ j = FlushJob(k, slot[k].tomb, writes[k], "delete")
    BY Zenon, <1>5, <2>2
  <2>5. slot[k].tomb > 0 => ~Cached(slot[k])
    BY Zenon, <2>1
  <2> QED BY SMTT(30), <2>3, <2>4, <2>5
<1>7. \A k \in Keys : slot'[k] = IF \E j \in Y : j.key = k
                                 THEN RegisterPending(slot[k]) ELSE slot[k]
  BY Zenon DEF Collect
<1>8. \A k \in Keys : /\ SameEntry(slot'[k], slot[k])
                      /\ slot'[k].mark = slot[k].mark /\ slot'[k].tomb = slot[k].tomb
  <2>1. \A k \in Keys :
            /\ SameEntry(RegisterPending(slot[k]), slot[k]) /\ SameEntry(slot[k], slot[k])
            /\ RegisterPending(slot[k]).mark = slot[k].mark
            /\ RegisterPending(slot[k]).tomb = slot[k].tomb
    BY Zenon, <1>2, SlotEntries, SlotMarks DEF SameEntry
  <2> QED BY Zenon, <1>7, <2>1
<1>9. PendingCounted(Y)'
  <2>1. ASSUME NEW k \in Keys
        PROVE  slot'[k].pending = Count(queue', hand', wpc', wjob', k) + Has(Y, k)
    <3>1. slot[k].pending \in Nat /\ RegisterPending(slot[k]).pending = slot[k].pending + 1
      BY Zenon, <1>2, SlotPending DEF Slot
    <3>2. slot'[k].pending = slot[k].pending + 0 + (Has(Y, k) - Has({}, k))
      BY <1>7, <3>1 DEF Has
    <3>3. /\ Cardinality(QueuedFor(queue', k)) = Cardinality(QueuedFor(queue, k)) + 0
          /\ 0 \in Int
      <4>1. Cardinality(QueuedFor(queue, k)) \in Nat
        BY Zenon, <1>0, CountTypes
      <4> QED BY <1>1, <4>1
    <3> QED BY ZenonT(30), <1>0, <1>1, <3>2, <3>3, CloserCount
  <2> QED BY Zenon, <2>1 DEF PendingCounted
<1>10. InFlight' = InFlight
  BY Zenon, <1>1 DEF InFlight, CloserOnly
<1>11. JobsNumbered(Y)'
  <2> SUFFICES ASSUME NEW j \in InFlight \cup Y
               PROVE  Numbered(slot'[j.key], writes[j.key], j)
    BY Zenon, <1>1, <1>10 DEF JobsNumbered, CloserOnly
  <2>1. ASSUME j \in InFlight
        PROVE  j.key \in Keys /\ Numbered(slot[j.key], writes[j.key], j)
    BY Zenon, <1>0, <2>1, InFlightJobs DEF CountedArePending, JobsPending, JobsNumbered
  <2>2. ASSUME j \in Y
        PROVE  j.key \in Keys /\ Numbered(slot[j.key], writes[j.key], j)
    <3>1. j.key \in Keys
      BY Zenon, <1>5, <2>2
    <3>2. slot[j.key] \in Slot /\ Coherent(slot[j.key]) /\ writes[j.key] \in Nat
      BY Zenon, <1>2, <3>1
    <3>3. ASSUME Cached(slot[j.key]),
                 j = FlushJob(j.key, slot[j.key].version, slot[j.key].write, "put")
          PROVE  Numbered(slot[j.key], writes[j.key], j)
      <4>1. /\ j.version = slot[j.key].version /\ j.write = slot[j.key].write
            /\ j.op = "put"
        BY <3>3 DEF FlushJob
      <4>2. slot[j.key].write = writes[j.key]
        BY Zenon, <1>0, <3>1, <3>3 DEF EntriesNewest
      <4> QED BY SMTT(30), <3>2, <3>3, <4>1, <4>2 DEF Numbered, Coherent, Cached, Slot
    <3>4. ASSUME slot[j.key].tomb > 0,
                 j = FlushJob(j.key, slot[j.key].tomb, writes[j.key], "delete")
          PROVE  Numbered(slot[j.key], writes[j.key], j)
      <4>1. /\ j.version = slot[j.key].tomb /\ j.write = writes[j.key]
            /\ j.op = "delete"
        BY <3>4 DEF FlushJob
      <4> QED BY SMTT(30), <3>2, <3>4, <4>1 DEF Numbered, Coherent, Slot
    <3> QED BY Zenon, <1>5, <2>2, <3>1, <3>3, <3>4
  <2>3. j.key \in Keys /\ Numbered(slot[j.key], writes[j.key], j)
    BY Zenon, <2>1, <2>2
  <2> QED BY Zenon, <1>8, <2>3 DEF Numbered
<1>12. \A k \in Keys : SameEntry(slot'[k], slot[k])
  BY Zenon, <1>8
<1> QED BY Zenon, <1>1, <1>3, <1>6, <1>9, <1>10, <1>11, <1>12, CloserFlushGood

\* A job leaves the set of jobs the closer holds.
LEMMA JobLeavesCloser ==
    ASSUME NEW X \in SUBSET Job, OnePerKey(X), NEW j \in X, NEW k
    PROVE  /\ Has(X \ {j}, k) - Has(X, k) = 0 - Fills(j, k)
           /\ Has(X \ {j}, k) \in Int /\ Has(X, k) \in Int /\ Fills(j, k) \in Int
<1>1. /\ j.key = k => /\ \E i \in X : i.key = k
                      /\ ~\E i \in X \ {j} : i.key = k
      /\ j.key # k => ((\E i \in X \ {j} : i.key = k) <=> \E i \in X : i.key = k)
  BY Zenon DEF OnePerKey
<1> QED BY <1>1 DEF Has, Fills

LEMMA OfferStep ==
    ASSUME LifeGood, LifeGood', NEW X, FlushGood(AnyJob, WorkerPhases, X), OnePerKey(X),
           CloserOnly, NEW j \in X, queue' = Append(queue, j), UNCHANGED slot,
           NEW Y, Y = X \ {j}
    PROVE  FlushGood(AnyJob, WorkerPhases, Y)'
<1>0. /\ PendingCounted(X) /\ JobsNumbered(X) /\ X \in SUBSET Job /\ Y \in SUBSET Job
      /\ queue \in Seq(AnyJob) /\ j \in Job /\ j \in AnyJob
  BY Zenon, LifeSets DEF FlushGood, NumberGood, Counted, LifeGood, Good, Typed
<1>1. \A k \in Keys : slot[k] \in Slot
  BY Zenon, SlotTypes DEF LifeGood
<1>2. PendingCounted(Y)'
  <2>1. ASSUME NEW k \in Keys
        PROVE  slot'[k].pending = Count(queue', hand', wpc', wjob', k) + Has(Y, k)
    <3> DEFINE q == Fills(j, k)
    <3>1. /\ Has(Y, k) - Has(X, k) = 0 - q
          /\ Has(Y, k) \in Int /\ Has(X, k) \in Int /\ q \in Int
      BY Zenon, <1>0, JobLeavesCloser
    <3>2. Cardinality(QueuedFor(queue', k)) = Cardinality(QueuedFor(queue, k)) + q
      BY Zenon, <1>0, CountAppend
    <3>3. slot[k].pending \in Nat
      BY Zenon, <1>1 DEF Slot
    <3> HIDE DEF q
    <3>4. slot'[k].pending = slot[k].pending + q + (Has(Y, k) - Has(X, k))
      BY <3>1, <3>3
    <3> QED BY ZenonT(30), <1>0, <3>1, <3>2, <3>4, CloserCount
  <2> QED BY Zenon, <2>1 DEF PendingCounted
<1>3. /\ Len(queue) \in Nat /\ DOMAIN queue' = 1 .. Len(queue) + 1
      /\ DOMAIN queue = 1 .. Len(queue) /\ queue'[Len(queue) + 1] = j
      /\ \A n \in 1 .. Len(queue) : queue'[n] = queue[n]
  BY <1>0
<1>4. \A n \in DOMAIN queue' :
          (n \in DOMAIN queue /\ queue'[n] = queue[n]) \/ queue'[n] = j
  BY <1>3
<1>5. \A n \in DOMAIN queue : n \in DOMAIN queue' /\ queue'[n] = queue[n]
  BY <1>3
<1>6. InFlight \subseteq InFlight' /\ InFlight' \subseteq InFlight \cup X
  <2>1. \A i : i \in InFlight => i \in InFlight'
    BY SMTT(30), <1>5, InFlightPlaces DEF CloserOnly
  <2>2. \A i : i \in InFlight' => i \in InFlight \cup X
    BY SMTT(30), <1>4, InFlightPlaces DEF CloserOnly
  <2> QED BY Zenon, <2>1, <2>2
<1>7. JobsNumbered(Y)'
  BY ZenonT(30), <1>0, <1>6 DEF JobsNumbered, CloserOnly
<1>8. \A k \in Keys : SameEntry(slot'[k], slot[k])
  BY Zenon DEF SameEntry
<1> QED BY Zenon, <1>0, <1>2, <1>6, <1>7, <1>8, CloserFlushGood

LEMMA UnregisterStep ==
    ASSUME LifeGood, LifeGood', NEW X, FlushGood(AnyJob, WorkerPhases, X), OnePerKey(X),
           CloserOnly, NEW j \in X, UNCHANGED queue,
           \A k \in Keys : slot'[k] = IF k = j.key THEN ResolvePending(slot[k]) ELSE slot[k],
           NEW Y, Y = X \ {j}
    PROVE  FlushGood(AnyJob, WorkerPhases, Y)'
<1>0. /\ PendingCounted(X) /\ JobsNumbered(X) /\ X \in SUBSET Job /\ Y \in SUBSET Job
      /\ queue \in Seq(AnyJob) /\ j \in Job /\ j.key \in Keys
      /\ Counted(AnyJob, WorkerPhases, X) /\ HandsInOrder
      /\ slot \in [Keys -> Slot]
  BY Zenon DEF FlushGood, NumberGood, Counted, LifeGood, Good, Typed, Job
<1>1. \A k \in Keys : slot[k] \in Slot
  BY Zenon, <1>0
<1>2. JobsPending(X)
  BY Zenon, <1>0, InFlightJobs DEF CountedArePending
<1>3. \A k \in Keys : slot'[k] = IF k = j.key THEN ResolvePending(slot[k]) ELSE slot[k]
  BY Zenon
<1>4. PendingCounted(Y)'
  <2>1. ASSUME NEW k \in Keys
        PROVE  slot'[k].pending = Count(queue', hand', wpc', wjob', k) + Has(Y, k)
    <3> DEFINE q == Fills(j, k)
    <3>1. /\ Has(Y, k) - Has(X, k) = 0 - q
          /\ Has(Y, k) \in Int /\ Has(X, k) \in Int /\ q \in Int
      BY Zenon, <1>0, JobLeavesCloser
    <3>2. slot[k].pending \in Nat /\ slot[k] \in Slot
      BY Zenon, <1>1 DEF Slot
    <3>3. slot'[k].pending = slot[k].pending - q
      <4>1. CASE k = j.key
        <5>1. slot[k].pending > 0
          BY Zenon, <1>2, <4>1 DEF JobsPending
        <5>2. ResolvePending(slot[k]).pending = slot[k].pending - 1
          BY Zenon, <3>2, <5>1, SlotPending
        <5>3. q = 1
          BY Zenon, <1>0, <4>1 DEF Fills
        <5> QED BY Zenon, <1>3, <4>1, <5>2, <5>3
      <4>2. CASE k # j.key
        <5>1. slot'[k] = slot[k] /\ q = 0
          BY Zenon, <1>3, <4>2 DEF Fills
        <5> QED BY <3>2, <5>1
      <4> QED BY Zenon, <4>1, <4>2
    <3>4. Cardinality(QueuedFor(queue', k)) = Cardinality(QueuedFor(queue, k)) + 0
      <4>1. Cardinality(QueuedFor(queue, k)) \in Nat
        BY Zenon, <1>0, CountTypes
      <4> QED BY <4>1
    <3> HIDE DEF q
    <3>5. slot'[k].pending = slot[k].pending + 0 + (Has(Y, k) - Has(X, k)) /\ 0 \in Int
      BY <3>1, <3>2, <3>3
    <3> QED BY ZenonT(30), <1>0, <3>4, <3>5, CloserCount
  <2> QED BY Zenon, <2>1 DEF PendingCounted
<1>5. InFlight' = InFlight
  <2>1. queue' = queue /\ hand' = hand /\ wpc' = wpc /\ wjob' = wjob
    BY Zenon DEF CloserOnly
  <2> QED BY SMTT(30), <2>1 DEF InFlight
<1>6. Counted(AnyJob, WorkerPhases, Y)'
  <2>1. HandsInOrder'
    BY Zenon, <1>0 DEF HandsInOrder, CloserOnly
  <2> QED BY Zenon, <1>4, <2>1 DEF Counted, LifeGood
<1>7. JobsNumbered(Y)'
  <2>0. CountedArePending'
    BY InFlightJobs, PTL
  <2>1. \A i \in InFlight \cup Y : i.key \in Keys /\ slot'[i.key].pending > 0
    BY Zenon, <1>0, <1>5, <1>6, <2>0 DEF CountedArePending, JobsPending
  <2>2. \A i \in InFlight \cup Y :
            /\ slot'[i.key].mark = slot[i.key].mark /\ slot'[i.key].tomb = slot[i.key].tomb
    BY Zenon, <1>1, <1>3, <2>1, SlotMarks
  <2>3. \A i \in InFlight \cup Y : Numbered(slot[i.key], writes[i.key], i)
    BY Zenon, <1>0 DEF JobsNumbered
  <2>4. \A i \in InFlight \cup Y : Numbered(slot'[i.key], writes[i.key], i)
    BY ZenonT(60), <2>2, <2>3 DEF Numbered
  <2> QED BY Zenon, <1>5, <2>4 DEF JobsNumbered, CloserOnly
<1>8. \A k \in Keys : SameEntry(slot'[k], slot[k])
  <2>1. \A k \in Keys : SameEntry(ResolvePending(slot[k]), slot[k])
    BY Zenon, <1>1, SlotEntries
  <2> QED BY Zenon, <1>3, <2>1 DEF SameEntry
<1>9. InFlight \subseteq InFlight'
  BY Zenon, <1>5
<1> QED BY Zenon, <1>0, <1>4, <1>7, <1>8, <1>9, CloserFlushGood

\* Before the queue is joined: the jobs of the closer are in flight like the
\* others, and it holds some only while it queues or releases them.
EarlyInv ==
    closer.pc \in BeforeGather =>
        /\ FlushGood(AnyJob, WorkerPhases, closer.jobs)
        /\ OnePerKey(closer.jobs)
        /\ closer.pc \notin {"offer", "unregister"} => closer.jobs = {}

LEMMA EarlySame ==
    ASSUME NEW X, closer'.jobs = X, FlushGood(AnyJob, WorkerPhases, X)', OnePerKey(X),
           closer'.pc \notin {"offer", "unregister"} => X = {}
    PROVE  EarlyInv'
<1>1. PendingCounted(X)' /\ JobsNumbered(X)'
  BY Zenon DEF FlushGood, NumberGood, Counted
<1>2. PendingCounted(closer.jobs)' /\ JobsNumbered(closer.jobs)'
  BY Zenon, <1>1 DEF PendingCounted, JobsNumbered
<1>3. FlushGood(AnyJob, WorkerPhases, closer.jobs)'
  BY Zenon, <1>2 DEF FlushGood, NumberGood, Counted
<1> QED BY Zenon, <1>3 DEF EarlyInv, OnePerKey

LEMMA EarlyInit == LifeInit => EarlyInv
<1> SUFFICES ASSUME LifeInit PROVE EarlyInv
  BY Zenon
<1>1. LifeGood
  BY Zenon, LifeTypedInit DEF LifeTyped
<1>2. FlushGood(Job, Phases, {})
  BY Zenon, FlushInvInit DEF LifeInit, FlushInv
<1>3. FlushGood(AnyJob, WorkerPhases, {})
  BY Zenon, <1>1, <1>2 DEF FlushGood, NumberGood, Counted, LifeGood
<1>4. closer.jobs = {}
  BY Zenon DEF LifeInit
<1> QED BY Zenon, <1>3, <1>4 DEF EarlyInv, OnePerKey

\* The closer goes on to its next job, or to the next shard.
LEMMA EarlyPhases ==
    ASSUME LifeTyped, NEW Y \in SUBSET Job, NEW busy \in {"offer", "unregister"},
           closer' = NextPhase(closer, Y, busy, "collect", "join")
    PROVE  /\ closer'.jobs = Y
           /\ closer'.pc \notin {"offer", "unregister"} => Y = {}
<1>1. /\ "offer" \in CloserPhases /\ "unregister" \in CloserPhases
      /\ "collect" \in CloserPhases /\ "join" \in CloserPhases
      /\ busy \in CloserPhases
  BY Zenon DEF CloserPhases, BeforeGather
<1>2. closer \in Closer
  BY Zenon DEF LifeTyped
<1>3. closer'.jobs = Y /\ (Y # {} => closer'.pc = busy)
  BY <1>1, <1>2, NextPhaseFields
<1> QED BY Zenon, <1>3

LEMMA EarlyStep ==
    ASSUME ~EvictsNewest, \A v, w \in Workers : v = w,
           LifeTyped, LifeTyped', PhaseInv, EarlyInv, [LifeNext]_allVars
    PROVE  EarlyInv'
<1>0. LifeGood /\ LifeGood' /\ closer \in Closer
  BY Zenon DEF LifeTyped
<1>1. PICK X \in SUBSET Job : X = closer.jobs
  BY Zenon, <1>0 DEF Closer
<1>2. closer.pc \in BeforeGather =>
          /\ FlushGood(AnyJob, WorkerPhases, X) /\ OnePerKey(X)
          /\ closer.pc \notin {"offer", "unregister"} => X = {}
  BY Zenon, <1>1 DEF EarlyInv
<1>3. ASSUME Move, UNCHANGED closer
      PROVE  EarlyInv'
  <2>1. CASE closer.pc \in BeforeGather
    <3>1. FlushGood(AnyJob, WorkerPhases, X)'
      BY Zenon, <1>0, <1>2, <1>3, <2>1, EarlyMoves
    <3> QED BY Zenon, <1>1, <1>2, <1>3, <2>1, <3>1, EarlySame
  <2>2. CASE closer.pc \notin BeforeGather
    BY Zenon, <1>3, <2>2 DEF EarlyInv
  <2> QED BY Zenon, <2>1, <2>2
<1>4. CASE \/ Start \/ SchedulerWakes \/ TickShard
           \/ \E c \in Callers : Admit(c) \/ Section(c) \/ Preload(c) \/ Continue(c)
           \/ UNCHANGED allVars
  BY Zenon, <1>3, <1>4, ThreadMoves
<1>5. CASE \E w \in Workers : PoolStep(w)
  BY Zenon, <1>3, <1>5, PoolMoves
<1>6. ASSUME closer'.pc \notin BeforeGather
      PROVE  EarlyInv'
  BY Zenon, <1>6 DEF EarlyInv
<1>7. CASE OfferTimeout \/ SchedulerJoined \/ \E flush \in BOOLEAN : BeginClose(flush)
  <2>1. /\ closer'.jobs = X /\ UNCHANGED vars
        /\ closer.pc \in BeforeGather
        /\ closer'.pc \notin {"offer", "unregister"} =>
               closer.pc \notin {"offer", "unregister"}
    BY Zenon, <1>0, <1>1, <1>7 DEF OfferTimeout, SchedulerJoined, BeginClose, Closer,
                            BeforeGather
  <2>2. NoFlushMoves
    BY Zenon, <2>1 DEF vars, NoFlushMoves, OtherJobsOnly
  <2>3. FlushGood(AnyJob, WorkerPhases, X)'
    BY Zenon, <1>0, <1>2, <2>1, <2>2, QuietStep
  <2> QED BY Zenon, <1>2, <2>1, <2>3, EarlySame
<1>8. CASE Collect
  <2>1. PICK Y \in SUBSET Job : Y = DirtyJobs(closer.step)
    BY Zenon, <1>0, DirtyJobsType
  <2>2. /\ closer.pc = "collect" /\ closer.pc \in BeforeGather
        /\ closer' = NextPhase(closer, Y, "offer", "collect", "join")
    BY Zenon, <1>8, <2>1 DEF Collect, BeforeGather
  <2>3. FlushGood(AnyJob, WorkerPhases, {})
    BY Zenon, <1>2, <2>2
  <2>4. FlushGood(AnyJob, WorkerPhases, Y)' /\ OnePerKey(Y)
    BY Zenon, <1>0, <1>8, <2>1, <2>3, CollectStep
  <2>5. closer'.jobs = Y /\ (closer'.pc \notin {"offer", "unregister"} => Y = {})
    BY Zenon, <2>2, EarlyPhases
  <2> QED BY Zenon, <2>4, <2>5, EarlySame
<1>9. CASE Offer
  <2>1. PICK j \in CloserJobs :
            /\ queue' = Append(queue, j)
            /\ closer' = NextPhase(closer, closer.jobs \ {j}, "offer", "collect", "join")
    BY Zenon, <1>9 DEF Offer
  <2>2. PICK Y \in SUBSET Job : Y = X \ {j}
    BY Zenon
  <2>3. /\ j \in X /\ closer.pc \in BeforeGather /\ CloserOnly /\ UNCHANGED slot
        /\ closer' = NextPhase(closer, Y, "offer", "collect", "join")
    BY Zenon, <1>1, <1>9, <2>1, <2>2 DEF Offer, CloserJobs, BeforeGather, CloserOnly
  <2>4. FlushGood(AnyJob, WorkerPhases, Y)' /\ OnePerKey(Y)
    <3>1. FlushGood(AnyJob, WorkerPhases, X) /\ OnePerKey(X)
      BY Zenon, <1>2, <2>3
    <3>2. FlushGood(AnyJob, WorkerPhases, Y)'
      BY Zenon, <1>0, <2>1, <2>2, <2>3, <3>1, OfferStep
    <3> QED BY Zenon, <2>2, <3>1, <3>2 DEF OnePerKey
  <2>5. closer'.jobs = Y /\ (closer'.pc \notin {"offer", "unregister"} => Y = {})
    BY Zenon, <2>3, EarlyPhases
  <2> QED BY Zenon, <2>4, <2>5, EarlySame
<1>10. CASE Unregister
  <2>1. PICK j \in CloserJobs :
            /\ slot' = [slot EXCEPT ![j.key] = ResolvePending(@)]
            /\ closer' = NextPhase(closer, closer.jobs \ {j}, "unregister", "collect", "join")
    BY Zenon, <1>10 DEF Unregister
  <2>2. PICK Y \in SUBSET Job : Y = X \ {j}
    BY Zenon
  <2>3. /\ j \in X /\ closer.pc \in BeforeGather /\ CloserOnly /\ UNCHANGED queue
        /\ closer' = NextPhase(closer, Y, "unregister", "collect", "join")
    BY Zenon, <1>1, <1>10, <2>1, <2>2 DEF Unregister, CloserJobs, BeforeGather, CloserOnly
  <2>4. FlushGood(AnyJob, WorkerPhases, Y)' /\ OnePerKey(Y)
    <3>1. FlushGood(AnyJob, WorkerPhases, X) /\ OnePerKey(X)
      BY Zenon, <1>2, <2>3
    <3>2. \A k \in Keys : slot'[k] = IF k = j.key THEN ResolvePending(slot[k]) ELSE slot[k]
      BY Zenon, <1>0, <2>1 DEF LifeGood, Good, Typed
    <3>3. FlushGood(AnyJob, WorkerPhases, Y)'
      BY Zenon, <1>0, <2>2, <2>3, <3>1, <3>2, UnregisterStep
    <3> QED BY Zenon, <2>2, <3>1, <3>3 DEF OnePerKey
  <2>5. closer'.jobs = Y /\ (closer'.pc \notin {"offer", "unregister"} => Y = {})
    BY Zenon, <2>3, EarlyPhases
  <2> QED BY Zenon, <2>4, <2>5, EarlySame
<1>11. CASE \/ Joined \/ JoinTimeout \/ Gather \/ SyncSkip \/ SyncPass \/ SyncWrite
            \/ SyncWriteFails \/ SyncMark \/ SyncClear \/ StopPool \/ OfferStop
            \/ ThreadsJoined \/ Drain \/ Closed
  <2>1. closer'.pc \in {"gather", "sync", "stop", "write", "mark", "clear", "sentinels",
                        "threads", "drain", "closed"}
    BY Zenon, <1>11, CloserFields
  <2> QED BY Zenon, <1>6, <2>1 DEF BeforeGather
<1> QED BY Zenon, <1>4, <1>5, <1>7, <1>8, <1>9, <1>10, <1>11 DEF LifeNext, CloserStep

-----------------------------------------------------------------------------
(* The calls that close() overlaps.                                        *)

\* What a client's step does to the jobs that clients hold.
LEMMA ClientHands ==
    ASSUME NEW J, NEW P, Good(J, P), NEW c \in Clients, ClientCall(c)
    PROVE  /\ \A d \in Clients \ {c} : hand'[d] = hand[d] /\ cpc'[d] = cpc[d]
           /\ \A j \in hand'[c] : j \in hand[c] \/ writes'[j.key] # writes[j.key]
           /\ queue' = queue \/ \E j \in hand[c] : queue' = Append(queue, j)
           /\ \A x \in Keys : reported[x] \subseteq reported'[x]
           /\ UNCHANGED <<wpc, wjob, source>>
<1>0. /\ hand \in [Clients -> SUBSET Job] /\ writes \in [Keys -> Nat]
      /\ cpc \in [Clients -> {"idle", "clear", "enqueue", "release"}]
      /\ \A x \in Keys : writes[x] \in Nat
  BY Zenon DEF Good, Typed
<1>1. UNCHANGED <<wpc, wjob, source>>
  BY ZenonT(30) DEF ClientCall, ClientProgress, PutCall, PutEvicting, Delete,
         StartClear, ClearShard, Enqueue, EnqueueTimeout, Release
<1>2. \A x \in Keys : reported[x] \subseteq reported'[x]
  <2>1. CASE EnqueueTimeout(c)
    BY Zenon, <2>1, ReportCovers DEF EnqueueTimeout
  <2>2. CASE ~EnqueueTimeout(c)
    <3>1. UNCHANGED reported
      BY ZenonT(30), <2>2 DEF ClientCall, ClientProgress, PutCall, PutEvicting, Delete,
             StartClear, ClearShard, Enqueue, Release
    <3> QED BY Zenon, <3>1
  <2> QED BY Zenon, <2>1, <2>2
<1>3. ASSUME NEW k \in Keys, PutCall(c, k) \/ Delete(c, k)
      PROVE  /\ \A d \in Clients \ {c} : hand'[d] = hand[d] /\ cpc'[d] = cpc[d]
             /\ \A j \in hand'[c] : writes'[j.key] # writes[j.key]
             /\ queue' = queue
  <2>1. PICK v, n, op : /\ hand' = [hand EXCEPT ![c] = {FlushJob(k, v, n, op)}]
                        /\ writes' = [writes EXCEPT ![k] = @ + 1]
                        /\ cpc' = [cpc EXCEPT ![c] = "enqueue"]
                        /\ queue' = queue
    <3>1. CASE Delete(c, k)
      BY Zenon, <3>1 DEF Delete
    <3>2. CASE PutCall(c, k)
      <4>1. PICK expired \in {FALSE, Cached(slot[k])} :
                \E E \in EvictChoices(Stored(k, expired), k) : PutEvicting(c, k, expired, E)
        BY Zenon, <3>2 DEF PutCall
      <4> DEFINE v == Stored(k, expired)[k].version
      <4>2. /\ hand' = [hand EXCEPT ![c] = {FlushJob(k, v, writes[k] + 1, "put")}]
            /\ writes' = [writes EXCEPT ![k] = @ + 1]
            /\ cpc' = [cpc EXCEPT ![c] = "enqueue"]
            /\ queue' = queue
        BY Zenon, <4>1 DEF PutEvicting
      <4> HIDE DEF v
      <4> QED BY Zenon, <4>2
    <3> QED BY Zenon, <1>3, <3>1, <3>2
  <2>2. \A d \in Clients \ {c} : hand'[d] = hand[d] /\ cpc'[d] = cpc[d]
    BY Zenon, <1>0, <2>1
  <2>3. hand'[c] = {FlushJob(k, v, n, op)}
    BY Zenon, <1>0, <2>1
  <2>4. writes'[k] # writes[k]
    <3>1. writes'[k] = writes[k] + 1 /\ writes[k] \in Nat
      BY Zenon, <1>0, <2>1
    <3> QED BY <3>1
  <2>5. \A j \in hand'[c] : j.key = k
    BY <2>3 DEF FlushJob
  <2> QED BY Zenon, <2>1, <2>2, <2>4, <2>5
<1>4. CASE StartClear(c) \/ EnqueueTimeout(c)
  <2>1. /\ hand' = hand /\ queue' = queue
        /\ \E pc : cpc' = [cpc EXCEPT ![c] = pc]
    BY Zenon, <1>4 DEF StartClear, EnqueueTimeout
  <2> QED BY Zenon, <1>0, <1>1, <1>2, <2>1
<1>5. CASE Enqueue(c) \/ Release(c)
  <2>1. PICK j \in hand[c] :
            /\ hand' = [hand EXCEPT ![c] = hand[c] \ {j}]
            /\ \E pc : cpc' = [cpc EXCEPT ![c] = pc]
            /\ queue' = queue \/ queue' = Append(queue, j)
    BY Zenon, <1>5 DEF Enqueue, Release, NextJobs
  <2>2. \A d \in Clients \ {c} : hand'[d] = hand[d] /\ cpc'[d] = cpc[d]
    BY Zenon, <1>0, <2>1
  <2>3. hand'[c] = hand[c] \ {j}
    BY Zenon, <1>0, <2>1
  <2> QED BY Zenon, <1>1, <1>2, <2>1, <2>2, <2>3
<1>6. CASE ClearShard(c)
  <2> DEFINE live == Live(slot, nextShard[c])
             jobs == {FlushJob(k, slot[k].mark + 1, writes[k] + 1, "delete") : k \in live}
  <2>1. PICK pc : /\ hand' = [hand EXCEPT ![c] = hand[c] \cup jobs]
                  /\ cpc' = [cpc EXCEPT ![c] = pc] /\ queue' = queue
                  /\ writes' = [k \in Keys |-> IF k \in live THEN writes[k] + 1
                                                             ELSE writes[k]]
    BY Zenon, <1>6 DEF ClearShard
  <2>2. \A j \in jobs : j.key \in live
    BY DEF FlushJob
  <2>3. live \subseteq Keys
    BY Zenon DEF Live
  <2> HIDE DEF live, jobs
  <2>4. \A d \in Clients \ {c} : hand'[d] = hand[d] /\ cpc'[d] = cpc[d]
    BY Zenon, <1>0, <2>1
  <2>5. hand'[c] = hand[c] \cup jobs
    BY Zenon, <1>0, <2>1
  <2>6. \A k \in live : writes'[k] # writes[k]
    <3>1. \A k \in live : writes'[k] = writes[k] + 1 /\ writes[k] \in Nat
      BY Zenon, <1>0, <2>1, <2>3
    <3> QED BY <3>1
  <2> QED BY Zenon, <1>1, <1>2, <2>1, <2>2, <2>4, <2>5, <2>6
<1> QED BY Zenon, <1>1, <1>2, <1>3, <1>4, <1>5, <1>6 DEF ClientCall, ClientProgress

\* A worker is a client only while it preloads.
PreloadsOnly == \A w \in Workers : wpc[w] # "putting" => cpc[w] = "idle"

\* The jobs that callers hold are of keys with a call in flight.
CallsNoted == Closing => \A c \in Callers : \A j \in hand[c] : j.key \in overlap

\* What the closer leaves alone.
LEMMA CloserLeaves ==
    ASSUME CloserStep \/ \E flush \in BOOLEAN : BeginClose(flush)
    PROVE  /\ UNCHANGED <<cpc, nextShard, hand, wpc, wjob, writes>>
           /\ CloserStep => Closing /\ UNCHANGED overlap
<1>1. UNCHANGED <<cpc, nextShard, hand, wpc, wjob, writes>>
  BY ZenonT(30)
  DEF CloserStep, BeginClose, SchedulerJoined, Collect, Offer, OfferTimeout,
      Unregister, Joined, JoinTimeout, Gather, SyncSkip, SyncPass, SyncWrite,
      SyncWriteFails, SyncMark, SyncClear, StopPool, OfferStop, ThreadsJoined,
      Drain, Closed, vars
<1>2. CloserStep => UNCHANGED overlap
  BY ZenonT(30)
  DEF CloserStep, SchedulerJoined, Collect, Offer, OfferTimeout,
      Unregister, Joined, JoinTimeout, Gather, SyncSkip, SyncPass, SyncWrite,
      SyncWriteFails, SyncMark, SyncClear, StopPool, OfferStop, ThreadsJoined,
      Drain, Closed
<1>3. ASSUME CloserStep PROVE Closing
  <2>1. CASE SchedulerJoined \/ Joined \/ JoinTimeout
    BY Zenon, <2>1 DEF SchedulerJoined, Joined, JoinTimeout, Closing
  <2>2. CASE Collect \/ Offer \/ OfferTimeout \/ Unregister
    BY Zenon, <2>2 DEF Collect, Offer, OfferTimeout, Unregister, Closing
  <2>3. CASE Gather \/ SyncSkip \/ SyncPass \/ SyncWrite \/ SyncWriteFails
    BY Zenon, <2>3 DEF Gather, SyncSkip, SyncPass, SyncWrite, SyncWriteFails, Closing
  <2>4. CASE SyncMark \/ SyncClear \/ StopPool \/ OfferStop \/ ThreadsJoined
    BY Zenon, <2>4 DEF SyncMark, SyncClear, StopPool, OfferStop, ThreadsJoined, Closing
  <2>5. CASE Drain \/ Closed
    BY Zenon, <2>5 DEF Drain, Closed, Closing
  <2> QED BY Zenon, <1>3, <2>1, <2>2, <2>3, <2>4, <2>5 DEF CloserStep
<1> QED BY Zenon, <1>1, <1>2, <1>3

LEMMA PreloadsOnlyStep ==
    ASSUME LifeTyped, PhaseInv, PreloadsOnly, [LifeNext]_allVars
    PROVE  PreloadsOnly'
<1>0. LifeGood /\ wpc \in [Workers -> WorkerPhases] /\ cpc \in [Clients ->
          {"idle", "clear", "enqueue", "release"}]
  BY Zenon DEF LifeTyped, LifeGood, Good, Typed
<1>c. Callers \subseteq Clients /\ Workers \subseteq Clients /\ Callers \cap Workers = {}
  BY Zenon, ClientsAssumption
<1>1. CASE CloserStep \/ \E flush \in BOOLEAN : BeginClose(flush)
  BY Zenon, <1>1, CloserLeaves DEF PreloadsOnly
<1>2. CASE \/ Start \/ SchedulerWakes \/ TickShard
           \/ \E c \in Callers : Admit(c) \/ Section(c) \/ Preload(c) \/ Continue(c)
           \/ UNCHANGED allVars
  <2>1. UNCHANGED wpc
    BY Zenon, <1>2, ThreadStepTyped
  <2>2. ASSUME NEW c \in Callers, Section(c) \/ Continue(c)
        PROVE  \A w \in Workers : cpc'[w] = cpc[w]
    <3>1. CASE \E k \in Keys : Expire(k)
      BY Zenon, <3>1 DEF Expire
    <3>2. CASE ~\E k \in Keys : Expire(k)
      <4>1. ClientCall(c)
        BY Zenon, <2>2, <3>2 DEF Section, Continue, ClientCall, Put
      <4> QED BY ZenonT(60), <1>0, <1>c, <4>1, ClientHands DEF LifeGood
    <3> QED BY Zenon, <3>1, <3>2
  <2>4. \A w \in Workers : cpc'[w] = cpc[w]
    BY Zenon, <1>2, <2>2 DEF Start, SchedulerWakes, TickShard, Admit, Preload, allVars, vars
  <2> QED BY Zenon, <2>1, <2>4 DEF PreloadsOnly
<1>3. ASSUME NEW w \in Workers, PoolStep(w)
      PROVE  PreloadsOnly'
  <2>1. CASE PreloadPut(w) \/ Continue(w)
    <3>1. wpc[w] = "putting" /\ UNCHANGED wpc
      BY Zenon, <2>1 DEF PreloadPut, Continue, PutCall, PutEvicting, ClientProgress,
                  ClearShard, Enqueue, EnqueueTimeout, Release, PreloadsOnly
    <3>2. ClientCall(w)
      BY Zenon, <2>1 DEF PreloadPut, Continue, ClientCall, LifeTyped, Handles
    <3>3. \A v \in Workers \ {w} : cpc'[v] = cpc[v]
      BY Zenon, <1>0, <1>c, <3>2, ClientHands DEF LifeGood
    <3> QED BY Zenon, <3>1, <3>3 DEF PreloadsOnly
  <2>2. CASE FlushStep(w)
    <3>0. \/ Take(w) \/ Skip(w) \/ Pass(w) \/ Apply(w) \/ ApplyFails(w)
          \/ Settle(w) \/ Retry(w) \/ RetryTimeout(w) \/ GiveUp(w)
      BY Zenon, <2>2 DEF FlushStep, WorkerStep
    <3>1. UNCHANGED cpc /\ wpc[w] # "putting"
      BY Zenon, <3>0 DEF Take, Skip, Pass, Apply, ApplyFails, Settle, Retry,
                         RetryTimeout, GiveUp
    <3>2. \A v \in Workers \ {w} : wpc'[v] = wpc[v]
      BY SMTT(30), <1>0, <3>0 DEF Take, Skip, Pass, Apply, ApplyFails, Settle, Retry,
                         RetryTimeout, GiveUp, Goto, Finish
    <3> QED BY Zenon, <3>1, <3>2 DEF PreloadsOnly
  <2>3. CASE \/ TakeOther(w, "expire") \/ RunExpire(w) \/ TakeOther(w, "preload")
             \/ LoaderFails(w) \/ PreloadAdmit(w) \/ PreloadDone(w)
             \/ TakeStop(w) \/ IdleStop(w)
    <3>1. UNCHANGED cpc
      BY Zenon, <2>3 DEF TakeOther, RunExpire, LoaderFails, PreloadAdmit,
                         PreloadDone, TakeStop, IdleStop
    <3>2. \A v \in Workers \ {w} : wpc'[v] = wpc[v]
      BY SMTT(30), <1>0, <2>3 DEF TakeOther, RunExpire, LoaderFails, PreloadAdmit,
                         PreloadDone, TakeStop, IdleStop, Goto, Finish
    <3>3. wpc[w] = "putting" => wpc'[w] = "putting" \/ cpc[w] = "idle"
      BY Zenon, <2>3 DEF TakeOther, RunExpire, LoaderFails, PreloadAdmit,
                         PreloadDone, TakeStop, IdleStop
    <3> QED BY ZenonT(60), <3>1, <3>2, <3>3 DEF PreloadsOnly
  <2> QED BY Zenon, <1>3, <2>1, <2>2, <2>3 DEF PoolStep
<1> QED BY Zenon, <1>1, <1>2, <1>3 DEF LifeNext

\* The pool is stopped only if it was started.
PoolStops == closer.pc \in {"sentinels", "threads"} => pool # "new"

LEMMA PoolStopsStep ==
    ASSUME LifeTyped, PhaseInv, PoolStops, [LifeNext]_allVars
    PROVE  PoolStops'
<1>0. closer \in Closer
  BY Zenon DEF LifeTyped
<1>1. ASSUME UNCHANGED closer, pool' = pool \/ closer.pc = "idle"
      PROVE  PoolStops'
  BY Zenon, <1>1 DEF PoolStops
<1>2. CASE \/ Start \/ SchedulerWakes \/ TickShard
           \/ \E c \in Callers : Admit(c) \/ Section(c) \/ Preload(c) \/ Continue(c)
           \/ UNCHANGED allVars
  BY Zenon, <1>1, <1>2, ThreadMoves
<1>3. CASE \E w \in Workers : PoolStep(w)
  BY Zenon, <1>1, <1>3, PoolMoves
<1>4. CASE StopPool \/ OfferStop \/ ThreadsJoined \/ Drain
  BY Zenon, <1>0, <1>4 DEF StopPool, OfferStop, ThreadsJoined, Drain, PoolStops, Closer
<1>5. CASE \/ SchedulerJoined \/ Collect \/ Offer \/ OfferTimeout \/ Unregister
           \/ Joined \/ JoinTimeout \/ Gather \/ SyncSkip \/ SyncPass \/ SyncWrite
           \/ SyncWriteFails \/ SyncMark \/ SyncClear \/ Closed
  <2>1. closer'.pc \notin {"sentinels", "threads"}
    BY Zenon, <1>5, CloserFields
  <2> QED BY Zenon, <2>1 DEF PoolStops
<1>6. ASSUME NEW flush \in BOOLEAN, BeginClose(flush)
      PROVE  PoolStops'
  BY Zenon, <1>0, <1>6 DEF BeginClose, PoolStops, Closer
<1> QED BY Zenon, <1>2, <1>3, <1>4, <1>5, <1>6 DEF LifeNext, CloserStep

LEMMA CallsNotedStep ==
    ASSUME LifeTyped, PhaseInv, CallsNoted, [LifeNext]_allVars
    PROVE  CallsNoted'
<1>0. LifeGood /\ closer \in Closer /\ hand \in [Clients -> SUBSET Job]
  BY Zenon DEF LifeTyped, LifeGood, Good, Typed
<1>c. Callers \subseteq Clients /\ Workers \subseteq Clients /\ Callers \cap Workers = {}
  BY Zenon, ClientsAssumption
<1>1. CASE CloserStep
  BY Zenon, <1>1, CloserLeaves DEF CallsNoted
<1>2. ASSUME NEW flush \in BOOLEAN, BeginClose(flush)
      PROVE  CallsNoted'
  <2>1. hand' = hand /\ overlap' = {j.key : j \in UNION {hand[c] : c \in Callers}}
    BY Zenon, <1>2, CloserLeaves DEF BeginClose
  <2> QED BY Zenon, <2>1 DEF CallsNoted
<1>3. ASSUME Move, UNCHANGED closer, overlap \subseteq overlap'
      PROVE  CallsNoted'
  <2> SUFFICES ASSUME Closing, NEW d \in Callers, NEW j \in hand'[d]
               PROVE  j.key \in overlap'
    BY Zenon, <1>3 DEF CallsNoted, Closing
  <2>1. j \in hand[d] => j.key \in overlap'
    BY Zenon, <1>3 DEF CallsNoted
  <2>2. CASE NoFlushMoves \/ \E w \in Workers : FlushMove(w)
    <3>1. UNCHANGED hand
      BY ZenonT(30), <2>2 DEF NoFlushMoves, FlushMove, WorkerStep, Take, Skip, Pass,
             Apply, ApplyFails, Settle, Retry, RetryTimeout, GiveUp
    <3> QED BY Zenon, <2>1, <3>1
  <2>3. ASSUME NEW w \in Workers, PreloadCall(w)
        PROVE  j.key \in overlap'
    <3>1. hand'[d] = hand[d]
      BY <1>0, <1>c, <2>3, ClientHands DEF PreloadCall, LifeGood
    <3> QED BY ZenonT(60), <2>1, <3>1
  <2>4. ASSUME NEW c \in Callers, ClientCall(c), NoteOverlap(c)
        PROVE  j.key \in overlap'
    <3>1. /\ d # c => hand'[d] = hand[d]
          /\ d = c => j \in hand[d] \/ writes'[j.key] # writes[j.key]
      BY ZenonT(60), <1>0, <1>c, <2>4, ClientHands DEF LifeGood
    <3>2. j.key \in Keys
      <4>1. LifeGood'
        BY Zenon, LifeTypedStep DEF LifeTyped
      <4> QED BY <1>c, <4>1 DEF LifeGood, Good, Typed, Job
    <3> QED BY Zenon, <2>1, <2>4, <3>1, <3>2 DEF NoteOverlap
  <2> QED BY Zenon, <1>3, <2>2, <2>3, <2>4 DEF Move
<1>4. CASE \/ Start \/ SchedulerWakes \/ TickShard
           \/ \E c \in Callers : Admit(c) \/ Section(c) \/ Preload(c) \/ Continue(c)
           \/ UNCHANGED allVars
  BY Zenon, <1>3, <1>4, ThreadMoves
<1>5. CASE \E w \in Workers : PoolStep(w)
  BY Zenon, <1>3, <1>5, PoolMoves
<1> QED BY Zenon, <1>1, <1>2, <1>4, <1>5 DEF LifeNext

-----------------------------------------------------------------------------
(* What the join leaves, key by key.                                       *)

\* The drained writes are kept per key.
DiscardsPerKey == discarded \in [Keys -> SUBSET Nat]

LEMMA DiscardsStep ==
    ASSUME LifeTyped, PhaseInv, DiscardsPerKey, [LifeNext]_allVars
    PROVE  DiscardsPerKey' /\ \A k \in Keys : discarded[k] \subseteq discarded'[k]
<1>1. CASE Drain
  <2>1. queue \in Seq(AnyJob)
    BY Zenon DEF LifeTyped, LifeGood, Good, Typed
  <2>2. HeadIs("flush") => Head(queue).key \in Keys /\ Head(queue).write \in Nat
    BY Zenon, <2>1, HeadKinds DEF Job
  <2> QED BY Zenon, <1>1, <2>2 DEF Drain, DiscardsPerKey
<1>2. CASE ~Drain
  <2>1. CASE CloserStep \/ \E flush \in BOOLEAN : BeginClose(flush)
    <3>1. UNCHANGED discarded
      BY ZenonT(30), <1>2, <2>1
      DEF CloserStep, BeginClose, SchedulerJoined, Collect, Offer, OfferTimeout,
          Unregister, Joined, JoinTimeout, Gather, SyncSkip, SyncPass, SyncWrite,
          SyncWriteFails, SyncMark, SyncClear, StopPool, OfferStop, ThreadsJoined,
          Closed
    <3> QED BY Zenon, <3>1 DEF DiscardsPerKey
  <2>2. CASE \E w \in Workers : PoolStep(w)
    BY Zenon, <2>2, PoolMoves DEF DiscardsPerKey
  <2>3. CASE ~(\/ CloserStep \/ \E flush \in BOOLEAN : BeginClose(flush)
               \/ \E w \in Workers : PoolStep(w))
    <3>1. UNCHANGED discarded
      BY Zenon, <2>3, ThreadMoves DEF LifeNext
    <3> QED BY Zenon, <3>1 DEF DiscardsPerKey
  <2> QED BY Zenon, <2>1, <2>2, <2>3
<1> QED BY Zenon, <1>1, <1>2

\* An entry is the newest write of its key, which the source holds if it is
\* clean.
EntryFine(k) ==
    Cached(slot[k]) =>
        slot[k].write = writes[k] /\ (slot[k].dirty \/ source[k] = writes[k])

Saved(k) == source[k] = writes[k] \/ writes[k] \in reported[k]

NoneInFlight(k) == \A j \in InFlight : j.key # k

\* The jobs of the closer are of the newest write, and that write is saved.
\* Where no worker was ever started it may as well be queued, or drained.
LateKey(k) ==
    /\ EntryFine(k)
    /\ \A j \in closer.jobs : j.key = k => j.write = writes[k]
    /\ closer.pc = "mark" /\ closer.job.key = k => source[k] = writes[k]
    /\ \/ Saved(k)
       \/ /\ pool = "new"
          /\ \/ \E j \in InFlight : j.key = k /\ j.write = writes[k]
             \/ writes[k] \in discarded[k]
    /\ pool # "new" \/ closer.pc = "closed" => NoneInFlight(k)

LateInv ==
    closer.flush /\ ~closer.failed /\ closer.pc \notin BeforeGather =>
        /\ \A w \in Workers : cpc[w] = "idle" /\ hand[w] = {}
        /\ \A k \in Keys \ overlap : LateKey(k)

LEMMA EntryFineKept ==
    ASSUME NEW k \in Keys, EntryFine(k), EntryStep(k), writes'[k] = writes[k],
           source'[k] = source[k] \/ source'[k] = writes[k]
    PROVE  EntryFine(k)'
BY Zenon DEF EntryFine, EntryStep, SameEntry, Cached

LEMMA LateKept ==
    ASSUME NEW k \in Keys, LateKey(k), EntryFine(k)', writes'[k] = writes[k],
           source'[k] = source[k] \/ source'[k] = writes[k],
           reported[k] \subseteq reported'[k], discarded[k] \subseteq discarded'[k],
           \A j \in closer'.jobs : j.key = k => j.write = writes[k],
           closer'.pc = "mark" /\ closer'.job.key = k => source'[k] = writes[k],
           pool' = "new" <=> pool = "new",
           NoneInFlight(k) => NoneInFlight(k)',
           pool = "new" => \A j \in InFlight : j.key = k /\ j.write = writes[k] =>
               j \in InFlight' \/ writes[k] \in discarded'[k],
           closer'.pc = "closed" => closer.pc = "closed" \/ NoneInFlight(k)'
    PROVE  LateKey(k)'
<1>1. Saved(k) => Saved(k)'
  BY Zenon DEF Saved
<1>2. \/ Saved(k)'
      \/ /\ pool' = "new"
         /\ \/ \E j \in InFlight' : j.key = k /\ j.write = writes'[k]
            \/ writes'[k] \in discarded'[k]
  BY Zenon, <1>1 DEF LateKey
<1>3. pool' # "new" \/ closer'.pc = "closed" => NoneInFlight(k)'
  BY Zenon DEF LateKey
<1> QED BY Zenon, <1>2, <1>3 DEF LateKey

\* The queue is joined: nothing is in flight but where no worker was started.
LEMMA JoinedLate ==
    ASSUME LifeTyped, PhaseInv, EarlyInv, PreloadsOnly, CallsNoted, Joined
    PROVE  LateInv'
<1>0. /\ closer \in Closer /\ closer.pc = "join" /\ closer.pc \in BeforeGather
      /\ queue \in Seq(AnyJob) /\ pool \in {"new", "running"} /\ Closing
  BY Zenon DEF Joined, BeforeGather, LifeTyped, LifeGood, Good, Typed, PhaseInv, CloserInv,
         Stopped, Closing
<1>1. /\ closer'.pc = "gather" /\ closer'.jobs = closer.jobs /\ closer.jobs = {}
      /\ FlushGood(AnyJob, WorkerPhases, closer.jobs)
      /\ UNCHANGED <<vars, pool, overlap, discarded>>
  BY Zenon, <1>0 DEF Joined, Closer, EarlyInv
<1>2. HandsInOrder /\ EntriesNewest /\ CleanMeansPersisted /\ Accounted
  BY Zenon, <1>1 DEF FlushGood, NumberGood, Counted, SourceInv
<1>3. /\ \A w \in Workers : wpc[w] \in {"idle", "exited"}
      /\ pool = "running" => queue = <<>>
  <2>1. CASE pool = "running"
    <3>1. Len(queue) \in Nat /\ IsFiniteSet(Busy)
      BY <1>0, ThreadsFinite, FS_Subset DEF Busy
    <3>2. Cardinality(Busy) \in Nat
      BY Zenon, <3>1, FS_CardinalityType
    <3>3. Cardinality(Busy) = 0 /\ Len(queue) = 0
      BY <2>1, <3>1, <3>2 DEF Joined, Unfinished
    <3>4. Busy = {} /\ queue = <<>>
      BY <1>0, <3>1, <3>3, FS_EmptySet
    <3> QED BY Zenon, <3>4 DEF Busy
  <2>2. CASE pool = "new"
    BY Zenon, <2>2 DEF PhaseInv, PoolInv
  <2> QED BY Zenon, <1>0, <2>1, <2>2
<1>4. \A w \in Workers : /\ cpc[w] = "idle" /\ hand[w] = {}
                         /\ wpc[w] \notin FlushPhases
  BY Zenon, <1>2, <1>3, ClientsAssumption DEF PreloadsOnly, HandsInOrder, FlushPhases, Phases
<1>5. ASSUME NEW k \in Keys \ overlap
      PROVE  LateKey(k)'
  <2>1. pool = "running" => NoneInFlight(k)
    <3>1. \A c \in Clients : \A j \in hand[c] : j.key # k
      BY Zenon, <1>0, <1>4, ClientsAssumption DEF CallsNoted
    <3>2. pool = "running" => DOMAIN queue = {}
      BY <1>3
    <3> QED BY Zenon, <1>4, <3>1, <3>2, InFlightPlaces DEF NoneInFlight
  <2>2. EntryFine(k)
    BY Zenon, <1>2 DEF EntriesNewest, CleanMeansPersisted, EntryFine
  <2>3. Saved(k) \/ (pool = "new" /\ \E j \in InFlight : j.key = k /\ j.write = writes[k])
    BY Zenon, <1>0, <1>2, <2>1 DEF Accounted, NoneInFlight, Saved
  <2>4. InFlight' = InFlight /\ (Saved(k)' <=> Saved(k)) /\ (EntryFine(k)' <=> EntryFine(k))
    BY Zenon, <1>1 DEF InFlight, Saved, EntryFine, vars
  <2>5. pool' = pool /\ writes' = writes /\ pool \in {"new", "running"}
    BY Zenon, <1>0, <1>1 DEF vars
  <2> QED BY Zenon, <1>1, <2>1, <2>2, <2>3, <2>4, <2>5 DEF LateKey, NoneInFlight
<1>6. UNCHANGED <<cpc, hand, overlap>>
  BY Zenon, <1>1 DEF vars
<1> QED BY Zenon, <1>4, <1>5, <1>6 DEF LateInv

\* The other threads.
LEMMA LateMoves ==
    ASSUME ~EvictsNewest, LifeTyped, PhaseInv, CallsNoted, LateInv, Move,
           UNCHANGED <<closer, discarded>>, overlap \subseteq overlap',
           pool' = pool \/ closer.pc = "idle"
    PROVE  LateInv'
<1> SUFFICES ASSUME closer.flush, ~closer.failed, closer.pc \notin BeforeGather
             PROVE  /\ \A w \in Workers : cpc'[w] = "idle" /\ hand'[w] = {}
                    /\ \A k \in Keys \ overlap' : LateKey(k)'
  BY Zenon DEF LateInv
<1>0. /\ \A w \in Workers : cpc[w] = "idle" /\ hand[w] = {}
      /\ \A k \in Keys \ overlap : LateKey(k)
      /\ pool' = pool /\ Closing
      /\ Good(AnyJob, WorkerPhases) /\ \A k \in Keys : slot[k] \in Slot
      /\ queue \in Seq(AnyJob)
  <2>1. closer.pc # "idle"
    BY Zenon DEF BeforeGather
  <2> QED BY Zenon, <2>1, SlotTypes DEF LateInv, Closing, LifeTyped, LifeGood
<1>c. Callers \subseteq Clients /\ Workers \subseteq Clients /\ Callers \cap Workers = {}
  BY Zenon, ClientsAssumption
<1>1. ASSUME NEW k \in Keys \ overlap', EntryStep(k), writes'[k] = writes[k],
             source'[k] = source[k], reported[k] \subseteq reported'[k],
             NoneInFlight(k) => NoneInFlight(k)',
             pool = "new" => \A j \in InFlight : j.key = k => j \in InFlight'
      PROVE  LateKey(k)'
  <2>1. k \in Keys \ overlap /\ LateKey(k)
    BY Zenon, <1>0, <1>1
  <2>2. EntryFine(k)'
    BY Zenon, <1>1, <2>1, EntryFineKept DEF LateKey
  <2>3. /\ \A j \in closer'.jobs : j.key = k => j.write = writes[k]
        /\ closer'.pc = "mark" /\ closer'.job.key = k => source'[k] = writes[k]
    BY Zenon, <1>1, <2>1 DEF LateKey
  <2> QED BY Zenon, <1>0, <1>1, <2>1, <2>2, <2>3, LateKept
<1>2. CASE NoFlushMoves
  <2>1. /\ UNCHANGED <<hand, cpc, source, writes, reported>>
        /\ \A k \in Keys : slot'[k] = slot[k] \/ slot'[k] = RemoveEntry(slot[k])
    BY Zenon, <1>2 DEF NoFlushMoves
  <2>2. \A k \in Keys : EntryStep(k)
    BY Zenon, <1>0, <2>1, SlotEntries DEF EntryStep, SameEntry
  <2>3. InFlight' = InFlight
    BY Zenon, <1>0, <1>2, QuietJobs
  <2>4. \A k \in Keys : NoneInFlight(k) => NoneInFlight(k)'
    BY Zenon, <2>3 DEF NoneInFlight
  <2> QED BY Zenon, <1>0, <1>1, <2>1, <2>2, <2>3, <2>4
<1>3. ASSUME NEW c \in Callers, ClientCall(c), NoteOverlap(c)
      PROVE  /\ \A w \in Workers : cpc'[w] = "idle" /\ hand'[w] = {}
             /\ \A k \in Keys \ overlap' : LateKey(k)'
  <2>1. /\ \A d \in Clients \ {c} : hand'[d] = hand[d] /\ cpc'[d] = cpc[d]
        /\ \A j \in hand'[c] : j \in hand[c] \/ writes'[j.key] # writes[j.key]
        /\ queue' = queue \/ \E j \in hand[c] : queue' = Append(queue, j)
        /\ \A x \in Keys : reported[x] \subseteq reported'[x]
        /\ UNCHANGED <<wpc, wjob, source>>
    BY Zenon, <1>0, <1>c, <1>3, ClientHands
  <2>2. \A x \in Keys : EntryStep(x)
    BY Zenon, <1>0, <1>c, <1>3, ClientStepEntries
  <2>3. ASSUME NEW k \in Keys \ overlap'
        PROVE  LateKey(k)'
    <3>1. writes'[k] = writes[k]
      BY Zenon, <1>0, <1>3, <2>3 DEF NoteOverlap
    <3>2. \A j \in hand[c] : j.key # k
      BY Zenon, <1>0, <1>3, <2>3 DEF CallsNoted
    <3>3. \A j \in hand'[c] : j.key # k
      BY Zenon, <2>1, <3>1, <3>2
    <3>4. \A i \in DOMAIN queue : i \in DOMAIN queue' /\ queue'[i] = queue[i]
      <4>1. ASSUME NEW j \in hand[c], queue' = Append(queue, j)
            PROVE  \A i \in DOMAIN queue : i \in DOMAIN queue' /\ queue'[i] = queue[i]
        BY <1>0, <4>1
      <4> QED BY Zenon, <2>1, <4>1
    <3>5. \A i \in DOMAIN queue' :
              (i \in DOMAIN queue /\ queue'[i] = queue[i]) \/ queue'[i].key # k
      BY <1>0, <1>c, <2>1, <3>2
    <3>6. \A d \in Clients : \A j : j.key = k => (j \in hand'[d] <=> j \in hand[d])
      BY Zenon, <2>1, <3>2, <3>3
    <3>7. \A j : j.key = k => (j \in InFlight' <=> j \in InFlight)
      BY SMTT(30), <2>1, <3>4, <3>5, <3>6, InFlightPlaces
    <3>8. NoneInFlight(k) => NoneInFlight(k)'
      BY Zenon, <3>7 DEF NoneInFlight
    <3> QED BY Zenon, <1>1, <2>1, <2>2, <2>3, <3>1, <3>7, <3>8
  <2> QED BY Zenon, <1>0, <1>c, <2>1, <2>3
<1>4. ASSUME NEW w \in Workers, FlushMove(w)
      PROVE  /\ \A v \in Workers : cpc'[v] = "idle" /\ hand'[v] = {}
             /\ \A k \in Keys \ overlap' : LateKey(k)'
  <2>1. UNCHANGED <<cpc, hand>>
    BY ZenonT(30), <1>4 DEF FlushMove, WorkerStep, Take, Skip, Pass, Apply, ApplyFails,
           Settle, Retry, RetryTimeout, GiveUp
  <2>2. UNCHANGED writes /\ \A j \in InFlight' : \E i \in InFlight : SameJob(j, i)
    BY Zenon, <1>0, <1>4, LifeSets, WorkerStepJobs DEF FlushMove
  <2>3. \A x \in Keys : reported[x] \subseteq reported'[x]
    <3>1. UNCHANGED reported \/ Report({wjob[w]})
      BY ZenonT(30), <1>4 DEF FlushMove, WorkerStep, Take, Skip, Pass, Apply, ApplyFails,
             Settle, Retry, RetryTimeout, GiveUp
    <3> QED BY Zenon, <3>1, ReportCovers
  <2>4. ASSUME NEW k \in Keys \ overlap'
        PROVE  LateKey(k)'
    <3>1. NoneInFlight(k) /\ pool # "new"
      BY Zenon, <1>0, <1>4, <2>4 DEF LateKey, FlushMove
    <3>2. wpc[w] \in FlushPhases => wjob[w].key # k
      BY Zenon, <3>1, InFlightPlaces DEF NoneInFlight
    <3>3. \/ UNCHANGED <<slot, source>>
          \/ /\ wpc[w] \in FlushPhases
             /\ \/ slot' = slot
                \/ \E t : slot' = [slot EXCEPT ![wjob[w].key] = t]
             /\ \/ source' = source
                \/ \E n : source' = [source EXCEPT ![wjob[w].key] = n]
      <4>1. CASE Take(w) \/ Pass(w) \/ ApplyFails(w) \/ Retry(w) \/ RetryTimeout(w)
        BY Zenon, <4>1 DEF Take, Pass, ApplyFails, Retry, RetryTimeout
      <4>2. CASE Skip(w) \/ Apply(w) \/ Settle(w) \/ GiveUp(w)
        <5>1. wpc[w] \in FlushPhases
          BY Zenon, <4>2 DEF Skip, Apply, Settle, GiveUp, FlushPhases, Phases
        <5> QED BY Zenon, <4>2, <5>1 DEF Skip, Apply, Settle, GiveUp
      <4> QED BY Zenon, <1>4, <4>1, <4>2 DEF FlushMove, WorkerStep
    <3>4. slot'[k] = slot[k] /\ source'[k] = source[k]
      <4>1. slot \in [Keys -> Slot] /\ source \in [Keys -> Nat]
        BY Zenon, <1>0 DEF Good, Typed
      <4> QED BY Zenon, <3>2, <3>3, <4>1
    <3>5. EntryStep(k) /\ writes'[k] = writes[k]
      BY Zenon, <2>2, <3>4 DEF EntryStep, SameEntry
    <3>6. NoneInFlight(k)'
      BY Zenon, <2>2, <3>1 DEF NoneInFlight, SameJob
    <3> QED BY Zenon, <1>1, <2>3, <2>4, <3>1, <3>4, <3>5, <3>6
  <2> QED BY Zenon, <1>0, <2>1, <2>4
<1>5. ASSUME NEW w \in Workers, PreloadCall(w)
      PROVE  FALSE
  <2>1. w \notin admitted
    BY Zenon DEF PhaseInv, NoLatePreload
  <2> QED BY Zenon, <1>0, <1>5, <2>1 DEF PreloadCall
<1> QED BY Zenon, <1>2, <1>3, <1>4, <1>5 DEF Move

\* The thread in close() itself.
LEMMA LateCloserStep ==
    ASSUME LifeTyped, PhaseInv, PoolStops, CallsNoted, DiscardsPerKey, LateInv,
           \A k \in Keys : discarded[k] \subseteq discarded'[k],
           CloserStep, closer.pc \notin BeforeGather
    PROVE  LateInv'
<1> SUFFICES ASSUME closer'.flush, ~closer'.failed
             PROVE  /\ \A w \in Workers : cpc'[w] = "idle" /\ hand'[w] = {}
                    /\ \A k \in Keys \ overlap' : LateKey(k)'
  BY Zenon DEF LateInv
<1>0. closer \in Closer /\ closer.jobs \in SUBSET Job
  BY Zenon DEF LifeTyped, Closer
<1>1. \/ Gather \/ SyncSkip \/ SyncPass \/ SyncWrite \/ SyncMark \/ SyncClear
      \/ StopPool \/ OfferStop \/ ThreadsJoined \/ Drain \/ Closed
  <2>1. ~(\/ SchedulerJoined \/ Collect \/ Offer \/ OfferTimeout \/ Unregister
          \/ Joined \/ JoinTimeout)
    BY Zenon DEF SchedulerJoined, Collect, Offer, OfferTimeout, Unregister, Joined,
           JoinTimeout, BeforeGather
  <2>2. ~SyncWriteFails
    BY Zenon, <1>0 DEF SyncWriteFails, Closer
  <2> QED BY Zenon, <2>1, <2>2 DEF CloserStep
<1>2. closer.flush /\ ~closer.failed
  BY Zenon, <1>1, CloserFields
<1>3. /\ \A w \in Workers : cpc[w] = "idle" /\ hand[w] = {}
      /\ \A k \in Keys \ overlap : LateKey(k)
      /\ Closing
      /\ UNCHANGED <<cpc, nextShard, hand, wpc, wjob, writes, overlap>>
  BY Zenon, <1>2, CloserLeaves DEF LateInv
<1>4. /\ slot \in [Keys -> Slot] /\ source \in [Keys -> Nat] /\ queue \in Seq(AnyJob)
      /\ \A k \in Keys : slot[k] \in Slot /\ Coherent(slot[k]) /\ writes[k] \in Nat
  BY Zenon, SlotTypes DEF LifeTyped, LifeGood, Good, Typed
<1>5. UNCHANGED reported
  BY ZenonT(30), <1>1 DEF Gather, SyncSkip, SyncPass, SyncWrite, SyncMark, SyncClear,
         StopPool, OfferStop, ThreadsJoined, Drain, Closed, vars
<1>6. ASSUME NEW k \in Keys \ overlap', EntryFine(k)',
             source'[k] = source[k] \/ source'[k] = writes[k],
             \A j \in closer'.jobs : j.key = k => j.write = writes[k],
             closer'.pc = "mark" /\ closer'.job.key = k => source'[k] = writes[k],
             pool' = "new" <=> pool = "new",
             NoneInFlight(k) => NoneInFlight(k)',
             \A j \in InFlight : j.key = k /\ j.write = writes[k] =>
                 j \in InFlight' \/ writes[k] \in discarded'[k],
             closer'.pc = "closed" => NoneInFlight(k)'
      PROVE  LateKey(k)'
  <2>1. k \in Keys /\ LateKey(k) /\ writes'[k] = writes[k]
        /\ reported[k] \subseteq reported'[k] /\ discarded[k] \subseteq discarded'[k]
    BY Zenon, <1>3, <1>5, <1>6
  <2> QED BY Zenon, <1>6, <2>1, LateKept
  \* Steps that keep the jobs in flight, and give the closer no other job.
<1>7. ASSUME NEW k \in Keys \ overlap', EntryFine(k)',
             source'[k] = source[k] \/ source'[k] = writes[k],
             \A j \in closer'.jobs : j.key = k => j \in closer.jobs \/ j.write = writes[k],
             closer'.pc = "mark" /\ closer'.job.key = k => source'[k] = writes[k],
             pool' = "new" <=> pool = "new", InFlight' = InFlight,
             closer'.pc # "closed"
      PROVE  LateKey(k)'
  <2>1. \A j \in closer'.jobs : j.key = k => j.write = writes[k]
    BY Zenon, <1>3, <1>7 DEF LateKey
  <2>2. NoneInFlight(k) => NoneInFlight(k)'
    BY Zenon, <1>7 DEF NoneInFlight
  <2> QED BY Zenon, <1>6, <1>7, <2>1, <2>2
<1>8. UNCHANGED queue => InFlight' = InFlight
  <2>1. hand' = hand /\ wpc' = wpc /\ wjob' = wjob
    BY Zenon, <1>3
  <2> QED BY SMTT(30), <2>1 DEF InFlight
<1>9. ASSUME NEW k \in Keys \ overlap', SameEntry(slot'[k], slot[k]),
             source'[k] = source[k] \/ source'[k] = writes[k]
      PROVE  EntryFine(k)'
  <2>1. k \in Keys /\ EntryFine(k) /\ EntryStep(k) /\ writes'[k] = writes[k]
    BY Zenon, <1>3, <1>9 DEF LateKey, EntryStep
  <2> QED BY Zenon, <1>9, <2>1, EntryFineKept
<1>10. UNCHANGED <<slot, source>> => \A k \in Keys \ overlap' : EntryFine(k)'
  BY Zenon, <1>9 DEF SameEntry
<1>11. CASE Gather
  <2>1. /\ UNCHANGED <<slot, source, queue, pool>>
        /\ closer' = NextPhase(closer, DirtyJobs(closer.step), "sync", "gather", "stop")
    BY Zenon, <1>11 DEF Gather, vars
  <2>2. DirtyJobs(closer.step) \in SUBSET Job
    BY Zenon, DirtyJobsType DEF LifeTyped
  <2>3. closer'.pc \in {"sync", "gather", "stop"} /\ closer'.jobs = DirtyJobs(closer.step)
    <3>1. "sync" \in CloserPhases /\ "gather" \in CloserPhases /\ "stop" \in CloserPhases
      BY Zenon DEF CloserPhases, Flushing, AfterFlush
    <3> QED BY <1>0, <2>1, <2>2, <3>1, NextPhaseFields
  <2>4. ASSUME NEW k \in Keys \ overlap', NEW j \in DirtyJobs(closer.step), j.key = k
        PROVE  j.write = writes[k]
    <3>1. PICK x \in Keys :
              \/ j = FlushJob(x, slot[x].version, slot[x].write, "put") /\ Cached(slot[x])
              \/ j = FlushJob(x, slot[x].tomb, writes[x], "delete")
      BY Zenon DEF DirtyJobs, Live
    <3>2. x = k
      BY <2>4, <3>1 DEF FlushJob
    <3>3. Cached(slot[k]) => slot[k].write = writes[k]
      BY Zenon, <1>3, <2>4 DEF LateKey, EntryFine
    <3> QED BY <3>1, <3>2, <3>3 DEF FlushJob
  <2> QED BY ZenonT(60), <1>3, <1>7, <1>8, <1>10, <2>1, <2>3, <2>4
<1>12. ASSUME NEW j \in closer.jobs,
              slot' = [slot EXCEPT ![j.key] = ClearPending(@)],
              closer' = NextPhase(closer, closer.jobs \ {j}, "sync", "gather", "stop"),
              UNCHANGED <<source, queue, pool>>
       PROVE  \A k \in Keys \ overlap' : LateKey(k)'
  <2>1. closer'.pc \in {"sync", "gather", "stop"} /\ closer'.jobs = closer.jobs \ {j}
    <3>1. "sync" \in CloserPhases /\ "gather" \in CloserPhases /\ "stop" \in CloserPhases
      BY Zenon DEF CloserPhases, Flushing, AfterFlush
    <3>2. closer.jobs \ {j} \in SUBSET Job
      BY Zenon, <1>0
    <3> QED BY <1>0, <1>12, <3>1, <3>2, NextPhaseFields
  <2>2. \A k \in Keys : SameEntry(slot'[k], slot[k])
    <3>1. \A k \in Keys : SameEntry(ClearPending(slot[k]), slot[k])
      BY Zenon, <1>4, ClearPendingCoherent
    <3>2. \A k \in Keys : slot'[k] = slot[k] \/ slot'[k] = ClearPending(slot[k])
      BY Zenon, <1>4, <1>12
    <3> QED BY Zenon, <3>1, <3>2 DEF SameEntry
  <2>3. \A k \in Keys \ overlap' : EntryFine(k)'
    BY Zenon, <1>9, <1>12, <2>2
  <2> QED BY Zenon, <1>7, <1>8, <1>12, <2>1, <2>3
<1>13. CASE SyncSkip \/ SyncClear
  <2>1. \E j \in closer.jobs :
            /\ slot' = [slot EXCEPT ![j.key] = ClearPending(@)]
            /\ closer' = NextPhase(closer, closer.jobs \ {j}, "sync", "gather", "stop")
    <3>1. CASE SyncSkip
      BY Zenon, <3>1 DEF SyncSkip, CloserJobs
    <3>2. CASE SyncClear
      <4>1. closer.job \in closer.jobs
        BY Zenon, <3>2 DEF SyncClear, LifeTyped, Handles
      <4> QED BY Zenon, <3>2, <4>1 DEF SyncClear
    <3> QED BY Zenon, <1>13, <3>1, <3>2
  <2>2. UNCHANGED <<source, queue, pool>>
    BY Zenon, <1>13 DEF SyncSkip, SyncClear
  <2> QED BY Zenon, <1>3, <1>12, <2>1, <2>2
<1>14. CASE SyncPass \/ StopPool \/ ThreadsJoined
  <2>1. /\ UNCHANGED <<slot, source, queue>> /\ closer'.jobs = closer.jobs
        /\ closer'.pc \in {"write", "sentinels", "drain"}
    BY Zenon, <1>0, <1>14 DEF SyncPass, StopPool, ThreadsJoined, Closer, vars
  <2>2. pool' = "new" <=> pool = "new"
    BY Zenon, <1>14 DEF SyncPass, StopPool, ThreadsJoined, PoolStops
  <2> QED BY Zenon, <1>3, <1>7, <1>8, <1>10, <2>1, <2>2
<1>15. CASE SyncWrite \/ SyncMark
  <2>1. /\ closer.job \in closer.jobs /\ closer.job.key \in Keys
        /\ closer'.jobs = closer.jobs /\ closer'.job = closer.job
        /\ UNCHANGED <<queue, pool>> /\ closer'.pc \in {"mark", "clear"}
    BY Zenon, <1>0, <1>15 DEF SyncWrite, SyncMark, LifeTyped, Handles, Closer, Job
  <2>2. \A k \in Keys \ overlap : closer.job.key = k => closer.job.write = writes[k]
    BY Zenon, <1>3, <2>1 DEF LateKey
  <2>3. ASSUME SyncWrite, NEW k \in Keys \ overlap'
        PROVE  LateKey(k)'
    <3>1. source'[k] = IF closer.job.key = k THEN closer.job.write ELSE source[k]
      BY Zenon, <1>4, <2>3 DEF SyncWrite
    <3>2. source'[k] = IF closer.job.key = k THEN writes[k] ELSE source[k]
      BY Zenon, <1>3, <2>2, <3>1
    <3>3. EntryFine(k)'
      <4>1. SameEntry(slot'[k], slot[k])
        BY Zenon, <2>3 DEF SyncWrite, SameEntry
      <4> QED BY Zenon, <1>9, <3>2, <4>1
    <3> QED BY Zenon, <1>7, <1>8, <2>1, <3>2, <3>3
  <2>4. ASSUME SyncMark, NEW k \in Keys \ overlap'
        PROVE  LateKey(k)'
    <3>1. source' = source /\ closer'.pc = "clear"
      BY Zenon, <1>0, <2>4 DEF SyncMark, Closer
    <3>2. EntryFine(k)'
      <4>1. CASE closer.job.key # k
        <5>1. SameEntry(slot'[k], slot[k])
          BY Zenon, <1>4, <2>4, <4>1 DEF SyncMark, SameEntry
        <5> QED BY Zenon, <1>9, <3>1, <5>1
      <4>2. CASE closer.job.key = k
        <5>1. slot'[k] = MarkClean(slot[k], closer.job)
          BY Zenon, <1>4, <2>4, <4>2 DEF SyncMark
        <5>2. slot'[k].version = slot[k].version /\ slot'[k].write = slot[k].write
          BY Zenon, <1>4, <5>1 DEF MarkClean, Slot
        <5>3. EntryFine(k) /\ source[k] = writes[k]
          BY Zenon, <1>3, <2>4, <4>2 DEF LateKey, SyncMark
        <5> QED BY Zenon, <1>3, <3>1, <5>2, <5>3 DEF EntryFine, Cached
      <4> QED BY Zenon, <4>1, <4>2
    <3> QED BY Zenon, <1>7, <1>8, <2>1, <3>1, <3>2
  <2> QED BY Zenon, <1>3, <1>15, <2>3, <2>4
<1>16. CASE OfferStop
  <2>1. /\ UNCHANGED <<slot, source, pool>> /\ closer'.jobs = closer.jobs
        /\ closer'.pc \in {"sentinels", "threads"}
    BY Zenon, <1>0, <1>16 DEF OfferStop, Closer
  <2>2. OtherJobsOnly
    <3>1. StopWorker \in OtherJob
      BY Zenon DEF OtherJob
    <3> QED BY Zenon, <1>16, <3>1 DEF OfferStop, OtherJobsOnly
  <2>3. NoFlushMoves
    BY Zenon, <1>3, <1>5, <2>1, <2>2 DEF NoFlushMoves
  <2>4. InFlight' = InFlight
    BY Zenon, <1>4, <2>3, QuietJobs
  <2> QED BY Zenon, <1>3, <1>7, <1>10, <2>1, <2>4
<1>17. CASE Drain
  <2>1. /\ UNCHANGED <<slot, source, pool, closer>> /\ closer.pc = "drain"
        /\ queue # <<>> /\ queue' = Tail(queue)
    BY Zenon, <1>17 DEF Drain
  <2>2. \A i \in DOMAIN queue' : i + 1 \in DOMAIN queue /\ queue'[i] = queue[i + 1]
    BY <1>4, <2>1
  <2>3. \A i \in DOMAIN queue :
            queue[i] = Head(queue) \/ (i - 1 \in DOMAIN queue' /\ queue'[i - 1] = queue[i])
    <3>1. Head(queue) = queue[1]
      BY <2>1
    <3> QED BY SMTT(30), <1>4, <2>1, <3>1
  <2>4. \A j : j \in InFlight' => j \in InFlight
    BY SMTT(30), <1>3, <2>2, InFlightPlaces
  <2>5. \A j : j \in InFlight => j \in InFlight' \/ (j \in Job /\ j = Head(queue))
    BY SMTT(30), <1>3, <2>3, InFlightPlaces
  <2>6. ASSUME Head(queue) \in Job
        PROVE  Head(queue).write \in discarded'[Head(queue).key]
    <3>1. "kind" \notin DOMAIN Head(queue) /\ Head(queue).key \in Keys
      BY Zenon, <2>6 DEF Job
    <3>2. HeadIs("flush")
      BY Zenon, <2>1, <3>1 DEF HeadIs
    <3> QED BY Zenon, <1>17, <3>1, <3>2 DEF Drain, DiscardsPerKey
  <2>7. ASSUME NEW k \in Keys \ overlap'
        PROVE  LateKey(k)'
    <3>1. NoneInFlight(k) => NoneInFlight(k)'
      BY Zenon, <2>4 DEF NoneInFlight
    <3>2. \A j \in InFlight : j.key = k /\ j.write = writes[k] =>
              j \in InFlight' \/ writes[k] \in discarded'[k]
      BY Zenon, <2>5, <2>6
    <3>3. EntryFine(k)' /\ \A j \in closer'.jobs : j.key = k => j.write = writes[k]
      BY Zenon, <1>3, <1>10, <2>1 DEF LateKey
    <3> QED BY Zenon, <1>6, <2>1, <3>1, <3>2, <3>3
  <2> QED BY Zenon, <1>3, <2>7
<1>18. CASE Closed
  <2>1. /\ UNCHANGED <<slot, source, pool, queue>> /\ queue = <<>>
        /\ closer'.jobs = closer.jobs /\ closer'.pc = "closed"
    BY Zenon, <1>0, <1>18 DEF Closed, Closer, vars
  <2>2. InFlight' = InFlight
    BY Zenon, <1>8, <2>1
  <2>3. ASSUME NEW k \in Keys \ overlap'
        PROVE  LateKey(k)'
    <3>1. NoneInFlight(k)
      <4>1. CASE pool # "new"
        BY Zenon, <1>3, <4>1 DEF LateKey
      <4>2. CASE pool = "new"
        <5>1. \A c \in Clients : \A j \in hand[c] : j.key # k
          BY Zenon, <1>3, ClientsAssumption DEF CallsNoted
        <5>2. \A w \in Workers : wpc[w] \notin FlushPhases
          BY Zenon, <4>2 DEF PhaseInv, PoolInv, FlushPhases, Phases
        <5>3. DOMAIN queue = {}
          BY <2>1
        <5> QED BY Zenon, <5>1, <5>2, <5>3, InFlightPlaces DEF NoneInFlight
      <4> QED BY Zenon, <4>1, <4>2
    <3>2. NoneInFlight(k)'
      BY Zenon, <2>2, <3>1 DEF NoneInFlight
    <3>3. EntryFine(k)' /\ \A j \in closer'.jobs : j.key = k => j.write = writes[k]
      BY Zenon, <1>3, <1>10, <2>1 DEF LateKey
    <3> QED BY Zenon, <1>6, <2>1, <2>2, <3>2, <3>3
  <2> QED BY Zenon, <1>3, <2>3
<1> QED BY Zenon, <1>1, <1>11, <1>13, <1>14, <1>15, <1>16, <1>17, <1>18

LEMMA LateStep ==
    ASSUME ~EvictsNewest, LifeTyped, PhaseInv, EarlyInv, PreloadsOnly, CallsNoted,
           PoolStops, DiscardsPerKey, LateInv, [LifeNext]_allVars
    PROVE  LateInv'
<1>0. closer \in Closer
  BY Zenon DEF LifeTyped
<1>1. CASE \/ Start \/ SchedulerWakes \/ TickShard
           \/ \E c \in Callers : Admit(c) \/ Section(c) \/ Preload(c) \/ Continue(c)
           \/ UNCHANGED allVars
  BY Zenon, <1>1, ThreadMoves, LateMoves
<1>2. CASE \E w \in Workers : PoolStep(w)
  BY Zenon, <1>2, PoolMoves, LateMoves
<1>3. ASSUME ~(closer'.flush /\ ~closer'.failed /\ closer'.pc \notin BeforeGather)
      PROVE  LateInv'
  BY Zenon, <1>3 DEF LateInv
<1>4. CASE \E flush \in BOOLEAN : BeginClose(flush)
  <2>1. closer'.pc \in BeforeGather
    BY Zenon, <1>0, <1>4 DEF BeginClose, Closer, BeforeGather
  <2> QED BY Zenon, <1>3, <2>1
<1>5. CASE CloserStep /\ closer.pc \in BeforeGather
  <2>1. CASE Joined
    BY Zenon, <2>1, JoinedLate
  <2>2. CASE ~Joined
    <3>1. ~(\/ Gather \/ SyncSkip \/ SyncPass \/ SyncWrite \/ SyncWriteFails \/ SyncMark
            \/ SyncClear \/ StopPool \/ OfferStop \/ ThreadsJoined \/ Drain \/ Closed)
      BY Zenon, <1>5 DEF Gather, SyncSkip, SyncPass, SyncWrite, SyncWriteFails, SyncMark,
             SyncClear, StopPool, OfferStop, ThreadsJoined, Drain, Closed, BeforeGather
    <3>2. \/ SchedulerJoined \/ Collect \/ Offer \/ OfferTimeout \/ Unregister
          \/ JoinTimeout
      BY Zenon, <1>5, <2>2, <3>1 DEF CloserStep
    <3>3. closer'.flush /\ ~closer'.failed => closer'.pc \in BeforeGather
      BY Zenon, <3>2, CloserFields DEF BeforeGather
    <3> QED BY Zenon, <1>3, <3>3
  <2> QED BY Zenon, <2>1, <2>2
<1>6. CASE CloserStep /\ closer.pc \notin BeforeGather
  BY Zenon, <1>6, DiscardsStep, LateCloserStep
<1> QED BY Zenon, <1>1, <1>2, <1>4, <1>5, <1>6 DEF LifeNext

-----------------------------------------------------------------------------

CloseInv ==
    /\ LifeInv /\ PreloadsOnly /\ CallsNoted /\ PoolStops /\ DiscardsPerKey
    /\ EarlyInv /\ LateInv

\* After a close(flush=True) that reports success the newest write of every
\* key has reached the source of truth, or its failure was reported, or drain()
\* threw its job away after its entry had left a cache whose workers were never
\* started; except for keys that callers wrote while close() ran.  For every
\* number of keys, callers, shards and writes, however expirations, retries,
\* preloads, time-outs and the closer interleave; with one worker and a policy
\* that spares the key just put, as the flushes have to stay in order.
THEOREM CloseAccountsForAllWrites ==
    ASSUME ~EvictsNewest, \A v, w \in Workers : v = w
    PROVE  LifeSpec => []CloseAccountsForWrites
<1>1. LifeInit => CloseInv
  <2> SUFFICES ASSUME LifeInit PROVE CloseInv
    BY Zenon
  <2>1. /\ closer.pc = "idle" /\ ~closer.flush
        /\ \A c \in Clients : cpc[c] = "idle"
        /\ discarded = [k \in Keys |-> {}]
    BY Zenon DEF LifeInit, Init
  <2>2. LifeInv
    BY Zenon, <2>1, LifeTypedInit, PhaseInvInit DEF LifeInv, DirtyCovered
  <2>3. PreloadsOnly /\ CallsNoted /\ PoolStops /\ DiscardsPerKey /\ LateInv
    BY Zenon, <2>1, ClientsAssumption
    DEF PreloadsOnly, CallsNoted, Closing, PoolStops, DiscardsPerKey, LateInv
  <2> QED BY Zenon, <2>2, <2>3, EarlyInit DEF CloseInv
<1>2. CloseInv /\ [LifeNext]_allVars => CloseInv'
  <2> SUFFICES ASSUME CloseInv, [LifeNext]_allVars PROVE CloseInv'
    BY Zenon
  <2>1. /\ LifeTyped /\ PhaseInv /\ PreloadsOnly /\ CallsNoted /\ PoolStops
        /\ DiscardsPerKey /\ EarlyInv /\ LateInv /\ LifeInv
    BY Zenon DEF CloseInv, LifeInv
  <2>2. LifeInv' /\ LifeTyped'
    BY Zenon, <2>1, LifeInvStep DEF LifeInv
  <2>3. PreloadsOnly' /\ CallsNoted' /\ PoolStops' /\ DiscardsPerKey'
    BY Zenon, <2>1, PreloadsOnlyStep, CallsNotedStep, PoolStopsStep, DiscardsStep
  <2>4. EarlyInv'
    BY Zenon, <2>1, <2>2, EarlyStep
  <2>5. LateInv'
    BY Zenon, <2>1, LateStep
  <2> QED BY Zenon, <2>2, <2>3, <2>4, <2>5 DEF CloseInv
<1>3. CloseInv => CloseAccountsForWrites
  <2> SUFFICES ASSUME CloseInv, FlushedClose, NEW k \in Keys \ overlap
               PROVE  Saved(k) \/ DroppedByDrain(k)
    BY Zenon DEF CloseAccountsForWrites, Saved
  <2>1. /\ closer.pc = "closed" /\ closer.flush /\ ~closer.failed
        /\ closer.pc \notin BeforeGather
    BY Zenon DEF FlushedClose, CloseInv, LifeInv, PhaseInv, CloserInv, BeforeGather
  <2>2. LateKey(k)
    BY Zenon, <2>1 DEF CloseInv, LateInv
  <2>3. Cached(slot[k]) => ~slot[k].dirty
    BY Zenon, <2>1 DEF CloseInv, LifeInv, DirtyCovered, Ahead, BeforeGather, Flushing
  <2>4. Cached(slot[k]) => Saved(k)
    BY Zenon, <2>2, <2>3 DEF LateKey, EntryFine, Saved
  <2> QED BY Zenon, <2>1, <2>2, <2>4 DEF LateKey, NoneInFlight, DroppedByDrain
<1> QED BY <1>1, <1>2, <1>3, PTL DEF LifeSpec

=============================================================================
