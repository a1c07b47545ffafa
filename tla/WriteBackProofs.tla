-------------------------- MODULE WriteBackProofs --------------------------
(***************************************************************************)
(* Proofs about WriteBack, for any keys, clients, workers, shards, queue   *)
(* size, retry count and eviction policy: types, version marks and         *)
(* tombstones, capacity, and the counts of pending flushes.                *)
(***************************************************************************)
EXTENDS WriteBack, FiniteSetTheorems, TLAPS

-----------------------------------------------------------------------------
(* The operations on the bookkeeping of one key.                           *)

\* _maybe_prune_marks_locked keeps a slot a slot.
LEMMA MaybePruneMarksType ==
    ASSUME NEW s \in Slot
    PROVE  MaybePruneMarks(s) \in Slot
BY Zenon DEF MaybePruneMarks, Slot

\* _remove_entry_locked restores coherence whenever the tombstone, if any, is
\* the current version and is still pinned by a pending flush.
LEMMA RemoveEntryCoherent ==
    ASSUME NEW s \in Slot,
           s.tomb > 0 => s.pending > 0 /\ s.tomb = s.mark
    PROVE  RemoveEntry(s) \in Slot /\ Coherent(RemoveEntry(s))
<1> DEFINE t == [s EXCEPT !.version = 0, !.write = 0, !.dirty = FALSE]
<1>1. /\ t \in Slot /\ t.version = 0
      /\ t.mark = s.mark /\ t.tomb = s.tomb /\ t.pending = s.pending
  BY ZenonT(30) DEF Slot
<1> HIDE DEF t
<1>2. MaybePruneMarks(t) \in Slot
  BY Zenon, <1>1, MaybePruneMarksType
<1>3. Coherent(MaybePruneMarks(t))
  BY <1>1 DEF MaybePruneMarks, Coherent, Cached, Slot
<1> QED BY Zenon, <1>2, <1>3 DEF RemoveEntry, t

\* put() leaves the slot of its key coherent, before and after it registers
\* the pending flush.
LEMMA StoreEntryCoherent ==
    ASSUME NEW s \in Slot, NEW w \in Nat
    PROVE  StoreEntry(s, w) \in Slot /\ Coherent(StoreEntry(s, w))
<1> DEFINE t == NextVersion(s)
           u == [t EXCEPT !.tomb = 0, !.version = t.mark, !.write = w,
                          !.dirty = TRUE]
<1>1. t \in Slot
  BY DEF NextVersion, Slot
<1> HIDE DEF t
<1>2. u \in Slot /\ u.tomb = 0 /\ u.version = u.mark
  BY ZenonT(30), <1>1 DEF Slot
<1>3. Coherent(u)
  BY <1>2 DEF Coherent, Cached, Slot
<1> QED BY Zenon, <1>2, <1>3 DEF StoreEntry, t

LEMMA RegisterPendingCoherent ==
    ASSUME NEW s \in Slot, Coherent(s)
    PROVE  RegisterPending(s) \in Slot /\ Coherent(RegisterPending(s))
BY DEF RegisterPending, Coherent, Cached, Slot

\* delete() leaves the slot of its key coherent.
LEMMA DeleteEntryCoherent ==
    ASSUME NEW s \in Slot
    PROVE  DeleteEntry(s) \in Slot /\ Coherent(DeleteEntry(s))
<1> DEFINE n == NextVersion(s)
           t == [n EXCEPT !.tomb = n.mark]
           r == RegisterPending(t)
<1>1. n \in Slot
  BY DEF NextVersion, Slot
<1> HIDE DEF n
<1>2. t \in Slot /\ t.tomb = t.mark
  BY Zenon, <1>1 DEF Slot
<1> HIDE DEF t
<1>3. r \in Slot /\ r.tomb = r.mark /\ r.pending > 0
  BY <1>2 DEF RegisterPending, Slot
<1> HIDE DEF r
<1>4. RemoveEntry(r) \in Slot /\ Coherent(RemoveEntry(r))
  BY Zenon, <1>3, RemoveEntryCoherent
<1> QED BY Zenon, <1>4 DEF DeleteEntry, r, t, n

\* _resolve_pending_locked keeps a coherent slot coherent: a tombstone or a
\* mark goes when the last pending flush of an absent key does.
LEMMA ResolvePendingCoherent ==
    ASSUME NEW s \in Slot, Coherent(s)
    PROVE  ResolvePending(s) \in Slot /\ Coherent(ResolvePending(s))
<1> DEFINE t == [s EXCEPT !.pending = IF @ > 1 THEN @ - 1 ELSE 0]
<1>1. t \in Slot
  BY DEF Slot
<1>2. MaybePruneMarks(t) \in Slot
  BY Zenon, <1>1, MaybePruneMarksType
<1>3. Coherent(ResolvePending(s))
  BY DEF ResolvePending, MaybePruneMarks, Coherent, Cached, Slot
<1> QED BY Zenon, <1>2, <1>3 DEF ResolvePending

\* Clearing the dirty flag does not disturb the bookkeeping.
LEMMA MarkCleanCoherent ==
    ASSUME NEW s \in Slot, NEW j, Coherent(s)
    PROVE  MarkClean(s, j) \in Slot /\ Coherent(MarkClean(s, j))
BY ZenonT(30) DEF MarkClean, Coherent, Cached, Slot

\* What the operations on a slot do to the entry.
SameEntry(s, t) == s.version = t.version /\ s.write = t.write /\ s.dirty = t.dirty

LEMMA SlotEntries ==
    ASSUME NEW s \in Slot
    PROVE  /\ ~Cached(RemoveEntry(s)) /\ ~Cached(DeleteEntry(s))
           /\ SameEntry(ResolvePending(s), s) /\ SameEntry(RegisterPending(s), s)
           /\ \A w : StoreEntry(s, w).write = w /\ StoreEntry(s, w).dirty
<1>1. ASSUME NEW t \in Slot
      PROVE  ~Cached(RemoveEntry(t))
  BY DEF RemoveEntry, MaybePruneMarks, Cached, Slot
<1>2. ~Cached(DeleteEntry(s))
  <2> DEFINE n == NextVersion(s)
             m == [n EXCEPT !.tomb = n.mark]
             t == RegisterPending(m)
  <2>1. n \in Slot
    BY DEF NextVersion, Slot
  <2> HIDE DEF n
  <2>2. m \in Slot
    BY Zenon, <2>1 DEF Slot
  <2> HIDE DEF m
  <2>3. t \in Slot
    BY <2>2 DEF RegisterPending, Slot
  <2> HIDE DEF t
  <2>4. ~Cached(RemoveEntry(t))
    BY Zenon, <1>1, <2>3
  <2> QED BY Zenon, <2>4 DEF DeleteEntry, t, m, n
<1>3. SameEntry(ResolvePending(s), s)
  BY Zenon DEF ResolvePending, MaybePruneMarks, SameEntry, Slot
<1>4. SameEntry(RegisterPending(s), s)
  BY Zenon DEF RegisterPending, SameEntry, Slot
<1>5. \A w : StoreEntry(s, w).write = w /\ StoreEntry(s, w).dirty
  BY Zenon DEF StoreEntry, NextVersion, Slot
<1> QED BY Zenon, <1>1, <1>2, <1>3, <1>4, <1>5

-----------------------------------------------------------------------------
(* Types and metadata.                                                     *)

\* A worker that is not idle holds a job, and one about to retry holds a job
\* with a retry left.
BusyHoldsJob ==
    \A w \in Workers :
        /\ wpc[w] # "idle" => wjob[w] \in Job
        /\ wpc[w] = "retry" => wjob[w].retries > 0

Inv == TypeOK /\ BusyHoldsJob /\ MetadataBounded

\* The same for a queue that may hold other jobs too, of a set J, and for
\* workers that may be in other phases, of a set P.
Phases == {"idle", "check", "apply", "settle", "retry", "giveup"}
FlushPhases == Phases \ {"idle"}

Typed(J, P) ==
    /\ slot \in [Keys -> Slot]
    /\ queue \in Seq(J)
    /\ cpc \in [Clients -> {"idle", "clear", "enqueue", "release"}]
    /\ nextShard \in [Clients -> 1 .. ShardCount]
    /\ hand \in [Clients -> SUBSET Job]
    /\ wpc \in [Workers -> P]
    /\ wjob \in [Workers -> J \cup {NoJob}]
    /\ source \in [Keys -> Nat]
    /\ faults \in Nat
    /\ writes \in [Keys -> Nat]
    /\ reported \in [Keys -> SUBSET Nat]

FlushersHoldJobs ==
    \A w \in Workers :
        /\ wpc[w] \in FlushPhases => wjob[w] \in Job
        /\ wpc[w] = "retry" => wjob[w].retries > 0

Good(J, P) == Typed(J, P) /\ FlushersHoldJobs /\ MetadataBounded

LEMMA InvIsGood == Inv <=> Good(Job, Phases)
BY Zenon DEF Inv, Good, TypeOK, Typed, BusyHoldsJob, FlushersHoldJobs, Phases,
       FlushPhases

\* All slots are typed and coherent.
GoodSlots(sl) == sl \in [Keys -> Slot] /\ \A k \in Keys : Coherent(sl[k])

LEMMA GoodSlotsOfGood ==
    ASSUME NEW J, NEW P, Good(J, P)
    PROVE  GoodSlots(slot)
BY Zenon DEF Good, Typed, MetadataBounded, GoodSlots

LEMMA GoodSlotsOfInv ==
    ASSUME Inv
    PROVE  GoodSlots(slot)
BY Zenon DEF Inv, TypeOK, MetadataBounded, GoodSlots

\* Changing one slot to a good one keeps the slots good.
LEMMA GoodSlotsExcept ==
    ASSUME NEW sl, GoodSlots(sl), NEW k \in Keys, NEW t \in Slot, Coherent(t)
    PROVE  GoodSlots([sl EXCEPT ![k] = t])
BY Zenon DEF GoodSlots

LEMMA FlushJobType ==
    ASSUME NEW k \in Keys, NEW v \in Nat, NEW w \in Nat,
           NEW op \in {"put", "delete"}
    PROVE  FlushJob(k, v, w, op) \in Job
BY Zenon, ConstantsAssumption DEF FlushJob, Job

LEMMA ReportType ==
    ASSUME reported \in [Keys -> SUBSET Nat], NEW jobs \in SUBSET Job, Report(jobs)
    PROVE  reported' \in [Keys -> SUBSET Nat]
BY Zenon DEF Report, Job

\* put() keeps every slot good, whichever keys it evicts.
LEMMA PutSlots ==
    ASSUME GoodSlots(slot), NEW k \in Keys, writes[k] \in Nat,
           NEW expired \in BOOLEAN, NEW E \in SUBSET Keys
    PROVE  LET stored == Stored(k, expired)
               left == [x \in Keys |-> IF x \in E THEN RemoveEntry(stored[x])
                                                  ELSE stored[x]]
           IN  /\ GoodSlots([left EXCEPT ![k] = RegisterPending(@)])
               /\ stored[k].version \in Nat
<1> DEFINE stored == Stored(k, expired)
           left == [x \in Keys |-> IF x \in E THEN RemoveEntry(stored[x])
                                              ELSE stored[x]]
           old == IF expired THEN RemoveEntry(slot[k]) ELSE slot[k]
<1>1. GoodSlots(slot) /\ slot[k] \in Slot /\ Coherent(slot[k])
  BY Zenon DEF GoodSlots
<1>2. RemoveEntry(slot[k]) \in Slot
  BY Zenon, <1>1, RemoveEntryCoherent DEF Coherent
<1>3. old \in Slot
  BY Zenon, <1>1, <1>2
<1>4. writes[k] + 1 \in Nat
  OBVIOUS
<1> HIDE DEF old
<1>5. StoreEntry(old, writes[k] + 1) \in Slot
      /\ Coherent(StoreEntry(old, writes[k] + 1))
  BY Zenon, <1>3, <1>4, StoreEntryCoherent
<1>6. stored = [slot EXCEPT ![k] = StoreEntry(old, writes[k] + 1)]
  BY Zenon DEF Stored, old
<1> HIDE DEF stored
<1>7. GoodSlots(stored)
  BY ZenonT(30), <1>1, <1>5, <1>6, GoodSlotsExcept
<1>8. GoodSlots(left)
  <2> SUFFICES ASSUME NEW x \in Keys
               PROVE  left[x] \in Slot /\ Coherent(left[x])
    BY Zenon DEF GoodSlots
  <2>1. stored[x] \in Slot /\ Coherent(stored[x])
    BY Zenon, <1>7 DEF GoodSlots
  <2>2. RemoveEntry(stored[x]) \in Slot /\ Coherent(RemoveEntry(stored[x]))
    BY Zenon, <2>1, RemoveEntryCoherent DEF Coherent
  <2> QED BY Zenon, <2>1, <2>2
<1> HIDE DEF left
<1>9. RegisterPending(left[k]) \in Slot /\ Coherent(RegisterPending(left[k]))
  BY Zenon, <1>8, RegisterPendingCoherent DEF GoodSlots
<1>10. GoodSlots([left EXCEPT ![k] = RegisterPending(@)])
  BY Zenon, <1>8, <1>9, GoodSlotsExcept
<1>11. stored[k].version \in Nat
  BY Zenon, <1>7 DEF GoodSlots, Slot
<1> QED BY Zenon, <1>10, <1>11 DEF stored, left

\* Settling one outstanding job of a key keeps every slot good.
LEMMA ResolveSlots ==
    ASSUME GoodSlots(slot), NEW j \in Job
    PROVE  /\ GoodSlots([slot EXCEPT ![j.key] = ResolvePending(@)])
           /\ GoodSlots([slot EXCEPT ![j.key] = ResolvePending(MarkClean(@, j))])
<1>1. GoodSlots(slot)
  BY Zenon
<1>2. j.key \in Keys /\ slot[j.key] \in Slot /\ Coherent(slot[j.key])
  BY Zenon, <1>1 DEF GoodSlots, Job
<1>3. MarkClean(slot[j.key], j) \in Slot /\ Coherent(MarkClean(slot[j.key], j))
  BY Zenon, <1>2, MarkCleanCoherent
<1>4. /\ ResolvePending(slot[j.key]) \in Slot
      /\ Coherent(ResolvePending(slot[j.key]))
  BY Zenon, <1>2, ResolvePendingCoherent
<1>5. /\ ResolvePending(MarkClean(slot[j.key], j)) \in Slot
      /\ Coherent(ResolvePending(MarkClean(slot[j.key], j)))
  BY Zenon, <1>3, ResolvePendingCoherent
<1>6. GoodSlots([slot EXCEPT ![j.key] = ResolvePending(slot[j.key])])
  BY Zenon, <1>1, <1>2, <1>4, GoodSlotsExcept
<1>7. GoodSlots([slot EXCEPT ![j.key] = ResolvePending(MarkClean(slot[j.key], j))])
  BY Zenon, <1>1, <1>2, <1>5, GoodSlotsExcept
<1> QED BY Zenon, <1>6, <1>7

\* put() preserves the invariant, whichever keys it evicts.
LEMMA PutEvictingGood ==
    ASSUME NEW J, NEW P, Good(J, P), NEW c \in Clients, NEW k \in Keys,
           NEW expired \in BOOLEAN, NEW E \in SUBSET Keys,
           PutEvicting(c, k, expired, E)
    PROVE  Good(J, P)'
<1> USE DEF Good, FlushersHoldJobs
<1>1. GoodSlots(slot')
  <2>1. GoodSlots(slot) /\ writes[k] \in Nat
    BY ZenonT(30), GoodSlotsOfGood DEF Typed
  <2> QED BY <2>1, PutSlots DEF PutEvicting
<1>2. Stored(k, expired)[k].version \in Nat
  BY ZenonT(30), GoodSlotsOfGood, PutSlots DEF Typed
<1>3. writes[k] + 1 \in Nat
  BY DEF Typed
<1>4. FlushJob(k, Stored(k, expired)[k].version, writes[k] + 1, "put") \in Job
  BY Zenon, <1>2, <1>3, FlushJobType
<1>5. hand' \in [Clients -> SUBSET Job]
  BY Zenon, <1>4 DEF PutEvicting, Typed
<1>6. /\ writes' \in [Keys -> Nat]
      /\ cpc' \in [Clients -> {"idle", "clear", "enqueue", "release"}]
  BY Zenon, <1>3 DEF PutEvicting, Typed
<1>7. UNCHANGED <<queue, nextShard, wpc, wjob, source, faults, reported>>
  BY Zenon DEF PutEvicting
<1> QED BY Zenon, <1>1, <1>5, <1>6, <1>7 DEF Typed, GoodSlots, MetadataBounded

\* A step of client c in a call, without the bound on the writes.
ClientCall(c) ==
    \/ \E k \in Keys : PutCall(c, k) \/ Delete(c, k)
    \/ StartClear(c)
    \/ ClientProgress(c)

LEMMA ClientStepIsCall ==
    ASSUME NEW c, ClientStep(c)
    PROVE  ClientCall(c)
BY Zenon DEF ClientStep, ClientCall, Put

\* Every client step preserves the invariant.
LEMMA ClientStepGood ==
    ASSUME NEW J, Job \subseteq J, NEW P, Good(J, P), NEW c \in Clients,
           ClientCall(c)
    PROVE  Good(J, P)'
<1> USE DEF Good, FlushersHoldJobs
<1>1. ASSUME NEW k \in Keys, PutCall(c, k)
      PROVE  Good(J, P)'
  <2>1. Cached(slot[k]) \in BOOLEAN
    BY DEF Cached
  <2>2. PICK expired \in BOOLEAN, E \in SUBSET Keys :
             PutEvicting(c, k, expired, E)
    <3>1. PICK expired \in {FALSE, Cached(slot[k])} :
              \E E \in EvictChoices(Stored(k, expired), k) :
                  PutEvicting(c, k, expired, E)
      BY <1>1, Zenon DEF PutCall
    <3>2. EvictChoices(Stored(k, expired), k) \subseteq SUBSET Keys
      BY Zenon DEF EvictChoices, Live
    <3>3. expired \in BOOLEAN
      BY Zenon, <2>1, <3>1
    <3> QED BY <3>1, <3>2, <3>3, Zenon
  <2> QED BY Zenon, <2>2, PutEvictingGood
<1>2. ASSUME NEW k \in Keys, Delete(c, k)
      PROVE  Good(J, P)'
  <2>0. slot[k] \in Slot /\ writes[k] \in Nat
    BY Zenon DEF Typed
  <2>1. slot[k] \in Slot /\ slot[k].mark + 1 \in Nat /\ writes[k] + 1 \in Nat
    BY <2>0 DEF Slot
  <2>2. GoodSlots(slot')
    BY ZenonT(30), <1>2, <2>1, GoodSlotsOfGood, DeleteEntryCoherent, GoodSlotsExcept
    DEF Delete
  <2>3. FlushJob(k, slot[k].mark + 1, writes[k] + 1, "delete") \in Job
    BY Zenon, <2>1, FlushJobType
  <2>4. hand' \in [Clients -> SUBSET Job]
    BY Zenon, <1>2, <2>3 DEF Delete, Typed
  <2> QED BY <1>2, <2>2, <2>4
          DEF Delete, Typed, GoodSlots, MetadataBounded
<1>3. CASE StartClear(c)
  BY <1>3, ConstantsAssumption DEF StartClear, Typed, MetadataBounded
<1>4. CASE ClearShard(c)
  <2> DEFINE live == Live(slot, nextShard[c])
             jobs == {FlushJob(k, slot[k].mark + 1, writes[k] + 1, "delete") :
                          k \in live}
  <2>1. live \subseteq Keys
    BY Zenon DEF Live
  <2>0. \A k \in Keys : slot[k] \in Slot /\ Coherent(slot[k]) /\ writes[k] \in Nat
    BY Zenon DEF Typed, MetadataBounded
  <2>2. \A k \in Keys : /\ slot[k] \in Slot /\ Coherent(slot[k])
                        /\ slot[k].mark + 1 \in Nat /\ writes[k] + 1 \in Nat
    BY <2>0 DEF Slot
  <2>3. \A k \in Keys : DeleteEntry(slot[k]) \in Slot /\ Coherent(DeleteEntry(slot[k]))
    BY Zenon, <2>2, DeleteEntryCoherent
  <2>4. GoodSlots(slot')
    BY Zenon, <1>4, <2>2, <2>3 DEF ClearShard, GoodSlots
  <2>5. jobs \subseteq Job
    BY Zenon, <2>1, <2>2, FlushJobType
  <2>6. hand' \in [Clients -> SUBSET Job]
    BY Zenon, <1>4, <2>5 DEF ClearShard, Typed
  <2>7. nextShard' \in [Clients -> 1 .. ShardCount]
    BY <1>4, ConstantsAssumption DEF ClearShard, Typed
  <2>8. cpc' \in [Clients -> {"idle", "clear", "enqueue", "release"}]
    BY Zenon, <1>4 DEF ClearShard, Typed
  <2>9. writes' \in [Keys -> Nat]
    BY <1>4 DEF ClearShard, Typed
  <2> QED BY Zenon, <1>4, <2>4, <2>6, <2>7, <2>8, <2>9
          DEF ClearShard, Typed, GoodSlots, MetadataBounded
<1>5. CASE Enqueue(c)
  <2>1. PICK j \in hand[c] :
             /\ queue' = Append(queue, j)
             /\ hand' = [hand EXCEPT ![c] = @ \ {j}]
    BY Zenon, <1>5 DEF Enqueue, NextJobs
  <2> QED BY <1>5, <2>1 DEF Enqueue, AfterLastJob, Typed, MetadataBounded
<1>6. CASE EnqueueTimeout(c)
  <2>1. hand[c] \in SUBSET Job
    BY Zenon DEF Typed
  <2>2. reported' \in [Keys -> SUBSET Nat]
    BY Zenon, <1>6, <2>1, ReportType DEF EnqueueTimeout, Typed
  <2> QED BY Zenon, <1>6, <2>2 DEF EnqueueTimeout, Typed, MetadataBounded
<1>7. CASE Release(c)
  <2>1. PICK j \in hand[c] :
             /\ slot' = [slot EXCEPT ![j.key] = ResolvePending(@)]
             /\ hand' = [hand EXCEPT ![c] = @ \ {j}]
    BY ZenonT(30), <1>7 DEF Release, NextJobs
  <2>2. GoodSlots(slot')
    BY ZenonT(30), <2>1, GoodSlotsOfGood, ResolveSlots DEF Typed
  <2> QED BY Zenon, <1>7, <2>1, <2>2
          DEF Release, AfterLastJob, Typed, GoodSlots, MetadataBounded
<1> QED BY Zenon, <1>1, <1>2, <1>3, <1>4, <1>5, <1>6, <1>7
        DEF ClientCall, ClientProgress

\* Every worker step preserves the invariant.
LEMMA WorkerStepGood ==
    ASSUME NEW J, Job \subseteq J, NEW P, Phases \subseteq P, Good(J, P),
           NEW w \in Workers, WorkerStep(w),
           Take(w) => Head(queue) \in Job
    PROVE  Good(J, P)'
<1> USE DEF Good, FlushersHoldJobs, Goto, Finish, Phases, FlushPhases
<1>1. CASE Take(w)
  <2>1. Head(queue) \in Job /\ Tail(queue) \in Seq(J)
    BY <1>1 DEF Take, Typed
  <2> QED BY Zenon, <1>1, <2>1 DEF Take, Typed, MetadataBounded
<1>2. CASE Skip(w)
  <2>1. wjob[w] \in Job
    BY Zenon, <1>2 DEF Skip
  <2>2. GoodSlots(slot')
    BY ZenonT(30), <1>2, <2>1, GoodSlotsOfGood, ResolveSlots DEF Skip
  <2> QED BY Zenon, <1>2, <2>2 DEF Skip, Typed, GoodSlots, MetadataBounded
<1>3. CASE Pass(w)
  BY Zenon, <1>3 DEF Pass, Typed, MetadataBounded
<1>4. CASE Apply(w)
  <2>1. wjob[w] \in Job
    BY Zenon, <1>4 DEF Apply
  <2>2. source' \in [Keys -> Nat]
    BY Zenon, <1>4, <2>1 DEF Apply, Typed, Job
  <2> QED BY Zenon, <1>4, <2>2 DEF Apply, Typed, MetadataBounded
<1>5. CASE ApplyFails(w)
  <2>1. wjob[w] \in Job
    BY Zenon, <1>5 DEF ApplyFails
  <2>2. reported' \in [Keys -> SUBSET Nat]
    BY Zenon, <1>5, <2>1, ReportType DEF ApplyFails, Typed
  <2>3. faults' \in Nat
    BY <1>5 DEF ApplyFails, Typed
  <2>4. FlushersHoldJobs'
    BY Zenon, <1>5, <2>1 DEF ApplyFails, Typed
  <2> QED BY ZenonT(30), <1>5, <2>2, <2>3, <2>4 DEF ApplyFails, Typed, MetadataBounded
<1>6. CASE Settle(w)
  <2>1. wjob[w] \in Job
    BY Zenon, <1>6 DEF Settle
  <2>2. GoodSlots(slot')
    BY ZenonT(30), <1>6, <2>1, GoodSlotsOfGood, ResolveSlots DEF Settle
  <2> QED BY Zenon, <1>6, <2>2 DEF Settle, Typed, GoodSlots, MetadataBounded
<1>7. CASE Retry(w)
  <2>1. wjob[w] \in Job /\ wjob[w].retries > 0
    BY Zenon, <1>7 DEF Retry
  <2>2. [wjob[w] EXCEPT !.retries = @ - 1] \in Job
    BY <2>1 DEF Job
  <2>3. queue' \in Seq(J)
    BY <1>7, <2>2 DEF Retry, Typed
  <2> QED BY Zenon, <1>7, <2>3 DEF Retry, Typed, MetadataBounded
<1>8. CASE RetryTimeout(w)
  <2>1. wjob[w] \in Job
    BY Zenon, <1>8 DEF RetryTimeout
  <2>2. reported' \in [Keys -> SUBSET Nat]
    BY Zenon, <1>8, <2>1, ReportType DEF RetryTimeout, Typed
  <2> QED BY Zenon, <1>8, <2>2 DEF RetryTimeout, Typed, MetadataBounded
<1>9. CASE GiveUp(w)
  <2>1. wjob[w] \in Job
    BY Zenon, <1>9 DEF GiveUp
  <2>2. GoodSlots(slot')
    BY Zenon, <1>9, <2>1, GoodSlotsOfGood, ResolveSlots DEF GiveUp
  <2> QED BY Zenon, <1>9, <2>2 DEF GiveUp, Typed, GoodSlots, MetadataBounded
<1> QED BY Zenon, <1>1, <1>2, <1>3, <1>4, <1>5, <1>6, <1>7, <1>8, <1>9
        DEF WorkerStep

\* The removal of an expired entry preserves the invariant.
LEMMA ExpireGood ==
    ASSUME NEW J, NEW P, Good(J, P), NEW k \in Keys, Expire(k)
    PROVE  Good(J, P)'
<1>1. GoodSlots(slot) /\ slot[k] \in Slot /\ Coherent(slot[k])
  BY Zenon, GoodSlotsOfGood DEF GoodSlots
<1>2. RemoveEntry(slot[k]) \in Slot /\ Coherent(RemoveEntry(slot[k]))
  BY Zenon, <1>1, RemoveEntryCoherent DEF Coherent
<1>3. GoodSlots(slot')
  BY ZenonT(30), <1>1, <1>2, GoodSlotsExcept DEF Expire
<1> QED BY Zenon, <1>3 DEF Good, FlushersHoldJobs, Expire, Typed, GoodSlots, MetadataBounded

\* So the steps of WriteBack preserve its invariant.
LEMMA ClientStepInv ==
    ASSUME Inv, NEW c \in Clients, ClientStep(c)
    PROVE  Inv'
<1>1. Good(Job, Phases)
  BY Zenon, InvIsGood
<1>2. Good(Job, Phases)'
  BY Zenon, <1>1, ClientStepIsCall, ClientStepGood
<1> QED BY <1>2, InvIsGood, PTL

LEMMA WorkerStepInv ==
    ASSUME Inv, NEW w \in Workers, WorkerStep(w)
    PROVE  Inv'
<1>1. Good(Job, Phases)
  BY Zenon, InvIsGood
<1>2. Take(w) => Head(queue) \in Job
  BY DEF Inv, TypeOK, Take
<1>3. Good(Job, Phases)'
  BY Zenon, <1>1, <1>2, WorkerStepGood
<1> QED BY <1>3, InvIsGood, PTL

LEMMA ExpireInv ==
    ASSUME Inv, NEW k \in Keys, Expire(k)
    PROVE  Inv'
<1>1. Good(Job, Phases)
  BY Zenon, InvIsGood
<1>2. Good(Job, Phases)'
  BY Zenon, <1>1, ExpireGood
<1> QED BY <1>2, InvIsGood, PTL

\* Inv holds in every reachable state, for every value of the constants.
THEOREM Invariance == Spec => []Inv
<1>1. Init => Inv
  <2> SUFFICES ASSUME Init PROVE Inv
    BY Zenon
  <2>1. EmptySlot \in Slot /\ Coherent(EmptySlot)
    BY DEF EmptySlot, Slot, Coherent, Cached
  <2> QED BY <2>1, ConstantsAssumption
          DEF Init, Inv, TypeOK, BusyHoldsJob, MetadataBounded
<1>2. Inv /\ [Next]_vars => Inv'
  <2> SUFFICES ASSUME Inv, [Next]_vars PROVE Inv'
    BY Zenon
  <2>1. CASE UNCHANGED vars
    BY Zenon, <2>1 DEF vars, Inv, TypeOK, BusyHoldsJob, MetadataBounded
  <2>2. CASE Next
    BY Zenon, <2>1, <2>2, ClientStepInv, WorkerStepInv, ExpireInv DEF Next
  <2> QED BY Zenon, <2>1, <2>2
<1> QED BY <1>1, <1>2, PTL DEF Spec

\* Every variable keeps its type.
THEOREM TypeCorrect == Spec => []TypeOK
<1>1. Inv => TypeOK
  BY Zenon DEF Inv
<1> QED BY <1>1, Invariance, PTL

\* The version marks and tombstones of _maybe_prune_marks_locked stay bounded
\* by the live keys and the keys with a pending flush, and agree with the
\* entries, in any interleaving of any number of clients and workers.
THEOREM MetadataStaysBounded == Spec => []MetadataBounded
<1>1. Inv => MetadataBounded
  BY Zenon DEF Inv
<1> QED BY <1>1, Invariance, PTL

-----------------------------------------------------------------------------
(* Capacity.                                                               *)

LEMMA LiveFinite ==
    ASSUME NEW sl, NEW i
    PROVE  IsFiniteSet(Live(sl, i)) /\ Cardinality(Live(sl, i)) \in Nat
BY Zenon, KeysFinite, FS_Subset, FS_CardinalityType DEF Live

LEMMA ShardCapacityType ==
    ASSUME NEW i \in 1 .. ShardCount
    PROVE  ShardCapacity(i) \in Nat
BY ConstantsAssumption DEF ShardCapacity

\* The evictions of put() bring the shard down to its capacity.
LEMMA EvictionsSuffice ==
    ASSUME NEW sl, NEW k \in Keys, NEW E \in EvictChoices(sl, k)
    PROVE  Cardinality(Live(sl, ShardOf[k]) \ E) <= ShardCapacity(ShardOf[k])
<1> DEFINE i == ShardOf[k]
           live == Live(sl, i)
           excess == Cardinality(live) - ShardCapacity(i)
<1>1. i \in 1 .. ShardCount
  BY Zenon, ConstantsAssumption
<1>2. ShardCapacity(i) \in Nat
  BY Zenon, <1>1, ShardCapacityType
<1>3. IsFiniteSet(live) /\ Cardinality(live) \in Nat
  BY Zenon, LiveFinite
<1>4. /\ E \subseteq live
      /\ Cardinality(E) = (IF excess > 0 THEN excess ELSE 0)
  BY Zenon DEF EvictChoices
<1> HIDE DEF i, live
<1>5. live \cap E = E
  BY Zenon, <1>4
<1>6. Cardinality(live \ E) = Cardinality(live) - Cardinality(E)
  BY ZenonT(30), <1>3, <1>5, FS_Difference
<1>7. Cardinality(live \ E) <= ShardCapacity(i)
  BY <1>2, <1>3, <1>4, <1>6
<1> QED BY Zenon, <1>7 DEF i, live

\* A step that makes no key live keeps the capacity.
LEMMA NothingAdded ==
    ASSUME CapacityHeld, \A x \in Keys : Cached(slot'[x]) => Cached(slot[x])
    PROVE  CapacityHeld'
<1> SUFFICES ASSUME NEW i \in 1 .. ShardCount
             PROVE  Cardinality(Live(slot', i)) <= ShardCapacity(i)
  BY Zenon DEF CapacityHeld, Live, ShardCapacity
<1>1. Live(slot', i) \subseteq Live(slot, i)
  BY Zenon DEF Live
<1>2. Cardinality(Live(slot', i)) <= Cardinality(Live(slot, i))
  BY Zenon, <1>1, LiveFinite, FS_Subset
<1>3. Cardinality(Live(slot', i)) \in Nat /\ Cardinality(Live(slot, i)) \in Nat
  BY Zenon, LiveFinite
<1> QED BY <1>2, <1>3, ShardCapacityType DEF CapacityHeld

LEMMA PutCapacity ==
    ASSUME Inv, CapacityHeld, NEW c \in Clients, NEW k \in Keys, Put(c, k)
    PROVE  CapacityHeld'
<1>1. PICK expired \in {FALSE, Cached(slot[k])} :
          \E E \in EvictChoices(Stored(k, expired), k) : PutEvicting(c, k, expired, E)
  BY Zenon DEF Put, PutCall
<1> DEFINE old == IF expired THEN RemoveEntry(slot[k]) ELSE slot[k]
           stored == Stored(k, expired)
<1>2. PICK E \in EvictChoices(stored, k) : PutEvicting(c, k, expired, E)
  BY Zenon, <1>1
<1>3. slot \in [Keys -> Slot] /\ \A x \in Keys : slot[x] \in Slot /\ Coherent(slot[x])
  BY Zenon DEF Inv, TypeOK, MetadataBounded
<1>4. /\ stored \in [Keys -> Slot]
      /\ \A x \in Keys \ {k} : stored[x] = slot[x]
      /\ \A x \in Keys : stored[x] \in Slot /\ Coherent(stored[x])
  <2>1. old \in Slot
    <3>1. RemoveEntry(slot[k]) \in Slot
      BY Zenon, <1>3, RemoveEntryCoherent DEF Coherent
    <3> QED BY Zenon, <1>3, <3>1
  <2>2. writes[k] + 1 \in Nat
    BY DEF Inv, TypeOK
  <2> HIDE DEF old
  <2>3. /\ StoreEntry(old, writes[k] + 1) \in Slot
        /\ Coherent(StoreEntry(old, writes[k] + 1))
    BY Zenon, <2>1, <2>2, StoreEntryCoherent
  <2>4. stored = [slot EXCEPT ![k] = StoreEntry(old, writes[k] + 1)]
    BY Zenon DEF Stored, old
  <2> HIDE DEF stored
  <2> QED BY Zenon, <1>3, <2>3, <2>4
<1> DEFINE left == [x \in Keys |-> IF x \in E THEN RemoveEntry(stored[x])
                                              ELSE stored[x]]
<1>5. slot' = [left EXCEPT ![k] = RegisterPending(left[k])]
  BY Zenon, <1>2 DEF PutEvicting
<1> HIDE DEF stored
<1>6. \A x \in Keys : left[x] = IF x \in E THEN RemoveEntry(stored[x]) ELSE stored[x]
  BY Zenon
<1>7. \A x \in Keys : left[x] \in Slot
  BY Zenon, <1>4, <1>6, RemoveEntryCoherent DEF Coherent
<1>8. DOMAIN left = Keys
  BY Zenon
<1> HIDE DEF left
<1>9. \A x \in Keys : Cached(slot'[x]) => x \notin E /\ Cached(stored[x])
  <2>1. \A x \in Keys : slot'[x] = IF x = k THEN RegisterPending(left[x]) ELSE left[x]
    BY Zenon, <1>5, <1>8
  <2>2. \A x \in Keys : Cached(slot'[x]) => Cached(left[x])
    BY <1>7, <2>1, SlotEntries DEF SameEntry, Cached
  <2> QED BY Zenon, <1>4, <1>6, <2>2, SlotEntries
<1> SUFFICES ASSUME NEW i \in 1 .. ShardCount
             PROVE  Cardinality(Live(slot', i)) <= ShardCapacity(i)
  BY Zenon DEF CapacityHeld, Live, ShardCapacity
<1>10. /\ Cardinality(Live(slot', i)) \in Nat /\ ShardCapacity(i) \in Nat
       /\ IsFiniteSet(Live(slot, i)) /\ Cardinality(Live(slot, i)) \in Nat
       /\ IsFiniteSet(Live(stored, i))
  BY Zenon, LiveFinite, ShardCapacityType
<1>11. CASE i = ShardOf[k]
  <2>1. Live(slot', i) \subseteq Live(stored, i) \ E
    BY Zenon, <1>9 DEF Live
  <2>2. IsFiniteSet(Live(stored, i) \ E)
    BY Zenon, <1>10, FS_Subset
  <2>3. /\ Cardinality(Live(slot', i)) <= Cardinality(Live(stored, i) \ E)
        /\ Cardinality(Live(stored, i) \ E) \in Nat
    BY Zenon, <2>1, <2>2, FS_Subset, FS_CardinalityType
  <2>4. Cardinality(Live(stored, i) \ E) <= ShardCapacity(i)
    BY Zenon, <1>2, <1>11, EvictionsSuffice
  <2> QED BY <1>10, <2>3, <2>4
<1>12. CASE i # ShardOf[k]
  <2>1. Live(slot', i) \subseteq Live(slot, i)
    BY Zenon, <1>4, <1>9, <1>12 DEF Live
  <2>2. Cardinality(Live(slot', i)) <= Cardinality(Live(slot, i))
    BY Zenon, <1>10, <2>1, FS_Subset
  <2>3. Cardinality(Live(slot, i)) <= ShardCapacity(i)
    BY Zenon DEF CapacityHeld
  <2> QED BY <1>10, <2>2, <2>3
<1> QED BY Zenon, <1>11, <1>12

\* Only put() makes a key live.
LEMMA OthersAddNothing ==
    ASSUME Inv, Next, ~\E c \in Clients, k \in Keys : Put(c, k), NEW x \in Keys
    PROVE  Cached(slot'[x]) => Cached(slot[x])
<1>1. /\ slot \in [Keys -> Slot] /\ slot[x] \in Slot /\ Coherent(slot[x])
      /\ \A y \in Keys : slot[y] \in Slot
  BY Zenon DEF Inv, TypeOK, MetadataBounded
<1>2. CASE UNCHANGED slot
  BY Zenon, <1>2
<1>3. ASSUME NEW c \in Clients, NEW k \in Keys, Delete(c, k)
      PROVE  Cached(slot'[x]) => Cached(slot[x])
  <2>1. slot'[x] = IF x = k THEN DeleteEntry(slot[x]) ELSE slot[x]
    BY Zenon, <1>1, <1>3 DEF Delete
  <2> QED BY Zenon, <1>1, <2>1, SlotEntries
<1>4. ASSUME NEW c \in Clients, ClearShard(c)
      PROVE  Cached(slot'[x]) => Cached(slot[x])
  <2>1. slot'[x] = DeleteEntry(slot[x]) \/ slot'[x] = slot[x]
    BY Zenon, <1>4 DEF ClearShard
  <2> QED BY Zenon, <1>1, <2>1, SlotEntries
<1>5. ASSUME NEW k \in Keys, Expire(k)
      PROVE  Cached(slot'[x]) => Cached(slot[x])
  <2>1. slot'[x] = IF x = k THEN RemoveEntry(slot[x]) ELSE slot[x]
    BY Zenon, <1>1, <1>5 DEF Expire
  <2> QED BY Zenon, <1>1, <2>1, SlotEntries
<1>6. ASSUME NEW k, slot' = [slot EXCEPT ![k] = ResolvePending(slot[k])]
      PROVE  Cached(slot'[x]) => Cached(slot[x])
  <2>1. slot'[x] = IF x = k THEN ResolvePending(slot[x]) ELSE slot[x]
    BY Zenon, <1>1, <1>6
  <2> QED BY Zenon, <1>1, <2>1, SlotEntries DEF SameEntry, Cached
<1>7. ASSUME NEW c \in Clients, Release(c)
      PROVE  Cached(slot'[x]) => Cached(slot[x])
  <2>1. PICK j \in hand[c] : slot' = [slot EXCEPT ![j.key] = ResolvePending(slot[j.key])]
    BY ZenonT(30), <1>7 DEF Release, NextJobs
  <2> QED BY Zenon, <1>6, <2>1
<1>8. ASSUME NEW w \in Workers, Skip(w) \/ GiveUp(w)
      PROVE  Cached(slot'[x]) => Cached(slot[x])
  BY Zenon, <1>6, <1>8 DEF Skip, GiveUp
<1>9. ASSUME NEW w \in Workers, Settle(w)
      PROVE  Cached(slot'[x]) => Cached(slot[x])
  <2> DEFINE t == MarkClean(slot[x], wjob[w])
  <2>1. slot'[x] = ResolvePending(t) \/ slot'[x] = slot[x]
    BY Zenon, <1>1, <1>9 DEF Settle
  <2>2. t \in Slot /\ t.version = slot[x].version
    BY Zenon, <1>1, MarkCleanCoherent DEF MarkClean, Slot
  <2> HIDE DEF t
  <2> QED BY SMTT(30), <2>1, <2>2, SlotEntries DEF SameEntry, Cached
<1>10. ASSUME NEW c \in Clients, StartClear(c) \/ Enqueue(c) \/ EnqueueTimeout(c)
       PROVE  UNCHANGED slot
  BY Zenon, <1>10 DEF StartClear, Enqueue, EnqueueTimeout
<1>11. ASSUME NEW w \in Workers,
              Take(w) \/ Pass(w) \/ Apply(w) \/ ApplyFails(w) \/ Retry(w) \/ RetryTimeout(w)
       PROVE  UNCHANGED slot
  BY Zenon, <1>11 DEF Take, Pass, Apply, ApplyFails, Retry, RetryTimeout
<1>12. ASSUME NEW c \in Clients, ClientStep(c)
       PROVE  Cached(slot'[x]) => Cached(slot[x])
  BY Zenon, <1>2, <1>3, <1>4, <1>7, <1>10, <1>12 DEF ClientStep, ClientProgress
<1>13. ASSUME NEW w \in Workers, WorkerStep(w)
       PROVE  Cached(slot'[x]) => Cached(slot[x])
  BY Zenon, <1>2, <1>8, <1>9, <1>11, <1>13 DEF WorkerStep
<1>14. UNCHANGED vars => UNCHANGED slot
  BY Zenon DEF vars
<1> QED BY Zenon, <1>2, <1>5, <1>12, <1>13, <1>14 DEF Next

LEMMA CapacityInit == Init => CapacityHeld
<1> SUFFICES ASSUME Init, NEW i \in 1 .. ShardCount
             PROVE  Cardinality(Live(slot, i)) <= ShardCapacity(i)
  BY Zenon DEF CapacityHeld
<1>1. Live(slot, i) = {}
  BY DEF Init, EmptySlot, Live, Cached
<1> QED BY <1>1, FS_EmptySet, ShardCapacityType

LEMMA CapacityStep == Inv /\ CapacityHeld /\ [Next]_vars => CapacityHeld'
<1> SUFFICES ASSUME Inv, CapacityHeld, [Next]_vars
             PROVE  CapacityHeld'
  BY Zenon
<1>1. CASE UNCHANGED vars
  BY Zenon, <1>1, NothingAdded DEF vars
<1>2. CASE \E c \in Clients, k \in Keys : Put(c, k)
  BY Zenon, <1>2, PutCapacity
<1>3. CASE Next /\ ~\E c \in Clients, k \in Keys : Put(c, k)
  BY Zenon, <1>3, OthersAddNothing, NothingAdded
<1> QED BY Zenon, <1>1, <1>2, <1>3

\* No shard ever holds more entries than its capacity between two lock
\* sections, whatever the policy chooses to evict.
THEOREM CapacityStaysHeld == Spec => []CapacityHeld
BY CapacityInit, CapacityStep, Invariance, PTL DEF Spec


-----------------------------------------------------------------------------
(* Pending flushes.                                                        *)

\* The places where a flush job of key k can be.
QueuedFor(q, k) == {i \in DOMAIN q : q[i] \in Job /\ q[i].key = k}
HeldFor(h, k) == {c \in Clients : \E j \in h[c] : j.key = k}
HandledFor(pc, job, k) == {w \in Workers : pc[w] \in FlushPhases /\ job[w].key = k}

Count(q, h, pc, job, k) ==
    Cardinality(QueuedFor(q, k)) + Cardinality(HeldFor(h, k))
        + Cardinality(HandledFor(pc, job, k))

\* The jobs of k in a set that has at most one of them, those of k in the hands
\* of a worker, and a queue place with job j in it, as numbers.
Has(S, k) == IF \E j \in S : j.key = k THEN 1 ELSE 0
Handling(pc, j, k) == IF pc \in FlushPhases /\ j.key = k THEN 1 ELSE 0
Fills(j, k) == IF j \in Job /\ j.key = k THEN 1 ELSE 0

LEMMA CountedOnce ==
    /\ \A S, k : Has(S, k) \in {0, 1}
    /\ \A p, j, k : Handling(p, j, k) \in {0, 1}
    /\ \A j, k : Fills(j, k) \in {0, 1}
BY Zenon DEF Has, Handling, Fills

\* A client holds at most one job of a key; between calls it holds none, and
\* in a clear() only jobs of shards it has finished.
HandsInOrder ==
    \A c \in Clients :
        /\ \A i, j \in hand[c] : i.key = j.key => i = j
        /\ cpc[c] = "idle" => hand[c] = {}
        /\ cpc[c] = "clear" => \A j \in hand[c] : ShardOf[j.key] < nextShard[c]

CountInv == Inv /\ HandsInOrder /\ PendingExact

\* The same when a set X of jobs is held outside of the clients, the queue and
\* the workers, at most one job of each key.
PendingCounted(X) ==
    \A k \in Keys :
        slot[k].pending = Count(queue, hand, wpc, wjob, k) + Has(X, k)

Counted(J, P, X) == Good(J, P) /\ HandsInOrder /\ PendingCounted(X)

LEMMA CountTypes ==
    ASSUME NEW J, NEW q \in Seq(J), NEW h, NEW pc, NEW job, NEW k
    PROVE  /\ IsFiniteSet(QueuedFor(q, k)) /\ Cardinality(QueuedFor(q, k)) \in Nat
           /\ IsFiniteSet(HeldFor(h, k)) /\ Cardinality(HeldFor(h, k)) \in Nat
           /\ IsFiniteSet(HandledFor(pc, job, k))
           /\ Cardinality(HandledFor(pc, job, k)) \in Nat
<1>1. IsFiniteSet(1 .. Len(q))
  BY SMTT(30), FS_Interval
<1>2. /\ QueuedFor(q, k) \in SUBSET (1 .. Len(q))
      /\ HeldFor(h, k) \in SUBSET Clients
      /\ HandledFor(pc, job, k) \in SUBSET Workers
  BY DEF QueuedFor, HeldFor, HandledFor
<1>3. /\ IsFiniteSet(QueuedFor(q, k)) /\ IsFiniteSet(HeldFor(h, k))
      /\ IsFiniteSet(HandledFor(pc, job, k))
  BY Zenon, <1>1, <1>2, ThreadsFinite, FS_Subset
<1> QED BY Zenon, <1>3, FS_CardinalityType

LEMMA CountInvIsCounted == CountInv <=> Counted(Job, Phases, {})
<1>1. ASSUME Inv
      PROVE  PendingExact <=> PendingCounted({})
  <2>1. ASSUME NEW k
        PROVE  /\ {i \in DOMAIN queue : queue[i].key = k} = QueuedFor(queue, k)
               /\ {w \in Workers : wpc[w] # "idle" /\ wjob[w].key = k}
                      = HandledFor(wpc, wjob, k)
    BY <1>1 DEF Inv, TypeOK, QueuedFor, HandledFor, FlushPhases, Phases
  <2>2. PendingExact <=>
            \A k \in Keys : slot[k].pending = Count(queue, hand, wpc, wjob, k)
    BY Zenon, <2>1 DEF PendingExact, Count, HeldFor
  <2>3. \A k : Count(queue, hand, wpc, wjob, k) + Has({}, k)
                  = Count(queue, hand, wpc, wjob, k)
    <3>1. queue \in Seq(Job)
      BY Zenon, <1>1 DEF Inv, TypeOK
    <3> QED BY <3>1, CountTypes DEF Count, Has
  <2> QED BY Zenon, <2>2, <2>3 DEF PendingCounted
<1> QED BY <1>1, InvIsGood, Zenon DEF CountInv, Counted

\* A set gains or loses an element.
LEMMA CountOne ==
    ASSUME NEW S, IsFiniteSet(S), Cardinality(S) \in Nat, NEW T, NEW e,
           T \ {e} = S \ {e}
    PROVE  Cardinality(T) = Cardinality(S) + (IF e \in T THEN 1 ELSE 0)
                                           - (IF e \in S THEN 1 ELSE 0)
<1>1. Cardinality(S \cup {e}) = IF e \in S THEN Cardinality(S)
                                ELSE Cardinality(S) + 1
  BY Zenon, FS_AddElement
<1>2. Cardinality(S \ {e}) = IF e \in S THEN Cardinality(S) - 1
                             ELSE Cardinality(S)
  BY Zenon, FS_RemoveElement
<1>3. /\ e \in T => T = S \cup {e}
      /\ e \notin T => T = S \ {e}
  BY Zenon
<1>4. Cardinality(T) = IF e \in T THEN Cardinality(S \cup {e})
                                  ELSE Cardinality(S \ {e})
  BY <1>3, Zenon
<1> QED BY <1>1, <1>2, <1>4

\* A job joins the queue.
LEMMA CountAppend ==
    ASSUME NEW J, NEW q \in Seq(J), NEW j \in J, NEW k
    PROVE  Cardinality(QueuedFor(Append(q, j), k)) =
               Cardinality(QueuedFor(q, k)) + Fills(j, k)
<1> DEFINE S == QueuedFor(q, k)
           T == QueuedFor(Append(q, j), k)
           e == Len(q) + 1
<1>1. /\ DOMAIN Append(q, j) = 1 .. Len(q) + 1 /\ DOMAIN q = 1 .. Len(q)
      /\ Len(q) \in Nat
      /\ \A i \in 1 .. Len(q) : Append(q, j)[i] = q[i]
      /\ Append(q, j)[Len(q) + 1] = j
  OBVIOUS
<1>2. /\ e \notin S /\ T \ {e} = S \ {e}
      /\ e \in T <=> j \in Job /\ j.key = k
  BY <1>1 DEF QueuedFor
<1>3. IsFiniteSet(S) /\ Cardinality(S) \in Nat
  BY Zenon, CountTypes
<1> HIDE DEF S, T, e
<1>4. Cardinality(T) = Cardinality(S) + (IF e \in T THEN 1 ELSE 0)
                                      - (IF e \in S THEN 1 ELSE 0)
  BY Zenon, <1>2, <1>3, CountOne
<1>5. Cardinality(T) = Cardinality(S) + Fills(j, k)
  BY <1>2, <1>3, <1>4 DEF Fills
<1> QED BY Zenon, <1>5 DEF S, T

\* The first job leaves the queue.
LEMMA CountTail ==
    ASSUME NEW J, NEW q \in Seq(J), q # <<>>, NEW k
    PROVE  Cardinality(QueuedFor(Tail(q), k)) =
               Cardinality(QueuedFor(q, k)) - Fills(Head(q), k)
<1> DEFINE S == QueuedFor(Tail(q), k)
           U == QueuedFor(q, k)
           T == U \ {1}
           f == [i \in S |-> i + 1]
<1>1. /\ Tail(q) \in Seq(J) /\ Len(q) \in Nat \ {0}
      /\ DOMAIN Tail(q) = 1 .. Len(q) - 1 /\ DOMAIN q = 1 .. Len(q)
      /\ \A i \in 1 .. Len(q) - 1 : Tail(q)[i] = q[i + 1]
      /\ Head(q) = q[1]
  OBVIOUS
<1>2. S \subseteq Nat /\ U \subseteq Nat
  BY <1>1 DEF QueuedFor
<1>3. \A i \in S : i + 1 \in T
  BY <1>1 DEF QueuedFor
<1>4. \A i \in T : i - 1 \in S /\ i = (i - 1) + 1
  BY <1>1 DEF QueuedFor
<1>5. 1 \in U <=> Head(q) \in Job /\ Head(q).key = k
  BY <1>1 DEF QueuedFor
<1>6. IsFiniteSet(S) /\ IsFiniteSet(U) /\ Cardinality(U) \in Nat
  BY ZenonT(30), <1>1, CountTypes
<1> HIDE DEF S, U
<1>7. f \in [S -> T]
  BY Zenon, <1>3
<1>8. \A a, b \in S : f[a] = f[b] => a = b
  BY <1>2
<1>9. \A t \in T : \E s \in S : f[s] = t
  BY Zenon, <1>4
<1> HIDE DEF T, f
<1>10. ExistsBijection(S, T)
  BY <1>7, <1>8, <1>9, Zenon
  DEF ExistsBijection, Bijection, Injection, Surjection, IsInjective
<1>11. Cardinality(T) = Cardinality(S)
  BY Zenon, <1>6, <1>10, FS_Bijection
<1>12. Cardinality(U \ {1}) = IF 1 \in U THEN Cardinality(U) - 1 ELSE Cardinality(U)
  BY Zenon, <1>6, FS_RemoveElement
<1>13. Cardinality(S) = Cardinality(U) - Fills(Head(q), k)
  BY <1>5, <1>6, <1>11, <1>12 DEF T, Fills
<1> QED BY Zenon, <1>13 DEF S, U

\* Only the jobs client c holds change.
LEMMA CountHand ==
    ASSUME NEW c \in Clients, NEW k,
           \A d \in Clients \ {c} : hand'[d] = hand[d]
    PROVE  Cardinality(HeldFor(hand', k)) =
               Cardinality(HeldFor(hand, k)) + Has(hand'[c], k) - Has(hand[c], k)
<1> DEFINE S == HeldFor(hand, k)
           T == HeldFor(hand', k)
<1>1. IsFiniteSet(S) /\ Cardinality(S) \in Nat
  <2>1. <<>> \in Seq({})
    OBVIOUS
  <2> QED BY Zenon, <2>1, CountTypes
<1>2. /\ c \in S <=> \E j \in hand[c] : j.key = k
      /\ c \in T <=> \E j \in hand'[c] : j.key = k
      /\ T \ {c} = S \ {c}
  BY Zenon DEF HeldFor
<1> HIDE DEF S, T
<1>3. Cardinality(T) = Cardinality(S) + (IF c \in T THEN 1 ELSE 0)
                                      - (IF c \in S THEN 1 ELSE 0)
  BY Zenon, <1>1, <1>2, CountOne
<1>4. Cardinality(T) = Cardinality(S) + Has(hand'[c], k) - Has(hand[c], k)
  BY <1>2, <1>3, Zenon DEF Has
<1> QED BY Zenon, <1>4 DEF S, T

\* Only worker w moves.
LEMMA CountWorker ==
    ASSUME NEW w \in Workers, NEW k,
           \A v \in Workers \ {w} : wpc'[v] = wpc[v] /\ wjob'[v] = wjob[v]
    PROVE  Cardinality(HandledFor(wpc', wjob', k)) =
               Cardinality(HandledFor(wpc, wjob, k))
                   + Handling(wpc'[w], wjob'[w], k) - Handling(wpc[w], wjob[w], k)
<1> DEFINE S == HandledFor(wpc, wjob, k)
           T == HandledFor(wpc', wjob', k)
<1>1. IsFiniteSet(S) /\ Cardinality(S) \in Nat
  <2>1. <<>> \in Seq({})
    OBVIOUS
  <2> QED BY ZenonT(30), <2>1, CountTypes
<1>2. /\ w \in S <=> wpc[w] \in FlushPhases /\ wjob[w].key = k
      /\ w \in T <=> wpc'[w] \in FlushPhases /\ wjob'[w].key = k
      /\ T \ {w} = S \ {w}
  BY Zenon DEF HandledFor
<1> HIDE DEF S, T
<1>3. Cardinality(T) = Cardinality(S) + (IF w \in T THEN 1 ELSE 0)
                                      - (IF w \in S THEN 1 ELSE 0)
  BY Zenon, <1>1, <1>2, CountOne
<1>4. Cardinality(T) = Cardinality(S) + Handling(wpc'[w], wjob'[w], k)
                                      - Handling(wpc[w], wjob[w], k)
  BY <1>2, <1>3, Zenon DEF Handling
<1> QED BY Zenon, <1>4 DEF S, T

\* The counts add up: what the places of a key gain together is what its
\* pending count gains.
LEMMA CountMoves ==
    ASSUME NEW J, NEW P, Good(J, P), NEW X, PendingCounted(X), NEW k \in Keys,
           NEW q \in Int, NEW h \in Int, NEW b \in Int,
           Cardinality(QueuedFor(queue', k)) = Cardinality(QueuedFor(queue, k)) + q,
           Cardinality(HeldFor(hand', k)) = Cardinality(HeldFor(hand, k)) + h,
           Cardinality(HandledFor(wpc', wjob', k)) =
               Cardinality(HandledFor(wpc, wjob, k)) + b,
           slot'[k].pending = slot[k].pending + q + h + b
    PROVE  slot'[k].pending = Count(queue', hand', wpc', wjob', k) + Has(X, k)
<1>1. /\ Cardinality(QueuedFor(queue, k)) \in Nat
      /\ Cardinality(HeldFor(hand, k)) \in Nat
      /\ Cardinality(HandledFor(wpc, wjob, k)) \in Nat
  BY ZenonT(30), CountTypes DEF Good, Typed
<1>2. slot[k].pending = Count(queue, hand, wpc, wjob, k) + Has(X, k)
  BY Zenon DEF PendingCounted
<1>3. Has(X, k) \in Int
  BY DEF Has
<1> QED BY SMTT(30), <1>1, <1>2, <1>3 DEF Count

\* A step that moves no job, or only those of one client.
LEMMA HandStepCount ==
    ASSUME NEW J, NEW P, Good(J, P), NEW X, PendingCounted(X), NEW c \in Clients,
           \A d \in Clients \ {c} : hand'[d] = hand[d],
           UNCHANGED <<queue, wpc, wjob>>,
           \A k \in Keys : slot'[k].pending =
               slot[k].pending + (Has(hand'[c], k) - Has(hand[c], k))
    PROVE  PendingCounted(X)'
<1> SUFFICES ASSUME NEW k \in Keys
             PROVE  slot'[k].pending = Count(queue', hand', wpc', wjob', k) + Has(X, k)
  BY Zenon DEF PendingCounted
<1> DEFINE h == Has(hand'[c], k) - Has(hand[c], k)
<1>1. h \in Int /\ 0 \in Int
  BY SMTT(30), CountedOnce
<1>2. /\ Cardinality(QueuedFor(queue, k)) \in Nat
      /\ Cardinality(HeldFor(hand, k)) \in Nat
      /\ Cardinality(HandledFor(wpc, wjob, k)) \in Nat
      /\ slot[k].pending \in Nat
  BY ZenonT(30), CountTypes DEF Good, Typed, Slot
<1>3. Cardinality(HeldFor(hand', k)) = Cardinality(HeldFor(hand, k)) + h
  BY Zenon, <1>2, CountHand, CountedOnce
<1>4. slot'[k].pending = slot[k].pending + h
  BY Zenon
<1> HIDE DEF h
<1>5. /\ Cardinality(QueuedFor(queue', k)) = Cardinality(QueuedFor(queue, k)) + 0
      /\ Cardinality(HandledFor(wpc', wjob', k)) =
             Cardinality(HandledFor(wpc, wjob, k)) + 0
      /\ slot'[k].pending = slot[k].pending + 0 + h + 0
  BY <1>1, <1>2, <1>4
<1> QED BY ZenonT(30), <1>1, <1>3, <1>5, CountMoves

LEMMA SameCount ==
    ASSUME NEW J, NEW P, Good(J, P), NEW X, PendingCounted(X),
           UNCHANGED <<queue, hand, wpc, wjob>>,
           \A k \in Keys : slot'[k].pending = slot[k].pending
    PROVE  PendingCounted(X)'
BY Zenon DEF PendingCounted, Count

\* A step of one worker that leaves the queue alone.
LEMMA HandlingStepCount ==
    ASSUME NEW J, NEW P, Good(J, P), NEW X, PendingCounted(X), NEW w \in Workers,
           \A v \in Workers \ {w} : wpc'[v] = wpc[v] /\ wjob'[v] = wjob[v],
           UNCHANGED <<queue, hand>>,
           \A k \in Keys : slot'[k].pending = slot[k].pending
               + (Handling(wpc'[w], wjob'[w], k) - Handling(wpc[w], wjob[w], k))
    PROVE  PendingCounted(X)'
<1> SUFFICES ASSUME NEW k \in Keys
             PROVE  slot'[k].pending = Count(queue', hand', wpc', wjob', k) + Has(X, k)
  BY Zenon DEF PendingCounted
<1> DEFINE b == Handling(wpc'[w], wjob'[w], k) - Handling(wpc[w], wjob[w], k)
<1>1. b \in Int /\ 0 \in Int
  BY SMTT(30), CountedOnce
<1>2. /\ Cardinality(QueuedFor(queue, k)) \in Nat
      /\ Cardinality(HeldFor(hand, k)) \in Nat
      /\ Cardinality(HandledFor(wpc, wjob, k)) \in Nat
      /\ slot[k].pending \in Nat
  BY ZenonT(30), CountTypes DEF Good, Typed, Slot
<1>3. Cardinality(HandledFor(wpc', wjob', k)) =
          Cardinality(HandledFor(wpc, wjob, k)) + b
  BY ZenonT(30), <1>2, CountWorker, CountedOnce
<1>4. slot'[k].pending = slot[k].pending + b
  BY Zenon
<1> HIDE DEF b
<1>5. /\ Cardinality(QueuedFor(queue', k)) = Cardinality(QueuedFor(queue, k)) + 0
      /\ Cardinality(HeldFor(hand', k)) = Cardinality(HeldFor(hand, k)) + 0
      /\ slot'[k].pending = slot[k].pending + 0 + 0 + b
  BY <1>1, <1>2, <1>4
<1> QED BY ZenonT(30), <1>1, <1>3, <1>5, CountMoves

\* A client that holds a job of k, a worker that handles one, and a job in the
\* queue are counted.
LEMMA InFlightIsCounted ==
    ASSUME NEW J, NEW P, Good(J, P), NEW X, PendingCounted(X), NEW k \in Keys
    PROVE  /\ \A c \in Clients : \A j \in hand[c] :
                  j.key = k => slot[k].pending > 0
           /\ \A w \in Workers :
                  wpc[w] \in FlushPhases /\ wjob[w].key = k => slot[k].pending > 0
           /\ \A i \in DOMAIN queue :
                  queue[i] \in Job /\ queue[i].key = k => slot[k].pending > 0
           /\ \A j \in X : j.key = k => slot[k].pending > 0
<1> DEFINE Q == QueuedFor(queue, k)
           H == HeldFor(hand, k)
           B == HandledFor(wpc, wjob, k)
<1>1. slot[k].pending = Count(queue, hand, wpc, wjob, k) + Has(X, k)
  BY Zenon DEF PendingCounted
<1>2. /\ IsFiniteSet(Q) /\ Cardinality(Q) \in Nat
      /\ IsFiniteSet(H) /\ Cardinality(H) \in Nat
      /\ IsFiniteSet(B) /\ Cardinality(B) \in Nat
  BY ZenonT(30), CountTypes DEF Good, Typed
<1>3. slot[k].pending = Cardinality(Q) + Cardinality(H) + Cardinality(B) + Has(X, k)
  BY Zenon, <1>1 DEF Count
<1>4. /\ \A c \in Clients : \A j \in hand[c] : j.key = k => H # {}
      /\ \A w \in Workers : wpc[w] \in FlushPhases /\ wjob[w].key = k => B # {}
      /\ \A i \in DOMAIN queue : queue[i] \in Job /\ queue[i].key = k => Q # {}
      /\ \A j \in X : j.key = k => Has(X, k) = 1
  BY Zenon DEF QueuedFor, HeldFor, HandledFor, Has
<1> HIDE DEF Q, H, B
<1>5. /\ Q # {} => Cardinality(Q) # 0
      /\ H # {} => Cardinality(H) # 0
      /\ B # {} => Cardinality(B) # 0
  BY Zenon, <1>2, FS_EmptySet
<1>6. Has(X, k) \in Nat
  BY Zenon DEF Has
<1>7. Q # {} \/ H # {} \/ B # {} \/ Has(X, k) = 1 => slot[k].pending > 0
  BY <1>2, <1>3, <1>5, <1>6
<1> QED BY Zenon, <1>4, <1>7

\* What the operations on a slot do to the pending count.
LEMMA SlotPending ==
    ASSUME NEW s \in Slot
    PROVE  /\ RemoveEntry(s).pending = s.pending
           /\ \A w : StoreEntry(s, w).pending = s.pending
           /\ RegisterPending(s).pending = s.pending + 1
           /\ DeleteEntry(s).pending = s.pending + 1
           /\ \A j : MarkClean(s, j).pending = s.pending
           /\ s.pending > 0 => ResolvePending(s).pending = s.pending - 1
<1>1. ASSUME NEW t \in Slot
      PROVE  RemoveEntry(t).pending = t.pending
  BY Zenon DEF RemoveEntry, MaybePruneMarks, Slot
<1>2. \A w : StoreEntry(s, w).pending = s.pending
  BY Zenon DEF StoreEntry, NextVersion, Slot
<1>3. RegisterPending(s).pending = s.pending + 1
  BY Zenon DEF RegisterPending, Slot
<1>4. DeleteEntry(s).pending = s.pending + 1
  <2> DEFINE n == NextVersion(s)
             m == [n EXCEPT !.tomb = n.mark]
             t == RegisterPending(m)
  <2>1. n \in Slot /\ n.pending = s.pending
    BY DEF NextVersion, Slot
  <2> HIDE DEF n
  <2>2. m \in Slot /\ m.pending = s.pending
    BY Zenon, <2>1 DEF Slot
  <2> HIDE DEF m
  <2>3. t \in Slot /\ t.pending = s.pending + 1
    BY <2>2 DEF RegisterPending, Slot
  <2> HIDE DEF t
  <2>4. RemoveEntry(t).pending = s.pending + 1
    BY Zenon, <1>1, <2>3
  <2> QED BY Zenon, <2>4 DEF DeleteEntry, t, m, n
<1>5. \A j : MarkClean(s, j).pending = s.pending
  BY Zenon DEF MarkClean, Slot
<1>6. s.pending > 0 => ResolvePending(s).pending = s.pending - 1
  BY DEF ResolvePending, MaybePruneMarks, Slot
<1> QED BY Zenon, <1>1, <1>2, <1>3, <1>4, <1>5, <1>6


\* The slots after put() has stored an entry in slot s of k and evicted E.
AfterPut(k, s, E) ==
    LET t == StoreEntry(s, writes[k] + 1)
    IN  [x \in Keys |->
            IF x = k THEN RegisterPending(IF k \in E THEN RemoveEntry(t) ELSE t)
            ELSE IF x \in E THEN RemoveEntry(slot[x]) ELSE slot[x]]

\* put(), slot by slot.
LEMMA PutEvictingEffect ==
    ASSUME slot \in [Keys -> Slot], NEW c \in Clients, NEW k \in Keys,
           NEW expired \in BOOLEAN, NEW E, PutEvicting(c, k, expired, E)
    PROVE  LET s == IF expired THEN RemoveEntry(slot[k]) ELSE slot[k]
           IN  /\ slot' = AfterPut(k, s, E)
               /\ hand' = [hand EXCEPT ![c] =
                      {FlushJob(k, StoreEntry(s, writes[k] + 1).version,
                                writes[k] + 1, "put")}]
<1> DEFINE s == IF expired THEN RemoveEntry(slot[k]) ELSE slot[k]
           t == StoreEntry(s, writes[k] + 1)
           stored == Stored(k, expired)
           left == [x \in Keys |-> IF x \in E THEN RemoveEntry(stored[x])
                                              ELSE stored[x]]
<1>1. DOMAIN slot = Keys /\ slot = [x \in Keys |-> slot[x]]
  BY Zenon
<1>2. stored = [x \in Keys |-> IF x = k THEN t ELSE slot[x]]
  BY Zenon, <1>1 DEF Stored
<1> HIDE DEF s, t, stored
<1>3. left = [x \in Keys |-> IF x \in E
                             THEN RemoveEntry(IF x = k THEN t ELSE slot[x])
                             ELSE IF x = k THEN t ELSE slot[x]]
  BY Zenon, <1>2
<1>4. [left EXCEPT ![k] = RegisterPending(@)] = AfterPut(k, s, E)
  <2> DEFINE lhs == [left EXCEPT ![k] = RegisterPending(@)]
             rhs == AfterPut(k, s, E)
  <2>1. /\ lhs = [x \in Keys |-> lhs[x]]
        /\ \A x \in Keys : lhs[x] = IF x = k THEN RegisterPending(left[k]) ELSE left[x]
    BY Zenon
  <2>2. /\ rhs = [x \in Keys |-> rhs[x]]
        /\ \A x \in Keys : rhs[x] =
              IF x = k THEN RegisterPending(IF k \in E THEN RemoveEntry(t) ELSE t)
              ELSE IF x \in E THEN RemoveEntry(slot[x]) ELSE slot[x]
    BY Zenon DEF AfterPut, t
  <2>3. left[k] = IF k \in E THEN RemoveEntry(t) ELSE t
    BY Zenon, <1>3
  <2>4. \A x \in Keys : x # k => left[x] = IF x \in E THEN RemoveEntry(slot[x]) ELSE slot[x]
    BY Zenon, <1>3
  <2> HIDE DEF lhs, rhs, left
  <2>5. \A x \in Keys : lhs[x] = rhs[x]
    BY Zenon, <2>1, <2>2, <2>3, <2>4
  <2>6. lhs = rhs
    BY Zenon, <2>1, <2>2, <2>5
  <2> QED BY Zenon, <2>6 DEF lhs, rhs
<1>5. stored[k] = t
  BY Zenon, <1>2
<1>6. slot' = AfterPut(k, s, E)
  BY Zenon, <1>4 DEF PutEvicting, stored
<1>7. hand' = [hand EXCEPT ![c] = {FlushJob(k, t.version, writes[k] + 1, "put")}]
  BY Zenon, <1>5 DEF PutEvicting, stored
<1> QED BY Zenon, <1>6, <1>7 DEF t, s

\* The same for any choice of expired and E that put() has.
LEMMA PutCallEffect ==
    ASSUME slot \in [Keys -> Slot], NEW c \in Clients, NEW k \in Keys, PutCall(c, k)
    PROVE  \E s \in {slot[k], RemoveEntry(slot[k])}, E \in SUBSET Keys :
               /\ EvictsNewest \/ k \notin E
               /\ cpc[c] = "idle"
               /\ slot' = AfterPut(k, s, E)
               /\ hand' = [hand EXCEPT ![c] =
                      {FlushJob(k, StoreEntry(s, writes[k] + 1).version,
                                writes[k] + 1, "put")}]
               /\ writes' = [writes EXCEPT ![k] = @ + 1]
               /\ cpc' = [cpc EXCEPT ![c] = "enqueue"]
               /\ UNCHANGED <<queue, nextShard, wpc, wjob, source, faults, reported>>
<1>1. PICK expired \in {FALSE, Cached(slot[k])} :
          \E E \in EvictChoices(Stored(k, expired), k) :
              PutEvicting(c, k, expired, E)
  BY Zenon DEF PutCall
<1>2. PICK E \in EvictChoices(Stored(k, expired), k) :
          PutEvicting(c, k, expired, E)
  BY Zenon, <1>1
<1>3. E \in SUBSET Keys /\ (EvictsNewest \/ k \notin E)
  BY Zenon, <1>2 DEF EvictChoices, Live
<1> DEFINE s == IF expired THEN RemoveEntry(slot[k]) ELSE slot[k]
<1>4. s \in {slot[k], RemoveEntry(slot[k])}
  BY Zenon
<1>5. expired \in BOOLEAN
  <2>1. Cached(slot[k]) \in BOOLEAN
    BY DEF Cached
  <2> QED BY ZenonT(30), <1>1, <2>1
<1>6. /\ slot' = AfterPut(k, s, E)
      /\ hand' = [hand EXCEPT ![c] =
             {FlushJob(k, StoreEntry(s, writes[k] + 1).version, writes[k] + 1, "put")}]
  BY <1>2, <1>5, PutEvictingEffect
<1> HIDE DEF s
<1> QED BY Zenon, <1>2, <1>3, <1>4, <1>6 DEF PutEvicting


\* put() registers one pending flush, for its key only.
LEMMA PutPending ==
    ASSUME GoodSlots(slot), NEW k \in Keys, writes[k] \in Nat,
           NEW s \in {slot[k], RemoveEntry(slot[k])},
           NEW E \in SUBSET Keys, NEW x \in Keys
    PROVE  AfterPut(k, s, E)[x].pending =
               slot[x].pending + (IF x = k THEN 1 ELSE 0)
<1>1. \A y \in Keys : slot[y] \in Slot /\ Coherent(slot[y])
  BY Zenon DEF GoodSlots
<1>2. \A y \in Keys : RemoveEntry(slot[y]).pending = slot[y].pending
  BY Zenon, <1>1, SlotPending
<1>3. CASE x # k
  BY <1>1, <1>2, <1>3 DEF AfterPut, Slot
<1>4. CASE x = k
  <2> DEFINE t == StoreEntry(s, writes[k] + 1)
  <2>1. s \in Slot /\ s.pending = slot[k].pending
    BY Zenon, <1>1, <1>2, RemoveEntryCoherent DEF Coherent
  <2>2. writes[k] + 1 \in Nat
    OBVIOUS
  <2>3. t \in Slot /\ Coherent(t) /\ t.pending = slot[k].pending
    BY Zenon, <2>1, <2>2, StoreEntryCoherent, SlotPending
  <2> HIDE DEF t
  <2>4. RemoveEntry(t) \in Slot /\ RemoveEntry(t).pending = slot[k].pending
    BY ZenonT(30), <2>3, RemoveEntryCoherent, SlotPending DEF Coherent
  <2> DEFINE u == IF k \in E THEN RemoveEntry(t) ELSE t
  <2>5. u \in Slot /\ u.pending = slot[k].pending
    BY Zenon, <2>3, <2>4
  <2>6. AfterPut(k, s, E)[k] = RegisterPending(u)
    BY Zenon DEF AfterPut, t
  <2> HIDE DEF u
  <2>7. RegisterPending(u).pending = u.pending + 1
    BY Zenon, <2>5, SlotPending
  <2> QED BY Zenon, <1>4, <2>5, <2>6, <2>7
<1> QED BY Zenon, <1>3, <1>4

\* A put or a delete: the client, idle before, holds the one job of the flush it
\* has registered.
LEMMA NewJobCount ==
    ASSUME NEW J, NEW P, NEW X, Counted(J, P, X), NEW c \in Clients,
           NEW job, NEW k \in Keys, job.key = k,
           cpc[c] = "idle", cpc' = [cpc EXCEPT ![c] = "enqueue"],
           hand' = [hand EXCEPT ![c] = {job}],
           \A x \in Keys : slot'[x].pending =
               slot[x].pending + (IF x = k THEN 1 ELSE 0),
           UNCHANGED <<queue, nextShard, wpc, wjob>>
    PROVE  HandsInOrder' /\ PendingCounted(X)'
<1>1. /\ cpc \in [Clients -> {"idle", "clear", "enqueue", "release"}]
      /\ hand \in [Clients -> SUBSET Job] /\ HandsInOrder
  BY Zenon DEF Counted, Good, Typed
<1>2. /\ hand'[c] = {job} /\ cpc'[c] = "enqueue"
      /\ \A d \in Clients \ {c} : hand'[d] = hand[d] /\ cpc'[d] = cpc[d]
  BY Zenon, <1>1
<1>3. HandsInOrder'
  BY Zenon, <1>1, <1>2 DEF HandsInOrder
<1>4. hand[c] = {}
  BY Zenon, <1>1 DEF HandsInOrder
<1>5. \A x \in Keys : Has(hand'[c], x) - Has(hand[c], x) = IF x = k THEN 1 ELSE 0
  BY <1>2, <1>4 DEF Has
<1>6. \A x \in Keys :
          slot'[x].pending = slot[x].pending + (Has(hand'[c], x) - Has(hand[c], x))
  BY Zenon, <1>5
<1>7. PendingCounted(X)'
  BY ZenonT(30), <1>2, <1>6, HandStepCount DEF Counted
<1> QED BY Zenon, <1>3, <1>7

LEMMA PutCount ==
    ASSUME NEW J, NEW P, NEW X, Counted(J, P, X), NEW c \in Clients,
           NEW k \in Keys, PutCall(c, k)
    PROVE  HandsInOrder' /\ PendingCounted(X)'
<1>1. slot \in [Keys -> Slot] /\ GoodSlots(slot) /\ writes[k] \in Nat
  BY ZenonT(30), GoodSlotsOfGood DEF Counted, Good, Typed
<1>2. PICK s \in {slot[k], RemoveEntry(slot[k])}, E \in SUBSET Keys :
          /\ cpc[c] = "idle"
          /\ slot' = AfterPut(k, s, E)
          /\ hand' = [hand EXCEPT ![c] =
                 {FlushJob(k, StoreEntry(s, writes[k] + 1).version,
                           writes[k] + 1, "put")}]
          /\ cpc' = [cpc EXCEPT ![c] = "enqueue"]
          /\ UNCHANGED <<queue, nextShard, wpc, wjob>>
  BY Zenon, <1>1, PutCallEffect
<1> DEFINE job == FlushJob(k, StoreEntry(s, writes[k] + 1).version,
                           writes[k] + 1, "put")
<1>3. job.key = k
  BY Zenon DEF FlushJob
<1> HIDE DEF job
<1>4. \A x \in Keys : slot'[x].pending =
          slot[x].pending + (IF x = k THEN 1 ELSE 0)
  BY ZenonT(30), <1>1, <1>2, PutPending
<1>5. hand' = [hand EXCEPT ![c] = {job}]
  BY Zenon, <1>2 DEF job
<1> QED BY Zenon, <1>2, <1>3, <1>4, <1>5, NewJobCount

LEMMA DeleteCount ==
    ASSUME NEW J, NEW P, NEW X, Counted(J, P, X), NEW c \in Clients,
           NEW k \in Keys, Delete(c, k)
    PROVE  HandsInOrder' /\ PendingCounted(X)'
<1> DEFINE job == FlushJob(k, slot[k].mark + 1, writes[k] + 1, "delete")
<1>1. /\ cpc[c] = "idle"
      /\ slot' = [slot EXCEPT ![k] = DeleteEntry(slot[k])]
      /\ hand' = [hand EXCEPT ![c] = {job}]
      /\ cpc' = [cpc EXCEPT ![c] = "enqueue"]
      /\ UNCHANGED <<queue, nextShard, wpc, wjob>>
  BY ZenonT(30) DEF Delete
<1>2. job.key = k
  BY Zenon DEF FlushJob
<1> HIDE DEF job
<1>3. slot \in [Keys -> Slot] /\ \A x \in Keys : slot[x].pending \in Nat
  BY Zenon DEF Counted, Good, Typed, Slot
<1>4. DeleteEntry(slot[k]).pending = slot[k].pending + 1
  BY Zenon, <1>3, SlotPending
<1>5. \A x \in Keys : slot'[x].pending =
          slot[x].pending + (IF x = k THEN 1 ELSE 0)
  BY <1>1, <1>3, <1>4
<1> QED BY Zenon, <1>1, <1>2, <1>5, NewJobCount

\* The jobs of the section of clear() for one shard, one for each live key.
ClearJobs(c) ==
    {FlushJob(k, slot[k].mark + 1, writes[k] + 1, "delete") :
         k \in Live(slot, nextShard[c])}

LEMMA ClearJobKeys ==
    ASSUME NEW c
    PROVE  /\ \A j \in ClearJobs(c) : j.key \in Live(slot, nextShard[c])
           /\ \A k \in Live(slot, nextShard[c]) : \E j \in ClearJobs(c) : j.key = k
           /\ \A i, j \in ClearJobs(c) : i.key = j.key => i = j
<1> DEFINE F(k) == FlushJob(k, slot[k].mark + 1, writes[k] + 1, "delete")
           live == Live(slot, nextShard[c])
           jobs == ClearJobs(c)
<1>1. \A k : F(k).key = k
  BY Zenon DEF FlushJob
<1> HIDE DEF F
<1>2. jobs = {F(k) : k \in live}
  BY Zenon DEF F, ClearJobs
<1> HIDE DEF live, jobs
<1>3. \A j \in jobs : \E k \in live : j = F(k)
  BY Zenon, <1>2
<1>4. \A k \in live : F(k) \in jobs
  BY Zenon, <1>2
<1>5. /\ \A j \in jobs : j.key \in live
      /\ \A k \in live : \E j \in jobs : j.key = k
      /\ \A i, j \in jobs : i.key = j.key => i = j
  BY <1>1, <1>3, <1>4
<1> QED BY Zenon, <1>5 DEF live, jobs

LEMMA ClearShardCount ==
    ASSUME NEW J, NEW P, NEW X, Counted(J, P, X), NEW c \in Clients, ClearShard(c)
    PROVE  HandsInOrder' /\ PendingCounted(X)'
<1> DEFINE live == Live(slot, nextShard[c])
           jobs == ClearJobs(c)
           H == hand[c] \cup jobs
<1>1. /\ hand \in [Clients -> SUBSET Job] /\ HandsInOrder
      /\ cpc \in [Clients -> {"idle", "clear", "enqueue", "release"}]
      /\ nextShard \in [Clients -> 1 .. ShardCount]
      /\ \A x \in Keys : slot[x] \in Slot /\ slot[x].pending \in Nat
      /\ ShardOf \in [Keys -> Nat] /\ nextShard[c] \in Nat
  BY ConstantsAssumption DEF Counted, Good, Typed, Slot
<1>2. /\ cpc[c] = "clear"
      /\ slot' = [k \in Keys |-> IF k \in live THEN DeleteEntry(slot[k])
                                               ELSE slot[k]]
      /\ hand' = [hand EXCEPT ![c] = H]
      /\ nextShard' = [nextShard EXCEPT ![c] =
             IF nextShard[c] = ShardCount THEN 1 ELSE nextShard[c] + 1]
      /\ cpc' = [cpc EXCEPT ![c] =
             IF nextShard[c] # ShardCount THEN "clear"
             ELSE IF hand'[c] = {} THEN "idle" ELSE "enqueue"]
      /\ UNCHANGED <<queue, wpc, wjob>>
  BY Zenon DEF ClearShard, ClearJobs
<1>3. /\ hand'[c] = H
      /\ \A d \in Clients \ {c} : /\ hand'[d] = hand[d] /\ cpc'[d] = cpc[d]
                                  /\ nextShard'[d] = nextShard[d]
  BY Zenon, <1>1, <1>2
<1>4. /\ cpc'[c] = "idle" => H = {}
      /\ cpc'[c] = "clear" => nextShard'[c] = nextShard[c] + 1
  BY Zenon, <1>1, <1>2, <1>3
<1>5. \A k \in live : k \in Keys /\ ShardOf[k] = nextShard[c]
  BY Zenon DEF Live
<1>6. /\ \A j \in jobs : j.key \in live
      /\ \A k \in live : \E j \in jobs : j.key = k
      /\ \A i, j \in jobs : i.key = j.key => i = j
  BY Zenon, ClearJobKeys
<1>7. \A j \in hand[c] : ShardOf[j.key] < nextShard[c] /\ j.key \in Keys
  BY <1>1, <1>2 DEF HandsInOrder, Job
<1> HIDE DEF live, jobs
<1>8. \A j \in hand[c] : j.key \notin live
  BY <1>1, <1>5, <1>7
<1>9. /\ \A i, j \in H : i.key = j.key => i = j
      /\ \A j \in H : ShardOf[j.key] < nextShard[c] + 1
  BY <1>1, <1>5, <1>6, <1>7, <1>8 DEF HandsInOrder
<1>10. \A x \in Keys : Has(H, x) - Has(hand[c], x) = IF x \in live THEN 1 ELSE 0
  BY <1>6, <1>8 DEF Has
<1> HIDE DEF H
<1>11. HandsInOrder'
  BY Zenon, <1>1, <1>3, <1>4, <1>9 DEF HandsInOrder
<1>12. ASSUME NEW x \in Keys
       PROVE  slot'[x].pending = slot[x].pending + (Has(hand'[c], x) - Has(hand[c], x))
  <2>1. DeleteEntry(slot[x]).pending = slot[x].pending + 1
    BY ZenonT(30), <1>1, SlotPending
  <2>2. slot'[x].pending = slot[x].pending + (IF x \in live THEN 1 ELSE 0)
    BY SMTT(30), <1>1, <1>2, <2>1
  <2> QED BY SMTT(30), <1>3, <1>10, <2>2
<1>13. PendingCounted(X)'
  BY ZenonT(30), <1>2, <1>3, <1>12, HandStepCount DEF Counted
<1> QED BY Zenon, <1>11, <1>13

\* A client gets rid of one of its jobs.
LEMMA JobLeavesHand ==
    ASSUME NEW J, NEW P, NEW X, Counted(J, P, X), NEW c \in Clients, NEW j \in hand[c],
           NEW pc, cpc[c] \notin {"idle", "clear"}, pc \notin {"idle", "clear"},
           hand' = [hand EXCEPT ![c] = hand[c] \ {j}],
           cpc' = [cpc EXCEPT ![c] = AfterLastJob(hand'[c], pc)],
           UNCHANGED nextShard
    PROVE  /\ HandsInOrder' /\ j \in Job
           /\ \A d \in Clients \ {c} : hand'[d] = hand[d]
           /\ \A x : Has(hand'[c], x) - Has(hand[c], x) = 0 - Fills(j, x)
<1>1. /\ hand \in [Clients -> SUBSET Job] /\ HandsInOrder
      /\ cpc \in [Clients -> {"idle", "clear", "enqueue", "release"}]
  BY Zenon DEF Counted, Good, Typed
<1>2. /\ hand'[c] = hand[c] \ {j} /\ j \in Job
      /\ cpc'[c] = AfterLastJob(hand'[c], pc)
      /\ \A d \in Clients \ {c} : hand'[d] = hand[d] /\ cpc'[d] = cpc[d]
  BY Zenon, <1>1
<1>3. cpc'[c] # "clear" /\ (cpc'[c] = "idle" => hand'[c] = {})
  BY <1>2 DEF AfterLastJob
<1>4. HandsInOrder'
  BY Zenon, <1>1, <1>2, <1>3 DEF HandsInOrder
<1>5. ASSUME NEW x
      PROVE  Has(hand'[c], x) - Has(hand[c], x) = 0 - Fills(j, x)
  <2>1. /\ j.key = x => /\ \E i \in hand[c] : i.key = x
                        /\ ~\E i \in hand'[c] : i.key = x
        /\ j.key # x => ((\E i \in hand'[c] : i.key = x)
                             <=> \E i \in hand[c] : i.key = x)
    BY <1>1, <1>2 DEF HandsInOrder
  <2> QED BY <1>2, <2>1 DEF Has, Fills
<1> QED BY Zenon, <1>2, <1>4, <1>5

LEMMA EnqueueCount ==
    ASSUME NEW J, Job \subseteq J, NEW P, NEW X, Counted(J, P, X),
           NEW c \in Clients, Enqueue(c)
    PROVE  HandsInOrder' /\ PendingCounted(X)'
<1>1. PICK j \in hand[c] : /\ queue' = Append(queue, j)
                           /\ hand' = [hand EXCEPT ![c] = hand[c] \ {j}]
  BY Zenon DEF Enqueue, NextJobs
<1>2. /\ cpc[c] \notin {"idle", "clear"} /\ "enqueue" \notin {"idle", "clear"}
      /\ cpc' = [cpc EXCEPT ![c] = AfterLastJob(hand'[c], "enqueue")]
      /\ UNCHANGED <<slot, nextShard, wpc, wjob>>
  BY Zenon DEF Enqueue
<1>3. /\ HandsInOrder' /\ j \in Job
      /\ \A d \in Clients \ {c} : hand'[d] = hand[d]
      /\ \A x : Has(hand'[c], x) - Has(hand[c], x) = 0 - Fills(j, x)
  BY ZenonT(30), <1>1, <1>2, JobLeavesHand
<1>4. ASSUME NEW k \in Keys
      PROVE  slot'[k].pending = Count(queue', hand', wpc', wjob', k) + Has(X, k)
  <2> DEFINE d == Fills(j, k)
  <2>1. /\ queue \in Seq(J) /\ slot[k].pending \in Nat
        /\ Cardinality(QueuedFor(queue, k)) \in Nat
        /\ Cardinality(HeldFor(hand, k)) \in Nat
        /\ Cardinality(HandledFor(wpc, wjob, k)) \in Nat
    BY Zenon, CountTypes DEF Counted, Good, Typed, Slot
  <2>2. Cardinality(QueuedFor(queue', k)) = Cardinality(QueuedFor(queue, k)) + d
    BY ZenonT(30), <1>1, <1>3, <2>1, CountAppend
  <2>3. Cardinality(HeldFor(hand', k)) = Cardinality(HeldFor(hand, k)) + (0 - d)
    <3>1. Cardinality(HeldFor(hand', k)) =
              Cardinality(HeldFor(hand, k)) + Has(hand'[c], k) - Has(hand[c], k)
      BY SMTT(30), <1>3, CountHand
    <3>2. Has(hand'[c], k) \in Int /\ Has(hand[c], k) \in Int
      BY SMTT(30), CountedOnce
    <3>3. Has(hand'[c], k) - Has(hand[c], k) = 0 - d
      BY Zenon, <1>3
    <3> HIDE DEF d
    <3> QED BY ZenonT(30), <2>1, <3>1, <3>2, <3>3
  <2>4. d \in Int /\ 0 - d \in Int /\ 0 \in Int
    BY SMTT(30), CountedOnce
  <2> HIDE DEF d
  <2>5. /\ Cardinality(HandledFor(wpc', wjob', k)) =
               Cardinality(HandledFor(wpc, wjob, k)) + 0
        /\ slot'[k].pending = slot[k].pending + d + (0 - d) + 0
    BY SMTT(30), <1>2, <2>1, <2>4
  <2> QED BY ZenonT(30), <2>2, <2>3, <2>4, <2>5, CountMoves DEF Counted
<1>5. PendingCounted(X)'
  BY Zenon, <1>4 DEF PendingCounted
<1> QED BY Zenon, <1>3, <1>5

LEMMA ReleaseCount ==
    ASSUME NEW J, NEW P, NEW X, Counted(J, P, X), NEW c \in Clients, Release(c)
    PROVE  HandsInOrder' /\ PendingCounted(X)'
<1>1. PICK j \in hand[c] :
          /\ slot' = [slot EXCEPT ![j.key] = ResolvePending(slot[j.key])]
          /\ hand' = [hand EXCEPT ![c] = hand[c] \ {j}]
  BY Zenon DEF Release, NextJobs
<1>2. /\ cpc[c] \notin {"idle", "clear"} /\ "release" \notin {"idle", "clear"}
      /\ cpc' = [cpc EXCEPT ![c] = AfterLastJob(hand'[c], "release")]
      /\ UNCHANGED <<queue, nextShard, wpc, wjob>>
  BY Zenon DEF Release
<1>3. /\ HandsInOrder' /\ j \in Job
      /\ \A d \in Clients \ {c} : hand'[d] = hand[d]
      /\ \A x : Has(hand'[c], x) - Has(hand[c], x) = 0 - Fills(j, x)
  BY ZenonT(30), <1>1, <1>2, JobLeavesHand
<1>4. slot \in [Keys -> Slot] /\ \A x \in Keys : slot[x] \in Slot /\ slot[x].pending \in Nat
  BY Zenon DEF Counted, Good, Typed, Slot
<1>5. j.key \in Keys /\ slot[j.key].pending > 0
  <2>1. j.key \in Keys
    BY Zenon, <1>3 DEF Job
  <2> QED BY Zenon, <2>1, InFlightIsCounted DEF Counted
<1>6. ResolvePending(slot[j.key]).pending = slot[j.key].pending - 1
  BY Zenon, <1>4, <1>5, SlotPending
<1>7. \A x \in Keys : slot'[x].pending = slot[x].pending + (0 - Fills(j, x))
  BY SMTT(30), <1>1, <1>3, <1>4, <1>6 DEF Fills
<1>8. PendingCounted(X)'
  BY SMTT(30), <1>2, <1>3, <1>7, HandStepCount DEF Counted
<1> QED BY ZenonT(30), <1>3, <1>8

\* Every client step keeps the hands in order and the counts exact.
LEMMA ClientStepCount ==
    ASSUME NEW J, Job \subseteq J, NEW P, NEW X, Counted(J, P, X),
           NEW c \in Clients, ClientCall(c)
    PROVE  Counted(J, P, X)'
<1>1. Good(J, P)'
  BY Zenon, ClientStepGood DEF Counted
<1> SUFFICES HandsInOrder' /\ PendingCounted(X)'
  BY Zenon, <1>1 DEF Counted
<1>2. CASE StartClear(c)
  <2>1. /\ cpc \in [Clients -> {"idle", "clear", "enqueue", "release"}]
        /\ nextShard \in [Clients -> 1 .. ShardCount] /\ HandsInOrder
    BY Zenon DEF Counted, Good, Typed
  <2>2. HandsInOrder'
    BY Zenon, <1>2, <2>1 DEF StartClear, HandsInOrder
  <2>3. PendingCounted(X)'
    BY Zenon, <1>2, SameCount DEF StartClear, Counted
  <2> QED BY Zenon, <2>2, <2>3
<1>3. CASE EnqueueTimeout(c)
  <2>1. /\ cpc \in [Clients -> {"idle", "clear", "enqueue", "release"}]
        /\ HandsInOrder
    BY Zenon DEF Counted, Good, Typed
  <2>2. HandsInOrder'
    BY Zenon, <1>3, <2>1 DEF EnqueueTimeout, HandsInOrder
  <2>3. PendingCounted(X)'
    BY SMTT(30), <1>3, SameCount DEF EnqueueTimeout, Counted
  <2> QED BY Zenon, <2>2, <2>3
<1> QED BY Zenon, <1>2, <1>3, PutCount, DeleteCount, ClearShardCount, EnqueueCount, ReleaseCount
        DEF ClientCall, ClientProgress

\* A worker that gives back the count of its job leaves the counts exact.
LEMMA ResolvingStepCount ==
    ASSUME NEW J, NEW P, NEW X, Counted(J, P, X), NEW w \in Workers,
           wpc[w] \in FlushPhases, NEW t \in Slot,
           t.pending = slot[wjob[w].key].pending,
           slot' = [slot EXCEPT ![wjob[w].key] = ResolvePending(t)],
           Finish(w), UNCHANGED <<queue, hand>>
    PROVE  PendingCounted(X)'
<1>1. /\ slot \in [Keys -> Slot] /\ wjob[w].key \in Keys
      /\ \A x \in Keys : slot[x].pending \in Nat
      /\ wpc \in [Workers -> P] /\ wjob \in [Workers -> J \cup {NoJob}]
  BY SMTT(30) DEF Counted, Good, Typed, FlushersHoldJobs, Job, Slot
<1>2. slot[wjob[w].key].pending > 0
  BY SMTT(30), <1>1, InFlightIsCounted DEF Counted
<1>3. ResolvePending(t).pending = slot[wjob[w].key].pending - 1
  BY Zenon, <1>2, SlotPending
<1>4. /\ \A v \in Workers \ {w} : wpc'[v] = wpc[v] /\ wjob'[v] = wjob[v]
      /\ wpc'[w] = "idle"
  BY SMTT(30), <1>1 DEF Finish, Goto
<1>5. \A x \in Keys : slot'[x].pending = slot[x].pending
          + (Handling(wpc'[w], wjob'[w], x) - Handling(wpc[w], wjob[w], x))
  <2>1. \A x : /\ Handling(wpc'[w], wjob'[w], x) = 0
               /\ Handling(wpc[w], wjob[w], x) = IF x = wjob[w].key THEN 1 ELSE 0
    BY Zenon, <1>4 DEF Handling, FlushPhases
  <2>2. \A x \in Keys \ {wjob[w].key} : slot'[x] = slot[x]
    BY Zenon, <1>1
  <2>3. slot'[wjob[w].key].pending = slot[wjob[w].key].pending - 1
    BY Zenon, <1>1, <1>3
  <2> QED BY SMTT(30), <1>1, <2>1, <2>2, <2>3
<1> QED BY Zenon, <1>4, <1>5, HandlingStepCount DEF Counted

\* A worker that keeps its job leaves the counts alone.
LEMMA KeepingStepCount ==
    ASSUME NEW J, NEW P, NEW X, Counted(J, P, X), NEW w \in Workers,
           wpc[w] \in FlushPhases, NEW p \in FlushPhases,
           Goto(w, p), UNCHANGED <<slot, queue, hand, wjob>>
    PROVE  PendingCounted(X)'
<1>1. \A x : HandledFor(wpc', wjob', x) = HandledFor(wpc, wjob, x)
  BY Zenon DEF HandledFor, Goto, Counted, Good, Typed
<1> QED BY Zenon, <1>1 DEF PendingCounted, Count, Counted

LEMMA TakeCount ==
    ASSUME NEW J, NEW P, NEW X, Counted(J, P, X), NEW w \in Workers, Take(w),
           Head(queue) \in Job
    PROVE  PendingCounted(X)'
<1>1. /\ queue \in Seq(J) /\ queue # <<>> /\ queue' = Tail(queue)
      /\ wpc[w] = "idle" /\ UNCHANGED <<slot, hand>>
      /\ \A v \in Workers \ {w} : wpc'[v] = wpc[v] /\ wjob'[v] = wjob[v]
      /\ wpc'[w] = "check" /\ wjob'[w] = Head(queue)
  BY Zenon DEF Take, Goto, Counted, Good, Typed
<1>2. ASSUME NEW k \in Keys
      PROVE  slot'[k].pending = Count(queue', hand', wpc', wjob', k) + Has(X, k)
  <2> DEFINE d == Fills(Head(queue), k)
  <2>1. /\ slot[k].pending \in Nat
        /\ Cardinality(QueuedFor(queue, k)) \in Nat
        /\ Cardinality(HeldFor(hand, k)) \in Nat
        /\ Cardinality(HandledFor(wpc, wjob, k)) \in Nat
    BY ZenonT(30), CountTypes DEF Counted, Good, Typed, Slot
  <2>2. d \in Int /\ 0 - d \in Int /\ 0 \in Int
    BY CountedOnce
  <2>3. Cardinality(QueuedFor(queue', k)) = Cardinality(QueuedFor(queue, k)) - d
    BY Zenon, <1>1, CountTail
  <2>4. Handling(wpc'[w], wjob'[w], k) = d /\ Handling(wpc[w], wjob[w], k) = 0
    BY Zenon, <1>1 DEF Handling, Fills, FlushPhases, Phases
  <2>5. Cardinality(HandledFor(wpc', wjob', k)) =
            Cardinality(HandledFor(wpc, wjob, k))
                + Handling(wpc'[w], wjob'[w], k) - Handling(wpc[w], wjob[w], k)
    BY SMTT(30), <1>1, CountWorker
  <2> HIDE DEF d
  <2>6. /\ Cardinality(QueuedFor(queue', k)) = Cardinality(QueuedFor(queue, k)) + (0 - d)
        /\ Cardinality(HandledFor(wpc', wjob', k)) =
               Cardinality(HandledFor(wpc, wjob, k)) + d
        /\ Cardinality(HeldFor(hand', k)) = Cardinality(HeldFor(hand, k)) + 0
        /\ slot'[k].pending = slot[k].pending + (0 - d) + 0 + d
    <3>1. slot'[k] = slot[k] /\ HeldFor(hand', k) = HeldFor(hand, k)
      BY Zenon, <1>1
    <3>2. Cardinality(HandledFor(wpc', wjob', k)) =
              Cardinality(HandledFor(wpc, wjob, k)) + d - 0
      BY Zenon, <2>4, <2>5
    <3> QED BY SMTT(30), <2>1, <2>2, <2>3, <3>1, <3>2
  <2> QED BY ZenonT(30), <2>2, <2>6, CountMoves DEF Counted
<1> QED BY Zenon, <1>2 DEF PendingCounted

\* The same job but for the retries it has left.
SameJob(i, j) ==
    i.key = j.key /\ i.version = j.version /\ i.write = j.write /\ i.op = j.op

LEMMA RetriedJob ==
    ASSUME NEW j \in Job, j.retries > 0
    PROVE  /\ [j EXCEPT !.retries = @ - 1] \in Job
           /\ SameJob([j EXCEPT !.retries = @ - 1], j)
BY DEF Job, SameJob

LEMMA RetryCounted ==
    ASSUME NEW J, Job \subseteq J, NEW P, NEW X, Counted(J, P, X),
           NEW w \in Workers, Retry(w)
    PROVE  PendingCounted(X)'
<1> DEFINE j == [wjob[w] EXCEPT !.retries = @ - 1]
<1>1. /\ queue \in Seq(J) /\ queue' = Append(queue, j) /\ UNCHANGED <<slot, hand>>
      /\ \A v \in Workers \ {w} : wpc'[v] = wpc[v] /\ wjob'[v] = wjob[v]
      /\ wpc[w] = "retry" /\ wpc'[w] = "idle"
  BY Zenon DEF Retry, Finish, Goto, Counted, Good, Typed
<1>2. wjob[w] \in Job /\ wjob[w].retries > 0
  BY Zenon, <1>1 DEF Counted, Good, FlushersHoldJobs, FlushPhases, Phases
<1>3. j \in Job /\ j.key = wjob[w].key
  BY Zenon, <1>2, RetriedJob DEF SameJob
<1> HIDE DEF j
<1>4. ASSUME NEW k \in Keys
      PROVE  slot'[k].pending = Count(queue', hand', wpc', wjob', k) + Has(X, k)
  <2> DEFINE d == Fills(j, k)
  <2>1. /\ slot[k].pending \in Nat
        /\ Cardinality(QueuedFor(queue, k)) \in Nat
        /\ Cardinality(HeldFor(hand, k)) \in Nat
        /\ Cardinality(HandledFor(wpc, wjob, k)) \in Nat
    BY ZenonT(30), CountTypes DEF Counted, Good, Typed, Slot
  <2>2. d \in Int /\ 0 - d \in Int /\ 0 \in Int
    BY CountedOnce
  <2>3. Cardinality(QueuedFor(queue', k)) = Cardinality(QueuedFor(queue, k)) + d
    BY Zenon, <1>1, <1>3, CountAppend
  <2>4. Handling(wpc'[w], wjob'[w], k) = 0 /\ Handling(wpc[w], wjob[w], k) = d
    BY SMTT(30), <1>1, <1>3 DEF Handling, Fills, FlushPhases, Phases
  <2>5. Cardinality(HandledFor(wpc', wjob', k)) =
            Cardinality(HandledFor(wpc, wjob, k))
                + Handling(wpc'[w], wjob'[w], k) - Handling(wpc[w], wjob[w], k)
    BY SMTT(30), <1>1, CountWorker
  <2> HIDE DEF d
  <2>6. /\ Cardinality(HandledFor(wpc', wjob', k)) =
               Cardinality(HandledFor(wpc, wjob, k)) + (0 - d)
        /\ Cardinality(HeldFor(hand', k)) = Cardinality(HeldFor(hand, k)) + 0
        /\ slot'[k].pending = slot[k].pending + d + 0 + (0 - d)
    <3>1. slot'[k] = slot[k] /\ HeldFor(hand', k) = HeldFor(hand, k)
      BY Zenon, <1>1
    <3>2. Cardinality(HandledFor(wpc', wjob', k)) =
              Cardinality(HandledFor(wpc, wjob, k)) + 0 - d
      BY Zenon, <2>4, <2>5
    <3> QED BY SMTT(30), <2>1, <2>2, <3>1, <3>2
  <2> QED BY ZenonT(30), <2>2, <2>3, <2>6, CountMoves DEF Counted
<1> QED BY Zenon, <1>4 DEF PendingCounted

\* Every worker step keeps the counts exact.
LEMMA WorkerStepCount ==
    ASSUME NEW J, Job \subseteq J, NEW P, Phases \subseteq P, NEW X, Counted(J, P, X),
           NEW w \in Workers, WorkerStep(w), Take(w) => Head(queue) \in Job
    PROVE  Counted(J, P, X)'
<1>1. Good(J, P)'
  BY SMTT(30), WorkerStepGood DEF Counted
<1>2. HandsInOrder'
  <2>1. UNCHANGED <<cpc, nextShard, hand>>
    BY ZenonT(30) DEF WorkerStep, Take, Skip, Pass, Apply, ApplyFails, Settle, Retry,
           RetryTimeout, GiveUp
  <2> QED BY ZenonT(30), <2>1 DEF Counted, HandsInOrder
<1> SUFFICES PendingCounted(X)'
  BY Zenon, <1>1, <1>2 DEF Counted
<1>3. {"check", "apply", "settle", "retry", "giveup"} = FlushPhases
  BY SMTT(30) DEF FlushPhases, Phases
<1>4. \A v \in Workers : wpc[v] \in FlushPhases =>
          /\ wjob[v] \in Job /\ slot[wjob[v].key] \in Slot
          /\ Coherent(slot[wjob[v].key])
  BY ZenonT(30), GoodSlotsOfGood DEF GoodSlots, Counted, Good, FlushersHoldJobs, Job
<1>5. CASE Skip(w) \/ GiveUp(w)
  <2>1. /\ wpc[w] \in FlushPhases /\ Finish(w) /\ UNCHANGED <<queue, hand>>
        /\ slot' = [slot EXCEPT ![wjob[w].key] = ResolvePending(slot[wjob[w].key])]
    BY ZenonT(30), <1>3, <1>5 DEF Skip, GiveUp
  <2> QED BY Zenon, <1>4, <2>1, ResolvingStepCount
<1>6. CASE Settle(w)
  <2> DEFINE t == MarkClean(slot[wjob[w].key], wjob[w])
  <2>1. /\ wpc[w] \in FlushPhases /\ Finish(w) /\ UNCHANGED <<queue, hand>>
        /\ slot' = [slot EXCEPT ![wjob[w].key] = ResolvePending(t)]
    BY ZenonT(30), <1>3, <1>6 DEF Settle
  <2>2. t \in Slot /\ t.pending = slot[wjob[w].key].pending
    BY ZenonT(30), <1>4, <2>1, MarkCleanCoherent, SlotPending
  <2> HIDE DEF t
  <2> QED BY Zenon, <2>1, <2>2, ResolvingStepCount
<1>7. CASE Pass(w) \/ Apply(w) \/ ApplyFails(w) \/ RetryTimeout(w)
  <2>1. /\ wpc[w] \in FlushPhases /\ UNCHANGED <<slot, queue, hand, wjob>>
        /\ \E p \in FlushPhases : Goto(w, p)
    BY Zenon, <1>3, <1>7 DEF Pass, Apply, ApplyFails, RetryTimeout
  <2> QED BY Zenon, <2>1, KeepingStepCount
<1> QED BY Zenon, <1>5, <1>6, <1>7, TakeCount, RetryCounted DEF WorkerStep

LEMMA ExpireCount ==
    ASSUME NEW J, NEW P, NEW X, Counted(J, P, X), NEW k \in Keys, Expire(k)
    PROVE  Counted(J, P, X)'
<1>1. Good(J, P)'
  BY Zenon, ExpireGood DEF Counted
<1>2. slot \in [Keys -> Slot]
  BY Zenon DEF Counted, Good, Typed
<1>3. RemoveEntry(slot[k]).pending = slot[k].pending
  BY Zenon, <1>2, SlotPending
<1>4. /\ slot' = [slot EXCEPT ![k] = RemoveEntry(slot[k])]
      /\ UNCHANGED <<queue, hand, cpc, nextShard, wpc, wjob>>
  BY Zenon DEF Expire
<1>5. \A x \in Keys : slot'[x].pending = slot[x].pending
  BY Zenon, <1>2, <1>3, <1>4
<1>6. PendingCounted(X)'
  BY SMTT(30), <1>4, <1>5, SameCount DEF Counted
<1>7. HandsInOrder'
  BY ZenonT(30), <1>4 DEF Counted, HandsInOrder
<1> QED BY Zenon, <1>1, <1>6, <1>7 DEF Counted

LEMMA CountInvInit == Init => CountInv
<1> SUFFICES ASSUME Init PROVE CountInv
  BY Zenon
<1>1. EmptySlot \in Slot /\ Coherent(EmptySlot) /\ EmptySlot.pending = 0
  BY DEF EmptySlot, Slot, Coherent, Cached
<1>2. Inv
  BY SMTT(30), <1>1, ConstantsAssumption
  DEF Init, Inv, TypeOK, BusyHoldsJob, MetadataBounded
<1>3. HandsInOrder
  BY Zenon DEF Init, HandsInOrder
<1>4. ASSUME NEW k \in Keys
      PROVE  slot[k].pending = Count(queue, hand, wpc, wjob, k) + Has({}, k)
  <2>1. /\ QueuedFor(queue, k) = {} /\ HeldFor(hand, k) = {}
        /\ HandledFor(wpc, wjob, k) = {}
    BY DEF Init, QueuedFor, HeldFor, HandledFor, FlushPhases
  <2>2. slot[k].pending = 0
    BY Zenon, <1>1 DEF Init
  <2> QED BY <2>1, <2>2, FS_EmptySet DEF Count, Has
<1> QED BY ZenonT(30), <1>2, <1>3, <1>4, InvIsGood, CountInvIsCounted
        DEF Counted, PendingCounted

LEMMA CountInvStep == CountInv /\ [Next]_vars => CountInv'
<1> SUFFICES ASSUME CountInv, [Next]_vars PROVE CountInv'
  BY Zenon
<1>1. CASE UNCHANGED vars
  BY Zenon, <1>1 DEF vars, CountInv, Inv, TypeOK, BusyHoldsJob, MetadataBounded,
                     HandsInOrder, PendingExact
<1>2. CASE Next
  <2>1. Counted(Job, Phases, {})
    BY Zenon, CountInvIsCounted
  <2>2. \A w \in Workers : Take(w) => Head(queue) \in Job
    BY DEF CountInv, Inv, TypeOK, Take
  <2>3. Counted(Job, Phases, {})' \/ UNCHANGED vars
    BY Zenon, <1>2, <2>1, <2>2, ClientStepIsCall, ClientStepCount, WorkerStepCount,
       ExpireCount DEF Next
  <2>4. Counted(Job, Phases, {})' => CountInv'
    BY CountInvIsCounted, PTL
  <2> QED BY Zenon, <1>1, <2>3, <2>4
<1> QED BY Zenon, <1>1, <1>2

\* pending_flushes counts the outstanding jobs of every key exactly, whatever
\* the policy and however many clients and workers there are.
THEOREM CountsStayExact == Spec => []CountInv
BY CountInvInit, CountInvStep, PTL DEF Spec

\* No path through enqueue, rejection, skip, retry, success or failure leaks
\* a pending count or releases one twice.
THEOREM PendingStaysExact == Spec => []PendingExact
<1>1. CountInv => PendingExact
  BY Zenon DEF CountInv
<1> QED BY <1>1, CountsStayExact, PTL

=============================================================================
