---------------------------- MODULE FlushProofs ----------------------------
(***************************************************************************)
(* Proofs about what the flush jobs of WriteBack may do, for any keys,     *)
(* clients, shards, queue size and retry count.  The staleness test needs  *)
(* a policy that spares the key just put; what the source of truth holds   *)
(* also needs a single worker.                                             *)
(***************************************************************************)
EXTENDS WriteBackProofs

-----------------------------------------------------------------------------
(* Numbering.                                                              *)

\* Job j of a key with slot s and n accepted writes: it carries the current
\* version exactly if it carries the latest write, and then the tombstone is
\* the one that fits it.
Numbered(s, n, j) ==
    /\ j.version > 0 /\ j.version <= s.mark
    /\ j.write <= n
    /\ j.version = s.mark <=> j.write = n
    /\ j.write = n => s.tomb = IF j.op = "put" THEN 0 ELSE s.mark

\* The jobs that own a pending count, but for those of the set X that are held
\* outside of the clients, the queue and the workers.
InFlight ==
    {queue[i] : i \in {n \in DOMAIN queue : queue[n] \in Job}}
        \cup (UNION {hand[c] : c \in Clients})
        \cup {wjob[w] : w \in {x \in Workers : wpc[x] \in FlushPhases}}

LEMMA InFlightIsOutstanding == Inv => InFlight = Outstanding
<1> SUFFICES ASSUME Inv PROVE InFlight = Outstanding
  BY Zenon
<1>1. {n \in DOMAIN queue : queue[n] \in Job} = DOMAIN queue
  <2>1. queue \in Seq(Job)
    BY Zenon DEF Inv, TypeOK
  <2>2. \A n \in DOMAIN queue : queue[n] \in Job
    BY <2>1
  <2> QED BY Zenon, <2>2
<1>2. {x \in Workers : wpc[x] \in FlushPhases} = {x \in Workers : wpc[x] # "idle"}
  BY Zenon DEF Inv, TypeOK, FlushPhases, Phases
<1> QED BY Zenon, <1>1, <1>2 DEF InFlight, Outstanding

JobsNumbered(X) ==
    \A j \in InFlight \cup X : Numbered(slot[j.key], writes[j.key], j)

\* Where a job in flight is.
LEMMA InFlightPlaces ==
    /\ \A j : j \in InFlight <=>
           \/ \E i \in DOMAIN queue : queue[i] \in Job /\ j = queue[i]
           \/ \E c \in Clients : j \in hand[c]
           \/ \E w \in Workers : wpc[w] \in FlushPhases /\ j = wjob[w]
    /\ \A j : j \in InFlight' <=>
           \/ \E i \in DOMAIN queue' : queue'[i] \in Job /\ j = queue'[i]
           \/ \E c \in Clients : j \in hand'[c]
           \/ \E w \in Workers : wpc'[w] \in FlushPhases /\ j = wjob'[w]
BY Zenon DEF InFlight

\* Jobs in flight are jobs, and their keys have a pending count.
JobsPending(X) ==
    \A j \in InFlight \cup X :
        j \in Job /\ j.key \in Keys /\ slot[j.key].pending > 0

CountedArePending ==
    \A J, P : \A X \in SUBSET Job : Counted(J, P, X) => JobsPending(X)

LEMMA InFlightJobs == CountedArePending
<1> SUFFICES ASSUME NEW J, NEW P, NEW X \in SUBSET Job, Counted(J, P, X),
                    NEW j \in InFlight \cup X
             PROVE  j \in Job /\ j.key \in Keys /\ slot[j.key].pending > 0
  BY Zenon DEF CountedArePending, JobsPending
<1>1. j \in Job
  <2>1. /\ \A c \in Clients : hand[c] \subseteq Job
        /\ \A w \in Workers : wpc[w] \in FlushPhases => wjob[w] \in Job
    BY Zenon DEF Counted, Good, Typed, FlushersHoldJobs
  <2> QED BY <2>1, InFlightPlaces
<1>2. j.key \in Keys
  BY Zenon, <1>1 DEF Job
<1> QED BY Zenon, <1>1, <1>2, InFlightPlaces, InFlightIsCounted DEF Counted

\* What the operations on a slot do to the version mark and the tombstone; a
\* pending count pins both.
LEMMA SlotMarks ==
    ASSUME NEW s \in Slot
    PROVE  /\ RemoveEntry(s).pending > 0 =>
                  RemoveEntry(s).mark = s.mark /\ RemoveEntry(s).tomb = s.tomb
           /\ ResolvePending(s).pending > 0 =>
                  ResolvePending(s).mark = s.mark /\ ResolvePending(s).tomb = s.tomb
           /\ RegisterPending(s).mark = s.mark /\ RegisterPending(s).tomb = s.tomb
           /\ \A j : MarkClean(s, j).mark = s.mark /\ MarkClean(s, j).tomb = s.tomb
           /\ \A w : /\ StoreEntry(s, w).mark = s.mark + 1
                     /\ StoreEntry(s, w).tomb = 0
                     /\ StoreEntry(s, w).version = s.mark + 1
           /\ DeleteEntry(s).mark = s.mark + 1 /\ DeleteEntry(s).tomb = s.mark + 1
<1>1. ASSUME NEW t \in Slot, t.pending > 0
      PROVE  RemoveEntry(t).mark = t.mark /\ RemoveEntry(t).tomb = t.tomb
  BY Zenon, <1>1 DEF RemoveEntry, MaybePruneMarks, Slot
<1>2. RemoveEntry(s).pending = s.pending
  BY Zenon, SlotPending
<1>3. ResolvePending(s).pending > 0 =>
          ResolvePending(s).mark = s.mark /\ ResolvePending(s).tomb = s.tomb
  BY Zenon DEF ResolvePending, MaybePruneMarks, Slot
<1>4. RegisterPending(s).mark = s.mark /\ RegisterPending(s).tomb = s.tomb
  BY Zenon DEF RegisterPending, Slot
<1>5. \A j : MarkClean(s, j).mark = s.mark /\ MarkClean(s, j).tomb = s.tomb
  BY Zenon DEF MarkClean, Slot
<1>6. \A w : /\ StoreEntry(s, w).mark = s.mark + 1
             /\ StoreEntry(s, w).tomb = 0
             /\ StoreEntry(s, w).version = s.mark + 1
  BY Zenon DEF StoreEntry, NextVersion, Slot
<1>7. DeleteEntry(s).mark = s.mark + 1 /\ DeleteEntry(s).tomb = s.mark + 1
  <2> DEFINE n == NextVersion(s)
             m == [n EXCEPT !.tomb = n.mark]
             t == RegisterPending(m)
  <2>1. n \in Slot /\ n.mark = s.mark + 1
    BY DEF NextVersion, Slot
  <2> HIDE DEF n
  <2>2. m \in Slot /\ m.mark = s.mark + 1 /\ m.tomb = s.mark + 1
    BY Zenon, <2>1 DEF Slot
  <2> HIDE DEF m
  <2>3. /\ t \in Slot /\ t.mark = s.mark + 1 /\ t.tomb = s.mark + 1
        /\ t.pending > 0
    BY <2>2 DEF RegisterPending, Slot
  <2> HIDE DEF t
  <2>4. RemoveEntry(t).mark = s.mark + 1 /\ RemoveEntry(t).tomb = s.mark + 1
    BY Zenon, <1>1, <2>3
  <2> QED BY Zenon, <2>4 DEF DeleteEntry, t, m, n
<1> QED BY Zenon, <1>1, <1>2, <1>3, <1>4, <1>5, <1>6, <1>7

\* A step that writes the keys of K keeps the jobs numbered if it bumps their
\* versions, leaves the marks of the other pending keys alone, and the jobs
\* after it are jobs from before and fresh jobs of K.
LEMMA StepNumbered ==
    ASSUME NEW J, NEW P, NEW X \in SUBSET Job, Counted(J, P, X), Counted(J, P, X)',
           JobsNumbered(X), NEW K \in SUBSET Keys,
           \A x \in Keys \ K :
               /\ writes'[x] = writes[x]
               /\ slot'[x].pending > 0 =>
                      slot'[x].mark = slot[x].mark /\ slot'[x].tomb = slot[x].tomb,
           \A x \in K :
               /\ writes'[x] = writes[x] + 1
               /\ slot[x].pending > 0 => slot'[x].mark = slot[x].mark + 1,
           \A j \in InFlight' :
               \/ \E i \in InFlight : SameJob(j, i)
               \/ /\ j.key \in K
                  /\ j.version > 0 /\ j.version = slot'[j.key].mark
                  /\ j.write = writes'[j.key]
                  /\ slot'[j.key].tomb = IF j.op = "put" THEN 0 ELSE slot'[j.key].mark
    PROVE  JobsNumbered(X)'
<1> SUFFICES ASSUME NEW j \in InFlight' \cup X
             PROVE  Numbered(slot'[j.key], writes'[j.key], j)
  BY Zenon DEF JobsNumbered, Numbered
<1>1. j \in Job /\ j.key \in Keys /\ slot'[j.key].pending > 0
  <2>1. CountedArePending'
    BY InFlightJobs, PTL
  <2> QED BY Zenon, <2>1 DEF CountedArePending, JobsPending
<1> DEFINE k == j.key
<1>2. /\ slot[k].mark \in Nat /\ slot'[k].mark \in Nat
      /\ writes[k] \in Nat /\ writes'[k] \in Nat
  BY ZenonT(30), <1>1 DEF Counted, Good, Typed, Slot
<1>3. ASSUME NEW i \in InFlight \cup X, SameJob(j, i)
      PROVE  Numbered(slot'[k], writes'[k], j)
  <2>1. Numbered(slot[k], writes[k], i) /\ slot[k].pending > 0 /\ i \in Job
    <3>1. JobsPending(X)
      BY Zenon, InFlightJobs DEF CountedArePending
    <3> QED BY Zenon, <1>3, <3>1 DEF JobsPending, JobsNumbered, SameJob
  <2>2. CASE k \in K
    BY <1>2, <1>3, <2>1, <2>2 DEF Numbered, SameJob, Job
  <2>3. CASE k \notin K
    BY Zenon, <1>1, <1>2, <1>3, <2>1, <2>3 DEF Numbered, SameJob, Job
  <2> QED BY Zenon, <2>2, <2>3
<1>4. CASE ~\E i \in InFlight \cup X : SameJob(j, i)
  BY <1>1, <1>2, <1>4 DEF Numbered, Job, SameJob
<1> QED BY Zenon, <1>3, <1>4

NumberGood(J, P, X) == Counted(J, P, X) /\ X \subseteq Job /\ JobsNumbered(X)

NumberInv == NumberGood(Job, Phases, {})

\* The types that the steps below need.
LEMMA SlotTypes ==
    ASSUME NEW J, NEW P, Good(J, P)
    PROVE  /\ \A x \in Keys : slot[x] \in Slot /\ writes[x] \in Nat
           /\ slot \in [Keys -> Slot] /\ writes \in [Keys -> Nat]
           /\ hand \in [Clients -> SUBSET Job] /\ queue \in Seq(J)
           /\ wpc \in [Workers -> P] /\ wjob \in [Workers -> J \cup {NoJob}]
           /\ \A x \in Keys : source[x] \in Nat /\ Coherent(slot[x])
BY Zenon DEF Good, Typed, MetadataBounded

\* A client step that only changes what the client holds, and the marks only
\* of keys without pending flushes, keeps the jobs numbered.
LEMMA ClientStepNumbered ==
    ASSUME NEW J, Job \subseteq J, NEW P, NEW X, NumberGood(J, P, X), ~EvictsNewest,
           NEW c \in Clients, ClientCall(c)
    PROVE  NumberGood(J, P, X)'
<1>1. /\ Counted(J, P, X) /\ Counted(J, P, X)'
      /\ JobsNumbered(X) /\ X \in SUBSET Job
  BY Zenon, ClientStepCount DEF NumberGood
<1>2. /\ \A x \in Keys : slot[x] \in Slot /\ writes[x] \in Nat
      /\ slot \in [Keys -> Slot] /\ writes \in [Keys -> Nat]
      /\ hand \in [Clients -> SUBSET Job] /\ queue \in Seq(J)
      /\ \A x \in Keys : Coherent(slot[x])
  BY Zenon, <1>1, SlotTypes DEF Counted
<1>3. \A i, j : i = j => SameJob(i, j)
  BY Zenon DEF SameJob
<1> SUFFICES JobsNumbered(X)'
  BY Zenon, <1>1 DEF NumberGood
<1>4. ASSUME NEW k \in Keys, PutCall(c, k)
      PROVE  JobsNumbered(X)'
  <2>1. PICK s \in {slot[k], RemoveEntry(slot[k])}, E \in SUBSET Keys :
            /\ k \notin E
            /\ slot' = AfterPut(k, s, E)
            /\ hand' = [hand EXCEPT ![c] =
                   {FlushJob(k, StoreEntry(s, writes[k] + 1).version,
                             writes[k] + 1, "put")}]
            /\ writes' = [writes EXCEPT ![k] = @ + 1]
            /\ UNCHANGED <<queue, wpc, wjob>>
    BY Zenon, <1>2, <1>4, PutCallEffect
  <2> DEFINE t == StoreEntry(s, writes[k] + 1)
             job == FlushJob(k, t.version, writes[k] + 1, "put")
  <2>2. /\ s \in Slot
        /\ slot[k].pending > 0 => s.mark = slot[k].mark
    <3>1. RemoveEntry(slot[k]) \in Slot
      BY Zenon, <1>2, RemoveEntryCoherent DEF Coherent
    <3>2. RemoveEntry(slot[k]).pending = slot[k].pending
      BY Zenon, <1>2, SlotPending
    <3>3. slot[k].pending > 0 => RemoveEntry(slot[k]).mark = slot[k].mark
      BY Zenon, <1>2, <3>2, SlotMarks
    <3> QED BY Zenon, <1>2, <2>1, <3>1, <3>3
  <2>3. /\ t \in Slot /\ t.mark = s.mark + 1 /\ t.tomb = 0
        /\ t.version = s.mark + 1
    <3>1. writes[k] + 1 \in Nat
      BY <1>2
    <3>2. \A w : /\ StoreEntry(s, w).mark = s.mark + 1
                 /\ StoreEntry(s, w).tomb = 0
                 /\ StoreEntry(s, w).version = s.mark + 1
      BY Zenon, <2>2, SlotMarks
    <3>3. StoreEntry(s, writes[k] + 1) \in Slot
      BY Zenon, <2>2, <3>1, StoreEntryCoherent
    <3> QED BY Zenon, <3>2, <3>3
  <2>4. slot'[k] = RegisterPending(t)
    BY Zenon, <2>1 DEF AfterPut
  <2>5. slot'[k].mark = s.mark + 1 /\ slot'[k].tomb = 0
    BY Zenon, <2>3, <2>4, SlotMarks
  <2>6. /\ job.key = k /\ job.version = s.mark + 1 /\ job.op = "put"
        /\ job.write = writes'[k] /\ writes'[k] = writes[k] + 1
    BY Zenon, <1>2, <2>1, <2>3 DEF FlushJob
  <2>7. hand' = [hand EXCEPT ![c] = {job}]
    BY Zenon, <2>1
  <2> HIDE DEF t, job
  <2>8. ASSUME NEW x \in Keys \ {k}
        PROVE  /\ writes'[x] = writes[x]
               /\ slot'[x].pending > 0 =>
                      slot'[x].mark = slot[x].mark /\ slot'[x].tomb = slot[x].tomb
    <3>1. slot'[x] = IF x \in E THEN RemoveEntry(slot[x]) ELSE slot[x]
      BY Zenon, <2>1 DEF AfterPut
    <3>2. writes'[x] = writes[x]
      BY Zenon, <1>2, <2>1
    <3> QED BY Zenon, <1>2, <3>1, <3>2, SlotMarks
  <2>9. ASSUME NEW j \in InFlight'
        PROVE  (\E i \in InFlight : SameJob(j, i)) \/ j = job
    <3>1. CASE j \in hand'[c]
      BY Zenon, <1>2, <2>7, <3>1
    <3>2. CASE j \notin hand'[c]
      <4>1. j \in InFlight
        BY Zenon, <1>2, <2>1, <2>7, <3>2, InFlightPlaces
      <4> QED BY Zenon, <1>3, <4>1
    <3> QED BY Zenon, <3>1, <3>2
  <2>10. s.mark \in Nat
    BY Zenon, <2>2 DEF Slot
  <2>11. {k} \in SUBSET Keys
    BY Zenon
  <2>12. \A x \in {k} : /\ writes'[x] = writes[x] + 1
                        /\ slot[x].pending > 0 => slot'[x].mark = slot[x].mark + 1
    BY Zenon, <2>2, <2>5, <2>6
  <2>13. \A j \in InFlight' :
             \/ \E i \in InFlight : SameJob(j, i)
             \/ /\ j.key \in {k}
                /\ j.version > 0 /\ j.version = slot'[j.key].mark
                /\ j.write = writes'[j.key]
                /\ slot'[j.key].tomb = IF j.op = "put" THEN 0 ELSE slot'[j.key].mark
    BY <2>5, <2>6, <2>9, <2>10
  <2> QED BY Zenon, <1>1, <2>8, <2>11, <2>12, <2>13, StepNumbered
<1>5. ASSUME NEW k \in Keys, Delete(c, k)
      PROVE  JobsNumbered(X)'
  <2> DEFINE job == FlushJob(k, slot[k].mark + 1, writes[k] + 1, "delete")
  <2>1. /\ slot' = [slot EXCEPT ![k] = DeleteEntry(slot[k])]
        /\ hand' = [hand EXCEPT ![c] = {job}]
        /\ writes' = [writes EXCEPT ![k] = @ + 1]
        /\ UNCHANGED <<queue, wpc, wjob>>
    BY Zenon, <1>5 DEF Delete
  <2>2. slot[k].mark \in Nat
    BY Zenon, <1>2 DEF Slot
  <2>3. slot'[k] = DeleteEntry(slot[k]) /\ writes'[k] = writes[k] + 1
    BY Zenon, <1>2, <2>1
  <2>4. slot'[k].mark = slot[k].mark + 1 /\ slot'[k].tomb = slot[k].mark + 1
    BY Zenon, <1>2, <2>3, SlotMarks
  <2>5. /\ job.key = k /\ job.version = slot[k].mark + 1 /\ job.op = "delete"
        /\ job.write = writes[k] + 1
    BY Zenon DEF FlushJob
  <2> HIDE DEF job
  <2>6. \A x \in Keys \ {k} :
            /\ writes'[x] = writes[x]
            /\ slot'[x].pending > 0 =>
                   slot'[x].mark = slot[x].mark /\ slot'[x].tomb = slot[x].tomb
    BY Zenon, <1>2, <2>1
  <2>7. ASSUME NEW j \in InFlight'
        PROVE  (\E i \in InFlight : SameJob(j, i)) \/ j = job
    <3>1. CASE j \in hand'[c]
      BY Zenon, <1>2, <2>1, <3>1
    <3>2. CASE j \notin hand'[c]
      <4>1. j \in InFlight
        BY Zenon, <1>2, <2>1, <3>2, InFlightPlaces
      <4> QED BY Zenon, <1>3, <4>1
    <3> QED BY Zenon, <3>1, <3>2
  <2>8. {k} \in SUBSET Keys
    BY Zenon
  <2>9. \A x \in {k} : /\ writes'[x] = writes[x] + 1
                       /\ slot[x].pending > 0 => slot'[x].mark = slot[x].mark + 1
    BY Zenon, <2>3, <2>4
  <2>10. \A j \in InFlight' :
             \/ \E i \in InFlight : SameJob(j, i)
             \/ /\ j.key \in {k}
                /\ j.version > 0 /\ j.version = slot'[j.key].mark
                /\ j.write = writes'[j.key]
                /\ slot'[j.key].tomb = IF j.op = "put" THEN 0 ELSE slot'[j.key].mark
    BY <2>2, <2>3, <2>4, <2>5, <2>7
  <2> QED BY Zenon, <1>1, <2>6, <2>8, <2>9, <2>10, StepNumbered
<1>6. ASSUME UNCHANGED writes,
             \A x \in Keys : slot'[x].pending > 0 =>
                 slot'[x].mark = slot[x].mark /\ slot'[x].tomb = slot[x].tomb,
             \A j \in InFlight' : j \in InFlight
      PROVE  JobsNumbered(X)'
  <2>1. {} \in SUBSET Keys /\ \A j \in InFlight' : \E i \in InFlight : SameJob(j, i)
    BY Zenon, <1>3, <1>6
  <2> QED BY Zenon, <1>1, <1>6, <2>1, StepNumbered
<1>7. CASE StartClear(c)
  <2>1. \A j \in InFlight' : j \in InFlight
    BY Zenon, <1>7, InFlightPlaces DEF StartClear
  <2> QED BY Zenon, <1>6, <1>7, <2>1 DEF StartClear
<1>8. CASE ClearShard(c)
  <2> DEFINE live == Live(slot, nextShard[c])
             F(k) == FlushJob(k, slot[k].mark + 1, writes[k] + 1, "delete")
  <2>1. /\ slot' = [k \in Keys |-> IF k \in live THEN DeleteEntry(slot[k])
                                                 ELSE slot[k]]
        /\ writes' = [k \in Keys |-> IF k \in live THEN writes[k] + 1
                                                   ELSE writes[k]]
        /\ hand' = [hand EXCEPT ![c] = hand[c] \cup {F(k) : k \in live}]
        /\ UNCHANGED <<queue, wpc, wjob>>
    BY Zenon, <1>8 DEF ClearShard
  <2>2. live \in SUBSET Keys
    BY Zenon DEF Live
  <2>3. \A k \in live : /\ F(k).key = k /\ F(k).version = slot[k].mark + 1
                        /\ F(k).op = "delete" /\ F(k).write = writes[k] + 1
    BY Zenon DEF FlushJob
  <2> HIDE DEF live, F
  <2>4. \A k \in live : slot[k].mark \in Nat
    BY Zenon, <1>2, <2>2 DEF Slot
  <2>5. \A k \in live : slot'[k] = DeleteEntry(slot[k]) /\ writes'[k] = writes[k] + 1
    BY Zenon, <2>1, <2>2
  <2>6. \A k \in live : slot'[k].mark = slot[k].mark + 1 /\ slot'[k].tomb = slot[k].mark + 1
    BY Zenon, <1>2, <2>2, <2>5, SlotMarks
  <2>7. \A x \in Keys \ live :
            /\ writes'[x] = writes[x]
            /\ slot'[x].pending > 0 =>
                   slot'[x].mark = slot[x].mark /\ slot'[x].tomb = slot[x].tomb
    BY Zenon, <2>1
  <2>8. ASSUME NEW j \in InFlight'
        PROVE  (\E i \in InFlight : SameJob(j, i)) \/ \E k \in live : j = F(k)
    <3>1. CASE j \in hand'[c]
      <4>1. j \in hand[c] \/ \E k \in live : j = F(k)
        BY Zenon, <1>2, <2>1, <3>1
      <4> QED BY Zenon, <1>3, <4>1, InFlightPlaces
    <3>2. CASE j \notin hand'[c]
      <4>1. j \in InFlight
        BY SMTT(30), <1>2, <2>1, <3>2, InFlightPlaces
      <4> QED BY Zenon, <1>3, <4>1
    <3> QED BY Zenon, <3>1, <3>2
  <2>9. \A x \in live : /\ writes'[x] = writes[x] + 1
                        /\ slot[x].pending > 0 => slot'[x].mark = slot[x].mark + 1
    BY Zenon, <2>5, <2>6
  <2>10. \A j \in InFlight' :
             \/ \E i \in InFlight : SameJob(j, i)
             \/ /\ j.key \in live
                /\ j.version > 0 /\ j.version = slot'[j.key].mark
                /\ j.write = writes'[j.key]
                /\ slot'[j.key].tomb = IF j.op = "put" THEN 0 ELSE slot'[j.key].mark
    BY <2>3, <2>4, <2>5, <2>6, <2>8
  <2> QED BY Zenon, <1>1, <2>2, <2>7, <2>9, <2>10, StepNumbered
<1>9. CASE Enqueue(c)
  <2>1. PICK j \in hand[c] :
             /\ queue' = Append(queue, j)
             /\ hand' = [hand EXCEPT ![c] = hand[c] \ {j}]
    BY Zenon, <1>9 DEF Enqueue, NextJobs
  <2>2. UNCHANGED <<slot, wpc, wjob, writes>>
    BY Zenon, <1>9 DEF Enqueue
  <2>3. \A i \in DOMAIN queue' : queue'[i] = j \/ \E n \in DOMAIN queue : queue'[i] = queue[n]
    BY <1>2, <2>1
  <2>4. \A d \in Clients : hand'[d] \subseteq hand[d]
    BY Zenon, <1>2, <2>1
  <2>5. \A i \in InFlight' : i \in InFlight
    BY <2>1, <2>2, <2>3, <2>4, InFlightPlaces
  <2> QED BY Zenon, <1>6, <2>2, <2>5
<1>10. CASE EnqueueTimeout(c)
  <2>1. \A j \in InFlight' : j \in InFlight
    BY Zenon, <1>10, InFlightPlaces DEF EnqueueTimeout
  <2> QED BY Zenon, <1>6, <1>10, <2>1 DEF EnqueueTimeout
<1>11. CASE Release(c)
  <2>1. PICK j \in hand[c] :
             /\ slot' = [slot EXCEPT ![j.key] = ResolvePending(slot[j.key])]
             /\ hand' = [hand EXCEPT ![c] = hand[c] \ {j}]
    BY Zenon, <1>11 DEF Release, NextJobs
  <2>2. UNCHANGED <<queue, wpc, wjob, writes>>
    BY Zenon, <1>11 DEF Release
  <2>3. \A d \in Clients : hand'[d] \subseteq hand[d]
    BY Zenon, <1>2, <2>1
  <2>4. \A i \in InFlight' : i \in InFlight
    BY Zenon, <2>2, <2>3, InFlightPlaces
  <2>5. ASSUME NEW x \in Keys, slot'[x].pending > 0
        PROVE  slot'[x].mark = slot[x].mark /\ slot'[x].tomb = slot[x].tomb
    <3>1. slot'[x] = IF x = j.key THEN ResolvePending(slot[x]) ELSE slot[x]
      BY Zenon, <1>2, <2>1
    <3> QED BY Zenon, <1>2, <2>5, <3>1, SlotMarks
  <2> QED BY Zenon, <1>6, <2>2, <2>4, <2>5
<1> QED BY Zenon, <1>4, <1>5, <1>7, <1>8, <1>9, <1>10, <1>11
        DEF ClientCall, ClientProgress

\* A worker step creates no job, accepts no write and leaves the marks of
\* pending keys alone.
LEMMA WorkerStepJobs ==
    ASSUME NEW J, Job \subseteq J, NEW P, Good(J, P),
           NEW w \in Workers, WorkerStep(w), Take(w) => Head(queue) \in Job
    PROVE  /\ UNCHANGED writes
           /\ \A x \in Keys : slot'[x].pending > 0 =>
                  slot'[x].mark = slot[x].mark /\ slot'[x].tomb = slot[x].tomb
           /\ \A j \in InFlight' : \E i \in InFlight : SameJob(j, i)
<1>1. /\ \A x \in Keys : slot[x] \in Slot
      /\ slot \in [Keys -> Slot] /\ queue \in Seq(J)
      /\ wpc \in [Workers -> P] /\ wjob \in [Workers -> J \cup {NoJob}]
  BY Zenon, SlotTypes
<1>2. wpc[w] \in FlushPhases =>
          /\ wjob[w] \in Job /\ wjob[w].key \in Keys
          /\ wpc[w] = "retry" => wjob[w].retries > 0
  BY Zenon DEF Good, FlushersHoldJobs, Job
<1>3. UNCHANGED <<hand, writes>>
  BY SMTT(30) DEF WorkerStep, Take, Skip, Pass, Apply, ApplyFails, Settle, Retry,
         RetryTimeout, GiveUp
<1>4. ASSUME NEW j \in InFlight'
      PROVE  \E i \in InFlight : SameJob(j, i)
  <2>1. \A i \in InFlight : SameJob(i, i)
    BY SMTT(30) DEF SameJob
  <2>2. CASE \E c \in Clients : j \in hand'[c]
    BY Zenon, <1>3, <2>1, <2>2, InFlightPlaces
  <2>3. CASE \E v \in Workers : wpc'[v] \in FlushPhases /\ j = wjob'[v]
    <3>1. PICK v \in Workers : wpc'[v] \in FlushPhases /\ j = wjob'[v]
      BY Zenon, <2>3
    <3>2. CASE wpc[v] \in FlushPhases /\ wjob'[v] = wjob[v]
      BY Zenon, <2>1, <3>1, <3>2, InFlightPlaces
    <3>3. CASE ~(wpc[v] \in FlushPhases /\ wjob'[v] = wjob[v])
      <4>1. Take(w) /\ v = w
        BY SMTT(30), <1>1, <3>1, <3>3
        DEF WorkerStep, Take, Skip, Pass, Apply, ApplyFails, Settle, Retry,
            RetryTimeout, GiveUp, Goto, Finish, FlushPhases, Phases
      <4>2. wjob'[v] = Head(queue) /\ queue # <<>>
        BY Zenon, <1>1, <4>1 DEF Take
      <4>3. 1 \in DOMAIN queue /\ Head(queue) = queue[1]
        BY <1>1, <4>2
      <4> QED BY SMTT(30), <2>1, <3>1, <4>1, <4>2, <4>3, InFlightPlaces
    <3> QED BY Zenon, <3>2, <3>3
  <2>4. CASE \E n \in DOMAIN queue' : queue'[n] \in Job /\ j = queue'[n]
    <3>1. PICK n \in DOMAIN queue' : queue'[n] \in Job /\ j = queue'[n]
      BY Zenon, <2>4
    <3>2. CASE Take(w)
      <4>1. queue' = Tail(queue) /\ queue # <<>>
        BY Zenon, <3>2 DEF Take
      <4>2. n + 1 \in DOMAIN queue /\ queue'[n] = queue[n + 1]
        BY <1>1, <3>1, <4>1
      <4> QED BY Zenon, <2>1, <3>1, <4>2, InFlightPlaces
    <3>3. CASE Retry(w)
      <4> DEFINE r == [wjob[w] EXCEPT !.retries = @ - 1]
      <4>1. /\ queue' = Append(queue, r)
            /\ wpc[w] = "retry" /\ wpc[w] \in FlushPhases
            /\ wjob[w] \in Job /\ wjob[w].retries > 0
        BY Zenon, <1>2, <3>3 DEF Retry, FlushPhases, Phases
      <4>2. r \in Job /\ SameJob(r, wjob[w])
        BY Zenon, <4>1, RetriedJob
      <4> HIDE DEF r
      <4>3. (n \in DOMAIN queue /\ j = queue[n]) \/ j = r
        BY <1>1, <3>1, <4>1, <4>2
      <4> QED BY ZenonT(30), <2>1, <3>1, <4>1, <4>2, <4>3, InFlightPlaces
    <3>4. CASE ~Take(w) /\ ~Retry(w)
      <4>1. queue' = queue
        BY ZenonT(30), <3>4 DEF WorkerStep, Skip, Pass, Apply, ApplyFails, Settle,
                    RetryTimeout, GiveUp
      <4> QED BY SMTT(30), <2>1, <3>1, <4>1, InFlightPlaces
    <3> QED BY Zenon, <3>2, <3>3, <3>4
  <2> QED BY Zenon, <2>2, <2>3, <2>4, InFlightPlaces
<1>5. ASSUME NEW x \in Keys, slot'[x].pending > 0
      PROVE  slot'[x].mark = slot[x].mark /\ slot'[x].tomb = slot[x].tomb
  <2> DEFINE k == wjob[w].key
             t == MarkClean(slot[k], wjob[w])
  <2>1. CASE Skip(w) \/ GiveUp(w)
    <3>1. slot'[x] = IF x = k THEN ResolvePending(slot[x]) ELSE slot[x]
      BY SMTT(30), <1>1, <2>1 DEF Skip, GiveUp
    <3> QED BY Zenon, <1>1, <1>5, <3>1, SlotMarks
  <2>2. CASE Settle(w)
    <3>1. k \in Keys
      BY Zenon, <1>2, <2>2 DEF Settle, FlushPhases, Phases
    <3>2. slot[k] \in Slot /\ Coherent(slot[k])
      BY SMTT(30), <3>1, SlotTypes
    <3>3. t \in Slot /\ t.mark = slot[k].mark /\ t.tomb = slot[k].tomb
      BY SMTT(30), <3>2, MarkCleanCoherent, SlotMarks
    <3>4. slot' = [slot EXCEPT ![k] = ResolvePending(t)]
      BY Zenon, <2>2 DEF Settle
    <3> HIDE DEF t, k
    <3>5. slot'[x] = IF x = k THEN ResolvePending(t) ELSE slot[x]
      BY SMTT(30), <1>1, <3>4
    <3> QED BY Zenon, <1>5, <3>3, <3>5, SlotMarks
  <2>3. CASE ~(Skip(w) \/ GiveUp(w) \/ Settle(w))
    BY ZenonT(30), <2>3 DEF WorkerStep, Take, Pass, Apply, ApplyFails, Retry, RetryTimeout
  <2> QED BY ZenonT(30), <2>1, <2>2, <2>3
<1> QED BY Zenon, <1>3, <1>4, <1>5

LEMMA WorkerStepNumbered ==
    ASSUME NEW J, Job \subseteq J, NEW P, Phases \subseteq P, NEW X, NumberGood(J, P, X),
           NEW w \in Workers, WorkerStep(w), Take(w) => Head(queue) \in Job
    PROVE  NumberGood(J, P, X)'
<1>1. /\ Counted(J, P, X) /\ Counted(J, P, X)'
      /\ JobsNumbered(X) /\ X \in SUBSET Job /\ {} \in SUBSET Keys
  BY Zenon, WorkerStepCount DEF NumberGood
<1>2. /\ UNCHANGED writes
      /\ \A x \in Keys : slot'[x].pending > 0 =>
             slot'[x].mark = slot[x].mark /\ slot'[x].tomb = slot[x].tomb
      /\ \A j \in InFlight' : \E i \in InFlight : SameJob(j, i)
  BY Zenon, <1>1, WorkerStepJobs DEF Counted
<1>3. JobsNumbered(X)'
  BY Zenon, <1>1, <1>2, StepNumbered
<1> QED BY Zenon, <1>1, <1>3 DEF NumberGood

LEMMA ExpireNumbered ==
    ASSUME NEW J, NEW P, NEW X, NumberGood(J, P, X), NEW k \in Keys, Expire(k)
    PROVE  NumberGood(J, P, X)'
<1>1. /\ Counted(J, P, X) /\ Counted(J, P, X)'
      /\ JobsNumbered(X) /\ X \in SUBSET Job /\ {} \in SUBSET Keys
  BY Zenon, ExpireCount DEF NumberGood
<1>2. slot \in [Keys -> Slot] /\ \A x \in Keys : slot[x] \in Slot
  BY Zenon, <1>1, SlotTypes DEF Counted
<1>3. UNCHANGED <<queue, hand, wpc, wjob, writes>>
  BY Zenon DEF Expire
<1>4. \A j \in InFlight' : j \in InFlight /\ SameJob(j, j)
  BY Zenon, <1>3 DEF InFlight, SameJob
<1>5. ASSUME NEW x \in Keys, slot'[x].pending > 0
      PROVE  slot'[x].mark = slot[x].mark /\ slot'[x].tomb = slot[x].tomb
  <2>1. slot'[x] = IF x = k THEN RemoveEntry(slot[x]) ELSE slot[x]
    BY Zenon, <1>2 DEF Expire
  <2> QED BY Zenon, <1>2, <1>5, <2>1, SlotMarks
<1>6. JobsNumbered(X)'
  BY Zenon, <1>1, <1>3, <1>4, <1>5, StepNumbered
<1> QED BY Zenon, <1>1, <1>6 DEF NumberGood

\* A numbered job is stale exactly when it has been superseded.
LEMMA NumberedJobs ==
    ASSUME NEW J, NEW P, NEW X, NumberGood(J, P, X), NEW j \in InFlight
    PROVE  /\ j \in Job /\ j.key \in Keys
           /\ IsStale(slot[j.key], j) <=> j.write # writes[j.key]
<1>1. Counted(J, P, X) /\ X \in SUBSET Job
  BY Zenon DEF NumberGood
<1>2. j \in Job /\ j.key \in Keys /\ Numbered(slot[j.key], writes[j.key], j)
  BY Zenon, <1>1, InFlightJobs DEF CountedArePending, NumberGood, JobsPending, JobsNumbered
<1>3. slot[j.key] \in Slot /\ writes[j.key] \in Nat
  BY Zenon, <1>1, <1>2, SlotTypes DEF Counted
<1> QED BY <1>2, <1>3 DEF IsStale, Numbered, Job, Slot

LEMMA NumberInvIsExact == NumberInv => StaleIffSuperseded
<1> SUFFICES ASSUME NumberInv PROVE StaleIffSuperseded
  BY Zenon
<1>1. Inv
  BY Zenon, InvIsGood DEF NumberInv, NumberGood, Counted
<1>2. InFlight = Outstanding
  BY Zenon, <1>1, InFlightIsOutstanding
<1> QED BY Zenon, <1>2, NumberedJobs DEF NumberInv, StaleIffSuperseded

\* Nothing is in flight at the start.
LEMMA NumberInvInit == Init => NumberInv /\ InFlight = {}
<1> SUFFICES ASSUME Init PROVE NumberInv /\ InFlight = {}
  BY Zenon
<1>1. InFlight = {}
  BY InFlightPlaces DEF Init, FlushPhases
<1>2. Counted(Job, Phases, {})
  BY Zenon, CountInvInit, CountInvIsCounted
<1> QED BY Zenon, <1>1, <1>2 DEF NumberInv, NumberGood, JobsNumbered

LEMMA NumberInvStep ==
    ASSUME ~EvictsNewest, NumberInv, [Next]_vars
    PROVE  NumberInv'
<1>1. NumberGood(Job, Phases, {})
  BY Zenon DEF NumberInv
<1>2. \A w \in Workers : Take(w) => Head(queue) \in Job
  BY <1>1 DEF NumberGood, Counted, Good, Typed, Take
<1>3. CASE UNCHANGED vars
  <2>1. CountInv
    BY Zenon, <1>1, CountInvIsCounted DEF NumberGood
  <2>2. CountInv'
    BY Zenon, <2>1, CountInvStep
  <2>3. Counted(Job, Phases, {})'
    BY <2>2, CountInvIsCounted, PTL
  <2>4. JobsNumbered({})'
    BY ZenonT(60), <1>1, <1>3 DEF NumberGood, JobsNumbered, Numbered, InFlight, vars
  <2> QED BY Zenon, <2>3, <2>4 DEF NumberInv, NumberGood
<1>4. CASE Next
  <2>1. NumberGood(Job, Phases, {})' \/ UNCHANGED vars
    BY Zenon, <1>1, <1>2, <1>4, ClientStepIsCall, ClientStepNumbered, WorkerStepNumbered,
       ExpireNumbered DEF Next
  <2> QED BY Zenon, <1>3, <2>1 DEF NumberInv
<1> QED BY Zenon, <1>3, <1>4

\* The numbering is an invariant when the policy spares the key just put.
THEOREM JobsStayNumbered ==
    ASSUME ~EvictsNewest
    PROVE  Spec => []NumberInv
<1>1. NumberInv /\ [Next]_vars => NumberInv'
  BY Zenon, NumberInvStep
<1> QED BY <1>1, NumberInvInit, PTL DEF Spec

\* is_stale_write_back judges a job stale exactly when a later write of its key
\* was accepted, for any number of clients and workers, any queue size and
\* retry count, as long as the policy never evicts the key just put.
THEOREM StalenessIsExact ==
    ASSUME ~EvictsNewest
    PROVE  Spec => []StaleIffSuperseded
BY JobsStayNumbered, NumberInvIsExact, PTL

-----------------------------------------------------------------------------
(* One worker.                                                             *)

\* A cached entry is the latest write of its key.
EntriesNewest == \A k \in Keys : Cached(slot[k]) => slot[k].write = writes[k]

\* The source of truth is never ahead of the accepted writes; what a worker is
\* about to apply is no older than what the source holds, and what it settles
\* is what the source holds.
SourceBehind == \A k \in Keys : source[k] <= writes[k]

AppliesForward ==
    \A w \in Workers : wpc[w] = "apply" => source[wjob[w].key] <= wjob[w].write

SettlesApplied ==
    \A w \in Workers : wpc[w] = "settle" => source[wjob[w].key] = wjob[w].write

\* Jobs that are being given up have been reported.
FailuresReported ==
    /\ \A c \in Clients : cpc[c] = "release" =>
           \A j \in hand[c] : j.write \in reported[j.key]
    /\ \A w \in Workers : wpc[w] = "giveup" => wjob[w].write \in reported[wjob[w].key]

\* The latest write of a key has reached the source, is on its way, or failed
\* and was reported.
Accounted ==
    \A k \in Keys :
        \/ source[k] = writes[k]
        \/ \E j \in InFlight : j.key = k /\ j.write = writes[k]
        \/ writes[k] \in reported[k]

SourceInv ==
    EntriesNewest /\ SourceBehind /\ AppliesForward /\ SettlesApplied
        /\ CleanMeansPersisted

FlushGood(J, P, X) ==
    NumberGood(J, P, X) /\ SourceInv /\ FailuresReported /\ Accounted

FlushInv == FlushGood(Job, Phases, {})

\* After a client step the slot of x holds no entry, the entry it held, or the
\* dirty entry of the latest write.
EntryStep(x) ==
    \/ ~Cached(slot'[x])
    \/ SameEntry(slot'[x], slot[x]) /\ writes'[x] = writes[x]
    \/ slot'[x].dirty /\ slot'[x].write = writes'[x]

LEMMA ClientStepEntries ==
    ASSUME NEW J, NEW P, Good(J, P), ~EvictsNewest,
           NEW c \in Clients, ClientCall(c)
    PROVE  /\ \A x \in Keys : EntryStep(x) /\ writes[x] <= writes'[x]
           /\ UNCHANGED <<wpc, wjob, source>>
<1>1. /\ \A x \in Keys : slot[x] \in Slot /\ writes[x] \in Nat
      /\ slot \in [Keys -> Slot] /\ writes \in [Keys -> Nat]
      /\ hand \in [Clients -> SUBSET Job]
      /\ \A x \in Keys : Coherent(slot[x])
  BY Zenon, SlotTypes
<1>2. UNCHANGED <<wpc, wjob, source>>
  BY ZenonT(30) DEF ClientCall, ClientProgress, PutCall, PutEvicting, Delete, StartClear,
         ClearShard, Enqueue, EnqueueTimeout, Release
<1> SUFFICES ASSUME NEW x \in Keys
             PROVE  EntryStep(x) /\ writes[x] <= writes'[x]
  BY Zenon, <1>2
<1>3. ASSUME NEW k \in Keys, PutCall(c, k)
      PROVE  EntryStep(x) /\ writes[x] <= writes'[x]
  <2>1. PICK s \in {slot[k], RemoveEntry(slot[k])}, E \in SUBSET Keys :
            /\ k \notin E
            /\ slot' = AfterPut(k, s, E)
            /\ writes' = [writes EXCEPT ![k] = @ + 1]
    BY Zenon, <1>1, <1>3, PutCallEffect
  <2>2. writes'[x] = IF x = k THEN writes[x] + 1 ELSE writes[x]
    BY Zenon, <1>1, <2>1
  <2>3. CASE x = k
    <3> DEFINE t == StoreEntry(s, writes[k] + 1)
    <3>1. s \in Slot
      <4>1. RemoveEntry(slot[k]) \in Slot
        BY Zenon, <1>1, RemoveEntryCoherent DEF Coherent
      <4> QED BY Zenon, <1>1, <2>1, <4>1
    <3>2. writes[k] + 1 \in Nat
      BY <1>1
    <3>3. t \in Slot
      BY Zenon, <3>1, <3>2, StoreEntryCoherent
    <3>4. t.write = writes[k] + 1 /\ t.dirty
      BY Zenon, <3>1, SlotEntries
    <3>5. slot'[k] = RegisterPending(t)
      BY Zenon, <2>1 DEF AfterPut
    <3> HIDE DEF t
    <3>6. SameEntry(slot'[k], t)
      BY SMTT(30), <3>3, <3>5, SlotEntries
    <3> QED BY <1>1, <2>2, <2>3, <3>4, <3>6 DEF EntryStep, SameEntry
  <2>4. CASE x # k
    <3>1. slot'[x] = IF x \in E THEN RemoveEntry(slot[x]) ELSE slot[x]
      BY SMTT(30), <2>1, <2>4 DEF AfterPut
    <3> QED BY SMTT(30), <1>1, <2>2, <2>4, <3>1, SlotEntries DEF EntryStep, SameEntry
  <2> QED BY Zenon, <2>3, <2>4
<1>4. ASSUME NEW k \in Keys, Delete(c, k)
      PROVE  EntryStep(x) /\ writes[x] <= writes'[x]
  <2>1. /\ slot'[x] = IF x = k THEN DeleteEntry(slot[x]) ELSE slot[x]
        /\ writes'[x] = IF x = k THEN writes[x] + 1 ELSE writes[x]
    BY SMTT(30), <1>1, <1>4 DEF Delete
  <2> QED BY <1>1, <2>1, SlotEntries DEF EntryStep, SameEntry
<1>5. CASE ClearShard(c)
  <2> DEFINE live == Live(slot, nextShard[c])
  <2>1. /\ slot'[x] = IF x \in live THEN DeleteEntry(slot[x]) ELSE slot[x]
        /\ writes'[x] = IF x \in live THEN writes[x] + 1 ELSE writes[x]
    BY ZenonT(30), <1>5 DEF ClearShard
  <2> HIDE DEF live
  <2> QED BY SMTT(30), <1>1, <2>1, SlotEntries DEF EntryStep, SameEntry
<1>6. CASE Release(c)
  <2>1. PICK j \in hand[c] :
            slot' = [slot EXCEPT ![j.key] = ResolvePending(slot[j.key])]
    BY Zenon, <1>6 DEF Release, NextJobs
  <2>2. slot'[x] = IF x = j.key THEN ResolvePending(slot[x]) ELSE slot[x]
    BY Zenon, <1>1, <2>1
  <2>3. UNCHANGED writes
    BY Zenon, <1>6 DEF Release
  <2> QED BY SMTT(30), <1>1, <2>2, <2>3, SlotEntries DEF EntryStep, SameEntry
<1>7. CASE StartClear(c) \/ Enqueue(c) \/ EnqueueTimeout(c)
  BY <1>1, <1>7 DEF StartClear, Enqueue, EnqueueTimeout, EntryStep, SameEntry
<1> QED BY ZenonT(30), <1>3, <1>4, <1>5, <1>6, <1>7 DEF ClientCall, ClientProgress

LEMMA ClientStepSource ==
    ASSUME NEW J, Job \subseteq J, NEW P, NEW X, Counted(J, P, X), ~EvictsNewest,
           SourceInv, NEW c \in Clients, ClientCall(c)
    PROVE  SourceInv'
<1>1. /\ \A x \in Keys : EntryStep(x) /\ writes[x] <= writes'[x]
      /\ UNCHANGED <<wpc, wjob, source>>
  BY Zenon, ClientStepEntries DEF Counted
<1>2. \A x \in Keys : source[x] \in Nat /\ writes[x] \in Nat /\ writes'[x] \in Nat
  <2>1. Counted(J, P, X)'
    BY Zenon, ClientStepCount
  <2>2. writes' \in [Keys -> Nat]
    BY Zenon, <2>1 DEF Counted, Good, Typed
  <2> QED BY Zenon, <2>2, SlotTypes DEF Counted
<1>3. EntriesNewest'
  BY Zenon, <1>1 DEF SourceInv, EntriesNewest, EntryStep, SameEntry, Cached
<1>4. SourceBehind'
  BY <1>1, <1>2 DEF SourceInv, SourceBehind
<1>5. AppliesForward' /\ SettlesApplied'
  BY Zenon, <1>1 DEF SourceInv, AppliesForward, SettlesApplied
<1>6. CleanMeansPersisted'
  BY Zenon, <1>1 DEF SourceInv, CleanMeansPersisted, EntryStep, SameEntry, Cached
<1> QED BY SMTT(30), <1>3, <1>4, <1>5, <1>6 DEF SourceInv

LEMMA ExpireSource ==
    ASSUME NEW J, NEW P, NEW X, Counted(J, P, X), SourceInv, NEW k \in Keys, Expire(k)
    PROVE  SourceInv'
<1>1. /\ \A x \in Keys : slot'[x] = IF x = k THEN RemoveEntry(slot[x]) ELSE slot[x]
      /\ UNCHANGED <<wpc, wjob, source, writes>>
  BY Zenon, SlotTypes DEF Counted, Expire
<1>2. ~Cached(RemoveEntry(slot[k]))
  BY SMTT(30), SlotTypes, SlotEntries DEF Counted
<1> QED BY SMTT(30), <1>1, <1>2 DEF SourceInv, EntriesNewest, SourceBehind, AppliesForward,
                          SettlesApplied, CleanMeansPersisted

\* With a single worker, a worker step never takes the source of truth back.
LEMMA WorkerStepSource ==
    ASSUME NEW J, Job \subseteq J, NEW P, NEW X, NumberGood(J, P, X),
           SourceInv, \A v, w \in Workers : v = w,
           NEW w \in Workers, WorkerStep(w), Take(w) => Head(queue) \in Job
    PROVE  SourceInv' /\ \A x \in Keys : source[x] <= source'[x]
<1>0. Counted(J, P, X) /\ X \in SUBSET Job /\ JobsNumbered(X)
  BY Zenon DEF NumberGood
<1>1. /\ slot \in [Keys -> Slot] /\ source \in [Keys -> Nat]
      /\ writes \in [Keys -> Nat]
      /\ wpc \in [Workers -> P] /\ wjob \in [Workers -> J \cup {NoJob}]
      /\ \A x \in Keys : slot[x] \in Slot /\ Coherent(slot[x])
      /\ \A x \in Keys : source[x] \in Nat /\ writes[x] \in Nat
  BY SMTT(30), <1>0 DEF Counted, Good, Typed, MetadataBounded
<1> DEFINE j == wjob[w]
           k == j.key
<1>2. wpc[w] \in FlushPhases =>
          /\ j \in Job /\ k \in Keys /\ j.write \in Nat /\ j.version \in Nat
          /\ Numbered(slot[k], writes[k], j) /\ j \in InFlight
  <2>1. wpc[w] \in FlushPhases => j \in InFlight
    BY Zenon, InFlightPlaces
  <2>2. JobsPending(X)
    BY Zenon, <1>0, InFlightJobs DEF CountedArePending
  <2> QED BY SMTT(30), <1>0, <2>1, <2>2 DEF JobsPending, JobsNumbered, Job
<1>3. UNCHANGED writes
  BY ZenonT(30), <1>0, WorkerStepJobs DEF Counted
<1>4. ASSUME UNCHANGED <<slot, source>>, wpc'[w] # "apply", wpc'[w] # "settle"
      PROVE  SourceInv' /\ \A x \in Keys : source[x] <= source'[x]
  BY SMTT(30), <1>1, <1>3, <1>4 DEF SourceInv, EntriesNewest, SourceBehind, AppliesForward,
                     SettlesApplied, CleanMeansPersisted
<1>5. CASE Take(w)
  BY Zenon, <1>1, <1>4, <1>5 DEF Take, Goto
<1>6. CASE ApplyFails(w)
  BY Zenon, <1>1, <1>4, <1>6 DEF ApplyFails, Goto
<1>7. CASE Retry(w)
  BY Zenon, <1>1, <1>4, <1>7 DEF Retry, Finish, Goto
<1>8. CASE RetryTimeout(w)
  BY SMTT(30), <1>4, <1>8 DEF RetryTimeout, Goto
<1>9. CASE Skip(w) \/ GiveUp(w)
  <2>1. /\ \A x \in Keys : slot'[x] = IF x = k THEN ResolvePending(slot[x]) ELSE slot[x]
        /\ wpc'[w] = "idle" /\ UNCHANGED source
    BY SMTT(30), <1>1, <1>9 DEF Skip, GiveUp, Finish, Goto
  <2> HIDE DEF k, j
  <2>2. \A x \in Keys : SameEntry(slot'[x], slot[x])
    BY ZenonT(30), <1>1, <2>1, SlotEntries DEF SameEntry
  <2> QED BY SMTT(30), <1>1, <1>3, <2>1, <2>2
          DEF SourceInv, EntriesNewest, SourceBehind, AppliesForward,
              SettlesApplied, CleanMeansPersisted, SameEntry, Cached
<1>10. CASE Pass(w)
  <2>1. /\ wpc[w] = "check" /\ ~IsStale(slot[k], j) /\ wpc'[w] = "apply"
        /\ UNCHANGED <<slot, wjob, source>>
    BY SMTT(30), <1>1, <1>10 DEF Pass, Goto
  <2>2. j.write = writes[k]
    BY SMTT(30), <1>2, <2>1, NumberedJobs DEF FlushPhases, Phases
  <2>3. source[k] <= j.write
    BY ZenonT(30), <1>2, <2>1, <2>2 DEF SourceInv, SourceBehind, FlushPhases, Phases
  <2> QED BY <1>1, <1>3, <2>1, <2>3
          DEF SourceInv, EntriesNewest, SourceBehind, AppliesForward,
              SettlesApplied, CleanMeansPersisted
<1>11. CASE Apply(w)
  <2>1. /\ wpc[w] = "apply" /\ wpc'[w] = "settle" /\ UNCHANGED <<slot, wjob>>
        /\ \A x \in Keys : source'[x] = IF x = k THEN j.write ELSE source[x]
    BY SMTT(30), <1>1, <1>11 DEF Apply, Goto
  <2>2. k \in Keys /\ source[k] <= j.write /\ j.write <= writes[k] /\ j.write \in Nat
    BY Zenon, <1>2, <2>1 DEF SourceInv, AppliesForward, Numbered, FlushPhases, Phases
  <2>3. source'[k] = j.write /\ wjob' = wjob
    BY Zenon, <2>1, <2>2
  <2>4. AppliesForward' /\ SettlesApplied'
    BY Zenon, <2>1, <2>3 DEF AppliesForward, SettlesApplied
  <2> HIDE DEF k, j
  <2>5. SourceBehind' /\ \A x \in Keys : source[x] <= source'[x]
    BY <1>1, <1>3, <2>1, <2>2 DEF SourceInv, SourceBehind
  <2>6. CleanMeansPersisted'
    <3> SUFFICES ASSUME NEW x \in Keys, Cached(slot[x]), ~slot[x].dirty
                 PROVE  source'[x] = slot[x].write
      BY Zenon, <2>1 DEF CleanMeansPersisted
    <3>1. source[x] = writes[x] /\ slot[x].write = writes[x]
      BY ZenonT(30) DEF SourceInv, CleanMeansPersisted, EntriesNewest
    <3> QED BY <1>1, <2>1, <2>2, <3>1
  <2> QED BY ZenonT(30), <1>3, <2>1, <2>4, <2>5, <2>6 DEF SourceInv, EntriesNewest
<1>12. CASE Settle(w)
  <2> DEFINE t == MarkClean(slot[k], j)
  <2>1. /\ slot' = [slot EXCEPT ![k] = ResolvePending(t)]
        /\ wpc[w] = "settle" /\ wpc'[w] = "idle" /\ UNCHANGED source
    BY Zenon, <1>1, <1>12 DEF Settle, Finish, Goto
  <2>2. k \in Keys /\ slot[k] \in Slot /\ Coherent(slot[k])
    BY Zenon, <1>1, <1>2, <2>1 DEF FlushPhases, Phases
  <2>3. t \in Slot
    BY Zenon, <2>2, MarkCleanCoherent
  <2>4. /\ t.version = slot[k].version /\ t.write = slot[k].write
        /\ t.dirty = slot[k].dirty \/ (Cached(slot[k]) /\ slot[k].version = j.version)
    BY Zenon, <2>2 DEF MarkClean, Slot
  <2>5. source[k] = j.write /\ Numbered(slot[k], writes[k], j)
    BY SMTT(30), <1>2, <2>1 DEF SourceInv, SettlesApplied, FlushPhases, Phases
  <2>6. Cached(slot[k]) /\ slot[k].version = j.version => source[k] = slot[k].write
    BY ZenonT(30), <2>2, <2>5 DEF SourceInv, EntriesNewest, Numbered, Coherent
  <2> HIDE DEF t, k, j
  <2>7. SameEntry(slot'[k], t) /\ \A x \in Keys \ {k} : slot'[x] = slot[x]
    BY SMTT(30), <1>1, <2>1, <2>2, <2>3, SlotEntries
  <2>8. EntriesNewest'
    BY SMTT(30), <1>3, <2>4, <2>7 DEF SourceInv, EntriesNewest, SameEntry, Cached
  <2>9. CleanMeansPersisted'
    BY SMTT(30), <2>1, <2>4, <2>6, <2>7 DEF SourceInv, CleanMeansPersisted, SameEntry, Cached
  <2> QED BY SMTT(30), <1>1, <1>3, <2>1, <2>8, <2>9
          DEF SourceInv, SourceBehind, AppliesForward, SettlesApplied
<1> QED BY ZenonT(30), <1>5, <1>6, <1>7, <1>8, <1>9, <1>10, <1>11, <1>12 DEF WorkerStep

\* A step keeps the latest writes accounted for if it creates the job of each
\* write it accepts and drops only jobs that were superseded, applied or
\* reported.
LEMMA StepAccounted ==
    ASSUME Accounted,
           \A x \in Keys :
               \/ \E j \in InFlight' : j.key = x /\ j.write = writes'[x]
               \/ /\ writes'[x] = writes[x]
                  /\ source[x] = writes[x] => source'[x] = writes[x]
                  /\ reported[x] \subseteq reported'[x],
           \A j \in InFlight : j.write = writes[j.key] =>
               \/ \E i \in InFlight' : SameJob(i, j)
               \/ j.write \in reported'[j.key]
               \/ source'[j.key] = j.write
    PROVE  Accounted'
<1> SUFFICES ASSUME NEW x \in Keys,
                    ~\E j \in InFlight' : j.key = x /\ j.write = writes'[x]
             PROVE  source'[x] = writes'[x] \/ writes'[x] \in reported'[x]
  BY Zenon DEF Accounted
<1>1. /\ writes'[x] = writes[x]
      /\ source[x] = writes[x] => source'[x] = writes[x]
      /\ reported[x] \subseteq reported'[x]
  BY Zenon
<1>2. ASSUME NEW j \in InFlight, j.key = x, j.write = writes[x]
      PROVE  source'[x] = writes'[x] \/ writes'[x] \in reported'[x]
  BY Zenon, <1>1, <1>2 DEF SameJob
<1> QED BY Zenon, <1>1, <1>2 DEF Accounted

\* Reports only grow, and Report covers the jobs it is given.
LEMMA ReportCovers ==
    ASSUME NEW jobs, Report(jobs)
    PROVE  /\ \A x \in Keys : reported[x] \subseteq reported'[x]
           /\ \A j \in jobs : j.key \in Keys => j.write \in reported'[j.key]
BY Zenon DEF Report

LEMMA ClientStepAccounted ==
    ASSUME NEW J, Job \subseteq J, NEW P, NEW X, Counted(J, P, X), ~EvictsNewest,
           FailuresReported, Accounted, NEW c \in Clients, ClientCall(c)
    PROVE  FailuresReported' /\ Accounted'
<1>1. /\ \A x \in Keys : slot[x] \in Slot /\ writes[x] \in Nat
      /\ slot \in [Keys -> Slot] /\ writes \in [Keys -> Nat]
      /\ hand \in [Clients -> SUBSET Job] /\ queue \in Seq(J)
      /\ cpc \in [Clients -> {"idle", "clear", "enqueue", "release"}]
      /\ \A j \in hand[c] : j \in Job /\ j.key \in Keys
  BY SlotTypes DEF Counted, Good, Typed, Job
<1>2. UNCHANGED <<wpc, wjob, source>>
  BY Zenon, ClientStepEntries DEF Counted
<1>3. \A j \in InFlight : SameJob(j, j)
  BY SMTT(30) DEF SameJob
<1>4. ASSUME \A d \in Clients \ {c} : hand'[d] = hand[d] /\ cpc'[d] = cpc[d],
             \A x \in Keys : reported[x] \subseteq reported'[x],
             cpc'[c] = "release" => \A j \in hand'[c] : j.write \in reported'[j.key]
      PROVE  FailuresReported'
  <2>1. \A d \in Clients : \A j \in hand[d] : j.key \in Keys
    BY SlotTypes DEF Counted, Job
  <2>2. \A w \in Workers : wpc[w] = "giveup" => wjob[w].key \in Keys
    BY ZenonT(30) DEF Counted, Good, FlushersHoldJobs, FlushPhases, Phases, Job
  <2> QED BY ZenonT(30), <1>2, <1>4, <2>1, <2>2 DEF FailuresReported
<1>5. ASSUME NEW k \in Keys, PutCall(c, k) \/ Delete(c, k)
      PROVE  FailuresReported' /\ Accounted'
  <2>1. PICK job :
            /\ hand' = [hand EXCEPT ![c] = {job}]
            /\ job.key = k /\ job.write = writes[k] + 1
    <3> DEFINE S(v) == FlushJob(k, v, writes[k] + 1, "put")
               D == FlushJob(k, slot[k].mark + 1, writes[k] + 1, "delete")
    <3>1. CASE PutCall(c, k)
      <4>0. PICK s \in {slot[k], RemoveEntry(slot[k])} :
                hand' = [hand EXCEPT ![c] = {S(StoreEntry(s, writes[k] + 1).version)}]
        BY <1>1, <3>1, PutCallEffect
      <4>1. PICK v : hand' = [hand EXCEPT ![c] = {S(v)}]
        BY Zenon, <4>0
      <4>2. S(v).key = k /\ S(v).write = writes[k] + 1
        BY ZenonT(30) DEF FlushJob
      <4> QED BY Zenon, <4>1, <4>2
    <3>2. CASE Delete(c, k)
      <4>1. hand' = [hand EXCEPT ![c] = {D}]
        BY Zenon, <3>2 DEF Delete
      <4>2. D.key = k /\ D.write = writes[k] + 1
        BY Zenon DEF FlushJob
      <4> QED BY Zenon, <4>1, <4>2
    <3> QED BY ZenonT(30), <1>5, <3>1, <3>2
  <2>2. /\ cpc[c] = "idle" /\ cpc' = [cpc EXCEPT ![c] = "enqueue"]
        /\ writes' = [writes EXCEPT ![k] = @ + 1]
        /\ UNCHANGED <<queue, reported>>
    BY Zenon, <1>5 DEF PutCall, PutEvicting, Delete
  <2>3. FailuresReported'
    BY Zenon, <1>1, <1>4, <2>1, <2>2
  <2>4. hand[c] = {}
    BY Zenon, <2>2 DEF Counted, HandsInOrder
  <2>5. \A j \in InFlight : j \in InFlight'
    <3>1. \A d \in Clients : hand[d] \subseteq hand'[d]
      BY SMTT(30), <1>1, <2>1, <2>4
    <3> QED BY Zenon, <1>2, <2>2, <3>1, InFlightPlaces
  <2>6. job \in InFlight' /\ job.key = k /\ job.write = writes'[k]
    BY Zenon, <1>1, <2>1, <2>2, InFlightPlaces
  <2>7. \A x \in Keys \ {k} : writes'[x] = writes[x]
    BY SMTT(30), <1>1, <2>2
  <2> QED BY SMTT(30), <1>2, <1>3, <2>2, <2>3, <2>5, <2>6, <2>7, StepAccounted
<1>6. CASE ClearShard(c)
  <2> DEFINE live == Live(slot, nextShard[c])
             F(k) == FlushJob(k, slot[k].mark + 1, writes[k] + 1, "delete")
  <2>1. /\ writes' = [k \in Keys |-> IF k \in live THEN writes[k] + 1
                                                   ELSE writes[k]]
        /\ hand' = [hand EXCEPT ![c] = hand[c] \cup {F(k) : k \in live}]
        /\ UNCHANGED <<queue, reported>>
    BY SMTT(30), <1>6 DEF ClearShard
  <2>2. /\ \A d \in Clients \ {c} : cpc'[d] = cpc[d]
        /\ cpc'[c] # "release"
    BY Zenon, <1>1, <1>6 DEF ClearShard
  <2>3. \A k \in live : F(k).key = k /\ F(k).write = writes[k] + 1
    BY Zenon DEF FlushJob
  <2>4. live \subseteq Keys
    BY Zenon DEF Live
  <2> HIDE DEF live, F
  <2>5. FailuresReported'
    BY SMTT(30), <1>1, <1>4, <2>1, <2>2
  <2>6. \A j \in InFlight : j \in InFlight'
    BY ZenonT(30), <1>1, <1>2, <2>1, InFlightPlaces
  <2>7. \A x \in live : F(x) \in InFlight' /\ F(x).key = x /\ F(x).write = writes'[x]
    BY <1>1, <2>1, <2>3, <2>4, InFlightPlaces
  <2>8. \A x \in Keys \ live : writes'[x] = writes[x]
    BY SMTT(30), <2>1
  <2> QED BY ZenonT(30), <1>2, <1>3, <2>1, <2>5, <2>6, <2>7, StepAccounted
<1>7. ASSUME UNCHANGED writes, \A x \in Keys : reported[x] \subseteq reported'[x],
             \A j \in InFlight : j \in InFlight' \/ j.write \in reported'[j.key]
      PROVE  Accounted'
  BY ZenonT(30), <1>2, <1>3, <1>7, StepAccounted
<1>8. CASE StartClear(c)
  <2>1. \A j \in InFlight : j \in InFlight'
    BY Zenon, <1>8, InFlightPlaces DEF StartClear
  <2>2. /\ \A d \in Clients \ {c} : cpc'[d] = cpc[d]
        /\ cpc'[c] # "release" /\ UNCHANGED <<hand, reported, writes>>
    BY Zenon, <1>1, <1>8 DEF StartClear
  <2> QED BY Zenon, <1>4, <1>7, <2>1, <2>2
<1>9. CASE Enqueue(c)
  <2>1. PICK j \in hand[c] :
             /\ queue' = Append(queue, j)
             /\ hand' = [hand EXCEPT ![c] = hand[c] \ {j}]
    BY Zenon, <1>9 DEF Enqueue, NextJobs
  <2>2. /\ \A d \in Clients \ {c} : cpc'[d] = cpc[d]
        /\ cpc'[c] # "release" /\ UNCHANGED <<reported, writes>>
    BY SMTT(30), <1>9 DEF Enqueue, AfterLastJob
  <2>3. /\ \E n \in DOMAIN queue' : queue'[n] = j
        /\ \A n \in DOMAIN queue : n \in DOMAIN queue' /\ queue'[n] = queue[n]
    <3>1. Len(queue) + 1 \in DOMAIN queue' /\ queue'[Len(queue) + 1] = j
      BY <2>1
    <3> QED BY <1>1, <2>1, <3>1
  <2>4. \A i \in InFlight : i \in InFlight'
    BY SMTT(30), <1>1, <1>2, <2>1, <2>3, InFlightPlaces
  <2>5. FailuresReported'
    BY Zenon, <1>1, <1>4, <2>1, <2>2
  <2> QED BY Zenon, <1>7, <2>2, <2>4, <2>5
<1>10. CASE EnqueueTimeout(c)
  <2>1. /\ \A x \in Keys : reported[x] \subseteq reported'[x]
        /\ \A j \in hand[c] : j.key \in Keys => j.write \in reported'[j.key]
    <3>1. Report(hand[c])
      BY Zenon, <1>10 DEF EnqueueTimeout
    <3> QED BY Zenon, <3>1, ReportCovers
  <2>2. /\ \A d \in Clients \ {c} : cpc'[d] = cpc[d]
        /\ UNCHANGED <<hand, queue, writes>>
    BY Zenon, <1>1, <1>10 DEF EnqueueTimeout
  <2>3. \A j \in InFlight : j \in InFlight'
    BY SMTT(30), <1>2, <2>2, InFlightPlaces
  <2>4. FailuresReported'
    BY SMTT(30), <1>1, <1>4, <2>1, <2>2
  <2> QED BY ZenonT(30), <1>7, <2>1, <2>2, <2>3, <2>4
<1>11. CASE Release(c)
  <2>1. PICK j \in hand[c] : hand' = [hand EXCEPT ![c] = hand[c] \ {j}]
    BY ZenonT(30), <1>11 DEF Release, NextJobs
  <2>2. /\ \A d \in Clients \ {c} : cpc'[d] = cpc[d]
        /\ cpc[c] = "release" /\ UNCHANGED <<queue, reported, writes>>
    BY Zenon, <1>1, <1>11 DEF Release
  <2>3. \A i \in hand[c] : i.write \in reported'[i.key]
    BY SMTT(30), <2>2 DEF FailuresReported
  <2>4. \A i \in InFlight : i \in InFlight' \/ i = j
    BY SMTT(30), <1>2, <2>1, <2>2, InFlightPlaces
  <2>5. FailuresReported'
    BY Zenon, <1>1, <1>4, <2>1, <2>2, <2>3
  <2> QED BY Zenon, <1>7, <2>2, <2>3, <2>4, <2>5
<1> QED BY SMTT(30), <1>5, <1>6, <1>8, <1>9, <1>10, <1>11 DEF ClientCall, ClientProgress

LEMMA WorkerStepAccounted ==
    ASSUME NEW J, Job \subseteq J, NEW P, Phases \subseteq P, NEW X,
           FlushGood(J, P, X), \A v, w \in Workers : v = w,
           NEW w \in Workers, WorkerStep(w), Take(w) => Head(queue) \in Job
    PROVE  FailuresReported' /\ Accounted'
<1>0. /\ Counted(J, P, X) /\ NumberGood(J, P, X)
      /\ SourceInv /\ FailuresReported /\ Accounted
  BY SMTT(30) DEF FlushGood, NumberGood
<1>1. /\ queue \in Seq(J)
      /\ wpc \in [Workers -> P] /\ wjob \in [Workers -> J \cup {NoJob}]
      /\ \A x \in Keys : source[x] \in Nat /\ writes[x] \in Nat
  BY SMTT(30), <1>0, SlotTypes DEF Counted
<1>2. /\ wpc[w] \in FlushPhases =>
             wjob[w] \in InFlight /\ wjob[w] \in Job /\ wjob[w].key \in Keys
      /\ wpc[w] = "retry" => wjob[w].retries > 0
  BY SMTT(30), <1>0, InFlightPlaces DEF Counted, Good, FlushersHoldJobs, Job
<1>3. UNCHANGED <<hand, cpc, writes>>
  BY SMTT(30) DEF WorkerStep, Take, Skip, Pass, Apply, ApplyFails, Settle, Retry,
         RetryTimeout, GiveUp
<1>4. \A x \in Keys : source[x] = writes[x] => source'[x] = writes[x]
  <2>1. SourceBehind' /\ \A x \in Keys : source[x] <= source'[x]
    BY ZenonT(30), <1>0, WorkerStepSource DEF SourceInv
  <2>2. \A x \in Keys : source'[x] \in Nat
    BY ZenonT(30), <1>0, WorkerStepCount DEF Counted, Good, Typed
  <2> QED BY SMTT(30), <1>1, <1>3, <2>1, <2>2 DEF SourceBehind
<1>5. /\ \A x \in Keys : reported[x] \subseteq reported'[x]
      /\ wpc'[w] = "giveup" => wjob'[w].write \in reported'[wjob'[w].key]
  <2>1. CASE UNCHANGED reported /\ wpc'[w] # "giveup"
    BY Zenon, <2>1
  <2>2. CASE Report({wjob[w]}) /\ wpc[w] \in FlushPhases /\ wjob' = wjob
    BY SMTT(30), <1>2, <2>2, ReportCovers
  <2>3. CASE Take(w) \/ Skip(w) \/ Pass(w) \/ Apply(w)
    BY ZenonT(30), <1>1, <2>1, <2>3 DEF Take, Skip, Pass, Apply, Finish, Goto
  <2>4. CASE ApplyFails(w)
    <3>1. wpc[w] \in FlushPhases /\ wjob' = wjob
      BY SMTT(30), <2>4 DEF ApplyFails, FlushPhases, Phases
    <3>2. (UNCHANGED reported /\ wpc'[w] # "giveup") \/ Report({wjob[w]})
      BY SMTT(30), <1>1, <2>4 DEF ApplyFails, Goto
    <3> QED BY Zenon, <2>2, <3>1, <3>2
  <2>5. CASE Settle(w) \/ Retry(w) \/ GiveUp(w)
    BY ZenonT(30), <1>1, <2>5 DEF Settle, Retry, GiveUp, Finish, Goto
  <2>6. CASE RetryTimeout(w)
    BY SMTT(30), <2>2, <2>6 DEF RetryTimeout, FlushPhases, Phases
  <2> QED BY ZenonT(30), <2>3, <2>4, <2>5, <2>6 DEF WorkerStep
<1>6. FailuresReported'
  <2>1. \A c \in Clients : \A j \in hand[c] : j.key \in Keys
    BY SMTT(30), <1>0, SlotTypes DEF Counted, Job
  <2> QED BY ZenonT(30), <1>0, <1>3, <1>5, <2>1 DEF FailuresReported
<1>7. \A j : SameJob(j, j)
  BY Zenon DEF SameJob
<1>8. ASSUME NEW j \in InFlight, j.write = writes[j.key]
      PROVE  \/ \E i \in InFlight' : SameJob(i, j)
             \/ j.write \in reported'[j.key]
             \/ source'[j.key] = j.write
  <2>1. CASE \E c \in Clients : j \in hand[c]
    BY ZenonT(30), <1>3, <1>7, <2>1, InFlightPlaces
  <2>2. CASE \E n \in DOMAIN queue : queue[n] \in Job /\ j = queue[n]
    <3>1. PICK n \in DOMAIN queue : queue[n] \in Job /\ j = queue[n]
      BY ZenonT(30), <2>2
    <3>2. CASE Take(w)
      <4>1. /\ queue' = Tail(queue) /\ queue # <<>>
            /\ wpc'[w] \in FlushPhases /\ wjob'[w] = Head(queue)
        BY Zenon, <1>1, <3>2 DEF Take, Goto, FlushPhases, Phases
      <4>2. CASE n = 1
        <5>1. j = wjob'[w]
          BY SMTT(30), <3>1, <4>1, <4>2
        <5> QED BY Zenon, <1>7, <4>1, <5>1, InFlightPlaces
      <4>3. CASE n # 1
        <5>1. n - 1 \in DOMAIN queue' /\ queue'[n - 1] = queue[n]
          BY SMTT(30), <1>1, <3>1, <4>1, <4>3
        <5> QED BY SMTT(30), <1>7, <3>1, <5>1, InFlightPlaces
      <4> QED BY ZenonT(30), <4>2, <4>3
    <3>3. CASE Retry(w)
      <4> DEFINE r == [wjob[w] EXCEPT !.retries = @ - 1]
      <4>1. queue' = Append(queue, r)
        BY SMTT(30), <3>3 DEF Retry
      <4> HIDE DEF r
      <4>2. n \in DOMAIN queue' /\ queue'[n] = queue[n]
        BY SMTT(30), <1>1, <3>1, <4>1
      <4> QED BY ZenonT(30), <1>7, <3>1, <4>2, InFlightPlaces
    <3>4. CASE ~Take(w) /\ ~Retry(w)
      <4>1. queue' = queue
        BY ZenonT(30), <3>4 DEF WorkerStep, Skip, Pass, Apply, ApplyFails, Settle,
                    RetryTimeout, GiveUp
      <4> QED BY ZenonT(30), <1>7, <3>1, <4>1, InFlightPlaces
    <3> QED BY ZenonT(30), <3>2, <3>3, <3>4
  <2>3. CASE \E v \in Workers : wpc[v] \in FlushPhases /\ j = wjob[v]
    <3>1. wpc[w] \in FlushPhases /\ j = wjob[w]
      BY Zenon, <2>3
    <3>2. CASE wpc'[w] \in FlushPhases /\ wjob' = wjob
      BY SMTT(30), <1>7, <3>1, <3>2, InFlightPlaces
    <3>3. CASE Pass(w) \/ Apply(w) \/ ApplyFails(w) \/ RetryTimeout(w)
      BY SMTT(30), <1>1, <3>2, <3>3 DEF Pass, Apply, ApplyFails, RetryTimeout, Goto,
                                          FlushPhases, Phases
    <3>4. CASE Skip(w)
      <4>1. IsStale(slot[j.key], j)
        BY ZenonT(30), <3>1, <3>4 DEF Skip
      <4> QED BY ZenonT(30), <1>0, <1>8, <4>1, NumberedJobs
    <3>5. CASE Settle(w)
      BY ZenonT(30), <1>0, <3>1, <3>5 DEF Settle, SourceInv, SettlesApplied
    <3>6. CASE Retry(w)
      <4> DEFINE r == [wjob[w] EXCEPT !.retries = @ - 1]
      <4>1. queue' = Append(queue, r) /\ wpc[w] = "retry"
        BY Zenon, <3>6 DEF Retry
      <4>2. r \in Job /\ SameJob(r, wjob[w])
        BY SMTT(30), <1>2, <3>1, <4>1, RetriedJob
      <4> HIDE DEF r
      <4>3. Len(queue) + 1 \in DOMAIN queue' /\ queue'[Len(queue) + 1] = r
        BY SMTT(30), <1>1, <4>1, <4>2
      <4> QED BY ZenonT(30), <3>1, <4>2, <4>3, InFlightPlaces
    <3>7. CASE GiveUp(w)
      BY ZenonT(30), <1>0, <3>1, <3>7 DEF GiveUp, FailuresReported
    <3>8. CASE Take(w)
      BY ZenonT(30), <3>1, <3>8 DEF Take, FlushPhases, Phases
    <3> QED BY ZenonT(30), <3>3, <3>4, <3>5, <3>6, <3>7, <3>8 DEF WorkerStep
  <2> QED BY ZenonT(30), <2>1, <2>2, <2>3, InFlightPlaces
<1>9. Accounted'
  BY ZenonT(30), <1>0, <1>3, <1>4, <1>5, <1>8, StepAccounted
<1> QED BY Zenon, <1>6, <1>9

LEMMA ExpireAccounted ==
    ASSUME FailuresReported, Accounted, NEW k \in Keys, Expire(k)
    PROVE  FailuresReported' /\ Accounted'
<1>1. InFlight' = InFlight
  BY Zenon DEF Expire, InFlight
<1> QED BY SMTT(30), <1>1 DEF Expire, FailuresReported, Accounted

\* The steps of a client, of the worker and of the expiry of a key.
LEMMA FlushSteps ==
    ASSUME NEW J, Job \subseteq J, NEW P, Phases \subseteq P, NEW X, FlushGood(J, P, X),
           ~EvictsNewest, \A v, w \in Workers : v = w
    PROVE  /\ \A c \in Clients : ClientCall(c) => FlushGood(J, P, X)'
           /\ \A w \in Workers :
                  WorkerStep(w) /\ (Take(w) => Head(queue) \in Job) => FlushGood(J, P, X)'
           /\ \A k \in Keys : Expire(k) => FlushGood(J, P, X)'
<1>1. /\ NumberGood(J, P, X) /\ Counted(J, P, X)
      /\ SourceInv /\ FailuresReported /\ Accounted
  BY Zenon DEF FlushGood, NumberGood
<1>2. ASSUME NEW c \in Clients, ClientCall(c)
      PROVE  FlushGood(J, P, X)'
  BY SMTT(30), <1>1, <1>2, ClientStepNumbered, ClientStepSource, ClientStepAccounted
  DEF FlushGood
<1>3. ASSUME NEW w \in Workers, WorkerStep(w), Take(w) => Head(queue) \in Job
      PROVE  FlushGood(J, P, X)'
  BY Zenon, <1>1, <1>3, WorkerStepNumbered, WorkerStepSource, WorkerStepAccounted
  DEF FlushGood
<1>4. ASSUME NEW k \in Keys, Expire(k)
      PROVE  FlushGood(J, P, X)'
  BY Zenon, <1>1, <1>4, ExpireNumbered, ExpireSource, ExpireAccounted DEF FlushGood
<1> QED BY Zenon, <1>2, <1>3, <1>4

LEMMA FlushInvStep ==
    ASSUME ~EvictsNewest, \A v, w \in Workers : v = w, FlushInv, [Next]_vars
    PROVE  FlushInv'
<1>1. FlushGood(Job, Phases, {}) /\ NumberInv /\ SourceInv /\ FailuresReported /\ Accounted
  BY Zenon DEF FlushInv, FlushGood, NumberInv
<1>2. \A w \in Workers : Take(w) => Head(queue) \in Job
  BY <1>1 DEF NumberInv, NumberGood, Counted, Good, Typed, Take
<1>3. CASE UNCHANGED vars
  <2>1. NumberInv'
    BY SMTT(30), <1>1, NumberInvStep
  <2>2. SourceInv'
    BY Zenon, <1>1, <1>3 DEF SourceInv, EntriesNewest, SourceBehind, AppliesForward,
                      SettlesApplied, CleanMeansPersisted, vars
  <2>3. InFlight' = InFlight
    BY SMTT(30), <1>3 DEF InFlight, vars
  <2>4. FailuresReported' /\ Accounted'
    BY Zenon, <1>1, <1>3, <2>3 DEF FailuresReported, Accounted, vars
  <2> QED BY Zenon, <2>1, <2>2, <2>4 DEF FlushInv, FlushGood, NumberInv
<1>4. CASE Next
  <2>1. FlushGood(Job, Phases, {})' \/ UNCHANGED vars
    BY Zenon, <1>1, <1>2, <1>4, ClientStepIsCall, FlushSteps DEF Next
  <2> QED BY Zenon, <1>3, <2>1 DEF FlushInv
<1> QED BY Zenon, <1>3, <1>4

LEMMA FlushInvInit == Init => FlushInv
<1> SUFFICES ASSUME Init PROVE FlushInv
  BY Zenon
<1>1. NumberInv
  BY Zenon, NumberInvInit
<1>2. \A k \in Keys : ~Cached(slot[k]) /\ source[k] = 0 /\ writes[k] = 0
  BY SMTT(30) DEF Init, EmptySlot, Cached
<1>3. (\A c \in Clients : cpc[c] = "idle") /\ (\A w \in Workers : wpc[w] = "idle")
  BY Zenon DEF Init
<1>4. EntriesNewest /\ SourceBehind /\ CleanMeansPersisted /\ Accounted
  BY <1>2 DEF EntriesNewest, SourceBehind, CleanMeansPersisted, Accounted
<1>5. AppliesForward /\ SettlesApplied /\ FailuresReported
  BY Zenon, <1>3 DEF AppliesForward, SettlesApplied, FailuresReported
<1> QED BY Zenon, <1>1, <1>4, <1>5 DEF FlushInv, FlushGood, SourceInv, NumberInv

\* The invariant of a single worker: jobs are applied in the order of the writes.
THEOREM FlushesInOrder ==
    ASSUME ~EvictsNewest, \A v, w \in Workers : v = w
    PROVE  Spec => []FlushInv
<1>1. FlushInv /\ [Next]_vars => FlushInv'
  BY Zenon, FlushInvStep
<1> QED BY <1>1, FlushInvInit, PTL DEF Spec

\* With one worker and a policy that spares the key just put, an entry that
\* is not dirty is what the source of truth holds.
THEOREM CleanIsPersisted ==
    ASSUME ~EvictsNewest, \A v, w \in Workers : v = w
    PROVE  Spec => []CleanMeansPersisted
<1>1. FlushInv => CleanMeansPersisted
  BY SMTT(30) DEF FlushInv, FlushGood, SourceInv
<1> QED BY <1>1, FlushesInOrder, PTL

\* Under the same assumptions the newest write of a key is never lost without a
\* trace, whatever fails, times out, expires or is evicted.
THEOREM NothingLostSilently ==
    ASSUME ~EvictsNewest, \A v, w \in Workers : v = w
    PROVE  Spec => []NoSilentLoss
<1>1. FlushInv => NoSilentLoss
  <2> SUFFICES ASSUME FlushInv PROVE NoSilentLoss
    BY Zenon
  <2>1. Inv
    BY Zenon, InvIsGood DEF FlushInv, FlushGood, NumberGood, Counted
  <2>2. InFlight = Outstanding
    BY Zenon, <2>1, InFlightIsOutstanding
  <2> QED BY Zenon, <2>2 DEF FlushInv, FlushGood, Accounted, NoSilentLoss
<1> QED BY <1>1, FlushesInOrder, PTL

\* Under the same assumptions the source of truth never goes back to an older
\* write of a key.
THEOREM SourceMovesForward ==
    ASSUME ~EvictsNewest, \A v, w \in Workers : v = w
    PROVE  Spec => SourceNeverRegresses
<1>1. FlushInv /\ [Next]_vars => [\A k \in Keys : source'[k] >= source[k]]_vars
  <2> SUFFICES ASSUME FlushInv, Next
               PROVE  \A k \in Keys : source'[k] >= source[k]
    BY SMTT(30)
  <2>1. /\ NumberGood(Job, Phases, {}) /\ Counted(Job, Phases, {}) /\ SourceInv
        /\ \A k \in Keys : source[k] \in Nat /\ source'[k] \in Nat
    BY Zenon, FlushInvStep DEF FlushInv, FlushGood, NumberGood, Counted, Good, Typed
  <2>2. CASE UNCHANGED source
    BY SMTT(30), <2>1, <2>2
  <2>3. ASSUME NEW c \in Clients, ClientStep(c)
        PROVE  UNCHANGED source
    BY ZenonT(30), <2>1, <2>3, ClientStepIsCall, ClientStepEntries DEF Counted
  <2>4. ASSUME NEW w \in Workers, WorkerStep(w)
        PROVE  \A k \in Keys : source'[k] >= source[k]
    <3>1. Take(w) => Head(queue) \in Job
      BY <2>1 DEF Counted, Good, Typed, Take
    <3> QED BY ZenonT(30), <2>1, <2>4, <3>1, WorkerStepSource
  <2>5. (\E k \in Keys : Expire(k)) \/ UNCHANGED vars => UNCHANGED source
    BY Zenon DEF Expire, vars
  <2> QED BY SMTT(30), <2>2, <2>3, <2>4, <2>5 DEF Next
<1> QED BY <1>1, FlushesInOrder, PTL DEF Spec, SourceNeverRegresses

=============================================================================
