------------------------------- MODULE Shard -------------------------------
(***************************************************************************)
(* One shard of the cache in cache-only or write-through mode: entries     *)
(* with deadlines, lazy and active expiration, capacity, version marks and *)
(* counters.  Every operation holds the shard lock throughout, the call of *)
(* the source of truth included, so it is one step; but it reads the clock *)
(* once, first, and the source may take time.                              *)
(***************************************************************************)
EXTENDS Integers, FiniteSets

CONSTANTS
    Keys, Values,
    Ttls,          \* the positive TTLs callers pass
    DefaultTtl,    \* config.default_ttl; 0 stands for None too
    Unset,         \* no ttl argument
    Absent,        \* no entry
    Capacity,      \* capacity of the shard
    WriteThrough,  \* TRUE in write-through mode, FALSE in cache-only mode
    SourceDelay,   \* bound: clock ticks an operation may spend in the source
    MaxCalls,      \* bound: calls made
    MaxTime,       \* bound: value of the clock
    MaxFaults      \* bound: calls of the source that fail

ASSUME ShardAssumption ==
    /\ Ttls \subseteq Nat \ {0}
    /\ DefaultTtl \in Nat
    /\ Unset \notin Nat
    /\ Absent \notin Values
    /\ Capacity \in Nat \ {0}
    /\ WriteThrough \in BOOLEAN
    /\ SourceDelay \in Nat /\ MaxCalls \in Nat /\ MaxTime \in Nat /\ MaxFaults \in Nat

ASSUME KeysFinite == IsFiniteSet(Keys)

VARIABLES
    entries,  \* backend: per key, value, deadline (0: none) and version
    marks,    \* version_marks: per key, 0 when absent
    stats,    \* MutableStats of the shard
    source,   \* source of truth: per key, a value or Absent
    faults,   \* failing calls the source may still make
    now,      \* the monotonic clock
    answer,   \* what the last call returned
    calls,    \* calls made so far
    updates   \* history: puts that replaced an entry

vars == <<entries, marks, stats, source, faults, now, answer, calls, updates>>

Entry == [value : Values, expires : Nat, version : Nat \ {0}]

ASSUME AbsentAssumption ==
    Absent \notin Entry /\ Absent \notin [value : Values, expires : Nat]

Absentees == [k \in Keys |-> Absent]

Init ==
    /\ entries = Absentees
    /\ marks = [k \in Keys |-> 0]
    /\ stats = [hits |-> 0, misses |-> 0, puts |-> 0, deletes |-> 0,
                evictions |-> 0, expirations |-> 0]
    /\ source = Absentees
    /\ faults = MaxFaults
    /\ now = 0
    /\ answer = <<"none">>
    /\ calls = 0
    /\ updates = 0

-----------------------------------------------------------------------------

Live == {k \in Keys : entries[k] # Absent}

\* CacheEntry.is_expired
Expired(e) == e # Absent /\ e.expires # 0 /\ now >= e.expires

\* expired_keys
ExpiredKeys == {k \in Keys : Expired(entries[k])}

\* What a reader is shown of the entry of k.
Shown(k) == IF entries[k] = Absent \/ Expired(entries[k]) THEN Absent
            ELSE entries[k].value

\* _resolve_ttl
ResolveTtl(existing, ttl) ==
    LET value == IF ttl = Unset THEN DefaultTtl ELSE ttl
    IN  IF ttl = Unset /\ existing # Absent THEN existing.expires
        ELSE IF value = 0 THEN 0 ELSE now + value

\* A faulty variant: the version mark of a removed key is kept.
RemoveKeepingMarks(S) ==
    /\ entries' = [k \in Keys |-> IF k \in S THEN Absent ELSE entries[k]]
    /\ UNCHANGED marks

\* _remove_entry_locked for every key of S; without pending flushes the marks
\* are pruned at once.
Remove(S) ==
    /\ entries' = [k \in Keys |-> IF k \in S THEN Absent ELSE entries[k]]
    /\ marks' = [k \in Keys |-> IF k \in S THEN 0 ELSE marks[k]]

\* A faulty variant: the shard may be one entry over its capacity.
VictimsOneShort(es) ==
    LET live == {k \in Keys : es[k] # Absent}
        excess == Cardinality(live) - Capacity - 1
    IN  {E \in SUBSET live : Cardinality(E) = (IF excess > 0 THEN excess ELSE 0)}

\* The keys _enforce_capacity_locked may evict from the entries es.
Victims(es) ==
    LET live == {k \in Keys : es[k] # Absent}
        excess == Cardinality(live) - Capacity
    IN  {E \in SUBSET live : Cardinality(E) = (IF excess > 0 THEN excess ELSE 0)}

Call(a) == calls < MaxCalls /\ calls' = calls + 1 /\ answer' = a

\* A call of the source of truth takes time; nothing else does.
TimePasses ==
    /\ now' \in now .. now + (IF WriteThrough THEN SourceDelay ELSE 0)
    /\ now' <= MaxTime

\* A faulty variant: the failures left to inject are not checked.
SourceFailsUnchecked ==
    /\ WriteThrough
    /\ faults' = faults - 1
    /\ Call(<<"error">>)
    /\ TimePasses

\* SlowDictBackend raises before it changes anything.
SourceFails ==
    /\ WriteThrough
    /\ faults > 0
    /\ faults' = faults - 1
    /\ Call(<<"error">>)
    /\ TimePasses

-----------------------------------------------------------------------------

\* A faulty variant: an expired entry is returned while it is removed.
ReadExpired(k) ==
    LET gone == ExpiredKeys \cap {k}
        hit == entries[k] # Absent
    IN  /\ Call(<<"read", IF hit THEN entries[k].value ELSE Absent>>)
        /\ Remove(gone)
        /\ stats' = [stats EXCEPT !.hits = @ + (IF hit THEN 1 ELSE 0),
                                  !.misses = @ + (IF hit THEN 0 ELSE 1),
                                  !.expirations = @ + Cardinality(gone)]
        /\ UNCHANGED <<source, faults, now, updates>>

\* _read_value_locked, called by get, contains and get_or_compute.
Read(k) ==
    LET gone == ExpiredKeys \cap {k}
        hit == Shown(k) # Absent
    IN  /\ Call(<<"read", Shown(k)>>)
        /\ Remove(gone)
        /\ stats' = [stats EXCEPT !.hits = @ + (IF hit THEN 1 ELSE 0),
                                  !.misses = @ + (IF hit THEN 0 ELSE 1),
                                  !.expirations = @ + Cardinality(gone)]
        /\ UNCHANGED <<source, faults, now, updates>>

\* inspect(): no hit or miss is counted.
Inspect(k) ==
    LET gone == ExpiredKeys \cap {k}
    IN  /\ Call(<<"read", Shown(k)>>)
        /\ Remove(gone)
        /\ stats' = [stats EXCEPT !.expirations = @ + Cardinality(gone)]
        /\ UNCHANGED <<source, faults, now, updates>>

\* What dump() returns: the entries that have not expired.
Visible ==
    [k \in Keys |-> IF Shown(k) = Absent THEN Absent
                    ELSE [value |-> entries[k].value, expires |-> entries[k].expires]]

Dump ==
    /\ Call(<<"dump", Visible>>)
    /\ Remove(ExpiredKeys)
    /\ stats' = [stats EXCEPT !.expirations = @ + Cardinality(ExpiredKeys)]
    /\ UNCHANGED <<source, faults, now, updates>>

\* put(): an expired entry is removed first, and its version mark with it.
Put(k, v, ttl) ==
    LET gone == ExpiredKeys \cap {k}
        existing == IF k \in gone THEN Absent ELSE entries[k]
        version == 1 + (IF k \in gone THEN 0 ELSE marks[k])
        stored == [entries EXCEPT ![k] =
            [value |-> v, expires |-> ResolveTtl(existing, ttl), version |-> version]]
    IN  /\ Call(<<"put">>)
        /\ TimePasses
        /\ source' = IF WriteThrough THEN [source EXCEPT ![k] = v] ELSE source
        /\ \E E \in Victims(stored) :
            /\ entries' = [x \in Keys |-> IF x \in E THEN Absent ELSE stored[x]]
            /\ marks' = [x \in Keys |-> IF x \in E THEN 0
                                        ELSE IF x = k THEN version ELSE marks[x]]
            /\ stats' = [stats EXCEPT !.puts = @ + 1,
                                      !.expirations = @ + Cardinality(gone),
                                      !.evictions = @ + Cardinality(E)]
        /\ updates' = updates + (IF existing = Absent THEN 0 ELSE 1)
        /\ UNCHANGED faults

\* A faulty variant: the removal of the expired entry is not counted.
PutFailsUncounted(k) ==
    /\ SourceFails
    /\ Remove(ExpiredKeys \cap {k})
    /\ UNCHANGED <<stats, source, updates>>

\* put() when the source of truth raises: only the removal of an expired entry
\* is left of it.
PutFails(k) ==
    /\ SourceFails
    /\ Remove(ExpiredKeys \cap {k})
    /\ stats' = [stats EXCEPT !.expirations = @ + Cardinality(ExpiredKeys \cap {k})]
    /\ UNCHANGED <<source, updates>>

\* delete(): an expired entry that is still there counts as deleted.
Delete(k) ==
    /\ Call(<<"delete", k \in Live>>)
    /\ TimePasses
    /\ source' = IF WriteThrough THEN [source EXCEPT ![k] = Absent] ELSE source
    /\ Remove({k})
    /\ stats' = [stats EXCEPT !.deletes = @ + Cardinality(Live \cap {k})]
    /\ UNCHANGED <<faults, updates>>

DeleteFails(k) ==
    /\ SourceFails
    /\ UNCHANGED <<entries, marks, stats, source, updates>>

\* The keys of S are deleted from the source and the shard by clear().
ClearKeys(S) ==
    /\ source' = [k \in Keys |-> IF WriteThrough /\ k \in S THEN Absent ELSE source[k]]
    /\ Remove(S)
    /\ stats' = [stats EXCEPT !.deletes = @ + Cardinality(S)]
    /\ UNCHANGED updates

Clear ==
    /\ Call(<<"clear">>)
    /\ TimePasses
    /\ ClearKeys(Live)
    /\ UNCHANGED faults

\* A faulty variant: clear() empties the source first and the shard afterwards.
ClearFailsSourceFirst ==
    /\ SourceFails
    /\ \E S \in (SUBSET Live) \ {Live} :
        source' = [k \in Keys |-> IF k \in S THEN Absent ELSE source[k]]
    /\ UNCHANGED <<entries, marks, stats, updates>>

\* clear() when the source of truth raises after the keys of a proper subset
\* have been deleted.
ClearFails ==
    /\ SourceFails
    /\ \E S \in (SUBSET Live) \ {Live} : ClearKeys(S)

\* _expire_shard, run by expire_all() or by a worker for an ExpireShard job.
ExpireShard ==
    /\ ExpiredKeys # {}
    /\ Remove(ExpiredKeys)
    /\ stats' = [stats EXCEPT !.expirations = @ + Cardinality(ExpiredKeys)]
    /\ UNCHANGED <<source, faults, now, answer, calls, updates>>

Tick ==
    /\ now < MaxTime
    /\ now' = now + 1
    /\ UNCHANGED <<entries, marks, stats, source, faults, answer, calls, updates>>

\* The bounds are reached.
Done == calls = MaxCalls /\ UNCHANGED vars

Next ==
    \/ \E k \in Keys : Read(k) \/ Inspect(k) \/ PutFails(k) \/ Delete(k) \/ DeleteFails(k)
    \/ \E k \in Keys, v \in Values, ttl \in Ttls \cup {0, Unset} : Put(k, v, ttl)
    \/ Dump \/ Clear \/ ClearFails \/ ExpireShard \/ Tick \/ Done

Spec == Init /\ [][Next]_vars

-----------------------------------------------------------------------------
(* Properties.                                                             *)

TypeOK ==
    /\ entries \in [Keys -> Entry \cup {Absent}]
    /\ marks \in [Keys -> Nat]
    /\ stats \in [hits : Nat, misses : Nat, puts : Nat, deletes : Nat,
                 evictions : Nat, expirations : Nat]
    /\ source \in [Keys -> Values \cup {Absent}]
    /\ faults \in Nat /\ now \in Nat /\ calls \in Nat /\ updates \in Nat

\* The shard never holds more entries than its capacity between two calls, so a
\* put evicts at most one key.
CapacityHeld == Cardinality(Live) <= Capacity

\* In these modes a key has a version mark exactly while it is cached, and it
\* is the version of the entry: delete()'s promise that metadata "can never
\* accumulate", on every path that removes an entry.
MarksMatchEntries ==
    \A k \in Keys :
        marks[k] = IF entries[k] = Absent THEN 0 ELSE entries[k].version

\* Every entry ever inserted is accounted for: it is still there, or it was
\* counted once as deleted, evicted or expired.
StatsBalance ==
    stats.puts - updates =
        Cardinality(Live) + stats.deletes + stats.evictions + stats.expirations

\* In write-through mode a cached entry is what the source of truth holds, also
\* after calls that failed half way.
SourceAgrees ==
    WriteThrough => \A k \in Live : source[k] = entries[k].value

\* The shard as its callers see it.
Map == INSTANCE TtlMap WITH content <- Visible

\* However expired entries are collected (by reads, puts, dumps or workers),
\* callers see a map whose entries vanish at their deadline and nothing else.
ImplementsTtlMap == Map!Spec

=============================================================================
