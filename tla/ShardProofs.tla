---------------------------- MODULE ShardProofs ----------------------------
(***************************************************************************)
(* The invariants of Shard, and the proof that it implements TtlMap; then  *)
(* the invariants of SingleFlight, the flights a shard keeps per key.      *)
(***************************************************************************)
EXTENDS Shard, SingleFlight, FiniteSetTheorems, TLAPS

Inv == TypeOK /\ CapacityHeld /\ MarksMatchEntries /\ StatsBalance /\ SourceAgrees

-----------------------------------------------------------------------------
(* Cardinalities.                                                          *)

\* Every set of keys is finite.
LEMMA KeySets == ASSUME NEW S, S \subseteq Keys
                 PROVE  IsFiniteSet(S) /\ Cardinality(S) \in Nat
BY Zenon, KeysFinite, FS_Subset, FS_CardinalityType

\* What Remove does to the entries, the marks and the number of live keys.
LEMMA RemoveInv ==
    ASSUME Inv, NEW S, S \subseteq Keys, Remove(S)
    PROVE  /\ entries' \in [Keys -> Entry \cup {Absent}]
           /\ marks' \in [Keys -> Nat]
           /\ CapacityHeld'
           /\ MarksMatchEntries'
           /\ Live' \subseteq Live
           /\ Cardinality(Live') = Cardinality(Live) - Cardinality(Live \cap S)
           /\ Cardinality(Live) \in Nat /\ Cardinality(Live \cap S) \in Nat
<1>1. entries' \in [Keys -> Entry \cup {Absent}] /\ marks' \in [Keys -> Nat]
  BY Zenon DEF Inv, TypeOK, Remove
<1>2. Live' = Live \ S
  BY Zenon DEF Inv, TypeOK, Remove, Live
<1>3. Live \subseteq Keys /\ Live \cap S \subseteq Keys
  BY Zenon DEF Live
<1>4. Cardinality(Live) \in Nat /\ Cardinality(Live \cap S) \in Nat
  BY Zenon, <1>3, KeySets
<1>5. Cardinality(Live') = Cardinality(Live) - Cardinality(Live \cap S)
  BY Zenon, <1>2, <1>3, KeySets, FS_Difference
<1>6. CapacityHeld'
  BY <1>4, <1>5, ShardAssumption DEF Inv, CapacityHeld
<1>7. MarksMatchEntries'
  BY Zenon DEF Inv, TypeOK, MarksMatchEntries, Remove
<1> QED BY Zenon, <1>1, <1>2, <1>4, <1>5, <1>6, <1>7

\* Only live keys expire.
LEMMA ExpiredAreLive ==
    /\ ExpiredKeys \subseteq Live /\ ExpiredKeys \subseteq Keys
    /\ Live \cap ExpiredKeys = ExpiredKeys
    /\ \A k : Live \cap (ExpiredKeys \cap {k}) = ExpiredKeys \cap {k}
BY Zenon DEF ExpiredKeys, Expired, Live

\* The clock stays a natural number and never goes back during a call.
LEMMA TimeType == ASSUME TypeOK, TimePasses PROVE now' \in Nat /\ now <= now'
BY ShardAssumption DEF TypeOK, TimePasses

Stats == [hits : Nat, misses : Nat, puts : Nat, deletes : Nat,
          evictions : Nat, expirations : Nat]

\* A step that removes expired keys, counts them as expirations and leaves the
\* source alone.
Collects(S) ==
    /\ Remove(S)
    /\ stats' \in Stats
    /\ stats'.puts = stats.puts /\ stats'.deletes = stats.deletes
    /\ stats'.evictions = stats.evictions
    /\ stats'.expirations = stats.expirations + Cardinality(S)
    /\ faults' \in Nat /\ now' \in Nat /\ calls' \in Nat
    /\ UNCHANGED <<source, updates>>

\* Such a step keeps the invariant.
LEMMA CollectInv ==
    ASSUME Inv, NEW S, S \subseteq ExpiredKeys, Collects(S)
    PROVE  Inv'
<1>1. S \subseteq Keys /\ Live \cap S = S
  BY Zenon, ExpiredAreLive
<1>2. /\ entries' \in [Keys -> Entry \cup {Absent}] /\ marks' \in [Keys -> Nat]
      /\ CapacityHeld' /\ MarksMatchEntries' /\ Live' \subseteq Live
      /\ Cardinality(Live') = Cardinality(Live) - Cardinality(S)
      /\ Cardinality(Live) \in Nat /\ Cardinality(S) \in Nat
  BY Zenon, <1>1, RemoveInv DEF Collects
<1>3. TypeOK'
  BY Zenon, <1>2 DEF Inv, TypeOK, Collects, Stats
<1>4. StatsBalance'
  BY <1>2 DEF Inv, TypeOK, StatsBalance, Collects, Stats
<1>5. SourceAgrees'
  BY Zenon, <1>1, <1>2 DEF Inv, SourceAgrees, Remove, Live, Collects
<1> QED BY Zenon, <1>2, <1>3, <1>4, <1>5 DEF Inv

\* The steps that do nothing but collect expired entries.
LEMMA CollectSteps ==
    ASSUME Inv
    PROVE  /\ \A k \in Keys : Read(k) \/ Inspect(k) \/ PutFails(k)
                                => Collects(ExpiredKeys \cap {k})
           /\ Dump \/ ExpireShard => Collects(ExpiredKeys)
<1>1. stats \in Stats /\ faults \in Nat /\ now \in Nat /\ calls \in Nat
  BY Zenon DEF Inv, TypeOK, Stats
<1>2. ASSUME NEW k \in Keys PROVE Cardinality(ExpiredKeys \cap {k}) \in Nat
  BY Zenon, KeySets, ExpiredAreLive
<1>3. Cardinality(ExpiredKeys) \in Nat
  BY Zenon, KeySets, ExpiredAreLive
<1>4. ASSUME NEW k \in Keys, Read(k) PROVE Collects(ExpiredKeys \cap {k})
  <2> DEFINE h == IF Shown(k) # Absent THEN 1 ELSE 0
             m == IF Shown(k) # Absent THEN 0 ELSE 1
             n == Cardinality(ExpiredKeys \cap {k})
  <2>1. h \in Nat /\ m \in Nat /\ n \in Nat
    BY Zenon, <1>2
  <2>2. stats' = [stats EXCEPT !.hits = @ + h, !.misses = @ + m, !.expirations = @ + n]
    BY Zenon, <1>4 DEF Read
  <2>3. Remove(ExpiredKeys \cap {k}) /\ calls' = calls + 1
        /\ UNCHANGED <<source, faults, now, updates>>
    BY Zenon, <1>4 DEF Read, Call
  <2> HIDE DEF h, m, n
  <2>4. stats' = [hits |-> stats.hits + h, misses |-> stats.misses + m,
                  puts |-> stats.puts, deletes |-> stats.deletes,
                  evictions |-> stats.evictions, expirations |-> stats.expirations + n]
    BY Zenon, <1>1, <2>2 DEF Stats
  <2>5. stats.hits + h \in Nat /\ stats.misses + m \in Nat /\ stats.expirations + n \in Nat
    BY <1>1, <2>1 DEF Stats
  <2>6. stats' \in Stats
    BY Zenon, <1>1, <2>4, <2>5 DEF Stats
  <2>7. /\ stats'.puts = stats.puts /\ stats'.deletes = stats.deletes
        /\ stats'.evictions = stats.evictions
        /\ stats'.expirations = stats.expirations + n
    BY Zenon, <2>4
  <2> QED BY <1>1, <2>3, <2>6, <2>7 DEF Collects, n
<1>5. ASSUME NEW k \in Keys, Inspect(k) PROVE Collects(ExpiredKeys \cap {k})
  BY <1>1, <1>2, <1>5 DEF Inspect, Call, Collects, Stats
<1>6. ASSUME NEW k \in Keys, PutFails(k) PROVE Collects(ExpiredKeys \cap {k})
  <2>1. now' \in Nat
    BY Zenon, <1>6, TimeType DEF PutFails, SourceFails, Inv
  <2> QED BY <1>1, <1>2, <1>6, <2>1
          DEF PutFails, SourceFails, Call, Collects, Stats
<1>7. Dump => Collects(ExpiredKeys)
  BY <1>1, <1>3 DEF Dump, Call, Collects, Stats
<1>8. ExpireShard => Collects(ExpiredKeys)
  BY <1>1, <1>3 DEF ExpireShard, Collects, Stats
<1> QED BY Zenon, <1>4, <1>5, <1>6, <1>7, <1>8

-----------------------------------------------------------------------------
(* The other steps.                                                        *)

\* A put of k stores into a shard within its capacity, so it evicts at most one
\* key: the excess of Live \cup {k}.
LEMMA VictimsOfPut ==
    ASSUME Inv, NEW k \in Keys
    PROVE  /\ IsFiniteSet(Live \cup {k}) /\ Cardinality(Live) \in Nat
           /\ Cardinality(Live \cup {k}) =
                IF k \in Live THEN Cardinality(Live) ELSE Cardinality(Live) + 1
           /\ \A stored : \A E \in Victims(stored) :
                {x \in Keys : stored[x] # Absent} = Live \cup {k} =>
                    /\ E \subseteq Live \cup {k}
                    /\ Cardinality(E) = IF Cardinality(Live \cup {k}) > Capacity
                                        THEN Cardinality(Live \cup {k}) - Capacity ELSE 0
                    /\ Cardinality(E) \in Nat
                    /\ Cardinality(E) <= 1
<1>1. Live \subseteq Keys
  BY Zenon DEF Live
<1>2. /\ IsFiniteSet(Live \cup {k}) /\ Cardinality(Live) \in Nat
      /\ Cardinality(Live \cup {k}) =
            IF k \in Live THEN Cardinality(Live) ELSE Cardinality(Live) + 1
  BY Zenon, <1>1, KeySets, FS_AddElement
<1>3. ASSUME NEW stored, NEW E \in Victims(stored),
             {x \in Keys : stored[x] # Absent} = Live \cup {k}
      PROVE  /\ E \subseteq Live \cup {k}
             /\ Cardinality(E) = IF Cardinality(Live \cup {k}) > Capacity
                                 THEN Cardinality(Live \cup {k}) - Capacity ELSE 0
             /\ Cardinality(E) \in Nat
             /\ Cardinality(E) <= 1
  <2>1. E \subseteq Live \cup {k}
        /\ Cardinality(E) = IF Cardinality(Live \cup {k}) - Capacity > 0
                            THEN Cardinality(Live \cup {k}) - Capacity ELSE 0
    BY Zenon, <1>3 DEF Victims
  <2>2. Cardinality(E) \in Nat
    BY Zenon, <1>1, <2>1, KeySets
  <2>3. Cardinality(Live) <= Capacity
    BY Zenon DEF Inv, CapacityHeld
  <2> QED BY <1>2, <2>1, <2>2, <2>3, ShardAssumption
<1> QED BY Zenon, <1>2, <1>3

\* put() keeps the invariant: it stores one entry and evicts at most one.
LEMMA PutInv ==
    ASSUME Inv, NEW k \in Keys, NEW v \in Values, NEW ttl \in Ttls \cup {0, Unset},
           Put(k, v, ttl)
    PROVE  Inv'
<1> DEFINE gone == ExpiredKeys \cap {k}
           existing == IF k \in gone THEN Absent ELSE entries[k]
           version == 1 + (IF k \in gone THEN 0 ELSE marks[k])
           new == [value |-> v, expires |-> ResolveTtl(existing, ttl), version |-> version]
           stored == [entries EXCEPT ![k] = new]
           updated == IF existing = Absent THEN 0 ELSE 1
<1>1. PICK E \in Victims(stored) :
         /\ entries' = [x \in Keys |-> IF x \in E THEN Absent ELSE stored[x]]
         /\ marks' = [x \in Keys |-> IF x \in E THEN 0
                                     ELSE IF x = k THEN version ELSE marks[x]]
         /\ stats' = [stats EXCEPT !.puts = @ + 1,
                                   !.expirations = @ + Cardinality(gone),
                                   !.evictions = @ + Cardinality(E)]
  BY Zenon DEF Put
<1>2. /\ updates' = updates + updated /\ calls' = calls + 1 /\ faults' = faults
      /\ source' = IF WriteThrough THEN [source EXCEPT ![k] = v] ELSE source
      /\ now' \in Nat
  BY Zenon, TimeType DEF Put, Call, Inv
<1>3. version \in Nat \ {0} /\ existing \in Entry \cup {Absent}
  BY DEF Inv, TypeOK
<1>4. ResolveTtl(existing, ttl) \in Nat
  BY <1>3, ShardAssumption DEF ResolveTtl, Entry, Inv, TypeOK
<1>5. new \in Entry /\ new.version = version /\ new.value = v
  BY Zenon, <1>3, <1>4 DEF Entry
<1>6. new # Absent
  BY Zenon, <1>5, AbsentAssumption
<1> HIDE DEF new
<1>7. stored \in [Keys -> Entry \cup {Absent}] /\ stored[k] = new
      /\ \A x \in Keys \ {k} : stored[x] = entries[x]
  BY Zenon, <1>5 DEF Inv, TypeOK
<1>8. {x \in Keys : stored[x] # Absent} = Live \cup {k}
  BY Zenon, <1>6, <1>7 DEF Live
<1>9. /\ IsFiniteSet(Live \cup {k}) /\ Cardinality(Live) \in Nat
      /\ Cardinality(Live \cup {k}) =
            IF k \in Live THEN Cardinality(Live) ELSE Cardinality(Live) + 1
  BY Zenon, VictimsOfPut
<1>10. /\ E \subseteq Live \cup {k}
       /\ Cardinality(E) = IF Cardinality(Live \cup {k}) > Capacity
                           THEN Cardinality(Live \cup {k}) - Capacity ELSE 0
       /\ Cardinality(E) \in Nat
  <2> HIDE DEF stored
  <2> QED BY Zenon, <1>8, VictimsOfPut
<1>11. Live' = (Live \cup {k}) \ E
  BY Zenon, <1>1, <1>7, <1>8 DEF Live
<1>12. Cardinality(Live') = Cardinality(Live \cup {k}) - Cardinality(E)
  <2>1. (Live \cup {k}) \cap E = E
    BY Zenon, <1>10
  <2>2. Cardinality((Live \cup {k}) \ E) =
            Cardinality(Live \cup {k}) - Cardinality((Live \cup {k}) \cap E)
    BY Zenon, <1>9, FS_Difference
  <2> QED BY Zenon, <1>11, <2>1, <2>2
<1>13. CapacityHeld'
  BY <1>9, <1>10, <1>12, ShardAssumption DEF Inv, CapacityHeld
<1>14. MarksMatchEntries'
  BY Zenon, <1>1, <1>3, <1>5, <1>6, <1>7 DEF Inv, TypeOK, MarksMatchEntries
<1>15. Cardinality(gone) \in Nat /\ updated \in Nat
       /\ Cardinality(gone) + updated = (IF k \in Live THEN 1 ELSE 0)
  <2>1. CASE k \in ExpiredKeys
    <3>1. gone = {k} /\ k \in Live /\ updated = 0
      BY Zenon, <2>1, ExpiredAreLive
    <3>2. Cardinality(gone) = 1
      BY Zenon, <3>1, FS_Singleton
    <3> HIDE DEF gone, updated
    <3> QED BY <3>1, <3>2
  <2>2. CASE k \notin ExpiredKeys
    <3>1. gone = {} /\ updated = (IF k \in Live THEN 1 ELSE 0)
      BY Zenon, <2>2 DEF Live
    <3>2. Cardinality(gone) = 0
      BY Zenon, <3>1, FS_EmptySet
    <3> HIDE DEF gone, updated
    <3> QED BY <3>1, <3>2
  <2> QED BY Zenon, <2>1, <2>2
<1>16. stats \in Stats /\ updates \in Nat
  BY Zenon DEF Inv, TypeOK, Stats
<1> HIDE DEF gone, updated
<1>17. /\ stats' \in Stats /\ stats'.puts = stats.puts + 1
       /\ stats'.deletes = stats.deletes
       /\ stats'.expirations = stats.expirations + Cardinality(gone)
       /\ stats'.evictions = stats.evictions + Cardinality(E)
  <2> DEFINE e == stats.expirations + Cardinality(gone)
             n == stats.evictions + Cardinality(E)
  <2>1. stats' = [hits |-> stats.hits, misses |-> stats.misses,
                  puts |-> stats.puts + 1, deletes |-> stats.deletes,
                  evictions |-> n, expirations |-> e]
    BY Zenon, <1>1, <1>16 DEF Stats
  <2>2. stats.puts + 1 \in Nat /\ e \in Nat /\ n \in Nat
    BY <1>10, <1>15, <1>16 DEF Stats
  <2> HIDE DEF e, n
  <2>3. stats' \in Stats
    BY Zenon, <1>16, <2>1, <2>2 DEF Stats
  <2>4. /\ stats'.puts = stats.puts + 1 /\ stats'.deletes = stats.deletes
        /\ stats'.expirations = e /\ stats'.evictions = n
    BY Zenon, <2>1
  <2> QED BY Zenon, <2>3, <2>4 DEF e, n
<1>18. StatsBalance'
  <2> DEFINE g == Cardinality(gone)
             e == Cardinality(E)
             l == Cardinality(Live)
             u == Cardinality(Live \cup {k})
  <2>1. /\ g \in Nat /\ e \in Nat /\ l \in Nat /\ u \in Nat /\ updated \in Nat
        /\ g + updated + u = l + 1
    <3>1. g \in Nat /\ e \in Nat /\ l \in Nat /\ updated \in Nat
      BY Zenon, <1>9, <1>10, <1>15
    <3>2. CASE k \in Live
      <4>1. g + updated = 1 /\ u = l
        BY Zenon, <3>2, <1>9, <1>15
      <4> HIDE DEF g, e, l, u
      <4> QED BY <3>1, <4>1
    <3>3. CASE k \notin Live
      <4>1. g + updated = 0 /\ u = l + 1
        BY Zenon, <3>3, <1>9, <1>15
      <4> HIDE DEF g, e, l, u
      <4> QED BY <3>1, <4>1
    <3> QED BY Zenon, <3>2, <3>3
  <2>2. stats.puts - updates = l + stats.deletes + stats.evictions + stats.expirations
    BY Zenon DEF Inv, StatsBalance
  <2>3. Cardinality(Live') = u - e
    BY Zenon, <1>12
  <2> HIDE DEF g, e, l, u
  <2>4. stats'.puts - updates' = (u - e) + stats'.deletes + stats'.evictions + stats'.expirations
    <3>1. stats'.expirations = stats.expirations + g /\ stats'.evictions = stats.evictions + e
      BY Zenon, <1>17 DEF g, e
    <3>2. stats'.puts = stats.puts + 1 /\ stats'.deletes = stats.deletes
          /\ updates' = updates + updated
      BY Zenon, <1>2, <1>17
    <3>3. /\ stats.puts \in Nat /\ stats.deletes \in Nat /\ stats.evictions \in Nat
          /\ stats.expirations \in Nat /\ updates \in Nat
      BY Zenon, <1>16 DEF Stats
    <3> DEFINE p == stats.puts   d == stats.deletes   y == stats.evictions
               x == stats.expirations   w == updated
    <3>4. /\ p \in Nat /\ d \in Nat /\ y \in Nat /\ x \in Nat /\ w \in Nat
          /\ p - updates = l + d + y + x /\ g + w + u = l + 1
      BY Zenon, <2>1, <2>2, <3>3
    <3> HIDE DEF p, d, y, x, w
    <3>5. (p + 1) - (updates + w) = (u - e) + d + (y + e) + (x + g)
      BY <2>1, <3>3, <3>4
    <3> QED BY Zenon, <3>1, <3>2, <3>5 DEF p, d, y, x, w
  <2> QED BY Zenon, <2>3, <2>4 DEF StatsBalance
<1>19. TypeOK'
  <2>1. entries' \in [Keys -> Entry \cup {Absent}] /\ marks' \in [Keys -> Nat]
    BY Zenon, <1>1, <1>3, <1>7 DEF Inv, TypeOK
  <2>2. source' \in [Keys -> Values \cup {Absent}]
    BY Zenon, <1>2 DEF Inv, TypeOK
  <2> QED BY <1>2, <1>15, <1>17, <2>1, <2>2 DEF Inv, TypeOK, Stats
<1>20. SourceAgrees'
  BY Zenon, <1>1, <1>2, <1>5, <1>7, <1>11 DEF Inv, TypeOK, SourceAgrees, Live
<1> QED BY Zenon, <1>13, <1>14, <1>18, <1>19, <1>20 DEF Inv

\* A step that deletes the keys of S, at most from the source too, and counts
\* those that were cached as deletes.
Deletes(S) ==
    /\ Remove(S)
    /\ stats' = [stats EXCEPT !.deletes = @ + Cardinality(Live \cap S)]
    /\ source' \in [Keys -> Values \cup {Absent}]
    /\ \A k \in Keys \ S : source'[k] = source[k]
    /\ faults' \in Nat /\ now' \in Nat /\ calls' \in Nat
    /\ UNCHANGED updates

\* Such a step keeps the invariant.
LEMMA DeletesInv ==
    ASSUME Inv, NEW S, S \subseteq Keys, Deletes(S)
    PROVE  Inv'
<1>1. /\ entries' \in [Keys -> Entry \cup {Absent}] /\ marks' \in [Keys -> Nat]
      /\ CapacityHeld' /\ MarksMatchEntries' /\ Live' \subseteq Live
      /\ Cardinality(Live') = Cardinality(Live) - Cardinality(Live \cap S)
      /\ Cardinality(Live) \in Nat /\ Cardinality(Live \cap S) \in Nat
  BY Zenon, RemoveInv DEF Deletes
<1>2. stats \in Stats /\ updates \in Nat
  BY Zenon DEF Inv, TypeOK, Stats
<1>3. /\ stats' \in Stats /\ stats'.puts = stats.puts
      /\ stats'.deletes = stats.deletes + Cardinality(Live \cap S)
      /\ stats'.evictions = stats.evictions /\ stats'.expirations = stats.expirations
  BY <1>1, <1>2 DEF Deletes, Stats
<1>4. TypeOK'
  BY Zenon, <1>1, <1>2, <1>3 DEF TypeOK, Deletes, Stats
<1>5. StatsBalance'
  BY <1>1, <1>2, <1>3 DEF Inv, StatsBalance, Deletes, Stats
<1>6. SourceAgrees'
  BY Zenon DEF Inv, TypeOK, SourceAgrees, Deletes, Remove, Live
<1> QED BY Zenon, <1>1, <1>4, <1>5, <1>6 DEF Inv

\* The steps that delete keys.
LEMMA DeleteSteps ==
    ASSUME Inv
    PROVE  /\ \A k \in Keys : Delete(k) => Deletes({k})
           /\ Clear => Deletes(Live)
           /\ ClearFails => \E S \in SUBSET Live : Deletes(S)
<1>1. /\ source \in [Keys -> Values \cup {Absent}]
      /\ faults \in Nat /\ now \in Nat /\ calls \in Nat
  BY Zenon DEF Inv, TypeOK
<1>2. ASSUME NEW k \in Keys, Delete(k) PROVE Deletes({k})
  <2>1. now' \in Nat /\ calls' \in Nat
    BY <1>1, <1>2, TimeType DEF Delete, Call, Inv
  <2>2. source' \in [Keys -> Values \cup {Absent}] /\ \A x \in Keys \ {k} : source'[x] = source[x]
    BY Zenon, <1>1, <1>2 DEF Delete
  <2> QED BY Zenon, <1>1, <1>2, <2>1, <2>2 DEF Delete, Deletes
<1>3. ASSUME NEW S \in SUBSET Live, ClearKeys(S), faults' \in Nat, now' \in Nat, calls' \in Nat
      PROVE  Deletes(S)
  <2>1. source' \in [Keys -> Values \cup {Absent}] /\ \A x \in Keys \ S : source'[x] = source[x]
    BY Zenon, <1>1, <1>3 DEF ClearKeys
  <2>2. Live \cap S = S
    BY Zenon
  <2> QED BY Zenon, <1>3, <2>1, <2>2 DEF ClearKeys, Deletes
<1>4. ASSUME Clear PROVE Deletes(Live)
  <2>1. now' \in Nat /\ calls' \in Nat /\ faults' \in Nat
    BY <1>1, <1>4, TimeType DEF Clear, Call, Inv
  <2> QED BY Zenon, <1>3, <1>4, <2>1 DEF Clear
<1>5. ASSUME ClearFails PROVE \E S \in SUBSET Live : Deletes(S)
  <2>1. now' \in Nat /\ calls' \in Nat /\ faults' \in Nat
    BY <1>1, <1>5, TimeType DEF ClearFails, SourceFails, Call, Inv
  <2>2. PICK S \in (SUBSET Live) \ {Live} : ClearKeys(S)
    BY Zenon, <1>5 DEF ClearFails
  <2> QED BY Zenon, <1>3, <2>1, <2>2
<1> QED BY Zenon, <1>2, <1>4, <1>5

\* The steps that touch neither entries nor counters.
LEMMA QuietSteps ==
    ASSUME Inv, \/ \E k \in Keys : DeleteFails(k)
                \/ Tick \/ Done \/ UNCHANGED vars
    PROVE  Inv'
<1>1. /\ UNCHANGED <<entries, marks, stats, source, updates>>
      /\ faults' \in Nat /\ now' \in Nat /\ calls' \in Nat
  <2>1. CASE \E k \in Keys : DeleteFails(k)
    BY <2>1, TimeType DEF DeleteFails, SourceFails, Call, Inv, TypeOK
  <2>2. CASE Tick
    BY <2>2 DEF Tick, Inv, TypeOK
  <2>3. CASE Done \/ UNCHANGED vars
    BY Zenon, <2>3 DEF Done, vars, Inv, TypeOK
  <2> QED BY Zenon, <2>1, <2>2, <2>3
<1> QED BY Zenon, <1>1 DEF Inv, TypeOK, CapacityHeld, MarksMatchEntries, StatsBalance,
                    SourceAgrees, Live

-----------------------------------------------------------------------------
(* The invariant.                                                          *)

\* It holds initially: the shard is empty and nothing was counted.
LEMMA InitInv == Init => Inv
<1> SUFFICES ASSUME Init PROVE Inv
  BY Zenon
<1>1. Live = {}
  BY Zenon DEF Init, Absentees, Live
<1>2. Cardinality(Live) = 0
  BY Zenon, <1>1, FS_EmptySet
<1>3. TypeOK
  BY Zenon, ShardAssumption DEF Init, Absentees, TypeOK
<1>4. CapacityHeld /\ StatsBalance
  BY <1>2, ShardAssumption DEF Init, CapacityHeld, StatsBalance
<1>5. MarksMatchEntries /\ SourceAgrees
  BY Zenon, <1>1 DEF Init, Absentees, MarksMatchEntries, SourceAgrees
<1> QED BY Zenon, <1>3, <1>4, <1>5 DEF Inv

\* Every step keeps it.
LEMMA NextInv == Inv /\ [Next]_vars => Inv'
<1> SUFFICES ASSUME Inv, [Next]_vars PROVE Inv'
  BY Zenon
<1>1. ASSUME NEW k \in Keys, Read(k) \/ Inspect(k) \/ PutFails(k) PROVE Inv'
  BY Zenon, <1>1, CollectSteps, CollectInv
<1>2. CASE Dump \/ ExpireShard
  BY Zenon, <1>2, CollectSteps, CollectInv
<1>3. ASSUME NEW k \in Keys, NEW v \in Values, NEW ttl \in Ttls \cup {0, Unset},
             Put(k, v, ttl)
      PROVE  Inv'
  BY Zenon, <1>3, PutInv
<1>4. ASSUME NEW k \in Keys, Delete(k) PROVE Inv'
  BY Zenon, <1>4, DeleteSteps, DeletesInv
<1>5. CASE Clear \/ ClearFails
  <2>1. PICK S \in SUBSET Live : Deletes(S)
    BY Zenon, <1>5, DeleteSteps
  <2>2. S \subseteq Keys
    BY Zenon DEF Live
  <2> QED BY Zenon, <2>1, <2>2, DeletesInv
<1>6. CASE (\E k \in Keys : DeleteFails(k)) \/ Tick \/ Done \/ UNCHANGED vars
  BY Zenon, <1>6, QuietSteps
<1> QED BY Zenon, <1>1, <1>2, <1>3, <1>4, <1>5, <1>6 DEF Next

\* The inductive invariant holds in every reachable state of the shard.
THEOREM Invariance == Spec => []Inv
BY InitInv, NextInv, PTL DEF Spec

\* Every variable of the shard keeps its type.
THEOREM TypeCorrect == Spec => []TypeOK
BY Invariance, PTL DEF Inv

\* Between two calls the shard is within its capacity: put() evicts what it must.
THEOREM CapacityIsHeld == Spec => []CapacityHeld
BY Invariance, PTL DEF Inv

\* A version mark exists exactly while its key is cached: delete()'s promise that
\* metadata never accumulates, for every path that removes an entry.
THEOREM MarksNeverAccumulate == Spec => []MarksMatchEntries
BY Invariance, PTL DEF Inv

\* The counters of the shard account for every entry ever inserted.
THEOREM CountersBalance == Spec => []StatsBalance
BY Invariance, PTL DEF Inv

\* In write-through mode put(), delete() and clear() keep cache and source in
\* agreement, whichever call of the source fails.
THEOREM CacheAgreesWithSource == Spec => []SourceAgrees
BY Invariance, PTL DEF Inv

-----------------------------------------------------------------------------
(* The refinement: what callers see is a TtlMap.                           *)

\* What is seen at time t of an entry or of Absent.
Seen(e, t) ==
    IF e = Absent \/ (e.expires # 0 /\ t >= e.expires) THEN Absent
    ELSE [value |-> e.value, expires |-> e.expires]

\* Seen is Visible, key by key, and vanishes at the deadline.
LEMMA SeenIsVisible ==
    ASSUME TypeOK
    PROVE  /\ Visible = [k \in Keys |-> Seen(entries[k], now)]
           /\ \A k \in Keys : Visible[k] = Absent <=> Shown(k) = Absent
           /\ \A k \in Keys : Shown(k) # Absent => Visible[k].value = Shown(k)
           /\ \A k \in Keys : Shown(k) = Absent <=> entries[k] = Absent \/ k \in ExpiredKeys
           /\ \A k \in Keys : Visible[k] # Absent => Visible[k].expires = entries[k].expires
<1>1. ASSUME NEW k \in Keys
      PROVE  /\ entries[k] # Absent =>
                   /\ entries[k].value \in Values /\ entries[k].value # Absent
                   /\ [value |-> entries[k].value, expires |-> entries[k].expires] # Absent
  BY ShardAssumption, AbsentAssumption DEF TypeOK, Entry
<1>2. ASSUME NEW k \in Keys
      PROVE  /\ Shown(k) = Absent <=> entries[k] = Absent \/ k \in ExpiredKeys
             /\ k \in ExpiredKeys <=> entries[k] # Absent /\ entries[k].expires # 0
                                       /\ now >= entries[k].expires
             /\ Shown(k) # Absent => Shown(k) = entries[k].value
  BY Zenon, <1>1 DEF Shown, ExpiredKeys, Expired
<1>3. ASSUME NEW k \in Keys
      PROVE  Visible[k] = IF Shown(k) = Absent THEN Absent
                          ELSE [value |-> entries[k].value, expires |-> entries[k].expires]
  BY Zenon DEF Visible
<1>4. ASSUME NEW k \in Keys PROVE Visible[k] = Seen(entries[k], now)
  BY Zenon, <1>2, <1>3 DEF Seen
<1>5. Visible = [k \in Keys |-> Seen(entries[k], now)]
  BY Zenon, <1>4 DEF Visible
<1>6. ASSUME NEW k \in Keys PROVE Visible[k] = Absent <=> Shown(k) = Absent
  BY Zenon, <1>1, <1>2, <1>3
<1>7. ASSUME NEW k \in Keys, Shown(k) # Absent
      PROVE  Visible[k].value = Shown(k) /\ Visible[k].expires = entries[k].expires
  <2>1. Visible[k] = [value |-> entries[k].value, expires |-> entries[k].expires]
    BY Zenon, <1>3, <1>7
  <2>2. Shown(k) = entries[k].value
    BY Zenon, <1>2, <1>7
  <2> QED BY <2>1, <2>2
<1> QED BY Zenon, <1>2, <1>5, <1>6, <1>7

\* An entry seen at time s and looked at again at time t.
LEMMA SeenLater ==
    ASSUME NEW e \in Entry \cup {Absent}, NEW s \in Nat, NEW t \in Nat, s <= t
    PROVE  Seen(e, t) = IF Seen(e, s) # Absent /\ Seen(e, s).expires \in 1 .. t
                        THEN Absent ELSE Seen(e, s)
<1>1. CASE e = Absent
  BY Zenon, <1>1 DEF Seen
<1>2. CASE e # Absent
  <2>1. e.expires \in Nat /\ [value |-> e.value, expires |-> e.expires] # Absent
    BY <1>2, AbsentAssumption DEF Entry
  <2>2. CASE e.expires # 0 /\ s >= e.expires
    BY <1>2, <2>1, <2>2 DEF Seen
  <2>3. CASE ~(e.expires # 0 /\ s >= e.expires)
    <3>1. Seen(e, s) = [value |-> e.value, expires |-> e.expires]
      BY Zenon, <1>2, <2>3 DEF Seen
    <3>2. Seen(e, s) # Absent /\ Seen(e, s).expires = e.expires
      BY <2>1, <3>1
    <3>3. e.expires \in 1 .. t <=> e.expires # 0 /\ t >= e.expires
      BY <2>1
    <3> QED BY Zenon, <1>2, <3>1, <3>2, <3>3 DEF Seen
  <2> QED BY Zenon, <2>2, <2>3
<1> QED BY Zenon, <1>1, <1>2

\* The same in the state after a step.
LEMMA SeenIsVisibleNext == TypeOK' => Visible' = [k \in Keys |-> Seen(entries'[k], now')]
<1>1. TypeOK => Visible = [k \in Keys |-> Seen(entries[k], now)]
  BY Zenon, SeenIsVisible
<1>2. (TypeOK => Visible = [k \in Keys |-> Seen(entries[k], now)])'
  BY <1>1, PTL
<1> QED BY Zenon, <1>2 DEF Seen

\* Removing the keys of S while time passes is seen as removing them.
LEMMA SeenRemoval ==
    ASSUME Inv, Inv', now <= now', NEW S,
           entries' = [k \in Keys |-> IF k \in S THEN Absent ELSE entries[k]]
    PROVE  Visible' = Map!Alive([k \in Keys |-> IF k \in S THEN Absent ELSE Visible[k]], now')
<1>1. Visible = [k \in Keys |-> Seen(entries[k], now)]
  BY Zenon, SeenIsVisible DEF Inv
<1>2. Visible' = [k \in Keys |-> Seen(entries'[k], now')]
  BY Zenon, SeenIsVisibleNext DEF Inv
<1>3. now \in Nat /\ now' \in Nat /\ entries \in [Keys -> Entry \cup {Absent}]
  BY Zenon DEF Inv, TypeOK
<1> DEFINE c == [k \in Keys |-> IF k \in S THEN Absent ELSE Visible[k]]
<1>4. ASSUME NEW k \in Keys
      PROVE  Seen(entries'[k], now') = IF c[k] # Absent /\ c[k].expires \in 1 .. now'
                                      THEN Absent ELSE c[k]
  <2>1. CASE k \in S
    BY Zenon, <2>1 DEF Seen
  <2>2. CASE k \notin S
    <3>1. c[k] = Seen(entries[k], now) /\ entries'[k] = entries[k]
      BY Zenon, <1>1, <2>2
    <3>2. entries[k] \in Entry \cup {Absent}
      BY Zenon, <1>3
    <3> HIDE DEF c
    <3>3. Seen(entries[k], now') = IF c[k] # Absent /\ c[k].expires \in 1 .. now'
                                  THEN Absent ELSE c[k]
      BY Zenon, <1>3, <3>1, <3>2, SeenLater
    <3> QED BY Zenon, <3>1, <3>3
  <2> QED BY Zenon, <2>1, <2>2
<1> HIDE DEF c
<1>5. Visible' = Map!Alive(c, now')
  BY Zenon, <1>2, <1>4 DEF Map!Alive
<1> QED BY Zenon, <1>5 DEF c

\* Collecting expired entries is not seen at all: only the passing of time is.
LEMMA SeenCollection ==
    ASSUME Inv, Inv', now <= now', NEW S, S \subseteq ExpiredKeys,
           entries' = [k \in Keys |-> IF k \in S THEN Absent ELSE entries[k]]
    PROVE  /\ Visible' = Map!Alive(Visible, now')
           /\ now' = now => Visible' = Visible
<1>1. ASSUME NEW k \in S PROVE k \in Keys /\ Visible[k] = Absent
  BY Zenon, SeenIsVisible, ExpiredAreLive DEF Inv
<1>2. [k \in Keys |-> IF k \in S THEN Absent ELSE Visible[k]] = Visible
  BY Zenon, <1>1 DEF Visible
<1>3. Visible' = Map!Alive(Visible, now')
  BY Zenon, <1>2, SeenRemoval
<1>4. ASSUME now' = now PROVE Visible' = Visible
  <2>1. /\ Visible = [k \in Keys |-> Seen(entries[k], now)]
        /\ Visible' = [k \in Keys |-> Seen(entries'[k], now')]
    BY Zenon, SeenIsVisible, SeenIsVisibleNext DEF Inv
  <2>2. ASSUME NEW k \in Keys PROVE Seen(entries'[k], now') = Seen(entries[k], now)
    <3>1. CASE k \in S
      <4>1. Visible[k] = Seen(entries[k], now)
        BY Zenon, <2>1
      <4>2. entries'[k] = Absent
        BY Zenon, <3>1
      <4> QED BY Zenon, <1>1, <3>1, <4>1, <4>2 DEF Seen
    <3>2. CASE k \notin S
      BY Zenon, <1>4, <3>2
    <3> QED BY Zenon, <3>1, <3>2
  <2> QED BY Zenon, <2>1, <2>2
<1> QED BY Zenon, <1>3, <1>4

\* When nothing is removed only the passing of time is seen.
LEMMA SeenAging ==
    ASSUME Inv, Inv', now <= now', entries' = entries
    PROVE  Visible' = Map!Alive(Visible, now')
<1>1. PICK S : S = {}
  BY Zenon
<1>2. S \subseteq ExpiredKeys
  BY Zenon, <1>1
<1>3. entries' = [k \in Keys |-> IF k \in S THEN Absent ELSE entries[k]]
  BY Zenon, <1>1 DEF Inv, TypeOK
<1> QED BY Zenon, <1>2, <1>3, SeenCollection

\* Time that passes in a call is time a TtlMap allows.
LEMMA SeenTime == ASSUME TypeOK, TimePasses PROVE Map!TimePasses /\ now <= now'
<1>1. now' \in now .. now + SourceDelay
  BY ShardAssumption DEF TypeOK, TimePasses
<1> QED BY Zenon, <1>1, TimeType DEF Map!TimePasses

\* Reads and diagnostics are seen as reads.
LEMMA ReadSeen ==
    ASSUME Inv, Inv', NEW k \in Keys, Read(k) \/ Inspect(k)
    PROVE  Map!Read(k)
<1>1. /\ answer' = <<"read", Shown(k)>> /\ now' = now
      /\ Remove(ExpiredKeys \cap {k})
  BY Zenon DEF Read, Inspect, Call
<1>2. Visible' = Visible
  <2>1. now <= now'
    BY <1>1 DEF Inv, TypeOK
  <2> QED BY Zenon, <1>1, <2>1, SeenCollection DEF Remove
<1>3. Shown(k) = IF Visible[k] = Absent THEN Absent ELSE Visible[k].value
  BY Zenon, SeenIsVisible DEF Inv
<1> QED BY Zenon, <1>1, <1>2, <1>3 DEF Map!Read

\* dump() is seen as reading everything.
LEMMA DumpSeen == ASSUME Inv, Inv', Dump PROVE Map!ReadAll
<1>1. /\ answer' = <<"dump", Visible>> /\ now' = now /\ Remove(ExpiredKeys)
  BY Zenon DEF Dump, Call
<1>2. now <= now'
  BY <1>1 DEF Inv, TypeOK
<1>3. Visible' = Visible
  BY Zenon, <1>1, <1>2, SeenCollection DEF Remove
<1> QED BY Zenon, <1>1, <1>3 DEF Map!ReadAll

\* A worker's expiration pass is not seen.
LEMMA ExpireSeen == ASSUME Inv, Inv', ExpireShard PROVE UNCHANGED Map!mapVars
<1>1. answer' = answer /\ now' = now /\ Remove(ExpiredKeys)
  BY Zenon DEF ExpireShard
<1>2. now <= now'
  BY <1>1 DEF Inv, TypeOK
<1>3. Visible' = Visible
  BY Zenon, <1>1, <1>2, SeenCollection DEF Remove
<1> QED BY Zenon, <1>1, <1>3 DEF Map!mapVars

\* A put or delete that fails is seen as a failed write.
LEMMA FailureSeen ==
    ASSUME Inv, Inv', NEW k \in Keys, PutFails(k) \/ DeleteFails(k)
    PROVE  Map!WriteFails
<1>1. SourceFails /\ (Remove(ExpiredKeys \cap {k}) \/ entries' = entries)
  BY Zenon DEF PutFails, DeleteFails
<1>2. answer' = <<"error">> /\ Map!TimePasses /\ now <= now'
  BY Zenon, <1>1, SeenTime DEF SourceFails, Call, Inv
<1>3. Visible' = Map!Alive(Visible, now')
  <2>1. CASE Remove(ExpiredKeys \cap {k})
    BY Zenon, <1>2, <2>1, SeenCollection DEF Remove
  <2>2. CASE entries' = entries
    BY Zenon, <1>2, <2>2, SeenAging
  <2> QED BY Zenon, <1>1, <2>1, <2>2
<1> QED BY Zenon, <1>2, <1>3 DEF Map!WriteFails

\* A delete is seen as a delete.
LEMMA DeleteSeen == ASSUME Inv, Inv', NEW k \in Keys, Delete(k) PROVE Map!Delete(k)
<1>1. /\ answer' = <<"delete", k \in Live>> /\ Map!TimePasses /\ now <= now'
      /\ Remove({k})
  BY Zenon, SeenTime DEF Delete, Call, Inv
<1>2. Visible[k] # Absent => k \in Live
  BY Zenon, SeenIsVisible DEF Inv, Live
<1>3. [x \in Keys |-> IF x \in {k} THEN Absent ELSE Visible[x]] = [Visible EXCEPT ![k] = Absent]
  BY Zenon DEF Visible
<1>4. Visible' = Map!Alive([Visible EXCEPT ![k] = Absent], now')
  BY Zenon, <1>1, <1>3, SeenRemoval DEF Remove
<1>5. \E found \in BOOLEAN : /\ Visible[k] # Absent => found
                             /\ answer' = <<"delete", found>>
  <2>1. (k \in Live) \in BOOLEAN
    OBVIOUS
  <2> QED BY <1>1, <1>2, <2>1, Zenon
<1> QED BY Zenon, <1>1, <1>4, <1>5 DEF Map!Delete

\* clear() is seen as emptying the map.
LEMMA ClearSeen == ASSUME Inv, Inv', Clear PROVE Map!Clear
<1>1. /\ answer' = <<"clear">> /\ Map!TimePasses /\ Remove(Live)
  BY Zenon, SeenTime DEF Clear, ClearKeys, Call, Inv
<1>2. ASSUME NEW k \in Keys PROVE entries'[k] = Absent
  BY Zenon, <1>1 DEF Remove, Live
<1>3. Visible' = [k \in Keys |-> Absent]
  BY Zenon, <1>2, SeenIsVisibleNext DEF Inv, Seen
<1> QED BY Zenon, <1>1, <1>3 DEF Map!Clear

\* A clear() that fails is seen as losing some entries.
LEMMA ClearFailsSeen == ASSUME Inv, Inv', ClearFails PROVE Map!ClearFails
<1>1. PICK S \in (SUBSET Live) \ {Live} : Remove(S)
  BY Zenon DEF ClearFails, ClearKeys
<1>2. answer' = <<"error">> /\ Map!TimePasses /\ now <= now'
  BY Zenon, SeenTime DEF ClearFails, SourceFails, Call, Inv
<1>3. Visible' = Map!Alive([k \in Keys |-> IF k \in S THEN Absent ELSE Visible[k]], now')
  BY Zenon, <1>1, <1>2, SeenRemoval DEF Remove
<1>4. S \in SUBSET Keys
  BY Zenon DEF Live
<1> QED BY Zenon, <1>2, <1>3, <1>4 DEF Map!ClearFails

\* A tick is seen as a tick.
LEMMA TickSeen == ASSUME Inv, Inv', Tick PROVE Map!Tick
<1>1. now' = now + 1 /\ answer' = answer /\ now <= now'
  BY DEF Tick, Inv, TypeOK
<1>2. Visible' = Map!Alive(Visible, now')
  BY Zenon, <1>1, SeenAging DEF Tick
<1> QED BY Zenon, <1>1, <1>2 DEF Map!Tick

\* A put is seen as a put that loses the evicted key, if any.
LEMMA PutSeen ==
    ASSUME Inv, Inv', NEW k \in Keys, NEW v \in Values, NEW ttl \in Ttls \cup {0, Unset},
           Put(k, v, ttl)
    PROVE  Map!Put(k, v, ttl)
<1> DEFINE gone == ExpiredKeys \cap {k}
           existing == IF k \in gone THEN Absent ELSE entries[k]
           version == 1 + (IF k \in gone THEN 0 ELSE marks[k])
           new == [value |-> v, expires |-> ResolveTtl(existing, ttl), version |-> version]
           stored == [entries EXCEPT ![k] = new]
<1>1. PICK E \in Victims(stored) :
         entries' = [x \in Keys |-> IF x \in E THEN Absent ELSE stored[x]]
  BY Zenon DEF Put
<1>2. answer' = <<"put">> /\ Map!TimePasses /\ now <= now'
  BY Zenon, SeenTime DEF Put, Call, Inv
<1>3. /\ now \in Nat /\ now' \in Nat /\ entries \in [Keys -> Entry \cup {Absent}]
      /\ existing \in Entry \cup {Absent} /\ version \in Nat \ {0}
  BY DEF Inv, TypeOK
<1>4. ResolveTtl(existing, ttl) \in Nat
  BY <1>3, ShardAssumption DEF ResolveTtl, Entry
<1>5. new \in Entry /\ new # Absent
  <2>1. new \in Entry
    BY Zenon, <1>3, <1>4 DEF Entry
  <2> QED BY Zenon, <2>1, AbsentAssumption
<1>6. {x \in Keys : stored[x] # Absent} = Live \cup {k}
  BY Zenon, <1>3, <1>5 DEF Live
<1>7. E \in SUBSET Keys /\ \A x, y \in E : x = y
  <2> HIDE DEF stored
  <2>1. E \subseteq Live \cup {k} /\ Cardinality(E) <= 1
    BY Zenon, <1>6, VictimsOfPut
  <2>2. E \in SUBSET Keys
    BY Zenon, <2>1 DEF Live
  <2>3. IsFiniteSet(E) /\ Cardinality(E) \in Nat
    BY Zenon, <2>2, KeySets
  <2>4. Cardinality(E) = 0 \/ Cardinality(E) = 1
    BY <2>1, <2>3
  <2>5. E = {} \/ \E x : E = {x}
    BY Zenon, <2>3, <2>4, FS_EmptySet, FS_Singleton
  <2> QED BY Zenon, <2>2, <2>5
<1>8. existing = Absent <=> Visible[k] = Absent
  BY Zenon, SeenIsVisible DEF Inv
<1>9. existing # Absent => existing.expires = Visible[k].expires
  BY Zenon, <1>8, SeenIsVisible DEF Inv
<1>10. ResolveTtl(existing, ttl) = Map!Deadline(k, ttl)
  BY Zenon, <1>8, <1>9 DEF ResolveTtl, Map!Deadline
<1> DEFINE r == [value |-> v, expires |-> Map!Deadline(k, ttl)]
           c == [x \in Keys |-> IF x \in E THEN Absent
                                ELSE IF x = k THEN r ELSE Visible[x]]
<1>11. /\ new.expires \in Nat
       /\ new.expires = Map!Deadline(k, ttl) /\ new.value = v
       /\ r # Absent /\ r.expires = new.expires
       /\ r = [value |-> new.value, expires |-> new.expires]
  <2> DEFINE d == Map!Deadline(k, ttl)
             e == ResolveTtl(existing, ttl)
  <2>1. d \in Nat /\ e = d
    BY Zenon, <1>4, <1>10
  <2> HIDE DEF d, e
  <2>2. r = [value |-> v, expires |-> d] /\ new.expires = e /\ new.value = v
    BY Zenon DEF d, e
  <2> HIDE DEF r, new
  <2>3. r.expires = d /\ r \in [value : Values, expires : Nat]
    BY Zenon, <2>1, <2>2
  <2>4. r # Absent
    BY Zenon, <2>3, AbsentAssumption
  <2> QED BY Zenon, <2>1, <2>2, <2>3, <2>4 DEF d
<1>12. ASSUME NEW x \in Keys
       PROVE  Seen(entries'[x], now') = IF c[x] # Absent /\ c[x].expires \in 1 .. now'
                                       THEN Absent ELSE c[x]
  <2>1. CASE x \in E
    BY Zenon, <1>1, <2>1 DEF Seen
  <2>2. CASE x \notin E /\ x = k
    <3>1. entries'[x] = new /\ c[x] = r
      BY Zenon, <1>1, <1>3, <2>2
    <3> HIDE DEF new, r, c
    <3>2. new.expires # 0 /\ now' >= new.expires <=> new.expires \in 1 .. now'
      <4>1. new.expires \in Nat /\ now' \in Nat
        BY Zenon, <1>3, <1>11
      <4> QED BY <4>1
    <3> QED BY Zenon, <1>5, <1>11, <3>1, <3>2 DEF Seen
  <2>3. CASE x \notin E /\ x # k
    <3>1. entries'[x] = entries[x] /\ c[x] = Seen(entries[x], now)
      BY Zenon, <1>1, <1>3, <2>3, SeenIsVisible DEF Inv
    <3>2. entries[x] \in Entry \cup {Absent}
      BY Zenon, <1>3
    <3> HIDE DEF c
    <3>3. Seen(entries[x], now') = IF c[x] # Absent /\ c[x].expires \in 1 .. now'
                                  THEN Absent ELSE c[x]
      BY Zenon, <1>2, <1>3, <3>1, <3>2, SeenLater
    <3> QED BY Zenon, <3>1, <3>3
  <2> QED BY Zenon, <2>1, <2>2, <2>3
<1>13. Visible' = Map!Alive(c, now')
  <2>1. Visible' = [x \in Keys |-> Seen(entries'[x], now')]
    BY Zenon, SeenIsVisibleNext DEF Inv
  <2> HIDE DEF c
  <2> QED BY Zenon, <1>12, <2>1 DEF Map!Alive
<1>14. \E lost \in SUBSET Keys :
         /\ \A x, y \in lost : x = y
         /\ Visible' = Map!Alive([x \in Keys |-> IF x \in lost THEN Absent
                                                ELSE IF x = k THEN r ELSE Visible[x]], now')
  BY <1>7, <1>13, Zenon
<1> QED BY <1>2, <1>14, Zenon DEF Map!Put

\* The initial states map to initial states.
LEMMA InitSeen == Init => Map!Init
BY Zenon DEF Init, Absentees, Visible, Shown, Map!Init

\* Every step maps to a step or a stutter.
LEMMA NextSeen == Inv /\ Inv' /\ [Next]_vars => [Map!Next]_(Map!mapVars)
<1> SUFFICES ASSUME Inv, Inv', [Next]_vars PROVE Map!Next \/ UNCHANGED Map!mapVars
  BY Zenon
<1>1. ASSUME NEW k \in Keys, Read(k) \/ Inspect(k) PROVE Map!Next
  BY Zenon, <1>1, ReadSeen DEF Map!Next
<1>2. ASSUME NEW k \in Keys, PutFails(k) \/ DeleteFails(k) PROVE Map!Next
  BY Zenon, <1>2, FailureSeen DEF Map!Next
<1>3. ASSUME NEW k \in Keys, Delete(k) PROVE Map!Next
  BY Zenon, <1>3, DeleteSeen DEF Map!Next
<1>4. ASSUME NEW k \in Keys, NEW v \in Values, NEW ttl \in Ttls \cup {0, Unset},
             Put(k, v, ttl)
      PROVE  Map!Next
  BY Zenon, <1>4, PutSeen DEF Map!Next
<1>5. CASE Dump
  BY Zenon, <1>5, DumpSeen DEF Map!Next
<1>6. CASE Clear
  BY Zenon, <1>6, ClearSeen DEF Map!Next
<1>7. CASE ClearFails
  BY Zenon, <1>7, ClearFailsSeen DEF Map!Next
<1>8. CASE Tick
  BY Zenon, <1>8, TickSeen DEF Map!Next
<1>9. CASE ExpireShard
  BY Zenon, <1>9, ExpireSeen
<1>10. CASE Done \/ UNCHANGED vars
  <2>1. entries' = entries /\ now' = now /\ answer' = answer
    BY Zenon, <1>10 DEF Done, vars
  <2>2. Visible' = Visible
    BY Zenon, <2>1 DEF Visible, Shown, Expired
  <2> QED BY Zenon, <2>1, <2>2 DEF Map!mapVars
<1> QED BY Zenon, <1>1, <1>2, <1>3, <1>4, <1>5, <1>6, <1>7, <1>8, <1>9, <1>10 DEF Next

\* The shard implements TtlMap: callers of get, put, delete, clear, inspect and
\* dump see a map whose entries vanish at their deadline.
THEOREM Implementation == Spec => ImplementsTtlMap
<1>1. Spec => []Inv
  BY Zenon, Invariance
<1>2. Inv /\ Inv' /\ [Next]_vars => [Map!Next]_(Map!mapVars)
  BY Zenon, NextSeen
<1> QED BY <1>1, <1>2, InitSeen, PTL DEF Spec, ImplementsTtlMap, Map!Spec

-----------------------------------------------------------------------------
(* The flights of the shard (shard.singleflight), for any finite set of    *)
(* threads and any number of flights and deletes.                          *)

\* Flights are numbered in the order they start: one that is led or waited on
\* has started, and one that has not started is pending.
StartedFlights ==
    /\ \A t \in Threads : pc[t] # "idle" => flight[t] \in 1 .. started
    /\ \A f \in Flights : f > started => outcome[f] = "pending"

FlightInv ==
    /\ FlightTypeOK
    /\ StartedFlights
    /\ RegisteredIsLed
    /\ NoOrphanedWaiter
    /\ LeadersAreDistinct

\* FlightInv holds initially.
LEMMA FlightInitInv == FlightInit => FlightInv
BY BoundsAssumption
DEF FlightInit, FlightInv, FlightTypeOK, StartedFlights, RegisteredIsLed,
    NoOrphanedWaiter, LeadersAreDistinct, Leaders, LedFlights, Leading, Flights

\* A thread that joins the registered flight waits on a flight that is led.
LEMMA JoinInv ==
    ASSUME FlightInv, NEW t \in Threads, Join(t)
    PROVE  FlightInv'
<1> USE DEF FlightInv, Join, Goto, Leading, Leaders, LedFlights, Flights
<1>1. FlightTypeOK'
  BY Zenon DEF FlightTypeOK
<1>2. StartedFlights'
  BY Zenon DEF FlightTypeOK, StartedFlights, RegisteredIsLed
<1>3. Leaders' = Leaders /\ LedFlights' = LedFlights
  BY Zenon DEF FlightTypeOK
<1>4. RegisteredIsLed' /\ LeadersAreDistinct'
  BY Zenon, <1>3 DEF FlightTypeOK, RegisteredIsLed, LeadersAreDistinct
<1>5. NoOrphanedWaiter'
  BY Zenon, <1>3 DEF FlightTypeOK, NoOrphanedWaiter, RegisteredIsLed
<1> QED BY Zenon, <1>1, <1>2, <1>4, <1>5

\* A new leader registers a flight nobody has seen before.
LEMMA LeadInv ==
    ASSUME FlightInv, NEW t \in Threads, Lead(t)
    PROVE  FlightInv'
<1> USE BoundsAssumption DEF FlightInv, Lead, Goto, Leading, Leaders, LedFlights, Flights
<1>1. FlightTypeOK'
  BY DEF FlightTypeOK
<1>2. StartedFlights'
  BY DEF FlightTypeOK, StartedFlights
<1>3. Leaders' = Leaders \cup {t}
  BY Zenon DEF FlightTypeOK
<1>4. LedFlights' = LedFlights \cup {started + 1}
  BY <1>3 DEF FlightTypeOK
<1>5. RegisteredIsLed'
  BY Zenon, <1>4 DEF RegisteredIsLed
<1>6. NoOrphanedWaiter'
  BY Zenon, <1>4 DEF FlightTypeOK, NoOrphanedWaiter
<1>7. LeadersAreDistinct'
  BY <1>3 DEF FlightTypeOK, StartedFlights, LeadersAreDistinct
<1> QED BY Zenon, <1>1, <1>2, <1>5, <1>6, <1>7

\* The loader's return and the put() leave the flight led by its leader.
LEMMA LoadStoreInv ==
    ASSUME FlightInv, NEW t \in Threads, Load(t) \/ Store(t)
    PROVE  FlightInv'
<1> USE DEF FlightInv, Load, Store, Goto, Leading, Leaders, LedFlights, Flights
<1>1. flight[t] \in 0 .. MaxFlights
  BY Zenon DEF FlightTypeOK
<1>2. FlightTypeOK'
  BY Zenon, <1>1 DEF FlightTypeOK
<1>3. StartedFlights'
  BY Zenon DEF FlightTypeOK, StartedFlights
<1>4. Leaders' = Leaders /\ LedFlights' = LedFlights
  BY DEF FlightTypeOK
<1>5. RegisteredIsLed' /\ LeadersAreDistinct'
  BY ZenonT(60), <1>4 DEF FlightTypeOK, RegisteredIsLed, LeadersAreDistinct
<1>6. NoOrphanedWaiter'
  BY Zenon, <1>4 DEF FlightTypeOK, NoOrphanedWaiter
<1> QED BY Zenon, <1>2, <1>3, <1>5, <1>6

\* A leader that leaves has settled its flight: those who wait on it can go.
LEMMA SettleInv ==
    ASSUME FlightInv, NEW t \in Threads, Publish(t) \/ Fail(t)
    PROVE  FlightInv'
<1>1. PICK r \in {"result", "exception"} : Settle(t, r)
  <2>1. Settle(t, "result") \/ Settle(t, "exception")
    BY Zenon DEF Publish, Fail
  <2> QED BY <2>1, Zenon
<1> USE DEF FlightInv, Publish, Fail, Settle, Goto, Leading, Leaders, LedFlights, Flights
<1>2. t \in Leaders /\ flight[t] \in Flights /\ flight[t] <= started
  BY DEF FlightTypeOK, StartedFlights
<1>3. FlightTypeOK'
  BY <1>1, <1>2, BoundsAssumption DEF FlightTypeOK
<1>4. StartedFlights'
  BY <1>1, <1>2 DEF FlightTypeOK, StartedFlights
<1>5. Leaders' = Leaders \ {t}
  BY Zenon, <1>1 DEF FlightTypeOK
<1>6. RegisteredIsLed'
  BY Zenon, <1>1 DEF RegisteredIsLed
<1>7. \A u \in Leaders' : u \in Leaders /\ flight'[u] = flight[u] /\ flight[u] # flight[t]
  BY Zenon, <1>1, <1>2, <1>5 DEF FlightTypeOK, LeadersAreDistinct
<1>8. LeadersAreDistinct'
  BY <1>1, <1>2, <1>7 DEF FlightTypeOK, LeadersAreDistinct
<1>9. NoOrphanedWaiter'
  <2> SUFFICES ASSUME NEW u \in Threads, pc'[u] = "wait"
               PROVE  flight'[u] \in LedFlights' \/ outcome'[flight'[u]] # "pending"
    BY Zenon DEF NoOrphanedWaiter
  <2>1. u # t /\ pc[u] = "wait" /\ flight'[u] = flight[u]
    BY Zenon, <1>1 DEF FlightTypeOK
  <2>2. CASE flight[u] = flight[t]
    BY Zenon, <1>1, <1>2, <2>1, <2>2 DEF FlightTypeOK
  <2>3. CASE flight[u] # flight[t] /\ flight[u] \in LedFlights
    BY <1>1, <1>5, <2>1, <2>3 DEF FlightTypeOK
  <2>4. CASE flight[u] # flight[t] /\ outcome[flight[u]] # "pending"
    BY <1>1, <2>1, <2>4 DEF FlightTypeOK
  <2> QED BY Zenon, <2>1, <2>2, <2>3, <2>4 DEF NoOrphanedWaiter
<1> QED BY Zenon, <1>3, <1>4, <1>6, <1>8, <1>9

\* A waiter returns only from a flight that is settled, and leads none.
LEMMA WakeInv ==
    ASSUME FlightInv, NEW t \in Threads, Wake(t)
    PROVE  FlightInv'
<1> USE DEF FlightInv, Wake, Goto, Leading, Leaders, LedFlights, Flights
<1>1. FlightTypeOK'
  BY BoundsAssumption DEF FlightTypeOK
<1>2. StartedFlights'
  BY Zenon DEF FlightTypeOK, StartedFlights
<1>3. Leaders' = Leaders /\ LedFlights' = LedFlights
  BY Zenon DEF FlightTypeOK
<1>4. RegisteredIsLed' /\ LeadersAreDistinct'
  BY Zenon, <1>3 DEF FlightTypeOK, RegisteredIsLed, LeadersAreDistinct
<1>5. NoOrphanedWaiter'
  BY Zenon, <1>3 DEF FlightTypeOK, NoOrphanedWaiter
<1> QED BY Zenon, <1>1, <1>2, <1>4, <1>5

\* A delete, the loss of the entry and a stutter change no flight.
LEMMA DeleteOrClearInv ==
    ASSUME FlightInv, DeleteOrClear \/ Drop \/ UNCHANGED flightVars
    PROVE  FlightInv'
<1>1. /\ UNCHANGED <<outcome, started, pc, flight, epoch>>
      /\ reg' \in {reg, 0} /\ entry' \in {entry, 0}
      /\ deletes' \in {deletes, deletes + 1}
  BY Zenon DEF DeleteOrClear, Drop, flightVars
<1> USE DEF FlightInv, Leading, Leaders, LedFlights, Flights
<1>2. FlightTypeOK'
  BY <1>1, BoundsAssumption DEF FlightTypeOK
<1>3. StartedFlights' /\ NoOrphanedWaiter' /\ LeadersAreDistinct'
  BY Zenon, <1>1 DEF StartedFlights, NoOrphanedWaiter, LeadersAreDistinct
<1>4. RegisteredIsLed'
  BY Zenon, <1>1 DEF RegisteredIsLed
<1> QED BY Zenon, <1>2, <1>3, <1>4

-----------------------------------------------------------------------------

\* FlightInv is preserved by every step.
LEMMA FlightNextInv == FlightInv /\ [FlightNext]_flightVars => FlightInv'
<1> SUFFICES ASSUME FlightInv, [FlightNext]_flightVars PROVE FlightInv'
  BY Zenon
<1>1. CASE UNCHANGED flightVars
  BY Zenon, <1>1, DeleteOrClearInv
<1>2. CASE FlightNext
  BY Zenon, <1>2, JoinInv, LeadInv, LoadStoreInv, SettleInv, WakeInv, DeleteOrClearInv
  DEF FlightNext, Progress, Quiet
<1> QED BY Zenon, <1>1, <1>2

\* FlightInv holds in every reachable state.
THEOREM FlightInvariance == FlightSpec => []FlightInv
<1> QED BY FlightInitInv, FlightNextInv, PTL DEF FlightSpec

\* The flight in shard.singleflight is always led by a thread that will settle
\* it: a thread never joins a dead flight, in spite of deletes and of leaders
\* that pop each other's registration.
THEOREM JoinsALiveFlight == FlightSpec => []RegisteredIsLed
<1>1. FlightInv => RegisteredIsLed
  BY Zenon DEF FlightInv
<1> QED BY <1>1, FlightInvariance, PTL

\* No wakeup is lost: a waited-on flight is led or already settled.
THEOREM NoLostWakeup == FlightSpec => []NoOrphanedWaiter
<1>1. FlightInv => NoOrphanedWaiter
  BY Zenon DEF FlightInv
<1> QED BY <1>1, FlightInvariance, PTL

\* A flight has one leader, and is settled once: while it is led its event is
\* not set.
THEOREM OneLeaderPerFlight == FlightSpec => []LeadersAreDistinct
<1>1. FlightInv => LeadersAreDistinct
  BY Zenon DEF FlightInv
<1> QED BY <1>1, FlightInvariance, PTL

-----------------------------------------------------------------------------
(* The number of concurrent loaders.                                       *)

\* One loader more than the deletes, and only while a flight is registered.
LeadersBound ==
    Cardinality(Leaders) <= deletes + (IF reg = 0 THEN 0 ELSE 1)

LEMMA LeadersFinite == IsFiniteSet(Leaders) /\ Cardinality(Leaders) \in Nat
<1>1. Leaders \subseteq Threads
  BY Zenon DEF Leaders
<1> QED BY Zenon, <1>1, ThreadsFinite, FS_Subset, FS_CardinalityType

\* Every step preserves the bound: a leader is added only when no flight is
\* registered, and a registration is dropped only by a delete or by a leader
\* that leaves.
LEMMA LeadersBoundStep ==
    ASSUME FlightInv, LeadersBound, [FlightNext]_flightVars
    PROVE  LeadersBound'
<1> USE LeadersFinite DEF FlightInv, LeadersBound, Goto
<1>1. ASSUME NEW t \in Threads, Lead(t)
      PROVE  LeadersBound'
  <2>1. Leaders' = Leaders \cup {t} /\ t \notin Leaders
    BY Zenon, <1>1 DEF Lead, Leaders, Leading, FlightTypeOK
  <2>2. Cardinality(Leaders') = Cardinality(Leaders) + 1
    BY Zenon, <2>1, FS_AddElement
  <2> QED BY <1>1, <2>2 DEF Lead, FlightTypeOK
<1>2. ASSUME NEW t \in Threads, Publish(t) \/ Fail(t)
      PROVE  LeadersBound'
  <2>1. Leaders' = Leaders \ {t} /\ t \in Leaders
    BY Zenon, <1>2 DEF Publish, Fail, Settle, Leaders, Leading, FlightTypeOK
  <2>2. Cardinality(Leaders') = Cardinality(Leaders) - 1
    BY Zenon, <2>1, FS_RemoveElement
  <2>3. reg' = 0 /\ deletes' = deletes
    BY Zenon, <1>2 DEF Publish, Fail, Settle
  <2> QED BY <2>2, <2>3 DEF FlightTypeOK
<1>3. CASE DeleteOrClear
  <2>1. Leaders' = Leaders /\ reg' = 0 /\ deletes' = deletes + 1
    BY Zenon, <1>3 DEF DeleteOrClear, Leaders
  <2> QED BY <2>1 DEF FlightTypeOK
<1>4. ASSUME NEW t \in Threads, Join(t) \/ Load(t) \/ Store(t) \/ Wake(t)
      PROVE  LeadersBound'
  <2>1. Leaders' = Leaders /\ reg' = reg /\ deletes' = deletes
    BY Zenon, <1>4 DEF Join, Load, Store, Wake, Leaders, Leading, FlightTypeOK
  <2> QED BY Zenon, <2>1
<1>5. CASE Drop \/ UNCHANGED flightVars
  <2>1. Leaders' = Leaders /\ reg' = reg /\ deletes' = deletes
    BY Zenon, <1>5 DEF Drop, flightVars, Leaders
  <2> QED BY Zenon, <2>1
<1> QED BY Zenon, <1>1, <1>2, <1>3, <1>4, <1>5 DEF FlightNext, Progress, Quiet

\* The number of concurrent loaders of a key exceeds the number of deletes by
\* at most one; in particular a key that is never deleted has one loader.
THEOREM LoadersBounded == FlightSpec => []LoadersCollapse
<1>1. FlightInit => LeadersBound
  <2> SUFFICES ASSUME FlightInit PROVE LeadersBound
    BY Zenon
  <2>1. Leaders = {}
    BY Zenon DEF FlightInit, Leaders, Leading
  <2> QED BY <2>1, FS_EmptySet DEF FlightInit, LeadersBound
<1>2. FlightInv /\ LeadersBound /\ [FlightNext]_flightVars => LeadersBound'
  BY Zenon, LeadersBoundStep
<1>3. FlightInv /\ LeadersBound => LoadersCollapse
  BY LeadersFinite DEF FlightInv, FlightTypeOK, LeadersBound, LoadersCollapse
<1> QED BY <1>1, <1>2, <1>3, FlightInvariance, PTL DEF FlightSpec

=============================================================================
