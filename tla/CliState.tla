------------------------------ MODULE CliState ------------------------------
(***************************************************************************)
(* The basic commands of the command line tool.  Each invocation takes the *)
(* state file's lock, rebuilds a cache from the state file, runs one       *)
(* command on it and, if the command writes, saves the cache again.        *)
(*                                                                         *)
(* A value is abstracted to the process that put it.  Time is one clock: a *)
(* saved entry carries the time it has left, and the process that loads it *)
(* counts from the moment of the load.  In a cache that has just been      *)
(* loaded the next victim of LRU, LFU and FIFO alike is the entry that was *)
(* loaded first.                                                           *)
(***************************************************************************)
EXTENDS StateFileLock, Integers, Sequences

CONSTANTS
    Keys,
    Capacity,       \* --capacity, for one shard (the default of --shards)
    DefaultTtl,     \* --default-ttl; 0 stands for none
    Ttls,           \* the values of --ttl in use
    InitialFiles,   \* what the state file may hold at first
    Nobody          \* the writer of the values in the initial file

ASSUME CliConstants ==
    /\ Capacity \in Nat \ {0}
    /\ DefaultTtl \in Nat
    /\ Ttls \subseteq Nat \ {0}

Items == [key : Keys, value : Processes \cup {Nobody}, hits : Nat,
          form : {"left", "wall", "bad"}, t : Nat]

\* The state file was written by the tool: it has one item per key.
ASSUME InitialFilesAssumption ==
    \A f \in InitialFiles :
        /\ f \in Seq(Items)
        /\ \A m, n \in 1 .. Len(f) : f[m].key = f[n].key => m = n

VARIABLES
    file,       \* the entries of the state file, in order
    stage,      \* how far a process is inside the with block
    mem,        \* the cache of a process, in the order of its backend
    touched,    \* the keys the command of a process is about
    version,    \* history: how often the state file was replaced
    basis,      \* history: the version of the file that a process loaded
    loadedAt    \* history: when it loaded it

cliVars == <<file, stage, mem, touched, version, basis, loadedAt>>
vars == <<lockVars, cliVars>>

CliInit ==
    /\ LockInit
    /\ file \in InitialFiles
    /\ stage = [p \in Processes |-> "fresh"]
    /\ mem = [p \in Processes |-> <<>>]
    /\ touched = [p \in Processes |-> {}]
    /\ version = 0
    /\ basis = [p \in Processes |-> 0]
    /\ loadedAt = [p \in Processes |-> 0]

\* A ttl of None; _SKIP_ENTRY; a put() without a ttl.
NoExpiry == 0
SkipEntry == -1
Omitted == -2

\* _ttl_from_state_item: "left" is the ttl_remaining field, where 0 stands for
\* null or for an item with neither field; "wall" is the expires_wall field of
\* older files; "bad" stands for anything else, which cannot be read.
TtlFromStateItem(item, wallNow) ==
    CASE item.form = "left" -> item.t
      [] item.form = "wall" /\ item.t > wallNow -> item.t - wallNow
      [] OTHER -> SkipEntry

\* The deadline put() computes from a time to live.
Deadline(ttl, t) == IF ttl = NoExpiry THEN NoExpiry ELSE t + ttl

Expired(e, t) == e.deadline # NoExpiry /\ t >= e.deadline

\* A faulty variant: no room is made.
InsertUnbounded(cache, e) == Append(cache, e)

\* put() of a key that is not cached: at the end, the first entry making room.
Insert(cache, e) ==
    IF Len(cache) < Capacity THEN Append(cache, e) ELSE Append(Tail(cache), e)

\* A faulty variant: a null ttl_remaining is loaded as an omitted ttl.
LoadItemDefaulting(item, t) ==
    LET ttl == TtlFromStateItem(item, t)
    IN  [key |-> item.key, value |-> item.value, hits |-> item.hits,
         deadline |-> Deadline(IF ttl = NoExpiry THEN DefaultTtl ELSE ttl, t)]

\* put() of one item and restore_entry_metadata.
LoadItem(item, t) ==
    [key |-> item.key, value |-> item.value, hits |-> item.hits,
     deadline |-> Deadline(TtlFromStateItem(item, t), t)]

\* The elements of s at the positions of N, in the order of s.
AtPositions(s, N) ==
    LET F[n \in 0 .. Len(s)] ==
            IF n = 0 THEN <<>>
            ELSE IF n \in N THEN Append(F[n - 1], s[n]) ELSE F[n - 1]
    IN  F[Len(s)]

\* _load_cache_state: the items that are not skipped, one put() each, so that
\* at most Capacity of them, the last ones, remain.
LoadCacheState(items, t) ==
    LET kept == AtPositions(items, {n \in DOMAIN items :
                                       TtlFromStateItem(items[n], t) # SkipEntry})
        excess == IF Len(kept) > Capacity THEN Len(kept) - Capacity ELSE 0
    IN  [n \in 1 .. Len(kept) - excess |-> LoadItem(kept[n + excess], t)]

\* _save_cache_state: what dump() shows, with the time that is left.
SaveCacheState(cache, t) ==
    LET shown == AtPositions(cache, {n \in DOMAIN cache : ~Expired(cache[n], t)})
    IN  [n \in 1 .. Len(shown) |->
            [key |-> shown[n].key, value |-> shown[n].value,
             hits |-> shown[n].hits, form |-> "left",
             t |-> IF shown[n].deadline = NoExpiry THEN NoExpiry
                   ELSE shown[n].deadline - t]]

Without(cache, k) == AtPositions(cache, {n \in DOMAIN cache : cache[n].key # k})

\* put(): an entry of the key that has expired is dropped first; a live one is
\* replaced where it is and keeps its hits, and its deadline if no ttl is given.
PutKey(cache, k, p, ttl, t) ==
    LET live == {n \in 1 .. Len(cache) : cache[n].key = k /\ ~Expired(cache[n], t)}
        new(d, h) == [key |-> k, value |-> p, hits |-> h, deadline |-> d]
        explicit == Deadline(IF ttl = Omitted THEN DefaultTtl ELSE ttl, t)
    IN  IF live = {}
        THEN Insert(Without(cache, k), new(explicit, 0))
        ELSE [n \in 1 .. Len(cache) |->
                 IF n \in live
                 THEN new(IF ttl = Omitted THEN cache[n].deadline ELSE explicit,
                          cache[n].hits)
                 ELSE cache[n]]

-----------------------------------------------------------------------------

\* A faulty variant: the state is read while the process waits for the lock.
LoadEarly(p) ==
    /\ pc[p] \in {"trying", "held"}
    /\ stage[p] = "fresh"
    /\ mem' = [mem EXCEPT ![p] = LoadCacheState(file, now)]
    /\ stage' = [stage EXCEPT ![p] = "loaded"]
    /\ basis' = [basis EXCEPT ![p] = version]
    /\ loadedAt' = [loadedAt EXCEPT ![p] = now]
    /\ UNCHANGED <<lockVars, file, touched, version>>

\* run_basic: the cache is rebuilt once the lock is held.
Load(p) ==
    /\ pc[p] = "held"
    /\ stage[p] = "fresh"
    /\ mem' = [mem EXCEPT ![p] = LoadCacheState(file, now)]
    /\ stage' = [stage EXCEPT ![p] = "loaded"]
    /\ basis' = [basis EXCEPT ![p] = version]
    /\ loadedAt' = [loadedAt EXCEPT ![p] = now]
    /\ UNCHANGED <<lockVars, file, touched, version>>

\* A writing command has changed the cache of the process.
Change(p, cache, ks) ==
    /\ pc[p] = "held"
    /\ stage[p] = "loaded"
    /\ mem' = [mem EXCEPT ![p] = cache]
    /\ touched' = [touched EXCEPT ![p] = ks]
    /\ stage' = [stage EXCEPT ![p] = "changed"]
    /\ UNCHANGED <<lockVars, file, version, basis, loadedAt>>

PutCommand(p) ==
    \E k \in Keys, ttl \in Ttls \cup {NoExpiry, Omitted} :
        Change(p, PutKey(mem[p], k, p, ttl, now), {k})

DeleteCommand(p) == \E k \in Keys : Change(p, Without(mem[p], k), {k})

ClearCommand(p) == Change(p, <<>>, Keys)

\* A process that ends takes its cache with it.
Forget(p) ==
    /\ stage' = [stage EXCEPT ![p] = "fresh"]
    /\ mem' = [mem EXCEPT ![p] = <<>>]
    /\ touched' = [touched EXCEPT ![p] = {}]
    /\ basis' = [basis EXCEPT ![p] = 0]
    /\ loadedAt' = [loadedAt EXCEPT ![p] = 0]

\* get, contains, inspect, dump and stats print and do not save; any command
\* may raise before it saves.
EndUnsaved(p) ==
    /\ Leave(p)
    /\ Forget(p)
    /\ UNCHANGED <<file, version>>

\* write_json replaces the state file in one step; the temporary file it fills
\* before is seen by nobody.
Save(p) ==
    /\ stage[p] = "changed"
    /\ Leave(p)
    /\ file' = SaveCacheState(mem[p], now)
    /\ version' = version + 1
    /\ Forget(p)

Killed(p) ==
    /\ Crash(p)
    /\ Forget(p)
    /\ UNCHANGED <<file, version>>

\* What a process does inside the with block.
CommandStep(p) ==
    \/ Load(p) \/ PutCommand(p) \/ DeleteCommand(p) \/ ClearCommand(p)
    \/ EndUnsaved(p) \/ Save(p)

Over == \A p \in Processes : pc[p] \in {"new", "done", "failed", "crashed"}

CliNext ==
    \/ \E p \in Processes : CommandStep(p) \/ Killed(p)
    \/ /\ \/ \E p \in Processes : Enter(p) \/ LockStep(p)
          \/ Tick
       /\ UNCHANGED cliVars
    \/ Over /\ now = MaxTime /\ UNCHANGED vars

CliSpec == CliInit /\ [][CliNext]_vars

\* A process that was started is scheduled, and time passes.
CliFairness ==
    /\ \A p \in Processes :
           /\ WF_vars(CommandStep(p))
           /\ WF_vars(LockStep(p) /\ UNCHANGED cliVars)
    /\ WF_vars(Tick /\ UNCHANGED cliVars)

CliFairSpec == CliSpec /\ CliFairness

-----------------------------------------------------------------------------

\* No command overwrites a state it has not read: as long as no lock file was
\* removed under its holder, the state file that a save replaces is the one
\* the process loaded, so no acknowledged put, delete or clear is undone.
NoLostUpdate ==
    [][\A p \in Processes : Save(p) /\ ~broken => basis[p] = version]_vars

\* A saved entry is what became of the item i that process p loaded: the same
\* value and hits, and a deadline that neither moved nor appeared.
Continues(i, p, j) ==
    LET ttl == TtlFromStateItem(i, loadedAt[p])
    IN  /\ j.value = i.value
        /\ j.hits = i.hits
        /\ j.t = (IF ttl = NoExpiry THEN NoExpiry
                  ELSE ttl - (now - loadedAt[p]))

\* A command changes no key but its own: every other item of the file that it
\* loaded is saved again with the time it has left; it is missing only if that
\* time is over, if it could not be read or if there was no room for it.
OtherKeysSurvive ==
    [][\A p \in Processes : Save(p) /\ ~broken =>
           \A n \in {x \in DOMAIN file : file[x].key \notin touched[p]} :
               LET i == file[n]
                   ttl == TtlFromStateItem(i, loadedAt[p])
                   saved == {m \in DOMAIN file' : file'[m].key = i.key}
               IN  /\ \A m \in saved : Continues(i, p, file'[m])
                   /\ saved = {} =>
                          \/ ttl = SkipEntry
                          \/ ttl # NoExpiry /\ loadedAt[p] + ttl <= now
                          \/ Len(mem[p]) = Capacity
                          \/ Len(file) > Capacity]_vars

\* A key has one item in the state file and the file holds no more than the
\* capacity, also when it was written under a larger one.
FileWellFormed ==
    version > 0 =>
        /\ Len(file) <= Capacity
        /\ \A m, n \in DOMAIN file : file[m].key = file[n].key => m = n

=============================================================================
