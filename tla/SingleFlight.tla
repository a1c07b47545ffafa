---------------------------- MODULE SingleFlight ----------------------------
(***************************************************************************)
(* get_or_compute() for one key: threads that miss either lead a flight    *)
(* (call the loader, put the value, publish the outcome) or wait on the    *)
(* flight that is registered, while other threads delete the key, clear    *)
(* the cache, or let the entry expire or be evicted.                       *)
(*                                                                         *)
(* Flights of different keys share nothing, so one key is modelled.  A     *)
(* step is one critical section of the shard lock, or the loader's return. *)
(* A loaded value is the number of the flight that loaded it.              *)
(***************************************************************************)
EXTENDS Integers, FiniteSets

CONSTANTS
    Threads,     \* threads that call get_or_compute
    MaxFlights,  \* bound: flights started
    MaxDeletes   \* bound: calls of delete() or clear()

ASSUME BoundsAssumption == MaxFlights \in Nat /\ MaxDeletes \in Nat

ASSUME ThreadsFinite == IsFiniteSet(Threads)

VARIABLES
    entry,    \* the cached value, 0 when the key is not cached
    reg,      \* shard.singleflight[key], 0 when no flight is registered
    outcome,  \* per flight: Flight.event, .result and .exception
    started,  \* number of flights started
    pc,       \* where each thread is
    flight,   \* the flight a thread leads or waits on
    epoch,    \* history: per flight, the deletes made before it started
    deletes   \* history: calls of delete() and clear() made so far

flightVars == <<entry, reg, outcome, started, pc, flight, epoch, deletes>>

Flights == 1 .. MaxFlights

Leading == {"load", "store", "publish", "fail"}

FlightInit ==
    /\ entry = 0
    /\ reg = 0
    /\ outcome = [f \in Flights |-> "pending"]
    /\ started = 0
    /\ pc = [t \in Threads |-> "idle"]
    /\ flight = [t \in Threads |-> 0]
    /\ epoch = [f \in Flights |-> 0]
    /\ deletes = 0

Goto(t, l) == pc' = [pc EXCEPT ![t] = l]

\* A faulty variant: a thread that finds a flight leads it too.
JoinAsLeader(t) ==
    /\ pc[t] = "idle"
    /\ entry = 0
    /\ reg # 0
    /\ flight' = [flight EXCEPT ![t] = reg]
    /\ Goto(t, "load")
    /\ UNCHANGED <<entry, reg, outcome, started, epoch, deletes>>

\* The first section of get_or_compute, when the key is not cached and a flight
\* is registered.  (A hit returns at once and changes nothing.)
Join(t) ==
    /\ pc[t] = "idle"
    /\ entry = 0
    /\ reg # 0
    /\ flight' = [flight EXCEPT ![t] = reg]
    /\ Goto(t, "wait")
    /\ UNCHANGED <<entry, reg, outcome, started, epoch, deletes>>

\* A faulty variant: the new flight is not registered.
LeadUnregistered(t) ==
    /\ pc[t] = "idle"
    /\ entry = 0
    /\ reg = 0
    /\ started < MaxFlights
    /\ started' = started + 1
    /\ flight' = [flight EXCEPT ![t] = started + 1]
    /\ epoch' = [epoch EXCEPT ![started + 1] = deletes]
    /\ Goto(t, "load")
    /\ UNCHANGED <<entry, reg, outcome, deletes>>

\* The same, when no flight is registered: the thread becomes the leader.
Lead(t) ==
    /\ pc[t] = "idle"
    /\ entry = 0
    /\ reg = 0
    /\ started < MaxFlights
    /\ started' = started + 1
    /\ reg' = started + 1
    /\ flight' = [flight EXCEPT ![t] = started + 1]
    /\ epoch' = [epoch EXCEPT ![started + 1] = deletes]
    /\ Goto(t, "load")
    /\ UNCHANGED <<entry, outcome, deletes>>

\* loader() returns or raises.
Load(t) ==
    /\ pc[t] = "load"
    /\ Goto(t, "store") \/ Goto(t, "fail")
    /\ UNCHANGED <<entry, reg, outcome, started, flight, epoch, deletes>>

\* put() of the loaded value.  A QueueBackpressureError comes after the value
\* is cached and is swallowed; any other exception comes before.
Store(t) ==
    /\ pc[t] = "store"
    /\ \/ entry' = flight[t] /\ Goto(t, "publish")
       \/ UNCHANGED entry /\ Goto(t, "fail")
    /\ UNCHANGED <<reg, outcome, started, flight, epoch, deletes>>

\* The leader settles its flight and pops whatever flight is registered.
Settle(t, result) ==
    /\ outcome' = [outcome EXCEPT ![flight[t]] = result]
    /\ reg' = 0
    /\ Goto(t, "idle")
    /\ flight' = [flight EXCEPT ![t] = 0]
    /\ UNCHANGED <<entry, started, epoch, deletes>>

\* A faulty variant: the event of the flight is not set.
PublishWithoutEvent(t) ==
    /\ pc[t] = "publish"
    /\ reg' = 0
    /\ Goto(t, "idle")
    /\ flight' = [flight EXCEPT ![t] = 0]
    /\ UNCHANGED <<entry, outcome, started, epoch, deletes>>

\* The leader publishes the loaded value.
Publish(t) == pc[t] = "publish" /\ Settle(t, "result")

\* A faulty variant: the exception is raised without settling the flight.
FailUnsettled(t) ==
    /\ pc[t] = "fail"
    /\ Goto(t, "idle")
    /\ flight' = [flight EXCEPT ![t] = 0]
    /\ UNCHANGED <<entry, reg, outcome, started, epoch, deletes>>

\* A faulty variant: the flight is settled but stays registered.
FailStaysRegistered(t) ==
    /\ pc[t] = "fail"
    /\ outcome' = [outcome EXCEPT ![flight[t]] = "exception"]
    /\ Goto(t, "idle")
    /\ flight' = [flight EXCEPT ![t] = 0]
    /\ UNCHANGED <<entry, reg, started, epoch, deletes>>

\* _fail_flight_locked
Fail(t) == pc[t] = "fail" /\ Settle(t, "exception")

\* flight.event.wait() returns, and with it get_or_compute.
Wake(t) ==
    /\ pc[t] = "wait"
    /\ outcome[flight[t]] # "pending"
    /\ Goto(t, "idle")
    /\ flight' = [flight EXCEPT ![t] = 0]
    /\ UNCHANGED <<entry, reg, outcome, started, epoch, deletes>>

\* delete() of the key, or clear(): the entry and the registration go.
DeleteOrClear ==
    /\ deletes < MaxDeletes
    /\ deletes' = deletes + 1
    /\ entry' = 0
    /\ reg' = 0
    /\ UNCHANGED <<outcome, started, pc, flight, epoch>>

\* The entry expires or is evicted.
Drop ==
    /\ entry # 0
    /\ entry' = 0
    /\ UNCHANGED <<reg, outcome, started, pc, flight, epoch, deletes>>

\* The rest of a call that has begun.
Progress(t) == Load(t) \/ Store(t) \/ Publish(t) \/ Fail(t) \/ Wake(t)

\* Every call has returned.
Quiet == (\A t \in Threads : pc[t] = "idle") /\ UNCHANGED flightVars

FlightNext ==
    \/ \E t \in Threads : Join(t) \/ Lead(t) \/ Progress(t)
    \/ DeleteOrClear
    \/ Drop
    \/ Quiet

FlightSpec == FlightInit /\ [][FlightNext]_flightVars

\* The threads are scheduled and every loader returns or raises.
FlightFairness == \A t \in Threads : WF_flightVars(Progress(t))

FairFlightSpec == FlightSpec /\ FlightFairness

-----------------------------------------------------------------------------
(* Properties.                                                             *)

FlightTypeOK ==
    /\ entry \in 0 .. MaxFlights
    /\ reg \in 0 .. MaxFlights
    /\ outcome \in [Flights -> {"pending", "result", "exception"}]
    /\ started \in 0 .. MaxFlights
    /\ pc \in [Threads -> Leading \cup {"idle", "wait"}]
    /\ flight \in [Threads -> 0 .. MaxFlights]
    /\ epoch \in [Flights -> Nat]
    /\ deletes \in Nat

Leaders == {t \in Threads : pc[t] \in Leading}

LedFlights == {flight[t] : t \in Leaders}

\* The registered flight is still led by somebody, so a thread that joins it
\* will be woken; deletes and the completion of other flights do not break it.
RegisteredIsLed == reg # 0 => reg \in LedFlights

\* Nobody waits on a flight that is neither settled nor led.
NoOrphanedWaiter ==
    \A t \in Threads :
        pc[t] = "wait" =>
            flight[t] \in LedFlights \/ outcome[flight[t]] # "pending"

\* Two threads never lead the same flight, and a led flight is not settled.
LeadersAreDistinct ==
    /\ \A t, u \in Leaders : flight[t] = flight[u] => t = u
    /\ \A t \in Leaders : outcome[flight[t]] = "pending"

\* The number of concurrent loaders of a key is bounded by the deletes: one
\* loader when the key is never deleted, one more for each delete() or clear().
LoadersCollapse == Cardinality(Leaders) <= 1 + deletes

\* Concurrent misses share one loader: of the flights started since the same
\* last delete, at most one is being loaded at a time.
OneLoaderSinceDelete ==
    \A t, u \in Leaders :
        epoch[flight[t]] = epoch[flight[u]] => t = u

\* Every call of get_or_compute returns.
CallsReturn == \A t \in Threads : pc[t] # "idle" ~> pc[t] = "idle"

=============================================================================
