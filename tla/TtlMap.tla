------------------------------- MODULE TtlMap -------------------------------
(***************************************************************************)
(* What one shard promises its callers: a map whose entries are gone from  *)
(* the instant of their deadline on, and which may forget one entry at a   *)
(* put to stay within its capacity.  How expired entries are collected,    *)
(* versions and counters are not visible here.                             *)
(***************************************************************************)
EXTENDS Integers

CONSTANTS
    Keys, Values,
    Ttls,         \* the positive TTLs callers pass
    DefaultTtl,   \* TTL of a new entry put without one; 0: it never expires
    Unset,        \* no ttl argument
    Absent,       \* no entry; also the answer of a read that misses
    SourceDelay   \* the longest a call that writes may take

VARIABLES
    content,  \* per key, its value and deadline (0: none), or Absent
    now,      \* the monotonic clock
    answer    \* what the last call returned

mapVars == <<content, now, answer>>

Init ==
    /\ content = [k \in Keys |-> Absent]
    /\ now = 0
    /\ answer = <<"none">>

\* The entries of c that are still there at time t.
Alive(c, t) ==
    [k \in Keys |-> IF c[k] # Absent /\ c[k].expires \in 1 .. t THEN Absent
                                                                ELSE c[k]]

\* An update without ttl keeps the deadline the entry has; otherwise an
\* explicit ttl, 0 for none at all, wins over the default.
Deadline(k, ttl) ==
    LET lifetime == IF ttl = Unset THEN DefaultTtl ELSE ttl
    IN  IF ttl = Unset /\ content[k] # Absent THEN content[k].expires
        ELSE IF lifetime = 0 THEN 0 ELSE now + lifetime

TimePasses == now' \in now .. now + SourceDelay

Read(k) ==
    /\ answer' = <<"read", IF content[k] = Absent THEN Absent ELSE content[k].value>>
    /\ UNCHANGED <<content, now>>

ReadAll ==
    /\ answer' = <<"dump", content>>
    /\ UNCHANGED <<content, now>>

Put(k, v, ttl) ==
    /\ answer' = <<"put">>
    /\ TimePasses
    /\ \E lost \in SUBSET Keys :
        /\ \A x, y \in lost : x = y
        /\ content' =
            Alive([x \in Keys |-> IF x \in lost THEN Absent
                                  ELSE IF x = k THEN [value |-> v, expires |-> Deadline(k, ttl)]
                                  ELSE content[x]], now')

\* delete() may also find an entry that has expired and was not collected yet.
Delete(k) ==
    /\ \E found \in BOOLEAN : /\ content[k] # Absent => found
                              /\ answer' = <<"delete", found>>
    /\ TimePasses
    /\ content' = Alive([content EXCEPT ![k] = Absent], now')

Clear ==
    /\ answer' = <<"clear">>
    /\ TimePasses
    /\ content' = [k \in Keys |-> Absent]

\* A put or a delete that raises changes nothing.
WriteFails ==
    /\ answer' = <<"error">>
    /\ TimePasses
    /\ content' = Alive(content, now')

\* A clear() that raises has removed some of the entries.
ClearFails ==
    /\ answer' = <<"error">>
    /\ TimePasses
    /\ \E lost \in SUBSET Keys :
        content' = Alive([k \in Keys |-> IF k \in lost THEN Absent ELSE content[k]], now')

Tick ==
    /\ now' = now + 1
    /\ content' = Alive(content, now')
    /\ UNCHANGED answer

Next ==
    \/ \E k \in Keys : Read(k) \/ Delete(k)
    \/ \E k \in Keys, v \in Values, ttl \in Ttls \cup {0, Unset} : Put(k, v, ttl)
    \/ ReadAll \/ Clear \/ WriteFails \/ ClearFails \/ Tick

Spec == Init /\ [][Next]_mapVars

=============================================================================
