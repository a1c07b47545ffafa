--------------------------- MODULE CliStateProofs ---------------------------
(***************************************************************************)
(* Proofs about the state file and its lock, for any number of processes   *)
(* and for every timeout and staleness limit.                              *)
(***************************************************************************)
EXTENDS CliState, TLAPS, SequenceTheorems, WellFoundedInduction

\* The invariant of the lock alone.  Exclusiveness is not inductive: one has to
\* know that, while nothing was broken, whoever is inside owns the lock file.
LockInv ==
    /\ LockTypeOK
    /\ ~broken => \A p \in Processes :
           Holding(p) => lockFile # NoFile /\ lockFile.owner = p

LEMMA LockInvInit == LockInit => LockInv
<1> SUFFICES ASSUME LockInit PROVE LockInv
  BY Zenon
<1>1. LockTypeOK
  BY Zenon DEF LockInit, LockTypeOK
<1>2. \A p \in Processes : ~Holding(p)
  BY Zenon DEF LockInit, Holding
<1> QED BY Zenon, <1>1, <1>2 DEF LockInv

\* unlink() by p, which then is not inside, whatever p was about before.
LEMMA UnlinkKeepsLockInv ==
    ASSUME LockInv, NEW p \in Processes, NEW at \in {"wait", "done"},
           Unlink(p), Goto(p, at), UNCHANGED <<now, deadline>>
    PROVE  LockInv'
<1>1. LockTypeOK'
  BY Zenon DEF LockInv, LockTypeOK, Unlink, Goto
<1>2. ASSUME ~broken', NEW q \in Processes, Holding(q)'
      PROVE  (lockFile # NoFile /\ lockFile.owner = q)'
  <2>1. q # p /\ Holding(q)
    BY Zenon, <1>2 DEF LockInv, LockTypeOK, Goto, Holding
  <2>2. ~broken
    BY Zenon, <1>2 DEF Unlink, LockInv, LockTypeOK
  <2>3. lockFile # NoFile /\ lockFile.owner = q
    BY Zenon, <2>1, <2>2 DEF LockInv
  <2>4. UNCHANGED <<lockFile, broken>>
    BY Zenon, <2>1, <2>3, <1>2 DEF Unlink
  <2> QED BY Zenon, <2>3, <2>4
<1> QED BY Zenon, <1>1, <1>2 DEF LockInv

LEMMA LockInvStep == LockInv /\ [LockNext]_lockVars => LockInv'
<1> SUFFICES ASSUME LockInv, [LockNext]_lockVars
             PROVE  LockInv'
  BY Zenon
<1> USE LockConstants, NoFileAssumption
<1>1. ASSUME NEW p \in Processes, Enter(p) PROVE LockInv'
  BY <1>1 DEF LockInv, LockTypeOK, Enter, Goto, Holding
<1>2. ASSUME NEW p \in Processes, Create(p) PROVE LockInv'
  <2>1. LockTypeOK'
    BY Zenon, <1>2 DEF LockInv, LockTypeOK, LockFiles, Create, Goto
  <2>2. lockFile' # NoFile /\ lockFile'.owner = p
    BY <1>2 DEF LockInv, LockTypeOK, LockFiles, Create
  <2>3. ASSUME ~broken', NEW q \in Processes, Holding(q)' PROVE q = p
    BY Zenon, <1>2, <2>3 DEF LockInv, LockTypeOK, Create, Goto, Holding
  <2> QED BY Zenon, <2>1, <2>2, <2>3 DEF LockInv
<1>3. ASSUME NEW p \in Processes, Exists(p) \/ Judge(p) \/ Wait(p)
      PROVE  LockInv'
  BY Zenon, <1>3 DEF LockInv, LockTypeOK, Exists, Judge, Wait, Goto, Holding
<1>4. ASSUME NEW p \in Processes, Break(p) PROVE LockInv'
  BY Zenon, <1>4, UnlinkKeepsLockInv DEF Break
<1>5. ASSUME NEW p \in Processes, Exit(p) PROVE LockInv'
  BY Zenon, <1>5, UnlinkKeepsLockInv DEF Exit
<1>6. ASSUME NEW p \in Processes, Leave(p) \/ Crash(p) PROVE LockInv'
  BY Zenon, <1>6 DEF LockInv, LockTypeOK, Leave, Crash, Goto, Holding
<1>7. CASE Tick
  BY <1>7 DEF LockInv, LockTypeOK, Tick, Holding
<1>8. CASE UNCHANGED lockVars
  BY Zenon, <1>8 DEF LockInv, LockTypeOK, lockVars, Holding
<1> QED
  BY Zenon, <1>1, <1>2, <1>3, <1>4, <1>5, <1>6, <1>7, <1>8 DEF LockNext, LockStep

\* O_EXCL makes the lock exclusive until a lock file is removed under its
\* holder: two invocations are never inside run_basic's with block together.
THEOREM LockIsExclusive == LockSpec => []ExclusiveUnlessBroken
<1>1. LockInv => ExclusiveUnlessBroken
  BY Zenon DEF LockInv, LockTypeOK, ExclusiveUnlessBroken
<1> QED
  BY LockInvInit, LockInvStep, <1>1, PTL DEF LockSpec

-----------------------------------------------------------------------------

\* Every step of a command is a step of the lock, or none.
LEMMA CliStepIsLockStep == [CliNext]_vars => [LockNext]_lockVars
<1> SUFFICES ASSUME [CliNext]_vars PROVE [LockNext]_lockVars
  BY Zenon
<1>1. ASSUME NEW p \in Processes, CommandStep(p) PROVE [LockNext]_lockVars
  BY Zenon, <1>1 DEF CommandStep, Load, PutCommand, DeleteCommand, ClearCommand,
              Change, EndUnsaved, Save, LockNext
<1>2. ASSUME NEW p \in Processes, Killed(p) PROVE [LockNext]_lockVars
  BY Zenon, <1>2 DEF Killed, LockNext
<1>3. ASSUME NEW p \in Processes, Enter(p) \/ LockStep(p)
      PROVE  [LockNext]_lockVars
  BY Zenon, <1>3 DEF LockNext
<1>4. CASE Tick
  BY Zenon, <1>4 DEF LockNext
<1>5. CASE UNCHANGED vars
  BY Zenon, <1>5 DEF vars
<1> QED BY Zenon, <1>1, <1>2, <1>3, <1>4, <1>5 DEF CliNext

\* The commands use the lock only as StateFileLock allows, so what holds of the
\* lock holds of them.
THEOREM CliImplementsLock == CliSpec => LockSpec
<1>1. CliInit => LockInit
  BY Zenon DEF CliInit
<1> QED
  BY <1>1, CliStepIsLockStep, PTL DEF CliSpec, LockSpec

\* Exclusive access, for the commands.
THEOREM CommandsExcludeEachOther == CliSpec => []ExclusiveUnlessBroken
BY CliImplementsLock, LockIsExclusive, PTL

\* What a process has loaded is the current state file, while it holds the
\* lock and nothing was broken.
CliInv ==
    /\ LockInv
    /\ stage \in [Processes -> {"fresh", "loaded", "changed"}]
    /\ basis \in [Processes -> Nat]
    /\ version \in Nat
    /\ \A p \in Processes : stage[p] # "fresh" => pc[p] = "held"
    /\ ~broken => \A p \in Processes : stage[p] # "fresh" => basis[p] = version

LEMMA CliInvInit == CliInit => CliInv
BY LockInvInit DEF CliInit, CliInv

\* A process that ends, saving or not, leaves nothing stale behind: the others
\* are outside or the lock was broken.
LEMMA EndKeepsCliInv ==
    ASSUME CliInv, LockInv', NEW p \in Processes, NEW at \in {"exit", "crashed"},
           Holding(p), Goto(p, at), UNCHANGED broken, Forget(p),
           version' \in {version, version + 1}
    PROVE  CliInv'
<1>1. stage' \in [Processes -> {"fresh", "loaded", "changed"}]
      /\ basis' \in [Processes -> Nat] /\ version' \in Nat
  BY DEF CliInv, Forget
<1>2. \A q \in Processes : (stage[q] # "fresh")' => q # p /\ stage[q] # "fresh"
  BY Zenon DEF CliInv, Forget
<1>3. \A q \in Processes : (stage[q] # "fresh" => pc[q] = "held")'
  BY Zenon, <1>2 DEF CliInv, LockInv, LockTypeOK, Goto
<1>4. ~broken => \A q \in Processes : ~(stage[q] # "fresh")'
  BY Zenon, <1>2 DEF CliInv, LockInv, Holding
<1> QED BY Zenon, <1>1, <1>3, <1>4 DEF CliInv

LEMMA CliInvStep == CliInv /\ [CliNext]_vars => CliInv'
<1> SUFFICES ASSUME CliInv, [CliNext]_vars
             PROVE  CliInv'
  BY Zenon
<1>0. LockInv'
  BY Zenon, LockInvStep, CliStepIsLockStep DEF CliInv
<1>1. ASSUME NEW p \in Processes, Load(p) PROVE CliInv'
  BY Zenon, <1>0, <1>1 DEF CliInv, Load, lockVars
<1>2. ASSUME NEW p \in Processes, NEW c, NEW ks, Change(p, c, ks) PROVE CliInv'
  BY Zenon, <1>0, <1>2 DEF CliInv, Change, lockVars
<1>3. ASSUME NEW p \in Processes, EndUnsaved(p) \/ Save(p) PROVE CliInv'
  BY Zenon, <1>0, <1>3, EndKeepsCliInv DEF EndUnsaved, Save, Leave, Holding
<1>4. ASSUME NEW p \in Processes, Killed(p) PROVE CliInv'
  BY Zenon, <1>0, <1>4, EndKeepsCliInv DEF Killed, Crash
<1>5. ASSUME NEW p \in Processes, Enter(p) \/ LockStep(p), UNCHANGED cliVars
      PROVE  CliInv'
  <2>1. \A q \in Processes : pc[q] = "held" => (pc[q] = "held")'
    BY Zenon, <1>5 DEF CliInv, LockInv, LockTypeOK, Enter, LockStep, Create, Exists,
                Judge, Break, Wait, Exit, Goto
  <2>2. broken => broken'
    BY Zenon, <1>5 DEF Enter, LockStep, Create, Exists, Judge, Break, Wait, Exit, Unlink
  <2> QED BY Zenon, <1>0, <1>5, <2>1, <2>2 DEF CliInv, cliVars
<1>6. CASE Tick /\ UNCHANGED cliVars
  BY Zenon, <1>0, <1>6 DEF CliInv, Tick, cliVars
<1>7. CASE UNCHANGED vars
  BY Zenon, <1>0, <1>7 DEF CliInv, vars, cliVars, lockVars
<1>8. ASSUME NEW p \in Processes, CommandStep(p) PROVE CliInv'
  BY Zenon, <1>1, <1>2, <1>3, <1>8
     DEF CommandStep, PutCommand, DeleteCommand, ClearCommand
<1> QED BY Zenon, <1>4, <1>5, <1>6, <1>7, <1>8 DEF CliNext

\* No acknowledged write is lost between invocations: what _save_cache_state
\* replaces is what _load_cache_state read, unless a lock was broken.
THEOREM SavesAreSerial == CliSpec => NoLostUpdate
<1>1. CliInv => \A p \in Processes : Save(p) /\ ~broken => basis[p] = version
  BY Zenon DEF CliInv, Save
<1> QED
  BY CliInvInit, CliInvStep, <1>1, PTL DEF CliSpec, NoLostUpdate

-----------------------------------------------------------------------------
(* The subsequence of s at the positions of N.                             *)

\* One step of the recursion of AtPositions, and what it means to obey it.
PositionStep(s, N, F, n) ==
    IF n = 0 THEN <<>>
    ELSE IF n \in N THEN Append(F[n - 1], s[n]) ELSE F[n - 1]

Enumerates(F, s, N, m) == F = [n \in 0 .. m |-> PositionStep(s, N, F, n)]

Injective(s) == \A i, j \in 1 .. Len(s) : s[i] = s[j] => i = j

\* f has the elements of s at the positions of N up to m, and no other.
Selects(f, s, N, m) ==
    /\ Len(f) <= m
    /\ \A i \in 1 .. Len(f) : \E n \in 1 .. m : n \in N /\ f[i] = s[n]
    /\ \A n \in 1 .. m : n \in N => \E i \in 1 .. Len(f) : f[i] = s[n]
    /\ Injective(s) => Injective(f)

LEMMA SelectsStep ==
    ASSUME NEW X, NEW s \in Seq(X), NEW N, NEW m \in 1 .. Len(s),
           NEW f \in Seq(X), Selects(f, s, N, m - 1),
           NEW g, g = IF m \in N THEN Append(f, s[m]) ELSE f
    PROVE  g \in Seq(X) /\ Selects(g, s, N, m)
<1>0. /\ m \in Nat /\ m - 1 \in Nat /\ Len(f) \in Nat /\ s[m] \in X
      /\ Len(s) \in Nat
      /\ \A n \in 1 .. m : n \in 1 .. m - 1 \/ n = m
      /\ \A n \in 1 .. m - 1 : n \in 1 .. m /\ n \in 1 .. Len(s) /\ n # m
  OBVIOUS
<1>1. CASE m \notin N
  <2>1. g = f
    BY Zenon, <1>1
  <2>2. Len(f) <= m
    BY <1>0 DEF Selects
  <2>3. \A i \in 1 .. Len(f) : \E n \in 1 .. m : n \in N /\ f[i] = s[n]
    BY Zenon, <1>0 DEF Selects
  <2>4. \A n \in 1 .. m : n \in N => \E i \in 1 .. Len(f) : f[i] = s[n]
    BY Zenon, <1>0, <1>1 DEF Selects
  <2> QED BY Zenon, <2>1, <2>2, <2>3, <2>4 DEF Selects
<1>2. CASE m \in N
  <2>1. /\ g \in Seq(X) /\ Len(g) = Len(f) + 1
        /\ \A i \in 1 .. Len(f) : g[i] = f[i]
        /\ g[Len(f) + 1] = s[m]
    BY <1>0, <1>2, AppendProperties
  <2>2. /\ \A i \in 1 .. Len(g) : i \in 1 .. Len(f) \/ i = Len(f) + 1
        /\ \A i \in 1 .. Len(f) : i \in 1 .. Len(g)
        /\ Len(f) + 1 \in 1 .. Len(g)
    BY <1>0, <2>1
  <2>3. Len(g) <= m
    BY <1>0, <2>1 DEF Selects
  <2>4. ASSUME NEW i \in 1 .. Len(g)
        PROVE  \E n \in 1 .. m : n \in N /\ g[i] = s[n]
    <3>1. CASE i \in 1 .. Len(f)
      <4>1. PICK n \in 1 .. m - 1 : n \in N /\ f[i] = s[n]
        BY Zenon, <3>1 DEF Selects
      <4> QED BY Zenon, <1>0, <2>1, <3>1, <4>1
    <3>2. CASE i = Len(f) + 1
      BY <1>0, <1>2, <2>1, <3>2
    <3> QED BY Zenon, <2>2, <3>1, <3>2
  <2>5. ASSUME NEW n \in 1 .. m, n \in N
        PROVE  \E i \in 1 .. Len(g) : g[i] = s[n]
    <3>1. CASE n \in 1 .. m - 1
      <4>1. PICK i \in 1 .. Len(f) : f[i] = s[n]
        BY Zenon, <2>5, <3>1 DEF Selects
      <4> QED BY Zenon, <2>1, <2>2, <4>1
    <3>2. CASE n = m
      BY Zenon, <2>1, <2>2, <3>2
    <3> QED BY Zenon, <1>0, <3>1, <3>2
  <2>6. ASSUME Injective(s), NEW i \in 1 .. Len(g), NEW j \in 1 .. Len(g), g[i] = g[j]
        PROVE  i = j
    <3>1. \A x \in 1 .. Len(f) : f[x] # s[m]
      <4> SUFFICES ASSUME NEW x \in 1 .. Len(f), f[x] = s[m]
                   PROVE  FALSE
        BY Zenon
      <4>1. PICK n \in 1 .. m - 1 : f[x] = s[n]
        BY Zenon DEF Selects
      <4> QED BY Zenon, <1>0, <2>6, <4>1 DEF Injective
    <3>2. Injective(f)
      BY Zenon, <2>6 DEF Selects
    <3> QED BY <2>1, <2>2, <2>6, <3>1, <3>2 DEF Injective
  <2> QED BY Zenon, <2>1, <2>3, <2>4, <2>5, <2>6 DEF Selects, Injective
<1> QED BY Zenon, <1>1, <1>2

\* Induction up to a bound, for a set of numbers.
LEMMA UpTo ==
    ASSUME NEW M \in Nat, NEW T, 0 \in T, \A m \in 1 .. M : m - 1 \in T => m \in T
    PROVE  M \in T
<1> DEFINE Bad == {m \in 0 .. M : m \notin T}
<1>1. Bad = {}
  <2> SUFFICES ASSUME Bad # {} PROVE FALSE
    BY Zenon
  <2>1. Bad \in SUBSET Nat
    OBVIOUS
  <2>2. PICK m \in Bad : \A n \in Bad : ~(<<n, m>> \in OpToRel(<, Nat))
    BY Zenon, <2>1, WFMin, NatLessThanWellFounded
  <2> DEFINE n == m - 1
  <2>3. m \in 0 .. M /\ m \notin T /\ m # 0
    BY Zenon, <2>2
  <2>4. m \in Nat /\ m \in 1 .. M /\ n \in 0 .. M /\ n \in Nat /\ n < m
    BY <2>3
  <2>5. n \in Bad
    BY Zenon, <2>3, <2>4
  <2> HIDE DEF n
  <2>6. <<n, m>>[1] = n /\ <<n, m>>[2] = m /\ <<n, m>> \in Nat \X Nat
    BY Zenon, <2>4
  <2>7. <<n, m>> \in OpToRel(<, Nat)
    BY Zenon, <2>4, <2>6 DEF OpToRel
  <2> QED BY Zenon, <2>2, <2>5, <2>7
<1> QED BY <1>1

LEMMA PositionsExist ==
    ASSUME NEW s, NEW N, Len(s) \in Nat
    PROVE  \E F : Enumerates(F, s, N, Len(s))
<1> DEFINE T == {m \in 0 .. Len(s) : \E F : Enumerates(F, s, N, m)}
<1>1. 0 \in T
  <2> DEFINE F == [n \in 0 .. 0 |-> <<>>]
  <2>1. Enumerates(F, s, N, 0)
    BY DEF Enumerates, PositionStep
  <2> HIDE DEF F
  <2> QED BY <2>1
<1>2. ASSUME NEW m \in 1 .. Len(s), m - 1 \in T
      PROVE  m \in T
  <2>0. m \in Nat /\ m - 1 \in Nat /\ m # 0
    OBVIOUS
  <2>1. PICK F : Enumerates(F, s, N, m - 1)
    BY Zenon, <1>2
  <2> DEFINE G == [n \in 0 .. m |-> IF n = m THEN PositionStep(s, N, F, m) ELSE F[n]]
  <2>2. G[m] = PositionStep(s, N, F, m) /\ \A n \in 0 .. m - 1 : G[n] = F[n]
    BY <2>0
  <2>3. \A n \in 0 .. m : G[n] = PositionStep(s, N, G, n)
    <3> SUFFICES ASSUME NEW n \in 0 .. m
                 PROVE  G[n] = PositionStep(s, N, G, n)
      BY Zenon
    <3>1. n # 0 => n - 1 \in 0 .. m - 1 /\ G[n - 1] = F[n - 1]
      BY <2>0
    <3>2. PositionStep(s, N, F, n) = PositionStep(s, N, G, n)
      <4> HIDE DEF G
      <4> QED BY Zenon, <3>1 DEF PositionStep
    <3>3. CASE n = m
      <4> HIDE DEF G
      <4> QED BY Zenon, <2>2, <3>2, <3>3
    <3>4. CASE n # m
      <4>1. n \in 0 .. m - 1
        BY <2>0, <3>4
      <4>2. F[n] = PositionStep(s, N, F, n)
        BY Zenon, <2>1, <4>1 DEF Enumerates
      <4> HIDE DEF G
      <4> QED BY Zenon, <2>2, <3>2, <4>1, <4>2
    <3> QED BY Zenon, <3>3, <3>4
  <2>4. Enumerates(G, s, N, m)
    BY Zenon, <2>3 DEF Enumerates
  <2> HIDE DEF G
  <2> QED BY <2>4
<1> HIDE DEF T
<1>3. Len(s) \in T
  BY Zenon, <1>1, <1>2, UpTo
<1> QED BY Zenon, <1>3 DEF T

\* AtPositions(s, N) has the elements of s at the positions of N.
LEMMA AtPositionsSelects ==
    ASSUME NEW X, NEW s \in Seq(X), NEW N
    PROVE  AtPositions(s, N) \in Seq(X) /\ Selects(AtPositions(s, N), s, N, Len(s))
<1> DEFINE G == CHOOSE F : Enumerates(F, s, N, Len(s))
<1>0. Len(s) \in Nat
  OBVIOUS
<1>1. AtPositions(s, N) = G[Len(s)]
  BY Zenon DEF AtPositions, Enumerates, PositionStep
<1>2. Enumerates(G, s, N, Len(s))
  BY <1>0, PositionsExist, Zenon
<1> HIDE DEF G
<1> DEFINE T == {m \in 0 .. Len(s) : G[m] \in Seq(X) /\ Selects(G[m], s, N, m)}
<1>3. 0 \in T
  <2>1. G[0] = <<>>
    BY <1>2 DEF Enumerates, PositionStep
  <2>2. <<>> \in Seq(X) /\ Selects(<<>>, s, N, 0)
    BY DEF Selects, Injective
  <2>3. G[0] \in Seq(X) /\ Selects(G[0], s, N, 0)
    BY <2>1, <2>2, Zenon
  <2> QED BY <1>0, <2>3
<1>4. ASSUME NEW m \in 1 .. Len(s), m - 1 \in T
      PROVE  m \in T
  <2> DEFINE f == G[m - 1]
             g == G[m]
  <2>1. m \in 0 .. Len(s) /\ m # 0
    OBVIOUS
  <2>2. f \in Seq(X) /\ Selects(f, s, N, m - 1)
    BY Zenon, <1>4
  <2>3. g = IF m \in N THEN Append(f, s[m]) ELSE f
    BY Zenon, <1>2, <2>1 DEF Enumerates, PositionStep
  <2> HIDE DEF f, g
  <2>4. g \in Seq(X) /\ Selects(g, s, N, m)
    BY Zenon, <2>2, <2>3, SelectsStep
  <2> QED BY Zenon, <2>1, <2>4 DEF g
<1> HIDE DEF T
<1>5. Len(s) \in T
  BY Zenon, <1>0, <1>3, <1>4, UpTo
<1>6. G[Len(s)] \in Seq(X) /\ Selects(G[Len(s)], s, N, Len(s))
  BY Zenon, <1>5 DEF T
<1> QED BY <1>1, <1>6, Zenon

-----------------------------------------------------------------------------
(* The state file has one item per key, and no more than the capacity.     *)

KeysDiffer(s) == \A m, n \in 1 .. Len(s) : s[m].key = s[n].key => m = n

LEMMA AtPositionsKeys ==
    ASSUME NEW X, NEW s \in Seq(X), KeysDiffer(s), NEW N, NEW f, f = AtPositions(s, N)
    PROVE  f \in Seq(X) /\ Len(f) <= Len(s) /\ KeysDiffer(f)
<1>1. f \in Seq(X) /\ Selects(f, s, N, Len(s))
  BY Zenon, AtPositionsSelects
<1>2. Injective(s)
  BY Zenon DEF KeysDiffer, Injective
<1>3. ASSUME NEW i \in 1 .. Len(f), NEW j \in 1 .. Len(f), f[i].key = f[j].key
      PROVE  i = j
  <2>1. PICK m \in 1 .. Len(s) : f[i] = s[m]
    BY Zenon, <1>1 DEF Selects
  <2>2. PICK n \in 1 .. Len(s) : f[j] = s[n]
    BY Zenon, <1>1 DEF Selects
  <2>3. m = n
    BY Zenon, <1>3, <2>1, <2>2 DEF KeysDiffer
  <2> QED BY <1>1, <1>2, <2>1, <2>2, <2>3 DEF Selects, Injective
<1> QED BY Zenon, <1>1, <1>3 DEF Selects, KeysDiffer

LEMMA FunctionIsSeq ==
    ASSUME NEW X, NEW L \in Nat, NEW c, c = [n \in 1 .. L |-> c[n]],
           \A n \in 1 .. L : c[n] \in X
    PROVE  c \in Seq(X) /\ Len(c) = L
<1>1. c \in [1 .. L -> X]
  BY Zenon
<1>2. c \in Seq(X)
  BY Zenon, <1>1, SeqDef
<1> QED BY <1>1, <1>2, LenProperties

Entries == [key : Keys, value : Processes \cup {Nobody}, hits : Nat, deadline : Nat]

\* A cache of the tool.
Sound(c) == c \in Seq(Entries) /\ Len(c) <= Capacity /\ KeysDiffer(c)

LEMMA TtlCases ==
    ASSUME NEW i \in Items, NEW t \in Nat
    PROVE  LET ttl == TtlFromStateItem(i, t)
           IN  \/ i.form = "left" /\ ttl = i.t
               \/ i.form = "wall" /\ i.t > t /\ ttl = i.t - t
               \/ ttl = SkipEntry
<1>1. CASE i.form = "left"
  BY <1>1, Zenon DEF TtlFromStateItem
<1>2. CASE i.form = "wall" /\ i.t > t
  <2>1. i.form # "left"
    BY Zenon, <1>2
  <2> QED BY <1>2, <2>1, Zenon DEF TtlFromStateItem
<1>3. CASE i.form # "left" /\ ~(i.form = "wall" /\ i.t > t)
  BY <1>3, Zenon DEF TtlFromStateItem
<1> QED BY Zenon, <1>1, <1>2, <1>3

LEMMA TtlType ==
    ASSUME NEW i \in Items, NEW t \in Nat, TtlFromStateItem(i, t) # SkipEntry
    PROVE  TtlFromStateItem(i, t) \in Nat
<1> DEFINE ttl == TtlFromStateItem(i, t)
<1>1. \/ i.form = "left" /\ ttl = i.t
      \/ i.form = "wall" /\ i.t > t /\ ttl = i.t - t
  BY Zenon, TtlCases
<1>2. i.t \in Nat
  BY Zenon DEF Items
<1> HIDE DEF ttl
<1>3. ttl \in Nat
  BY <1>1, <1>2
<1> QED BY Zenon, <1>3 DEF ttl

LEMMA LoadItemType ==
    ASSUME NEW i \in Items, NEW t \in Nat, TtlFromStateItem(i, t) # SkipEntry
    PROVE  LoadItem(i, t) \in Entries /\ LoadItem(i, t).key = i.key
<1> DEFINE d == Deadline(TtlFromStateItem(i, t), t)
<1>1. d \in Nat
  BY TtlType DEF Deadline, NoExpiry
<1>2. LoadItem(i, t) = [key |-> i.key, value |-> i.value, hits |-> i.hits, deadline |-> d]
  BY Zenon DEF LoadItem
<1> HIDE DEF d
<1> QED BY <1>1, <1>2 DEF Items, Entries

\* The items that are loaded, and how many of them are evicted again.
Kept(items, t) ==
    AtPositions(items, {n \in DOMAIN items : TtlFromStateItem(items[n], t) # SkipEntry})

Excess(s) == IF Len(s) > Capacity THEN Len(s) - Capacity ELSE 0

LEMMA LoadShape ==
    ASSUME NEW items, NEW t
    PROVE  LoadCacheState(items, t) =
             [n \in 1 .. Len(Kept(items, t)) - Excess(Kept(items, t)) |->
                 LoadItem(Kept(items, t)[n + Excess(Kept(items, t))], t)]
BY Zenon DEF LoadCacheState, Kept, Excess

LEMMA ExcessType ==
    ASSUME NEW X, NEW s \in Seq(X)
    PROVE  /\ Excess(s) \in Nat /\ Len(s) - Excess(s) \in Nat
           /\ Len(s) - Excess(s) <= Capacity
           /\ \A n \in 1 .. Len(s) - Excess(s) : n + Excess(s) \in 1 .. Len(s)
BY CliConstants DEF Excess

LEMMA LoadSound ==
    ASSUME NEW items \in Seq(Items), KeysDiffer(items), NEW t \in Nat
    PROVE  Sound(LoadCacheState(items, t))
<1> DEFINE kept == Kept(items, t)
           x == Excess(kept)
           c == LoadCacheState(items, t)
           L == Len(kept) - x
<1>1. kept \in Seq(Items) /\ KeysDiffer(kept)
  BY Zenon, AtPositionsKeys DEF Kept
<1>2. /\ x \in Nat /\ L \in Nat /\ L <= Capacity
      /\ \A n \in 1 .. L : n + x \in 1 .. Len(kept)
  BY Zenon, <1>1, ExcessType
<1>3. \A n \in 1 .. Len(kept) : kept[n] \in Items /\ TtlFromStateItem(kept[n], t) # SkipEntry
  <2>1. Selects(kept, items, {n \in DOMAIN items : TtlFromStateItem(items[n], t) # SkipEntry}, Len(items))
    BY Zenon, AtPositionsSelects DEF Kept
  <2> QED BY <1>1, <2>1 DEF Selects
<1>4. c = [n \in 1 .. L |-> LoadItem(kept[n + x], t)]
  BY Zenon, LoadShape
<1> HIDE DEF kept, x, c, L
<1>5. \A n \in 1 .. L : c[n] \in Entries /\ c[n].key = kept[n + x].key
  BY Zenon, <1>2, <1>3, <1>4, LoadItemType
<1>6. c \in Seq(Entries) /\ Len(c) = L
  BY <1>2, <1>4, <1>5, FunctionIsSeq
<1>7. KeysDiffer(c)
  <2> SUFFICES ASSUME NEW m \in 1 .. L, NEW n \in 1 .. L, c[m].key = c[n].key
               PROVE  m = n
    BY Zenon, <1>6 DEF KeysDiffer
  <2>1. kept[m + x].key = kept[n + x].key
    BY Zenon, <1>5
  <2>2. m + x = n + x
    BY Zenon, <1>1, <1>2, <2>1 DEF KeysDiffer
  <2> QED BY <1>2, <2>2
<1> QED BY Zenon, <1>2, <1>6, <1>7 DEF Sound, c

LEMMA WithoutSound ==
    ASSUME NEW c, Sound(c), NEW k, NEW f, f = Without(c, k)
    PROVE  /\ Sound(f)
           /\ \A i \in 1 .. Len(f) :
                  f[i].key # k /\ \E n \in 1 .. Len(c) : f[i] = c[n]
           /\ \A n \in 1 .. Len(c) :
                  c[n].key # k => \E i \in 1 .. Len(f) : f[i] = c[n]
<1> DEFINE N == {n \in DOMAIN c : c[n].key # k}
<1>1. c \in Seq(Entries) /\ KeysDiffer(c) /\ Len(c) <= Capacity /\ Len(c) \in Nat
      /\ DOMAIN c = 1 .. Len(c)
  BY DEF Sound
<1>2. f \in Seq(Entries) /\ Len(f) <= Len(c) /\ KeysDiffer(f) /\ Len(f) \in Nat
  BY <1>1, AtPositionsKeys DEF Without
<1>3. Selects(f, c, N, Len(c))
  BY Zenon, <1>1, AtPositionsSelects DEF Without
<1>4. Len(f) <= Capacity
  BY <1>1, <1>2, CliConstants
<1> QED BY Zenon, <1>1, <1>2, <1>3, <1>4 DEF Sound, Selects

\* A new entry is appended, and the first one goes if there is no room.
LEMMA InsertSound ==
    ASSUME NEW c, Sound(c), NEW e \in Entries, NEW g, g = Insert(c, e),
           \A n \in 1 .. Len(c) : c[n].key # e.key
    PROVE  /\ Sound(g)
           /\ \A i \in 1 .. Len(g) : g[i] = e \/ \E n \in 1 .. Len(c) : g[i] = c[n]
           /\ Len(g) = Capacity \/
                  \A n \in 1 .. Len(c) : \E i \in 1 .. Len(g) : g[i] = c[n]
<1>1. c \in Seq(Entries) /\ KeysDiffer(c) /\ Len(c) <= Capacity /\ Len(c) \in Nat
      /\ Capacity \in Nat /\ Capacity # 0
  BY CliConstants DEF Sound
<1>2. ASSUME NEW d \in Seq(Entries), g = Append(d, e), KeysDiffer(d),
             \A n \in 1 .. Len(d) : d[n].key # e.key
      PROVE  /\ g \in Seq(Entries) /\ Len(g) = Len(d) + 1 /\ KeysDiffer(g)
             /\ g[Len(d) + 1] = e
             /\ \A i \in 1 .. Len(d) : g[i] = d[i]
  <2>1. /\ g \in Seq(Entries) /\ Len(g) = Len(d) + 1 /\ Len(d) \in Nat
        /\ g[Len(d) + 1] = e
        /\ \A i \in 1 .. Len(d) : g[i] = d[i]
    BY <1>2, AppendProperties
  <2>2. \A i \in 1 .. Len(g) : i \in 1 .. Len(d) \/ i = Len(d) + 1
    BY <2>1
  <2>3. KeysDiffer(g)
    BY Zenon, <1>2, <2>1, <2>2 DEF KeysDiffer
  <2> QED BY Zenon, <2>1, <2>3
<1>3. CASE Len(c) < Capacity
  <2>1. g = Append(c, e)
    BY Zenon, <1>3 DEF Insert
  <2>2. /\ g \in Seq(Entries) /\ Len(g) = Len(c) + 1 /\ KeysDiffer(g)
        /\ g[Len(c) + 1] = e
        /\ \A i \in 1 .. Len(c) : g[i] = c[i]
    BY Zenon, <1>1, <1>2, <2>1
  <2>3. /\ \A i \in 1 .. Len(g) : i \in 1 .. Len(c) \/ i = Len(c) + 1
        /\ \A i \in 1 .. Len(c) : i \in 1 .. Len(g)
        /\ Len(g) <= Capacity
    BY <1>1, <1>3, <2>2
  <2> QED BY Zenon, <2>2, <2>3 DEF Sound
<1>4. CASE ~(Len(c) < Capacity)
  <2> DEFINE d == Tail(c)
  <2>1. g = Append(d, e) /\ Len(c) = Capacity /\ c # <<>>
    BY <1>1, <1>4 DEF Insert
  <2>2. /\ d \in Seq(Entries) /\ Len(d) = Len(c) - 1
        /\ \A i \in 1 .. Len(d) : i + 1 \in 1 .. Len(c) /\ d[i] = c[i + 1]
    BY <1>1, <2>1, HeadTailProperties
  <2> HIDE DEF d
  <2>3. KeysDiffer(d)
    <3> SUFFICES ASSUME NEW i \in 1 .. Len(d), NEW j \in 1 .. Len(d), d[i].key = d[j].key
                 PROVE  i = j
      BY Zenon DEF KeysDiffer
    <3> DEFINE m == i + 1
               n == j + 1
    <3>1. m \in 1 .. Len(c) /\ n \in 1 .. Len(c) /\ d[i] = c[m] /\ d[j] = c[n]
      BY Zenon, <2>2
    <3>2. m = n => i = j
      OBVIOUS
    <3> HIDE DEF m, n
    <3> QED BY Zenon, <1>1, <3>1, <3>2 DEF KeysDiffer
  <2>4. \A n \in 1 .. Len(d) : d[n].key # e.key
    BY Zenon, <2>2
  <2>5. /\ g \in Seq(Entries) /\ Len(g) = Len(d) + 1 /\ KeysDiffer(g)
        /\ g[Len(d) + 1] = e
        /\ \A i \in 1 .. Len(d) : g[i] = d[i]
    BY Zenon, <1>2, <2>1, <2>2, <2>3, <2>4
  <2>6. Len(g) = Capacity /\ \A i \in 1 .. Len(g) : i \in 1 .. Len(d) \/ i = Len(d) + 1
    BY <1>1, <2>1, <2>2, <2>5
  <2>7. ASSUME NEW i \in 1 .. Len(g)
        PROVE  g[i] = e \/ \E n \in 1 .. Len(c) : g[i] = c[n]
    <3>1. CASE i \in 1 .. Len(d)
      <4>1. g[i] = c[i + 1] /\ i + 1 \in 1 .. Len(c)
        BY Zenon, <2>2, <2>5, <3>1
      <4> QED BY Zenon, <4>1
    <3>2. CASE i = Len(d) + 1
      BY Zenon, <2>5, <3>2
    <3> QED BY Zenon, <2>6, <3>1, <3>2
  <2> QED BY <1>1, <2>5, <2>6, <2>7 DEF Sound
<1> QED BY Zenon, <1>3, <1>4

\* What put() leaves in a cache c for the keys other than k.
PutLeaves(c, k, g) ==
    /\ \A i \in 1 .. Len(g) : g[i].key # k => \E n \in 1 .. Len(c) : g[i] = c[n]
    /\ Len(g) = Capacity \/
           \A n \in 1 .. Len(c) : c[n].key # k => \E i \in 1 .. Len(g) : g[i] = c[n]

\* delete() leaves the entries of every other key.
LEMMA WithoutLeaves ==
    ASSUME NEW c, Sound(c), NEW k, NEW f, f = Without(c, k)
    PROVE  Sound(f) /\ PutLeaves(c, k, f)
BY WithoutSound DEF PutLeaves

LEMMA PutSound ==
    ASSUME NEW c, Sound(c), NEW k \in Keys, NEW p \in Processes,
           NEW ttl \in Ttls \cup {NoExpiry, Omitted}, NEW t \in Nat,
           NEW g, g = PutKey(c, k, p, ttl, t)
    PROVE  Sound(g) /\ PutLeaves(c, k, g)
<1> DEFINE live == {n \in 1 .. Len(c) : c[n].key = k /\ ~Expired(c[n], t)}
           explicit == Deadline(IF ttl = Omitted THEN DefaultTtl ELSE ttl, t)
           new(d, h) == [key |-> k, value |-> p, hits |-> h, deadline |-> d]
<1>1. c \in Seq(Entries) /\ Len(c) \in Nat /\ \A n \in 1 .. Len(c) : c[n] \in Entries
  BY DEF Sound
<1>2. explicit \in Nat
  BY CliConstants DEF Deadline, NoExpiry, Omitted
<1>3. \A d \in Nat, h \in Nat : new(d, h) \in Entries /\ new(d, h).key = k
  BY Zenon DEF Entries
<1>4. CASE live = {}
  <2> DEFINE f == Without(c, k)
             e == new(explicit, 0)
  <2>1. g = Insert(f, e)
    BY Zenon, <1>4 DEF PutKey
  <2>2. e \in Entries /\ e.key = k
    BY Zenon, <1>2, <1>3
  <2>3. /\ Sound(f)
        /\ \A i \in 1 .. Len(f) :
               f[i].key # k /\ \E n \in 1 .. Len(c) : f[i] = c[n]
        /\ \A n \in 1 .. Len(c) :
               c[n].key # k => \E i \in 1 .. Len(f) : f[i] = c[n]
    BY WithoutSound
  <2> HIDE DEF f, e
  <2>4. /\ Sound(g)
        /\ \A i \in 1 .. Len(g) : g[i] = e \/ \E n \in 1 .. Len(f) : g[i] = f[n]
        /\ Len(g) = Capacity \/
               \A n \in 1 .. Len(f) : \E i \in 1 .. Len(g) : g[i] = f[n]
    <3>1. \A n \in 1 .. Len(f) : f[n].key # e.key
      BY Zenon, <2>2, <2>3
    <3>2. Sound(f) /\ e \in Entries
      BY Zenon, <2>2, <2>3
    <3> QED BY <2>1, <3>1, <3>2, InsertSound
  <2>5. ASSUME NEW i \in 1 .. Len(g), g[i].key # k
        PROVE  \E n \in 1 .. Len(c) : g[i] = c[n]
    <3>1. PICK m \in 1 .. Len(f) : g[i] = f[m]
      BY Zenon, <2>2, <2>4, <2>5
    <3> QED BY <2>3, <3>1
  <2>6. ASSUME Len(g) # Capacity, NEW n \in 1 .. Len(c), c[n].key # k
        PROVE  \E i \in 1 .. Len(g) : g[i] = c[n]
    <3>1. PICK m \in 1 .. Len(f) : f[m] = c[n]
      BY Zenon, <2>3, <2>6
    <3> QED BY <2>4, <2>6, <3>1
  <2> QED BY Zenon, <2>4, <2>5, <2>6 DEF PutLeaves
<1>5. CASE live # {}
  <2> DEFINE d(n) == IF ttl = Omitted THEN c[n].deadline ELSE explicit
  <2>1. g = [n \in 1 .. Len(c) |-> IF n \in live THEN new(d(n), c[n].hits) ELSE c[n]]
    BY Zenon, <1>5 DEF PutKey
  <2>2. \A n \in 1 .. Len(c) : c[n].deadline \in Nat /\ c[n].hits \in Nat
    BY Zenon, <1>1 DEF Entries
  <2>3. \A n \in 1 .. Len(c) : d(n) \in Nat
    BY Zenon, <1>2, <2>2
  <2> HIDE DEF explicit, d, new
  <2>4. ASSUME NEW n \in 1 .. Len(c)
        PROVE  /\ g[n] \in Entries /\ g[n].key = c[n].key
               /\ c[n].key # k => g[n] = c[n]
    <3>1. CASE n \in live
      BY <1>3, <2>1, <2>2, <2>3, <3>1
    <3>2. CASE n \notin live
      BY Zenon, <1>1, <2>1, <3>2
    <3> QED BY Zenon, <3>1, <3>2
  <2>5. g \in Seq(Entries) /\ Len(g) = Len(c)
    BY <1>1, <2>1, <2>4, FunctionIsSeq
  <2>6. Sound(g)
    BY <2>4, <2>5 DEF Sound, KeysDiffer
  <2> HIDE DEF live
  <2>7. PutLeaves(c, k, g)
    BY Zenon, <2>4, <2>5 DEF PutLeaves
  <2> QED BY Zenon, <2>6, <2>7
<1> QED BY Zenon, <1>4, <1>5

\* What dump() shows of a cache, and how an entry is written.
Shown(c, t) == AtPositions(c, {n \in DOMAIN c : ~Expired(c[n], t)})

Written(e, t) ==
    [key |-> e.key, value |-> e.value, hits |-> e.hits, form |-> "left",
     t |-> IF e.deadline = NoExpiry THEN NoExpiry ELSE e.deadline - t]

LEMMA WrittenType ==
    ASSUME NEW e \in Entries, NEW t \in Nat, ~Expired(e, t)
    PROVE  Written(e, t) \in Items /\ Written(e, t).key = e.key
<1> DEFINE left == IF e.deadline = NoExpiry THEN NoExpiry ELSE e.deadline - t
<1>1. left \in Nat
  BY DEF Entries, Expired, NoExpiry
<1>2. Written(e, t) = [key |-> e.key, value |-> e.value, hits |-> e.hits,
                       form |-> "left", t |-> left]
  BY Zenon DEF Written
<1> HIDE DEF left
<1> QED BY <1>1, <1>2 DEF Items, Entries

\* What _save_cache_state writes of a cache c at time t: the entries that have
\* not expired, each as its item.
SavedFrom(f, c, t) ==
    /\ f \in Seq(Items) /\ Len(f) <= Capacity /\ KeysDiffer(f)
    /\ \A m \in 1 .. Len(f) : \E n \in 1 .. Len(c) : f[m] = Written(c[n], t)
    /\ \A n \in 1 .. Len(c) :
           ~Expired(c[n], t) => \E m \in 1 .. Len(f) : f[m] = Written(c[n], t)
    /\ \A n \in 1 .. Len(c) : Written(c[n], t).key = c[n].key

LEMMA SaveSound ==
    ASSUME NEW c, Sound(c), NEW t \in Nat, NEW f, f = SaveCacheState(c, t)
    PROVE  SavedFrom(f, c, t)
<1> DEFINE s == Shown(c, t)
           N == {n \in DOMAIN c : ~Expired(c[n], t)}
<1>1. c \in Seq(Entries) /\ Len(c) \in Nat /\ DOMAIN c = 1 .. Len(c)
      /\ KeysDiffer(c) /\ Len(c) <= Capacity /\ Capacity \in Nat
  BY CliConstants DEF Sound
<1>2. s \in Seq(Entries) /\ Len(s) <= Len(c) /\ KeysDiffer(s) /\ Len(s) \in Nat
  BY <1>1, AtPositionsKeys DEF Shown
<1>3. Selects(s, c, N, Len(c))
  BY Zenon, <1>1, AtPositionsSelects DEF Shown
<1>4. f = [n \in 1 .. Len(s) |-> Written(s[n], t)]
  BY Zenon DEF SaveCacheState, Shown, Written
<1> HIDE DEF s
<1>5. \A n \in 1 .. Len(s) : s[n] \in Entries /\ ~Expired(s[n], t)
  BY <1>1, <1>2, <1>3 DEF Selects
<1>6. \A n \in 1 .. Len(s) : f[n] = Written(s[n], t) /\ f[n] \in Items /\ f[n].key = s[n].key
  BY Zenon, <1>4, <1>5, WrittenType
<1>7. f \in Seq(Items) /\ Len(f) = Len(s)
  BY <1>2, <1>4, <1>6, FunctionIsSeq
<1>8. Len(f) <= Capacity
  BY <1>1, <1>2, <1>7
<1>9. KeysDiffer(f)
  BY Zenon, <1>2, <1>6, <1>7 DEF KeysDiffer
<1>10. ASSUME NEW m \in 1 .. Len(f)
       PROVE  \E n \in 1 .. Len(c) : f[m] = Written(c[n], t)
  <2>1. PICK n \in 1 .. Len(c) : s[m] = c[n]
    BY Zenon, <1>3, <1>7 DEF Selects
  <2>2. f[m] = Written(s[m], t)
    BY Zenon, <1>6, <1>7
  <2> QED BY Zenon, <2>1, <2>2
<1>11. ASSUME NEW n \in 1 .. Len(c), ~Expired(c[n], t)
       PROVE  \E m \in 1 .. Len(f) : f[m] = Written(c[n], t)
  <2>1. PICK m \in 1 .. Len(s) : s[m] = c[n]
    BY Zenon, <1>1, <1>3, <1>11 DEF Selects
  <2> QED BY Zenon, <1>6, <1>7, <2>1
<1>12. \A n \in 1 .. Len(c) : Written(c[n], t).key = c[n].key
  BY Zenon DEF Written
<1> QED BY Zenon, <1>7, <1>8, <1>9, <1>10, <1>11, <1>12 DEF SavedFrom

\* What the commands leave of the items of file f, loaded at a given time,
\* whose keys are not in ks: their entries in cache c, if they have one.
Carried(f, c, ks, at) ==
    \A n \in 1 .. Len(f) : f[n].key \notin ks =>
        LET ttl == TtlFromStateItem(f[n], at)
            mine == {m \in 1 .. Len(c) : c[m].key = f[n].key}
        IN  /\ \A m \in mine : ttl # SkipEntry /\ c[m] = LoadItem(f[n], at)
            /\ mine = {} => \/ ttl = SkipEntry
                            \/ Len(c) = Capacity
                            \/ Len(f) > Capacity

\* A cache that was loaded and not changed.
LEMMA LoadCarries ==
    ASSUME NEW f \in Seq(Items), KeysDiffer(f), NEW at \in Nat,
           NEW c, c = LoadCacheState(f, at), NEW n \in 1 .. Len(f)
    PROVE  /\ \A m \in 1 .. Len(c) : c[m].key = f[n].key =>
                  TtlFromStateItem(f[n], at) # SkipEntry /\ c[m] = LoadItem(f[n], at)
           /\ \/ \E m \in 1 .. Len(c) : c[m].key = f[n].key
              \/ TtlFromStateItem(f[n], at) = SkipEntry
              \/ Len(f) > Capacity
<1> DEFINE kept == Kept(f, at)
           x == Excess(kept)
           L == Len(kept) - x
           N == {i \in DOMAIN f : TtlFromStateItem(f[i], at) # SkipEntry}
<1>1. kept \in Seq(Items) /\ Len(kept) <= Len(f) /\ Len(kept) \in Nat
  BY AtPositionsKeys DEF Kept
<1>2. Selects(kept, f, N, Len(f))
  BY Zenon, AtPositionsSelects DEF Kept
<1>3. /\ x \in Nat /\ L \in Nat
      /\ \A m \in 1 .. L : m + x \in 1 .. Len(kept)
  BY Zenon, <1>1, ExcessType
<1>4. c = [m \in 1 .. L |-> LoadItem(kept[m + x], at)]
  BY Zenon, LoadShape
<1>5. Len(c) = L
  BY <1>3, <1>4
<1>6. DOMAIN f = 1 .. Len(f) /\ Len(f) \in Nat
  OBVIOUS
<1>7. x = 0 \/ Len(f) > Capacity
  BY <1>1, CliConstants DEF Excess
<1>8. x = 0 => L = Len(kept)
  BY <1>1
<1> HIDE DEF kept, x, L
<1>9. \A i \in Items : LoadItem(i, at).key = i.key
  BY Zenon DEF LoadItem
<1>10. ASSUME NEW m \in 1 .. Len(c), c[m].key = f[n].key
       PROVE  TtlFromStateItem(f[n], at) # SkipEntry /\ c[m] = LoadItem(f[n], at)
  <2> DEFINE j == m + x
  <2>1. c[m] = LoadItem(kept[j], at) /\ j \in 1 .. Len(kept)
    BY Zenon, <1>3, <1>4, <1>5
  <2> HIDE DEF j
  <2>2. PICK i \in 1 .. Len(f) : i \in N /\ kept[j] = f[i]
    BY Zenon, <1>2, <2>1 DEF Selects
  <2>3. f[i].key = f[n].key
    BY <1>9, <1>10, <2>1, <2>2
  <2>4. i = n
    BY Zenon, <2>3 DEF KeysDiffer
  <2> QED BY Zenon, <2>1, <2>2, <2>4
<1>11. ASSUME TtlFromStateItem(f[n], at) # SkipEntry, x = 0
       PROVE  \E m \in 1 .. Len(c) : c[m].key = f[n].key
  <2>1. n \in N
    BY Zenon, <1>6, <1>11
  <2>2. PICK j \in 1 .. Len(kept) : kept[j] = f[n]
    BY Zenon, <1>2, <2>1 DEF Selects
  <2>3. j \in 1 .. L /\ j \in 1 .. Len(c) /\ j + x = j
    BY <1>1, <1>5, <1>8, <1>11
  <2>4. c[j] = LoadItem(f[n], at)
    BY Zenon, <1>4, <2>2, <2>3
  <2>5. c[j].key = f[n].key
    BY <1>9, <2>4
  <2> QED BY Zenon, <2>3, <2>5
<1> QED BY Zenon, <1>7, <1>10, <1>11

\* A command on key k carries the items of the other keys.
LEMMA ChangeCarries ==
    ASSUME NEW f \in Seq(Items), KeysDiffer(f), NEW at \in Nat,
           NEW c, c = LoadCacheState(f, at), NEW k, NEW g, PutLeaves(c, k, g)
    PROVE  Carried(f, g, {k}, at)
<1> SUFFICES ASSUME NEW n \in 1 .. Len(f), f[n].key # k
             PROVE  /\ \A m \in 1 .. Len(g) : g[m].key = f[n].key =>
                           /\ TtlFromStateItem(f[n], at) # SkipEntry
                           /\ g[m] = LoadItem(f[n], at)
                    /\ \/ \E m \in 1 .. Len(g) : g[m].key = f[n].key
                       \/ TtlFromStateItem(f[n], at) = SkipEntry
                       \/ Len(g) = Capacity
                       \/ Len(f) > Capacity
  BY Zenon DEF Carried
<1>1. /\ \A m \in 1 .. Len(c) : c[m].key = f[n].key =>
             TtlFromStateItem(f[n], at) # SkipEntry /\ c[m] = LoadItem(f[n], at)
      /\ \/ \E m \in 1 .. Len(c) : c[m].key = f[n].key
         \/ TtlFromStateItem(f[n], at) = SkipEntry
         \/ Len(f) > Capacity
  BY LoadCarries
<1>2. ASSUME NEW m \in 1 .. Len(g), g[m].key = f[n].key
      PROVE  TtlFromStateItem(f[n], at) # SkipEntry /\ g[m] = LoadItem(f[n], at)
  <2>1. PICK i \in 1 .. Len(c) : g[m] = c[i]
    BY Zenon, <1>2 DEF PutLeaves
  <2> QED BY Zenon, <1>1, <1>2, <2>1
<1>3. ASSUME NEW i \in 1 .. Len(c), c[i].key = f[n].key, Len(g) # Capacity
      PROVE  \E m \in 1 .. Len(g) : g[m].key = f[n].key
  <2>1. PICK m \in 1 .. Len(g) : g[m] = c[i]
    BY Zenon, <1>3 DEF PutLeaves
  <2> QED BY Zenon, <1>3, <2>1
<1> QED BY Zenon, <1>1, <1>2, <1>3

\* The file and the caches are sound, and the cache of a process inside the
\* lock is what became of the file, while nothing was broken.
FileInv ==
    /\ CliInv
    /\ file \in Seq(Items) /\ KeysDiffer(file)
    /\ version > 0 => Len(file) <= Capacity
    /\ mem = [p \in Processes |-> mem[p]]
    /\ \A p \in Processes : Sound(mem[p])
    /\ touched = [p \in Processes |-> touched[p]]
    /\ loadedAt \in [Processes -> Nat]
    /\ ~broken => \A p \in Processes :
           /\ stage[p] = "loaded" => mem[p] = LoadCacheState(file, loadedAt[p])
           /\ stage[p] = "changed" => Carried(file, mem[p], touched[p], loadedAt[p])

LEMMA EmptySound == Sound(<<>>)
BY CliConstants DEF Sound, KeysDiffer

LEMMA FileInvInit == CliInit => FileInv
<1> SUFFICES ASSUME CliInit PROVE FileInv
  BY Zenon
<1>1. CliInv
  BY Zenon, CliInvInit
<1>2. file \in Seq(Items) /\ KeysDiffer(file)
  BY Zenon, InitialFilesAssumption DEF CliInit, KeysDiffer
<1>3. /\ mem = [p \in Processes |-> <<>>]
      /\ touched = [p \in Processes |-> {}]
      /\ loadedAt = [p \in Processes |-> 0]
      /\ version = 0
      /\ stage = [p \in Processes |-> "fresh"]
  BY Zenon DEF CliInit
<1>4. \A p \in Processes : Sound(mem[p])
  BY Zenon, <1>3, EmptySound
<1> QED BY <1>1, <1>2, <1>3, <1>4 DEF FileInv

LEMMA LoadFileInv ==
    ASSUME FileInv, CliInv', NEW p \in Processes, Load(p)
    PROVE  FileInv'
<1> DEFINE c == LoadCacheState(file, now)
<1>1. now \in Nat /\ file \in Seq(Items) /\ KeysDiffer(file)
  BY Zenon DEF FileInv, CliInv, LockInv, LockTypeOK
<1>2. Sound(c)
  BY Zenon, <1>1, LoadSound
<1>3. /\ mem' = [mem EXCEPT ![p] = c]
      /\ stage' = [stage EXCEPT ![p] = "loaded"]
      /\ loadedAt' = [loadedAt EXCEPT ![p] = now]
      /\ UNCHANGED <<file, touched, version, broken>>
  BY Zenon DEF Load, lockVars
<1>4. /\ \A q \in Processes : mem'[q] = IF q = p THEN c ELSE mem[q]
      /\ mem' = [q \in Processes |-> mem'[q]]
  BY Zenon, <1>3 DEF FileInv
<1>5. /\ \A q \in Processes : stage'[q] = IF q = p THEN "loaded" ELSE stage[q]
      /\ \A q \in Processes : loadedAt'[q] = IF q = p THEN now ELSE loadedAt[q]
      /\ loadedAt' \in [Processes -> Nat]
  BY <1>1, <1>3 DEF FileInv, CliInv
<1> HIDE DEF c
<1>6. \A q \in Processes : Sound(mem'[q])
  BY Zenon, <1>2, <1>4 DEF FileInv
<1>7. ASSUME ~broken', NEW q \in Processes
      PROVE  /\ stage'[q] = "loaded" => mem'[q] = LoadCacheState(file', loadedAt'[q])
             /\ stage'[q] = "changed" => Carried(file', mem'[q], touched'[q], loadedAt'[q])
  BY <1>3, <1>4, <1>5, <1>7 DEF FileInv, c
<1> QED BY Zenon, <1>3, <1>4, <1>5, <1>6, <1>7 DEF FileInv

LEMMA ChangeFileInv ==
    ASSUME FileInv, CliInv', NEW p \in Processes, NEW c, NEW ks, Change(p, c, ks),
           Sound(c), ~broken => Carried(file, c, ks, loadedAt[p])
    PROVE  FileInv'
<1>1. /\ mem' = [mem EXCEPT ![p] = c]
      /\ stage' = [stage EXCEPT ![p] = "changed"]
      /\ touched' = [touched EXCEPT ![p] = ks]
      /\ UNCHANGED <<file, loadedAt, version, broken>>
  BY Zenon DEF Change, lockVars
<1>2. /\ \A q \in Processes : mem'[q] = IF q = p THEN c ELSE mem[q]
      /\ mem' = [q \in Processes |-> mem'[q]]
  BY Zenon, <1>1 DEF FileInv
<1>3. /\ \A q \in Processes : touched'[q] = IF q = p THEN ks ELSE touched[q]
      /\ touched' = [q \in Processes |-> touched'[q]]
  BY Zenon, <1>1 DEF FileInv
<1>4. \A q \in Processes : stage'[q] = IF q = p THEN "changed" ELSE stage[q]
  BY Zenon, <1>1 DEF FileInv, CliInv
<1>5. \A q \in Processes : Sound(mem'[q])
  BY Zenon, <1>2 DEF FileInv
<1>6. ASSUME ~broken', NEW q \in Processes
      PROVE  /\ stage'[q] = "loaded" => mem'[q] = LoadCacheState(file', loadedAt'[q])
             /\ stage'[q] = "changed" => Carried(file', mem'[q], touched'[q], loadedAt'[q])
  <2>1. CASE q = p
    BY <1>1, <1>2, <1>3, <1>4, <1>6, <2>1
  <2>2. CASE q # p
    <3>1. /\ stage[q] = "loaded" => mem[q] = LoadCacheState(file, loadedAt[q])
          /\ stage[q] = "changed" => Carried(file, mem[q], touched[q], loadedAt[q])
      BY Zenon, <1>1, <1>6 DEF FileInv
    <3> QED BY Zenon, <1>1, <1>2, <1>3, <1>4, <2>2, <3>1
  <2> QED BY Zenon, <2>1, <2>2
<1> QED BY Zenon, <1>1, <1>2, <1>3, <1>5, <1>6 DEF FileInv

\* The three writing commands.
LEMMA CommandFileInv ==
    ASSUME FileInv, CliInv', NEW p \in Processes,
           PutCommand(p) \/ DeleteCommand(p) \/ ClearCommand(p)
    PROVE  FileInv'
<1>1. /\ now \in Nat /\ file \in Seq(Items) /\ KeysDiffer(file)
      /\ Sound(mem[p]) /\ loadedAt[p] \in Nat
  BY Zenon DEF FileInv, CliInv, LockInv, LockTypeOK
<1>2. ASSUME ~broken, stage[p] = "loaded"
      PROVE  mem[p] = LoadCacheState(file, loadedAt[p])
  BY Zenon, <1>2 DEF FileInv
<1>3. CASE PutCommand(p)
  <2>1. PICK k \in Keys, ttl \in Ttls \cup {NoExpiry, Omitted} :
            Change(p, PutKey(mem[p], k, p, ttl, now), {k})
    BY Zenon, <1>3 DEF PutCommand
  <2> DEFINE g == PutKey(mem[p], k, p, ttl, now)
  <2>2. Sound(g) /\ PutLeaves(mem[p], k, g)
    BY Zenon, <1>1, PutSound
  <2>3. Change(p, g, {k}) /\ stage[p] = "loaded"
    BY Zenon, <2>1 DEF Change
  <2> HIDE DEF g
  <2>4. ~broken => Carried(file, g, {k}, loadedAt[p])
    BY Zenon, <1>1, <1>2, <2>2, <2>3, ChangeCarries
  <2> QED BY Zenon, <2>2, <2>3, <2>4, ChangeFileInv
<1>4. CASE DeleteCommand(p)
  <2>1. PICK k \in Keys : Change(p, Without(mem[p], k), {k})
    BY Zenon, <1>4 DEF DeleteCommand
  <2> DEFINE g == Without(mem[p], k)
  <2>2. Sound(g) /\ PutLeaves(mem[p], k, g)
    BY Zenon, <1>1, WithoutLeaves
  <2>3. Change(p, g, {k}) /\ stage[p] = "loaded"
    BY Zenon, <2>1 DEF Change
  <2> HIDE DEF g
  <2>4. ~broken => Carried(file, g, {k}, loadedAt[p])
    BY Zenon, <1>1, <1>2, <2>2, <2>3, ChangeCarries
  <2> QED BY Zenon, <2>2, <2>3, <2>4, ChangeFileInv
<1>5. CASE ClearCommand(p)
  <2>1. Change(p, <<>>, Keys)
    BY Zenon, <1>5 DEF ClearCommand
  <2>2. \A n \in 1 .. Len(file) : file[n].key \in Keys
    <3>1. \A n \in 1 .. Len(file) : file[n] \in Items
      BY Zenon, <1>1, ElementOfSeq
    <3> QED BY Zenon, <3>1 DEF Items
  <2>3. Carried(file, <<>>, Keys, loadedAt[p])
    BY Zenon, <2>2 DEF Carried
  <2> QED BY Zenon, <2>1, <2>3, EmptySound, ChangeFileInv
<1> QED BY Zenon, <1>3, <1>4, <1>5

\* A process that ends without saving.
LEMMA EndFileInv ==
    ASSUME FileInv, CliInv', NEW p \in Processes, Forget(p),
           UNCHANGED <<file, version, broken>>
    PROVE  FileInv'
<1>1. /\ \A q \in Processes : mem'[q] = IF q = p THEN <<>> ELSE mem[q]
      /\ mem' = [q \in Processes |-> mem'[q]]
  BY Zenon DEF FileInv, Forget
<1>2. /\ \A q \in Processes : touched'[q] = IF q = p THEN {} ELSE touched[q]
      /\ touched' = [q \in Processes |-> touched'[q]]
  BY Zenon DEF FileInv, Forget
<1>3. /\ \A q \in Processes : stage'[q] = IF q = p THEN "fresh" ELSE stage[q]
      /\ \A q \in Processes : loadedAt'[q] = IF q = p THEN 0 ELSE loadedAt[q]
      /\ loadedAt' \in [Processes -> Nat]
  BY Zenon DEF FileInv, CliInv, Forget
<1>4. \A q \in Processes : Sound(mem'[q])
  BY Zenon, <1>1, EmptySound DEF FileInv
<1>5. ASSUME ~broken', NEW q \in Processes
      PROVE  /\ stage'[q] = "loaded" => mem'[q] = LoadCacheState(file', loadedAt'[q])
             /\ stage'[q] = "changed" => Carried(file', mem'[q], touched'[q], loadedAt'[q])
  <2>1. CASE q = p
    BY Zenon, <1>3, <2>1
  <2>2. CASE q # p
    <3>1. /\ stage[q] = "loaded" => mem[q] = LoadCacheState(file, loadedAt[q])
          /\ stage[q] = "changed" => Carried(file, mem[q], touched[q], loadedAt[q])
      BY Zenon, <1>5 DEF FileInv
    <3> QED BY Zenon, <1>1, <1>2, <1>3, <2>2, <3>1
  <2> QED BY Zenon, <2>1, <2>2
<1> QED BY Zenon, <1>1, <1>2, <1>3, <1>4, <1>5 DEF FileInv

\* A process that saves: the others have loaded nothing, or the lock was broken.
LEMMA SaveFileInv ==
    ASSUME FileInv, CliInv', NEW p \in Processes, Save(p)
    PROVE  FileInv'
<1>1. now \in Nat /\ Sound(mem[p])
  BY Zenon DEF FileInv, CliInv, LockInv, LockTypeOK
<1>2. file' = SaveCacheState(mem[p], now) /\ Forget(p) /\ UNCHANGED broken
      /\ Holding(p)
  BY Zenon DEF Save, Leave, Holding
<1>3. file' \in Seq(Items) /\ Len(file') <= Capacity /\ KeysDiffer(file')
  BY Zenon, <1>1, <1>2, SaveSound DEF SavedFrom
<1>4. /\ \A q \in Processes : mem'[q] = IF q = p THEN <<>> ELSE mem[q]
      /\ mem' = [q \in Processes |-> mem'[q]]
      /\ touched' = [q \in Processes |-> touched'[q]]
  BY Zenon, <1>2 DEF FileInv, Forget
<1>5. /\ \A q \in Processes : stage'[q] = IF q = p THEN "fresh" ELSE stage[q]
      /\ loadedAt' \in [Processes -> Nat]
  BY Zenon, <1>2 DEF FileInv, CliInv, Forget
<1>6. \A q \in Processes : Sound(mem'[q])
  BY Zenon, <1>4, EmptySound DEF FileInv
<1>7. ASSUME ~broken', NEW q \in Processes PROVE stage'[q] = "fresh"
  <2>1. CliInv /\ ~broken
    BY Zenon, <1>2, <1>7 DEF FileInv
  <2>2. q # p => stage[q] = "fresh"
    BY <1>2, <2>1 DEF CliInv, LockInv, Holding
  <2> QED BY Zenon, <1>5, <2>2
<1> QED BY Zenon, <1>3, <1>4, <1>5, <1>6, <1>7 DEF FileInv

\* The steps of the lock and the clock leave the files and the caches alone.
LEMMA LockStepFileInv ==
    ASSUME FileInv, CliInv', UNCHANGED cliVars, broken => broken'
    PROVE  FileInv'
<1>1. UNCHANGED <<file, stage, mem, touched, version, loadedAt>>
  BY Zenon DEF cliVars
<1> QED BY Zenon, <1>1 DEF FileInv

LEMMA FileInvStep == FileInv /\ [CliNext]_vars => FileInv'
<1> SUFFICES ASSUME FileInv, [CliNext]_vars
             PROVE  FileInv'
  BY Zenon
<1>0. CliInv'
  BY Zenon, CliInvStep DEF FileInv
<1>1. ASSUME NEW p \in Processes, CommandStep(p) PROVE FileInv'
  <2>1. CASE Load(p)
    BY Zenon, <1>0, <2>1, LoadFileInv
  <2>2. CASE PutCommand(p) \/ DeleteCommand(p) \/ ClearCommand(p)
    BY Zenon, <1>0, <2>2, CommandFileInv
  <2>3. CASE EndUnsaved(p)
    BY Zenon, <1>0, <2>3, EndFileInv DEF EndUnsaved, Leave
  <2>4. CASE Save(p)
    BY Zenon, <1>0, <2>4, SaveFileInv
  <2> QED BY Zenon, <1>1, <2>1, <2>2, <2>3, <2>4 DEF CommandStep
<1>2. ASSUME NEW p \in Processes, Killed(p) PROVE FileInv'
  BY Zenon, <1>0, <1>2, EndFileInv DEF Killed, Crash
<1>3. ASSUME NEW p \in Processes, Enter(p) \/ LockStep(p), UNCHANGED cliVars
      PROVE  FileInv'
  <2>1. broken => broken'
    BY Zenon, <1>3 DEF Enter, LockStep, Create, Exists, Judge, Break, Wait, Exit, Unlink
  <2> QED BY Zenon, <1>0, <1>3, <2>1, LockStepFileInv
<1>4. CASE Tick /\ UNCHANGED cliVars
  BY Zenon, <1>0, <1>4, LockStepFileInv DEF Tick
<1>5. CASE UNCHANGED vars
  BY Zenon, <1>0, <1>5, LockStepFileInv DEF vars, lockVars
<1> QED BY Zenon, <1>1, <1>2, <1>3, <1>4, <1>5 DEF CliNext

\* The state file is well formed after the first save, however commands, time,
\* deaths and broken locks interleave: run_basic loads, changes and saves a
\* cache in which a key occurs once and no more than the capacity is held.
THEOREM FileStaysWellFormed == CliSpec => []FileWellFormed
<1>1. FileInv => FileWellFormed
  <2> SUFFICES ASSUME FileInv, version > 0 PROVE FileWellFormed
    BY Zenon DEF FileWellFormed
  <2>1. file \in Seq(Items) /\ Len(file) <= Capacity /\ KeysDiffer(file)
    BY Zenon DEF FileInv
  <2>2. DOMAIN file = 1 .. Len(file)
    BY <2>1
  <2> QED BY Zenon, <2>1, <2>2 DEF FileWellFormed, KeysDiffer
<1> QED BY <1>1, FileInvInit, FileInvStep, PTL DEF CliSpec

\* What is written of an entry that was loaded from an item.
LEMMA WrittenContinues ==
    ASSUME NEW i \in Items, NEW at \in Nat, NEW t \in Nat,
           TtlFromStateItem(i, at) # SkipEntry,
           NEW e, e = LoadItem(i, at)
    PROVE  LET ttl == TtlFromStateItem(i, at)
               j == Written(e, t)
           IN  /\ j.value = i.value
               /\ j.hits = i.hits
               /\ j.t = IF ttl = NoExpiry THEN NoExpiry ELSE ttl - (t - at)
               /\ Expired(e, t) => ttl # NoExpiry /\ at + ttl <= t
<1> DEFINE ttl == TtlFromStateItem(i, at)
           d == Deadline(ttl, at)
<1>1. ttl \in Nat
  BY Zenon, TtlType
<1>2. e = [key |-> i.key, value |-> i.value, hits |-> i.hits, deadline |-> d]
  BY Zenon DEF LoadItem
<1> HIDE DEF ttl
<1>3. d = IF ttl = 0 THEN 0 ELSE at + ttl
  BY Zenon DEF Deadline, NoExpiry
<1> HIDE DEF d
<1> DEFINE left == IF e.deadline = NoExpiry THEN NoExpiry ELSE e.deadline - t
<1>4. Written(e, t) = [key |-> e.key, value |-> e.value, hits |-> e.hits,
                       form |-> "left", t |-> left]
  BY Zenon DEF Written
<1>5. left = IF ttl = NoExpiry THEN NoExpiry ELSE ttl - (t - at)
  BY <1>1, <1>2, <1>3 DEF NoExpiry
<1>6. Expired(e, t) => ttl # NoExpiry /\ at + ttl <= t
  BY <1>1, <1>2, <1>3 DEF Expired, NoExpiry
<1> HIDE DEF left
<1>7. Written(e, t).value = i.value /\ Written(e, t).hits = i.hits
      /\ Written(e, t).t = left
  BY <1>2, <1>4
<1> QED BY Zenon, <1>5, <1>6, <1>7 DEF ttl

\* One save, and one item of the file that it replaces.
LEMMA SaveCarries ==
    ASSUME FileInv, NEW p \in Processes, Save(p), ~broken,
           NEW n \in 1 .. Len(file), file[n].key \notin touched[p]
    PROVE  LET i == file[n]
               ttl == TtlFromStateItem(i, loadedAt[p])
               saved == {m \in DOMAIN file' : file'[m].key = i.key}
           IN  /\ \A m \in saved : Continues(i, p, file'[m])
               /\ saved = {} =>
                      \/ ttl = SkipEntry
                      \/ ttl # NoExpiry /\ loadedAt[p] + ttl <= now
                      \/ Len(mem[p]) = Capacity
                      \/ Len(file) > Capacity
<1> DEFINE i == file[n]
           at == loadedAt[p]
           c == mem[p]
           g == SaveCacheState(c, now)
           ttl == TtlFromStateItem(i, at)
           mine == {m \in 1 .. Len(c) : c[m].key = i.key}
<1>1. now \in Nat /\ Sound(c) /\ at \in Nat /\ file \in Seq(Items)
  BY Zenon DEF FileInv, CliInv, LockInv, LockTypeOK
<1>2. i \in Items
  BY Zenon, <1>1, ElementOfSeq
<1>3. file' = g /\ stage[p] = "changed"
  BY Zenon DEF Save
<1>4. Carried(file, c, touched[p], at)
  BY Zenon, <1>3 DEF FileInv
<1>5. /\ \A m \in mine : ttl # SkipEntry /\ c[m] = LoadItem(i, at)
      /\ mine = {} => ttl = SkipEntry \/ Len(c) = Capacity \/ Len(file) > Capacity
  BY Zenon, <1>4 DEF Carried
<1>0. g = SaveCacheState(c, now)
  BY Zenon
<1> HIDE DEF g, c
<1>6. /\ g \in Seq(Items) /\ Len(g) <= Capacity /\ KeysDiffer(g)
      /\ \A m \in 1 .. Len(g) : \E x \in 1 .. Len(c) : g[m] = Written(c[x], now)
      /\ \A x \in 1 .. Len(c) :
             ~Expired(c[x], now) => \E m \in 1 .. Len(g) : g[m] = Written(c[x], now)
      /\ \A x \in 1 .. Len(c) : Written(c[x], now).key = c[x].key
  <2>1. SavedFrom(g, c, now)
    BY Zenon, <1>0, <1>1, SaveSound
  <2> QED BY Zenon, <2>1 DEF SavedFrom
<1>7. DOMAIN g = 1 .. Len(g)
  BY <1>6
<1> HIDE DEF at, i, ttl
<1>8. ASSUME NEW m \in DOMAIN g, g[m].key = i.key PROVE Continues(i, p, g[m])
  <2>1. PICK x \in 1 .. Len(c) : g[m] = Written(c[x], now)
    BY Zenon, <1>6, <1>7, <1>8
  <2>2. x \in mine
    BY Zenon, <1>6, <1>8, <2>1
  <2>3. ttl # SkipEntry /\ c[x] = LoadItem(i, at)
    BY Zenon, <1>5, <2>2
  <2>4. /\ g[m].value = i.value /\ g[m].hits = i.hits
        /\ g[m].t = IF ttl = NoExpiry THEN NoExpiry ELSE ttl - (now - at)
    BY <1>1, <1>2, <2>1, <2>3, WrittenContinues DEF ttl
  <2> QED BY Zenon, <2>4 DEF Continues, ttl, at
<1>9. ASSUME {m \in DOMAIN g : g[m].key = i.key} = {}
      PROVE  \/ ttl = SkipEntry
             \/ ttl # NoExpiry /\ at + ttl <= now
             \/ Len(c) = Capacity
             \/ Len(file) > Capacity
  <2>1. CASE mine = {}
    BY Zenon, <1>5, <2>1
  <2>2. CASE mine # {}
    <3>1. PICK x \in 1 .. Len(c) : c[x].key = i.key
      BY Zenon, <2>2
    <3>2. ttl # SkipEntry /\ c[x] = LoadItem(i, at)
      BY Zenon, <1>5, <3>1
    <3>3. Expired(c[x], now)
      BY Zenon, <1>6, <1>7, <1>9, <3>1
    <3>4. ttl # NoExpiry /\ at + ttl <= now
      BY Zenon, <1>1, <1>2, <3>2, <3>3, WrittenContinues DEF ttl
    <3> QED BY Zenon, <3>4
  <2> QED BY Zenon, <2>1, <2>2
<1> QED BY Zenon, <1>3, <1>8, <1>9 DEF i, ttl, c, at

\* A save of run_basic disturbs no key but the command's own: every other item
\* of the state file goes through _load_cache_state, put() or delete() and
\* _save_cache_state with its value, its hits and its deadline.
THEOREM OtherKeysAreKept == CliSpec => OtherKeysSurvive
<1> DEFINE A == \A p \in Processes : Save(p) /\ ~broken =>
           \A n \in {x \in DOMAIN file : file[x].key \notin touched[p]} :
               LET i == file[n]
                   ttl == TtlFromStateItem(i, loadedAt[p])
                   saved == {m \in DOMAIN file' : file'[m].key = i.key}
               IN  /\ \A m \in saved : Continues(i, p, file'[m])
                   /\ saved = {} =>
                          \/ ttl = SkipEntry
                          \/ ttl # NoExpiry /\ loadedAt[p] + ttl <= now
                          \/ Len(mem[p]) = Capacity
                          \/ Len(file) > Capacity
<1>1. FileInv => A
  <2> SUFFICES ASSUME FileInv PROVE A
    BY Zenon
  <2>1. DOMAIN file = 1 .. Len(file)
    BY DEF FileInv
  <2> QED BY Zenon, <2>1, SaveCarries
<1>2. OtherKeysSurvive <=> [][A]_vars
  BY Zenon DEF OtherKeysSurvive
<1> HIDE DEF A
<1> QED BY <1>1, <1>2, FileInvInit, FileInvStep, PTL DEF CliSpec

=============================================================================
