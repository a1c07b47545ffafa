--------------------------- MODULE StateFileLock ---------------------------
(***************************************************************************)
(* The lock file that guards the state file of the command line tool.      *)
(* Every invocation is a process that creates the lock file exclusively,   *)
(* works on the state file and removes the lock file again.  A process     *)
(* that finds the file there may judge it stale, in a step of its own, and *)
(* remove it in another.  Processes may be killed while they hold the      *)
(* lock; the file they leave behind is what the staleness rule is for.     *)
(***************************************************************************)
EXTENDS Naturals

CONSTANTS
    Processes,      \* invocations of the tool
    StaleSeconds,   \* _STALE_LOCK_SECONDS
    Timeout,        \* how long __enter__ tries
    NoFile,         \* the lock file does not exist
    MaxTime         \* bound: the clock stops here

ASSUME LockConstants ==
    /\ StaleSeconds \in Nat
    /\ Timeout \in Nat
    /\ MaxTime \in Nat

VARIABLES
    now,        \* the clock
    lockFile,   \* NoFile, or who created the lock file and when
    pc,         \* where each process is
    deadline,   \* when a process gives up
    broken      \* history: a lock file was removed under a live holder

lockVars == <<now, lockFile, pc, deadline, broken>>

LockFiles == [owner : Processes, mtime : Nat]

ASSUME NoFileAssumption == NoFile \notin LockFiles

LockInit ==
    /\ now = 0
    /\ lockFile = NoFile
    /\ pc = [p \in Processes |-> "new"]
    /\ deadline = [p \in Processes |-> 0]
    /\ broken = FALSE

Goto(p, at) == pc' = [pc EXCEPT ![p] = at]

\* A live process inside the with block, or on its way out of it.
Holding(p) == pc[p] \in {"held", "exit"}

\* StateFileLock.__enter__: the deadline is fixed once.
Enter(p) ==
    /\ pc[p] = "new"
    /\ now + Timeout <= MaxTime
    /\ deadline' = [deadline EXCEPT ![p] = now + Timeout]
    /\ Goto(p, "trying")
    /\ UNCHANGED <<now, lockFile, broken>>

\* A faulty variant: the file is opened without O_EXCL.
CreateShared(p) ==
    /\ pc[p] = "trying"
    /\ lockFile' = [owner |-> p, mtime |-> now]
    /\ Goto(p, "held")
    /\ UNCHANGED <<now, deadline, broken>>

\* _try_acquire: O_CREAT | O_EXCL succeeds.
Create(p) ==
    /\ pc[p] = "trying"
    /\ lockFile = NoFile
    /\ lockFile' = [owner |-> p, mtime |-> now]
    /\ Goto(p, "held")
    /\ UNCHANGED <<now, deadline, broken>>

\* _try_acquire: FileExistsError.
Exists(p) ==
    /\ pc[p] = "trying"
    /\ lockFile # NoFile
    /\ Goto(p, "judge")
    /\ UNCHANGED <<now, lockFile, deadline, broken>>

\* _lock_is_stale: a file that can no longer be inspected counts as stale.
LockIsStale == lockFile = NoFile \/ now - lockFile.mtime >= StaleSeconds

Judge(p) ==
    /\ pc[p] = "judge"
    /\ Goto(p, IF LockIsStale THEN "break" ELSE "wait")
    /\ UNCHANGED <<now, lockFile, deadline, broken>>

\* unlink(missing_ok=True) as called by p: it removes whatever file is there.
\* An OSError is swallowed and leaves the file.
Unlink(p) ==
    \/ /\ lockFile' = NoFile
       /\ broken' = (\/ broken
                     \/ /\ lockFile # NoFile
                        /\ lockFile.owner # p
                        /\ Holding(lockFile.owner))
    \/ UNCHANGED <<lockFile, broken>>

\* The file judged stale is removed, without looking at it again.
Break(p) ==
    /\ pc[p] = "break"
    /\ Unlink(p)
    /\ Goto(p, "wait")
    /\ UNCHANGED <<now, deadline>>

\* A faulty variant: the deadline is not looked at.
WaitForEver(p) ==
    /\ pc[p] = "wait"
    /\ Goto(p, "trying")
    /\ UNCHANGED <<now, lockFile, deadline, broken>>

\* Past the deadline TimeoutError ends the command; else sleep and try again.
Wait(p) ==
    /\ pc[p] = "wait"
    /\ Goto(p, IF now >= deadline[p] THEN "failed" ELSE "trying")
    /\ UNCHANGED <<now, lockFile, deadline, broken>>

\* The body of the with block ends, normally or not.
Leave(p) ==
    /\ pc[p] = "held"
    /\ Goto(p, "exit")
    /\ UNCHANGED <<now, lockFile, deadline, broken>>

\* StateFileLock.__exit__
Exit(p) ==
    /\ pc[p] = "exit"
    /\ Unlink(p)
    /\ Goto(p, "done")
    /\ UNCHANGED <<now, deadline>>

\* The process is killed while it holds the lock.  Killed earlier, it leaves
\* nothing behind.
Crash(p) ==
    /\ Holding(p)
    /\ Goto(p, "crashed")
    /\ UNCHANGED <<now, lockFile, deadline, broken>>

Tick ==
    /\ now < MaxTime
    /\ now' = now + 1
    /\ UNCHANGED <<lockFile, pc, deadline, broken>>

\* What a process does outside the with block.
LockStep(p) ==
    \/ Create(p) \/ Exists(p) \/ Judge(p) \/ Break(p) \/ Wait(p) \/ Exit(p)

LockNext ==
    \/ \E p \in Processes : Enter(p) \/ LockStep(p) \/ Leave(p) \/ Crash(p)
    \/ Tick

LockSpec == LockInit /\ [][LockNext]_lockVars

-----------------------------------------------------------------------------

LockTypeOK ==
    /\ now \in Nat
    /\ lockFile \in LockFiles \cup {NoFile}
    /\ pc \in [Processes -> {"new", "trying", "judge", "break", "wait", "held",
                             "exit", "done", "failed", "crashed"}]
    /\ deadline \in [Processes -> Nat]
    /\ broken \in BOOLEAN

\* The lock is exclusive for as long as no lock file has been removed under
\* the process that holds it: exclusive creation is enough, whatever happens
\* to timeouts, crashes, stale files and failing unlinks.
ExclusiveUnlessBroken ==
    \A p, q \in Processes : Holding(p) /\ Holding(q) /\ p # q => broken

\* Every command that starts to wait for the lock ends: it gets the lock and
\* finishes, it is killed, or it reports the timeout.
CommandsEnd ==
    \A p \in Processes :
        pc[p] = "trying" ~> pc[p] \in {"done", "failed", "crashed"}

=============================================================================
