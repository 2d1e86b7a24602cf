-------------------------- MODULE OrchestratorLock --------------------------
(***************************************************************************)
(* The lock file install, update, upgrade and uninstall take, in whatever  *)
(* process they run (the CLI, the admin server).  A process is one         *)
(* straight line of system calls; those of different processes interleave, *)
(* and a process may be killed between any two.                            *)
(***************************************************************************)
EXTENDS Integers, FiniteSets

CONSTANTS
  Procs,        \* process ids; one that dies is not used again
  None,
  MaxAttempts,  \* bound: how often a process asks for the lock
  MaxCrashes    \* bound: how many processes are killed

ASSUME NoneAssumption == None \notin Procs

VARIABLES
  owner,     \* who created the file at lockPath; None: there is no such file
  written,   \* whether its content is there yet
  pc,        \* where each process is
  attempts,  \* how often it asked (bounded)
  raced      \* somebody trusted a read that said nothing of a lock to remove (history)

lockVars == <<owner, written, pc, attempts, raced>>

PCs == {"idle", "open", "write", "hold", "read", "unlink", "retry", "refused", "failed", "remove", "dead"}

LockTypeOK ==
  /\ owner \in Procs \cup {None}
  /\ written \in BOOLEAN
  /\ written => owner # None
  /\ pc \in [Procs -> PCs]
  /\ attempts \in [Procs -> Nat]
  /\ raced \in BOOLEAN

LockInit ==
  /\ owner = None
  /\ written = FALSE
  /\ pc = [p \in Procs |-> "idle"]
  /\ attempts = [p \in Procs |-> 0]
  /\ raced = FALSE

isProcessAlive(p) == pc[p] # "dead"

Goes(p, from, to) == pc[p] = from /\ pc' = [pc EXCEPT ![p] = to]

\* A bug unlink could have: the file keeps its content for the next to open it.
Unlinked_Kept == owner' = None /\ UNCHANGED written

\* unlinkSync removes whatever has the name by now, if anything.
Unlinked == owner' = None /\ written' = FALSE

-----------------------------------------------------------------------------
(* acquireLock.                                                            *)

Acquire(p) ==
  /\ attempts[p] < MaxAttempts
  /\ attempts' = [attempts EXCEPT ![p] = @ + 1]
  /\ Goes(p, "idle", "open")
  /\ UNCHANGED <<owner, written, raced>>

\* A bug open could have: without O_EXCL it takes the file that is there.
Exclusively_Not == TRUE

Exclusively == owner = None

\* openSync with O_CREAT and O_EXCL, the first time or after an unlink.
Create(p) ==
  /\ Exclusively
  /\ Goes(p, "open", "write") \/ Goes(p, "retry", "write")
  /\ owner' = p
  /\ written' = FALSE
  /\ UNCHANGED <<attempts, raced>>

\* EEXIST: the first time, look at the lock; the second, give up.
Exists(p) ==
  /\ owner # None
  /\ Goes(p, "open", "read") \/ Goes(p, "retry", "refused")
  /\ UNCHANGED <<owner, written, attempts, raced>>

\* writeSync goes to the file this process created, whether it still has its
\* name or not; a write that fails leaves the file as it is.
Write(p) ==
  /\ \/ Goes(p, "write", "hold") /\ written' = IF owner = p THEN TRUE ELSE written
     \/ Goes(p, "write", "failed") /\ UNCHANGED written
  /\ UNCHANGED <<owner, attempts, raced>>

\* A bug the liveness test could have: everybody counts as alive.
Held_Always == owner # None /\ written

\* readLockInfo finds the lock of a live process.  A file without content reads
\* as null, and so does one that is gone.
Held == owner # None /\ written /\ isProcessAlive(owner)

Removing == {q \in Procs : pc[q] = "unlink"}

Read(p) ==
  /\ \/ Held /\ Goes(p, "read", "refused") /\ UNCHANGED raced
     \/ /\ ~Held /\ Goes(p, "read", "unlink")
        /\ raced' = (raced \/ owner = None \/ isProcessAlive(owner) \/ Removing # {})
  /\ UNCHANGED <<owner, written, attempts>>

\* Stale or corrupt.
Unlink(p) ==
  /\ Goes(p, "unlink", "retry")
  /\ Unlinked
  /\ UNCHANGED <<attempts, raced>>

\* LockAcquisitionError, or the error of the write, reaches the caller.
Return(p) ==
  /\ Goes(p, "refused", "idle") \/ Goes(p, "failed", "idle")
  /\ UNCHANGED <<owner, written, attempts, raced>>

-----------------------------------------------------------------------------
(* releaseLock.                                                            *)

\* The lock that is there names this process.
Owns(p) == owner = p /\ written

ReadOwn(p) ==
  /\ IF Owns(p) THEN Goes(p, "hold", "remove") ELSE Goes(p, "hold", "idle")
  /\ UNCHANGED <<owner, written, attempts, raced>>

Remove(p) ==
  /\ Goes(p, "remove", "idle")
  /\ Unlinked
  /\ UNCHANGED <<attempts, raced>>

-----------------------------------------------------------------------------
(* A process is killed: what it created stays.                             *)
Crash(p) ==
  /\ isProcessAlive(p)
  /\ Cardinality({q \in Procs : pc[q] = "dead"}) < MaxCrashes
  /\ pc' = [pc EXCEPT ![p] = "dead"]
  /\ UNCHANGED <<owner, written, attempts, raced>>

\* The system calls of a process inside acquireLock and releaseLock.
Call(p) == Create(p) \/ Exists(p) \/ Write(p) \/ Read(p) \/ Unlink(p) \/ Return(p) \/ Remove(p)

LockNext == \E p \in Procs : Acquire(p) \/ Call(p) \/ ReadOwn(p) \/ Crash(p)

LockSpec == LockInit /\ [][LockNext]_lockVars

\* Inside acquireLock a live process keeps going: the calls are synchronous.
\* Nothing is said of how long an operation holds the lock, nor of a new one.
LockFairness == \A p \in Procs : WF_lockVars(Call(p))

LiveLockSpec == LockSpec /\ LockFairness

(***************************************************************************)
(* Properties.                                                             *)
(***************************************************************************)
\* The header's promise: the lock "prevents concurrent mutating operations".
AtMostOneHolder == \A p, q \in Procs : pc[p] = "hold" /\ pc[q] = "hold" => p = q

\* What the code does keep of it: two operations only ever overlap after a
\* process took for abandoned a lock that was not, because its file was still
\* empty, or already gone, or about to be removed by another process.  One
\* process at a time cleaning up after a crash is safe.
ExclusiveUnlessRaced == ~raced => AtMostOneHolder

\* Release "only removes if we still own it": between the check of the owner
\* and the unlink nobody replaces the file, again unless such a race happened.
RemovesOwn == [][\A p \in Procs : pc[p] = "remove" /\ pc'[p] = "idle" /\ ~raced => owner = p]_lockVars

\* A crash never locks operations out for good: once everybody else is dead,
\* whatever they left in the file, asking for the lock is granted, unless
\* writing the file fails or the last one dies too.
LastOneGetsIn ==
  \A p \in Procs :
    (\A q \in Procs \ {p} : ~isProcessAlive(q)) /\ pc[p] = "open" ~> pc[p] \in {"hold", "failed", "dead"}
=============================================================================
