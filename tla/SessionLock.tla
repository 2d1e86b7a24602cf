---------------------------- MODULE SessionLock ----------------------------
(***************************************************************************)
(* The per-key lock of the guardian's forwarder, withSessionLock: a chain  *)
(* of promises per cache key.  A request awaits the promise it found at    *)
(* the tail of the chain, and its own promise becomes the new tail.        *)
(*                                                                         *)
(* A member of Reqs is one call of withSessionLock.  A promise is named by *)
(* the request that resolves it.                                           *)
(***************************************************************************)
EXTENDS Naturals

CONSTANTS Reqs,   \* the calls of withSessionLock
          Keys,   \* the cache keys, "channel:sessionKey"
          None    \* no promise: the map has no entry, Promise.resolve()

ASSUME NoneAssumption == None \notin Reqs /\ None \notin Keys

VARIABLES
  sessionLocks,   \* per key, the promise at the tail of the chain
  previous,       \* per request, the promise it awaits
  key,            \* per request, the key it was called with
  stage,          \* per request: "idle", "waiting", "running" or "released"
  ticket,         \* per request, its place in the order of arrival (history)
  arrivals        \* the number of calls so far (history)

lockVars == <<sessionLocks, previous, key, stage, ticket, arrivals>>

LockTypeOK ==
  /\ sessionLocks \in [Keys -> Reqs \cup {None}]
  /\ previous \in [Reqs -> Reqs \cup {None}]
  /\ key \in [Reqs -> Keys \cup {None}]
  /\ stage \in [Reqs -> {"idle", "waiting", "running", "released"}]
  /\ ticket \in [Reqs -> Nat]
  /\ arrivals \in Nat

LockInit ==
  /\ sessionLocks = [k \in Keys |-> None]
  /\ previous = [r \in Reqs |-> None]
  /\ key = [r \in Reqs |-> None]
  /\ stage = [r \in Reqs |-> "idle"]
  /\ ticket = [r \in Reqs |-> 0]
  /\ arrivals = 0

\* Between its entry and its finally block a call is active.
Active(r) == stage[r] \in {"waiting", "running"}

(***************************************************************************)
(* The synchronous part of withSessionLock: take the tail, become the tail.*)
(***************************************************************************)
Enter(r, k) ==
  /\ stage[r] = "idle"
  /\ previous' = [previous EXCEPT ![r] = sessionLocks[k]]
  /\ sessionLocks' = [sessionLocks EXCEPT ![k] = r]
  /\ key' = [key EXCEPT ![r] = k]
  /\ stage' = [stage EXCEPT ![r] = "waiting"]
  /\ arrivals' = arrivals + 1
  /\ ticket' = [ticket EXCEPT ![r] = arrivals + 1]

\* A bug this order could have: the wait is skipped.
Resolved_Always(r) == TRUE

\* The promise r awaits has resolved.
Resolved(r) == previous[r] # None => stage[previous[r]] = "released"

\* await previous is over and fn starts.
Run(r) ==
  /\ stage[r] = "waiting"
  /\ Resolved(r)
  /\ stage' = [stage EXCEPT ![r] = "running"]
  /\ UNCHANGED <<sessionLocks, previous, key, ticket, arrivals>>

\* Bugs the finally block could have: the map entry is deleted whoever is at
\* the tail, or never.
TailAfter_AlwaysDeleted(r) == [sessionLocks EXCEPT ![key[r]] = None]
TailAfter_NeverDeleted(r) == sessionLocks

\* The map entry goes only when no later call has become the tail.
TailAfter(r) ==
  IF sessionLocks[key[r]] = r
  THEN [sessionLocks EXCEPT ![key[r]] = None]
  ELSE sessionLocks

\* The finally block, whether fn returned or threw.
Release(r) ==
  /\ stage[r] = "running"
  /\ stage' = [stage EXCEPT ![r] = "released"]
  /\ sessionLocks' = TailAfter(r)
  /\ UNCHANGED <<previous, key, ticket, arrivals>>

LockNext ==
  \E r \in Reqs : (\E k \in Keys : Enter(r, k)) \/ Run(r) \/ Release(r)

LockSpec == LockInit /\ [][LockNext]_lockVars

(***************************************************************************)
(* Properties.                                                             *)
(***************************************************************************)

\* "per-key locking": no two calls with one key are in fn together.
KeyMutex ==
  \A r, s \in Reqs :
    stage[r] = "running" /\ stage[s] = "running" /\ key[r] = key[s] => r = s

\* A call never enters fn while an earlier call with its key still waits
\* (the promise chain is first come, first served).
FirstComeFirstServed ==
  \A r, s \in Reqs :
    /\ Active(r) /\ Active(s) /\ key[r] = key[s]
    /\ ticket[r] < ticket[s]
    => stage[s] = "waiting"

\* The map keeps an entry exactly for the keys with a call in progress: it
\* neither leaks finished chains nor forgets a chain somebody waits on.
ChainKept ==
  \A k \in Keys :
    sessionLocks[k] # None <=> \E r \in Reqs : Active(r) /\ key[r] = k
=============================================================================
