------------------------- MODULE ConversationQueue -------------------------
(***************************************************************************)
(* The queue the Slack and the Discord channel put in front of the         *)
(* guardian: per session one task runs, the others wait in order, a clear  *)
(* drops those waiting, and a task that fails must not stop the next.      *)
(* Every action is one uninterrupted stretch of the event loop: drain, for *)
(* one, starts the next task in the stretch that ended the one before.     *)
(***************************************************************************)
EXTENDS Integers, Sequences, FiniteSets, Functions

CONSTANTS Keys, Tasks

VARIABLES
  states,    \* session key |-> [processing, queue], for the keys in the map
  phase,     \* what has become of each task
  key,       \* the session key each task comes with
  arrivals,  \* how many tasks have come (history)
  ticket     \* the order in which each came (history)

queueVars == <<states, phase, key, arrivals, ticket>>

Phases == {"new", "queued", "running", "done", "dropped"}

QueueTypeOK ==
  /\ DOMAIN states \subseteq Keys
  /\ \A k \in DOMAIN states : states[k] \in [processing : BOOLEAN, queue : Seq(Tasks)]
  /\ phase \in [Tasks -> Phases]
  /\ key \in [Tasks -> Keys]
  /\ arrivals \in Nat
  /\ ticket \in [Tasks -> Nat]

QueueInit ==
  /\ states = [k \in {} |-> [processing |-> FALSE, queue |-> <<>>]]
  /\ phase = [t \in Tasks |-> "new"]
  /\ key \in [Tasks -> Keys]
  /\ arrivals = 0
  /\ ticket = [t \in Tasks |-> 0]

-----------------------------------------------------------------------------
(* The map of states: set, delete, and what the readers see.               *)

Put(k, s) == [x \in DOMAIN states \cup {k} |-> IF x = k THEN s ELSE states[x]]
Drop(k) == Restrict(states, DOMAIN states \ {k})

isProcessing(k) == k \in DOMAIN states /\ states[k].processing
Waiting(k) == IF k \in DOMAIN states THEN states[k].queue ELSE <<>>

-----------------------------------------------------------------------------
(* The operations.                                                         *)

Comes(t) ==
  /\ phase[t] = "new"
  /\ arrivals' = arrivals + 1
  /\ ticket' = [ticket EXCEPT ![t] = arrivals + 1]
  /\ UNCHANGED key

Pushed(k, t) == Append(Waiting(k), t)

\* runOrQueue finds the session busy; the notice that follows is best-effort.
Queue(t) ==
  /\ Comes(t)
  /\ isProcessing(key[t])
  /\ states' = Put(key[t], [processing |-> TRUE, queue |-> Pushed(key[t], t)])
  /\ phase' = [phase EXCEPT ![t] = "queued"]

\* runOrQueue finds it idle.
Start(t) ==
  /\ Comes(t)
  /\ ~isProcessing(key[t])
  /\ states' = Put(key[t], [processing |-> TRUE, queue |-> Waiting(key[t])])
  /\ phase' = [phase EXCEPT ![t] = "running"]

\* A bug: a task that throws leaves the queue alone.
Drains_UnlessFailed(k, failed) == Waiting(k) # <<>> /\ ~failed

Drains(k, failed) == Waiting(k) # <<>>

Idle(k) == Drop(k)

\* The running task resolves or throws; in either case the next one starts, or
\* the session leaves the map.
End(t, failed) ==
  LET k == key[t]  q == Waiting(k) IN
  /\ phase[t] = "running"
  /\ \/ /\ Drains(k, failed)
        /\ states' = Put(k, [processing |-> TRUE, queue |-> Tail(q)])
        /\ phase' = [phase EXCEPT ![t] = "done", ![Head(q)] = "running"]
     \/ /\ ~Drains(k, failed)
        /\ states' = Idle(k)
        /\ phase' = [phase EXCEPT ![t] = "done"]
  /\ UNCHANGED <<key, arrivals, ticket>>

\* A bug clear could have: the session is forgotten while its task runs.
Cleared_Forgotten(k) == Drop(k)

\* What clear leaves of a session in the map.
Cleared(k) == IF states[k].processing THEN Put(k, [processing |-> TRUE, queue |-> <<>>]) ELSE Drop(k)

clear(k) ==
  /\ k \in DOMAIN states
  /\ states' = Cleared(k)
  /\ phase' = [t \in Tasks |-> IF \E i \in DOMAIN Waiting(k) : Waiting(k)[i] = t
                               THEN "dropped" ELSE phase[t]]
  /\ UNCHANGED <<key, arrivals, ticket>>

QueueNext ==
  \/ \E t \in Tasks : Queue(t) \/ Start(t)
  \/ \E t \in Tasks, failed \in BOOLEAN : End(t, failed)
  \/ \E k \in Keys : clear(k)

QueueSpec == QueueInit /\ [][QueueNext]_queueVars

\* Every running task ends: the guardian answers it or refuses, which the time
\* limit of the request, if one is configured, enforces.
QueueFairness == \A t \in Tasks : WF_queueVars(\E failed \in BOOLEAN : End(t, failed))

LiveQueueSpec == QueueSpec /\ QueueFairness

(***************************************************************************)
(* Properties.                                                             *)
(***************************************************************************)
Running(k) == {t \in Tasks : phase[t] = "running" /\ key[t] = k}

\* "Runs queued work sequentially": two tasks of one session never run
\* together, and a task only runs when every task of its session that came
\* before it is done or was dropped.
ServedInTurn ==
  \A t, u \in Tasks :
    /\ key[t] = key[u]
    /\ phase[t] # "new" /\ phase[u] \in {"running", "done"}
    /\ ticket[t] < ticket[u]
    => phase[t] \in {"done", "dropped"}

\* The map is exact: a session is in it, and marked processing, just while one
\* of its tasks runs; it neither leaks sessions nor forgets a busy one, and
\* what waits there are the tasks that wait.
MapExact ==
  /\ \A k \in Keys : k \in DOMAIN states <=> Running(k) # {}
  /\ \A k \in DOMAIN states : states[k].processing
  /\ \A t \in Tasks : phase[t] = "queued" <=> \E i \in DOMAIN Waiting(key[t]) : Waiting(key[t])[i] = t

\* A queued task is run or dropped, whether the tasks before it fail or not.
QueuedIsServed ==
  \A t \in Tasks : phase[t] = "queued" ~> phase[t] \in {"running", "dropped"}
=============================================================================
