--------------------------- MODULE SerialSessions ---------------------------
(***************************************************************************)
(* What the guardian's forwarder promises its callers, without caches,     *)
(* lists, locks or failures of single calls: the requests of one           *)
(* conversation are completed one at a time in the order they arrived, each*)
(* with one outcome that stands, and an answer comes from a session that   *)
(* belongs to the conversation for good.                                   *)
(***************************************************************************)
EXTENDS Naturals, Sequences

CONSTANTS Reqs, Keys, Clears, Sids, None

VARIABLES
  queue,     \* per conversation, the requests not completed yet
  outcome,   \* per request: "none", a session, "cleared" or "unavailable"
  owner      \* per session, its conversation, or None before it exists

vars == <<queue, outcome, owner>>

Init ==
  /\ queue = [k \in Keys |-> <<>>]
  /\ outcome = [r \in Reqs |-> "none"]
  /\ owner \in [Sids -> Keys \cup {None}]

Submit(r, k) ==
  /\ outcome[r] = "none"
  /\ \A l \in Keys : \A i \in DOMAIN queue[l] : queue[l][i] # r
  /\ queue' = [queue EXCEPT ![k] = Append(@, r)]
  /\ UNCHANGED <<outcome, owner>>

Outcomes(r, k) ==
  {"unavailable"} \cup
  IF r \in Clears THEN {"cleared"} ELSE {s \in Sids : owner[s] = k}

Complete(k) ==
  /\ queue[k] # <<>>
  /\ \E o \in Outcomes(Head(queue[k]), k) :
       outcome' = [outcome EXCEPT ![Head(queue[k])] = o]
  /\ queue' = [queue EXCEPT ![k] = Tail(@)]
  /\ UNCHANGED owner

SessionAppears(s, k) ==
  /\ owner[s] = None
  /\ owner' = [owner EXCEPT ![s] = k]
  /\ UNCHANGED <<queue, outcome>>

Next ==
  \/ \E r \in Reqs, k \in Keys : Submit(r, k)
  \/ \E k \in Keys : Complete(k)
  \/ \E s \in Sids, k \in Keys : SessionAppears(s, k)

Spec == Init /\ [][Next]_vars
=============================================================================
