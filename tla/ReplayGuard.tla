---------------------------- MODULE ReplayGuard ----------------------------
(***************************************************************************)
(* Replay detection of the guardian: a message is accepted when its time   *)
(* stamp is within the clock skew and its nonce is not in the cache, which *)
(* is pruned by age and capped in size.                                    *)
(***************************************************************************)
EXTENDS Clock, Functions

CONSTANTS
  Nonces,
  NoNonce,      \* the empty nonce
  CLOCK_SKEW,   \* 300 000 ms
  PruneAt,      \* 10 000 entries: above, an insertion prunes
  maxSize       \* 50 000 entries

ASSUME ReplayAssumption ==
  /\ NoNonce \notin Nonces
  /\ {CLOCK_SKEW, PruneAt, maxSize, MaxTime} \subseteq Nat
  /\ PruneAt <= maxSize

VARIABLES
  seen,         \* the nonces remembered |-> the time stamp they came with
  accepted,     \* the messages accepted, as <<nonce, time stamp>> (history)
  replayed      \* those accepted more than once (history)

vars == <<now, seen, accepted, replayed>>

\* The time stamps a channel may send, its clock being wrong either way.
Stamps == 0..(MaxTime + CLOCK_SKEW)

\* The types; what is remembered of a nonce is the stamp of an accepted message.
TypeOK ==
  /\ now \in Nat
  /\ DOMAIN seen \subseteq Nonces
  /\ accepted \subseteq Nonces \X Stamps
  /\ \A n \in DOMAIN seen : <<n, seen[n]>> \in accepted
  /\ replayed \subseteq accepted

Init ==
  /\ now = 0
  /\ seen = [n \in {} |-> 0]
  /\ accepted = {}
  /\ replayed = {}

\* A bug the cutoff could have: it takes in messages still acceptable.
Unexpired_OffByOne(m) == {n \in DOMAIN m : m[n] > now - CLOCK_SKEW}

Unexpired(m) == {n \in DOMAIN m : m[n] >= now - CLOCK_SKEW}

\* The results pruneNonceCache may have on the map m.
Pruned(m) ==
  {Restrict(m, S) : S \in HardCap(Restrict(m, Unexpired(m)), maxSize)}

Fresh(ts) == now - ts <= CLOCK_SKEW /\ ts - now <= CLOCK_SKEW

Remembered(n, ts) == [x \in DOMAIN seen \cup {n} |-> IF x = n THEN ts ELSE seen[x]]

\* A bug the insertion could have: only the timer prunes.
AfterInsertion_NoPrune(m) == {m}

AfterInsertion(m) == IF Cardinality(DOMAIN m) > PruneAt THEN Pruned(m) ELSE {m}

\* checkNonce returning true; returning false changes nothing.
Accept(n, ts) ==
  /\ n # NoNonce
  /\ Fresh(ts)
  /\ n \notin DOMAIN seen
  /\ seen' \in AfterInsertion(Remembered(n, ts))
  /\ accepted' = accepted \cup {<<n, ts>>}
  /\ replayed' = IF <<n, ts>> \in accepted THEN replayed \cup {<<n, ts>>} ELSE replayed
  /\ UNCHANGED now

\* The timer, every minute.
PruneTimer ==
  /\ seen' \in Pruned(seen)
  /\ UNCHANGED <<now, accepted, replayed>>

Tick ==
  /\ Advance
  /\ UNCHANGED <<seen, accepted, replayed>>

Next ==
  \/ \E n \in Nonces \cup {NoNonce}, ts \in Stamps : Accept(n, ts)
  \/ PruneTimer
  \/ Tick

Spec == Init /\ [][Next]_vars

(***************************************************************************)
(* Properties.                                                             *)
(***************************************************************************)
Newer(p) == {q \in accepted : q # p /\ q[2] >= p[2]}

\* What checkNonce refuses stays refused: a message is accepted a second time
\* only when the hard cap pushed its nonce out, so that maxSize other messages
\* at least as new were accepted.  Age alone, the sender's clock and the pruning
\* never make a message acceptable again.
ReplayNeedsFlood ==
  \A p \in replayed : Cardinality(Newer(p)) >= maxSize

\* "enforces a hard cap of 50,000 nonces", although insertions below PruneAt
\* do not prune.
CacheBounded == Cardinality(DOMAIN seen) <= maxSize

\* The nonce cache remembers only what was accepted, with the stamp it came
\* with, never outgrows its cap, and lets in no message twice but for a flood.
ReplaySound == TypeOK /\ CacheBounded /\ ReplayNeedsFlood
=============================================================================
