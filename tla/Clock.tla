------------------------------- MODULE Clock -------------------------------
(***************************************************************************)
(* Date.now() of the guardian, which its components share, and the hard    *)
(* cap of its maps.  Every operation reads the clock in a synchronous      *)
(* stretch; it only moves forward.                                         *)
(***************************************************************************)
EXTENDS Integers, FiniteSets

CONSTANT MaxTime   \* bound: the clock stops there

VARIABLE now

Times == 0..MaxTime

Advance == now < MaxTime /\ now' = now + 1

-----------------------------------------------------------------------------
(* The maps with a cap (sessions, nonces, rate limit buckets) sort their    *)
(* entries by a time stamp and delete the first size - cap of them.         *)

\* The key sets that may be left of a map whose entries have the stamps f:
\* no entry deleted is newer than an entry kept.  Which of several entries
\* with one stamp goes depends on the order of insertion, left out here.
HardCap(f, cap) ==
  IF Cardinality(DOMAIN f) <= cap
  THEN {DOMAIN f}
  ELSE {S \in SUBSET DOMAIN f :
          /\ Cardinality(S) = cap
          /\ \A x \in DOMAIN f \ S, y \in S : f[x] <= f[y]}
=============================================================================
