-------------------------- MODULE MCGuardianTables --------------------------
(***************************************************************************)
(* Instance of ReplayGuard and RateLimiter for TLC.  The two tables share  *)
(* the clock and nothing else, so neither can make a difference to what the*)
(* other does: a behaviour fills one of them, after the other was never    *)
(* used.                                                                   *)
(***************************************************************************)
EXTENDS ReplayGuard, RateLimiter, TLC

CONSTANT ReplayTime   \* bound: the clock of a replay guard in use stops there

ReplayUnused == accepted = {}
RateUnused == \A k \in Limited : admitted[k] = <<>>

TablesInit == Init /\ RateInit

TablesTick ==
  /\ ReplayUnused \/ now < ReplayTime
  /\ Advance
  /\ UNCHANGED <<seen, accepted, replayed, buckets, admitted, refused, forgiven>>

TablesNext ==
  \/ /\ RateUnused
     /\ (\E n \in Nonces \cup {NoNonce}, ts \in Stamps : Accept(n, ts)) \/ PruneTimer
     /\ UNCHANGED <<buckets, admitted, refused, forgiven>>
  \/ /\ ReplayUnused
     /\ (\E u \in Users, c \in Channels : Charge(u, c)) \/ PruneBuckets
     /\ UNCHANGED <<seen, accepted, replayed>>
  \/ TablesTick

TablesSpec == TablesInit /\ [][TablesNext]_<<vars, rateVars>>

\* Nonces are only compared for equality, and so are the users that have no
\* channel's key.
Symmetry == {p @@ q : p \in Permutations(Nonces), q \in Permutations(Users \ Channels)}
=============================================================================
