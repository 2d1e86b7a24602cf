------------------------ MODULE MCSessionForwarding ------------------------
(***************************************************************************)
(* Instances of SessionForwarding for TLC.                                 *)
(***************************************************************************)
EXTENDS SessionForwarding

\* The requests that are not clears, the sessions and the keys are
\* interchangeable: nothing compares them but for equality.
Symmetry ==
  Permutations(Reqs \ Clears) \cup Permutations(Clears)
    \cup Permutations(Sids) \cup Permutations(Keys)

\* The conversation whose calls the assistant answers; the other may hang.
CONSTANT Watched

LiveSpec == Spec /\ KeyFairness(Watched)

\* Liveness of the conversation Watched alone: a request of it that arrived is
\* completed although the other conversation may hang in the assistant.
WatchedCompletes == KeyCompletes(Watched)
=============================================================================
