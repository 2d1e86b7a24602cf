------------------------------ MODULE Requests ------------------------------
(***************************************************************************)
(* Requests that a page has under way: a set of records, each with a number *)
(* of its own, so that two that say the same are two.                      *)
(***************************************************************************)
EXTENDS Naturals, FiniteSets

Numbered(requests) == \A r, s \in requests : r.id = s.id => r = s

\* The number of a request that is sent while these are under way.
NewId(requests) == CHOOSE n \in 1..Cardinality(requests) + 1 : \A r \in requests : r.id # n
=============================================================================
