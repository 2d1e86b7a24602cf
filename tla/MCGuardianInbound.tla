------------------------- MODULE MCGuardianInbound -------------------------
(***************************************************************************)
(* Instance of GuardianInbound for TLC: a message, another one of the same *)
(* user, from the future, that clears, one signed with another secret,     *)
(* and a malformed one.                                                    *)
(***************************************************************************)
EXTENDS GuardianInbound, TLC

CONSTANTS s1, s2, u1, u2, n1, n2

Ask == [wellFormed |-> TRUE, user |-> u1, nonce |-> n1, ts |-> 0, key |-> s1, clear |-> FALSE]
Clear == [Ask EXCEPT !.nonce = n2, !.ts = 2, !.clear = TRUE]
Other == [Ask EXCEPT !.user = u2, !.nonce = n2, !.key = s2]
Bad == [Ask EXCEPT !.wellFormed = FALSE]

MCMessages == {Ask, Clear, Other, Bad}

\* Requests are only compared for equality.
Symmetry == Permutations(Requests)
=============================================================================
