---------------------------- MODULE RateLimiter ----------------------------
(***************************************************************************)
(* The fixed-window rate limiter of the guardian, as its handler uses it:  *)
(* a message is charged to its user and, if the user may, to its channel.  *)
(* Users and channels have limits of their own but share one table, and a  *)
(* user may have the key of a channel.  The table is pruned by a timer and *)
(* when it has grown too large.                                            *)
(***************************************************************************)
EXTENDS Clock, Sequences, Functions, FiniteSetsExt

CONSTANTS
  Users,                  \* the ids of users, any text, and
  Channels,               \* the keys of channels, "ch:" and the name
  USER_RATE_LIMIT,        \* 120
  USER_RATE_WINDOW_MS,    \* 60 000
  CHANNEL_RATE_LIMIT,     \* 200
  CHANNEL_RATE_WINDOW_MS, \* 60 000
  MAX_BUCKETS             \* 10 000

Limited == Users \cup Channels

ASSUME RateAssumption ==
  /\ {USER_RATE_LIMIT, CHANNEL_RATE_LIMIT, MAX_BUCKETS} \subseteq Nat \ {0}
  /\ {USER_RATE_WINDOW_MS, CHANNEL_RATE_WINDOW_MS, MaxTime} \subseteq Nat

VARIABLES
  buckets,    \* key |-> [count, start]
  admitted,   \* per key the times allow() let it through, in order (history)
  refused,    \* the keys, limits and times it did not (history)
  forgiven    \* the keys that lost a running bucket to the cap (history)

rateVars == <<now, buckets, admitted, refused, forgiven>>

\* What allow() is called with for a user, and for a channel.
UserLimit == [limit |-> USER_RATE_LIMIT, windowMs |-> USER_RATE_WINDOW_MS]
ChannelLimit == [limit |-> CHANNEL_RATE_LIMIT, windowMs |-> CHANNEL_RATE_WINDOW_MS]

\* The limits a key is held to: two, if a user has the key of a channel.
LimitsOf(k) == (IF k \in Users THEN {UserLimit} ELSE {}) \cup (IF k \in Channels THEN {ChannelLimit} ELSE {})
limit(k) == Max({l.limit : l \in LimitsOf(k)})
shortestMs(k) == Min({l.windowMs : l \in LimitsOf(k)})
longestMs(k) == Max({l.windowMs : l \in LimitsOf(k)})

RateTypeOK ==
  /\ now \in Times
  /\ DOMAIN buckets \subseteq Limited
  /\ \A k \in DOMAIN buckets : buckets[k] \in [count : 1..limit(k), start : 0..now]
  /\ admitted \in [Limited -> Seq(0..now)]
  /\ refused \subseteq Limited \X {UserLimit, ChannelLimit} \X (0..now)
  /\ forgiven \subseteq Limited

RateInit ==
  /\ now = 0
  /\ buckets = [k \in {} |-> [count |-> 0, start |-> 0]]
  /\ admitted = [k \in Limited |-> <<>>]
  /\ refused = {}
  /\ forgiven = {}

\* A bug the threshold could have: it forgets that users have another window.
ExpiryWindow_Channel == CHANNEL_RATE_WINDOW_MS

ExpiryWindow == Max({USER_RATE_WINDOW_MS, CHANNEL_RATE_WINDOW_MS})

UnexpiredBuckets(m) == {k \in DOMAIN m : now - m[k].start <= ExpiryWindow}

\* The results pruneRateLimitBuckets may have on the map m.
PrunedBuckets(m) ==
  {Restrict(m, S) : S \in HardCap([k \in UnexpiredBuckets(m) |-> m[k].start], MAX_BUCKETS)}

\* Bugs: allow() leaves the pruning to the timer; a window never ends.
BeforeInsertion_NoPrune(m) == {m}
InWindow_Forever(m, k, windowMs) == k \in DOMAIN m

BeforeInsertion(m) == IF Cardinality(DOMAIN m) > MAX_BUCKETS THEN PrunedBuckets(m) ELSE {m}

InWindow(m, k, windowMs) == k \in DOMAIN m /\ now - m[k].start <= windowMs

Full(m, k, l) == InWindow(m, k, l.windowMs) /\ m[k].count >= l.limit

Counted(m, k, windowMs) ==
  [x \in DOMAIN m \cup {k} |->
     IF x # k THEN m[x]
     ELSE IF InWindow(m, k, windowMs) THEN [m[k] EXCEPT !.count = @ + 1]
     ELSE [count |-> 1, start |-> now]]

\* The running buckets of m that the pruned map p lost.
Lost(m, p) == {k \in DOMAIN m : InWindow(m, k, longestMs(k))} \ DOMAIN p

\* What allow() may return for k and its limit l, the map it leaves and the
\* buckets it lost.
Allowed(m, k, l) ==
  {IF Full(p, k, l)
   THEN [granted |-> FALSE, left |-> p, lost |-> Lost(m, p)]
   ELSE [granted |-> TRUE, left |-> Counted(p, k, l.windowMs), lost |-> Lost(m, p)]
     : p \in BeforeInsertion(m)}

\* What the handler's allow(user) && allow(channel) may come to.
Charged(m, u, c) ==
  UNION {IF a.granted THEN Allowed(a.left, c, ChannelLimit) ELSE {a} : a \in Allowed(m, u, UserLimit)}

\* The histories follow a key until the cap takes a running bucket from it.
Admit(f, k) == IF k \in forgiven' THEN f ELSE [f EXCEPT ![k] = Append(@, now)]

Refuse(k, l) == IF k \in forgiven' THEN refused ELSE refused \cup {<<k, l, now>>}

\* The handler's allow(user) && allow(channel).
Charge(u, c) ==
  \E a \in Allowed(buckets, u, UserLimit) :
    IF ~a.granted
    THEN /\ buckets' = a.left
         /\ forgiven' = forgiven \cup a.lost
         /\ refused' = Refuse(u, UserLimit)
         /\ UNCHANGED <<now, admitted>>
    ELSE \E b \in Allowed(a.left, c, ChannelLimit) :
           /\ buckets' = b.left
           /\ forgiven' = forgiven \cup a.lost \cup b.lost
           /\ refused' = IF b.granted THEN refused ELSE Refuse(c, ChannelLimit)
           /\ admitted' = IF b.granted THEN Admit(Admit(admitted, u), c) ELSE Admit(admitted, u)
           /\ UNCHANGED now

PruneBuckets ==
  /\ buckets' \in PrunedBuckets(buckets)
  /\ forgiven' = forgiven \cup Lost(buckets, buckets')
  /\ UNCHANGED <<now, admitted, refused>>

RateTick ==
  /\ Advance
  /\ UNCHANGED <<buckets, admitted, refused, forgiven>>

RateNext ==
  \/ \E u \in Users, c \in Channels : Charge(u, c)
  \/ PruneBuckets
  \/ RateTick

RateSpec == RateInit /\ [][RateNext]_rateVars

(***************************************************************************)
(* Properties.                                                             *)
(***************************************************************************)
\* The source speaks of a "2x burst": it is one less.  Of twice its limit of admissions
\* in a row, the first and the last are more than a window apart, wherever the windows
\* fall, unless the cap took the key's bucket away.  (A user with the key of a channel
\* gets the larger of the two limits, in the shorter of the two windows.)
BurstBounded ==
  \A k \in Limited \ forgiven : \A i, j \in DOMAIN admitted[k] :
    j = i + 2 * limit(k) - 1 => admitted[k][j] - admitted[k][i] > shortestMs(k)

\* Nobody is refused for what was long ago, or for what another key did: a key
\* refused by a limit, and never forgiven, got through that often in the window of
\* that limit.
RefusedOnlyAtLimit ==
  \A r \in refused : \E i, j \in DOMAIN admitted[r[1]] :
    /\ j = i + r[2].limit - 1
    /\ r[3] - r[2].windowMs <= admitted[r[1]][i] /\ admitted[r[1]][j] <= r[3]

\* The table holds one bucket more than its cap at most: allow() prunes before
\* it inserts.
TableBounded == Cardinality(DOMAIN buckets) <= MAX_BUCKETS + 1

\* The limit is a limit and nothing more: no burst of twice of it, no
\* refusal below it, no bucket that counts past it or starts in the future, and a
\* table within one bucket of its cap.
LimitHolds == RateTypeOK /\ TableBounded /\ BurstBounded /\ RefusedOnlyAtLimit

\* Every step leaves the limit intact; and a running bucket is lost, and its key's
\* count forgiven, only when at least MAX_BUCKETS buckets are not yet expired.
LimitKept ==
  [][/\ LimitHolds'
     /\ forgiven' # forgiven => Cardinality(UnexpiredBuckets(buckets)) >= MAX_BUCKETS]_rateVars
=============================================================================
