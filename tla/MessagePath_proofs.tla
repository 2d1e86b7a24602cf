------------------------ MODULE MessagePath_proofs ------------------------
(***************************************************************************)
(* What a message meets on its way, for every value of the constants: the  *)
(* replay guard keeps its bound, and only a flood past the hard cap lets a *)
(* message in twice; the rate limiter lets less than twice its limit       *)
(* through in a window and refuses nobody below it; and the Discord        *)
(* channel asks the guardian once for a message it remembers, in the order *)
(* the messages of a conversation came, and leaves one conversation behind *)
(* a /clear.                                                               *)
(***************************************************************************)
EXTENDS ReplayGuard, RateLimiter, DiscordChannel, Queue_proofs

(**************************************************************************)
(* The replay guard.                                                      *)
(**************************************************************************)
NewerIn(A, p) == {q \in A : q # p /\ q[2] >= p[2]}

\* The messages of A still acceptable are remembered in m, or flooded out.
Guards(m, A) ==
  \A p \in A : now - p[2] <= CLOCK_SKEW =>
    \/ p[1] \in DOMAIN m /\ m[p[1]] = p[2]
    \/ Cardinality(NewerIn(A, p)) >= maxSize

\* m is a map of nonces to the stamps they have in the messages A.
Remembers(m, A) ==
  /\ DOMAIN m \subseteq Nonces
  /\ IsFiniteSet(DOMAIN m)
  /\ \A n \in DOMAIN m : <<n, m[n]>> \in A

GuardInv ==
  /\ TypeOK
  /\ IsFiniteSet(accepted)
  /\ Remembers(seen, accepted)
  /\ Guards(seen, accepted)
  /\ CacheBounded
  /\ ReplayNeedsFlood

(***************************************************************************)
(* Lemmas on the pruning.                                                  *)
(***************************************************************************)
\* What the hard cap leaves of the unexpired entries U of a map.
LEMMA CapKeeps ==
  ASSUME NEW m, NEW U, U \subseteq DOMAIN m, IsFiniteSet(DOMAIN m), maxSize \in Nat,
         NEW S \in HardCap(Restrict(m, U), maxSize)
  PROVE  /\ S \subseteq U
         /\ IsFiniteSet(S)
         /\ Cardinality(S) <= maxSize
         /\ \A x \in U \ S : Cardinality(S) = maxSize /\ \A y \in S : m[x] <= m[y]
<1> DEFINE f == Restrict(m, U)
<1>1. DOMAIN f = U /\ \A x \in U : f[x] = m[x]
  BY DEF Restrict
<1>2. IsFiniteSet(U) /\ Cardinality(U) \in Nat
  BY FS_Subset, FS_CardinalityType
<1> HIDE DEF f
<1>3. S \in HardCap(f, maxSize)
  BY DEF f
<1>4. CASE Cardinality(U) <= maxSize
  <2>1. S = U
    BY <1>1, <1>3, <1>4 DEF HardCap
  <2> QED BY <2>1, <1>2, <1>4
<1>5. CASE ~(Cardinality(U) <= maxSize)
  <2>1. S \in SUBSET U /\ Cardinality(S) = maxSize /\ \A x \in U \ S, y \in S : f[x] <= f[y]
    BY <1>1, <1>3, <1>5 DEF HardCap
  <2>2. IsFiniteSet(S)
    BY <2>1, <1>2, FS_Subset
  <2> QED BY <2>1, <2>2, <1>1
<1> QED BY <1>4, <1>5

\* Entries of a map, each the nonce and stamp of a message of A no older than
\* p and different from it, are at most as many as the messages newer than p.
LEMMA EntriesAreMessages ==
  ASSUME NEW m, NEW A, IsFiniteSet(A), NEW p, NEW S, IsFiniteSet(S),
         \A y \in S : <<y, m[y]>> \in A /\ <<y, m[y]>> # p /\ m[y] >= p[2]
  PROVE  Cardinality(S) <= Cardinality(NewerIn(A, p))
<1> DEFINE g == [y \in S |-> <<y, m[y]>>]
           T == NewerIn(A, p)
<1>1. \A y \in S : g[y] \in T
  BY DEF NewerIn
<1>2. \A y, z \in S : g[y] = g[z] => y = z
  OBVIOUS
<1>3. g \in Injection(S, T)
  BY <1>1, <1>2 DEF Injection, IsInjective
<1>4. IsFiniteSet(T)
  BY FS_Subset DEF NewerIn
<1> HIDE DEF g, T
<1>5. Cardinality(S) <= Cardinality(T)
  BY <1>3, <1>4, FS_Injection
<1> QED BY <1>5 DEF T

\* Pruning keeps every acceptable message refused, unless the hard cap bites,
\* and then maxSize messages at least as new remain.
LEMMA PruningGuards ==
  ASSUME ReplayAssumption, now \in Nat, NEW A \in SUBSET (Nonces \X Stamps), IsFiniteSet(A),
         NEW m, Remembers(m, A), Guards(m, A), NEW r \in Pruned(m)
  PROVE  Remembers(r, A) /\ Guards(r, A) /\ Cardinality(DOMAIN r) <= maxSize
<1> DEFINE U == Unexpired(m)
<1>1. maxSize \in Nat /\ CLOCK_SKEW \in Nat /\ Stamps \subseteq Int
  BY DEF ReplayAssumption, Stamps
<1>2. U \subseteq DOMAIN m
  BY DEF Unexpired
<1>3. PICK S \in HardCap(Restrict(m, U), maxSize) : r = Restrict(m, S)
  BY DEF Pruned
<1>4. IsFiniteSet(DOMAIN m)
  BY DEF Remembers
<1>5. /\ S \subseteq U
      /\ IsFiniteSet(S)
      /\ Cardinality(S) <= maxSize
      /\ \A x \in U \ S : Cardinality(S) = maxSize /\ \A y \in S : m[x] <= m[y]
  BY <1>1, <1>2, <1>3, <1>4, CapKeeps
<1>6. DOMAIN r = S /\ \A n \in S : r[n] = m[n]
  BY <1>3 DEF Restrict
<1>7. \A n \in DOMAIN m : <<n, m[n]>> \in A
  BY DEF Remembers
<1>8. Remembers(r, A)
  BY <1>2, <1>5, <1>6, <1>7 DEF Remembers
<1>9. Guards(r, A)
  <2> SUFFICES ASSUME NEW p \in A, now - p[2] <= CLOCK_SKEW,
                      ~(p[1] \in DOMAIN r /\ r[p[1]] = p[2]),
                      ~(Cardinality(NewerIn(A, p)) >= maxSize)
               PROVE  FALSE
    BY DEF Guards
  <2> DEFINE x == p[1]
  <2>1. p = <<p[1], p[2]>> /\ p[2] \in Int
    <3>1. PICK n \in Nonces, t \in Stamps : p = <<n, t>>
      OBVIOUS
    <3> QED BY <1>1, <3>1
  <2>2. x \in DOMAIN m /\ m[x] = p[2]
    BY DEF Guards
  <2>3. x \in U
    BY <2>1, <2>2, <1>1 DEF Unexpired
  <2>4. x \notin S
    BY <1>6, <2>2
  <2>5. Cardinality(S) = maxSize /\ \A y \in S : m[x] <= m[y]
    BY <1>5, <2>3, <2>4
  <2>6. ASSUME NEW y \in S PROVE <<y, m[y]>> \in A /\ <<y, m[y]>> # p /\ m[y] >= p[2]
    <3>1. y \in DOMAIN m /\ m[x] <= m[y] /\ y # x
      BY <1>2, <1>5, <2>4, <2>5
    <3>2. <<y, m[y]>> \in A /\ m[y] \in Int
      BY <3>1, <1>1, <1>7
    <3>3. <<y, m[y]>> # p
      BY <2>1, <3>1
    <3> QED BY <2>1, <2>2, <3>1, <3>2, <3>3
  <2>7. Cardinality(S) <= Cardinality(NewerIn(A, p))
    BY <1>5, <2>6, EntriesAreMessages
  <2>8. Cardinality(NewerIn(A, p)) \in Nat
    BY FS_Subset, FS_CardinalityType DEF NewerIn
  <2> QED BY <1>1, <2>5, <2>7, <2>8
<1> QED BY <1>5, <1>6, <1>8, <1>9

\* A growing history only adds newer messages.
LEMMA NewerGrows ==
  ASSUME NEW A, NEW B, A \subseteq B, IsFiniteSet(B), NEW p
  PROVE  /\ Cardinality(NewerIn(A, p)) \in Nat
         /\ Cardinality(NewerIn(B, p)) \in Nat
         /\ Cardinality(NewerIn(A, p)) <= Cardinality(NewerIn(B, p))
<1>1. IsFiniteSet(NewerIn(B, p)) /\ NewerIn(A, p) \subseteq NewerIn(B, p)
  BY FS_Subset DEF NewerIn
<1> QED BY <1>1, FS_Subset, FS_CardinalityType

(***************************************************************************)
(* Initial states and steps.                                               *)
(***************************************************************************)
LEMMA GuardInit == ASSUME ReplayAssumption, Init PROVE GuardInv
<1>1. IsFiniteSet({}) /\ Cardinality({}) = 0
  BY FS_EmptySet
<1>2. DOMAIN seen = {} /\ accepted = {} /\ replayed = {} /\ now = 0
  BY DEF Init
<1>3. maxSize \in Nat
  BY DEF ReplayAssumption
<1>4. Remembers(seen, accepted) /\ Guards(seen, accepted)
  BY <1>1, <1>2 DEF Remembers, Guards
<1> QED BY <1>1, <1>2, <1>3, <1>4 DEF GuardInv, TypeOK, CacheBounded, ReplayNeedsFlood

\* An accepted message is remembered, and if it was accepted before, the nonce
\* had been flooded out.
LEMMA AcceptKeeps ==
  ASSUME ReplayAssumption, GuardInv,
         NEW n \in Nonces \cup {NoNonce}, NEW ts \in Stamps, Accept(n, ts)
  PROVE  GuardInv'
<1> DEFINE p == <<n, ts>>
           B == accepted \cup {p}
           m == Remembered(n, ts)
<1> USE DEF GuardInv
<1>1. /\ n \in Nonces
      /\ n \notin DOMAIN seen
      /\ now - ts <= CLOCK_SKEW
      /\ seen' \in AfterInsertion(m)
      /\ accepted' = B
      /\ replayed' = IF p \in accepted THEN replayed \cup {p} ELSE replayed
      /\ now' = now
  BY DEF Accept, Fresh
<1>2. maxSize \in Nat /\ PruneAt \in Nat /\ PruneAt <= maxSize
  BY DEF ReplayAssumption
<1>3. now \in Nat /\ accepted \subseteq Nonces \X Stamps /\ replayed \subseteq accepted
  BY DEF TypeOK
<1>4. B \in SUBSET (Nonces \X Stamps) /\ IsFiniteSet(B)
  BY <1>1, <1>3, FS_AddElement
<1>5. DOMAIN m = DOMAIN seen \cup {n} /\ m[n] = ts /\ \A x \in DOMAIN seen : m[x] = seen[x]
  BY <1>1 DEF Remembered
<1>6. Remembers(m, B)
  <2>1. IsFiniteSet(DOMAIN m)
    BY <1>5, FS_AddElement DEF Remembers
  <2>2. ASSUME NEW x \in DOMAIN m PROVE <<x, m[x]>> \in B
    BY <1>5 DEF Remembers
  <2> HIDE DEF m, B
  <2> QED BY <1>1, <1>5, <2>1, <2>2 DEF Remembers
<1>7. Guards(m, B)
  <2> SUFFICES ASSUME NEW q \in B, now - q[2] <= CLOCK_SKEW
               PROVE  (q[1] \in DOMAIN m /\ m[q[1]] = q[2]) \/ Cardinality(NewerIn(B, q)) >= maxSize
    BY DEF Guards
  <2>1. CASE q = p
    BY <2>1, <1>5
  <2>2. CASE q \in accepted /\ q[1] \in DOMAIN seen /\ seen[q[1]] = q[2]
    BY <2>2, <1>5
  <2>3. CASE q \in accepted /\ Cardinality(NewerIn(accepted, q)) >= maxSize
    <3>1. accepted \subseteq B
      OBVIOUS
    <3> HIDE DEF B, m
    <3> QED BY <2>3, <3>1, <1>2, <1>4, NewerGrows
  <2> QED BY <2>1, <2>2, <2>3 DEF Guards
<1> HIDE DEF m
<1>8. Remembers(seen', B) /\ Guards(seen', B) /\ Cardinality(DOMAIN seen') <= maxSize
  <2>1. CASE Cardinality(DOMAIN m) > PruneAt
    <3>1. seen' \in Pruned(m)
      BY <1>1, <2>1 DEF AfterInsertion
    <3> HIDE DEF B
    <3> QED BY <3>1, <1>3, <1>4, <1>6, <1>7, PruningGuards
  <2>2. CASE ~(Cardinality(DOMAIN m) > PruneAt)
    <3>1. seen' = m
      BY <1>1, <2>2 DEF AfterInsertion
    <3>2. Cardinality(DOMAIN m) \in Nat
      BY <1>6, FS_CardinalityType DEF Remembers
    <3> QED BY <3>1, <3>2, <2>2, <1>2, <1>6, <1>7
  <2> QED BY <2>1, <2>2
<1>9. ASSUME NEW q \in replayed' PROVE Cardinality(NewerIn(B, q)) >= maxSize
  <2>1. accepted \subseteq B
    OBVIOUS
  <2>2. CASE q \in replayed
    <3>1. Cardinality(NewerIn(accepted, q)) >= maxSize
      BY <2>2 DEF ReplayNeedsFlood, Newer, NewerIn
    <3> HIDE DEF B
    <3> QED BY <3>1, <2>1, <1>2, <1>4, NewerGrows
  <2>3. CASE q = p /\ p \in accepted
    <3>1. Cardinality(NewerIn(accepted, q)) >= maxSize
      BY <2>3, <1>1 DEF Guards
    <3> HIDE DEF B
    <3> QED BY <3>1, <2>1, <1>2, <1>4, NewerGrows
  <2> QED BY <2>2, <2>3, <1>1
<1>10. Guards(seen, accepted)' /\ Remembers(seen, accepted)'
  BY <1>1, <1>8 DEF Guards, Remembers, NewerIn
<1>11. ReplayNeedsFlood'
  BY <1>1, <1>9 DEF ReplayNeedsFlood, Newer, NewerIn
<1>12. TypeOK'
  BY <1>1, <1>3, <1>4, <1>8 DEF TypeOK, Remembers
<1> QED BY <1>1, <1>4, <1>8, <1>10, <1>11, <1>12 DEF CacheBounded

LEMMA PruneKeeps == ASSUME ReplayAssumption, GuardInv, PruneTimer PROVE GuardInv'
<1> USE DEF GuardInv
<1>1. seen' \in Pruned(seen) /\ accepted' = accepted /\ replayed' = replayed /\ now' = now
  BY DEF PruneTimer
<1>2. now \in Nat /\ accepted \in SUBSET (Nonces \X Stamps)
  BY DEF TypeOK
<1>3. Remembers(seen', accepted) /\ Guards(seen', accepted) /\ Cardinality(DOMAIN seen') <= maxSize
  BY <1>1, <1>2, PruningGuards
<1>4. Remembers(seen, accepted)' /\ Guards(seen, accepted)'
  BY <1>1, <1>3 DEF Remembers, Guards, NewerIn
<1>5. ReplayNeedsFlood'
  BY <1>1 DEF ReplayNeedsFlood, Newer
<1>6. TypeOK'
  BY <1>1, <1>3 DEF TypeOK, Remembers
<1> QED BY <1>1, <1>3, <1>4, <1>5, <1>6 DEF CacheBounded

\* As time passes fewer messages are acceptable.
LEMMA TickKeeps == ASSUME ReplayAssumption, GuardInv, Tick PROVE GuardInv'
<1> USE DEF GuardInv
<1>1. now' = now + 1 /\ seen' = seen /\ accepted' = accepted /\ replayed' = replayed
  BY DEF Tick, Advance
<1>2. now \in Nat /\ now' \in Nat /\ CLOCK_SKEW \in Nat
  BY <1>1 DEF TypeOK, ReplayAssumption
<1>3. ASSUME NEW p \in accepted, now' - p[2] <= CLOCK_SKEW PROVE now - p[2] <= CLOCK_SKEW
  <2>1. PICK n \in Nonces, t \in Stamps : p = <<n, t>>
    BY DEF TypeOK
  <2>2. p[2] \in Int
    BY <2>1 DEF Stamps
  <2> QED BY <2>2, <1>1, <1>2, <1>3
<1>4. Guards(seen, accepted)'
  <2> SUFFICES ASSUME NEW p \in accepted, now' - p[2] <= CLOCK_SKEW
               PROVE  (p[1] \in DOMAIN seen /\ seen[p[1]] = p[2]) \/ Cardinality(NewerIn(accepted, p)) >= maxSize
    BY <1>1 DEF Guards, NewerIn
  <2> QED BY <1>3 DEF Guards
<1>5. Remembers(seen, accepted)' /\ CacheBounded' /\ ReplayNeedsFlood'
  BY <1>1 DEF Remembers, CacheBounded, ReplayNeedsFlood, Newer
<1> QED BY <1>1, <1>2, <1>4, <1>5 DEF TypeOK

(***************************************************************************)
(* Theorems.                                                               *)
(***************************************************************************)
\* Every reachable state of the guard satisfies GuardInv: what can still be
\* accepted is remembered or was flooded out.
THEOREM GuardInvariant == ASSUME ReplayAssumption PROVE Spec => []GuardInv
<1>1. Init => GuardInv
  BY GuardInit
<1>2. GuardInv /\ [Next]_vars => GuardInv'
  <2> SUFFICES ASSUME GuardInv, [Next]_vars PROVE GuardInv'
    OBVIOUS
  <2>1. ASSUME NEW n \in Nonces \cup {NoNonce}, NEW ts \in Stamps, Accept(n, ts) PROVE GuardInv'
    BY <2>1, AcceptKeeps
  <2>2. CASE PruneTimer
    BY <2>2, PruneKeeps
  <2>3. CASE Tick
    BY <2>3, TickKeeps
  <2>4. CASE UNCHANGED vars
    BY <2>4 DEF vars, GuardInv, TypeOK, Remembers, Guards, CacheBounded, ReplayNeedsFlood, Newer, NewerIn
  <2> QED BY <2>1, <2>2, <2>3, <2>4 DEF Next
<1> QED BY <1>1, <1>2, PTL DEF Spec

\* The nonce cache is well typed, remembers only accepted messages and keeps to
\* its cap; checkNonce lets a message in twice only after maxSize messages at
\* least as new.
THEOREM ReplayIsSound == ASSUME ReplayAssumption PROVE Spec => []ReplaySound
<1>1. GuardInv => ReplaySound
  BY DEF GuardInv, ReplaySound
<1> QED BY <1>1, GuardInvariant, PTL

(***************************************************************************)
(* The rate limiter.                                                       *)
(***************************************************************************)
\* What is known of a key with the admissions a, in the map m.  A bucket that counts has
\* the last admissions of its key, from its start on; and all but less than a limit of
\* the others were more than a window before that start, or, where there is no bucket,
\* before now.  (Of a key with two limits, the larger limit and the shorter window.)
Fits(m, k, a) ==
  /\ a \in Seq(0..now)
  /\ \A i, j \in 1..Len(a) : i <= j => a[i] <= a[j]
  /\ IF k \in DOMAIN m
     THEN /\ m[k].count <= Len(a) /\ a[Len(a) - m[k].count + 1] = m[k].start
          /\ limit(k) <= Len(a) - m[k].count => a[Len(a) - m[k].count - limit(k) + 1] + shortestMs(k) < m[k].start
     ELSE limit(k) <= Len(a) => a[Len(a) - limit(k) + 1] + shortestMs(k) < now
  /\ \A i, j \in 1..Len(a) : j = i + 2 * limit(k) - 1 => a[j] - a[i] > shortestMs(k)

\* A table is one, with buckets that count within their limits.
Table(m) ==
  /\ DOMAIN m \subseteq Limited /\ IsFiniteSet(DOMAIN m)
  /\ \A k \in DOMAIN m : m[k] \in [count : 1..limit(k), start : 0..now]

RateInv ==
  /\ RateTypeOK /\ Table(buckets) /\ TableBounded
  /\ \A k \in Limited \ forgiven : Fits(buckets, k, admitted[k])
  /\ RefusedOnlyAtLimit

LEMMA MaxMinOfTwo ==
  ASSUME NEW x \in Nat, NEW y \in Nat
  PROVE  /\ Max({x, y}) \in {x, y} /\ Max({x, y}) >= x /\ Max({x, y}) >= y
         /\ Min({x, y}) \in {x, y} /\ Min({x, y}) <= x /\ Min({x, y}) <= y
<1> DEFINE S == {x, y}
<1>1. (\E v \in S : \A w \in S : v >= w) /\ (\E v \in S : \A w \in S : v <= w)
  OBVIOUS
<1>2. Max(S) = (CHOOSE v \in S : \A w \in S : v >= w) /\ Min(S) = (CHOOSE v \in S : \A w \in S : v <= w)
  BY DEF Max, Min
<1> HIDE DEF S
<1>3. Max(S) \in S /\ \A w \in S : Max(S) >= w
  BY <1>1, <1>2
<1>4. Min(S) \in S /\ \A w \in S : Min(S) <= w
  BY <1>1, <1>2
<1> QED BY <1>3, <1>4 DEF S

\* What a key's limits bound, and are bounded by.
LEMMA Limits ==
  ASSUME NEW k \in Limited
  PROVE  /\ limit(k) \in Nat \ {0} /\ ExpiryWindow \in Nat /\ MAX_BUCKETS \in Nat \ {0}
         /\ shortestMs(k) \in Nat /\ longestMs(k) \in Nat /\ shortestMs(k) <= longestMs(k) /\ longestMs(k) <= ExpiryWindow
         /\ \A l \in LimitsOf(k) : /\ l.limit \in Nat \ {0} /\ l.limit <= limit(k)
                                    /\ l.windowMs \in Nat /\ shortestMs(k) <= l.windowMs /\ l.windowMs <= longestMs(k)
                                    /\ l \in {UserLimit, ChannelLimit}
<1> DEFINE B == {UserLimit, ChannelLimit}
<1>1. /\ MAX_BUCKETS \in Nat \ {0} /\ USER_RATE_WINDOW_MS \in Nat /\ CHANNEL_RATE_WINDOW_MS \in Nat
      /\ \A l \in B : l.limit \in Nat \ {0} /\ l.windowMs \in {USER_RATE_WINDOW_MS, CHANNEL_RATE_WINDOW_MS}
  BY RateAssumption DEF RateAssumption, UserLimit, ChannelLimit
<1>2. ExpiryWindow \in Nat /\ ExpiryWindow >= USER_RATE_WINDOW_MS /\ ExpiryWindow >= CHANNEL_RATE_WINDOW_MS
  BY <1>1, MaxMinOfTwo DEF ExpiryWindow
<1>3. \A l \in B : l.windowMs \in Nat /\ l.windowMs <= ExpiryWindow
  BY <1>1, <1>2
<1>4. PICK v \in B, w \in B : LimitsOf(k) = {v, w}
  BY DEF LimitsOf, Limited
<1>5. PICK a \in Nat \ {0}, b \in Nat \ {0} : a = v.limit /\ b = w.limit
  BY <1>1
<1>6. PICK x \in Nat, y \in Nat : x = v.windowMs /\ y = w.windowMs /\ x <= ExpiryWindow /\ y <= ExpiryWindow
  BY <1>3
<1>7. {l.limit : l \in LimitsOf(k)} = {a, b} /\ {l.windowMs : l \in LimitsOf(k)} = {x, y}
  BY <1>4, <1>5, <1>6
<1>8. limit(k) = Max({a, b}) /\ shortestMs(k) = Min({x, y}) /\ longestMs(k) = Max({x, y})
  BY <1>7 DEF limit, shortestMs, longestMs
<1>9. limit(k) \in {a, b} /\ limit(k) >= a /\ limit(k) >= b
  BY <1>8, MaxMinOfTwo
<1>10. shortestMs(k) \in {x, y} /\ shortestMs(k) <= x /\ shortestMs(k) <= y
  BY <1>8, MaxMinOfTwo
<1>11. longestMs(k) \in {x, y} /\ longestMs(k) >= x /\ longestMs(k) >= y
  BY <1>8, MaxMinOfTwo
<1>12. shortestMs(k) \in Nat /\ longestMs(k) \in Nat /\ limit(k) \in Nat \ {0}
  BY <1>9, <1>10, <1>11
<1>13. shortestMs(k) <= longestMs(k) /\ longestMs(k) <= ExpiryWindow
  BY <1>2, <1>6, <1>10, <1>11, <1>12
<1>14. \A l \in LimitsOf(k) : l.limit \in Nat \ {0} /\ l.limit <= limit(k) /\ l \in B
  BY <1>4, <1>5, <1>9, <1>12
<1>15. \A l \in LimitsOf(k) : l.windowMs \in Nat /\ shortestMs(k) <= l.windowMs /\ l.windowMs <= longestMs(k)
  BY <1>4, <1>6, <1>10, <1>11, <1>12
<1> QED BY <1>1, <1>2, <1>12, <1>13, <1>14, <1>15

\* What pruning makes of a table.
LEMMA PruningKeeps ==
  ASSUME now \in Nat, NEW m, Table(m), NEW p \in PrunedBuckets(m)
  PROVE  /\ Table(p) /\ DOMAIN p \subseteq UnexpiredBuckets(m) /\ \A k \in DOMAIN p : p[k] = m[k]
         /\ Cardinality(DOMAIN p) <= MAX_BUCKETS
         /\ \A k \in DOMAIN m \ DOMAIN p : k \in Lost(m, p) \/ ~InWindow(m, k, longestMs(k))
         /\ Lost(m, p) # {} => Cardinality(UnexpiredBuckets(m)) > MAX_BUCKETS
<1>1. MAX_BUCKETS \in Nat
  BY RateAssumption DEF RateAssumption
<1> DEFINE U == UnexpiredBuckets(m)
           f == [k \in U |-> m[k].start]
<1>2. PICK S \in HardCap(f, MAX_BUCKETS) : p = Restrict(m, S)
  BY DEF PrunedBuckets
<1>3. U \subseteq DOMAIN m /\ IsFiniteSet(U) /\ DOMAIN f = U
  BY FS_Subset DEF UnexpiredBuckets, Table
<1>4. Cardinality(U) \in Nat
  BY <1>3, FS_CardinalityType
<1>5. \/ S = U /\ Cardinality(U) <= MAX_BUCKETS
      \/ S \subseteq U /\ Cardinality(S) = MAX_BUCKETS /\ Cardinality(U) > MAX_BUCKETS
  BY <1>1, <1>2, <1>3, <1>4 DEF HardCap
<1>6. DOMAIN p = S /\ \A k \in S : p[k] = m[k]
  BY <1>2 DEF Restrict
<1>7. Cardinality(DOMAIN p) <= MAX_BUCKETS
  BY <1>1, <1>5, <1>6
<1>8. Table(p)
  <2>1. S \subseteq DOMAIN m
    BY <1>3, <1>5
  <2>2. IsFiniteSet(S)
    BY <2>1, FS_Subset DEF Table
  <2> QED BY <1>6, <2>1, <2>2 DEF Table
<1>9. Lost(m, p) # {} => S # U
  <2>1. ASSUME NEW k \in Lost(m, p) PROVE k \in U
    <3>1. k \in DOMAIN m /\ now - m[k].start <= longestMs(k) /\ k \in Limited /\ m[k].start \in 0..now
      BY <2>1 DEF Lost, InWindow, Table
    <3>2. longestMs(k) \in Nat /\ ExpiryWindow \in Nat /\ longestMs(k) <= ExpiryWindow
      BY <3>1, Limits
    <3>3. now - m[k].start \in Int
      BY <3>1, <3>2
    <3> QED BY <3>1, <3>2, <3>3 DEF UnexpiredBuckets
  <2> QED BY <2>1, <1>6 DEF Lost
<1> QED BY <1>5, <1>6, <1>7, <1>8, <1>9 DEF Lost

LEMMA BeforeKeeps ==
  ASSUME now \in Nat, NEW m, Table(m), Cardinality(DOMAIN m) <= MAX_BUCKETS + 1, NEW p \in BeforeInsertion(m)
  PROVE  /\ Table(p) /\ DOMAIN p \subseteq DOMAIN m /\ \A k \in DOMAIN p : p[k] = m[k]
         /\ Cardinality(DOMAIN p) <= MAX_BUCKETS
         /\ \A k \in DOMAIN m \ DOMAIN p : k \in Lost(m, p) \/ ~InWindow(m, k, longestMs(k))
         /\ Lost(m, p) # {} => Cardinality(UnexpiredBuckets(m)) > MAX_BUCKETS
         /\ UnexpiredBuckets(p) \subseteq UnexpiredBuckets(m)
<1>1. CASE p \in PrunedBuckets(m)
  <2>1. /\ Table(p) /\ DOMAIN p \subseteq UnexpiredBuckets(m) /\ \A k \in DOMAIN p : p[k] = m[k]
        /\ Cardinality(DOMAIN p) <= MAX_BUCKETS
        /\ \A k \in DOMAIN m \ DOMAIN p : k \in Lost(m, p) \/ ~InWindow(m, k, longestMs(k))
        /\ Lost(m, p) # {} => Cardinality(UnexpiredBuckets(m)) > MAX_BUCKETS
    BY <1>1, PruningKeeps
  <2> QED BY <2>1 DEF UnexpiredBuckets
<1>2. CASE p \notin PrunedBuckets(m)
  <2>1. p = m /\ ~(Cardinality(DOMAIN m) > MAX_BUCKETS)
    BY <1>2 DEF BeforeInsertion
  <2>2. Cardinality(DOMAIN m) \in Nat /\ MAX_BUCKETS \in Nat
    BY FS_CardinalityType, RateAssumption DEF Table, RateAssumption
  <2>3. Lost(m, p) = {}
    BY <2>1 DEF Lost
  <2> QED BY <2>1, <2>2, <2>3
<1> QED BY <1>1, <1>2

\* What allow() makes of a table, for the key it is called with and the others.
LEMMA CountingKeeps ==
  ASSUME now \in Nat, NEW p, Table(p), Cardinality(DOMAIN p) <= MAX_BUCKETS, NEW k \in Limited, NEW l \in LimitsOf(k), ~Full(p, k, l)
  PROVE  /\ Table(Counted(p, k, l.windowMs)) /\ DOMAIN Counted(p, k, l.windowMs) = DOMAIN p \cup {k}
         /\ \A x \in DOMAIN p \ {k} : Counted(p, k, l.windowMs)[x] = p[x]
         /\ InWindow(p, k, l.windowMs) => Counted(p, k, l.windowMs)[k] = [count |-> p[k].count + 1, start |-> p[k].start]
         /\ ~InWindow(p, k, l.windowMs) => Counted(p, k, l.windowMs)[k] = [count |-> 1, start |-> now]
         /\ Cardinality(DOMAIN Counted(p, k, l.windowMs)) <= MAX_BUCKETS + 1
<1>1. PICK e : e = IF InWindow(p, k, l.windowMs) THEN [p[k] EXCEPT !.count = @ + 1] ELSE [count |-> 1, start |-> now]
  OBVIOUS
<1>2. Counted(p, k, l.windowMs) = [x \in DOMAIN p \cup {k} |-> IF x # k THEN p[x] ELSE e]
  BY <1>1 DEF Counted
<1>3. limit(k) \in Nat \ {0} /\ MAX_BUCKETS \in Nat /\ l.limit \in Nat /\ l.limit <= limit(k)
  BY Limits
<1>4. InWindow(p, k, l.windowMs) => /\ p[k] \in [count : 1..limit(k), start : 0..now] /\ ~(p[k].count >= l.limit)
                        /\ e = [count |-> p[k].count + 1, start |-> p[k].start]
  BY <1>1 DEF InWindow, Table, Full
<1>5. e \in [count : 1..limit(k), start : 0..now]
  <2>1. CASE InWindow(p, k, l.windowMs)
    <3>1. PICK n \in 1..limit(k), st \in 0..now : p[k] = [count |-> n, start |-> st]
      BY <1>4, <2>1
    <3>2. e = [count |-> n + 1, start |-> st] /\ ~(n >= l.limit)
      BY <1>4, <2>1, <3>1
    <3>3. n + 1 \in 1..limit(k)
      BY <1>3, <3>2
    <3> QED BY <3>2, <3>3
  <2>2. CASE ~InWindow(p, k, l.windowMs)
    BY <1>1, <1>3, <2>2
  <2> QED BY <2>1, <2>2
<1>6. DOMAIN Counted(p, k, l.windowMs) = DOMAIN p \cup {k}
  BY <1>2
<1>7. IsFiniteSet(DOMAIN p \cup {k}) /\ Cardinality(DOMAIN p \cup {k}) <= MAX_BUCKETS + 1
  <2>1. IsFiniteSet(DOMAIN p) /\ Cardinality(DOMAIN p) \in Nat
    BY FS_CardinalityType DEF Table
  <2>2. CASE k \in DOMAIN p
    <3>1. DOMAIN p \cup {k} = DOMAIN p
      BY <2>2
    <3> QED BY <1>3, <2>1, <3>1
  <2>3. CASE k \notin DOMAIN p
    <3>1. IsFiniteSet(DOMAIN p \cup {k})
      BY <2>1, FS_AddElement
    <3>2. Cardinality(DOMAIN p \cup {k}) = Cardinality(DOMAIN p) + 1
      BY <2>1, <2>3, FS_AddElement
    <3> QED BY <1>3, <2>1, <3>1, <3>2
  <2> QED BY <2>2, <2>3
<1>8. Table(Counted(p, k, l.windowMs))
  BY <1>2, <1>5, <1>6, <1>7 DEF Table
<1> QED BY <1>1, <1>2, <1>4, <1>6, <1>7, <1>8

\* A key keeps its fit when another key counts, or the map is pruned of others.
LEMMA FitsAnother ==
  ASSUME NEW m, NEW p, NEW k, NEW a, Fits(m, k, a), k \in DOMAIN p <=> k \in DOMAIN m, k \in DOMAIN p => p[k] = m[k]
  PROVE  Fits(p, k, a)
BY DEF Fits

\* A bucket that is gone, or has run out.
Past(k, a) == limit(k) <= Len(a) => a[Len(a) - limit(k) + 1] + shortestMs(k) < now

LEMMA FitsPast ==
  ASSUME now \in Nat, NEW m, Table(m), NEW k \in Limited, NEW a, Fits(m, k, a),
         NEW l \in LimitsOf(k), ~InWindow(m, k, l.windowMs)
  PROVE  Past(k, a)
<1>1. CASE k \notin DOMAIN m
  BY <1>1 DEF Fits, Past
<1>2. CASE k \in DOMAIN m
  <2>1. PICK L \in Nat \ {0}, W \in Nat, V \in Nat : L = limit(k) /\ W = shortestMs(k) /\ V = l.windowMs /\ W <= V
    BY Limits
  <2>2. PICK c \in 1..L, s \in 0..now : m[k] = [count |-> c, start |-> s]
    BY <1>2, <2>1 DEF Table
  <2>3. PICK n \in Nat : n = Len(a)
    BY DEF Fits
  <2>4. c <= n /\ a[n - c + 1] = s /\ s + W < now
    <3>1. ~(now - s <= V)
      BY <1>2, <2>1, <2>2 DEF InWindow
    <3> QED BY <1>2, <2>1, <2>2, <2>3, <3>1 DEF Fits
  <2>5. ASSUME L <= n PROVE a[n - L + 1] + W < now
    <3>1. PICK i \in 1..n : i = n - L + 1
      BY <2>5
    <3>2. PICK j \in 1..n : j = n - c + 1
      BY <2>2, <2>4
    <3>3. i <= j
      BY <2>2, <3>1, <3>2
    <3>4. a[i] <= a[j] /\ a[i] \in 0..now
      BY <2>3, <3>3 DEF Fits
    <3>5. a[j] = s
      BY <2>4, <3>2
    <3>6. a[i] + W < now
      BY <2>4, <3>4, <3>5
    <3> QED BY <3>1, <3>6
  <2> QED BY <2>1, <2>3, <2>5 DEF Past
<1> QED BY <1>1, <1>2

\* A key that is pruned keeps its fit.
LEMMA FitsPruned ==
  ASSUME now \in Nat, NEW m, Table(m), NEW k \in Limited, NEW a, Fits(m, k, a), ~InWindow(m, k, longestMs(k)), NEW p, k \notin DOMAIN p
  PROVE  Fits(p, k, a)
<1>1. PICK l \in LimitsOf(k) : TRUE
  BY DEF LimitsOf, Limited
<1>2. ~InWindow(m, k, l.windowMs)
  <2>1. CASE k \in DOMAIN m
    <3>1. m[k].start \in 0..now /\ l.windowMs \in Nat /\ longestMs(k) \in Nat /\ l.windowMs <= longestMs(k)
      BY <2>1, Limits DEF Table
    <3> QED BY <2>1, <3>1 DEF InWindow
  <2> QED BY <2>1 DEF InWindow
<1> QED BY <1>2, FitsPast DEF Fits, Past

\* A key that is admitted keeps its fit.
LEMMA FitsAdmitted ==
  ASSUME now \in Nat, NEW p, Table(p), Cardinality(DOMAIN p) <= MAX_BUCKETS, NEW k \in Limited, NEW a, Fits(p, k, a),
         NEW l \in LimitsOf(k), ~Full(p, k, l)
  PROVE  Fits(Counted(p, k, l.windowMs), k, Append(a, now))
<1>1. PICK L \in Nat \ {0}, W \in Nat : L = limit(k) /\ W = shortestMs(k) /\ l.limit \in Nat /\ l.limit <= L
  BY Limits
<1>2. PICK b, q : b = Append(a, now) /\ Counted(p, k, l.windowMs) = q
  OBVIOUS
<1>n. PICK n \in Nat : n = Len(a)
  BY DEF Fits
<1>3. a \in Seq(0..now) /\ Len(b) = n + 1 /\ b \in Seq(0..now) /\ (\A i \in 1..n : b[i] = a[i] /\ a[i] \in 0..now) /\ b[n + 1] = now
  BY <1>2, <1>n DEF Fits
<1>4. \A i, j \in 1..n + 1 : i <= j => b[i] <= b[j]
  <2>1. ASSUME NEW i \in 1..n + 1, NEW j \in 1..n + 1, i <= j PROVE b[i] <= b[j]
    <3>1. CASE j = n + 1
      <4>1. b[i] \in 0..now
        BY <1>3, ElementOfSeq
      <4> QED BY <1>3, <3>1, <4>1
    <3>2. CASE j # n + 1
      <4>1. i \in 1..n /\ j \in 1..n
        BY <2>1, <3>2
      <4> QED BY <1>n, <1>3, <2>1, <4>1 DEF Fits
    <3> QED BY <3>1, <3>2
  <2> QED BY <2>1
<1>5. /\ k \in DOMAIN q
      /\ InWindow(p, k, l.windowMs) => q[k] = [count |-> p[k].count + 1, start |-> p[k].start]
      /\ ~InWindow(p, k, l.windowMs) => q[k] = [count |-> 1, start |-> now]
  <2>0. DOMAIN Counted(p, k, l.windowMs) = DOMAIN p \cup {k}
    BY CountingKeeps
  <2>1. ASSUME InWindow(p, k, l.windowMs) PROVE Counted(p, k, l.windowMs)[k] = [count |-> p[k].count + 1, start |-> p[k].start]
    BY <2>1, CountingKeeps
  <2>3. ASSUME ~InWindow(p, k, l.windowMs) PROVE Counted(p, k, l.windowMs)[k] = [count |-> 1, start |-> now]
    BY <2>3 DEF Counted
  <2>2. Counted(p, k, l.windowMs) = q
    BY <1>2
  <2> QED BY <2>0, <2>1, <2>2, <2>3
<1>6. PICK c \in 1..L, s \in 0..now : /\ q[k] = [count |-> c, start |-> s]
                                      /\ c <= n + 1 /\ b[n + 1 - c + 1] = s
                                      /\ L <= n + 1 - c => b[n + 1 - c - L + 1] + W < s
  <2>1. CASE InWindow(p, k, l.windowMs)
    <3>1. k \in DOMAIN p /\ p[k] \in [count : 1..L, start : 0..now] /\ ~(p[k].count >= l.limit)
      BY <1>1, <2>1 DEF InWindow, Full, Table
    <3>2. PICK d \in 1..L, s \in 0..now : p[k] = [count |-> d, start |-> s]
      BY <3>1
    <3>3. d < L /\ q[k] = [count |-> d + 1, start |-> s]
      <4>1. p[k].count = d /\ p[k].start = s /\ ~(d >= l.limit)
        BY <3>1, <3>2
      <4>2. q[k] = [count |-> p[k].count + 1, start |-> p[k].start]
        BY <1>5, <2>1
      <4> QED BY <1>1, <4>1, <4>2
    <3>4. d <= n /\ a[n - d + 1] = s /\ (L <= n - d => a[n - d - L + 1] + W < s)
      BY <1>1, <1>n, <3>1, <3>2 DEF Fits
    <3>6. n - d + 1 \in 1..n /\ (L <= n - d => n - d - L + 1 \in 1..n)
      BY <3>4
    <3>7. b[n - d + 1] = s /\ (L <= n - d => b[n - d - L + 1] + W < s)
      BY <1>3, <3>4, <3>6
    <3>8. PICK e \in 1..L : e = d + 1
      BY <3>3
    <3>9. n + 1 - e + 1 = n - d + 1 /\ n + 1 - e - L + 1 = n - d - L + 1 /\ n + 1 - e = n - d /\ e <= n + 1
      BY <3>4, <3>8
    <3>10. q[k] = [count |-> e, start |-> s] /\ b[n + 1 - e + 1] = s /\ (L <= n + 1 - e => b[n + 1 - e - L + 1] + W < s)
      BY <3>3, <3>7, <3>8, <3>9
    <3>11. e <= n + 1
      BY <3>9
    <3> QED
      <4> WITNESS e \in 1..L, s \in 0..now
      <4> QED BY <3>10, <3>11
  <2>2. CASE ~InWindow(p, k, l.windowMs)
    <3>1. L <= n => a[n - L + 1] + W < now
      BY <1>1, <1>n, <2>2, FitsPast DEF Past
    <3>2. q[k] = [count |-> 1, start |-> now] /\ n + 1 - 1 + 1 = n + 1 /\ n + 1 - 1 = n /\ n + 1 - 1 - L + 1 = n - L + 1 /\ 1 \in 1..L /\ now \in 0..now
      BY <1>5, <2>2
    <3>3. L <= n => b[n - L + 1] + W < now
      BY <1>3, <3>1
    <3>4. b[n + 1 - 1 + 1] = now /\ (L <= n + 1 - 1 => b[n + 1 - 1 - L + 1] + W < now) /\ 1 <= n + 1
      BY <1>3, <3>2, <3>3
    <3> QED
      <4>1. 1 \in 1..L /\ now \in 0..now
        BY <3>2
      <4> WITNESS 1 \in 1..L, now \in 0..now
      <4> QED BY <3>2, <3>4
  <2> QED BY <2>1, <2>2
<1>7. ASSUME NEW i \in 1..n + 1, NEW j \in 1..n + 1, j = i + 2 * L - 1 PROVE b[j] - b[i] > W
  <2>1. CASE j = n + 1
    <3>1. L <= n + 1 - c /\ i = n + 2 - 2 * L /\ i <= n + 1 - c - L + 1 /\ n + 1 - c - L + 1 \in 1..n + 1
      BY <1>7, <2>1
    <3>2. b[n + 1 - c - L + 1] + W < s /\ b[i] <= b[n + 1 - c - L + 1]
      BY <1>4, <1>6, <3>1
    <3>3. b[n + 1 - c - L + 1] \in 0..now /\ b[i] \in 0..now /\ b[j] = now
      BY <1>3, <2>1, <3>1
    <3> QED BY <3>2, <3>3
  <2>2. CASE j # n + 1
    <3>1. i \in 1..n /\ j \in 1..n
      BY <1>7, <2>2
    <3> QED BY <1>1, <1>n, <1>3, <1>7, <3>1 DEF Fits
  <2> QED BY <2>1, <2>2
<1>8. b \in Seq(0..now) /\ Len(b) = n + 1
  BY <1>3
<1>9. q[k].count = c /\ q[k].start = s
  BY <1>6
<1>10. /\ q[k].count <= Len(b) /\ b[Len(b) - q[k].count + 1] = q[k].start
       /\ L <= Len(b) - q[k].count => b[Len(b) - q[k].count - L + 1] + W < q[k].start
  <2>1. c <= Len(b)
    BY <1>6, <1>8
  <2>2. b[Len(b) - c + 1] = s
    BY <1>6, <1>8
  <2>3. L <= Len(b) - c => b[Len(b) - c - L + 1] + W < s
    BY <1>6, <1>8
  <2> QED BY <1>9, <2>1, <2>2, <2>3
<1> QED BY <1>1, <1>2, <1>4, <1>5, <1>7, <1>8, <1>10 DEF Fits

\* A key that a limit refuses had that many admissions within the window of it.
LEMMA FullFits ==
  ASSUME now \in Nat, NEW p, Table(p), NEW k \in Limited, NEW l \in LimitsOf(k), NEW a, Fits(p, k, a), Full(p, k, l)
  PROVE  \E i, j \in DOMAIN a : j = i + l.limit - 1 /\ now - l.windowMs <= a[i] /\ a[j] <= now
<1>1. PICK L \in Nat \ {0}, Q \in Nat \ {0}, V \in Nat : L = limit(k) /\ Q = l.limit /\ V = l.windowMs /\ Q <= L
  BY Limits
<1>2. PICK n \in Nat : n = Len(a) /\ a \in Seq(0..now) /\ DOMAIN a = 1..n /\ \A i \in 1..n : a[i] \in 0..now
  BY DEF Fits
<1>3. k \in DOMAIN p /\ p[k] \in [count : 1..L, start : 0..now] /\ p[k].count >= Q /\ now - p[k].start <= V
  BY <1>1 DEF InWindow, Full, Table
<1>4. PICK c \in 1..L, s \in 0..now : p[k].count = c /\ p[k].start = s /\ c >= Q /\ now - s <= V
  BY <1>3
<1>5. c <= n /\ a[n - c + 1] = s
  BY <1>2, <1>3, <1>4 DEF Fits
<1>6. PICK x \in 1..n, y \in 1..n : x = n - c + 1 /\ y = n - Q + 1 /\ x <= y
  BY <1>1, <1>4, <1>5
<1>7. a[x] <= a[y] /\ a[x] = s /\ a[y] \in 0..now /\ n \in 1..n /\ a[n] \in 0..now
  <2>1. \A i, j \in 1..n : i <= j => a[i] <= a[j]
    BY <1>2 DEF Fits
  <2>2. a[x] = s
    BY <1>5, <1>6
  <2>3. a[x] <= a[y]
    BY <1>6, <2>1
  <2>4. n \in 1..n
    BY <1>6
  <2> QED BY <1>2, <2>2, <2>3, <2>4
<1>8. now - V <= a[y] /\ n = y + Q - 1 /\ a[n] <= now
  BY <1>4, <1>6, <1>7
<1> QED BY <1>1, <1>2, <1>7, <1>8

\* One more in a finite set makes one more at most.
LEMMA OneMore ==
  ASSUME NEW S, NEW T, NEW x, IsFiniteSet(S), T \subseteq S \cup {x}
  PROVE  IsFiniteSet(T) /\ Cardinality(S) \in Nat /\ Cardinality(T) \in Nat /\ Cardinality(T) <= Cardinality(S) + 1
<1>1. IsFiniteSet(S \cup {x}) /\ Cardinality(S) \in Nat
  BY FS_AddElement, FS_CardinalityType
<1>2. Cardinality(S \cup {x}) \in Nat /\ Cardinality(S \cup {x}) <= Cardinality(S) + 1
  <2>1. CASE x \in S
    <3>1. S \cup {x} = S
      BY <2>1
    <3> QED BY <1>1, <3>1
  <2>2. CASE x \notin S
    <3>1. Cardinality(S \cup {x}) = Cardinality(S) + 1
      BY <2>2, FS_AddElement
    <3> QED BY <1>1, <3>1
  <2> QED BY <2>1, <2>2
<1>3. IsFiniteSet(T) /\ Cardinality(T) <= Cardinality(S \cup {x})
  BY <1>1, FS_Subset
<1>4. Cardinality(T) \in Nat
  BY <1>3, FS_CardinalityType
<1> QED BY <1>1, <1>2, <1>3, <1>4

Room(m) == Cardinality(DOMAIN m) <= MAX_BUCKETS + 1

\* What one call of allow() makes of the table, and of what is known of the keys.
LEMMA AllowedKeeps ==
  ASSUME now \in Nat, NEW m, Table(m), Room(m), NEW k \in Limited, NEW l \in LimitsOf(k), NEW r \in Allowed(m, k, l)
  PROVE  /\ Table(r.left) /\ Room(r.left) /\ r.granted \in BOOLEAN /\ r.lost \subseteq Limited
         /\ r.lost # {} => Cardinality(UnexpiredBuckets(m)) > MAX_BUCKETS
         /\ UnexpiredBuckets(r.left) \subseteq UnexpiredBuckets(m) \cup {k}
         /\ \A x \in Limited \ (r.lost \cup {k}) : \A a : Fits(m, x, a) => Fits(r.left, x, a)
         /\ k \notin r.lost =>
              \A a : Fits(m, k, a) =>
                IF r.granted THEN Fits(r.left, k, Append(a, now))
                ELSE /\ Fits(r.left, k, a)
                     /\ \E i, j \in DOMAIN a : j = i + l.limit - 1 /\ now - l.windowMs <= a[i] /\ a[j] <= now
<1>1. PICK p \in BeforeInsertion(m) :
        r = IF Full(p, k, l)
            THEN [granted |-> FALSE, left |-> p, lost |-> Lost(m, p)]
            ELSE [granted |-> TRUE, left |-> Counted(p, k, l.windowMs), lost |-> Lost(m, p)]
  BY DEF Allowed
<1>2. /\ Table(p) /\ DOMAIN p \subseteq DOMAIN m /\ \A x \in DOMAIN p : p[x] = m[x]
      /\ Cardinality(DOMAIN p) <= MAX_BUCKETS
      /\ \A x \in DOMAIN m \ DOMAIN p : x \in Lost(m, p) \/ ~InWindow(m, x, longestMs(x))
      /\ Lost(m, p) # {} => Cardinality(UnexpiredBuckets(m)) > MAX_BUCKETS
      /\ UnexpiredBuckets(p) \subseteq UnexpiredBuckets(m)
  BY <1>1, BeforeKeeps DEF Room
<1>3. r.lost = Lost(m, p) /\ r.lost \subseteq Limited
  BY <1>1 DEF Lost, Table
<1>4. ASSUME NEW x \in Limited \ r.lost, NEW a, Fits(m, x, a) PROVE Fits(p, x, a)
  <2>1. CASE x \in DOMAIN p
    BY <1>2, <1>4, <2>1, FitsAnother
  <2>2. CASE x \notin DOMAIN m
    BY <1>2, <1>4, <2>2, FitsAnother
  <2>3. CASE x \in DOMAIN m /\ x \notin DOMAIN p
    <3>1. ~InWindow(m, x, longestMs(x))
      BY <1>2, <1>3, <2>3
    <3> QED BY <1>4, <2>3, <3>1, FitsPruned
  <2> QED BY <2>1, <2>2, <2>3
<1>5. CASE Full(p, k, l)
  <2>1. r.left = p /\ r.granted = FALSE
    BY <1>1, <1>5
  <2>2. Room(p)
    <3>1. Cardinality(DOMAIN p) \in Nat /\ MAX_BUCKETS \in Nat
      BY <1>2, FS_CardinalityType, RateAssumption DEF Table, RateAssumption
    <3> QED BY <1>2, <3>1 DEF Room
  <2>3. ASSUME NEW a, Fits(m, k, a), k \notin r.lost
        PROVE  /\ Fits(p, k, a)
               /\ \E i, j \in DOMAIN a : j = i + l.limit - 1 /\ now - l.windowMs <= a[i] /\ a[j] <= now
    BY <1>2, <1>4, <1>5, <2>3, FullFits
  <2> QED BY <1>2, <1>3, <1>4, <2>1, <2>2, <2>3
<1>6. CASE ~Full(p, k, l)
  <2>1. r.left = Counted(p, k, l.windowMs) /\ r.granted = TRUE
    BY <1>1, <1>6
  <2>2. /\ Table(r.left) /\ DOMAIN r.left = DOMAIN p \cup {k} /\ \A x \in DOMAIN p \ {k} : r.left[x] = p[x]
        /\ Room(r.left)
    <3>1. Table(p) /\ Cardinality(DOMAIN p) <= MAX_BUCKETS
      BY <1>2
    <3>2. /\ Table(Counted(p, k, l.windowMs)) /\ DOMAIN Counted(p, k, l.windowMs) = DOMAIN p \cup {k}
          /\ \A x \in DOMAIN p \ {k} : Counted(p, k, l.windowMs)[x] = p[x]
          /\ Cardinality(DOMAIN Counted(p, k, l.windowMs)) <= MAX_BUCKETS + 1
      BY <1>6, <3>1, CountingKeeps
    <3> QED BY <2>1, <3>2 DEF Room
  <2>3. UnexpiredBuckets(r.left) \subseteq UnexpiredBuckets(m) \cup {k}
    BY <1>2, <2>2 DEF UnexpiredBuckets
  <2>4. ASSUME NEW x \in Limited \ (r.lost \cup {k}), NEW a, Fits(m, x, a) PROVE Fits(r.left, x, a)
    <3>1. Fits(p, x, a)
      BY <1>4, <2>4
    <3> QED BY <2>2, <2>4, <3>1, FitsAnother
  <2>5. ASSUME NEW a, Fits(m, k, a), k \notin r.lost PROVE Fits(r.left, k, Append(a, now))
    <3>1. Fits(p, k, a)
      BY <1>4, <2>5
    <3> QED BY <1>2, <1>6, <2>1, <3>1, FitsAdmitted
  <2> QED BY <1>2, <1>3, <2>1, <2>2, <2>3, <2>4, <2>5
<1> QED BY <1>5, <1>6

\* A clock that stands still keeps a fit; one that moves on does too.
LEMMA FitsLater ==
  ASSUME now \in Nat, now' \in Nat, now' >= now, NEW m, Table(m), NEW k \in Limited, NEW a, Fits(m, k, a)
  PROVE  Fits(m, k, a)'
<1>1. a \in Seq(0..now')
  <2>1. 0..now \subseteq 0..now' /\ a \in Seq(0..now)
    BY DEF Fits
  <2> QED BY <2>1
<1>2. CASE k \in DOMAIN m
  BY <1>1, <1>2 DEF Fits
<1>3. CASE k \notin DOMAIN m
  <2>1. PICK L \in Nat \ {0}, W \in Nat : L = limit(k) /\ W = shortestMs(k)
    BY Limits
  <2>2. PICK n \in Nat : n = Len(a)
    BY DEF Fits
  <2>3. L <= n => n - L + 1 \in 1..n /\ a[n - L + 1] \in 0..now
    <3>1. L <= n => n - L + 1 \in 1..n
      BY <2>1
    <3> QED BY <2>2, <3>1 DEF Fits
  <2>4. L <= n => a[n - L + 1] + W < now'
    <3>1. L <= n => a[n - L + 1] + W < now
      BY <1>3, <2>1, <2>2 DEF Fits
    <3> QED BY <2>3, <3>1
  <2> QED BY <1>1, <1>3, <2>1, <2>2, <2>4 DEF Fits
<1> QED BY <1>2, <1>3

\* Where the table, the histories and the clock are, when the keys still known fit.
Known(m, f, fs) == \A k \in Limited \ fs : Fits(m, k, f[k])

\* Whom a limit refused had that many admissions in its window before.
Reached(x, f) ==
  \E i, j \in DOMAIN f[x[1]] :
    /\ j = i + x[2].limit - 1
    /\ x[3] - x[2].windowMs <= f[x[1]][i] /\ f[x[1]][j] <= x[3]

Histories(f, rs, fs) ==
  f \in [Limited -> Seq(0..now)] /\ rs \subseteq Limited \X {UserLimit, ChannelLimit} \X (0..now) /\ fs \subseteq Limited /\ \A x \in rs : Reached(x, f)

\* At a time, the invariant of the next state is one about what is left of the tables.
LEMMA RateInvNext ==
  ASSUME now \in Times, now' = now, NEW m, NEW f, NEW rs, NEW fs,
         buckets' = m, admitted' = f, refused' = rs, forgiven' = fs,
         Table(m), Room(m), Known(m, f, fs), Histories(f, rs, fs)
  PROVE  RateInv'
<1>1. RateTypeOK' /\ Table(buckets)' /\ TableBounded'
  BY DEF RateTypeOK, Table, TableBounded, Room, Histories
<1>2. \A k \in Limited \ forgiven' : Fits(buckets, k, admitted[k])'
  BY DEF Known, Fits
<1>3. RefusedOnlyAtLimit'
  BY DEF RefusedOnlyAtLimit, Reached, Histories
<1> QED BY <1>1, <1>2, <1>3 DEF RateInv

\* And the other way round.
LEMMA RateInvNow ==
  ASSUME RateInv
  PROVE  /\ now \in Nat /\ now \in Times /\ Table(buckets) /\ Room(buckets)
         /\ Known(buckets, admitted, forgiven) /\ Histories(admitted, refused, forgiven)
<1>1. now \in Nat /\ now \in Times
  BY RateAssumption DEF RateInv, RateTypeOK, Times, RateAssumption
<1>2. Table(buckets) /\ Room(buckets) /\ Known(buckets, admitted, forgiven)
  BY DEF RateInv, Room, TableBounded, Known
<1>3. Histories(admitted, refused, forgiven)
  BY DEF RateInv, RateTypeOK, Histories, RefusedOnlyAtLimit, Reached
<1> QED BY <1>1, <1>2, <1>3

\* A history that grows still shows why a key was refused.
LEMMA ReachedStays ==
  ASSUME now \in Nat, NEW f \in [Limited -> Seq(0..now)], NEW q \in Limited,
         NEW g, g = [f EXCEPT ![q] = Append(@, now)],
         NEW x \in Limited \X {UserLimit, ChannelLimit} \X (0..now), Reached(x, f)
  PROVE  Reached(x, g)
<1>1. PICK k \in Limited, l \in {UserLimit, ChannelLimit}, t \in 0..now : x = <<k, l, t>>
  OBVIOUS
<1>2. PICK i \in DOMAIN f[k], j \in DOMAIN f[k] : j = i + l.limit - 1 /\ t - l.windowMs <= f[k][i] /\ f[k][j] <= t
  BY <1>1 DEF Reached
<1>3. i \in DOMAIN g[k] /\ j \in DOMAIN g[k] /\ g[k][i] = f[k][i] /\ g[k][j] = f[k][j]
  <2>1. PICK h \in Seq(0..now) : h = f[k]
    OBVIOUS
  <2>2. i \in 1..Len(h) /\ j \in 1..Len(h)
    BY <1>2, <2>1
  <2>3. g[k] = h \/ g[k] = Append(h, now)
    BY <2>1
  <2>4. /\ \A v \in 1..Len(h) : v \in DOMAIN Append(h, now) /\ Append(h, now)[v] = h[v]
    BY <2>1
  <2> QED BY <2>1, <2>2, <2>3, <2>4
<1> QED BY <1>1, <1>2, <1>3 DEF Reached

\* What the histories f and the refusals rs become with one call of allow() for k that
\* comes to r, when the keys gs are forgiven after it.
AdmittedBy(f, k, r, gs) == IF r.granted /\ k \notin gs THEN [f EXCEPT ![k] = Append(@, now)] ELSE f
RefusedBy(rs, k, l, r, gs) == IF ~r.granted /\ k \notin gs THEN rs \cup {<<k, l, now>>} ELSE rs

\* They fit the table that it leaves.
LEMMA OneCall ==
  ASSUME now \in Nat, NEW m, Table(m), Room(m), NEW f, NEW rs, NEW fs, Known(m, f, fs), Histories(f, rs, fs),
         NEW k \in Limited, NEW l \in LimitsOf(k), NEW r \in Allowed(m, k, l),
         NEW gs \in SUBSET Limited, fs \cup r.lost \subseteq gs
  PROVE  /\ Known(r.left, AdmittedBy(f, k, r, gs), gs)
         /\ Histories(AdmittedBy(f, k, r, gs), RefusedBy(rs, k, l, r, gs), gs)
<1>0. PICK g, ts : /\ g = AdmittedBy(f, k, r, gs) /\ g = IF r.granted /\ k \notin gs THEN [f EXCEPT ![k] = Append(@, now)] ELSE f
                   /\ ts = RefusedBy(rs, k, l, r, gs) /\ ts = IF ~r.granted /\ k \notin gs THEN rs \cup {<<k, l, now>>} ELSE rs
  BY DEF AdmittedBy, RefusedBy
<1>1. /\ r.granted \in BOOLEAN
      /\ \A x \in Limited \ (r.lost \cup {k}) : \A a : Fits(m, x, a) => Fits(r.left, x, a)
      /\ k \notin r.lost =>
           \A a : Fits(m, k, a) =>
             IF r.granted THEN Fits(r.left, k, Append(a, now))
             ELSE /\ Fits(r.left, k, a)
                  /\ \E i, j \in DOMAIN a : j = i + l.limit - 1 /\ now - l.windowMs <= a[i] /\ a[j] <= now
  BY AllowedKeeps
<1>2. /\ f \in [Limited -> Seq(0..now)] /\ rs \subseteq Limited \X {UserLimit, ChannelLimit} \X (0..now)
      /\ \A x \in rs : Reached(x, f)
  BY DEF Histories
<1>3. now \in 0..now /\ l \in {UserLimit, ChannelLimit}
  BY Limits
<1>4. Known(r.left, g, gs)
  <2>1. ASSUME NEW x \in Limited \ gs PROVE Fits(r.left, x, g[x])
    <3>1. Fits(m, x, f[x]) /\ x \notin r.lost
      BY DEF Known
    <3>2. CASE x = k
      <4>1. g[x] = IF r.granted THEN Append(f[x], now) ELSE f[x]
        BY <1>0, <1>2, <3>2
      <4> QED BY <1>1, <3>1, <3>2, <4>1
    <3>3. CASE x # k
      <4>1. g[x] = f[x]
        BY <1>0, <1>2, <3>3
      <4> QED BY <1>1, <3>1, <3>3, <4>1
    <3> QED BY <3>2, <3>3
  <2> QED BY <2>1 DEF Known
<1>5. g \in [Limited -> Seq(0..now)]
  <2>1. Append(f[k], now) \in Seq(0..now)
    BY <1>2, <1>3
  <2> QED BY <1>0, <1>2, <2>1
<1>6. ts \subseteq Limited \X {UserLimit, ChannelLimit} \X (0..now)
  BY <1>0, <1>2, <1>3
<1>7. ASSUME NEW x \in ts PROVE Reached(x, g)
  <2>1. CASE x \in rs
    <3>1. x \in Limited \X {UserLimit, ChannelLimit} \X (0..now) /\ Reached(x, f)
      BY <1>2, <2>1
    <3>2. CASE g = f
      BY <3>1, <3>2
    <3>3. CASE g = [f EXCEPT ![k] = Append(@, now)]
      BY <1>2, <3>1, <3>3, ReachedStays
    <3> QED BY <1>0, <3>2, <3>3
  <2>2. CASE x = <<k, l, now>> /\ ~r.granted /\ k \notin gs
    <3>1. g = f /\ Fits(m, k, f[k]) /\ k \notin r.lost
      BY <1>0, <2>2 DEF Known
    <3>2. \E i, j \in DOMAIN f[k] : j = i + l.limit - 1 /\ now - l.windowMs <= f[k][i] /\ f[k][j] <= now
      BY <1>1, <2>2, <3>1
    <3> QED BY <2>2, <3>1, <3>2 DEF Reached
  <2> QED BY <1>0, <1>7, <2>1, <2>2
<1> QED BY <1>0, <1>4, <1>5, <1>6, <1>7 DEF Histories

LEMMA RateStarts == RateInit => RateInv
<1> SUFFICES ASSUME RateInit PROVE RateInv
  OBVIOUS
<1>1. MaxTime \in Nat /\ MAX_BUCKETS \in Nat
  BY RateAssumption DEF RateAssumption
<1>2. DOMAIN buckets = {} /\ now = 0 /\ admitted = [k \in Limited |-> <<>>] /\ refused = {} /\ forgiven = {}
  BY DEF RateInit
<1>3. IsFiniteSet(DOMAIN buckets) /\ Cardinality(DOMAIN buckets) = 0
  BY <1>2, FS_EmptySet
<1>4. RateTypeOK
  BY <1>1, <1>2 DEF RateTypeOK, Times
<1>5. Table(buckets) /\ TableBounded
  BY <1>1, <1>2, <1>3 DEF Table, TableBounded
<1>6. ASSUME NEW k \in Limited PROVE Fits(buckets, k, admitted[k])
  <2>1. limit(k) \in Nat \ {0}
    BY Limits
  <2> QED BY <1>2, <2>1 DEF Fits
<1> QED BY <1>2, <1>4, <1>5, <1>6 DEF RateInv, RefusedOnlyAtLimit

\* A message that is charged to its user and its channel, which may have one key.
LEMMA ChargeKeeps ==
  ASSUME RateInv, NEW u \in Users, NEW c \in Channels, Charge(u, c)
  PROVE  RateInv' /\ (forgiven' # forgiven => Cardinality(UnexpiredBuckets(buckets)) >= MAX_BUCKETS)
<1>1. /\ now \in Nat /\ now \in Times /\ Table(buckets) /\ Room(buckets)
      /\ Known(buckets, admitted, forgiven) /\ Histories(admitted, refused, forgiven)
  BY RateInvNow
<1>2. u \in Limited /\ c \in Limited /\ UserLimit \in LimitsOf(u) /\ ChannelLimit \in LimitsOf(c) /\ now' = now
  BY DEF Charge, Limited, LimitsOf
<1>m. MAX_BUCKETS \in Nat
  BY RateAssumption DEF RateAssumption
<1>3. PICK a \in Allowed(buckets, u, UserLimit) :
        IF ~a.granted
        THEN /\ buckets' = a.left
             /\ forgiven' = forgiven \cup a.lost
             /\ refused' = Refuse(u, UserLimit)
             /\ UNCHANGED <<now, admitted>>
        ELSE \E b \in Allowed(a.left, c, ChannelLimit) :
               /\ buckets' = b.left
               /\ forgiven' = forgiven \cup a.lost \cup b.lost
               /\ refused' = IF b.granted THEN refused ELSE Refuse(c, ChannelLimit)
               /\ admitted' = IF b.granted THEN Admit(Admit(admitted, u), c) ELSE Admit(admitted, u)
               /\ UNCHANGED now
  BY DEF Charge
<1>4. /\ Table(a.left) /\ Room(a.left) /\ a.granted \in BOOLEAN /\ a.lost \subseteq Limited
      /\ a.lost # {} => Cardinality(UnexpiredBuckets(buckets)) > MAX_BUCKETS
      /\ UnexpiredBuckets(a.left) \subseteq UnexpiredBuckets(buckets) \cup {u}
  BY <1>1, <1>2, AllowedKeeps
<1>5. PICK fs : fs = forgiven'
  OBVIOUS
<1>f. forgiven \subseteq Limited
  BY <1>1 DEF Histories
<1>6. CASE ~a.granted
  <2>1. buckets' = a.left /\ fs = forgiven \cup a.lost /\ admitted' = admitted
        /\ refused' = IF ~a.granted /\ u \notin fs THEN refused \cup {<<u, UserLimit, now>>} ELSE refused
    BY <1>3, <1>5, <1>6 DEF Refuse
  <2>2. fs \in SUBSET Limited /\ forgiven \cup a.lost \subseteq fs
    BY <1>4, <1>f, <2>1
  <2>3. AdmittedBy(admitted, u, a, fs) = admitted /\ RefusedBy(refused, u, UserLimit, a, fs) = refused'
    BY <1>6, <2>1 DEF AdmittedBy, RefusedBy
  <2>4. Known(a.left, admitted, fs) /\ Histories(admitted, refused', fs)
    BY <1>1, <1>2, <2>2, <2>3, OneCall
  <2>5. RateInv'
    BY <1>1, <1>2, <1>4, <1>5, <2>1, <2>4, RateInvNext
  <2>6. forgiven' # forgiven => Cardinality(UnexpiredBuckets(buckets)) >= MAX_BUCKETS
    <3>1. Cardinality(UnexpiredBuckets(buckets)) \in Nat
      BY <1>1, FS_Subset, FS_CardinalityType DEF Table, UnexpiredBuckets
    <3> QED BY <1>4, <1>5, <1>m, <2>1, <3>1
  <2> QED BY <2>5, <2>6
<1>7. CASE a.granted
  <2>1. PICK b \in Allowed(a.left, c, ChannelLimit) :
               /\ buckets' = b.left
               /\ forgiven' = forgiven \cup a.lost \cup b.lost
               /\ refused' = IF b.granted THEN refused ELSE Refuse(c, ChannelLimit)
               /\ admitted' = IF b.granted THEN Admit(Admit(admitted, u), c) ELSE Admit(admitted, u)
    BY <1>3, <1>7
  <2>2. /\ Table(b.left) /\ Room(b.left) /\ b.granted \in BOOLEAN /\ b.lost \subseteq Limited
        /\ b.lost # {} => Cardinality(UnexpiredBuckets(a.left)) > MAX_BUCKETS
    BY <1>1, <1>2, <1>4, AllowedKeeps
  <2>3. fs = forgiven \cup a.lost \cup b.lost
    BY <1>5, <2>1
  <2>4. fs \in SUBSET Limited
    BY <1>4, <1>f, <2>2, <2>3
  <2>5. PICK g : g = AdmittedBy(admitted, u, a, fs)
    OBVIOUS
  <2>6. Known(a.left, g, fs) /\ Histories(g, refused, fs)
    <3>1. RefusedBy(refused, u, UserLimit, a, fs) = refused
      BY <1>7 DEF RefusedBy
    <3>2. forgiven \cup a.lost \subseteq fs
      BY <2>3
    <3> QED BY <1>1, <1>2, <2>4, <2>5, <3>1, <3>2, OneCall
  <2>7. admitted' = AdmittedBy(g, c, b, fs) /\ refused' = RefusedBy(refused, c, ChannelLimit, b, fs)
    <3>1. Admit(admitted, u) = g
      BY <1>5, <1>7, <2>5 DEF Admit, AdmittedBy
    <3>2. Admit(g, c) = IF c \notin fs THEN [g EXCEPT ![c] = Append(@, now)] ELSE g
      BY <1>5 DEF Admit
    <3>3. admitted' = AdmittedBy(g, c, b, fs)
      BY <2>1, <3>1, <3>2 DEF AdmittedBy
    <3>4. refused' = RefusedBy(refused, c, ChannelLimit, b, fs)
      BY <1>5, <2>1 DEF Refuse, RefusedBy
    <3> QED BY <3>3, <3>4
  <2>8. Known(b.left, admitted', fs) /\ Histories(admitted', refused', fs)
    <3>1. fs \cup b.lost \subseteq fs
      BY <2>3
    <3> QED BY <1>1, <1>2, <1>4, <2>1, <2>4, <2>6, <2>7, <3>1, OneCall
  <2>11. RateInv'
    BY <1>1, <1>2, <1>5, <2>1, <2>2, <2>8, RateInvNext
  <2>12. forgiven' # forgiven => Cardinality(UnexpiredBuckets(buckets)) >= MAX_BUCKETS
    <3>1. IsFiniteSet(UnexpiredBuckets(buckets))
      BY <1>1, FS_Subset DEF Table, UnexpiredBuckets
    <3>2. /\ Cardinality(UnexpiredBuckets(buckets)) \in Nat /\ Cardinality(UnexpiredBuckets(a.left)) \in Nat
          /\ Cardinality(UnexpiredBuckets(a.left)) <= Cardinality(UnexpiredBuckets(buckets)) + 1
      BY <1>4, <3>1, OneMore
    <3>3. a.lost # {} \/ b.lost # {} => Cardinality(UnexpiredBuckets(buckets)) >= MAX_BUCKETS
      BY <1>4, <1>m, <2>2, <3>2
    <3> QED BY <1>5, <2>3, <3>3
  <2> QED BY <2>11, <2>12
<1> QED BY <1>6, <1>7

\* The timer prunes the table.
LEMMA TimerKeeps ==
  ASSUME RateInv, PruneBuckets
  PROVE  RateInv' /\ (forgiven' # forgiven => Cardinality(UnexpiredBuckets(buckets)) >= MAX_BUCKETS)
<1>1. /\ now \in Nat /\ now \in Times /\ Table(buckets) /\ Room(buckets)
      /\ Known(buckets, admitted, forgiven) /\ Histories(admitted, refused, forgiven)
  BY RateInvNow
<1>2. PICK p \in PrunedBuckets(buckets) : buckets' = p
  BY DEF PruneBuckets
<1>3. PICK fs : fs = forgiven'
  OBVIOUS
<1>4. fs = forgiven \cup Lost(buckets, p) /\ now' = now /\ admitted' = admitted /\ refused' = refused
  BY <1>2, <1>3 DEF PruneBuckets
<1>5. /\ Table(p) /\ DOMAIN p \subseteq UnexpiredBuckets(buckets) /\ \A k \in DOMAIN p : p[k] = buckets[k]
      /\ Cardinality(DOMAIN p) <= MAX_BUCKETS
      /\ \A k \in DOMAIN buckets \ DOMAIN p : k \in Lost(buckets, p) \/ ~InWindow(buckets, k, longestMs(k))
      /\ Lost(buckets, p) # {} => Cardinality(UnexpiredBuckets(buckets)) > MAX_BUCKETS
  BY <1>1, <1>2, PruningKeeps
<1>6. /\ Cardinality(DOMAIN p) \in Nat /\ MAX_BUCKETS \in Nat
      /\ Cardinality(UnexpiredBuckets(buckets)) \in Nat
  BY <1>1, <1>5, FS_Subset, FS_CardinalityType, RateAssumption DEF Table, UnexpiredBuckets, RateAssumption
<1>7. Room(p)
  BY <1>5, <1>6 DEF Room
<1>8. Known(p, admitted, fs)
  <2>1. ASSUME NEW k \in Limited \ fs PROVE Fits(p, k, admitted[k])
    <3>1. Fits(buckets, k, admitted[k]) /\ k \notin Lost(buckets, p)
      BY <1>1, <1>4 DEF Known
    <3>2. CASE k \in DOMAIN p
      <4>1. k \in DOMAIN buckets
        BY <1>5, <3>2 DEF UnexpiredBuckets
      <4> QED BY <1>5, <3>1, <3>2, <4>1, FitsAnother
    <3>3. CASE k \notin DOMAIN buckets
      <4>1. k \notin DOMAIN p
        BY <1>5, <3>3 DEF UnexpiredBuckets
      <4> QED BY <3>1, <3>3, <4>1, FitsAnother
    <3>4. CASE k \in DOMAIN buckets \ DOMAIN p
      <4>1. ~InWindow(buckets, k, longestMs(k))
        BY <1>5, <3>1, <3>4
      <4> QED BY <1>1, <3>1, <3>4, <4>1, FitsPruned
    <3> QED BY <3>2, <3>3, <3>4
  <2> QED BY <2>1 DEF Known
<1>9. Histories(admitted, refused, fs)
  BY <1>1, <1>4 DEF Histories, Lost, Table
<1>10. RateInv'
  BY <1>1, <1>2, <1>3, <1>4, <1>5, <1>7, <1>8, <1>9, RateInvNext
<1>11. forgiven' # forgiven => Cardinality(UnexpiredBuckets(buckets)) >= MAX_BUCKETS
  BY <1>3, <1>4, <1>5, <1>6
<1> QED BY <1>10, <1>11

\* Time goes on.
LEMMA RateTickKeeps ==
  ASSUME RateInv, RateTick
  PROVE  RateInv'
<1>1. /\ now \in Nat /\ now \in Times /\ Table(buckets) /\ Room(buckets)
      /\ Known(buckets, admitted, forgiven) /\ Histories(admitted, refused, forgiven)
  BY RateInvNow
<1>2. /\ now' = now + 1 /\ now' \in Times /\ now' \in Nat /\ 0..now \subseteq 0..now'
      /\ buckets' = buckets /\ admitted' = admitted /\ refused' = refused /\ forgiven' = forgiven
  BY <1>1, RateAssumption DEF RateTick, Advance, Times, RateAssumption
<1>3. Table(buckets)'
  BY <1>1, <1>2 DEF Table
<1>4. RateTypeOK'
  <2>1. admitted \in [Limited -> Seq(0..now')]
    BY <1>1, <1>2 DEF Histories
  <2>2. refused \subseteq Limited \X {UserLimit, ChannelLimit} \X (0..now')
    BY <1>1, <1>2 DEF Histories
  <2> QED BY <1>1, <1>2, <1>3, <2>1, <2>2 DEF RateTypeOK, Table, Histories
<1>5. \A k \in Limited \ forgiven' : Fits(buckets, k, admitted[k])'
  <2>1. ASSUME NEW k \in Limited \ forgiven PROVE Fits(buckets, k, admitted[k])'
    <3>1. PICK m, h : m = buckets /\ h = admitted[k]
      OBVIOUS
    <3>2. Fits(m, k, h) /\ Table(m)
      BY <1>1, <3>1 DEF Known
    <3>3. Fits(m, k, h)'
      BY <1>1, <1>2, <3>2, FitsLater
    <3> QED BY <1>2, <3>1, <3>3 DEF Fits
  <2> QED BY <1>2, <2>1
<1>6. RefusedOnlyAtLimit'
  BY <1>1, <1>2 DEF Histories, Reached, RefusedOnlyAtLimit
<1>7. TableBounded'
  BY <1>1, <1>2 DEF Room, TableBounded
<1> QED BY <1>3, <1>4, <1>5, <1>6, <1>7 DEF RateInv

\* The invariant of the rate limiter is inductive, and a step that forgives has reason to.
LEMMA RateStep ==
  RateInv /\ [RateNext]_rateVars =>
    RateInv' /\ (forgiven' # forgiven => Cardinality(UnexpiredBuckets(buckets)) >= MAX_BUCKETS)
<1> SUFFICES ASSUME RateInv, [RateNext]_rateVars
             PROVE  RateInv' /\ (forgiven' # forgiven => Cardinality(UnexpiredBuckets(buckets)) >= MAX_BUCKETS)
  OBVIOUS
<1>1. ASSUME NEW u \in Users, NEW c \in Channels, Charge(u, c)
      PROVE  RateInv' /\ (forgiven' # forgiven => Cardinality(UnexpiredBuckets(buckets)) >= MAX_BUCKETS)
  BY <1>1, ChargeKeeps
<1>2. CASE PruneBuckets
  BY <1>2, TimerKeeps
<1>3. CASE RateTick
  BY <1>3, RateTickKeeps DEF RateTick
<1>4. CASE UNCHANGED rateVars
  <2>1. /\ now \in Times /\ Table(buckets) /\ Room(buckets)
        /\ Known(buckets, admitted, forgiven) /\ Histories(admitted, refused, forgiven)
    BY RateInvNow
  <2>2. now' = now /\ buckets' = buckets /\ admitted' = admitted /\ refused' = refused /\ forgiven' = forgiven
    BY <1>4 DEF rateVars
  <2> QED BY <2>1, <2>2, RateInvNext
<1> QED BY <1>1, <1>2, <1>3, <1>4 DEF RateNext

\* No key that fits has had twice its limit of admissions within a window.
LEMMA RateInvBounds == RateInv => LimitHolds
<1> SUFFICES ASSUME RateInv PROVE LimitHolds
  OBVIOUS
<1>1. BurstBounded
  <2>1. ASSUME NEW k \in Limited \ forgiven, NEW i \in DOMAIN admitted[k], NEW j \in DOMAIN admitted[k], j = i + 2 * limit(k) - 1
        PROVE  admitted[k][j] - admitted[k][i] > shortestMs(k)
    BY <2>1 DEF RateInv, Fits
  <2> QED BY <2>1 DEF BurstBounded
<1> QED BY <1>1 DEF LimitHolds, RateInv

\* The guardian's limits hold for every number of users and channels, and for users that
\* have the key of a channel: no key gets twice its limit of messages within a window,
\* none is refused below the limit that refuses it, and the table forgives only when it
\* is full of buckets that have not expired.
THEOREM LimitIsKept == RateSpec => LimitKept
<1> DEFINE Kept == LimitHolds' /\ (forgiven' # forgiven => Cardinality(UnexpiredBuckets(buckets)) >= MAX_BUCKETS)
<1>1. RateInv /\ [RateNext]_rateVars => Kept
  <2> SUFFICES ASSUME RateInv, [RateNext]_rateVars PROVE Kept
    OBVIOUS
  <2>1. RateInv' /\ (forgiven' # forgiven => Cardinality(UnexpiredBuckets(buckets)) >= MAX_BUCKETS)
    BY RateStep
  <2>2. LimitHolds'
    BY <2>1, RateInvBounds, PTL
  <2> QED BY <2>1, <2>2
<1>2. RateInv /\ [RateNext]_rateVars => RateInv'
  BY RateStep
<1> QED BY <1>1, <1>2, RateStarts, PTL DEF RateSpec, LimitKept

(***************************************************************************)
(* The Discord channel.                                                    *)
(***************************************************************************)
\* The deliveries of a message that were taken, or are being.
Taken(m) == {t \in Tasks : MessageOf[t] = m /\ Source[t] # "ask" /\ intake[t] \in {"starting", "in"}}

\* A message is taken once for each time it was forgotten, and once more if it is
\* remembered.
TakenInv ==
  /\ intake \in [Tasks -> {"new", "starting", "in", "rejected"}]
  /\ processed \subseteq Messages /\ forgets \in [Messages -> Nat]
  /\ \A m \in Messages :
       IsFiniteSet(Taken(m)) /\ Cardinality(Taken(m)) <= forgets[m] + (IF m \in processed THEN 1 ELSE 0)

ChannelInv == QueueInv /\ LineInv /\ TakenInv

\* Nothing is taken anew.
LEMMA TakenShrinks ==
  ASSUME TakenInv, intake' \in [Tasks -> {"new", "starting", "in", "rejected"}],
         \A t \in Tasks : intake'[t] \in {"starting", "in"} /\ Source[t] # "ask" => intake[t] \in {"starting", "in"},
         processed' \subseteq Messages, forgets' \in [Messages -> Nat],
         \A m \in Messages : forgets[m] + (IF m \in processed THEN 1 ELSE 0)
                              <= forgets'[m] + (IF m \in processed' THEN 1 ELSE 0)
  PROVE  TakenInv'
<1>1. ASSUME NEW m \in Messages
      PROVE  IsFiniteSet(Taken(m)') /\ Cardinality(Taken(m)') <= forgets'[m] + (IF m \in processed' THEN 1 ELSE 0)
  <2>1. Taken(m)' \subseteq Taken(m)
    BY DEF Taken
  <2>2. IsFiniteSet(Taken(m)) /\ Cardinality(Taken(m)) <= forgets[m] + (IF m \in processed THEN 1 ELSE 0)
    BY DEF TakenInv
  <2>3. IsFiniteSet(Taken(m)') /\ Cardinality(Taken(m)') <= Cardinality(Taken(m))
    BY <2>1, <2>2, FS_Subset
  <2>4. Cardinality(Taken(m)') \in Nat /\ Cardinality(Taken(m)) \in Nat
    BY <2>2, <2>3, FS_CardinalityType
  <2>5. forgets[m] \in Nat /\ forgets'[m] \in Nat
    BY DEF TakenInv
  <2> QED BY <2>2, <2>3, <2>4, <2>5
<1> QED BY <1>1 DEF TakenInv

\* One delivery of a message that is not remembered is taken.
LEMMA TakenGrows ==
  ASSUME DeliveriesAssumption, TakenInv, NEW t \in Tasks, intake[t] = "new", MarkProcessed(t),
         NEW to \in {"starting", "in", "rejected"}, intake' = [intake EXCEPT ![t] = to], UNCHANGED forgets
  PROVE  TakenInv'
<1>1. /\ intake' \in [Tasks -> {"new", "starting", "in", "rejected"}]
      /\ \A u \in Tasks \ {t} : intake'[u] = intake[u]
      /\ processed' \subseteq Messages /\ forgets' \in [Messages -> Nat]
  BY DEF TakenInv, MarkProcessed, DeliveriesAssumption
<1>2. CASE Source[t] = "ask"
  <2>1. processed' = processed
    BY <1>2 DEF MarkProcessed
  <2>2. \A m \in Messages : forgets[m] \in Nat
    BY DEF TakenInv
  <2>3. \A m \in Messages : forgets[m] + (IF m \in processed THEN 1 ELSE 0)
                              <= forgets'[m] + (IF m \in processed' THEN 1 ELSE 0)
    BY <2>1, <2>2
  <2>4. \A u \in Tasks : intake'[u] \in {"starting", "in"} /\ Source[u] # "ask" => intake[u] \in {"starting", "in"}
    BY <1>1, <1>2
  <2> QED BY <1>1, <2>3, <2>4, TakenShrinks
<1>3. CASE Source[t] # "ask"
  <2> DEFINE n == MessageOf[t]
  <2>1. n \in Messages /\ n \notin processed /\ processed' = processed \cup {n}
    BY <1>3 DEF MarkProcessed, IsNew, DeliveriesAssumption
  <2>2. ASSUME NEW m \in Messages
        PROVE  IsFiniteSet(Taken(m)') /\ Cardinality(Taken(m)') <= forgets'[m] + (IF m \in processed' THEN 1 ELSE 0)
    <3>1. IsFiniteSet(Taken(m)) /\ Cardinality(Taken(m)) <= forgets[m] + (IF m \in processed THEN 1 ELSE 0)
      BY DEF TakenInv
    <3>2. forgets'[m] = forgets[m] /\ forgets[m] \in Nat /\ Cardinality(Taken(m)) \in Nat
      BY <3>1, FS_CardinalityType DEF TakenInv
    <3>3. CASE m # n
      <4>1. Taken(m)' \subseteq Taken(m)
        BY <1>1, <3>3 DEF Taken
      <4>2. IsFiniteSet(Taken(m)') /\ Cardinality(Taken(m)') <= Cardinality(Taken(m))
        BY <3>1, <4>1, FS_Subset
      <4>3. Cardinality(Taken(m)') \in Nat
        BY <4>2, FS_CardinalityType
      <4> QED BY <2>1, <3>1, <3>2, <3>3, <4>2, <4>3
    <3>4. CASE m = n
      <4>1. Taken(m)' \subseteq Taken(m) \cup {t}
        BY <1>1 DEF Taken
      <4>2. t \notin Taken(m)
        BY DEF Taken
      <4>3. IsFiniteSet(Taken(m) \cup {t}) /\ Cardinality(Taken(m) \cup {t}) = Cardinality(Taken(m)) + 1
        BY <3>1, <4>2, FS_AddElement
      <4>4. IsFiniteSet(Taken(m)') /\ Cardinality(Taken(m)') <= Cardinality(Taken(m)) + 1
        BY <4>1, <4>3, FS_Subset
      <4>5. Cardinality(Taken(m)') \in Nat
        BY <4>4, FS_CardinalityType
      <4>6. Cardinality(Taken(m)) <= forgets[m] + 0
        BY <2>1, <3>1, <3>4
      <4>7. m \in processed'
        BY <2>1, <3>4
      <4> QED BY <3>2, <4>4, <4>5, <4>6, <4>7
    <3> QED BY <3>3, <3>4
  <2> QED BY <1>1, <2>2 DEF TakenInv
<1> QED BY <1>2, <1>3

LEMMA TakenUntouched ==
  ASSUME TakenInv, UNCHANGED <<intake, processed, forgets>> PROVE TakenInv'
BY DEF TakenInv, Taken

\* Every action keeps the invariant.
LEMMA ChannelStep ==
  ASSUME DeliveriesAssumption, ClearsAssumption, ChannelInv, [ChannelNext]_channelVars
  PROVE  ChannelInv'
<1> USE DEF ChannelInv
<1>0. ASSUME UNCHANGED <<queueVars, guardianVars, clearVars>> PROVE QueueInv' /\ LineInv'
  <2>1. QueueInv'
    BY <1>0, QueueStep
  <2>2. UNCHANGED <<phase, key, ticket, at, line, context, handled, clearing, behind>>
    BY <1>0 DEF queueVars, guardianVars, clearVars
  <2>3. LineInv'
    BY <2>2 DEF LineInv, LineTypeOK, OnTheWay, LineInOrder, AskedInOrder, Lined
  <2> QED BY <2>1, <2>3
<1>1. ASSUME NEW t \in Tasks, Queue(t) \/ Start(t), UNCHANGED <<guardianVars, clearVars>> PROVE QueueInv' /\ LineInv'
  BY <1>1, EnqueuedFits, QueueKeeps, StartKeeps
<1>2. ASSUME NEW t \in Tasks, Reject(t) PROVE ChannelInv'
  BY <1>0, <1>2, TakenGrows DEF Reject, Intake
<1>3. ASSUME NEW t \in Tasks, TakeInThread(t) PROVE ChannelInv'
  BY <1>1, <1>3, TakenGrows DEF TakeInThread, Intake, Enqueue
<1>4. ASSUME NEW t \in Tasks, TakeElsewhere(t) PROVE ChannelInv'
  BY <1>0, <1>4, TakenGrows DEF TakeElsewhere, Intake
<1>5. \A m \in Messages : forgets[m] \in Nat
  BY DEF TakenInv
<1>6. ASSUME NEW t \in Tasks, Started(t) PROVE ChannelInv'
  <2>1. QueueInv' /\ LineInv'
    BY <1>1, <1>6 DEF Started, Enqueue
  <2>2. /\ intake' \in [Tasks -> {"new", "starting", "in", "rejected"}]
        /\ \A u \in Tasks : intake'[u] \in {"starting", "in"} /\ Source[u] # "ask" => intake[u] \in {"starting", "in"}
        /\ processed' = processed /\ forgets' = forgets
    BY <1>6 DEF Started, Intake, TakenInv
  <2>3. TakenInv'
    BY <1>5, <2>2, TakenShrinks DEF TakenInv
  <2> QED BY <2>1, <2>3
<1>7. ASSUME NEW t \in Tasks, StartFails(t) PROVE ChannelInv'
  <2>1. QueueInv' /\ LineInv'
    BY <1>0, <1>7 DEF StartFails
  <2>2. /\ intake' \in [Tasks -> {"new", "starting", "in", "rejected"}]
        /\ \A u \in Tasks : intake'[u] \in {"starting", "in"} /\ Source[u] # "ask" => intake[u] \in {"starting", "in"}
        /\ processed' = processed /\ forgets' = forgets
    BY <1>7 DEF StartFails, Intake, TakenInv
  <2>3. TakenInv'
    BY <1>5, <2>2, TakenShrinks DEF TakenInv
  <2> QED BY <2>1, <2>3
<1>8. ASSUME NEW m \in Messages, Forget(m) PROVE ChannelInv'
  <2>1. QueueInv' /\ LineInv'
    BY <1>0, <1>8 DEF Forget
  <2>2. /\ processed' = processed \ {m} /\ m \in processed /\ intake' = intake
        /\ forgets' = [forgets EXCEPT ![m] = @ + 1]
    BY <1>8 DEF Forget
  <2>3. forgets' \in [Messages -> Nat] /\ processed' \subseteq Messages
        /\ forgets'[m] = forgets[m] + 1 /\ \A o \in Messages \ {m} : forgets'[o] = forgets[o]
    BY <2>2 DEF TakenInv
  <2>4. \A o \in Messages : forgets[o] + (IF o \in processed THEN 1 ELSE 0)
                              <= forgets'[o] + (IF o \in processed' THEN 1 ELSE 0)
    BY <1>5, <2>2, <2>3
  <2>5. TakenInv'
    BY <2>2, <2>3, <2>4, TakenShrinks DEF TakenInv
  <2> QED BY <2>1, <2>5
<1>9. ASSUME NEW k \in Threads, Expire(k) PROVE ChannelInv'
  BY <1>0, <1>9, TakenUntouched DEF Expire
<1>10. CASE Forwarding
  <2>1. QueueInv' /\ LineInv'
    BY <1>10, ProceedsFits, ServesFits, ClearsFit DEF Forwarding
  <2> QED BY <1>10, <2>1, TakenUntouched DEF Forwarding, intakeVars
<1>11. ASSUME NEW c \in Clears, ClearConfirmed(c) PROVE ChannelInv'
  BY <1>11, ClearsFit, TakenUntouched DEF ClearConfirmed
<1>12. CASE UNCHANGED channelVars
  BY <1>0, <1>12, TakenUntouched DEF channelVars, intakeVars
<1> QED BY <1>2, <1>3, <1>4, <1>6, <1>7, <1>8, <1>9, <1>10, <1>11, <1>12 DEF ChannelNext, Incoming, Settles

LEMMA ChannelInitially == ASSUME ChannelInit PROVE ChannelInv
<1>1. QueueInv /\ LineInv
  BY LineInitially DEF ChannelInit
<1>2. \A m \in Messages : Taken(m) = {}
  BY DEF ChannelInit, Taken
<1>3. IsFiniteSet({}) /\ Cardinality({}) = 0
  BY FS_EmptySet
<1>4. TakenInv
  BY <1>2, <1>3 DEF TakenInv, ChannelInit
<1> QED BY <1>1, <1>4 DEF ChannelInv

\* The inductive invariant of the channel: the queue and the line are as they should
\* be, and a message is taken at most once for each time it is not remembered.
THEOREM DiscordInvariant == ChannelSpec => []ChannelInv
<1> QED BY ChannelInitially, ChannelStep, DeliveriesAssumption, ClearsAssumption, PTL DEF ChannelSpec

\* The assistant is asked in the order the channel took messages in, and what the
\* gateway delivers twice is asked again only if it was forgotten.
THEOREM DiscordAsksOnceInOrder == ChannelSpec => []AskedOnceInOrder
<1>1. ChannelInv => AskedOnceInOrder
  <2> SUFFICES ASSUME ChannelInv PROVE AskedOnceInOrder
    OBVIOUS
  <2>1. ASSUME NEW m \in Messages
        PROVE  Cardinality({t \in Tasks : MessageOf[t] = m /\ Source[t] # "ask" /\ intake[t] = "in"}) <= 1 + forgets[m]
    <3> DEFINE In == {t \in Tasks : MessageOf[t] = m /\ Source[t] # "ask" /\ intake[t] = "in"}
    <3>1. In \subseteq Taken(m)
      BY DEF Taken
    <3>2. IsFiniteSet(Taken(m)) /\ Cardinality(Taken(m)) <= forgets[m] + (IF m \in processed THEN 1 ELSE 0)
          /\ forgets[m] \in Nat
      BY DEF ChannelInv, TakenInv
    <3> HIDE DEF In
    <3>3. IsFiniteSet(In) /\ Cardinality(In) <= Cardinality(Taken(m))
      BY <3>1, <3>2, FS_Subset
    <3>4. Cardinality(In) \in Nat /\ Cardinality(Taken(m)) \in Nat
      BY <3>2, <3>3, FS_CardinalityType
    <3>5. Cardinality(In) <= 1 + forgets[m]
      BY <3>2, <3>3, <3>4
    <3> QED BY <3>5 DEF In
  <2> QED BY <2>1 DEF ChannelInv, LineInv, AskedOnceInOrder, AskedOnce
<1> QED BY <1>1, DiscordInvariant, PTL

\* A /clear that is confirmed leaves at most the running task of its conversation.
THEOREM DiscordClearLeavesOne == ChannelSpec => ClearLeavesOne
<1> DEFINE LeavesOne ==
      \A c \in Clears : clearing[c] = "ok" /\ clearing'[c] = "done" =>
        Cardinality({t \in Tasks : key[t] = ScopeOf[c] /\ phase'[t] \in {"queued", "running"}}) <= 1
<1>1. ChannelInv /\ [ChannelNext]_channelVars => [LeavesOne]_<<queueVars, clearVars>>
  <2> SUFFICES ASSUME ChannelInv, [ChannelNext]_channelVars, NEW c \in Clears, clearing[c] = "ok", clearing'[c] = "done"
               PROVE  Cardinality({t \in Tasks : key[t] = ScopeOf[c] /\ phase'[t] \in {"queued", "running"}}) <= 1
    OBVIOUS
  <2>0. clearing \in [Clears -> {"new", "sent", "line", "ok", "refused", "done"}]
    BY DEF ChannelInv, LineInv, LineTypeOK
  <2>1. ASSUME NEW d \in Clears, ClearAnswered(d) PROVE d = c
    BY <2>0, <2>1 DEF ClearAnswered, ClearGoes
  <2>2. ASSUME UNCHANGED clearVars PROVE FALSE
    BY <2>2 DEF clearVars
  <2>3. \E d \in Clears : ClearAnswered(d)
    <3>1. CASE Incoming \/ \E t \in Tasks : Settles(t)
      BY <2>2, <3>1 DEF Incoming, Reject, TakeInThread, TakeElsewhere, Forget, Expire, Settles, Started, StartFails
    <3>2. CASE Forwarding
      <4>1. ASSUME NEW t \in Tasks, Proceeds(t) \/ Aborts(t) PROVE FALSE
        BY <2>2, <4>1 DEF Proceeds, Aborts, Send, Arrives, Answer
      <4>2. ASSUME NEW k \in Keys, ServesAsk(k) PROVE FALSE
        BY <2>2, <4>2 DEF ServesAsk
      <4>3. ASSUME NEW k \in Keys, ServesClear(k) PROVE FALSE
        BY <2>0, <4>3 DEF ServesClear, ClearGoes
      <4>4. ASSUME NEW d \in Clears, ClearCommand(d) \/ ClearArrives(d) PROVE FALSE
        BY <2>0, <4>4 DEF ClearCommand, ClearArrives, ClearGoes
      <4> QED BY <3>2, <4>1, <4>2, <4>3, <4>4 DEF Forwarding, Serves
    <3>3. CASE UNCHANGED channelVars
      BY <2>2, <3>3 DEF channelVars
    <3> QED BY <3>1, <3>2, <3>3 DEF ChannelNext, ClearConfirmed
  <2>4. ClearAnswered(c)
    BY <2>1, <2>3
  <2>5. ScopeOf[c] \in Keys
    BY ClearsAssumption
  <2> QED BY <2>4, <2>5, ClearingLeavesOne DEF ClearAnswered, ChannelInv
<1> QED BY <1>1, DiscordInvariant, PTL DEF ChannelSpec, ClearLeavesOne

\* The channel uses the queue as specified: its steps are steps of the queue, or none.
THEOREM DiscordUsesQueue == ChannelSpec => QueueSpec
<1>1. ChannelInit => QueueInit
  BY DEF ChannelInit
<1>2. [ChannelNext]_channelVars => [QueueNext]_queueVars
  BY ClearsAssumption
     DEF ChannelNext, channelVars, Incoming, Reject, TakeInThread, TakeElsewhere, Forget, Expire, Settles, Started,
         StartFails, Enqueue, Proceeds, Send, Arrives, Answer, Aborts, Forwarding, Serves, ServesAsk, ServesClear,
         ClearCommand, ClearArrives, ClearConfirmed, ClearAnswered, ClearsQueue, QueueNext, ClearsAssumption
<1> QED BY <1>1, <1>2, PTL DEF ChannelSpec, QueueSpec
=============================================================================
