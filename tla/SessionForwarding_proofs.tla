--------------------- MODULE SessionForwarding_proofs ---------------------
(***************************************************************************)
(* Proofs about SessionLock and SessionForwarding, for any number of       *)
(* requests, conversations, sessions, failures and late calls. The promise *)
(* chain excludes, serves in order, and keeps its map exact; the forwarder *)
(* uses it as specified; no message reaches a session of another           *)
(* conversation; every message is delivered as its answer says; a          *)
(* conversation cleared is forgotten; a conversation has one session while *)
(* no call fails; and the forwarder is a queue per conversation            *)
(* (SerialSessions).                                                       *)
(***************************************************************************)
EXTENDS SessionForwarding, FiniteSetTheorems, SequenceTheorems, TLAPS

(***************************************************************************)
(* The lock.                                                               *)
(***************************************************************************)
\* A call that has begun carries its key and its own place in the order of
\* arrival.
Begun ==
  /\ \A r \in Reqs : stage[r] # "idle" => key[r] \in Keys /\ ticket[r] \in 1..arrivals
  /\ \A r, s \in Reqs :
       stage[r] # "idle" /\ stage[s] # "idle" /\ ticket[r] = ticket[s] => r = s

\* A chain's tail is its youngest active call; no tail, no active call.
Tails ==
  \A k \in Keys :
    /\ sessionLocks[k] # None =>
         /\ Active(sessionLocks[k])
         /\ key[sessionLocks[k]] = k
    /\ \A s \in Reqs : Active(s) /\ key[s] = k =>
         sessionLocks[k] # None /\ ticket[s] <= ticket[sessionLocks[k]]

\* An active call awaits the youngest of the active calls before it, and runs
\* only once its promise has resolved.
Links ==
  /\ \A r \in Reqs : previous[r] # None =>
       stage[previous[r]] # "idle" /\ stage[r] # "idle" /\ key[previous[r]] = key[r]
  /\ \A r \in Reqs : stage[r] = "running" => Resolved(r)
  /\ \A r, s \in Reqs :
       /\ Active(r) /\ Active(s) /\ key[r] = key[s] /\ ticket[s] < ticket[r]
       => /\ previous[r] # None
          /\ Active(previous[r])
          /\ ticket[s] <= ticket[previous[r]]

LockInv == LockTypeOK /\ Begun /\ Tails /\ Links

\* The promise r awaits resolves only when no earlier call of its key is active.
LEMMA ResolvedMeansFirst ==
  ASSUME LockInv, NEW r \in Reqs, NEW s \in Reqs,
         Active(r), Resolved(r), Active(s), key[r] = key[s]
  PROVE  ~(ticket[s] < ticket[r])
  BY DEF LockInv, Links, Resolved, Active

LEMMA InitLockInv == LockInit => LockInv
  BY NoneAssumption
     DEF LockInit, LockInv, LockTypeOK, Begun, Tails, Links, Active, Resolved

LEMMA EnterLockInv ==
  ASSUME LockInv, NEW r \in Reqs, NEW k \in Keys, Enter(r, k)
  PROVE  LockInv'
<1> USE NoneAssumption
<1>1. LockTypeOK'
  BY DEF LockInv, LockTypeOK, Enter
<1>2. Begun'
  BY DEF LockInv, LockTypeOK, Begun, Enter
<1>3. Tails'
  BY DEF LockInv, LockTypeOK, Begun, Tails, Enter, Active
<1>4. Links'
  BY DEF LockInv, LockTypeOK, Begun, Tails, Links, Enter, Active, Resolved
<1> QED
  BY <1>1, <1>2, <1>3, <1>4 DEF LockInv

LEMMA RunLockInv ==
  ASSUME LockInv, NEW r \in Reqs, Run(r)
  PROVE  LockInv'
<1> USE NoneAssumption
<1>1. LockTypeOK'
  BY DEF LockInv, LockTypeOK, Run
<1>2. Begun'
  BY DEF LockInv, LockTypeOK, Begun, Run
<1>3. Tails'
  BY DEF LockInv, LockTypeOK, Tails, Run, Active
<1>4. Links'
  BY DEF LockInv, LockTypeOK, Links, Run, Active, Resolved
<1> QED
  BY <1>1, <1>2, <1>3, <1>4 DEF LockInv

LEMMA ReleaseLockInv ==
  ASSUME LockInv, NEW r \in Reqs, Release(r)
  PROVE  LockInv'
<1> USE NoneAssumption
<1>0. /\ Active(r) /\ Resolved(r)
      /\ key[r] \in Keys
  BY DEF LockInv, Begun, Links, Release, Active
<1>1. LockTypeOK'
  BY <1>0 DEF LockInv, LockTypeOK, Release, TailAfter
<1>2. Begun'
  BY DEF LockInv, LockTypeOK, Begun, Release
<1>3. \A s \in Reqs : Active(s)' <=> Active(s) /\ s # r
  BY DEF LockInv, LockTypeOK, Release, Active
<1>4. ASSUME NEW s \in Reqs, s # r, Active(s), key[s] = key[r]
      PROVE  ticket[r] < ticket[s]
  <2>1. ~(ticket[s] < ticket[r])
    BY <1>0, <1>4, ResolvedMeansFirst
  <2> QED
    BY <1>0, <1>4, <2>1 DEF LockInv, LockTypeOK, Begun, Active
<1>5. Tails'
  <2> SUFFICES ASSUME NEW k \in Keys
               PROVE  /\ sessionLocks'[k] # None =>
                           /\ Active(sessionLocks[k])'
                           /\ key[sessionLocks[k]]' = k
                      /\ \A s \in Reqs : Active(s)' /\ key[s]' = k =>
                           /\ sessionLocks'[k] # None
                           /\ ticket[s]' <= ticket[sessionLocks[k]]'
    BY DEF Tails
  <2>1. CASE k = key[r] /\ sessionLocks[k] = r
    BY <1>0, <1>3, <1>4, <2>1
       DEF LockInv, LockTypeOK, Tails, Release, TailAfter
  <2>2. CASE ~(k = key[r] /\ sessionLocks[k] = r)
    <3>1. sessionLocks'[k] = sessionLocks[k]
      BY <1>0, <2>2 DEF LockInv, LockTypeOK, Release, TailAfter
    <3>2. sessionLocks[k] # r
      BY <2>2 DEF LockInv, LockTypeOK, Tails
    <3> QED
      BY <1>3, <3>1, <3>2 DEF LockInv, LockTypeOK, Tails, Release
  <2> QED
    BY <2>1, <2>2
<1>6. Links'
  <2>1. \A s \in Reqs : previous[s]' # None =>
          /\ stage[previous[s]]' # "idle" /\ stage[s]' # "idle"
          /\ key[previous[s]]' = key[s]'
    BY DEF LockInv, LockTypeOK, Links, Release
  <2>2. \A s \in Reqs : stage[s]' = "running" => Resolved(s)'
    BY DEF LockInv, LockTypeOK, Links, Release, Resolved
  <2>3. ASSUME NEW t \in Reqs, NEW s \in Reqs,
               Active(t)', Active(s)', key[t]' = key[s]', ticket[s]' < ticket[t]'
        PROVE  /\ previous[t]' # None
               /\ Active(previous[t])'
               /\ ticket[s]' <= ticket[previous[t]]'
    <3>1. /\ Active(t) /\ Active(s) /\ key[t] = key[s] /\ ticket[s] < ticket[t]
          /\ s # r /\ t # r
      BY <1>3, <2>3 DEF Release
    <3>2. /\ previous[t] \in Reqs /\ Active(previous[t])
          /\ ticket[s] <= ticket[previous[t]]
      BY <3>1 DEF LockInv, LockTypeOK, Links
    <3>3. previous[t] # r
      <4>1. SUFFICES ASSUME previous[t] = r PROVE FALSE
        OBVIOUS
      <4>2. key[s] = key[r]
        BY <3>1, <4>1 DEF LockInv, Links
      <4>3. ticket[r] < ticket[s]
        BY <1>4, <3>1, <4>2
      <4> QED
        BY <3>2, <4>1, <4>3 DEF LockInv, LockTypeOK
    <3> QED
      BY <1>3, <3>2, <3>3 DEF Release
  <2> QED
    BY <2>1, <2>2, <2>3 DEF Links
<1> QED
  BY <1>1, <1>2, <1>5, <1>6 DEF LockInv

LEMMA NextLockInv == LockInv /\ [LockNext]_lockVars => LockInv'
<1>1. ASSUME LockInv, UNCHANGED lockVars PROVE LockInv'
  BY <1>1 DEF LockInv, LockTypeOK, Begun, Tails, Links, Active, Resolved, lockVars
<1>2. ASSUME LockInv, LockNext PROVE LockInv'
  BY <1>2, EnterLockInv, RunLockInv, ReleaseLockInv DEF LockNext
<1> QED
  BY <1>1, <1>2

\* The inductive invariant of the promise chain.
THEOREM LockInvariant == LockSpec => []LockInv
  BY InitLockInv, NextLockInv, PTL DEF LockSpec

\* The lock's variables keep their types (withSessionLock).
THEOREM LockTypeCorrect == LockSpec => []LockTypeOK
  BY LockInvariant, PTL DEF LockInv

LEMMA LockExclusive == ASSUME LockInv PROVE KeyMutex
<1> SUFFICES ASSUME NEW r \in Reqs, NEW s \in Reqs,
                    stage[r] = "running", stage[s] = "running", key[r] = key[s]
             PROVE  r = s
  BY DEF KeyMutex
<1>1. Active(r) /\ Active(s) /\ Resolved(r) /\ Resolved(s)
  BY DEF LockInv, Links, Active
<1>2. ~(ticket[s] < ticket[r]) /\ ~(ticket[r] < ticket[s])
  BY <1>1, ResolvedMeansFirst
<1> QED
  BY <1>1, <1>2 DEF LockInv, LockTypeOK, Begun, Active

\* For any number of calls and keys, no two calls of one key run together.
THEOREM MutualExclusion == LockSpec => []KeyMutex
  BY LockExclusive, LockInvariant, PTL

\* For any number of calls and keys, calls of one key enter fn in the order in
\* which they came.
THEOREM ServedInOrder == LockSpec => []FirstComeFirstServed
<1>1. LockInv => FirstComeFirstServed
  <2> SUFFICES ASSUME LockInv, NEW r \in Reqs, NEW s \in Reqs, Active(r), Active(s),
                      key[r] = key[s], ticket[r] < ticket[s]
               PROVE  stage[s] = "waiting"
    BY DEF FirstComeFirstServed
  <2>1. ~Resolved(s)
    BY ResolvedMeansFirst
  <2> QED
    BY <2>1 DEF LockInv, Links, Active
<1> QED
  BY <1>1, LockInvariant, PTL

\* For any number of calls and keys, sessionLocks has an entry exactly for the
\* keys with a call in progress.
THEOREM MapIsExact == LockSpec => []ChainKept
<1>1. LockInv => ChainKept
  BY NoneAssumption DEF LockInv, LockTypeOK, Tails, ChainKept
<1> QED
  BY <1>1, LockInvariant, PTL

(***************************************************************************)
(* The forwarder: what its calls name, and where they are.                 *)
(***************************************************************************)
\* What a call names belongs to the conversation it is made for.
Names ==
  /\ \A s \in alive : title[s] # None
  /\ \A r \in Reqs : \A s \in listing[r] : title[s] # None
  /\ \A r \in Reqs : target[r] # None => title[target[r]] = key[r]
  /\ \A r \in Reqs : \A s \in todo[r] : title[s] = key[r]
  /\ \A m \in late : m.sid # None => title[m.sid] = key[m.req]
  /\ \A s \in Sids : \A i \in DOMAIN heard[s] : title[s] = key[heard[s][i]]
  /\ \A k \in DOMAIN sessionCache : title[sessionCache[k].sessionId] = k
  /\ \A k \in DOMAIN sessionTitleCache : title[sessionTitleCache[k]] = k

\* A call is made for a request that runs, and names a session where it must.
Placed ==
  /\ \A r \in Reqs : stage[r] = "idle" =>
       pc[r] = "none" /\ call[r] = "none" /\ target[r] = None /\ todo[r] = {}
  /\ \A r \in Reqs : pc[r] \in Sends \cup {"delete"} => target[r] # None
  /\ \A r \in Reqs : pc[r] = "create" /\ call[r] = "served" => target[r] # None
  /\ \A m \in late : stage[m.req] # "idle"
  /\ \A m \in late : m.op \in Sends => m.sid # None
  /\ \A s \in Sids : \A i \in DOMAIN heard[s] : stage[heard[s][i]] # "idle"

FInv == LockInv /\ TypeOK /\ Names /\ Placed

(***************************************************************************)
(* The forwarder uses the lock as SessionLock specifies it.                *)
(***************************************************************************)
LEMMA NextIsLockStep == [Next]_vars => [LockNext]_lockVars
<1> SUFFICES ASSUME [Next]_vars PROVE [LockNext]_lockVars
  OBVIOUS
<1>1. CASE UNCHANGED vars
  BY <1>1 DEF vars
<1>2. ASSUME NEW r \in Reqs, NEW k \in Keys, Arrive(r, k) PROVE LockNext
  BY <1>2 DEF Arrive, LockNext
<1>3. ASSUME NEW r \in Reqs, Continue(r) PROVE [LockNext]_lockVars
  BY <1>3 DEF Continue, AskRun, CachedAnswered, SessionAnswered, SendFailed,
       Listed, Created, Unavailable, ClearRun, ClearListed, DeleteOver,
       DeleteNext, Finish, LockNext, lockVars
<1>4. ASSUME NEW r \in Reqs, Serve(r) \/ Lose(r) PROVE UNCHANGED lockVars
  BY <1>4 DEF Serve, Lose
<1>5. ASSUME NEW m \in late, ServeLate(m) PROVE UNCHANGED lockVars
  BY <1>5 DEF ServeLate
<1>6. ASSUME PruneSessions \/ Tick PROVE UNCHANGED lockVars
  BY <1>6 DEF PruneSessions, Tick, Advance
<1> QED
  BY <1>1, <1>2, <1>3, <1>4, <1>5, <1>6 DEF Next

\* Every behaviour of the forwarder is, on the lock's variables, a behaviour
\* of SessionLock.
THEOREM UsesLock == Spec => LockSpec
<1>1. Init => LockInit
  BY DEF Init
<1> QED
  BY <1>1, NextIsLockStep, PTL DEF Spec, LockSpec

\* At most one request of a conversation runs askAssistant or
\* clearAssistantSessions at a time.
THEOREM ForwarderMutualExclusion == Spec => []KeyMutex
  BY UsesLock, MutualExclusion, PTL

\* A conversation's requests enter in the order in which they arrived.
THEOREM ForwarderServesInOrder == Spec => []FirstComeFirstServed
  BY UsesLock, ServedInOrder, PTL

(***************************************************************************)
(* Type correctness.                                                       *)
(***************************************************************************)
LEMMA TitlePut ==
  ASSUME TypeOK, NEW k \in Keys, NEW s \in Sids,
         sessionTitleCache' = Put(sessionTitleCache, k, s)
  PROVE  DOMAIN sessionTitleCache' \subseteq Keys /\ Range(sessionTitleCache)' \subseteq Sids
  BY DEF TypeOK, Put, Range

LEMMA InitTypeOK == Init => TypeOK
<1> SUFFICES ASSUME Init PROVE TypeOK
  OBVIOUS
<1>1. LockTypeOK /\ evicted \in BOOLEAN /\ late = {} /\ lost = {}
  BY InitLockInv DEF Init, LockInv
<1>2. DOMAIN sessionCache = {} /\ DOMAIN sessionTitleCache = {} /\ Range(sessionTitleCache) = {}
  BY DEF Init, EmptyMap, Range
<1> QED
  BY <1>1, <1>2, ForwardingAssumption DEF Init, TypeOK, Calls, Outcomes

\* A step of the lock keeps the lock's part.
LEMMA LockTypeStep == LockInv /\ [Next]_vars => LockTypeOK'
  BY NextIsLockStep, NextLockInv DEF LockInv

CallTypeOK ==
  /\ pc \in [Reqs -> Calls]
  /\ call \in [Reqs -> {"none", "sent", "served", "failed"}]
  /\ target \in [Reqs -> Sids \cup {None}]
  /\ asked \in [Reqs -> Nat]
  /\ result \in [Reqs -> Outcomes]

CacheTypeOK ==
  /\ DOMAIN sessionCache \subseteq Keys
  /\ \A k \in DOMAIN sessionCache :
       sessionCache[k] \in [sessionId : Sids, lastUsed : Nat]
  /\ DOMAIN sessionTitleCache \subseteq Keys
  /\ Range(sessionTitleCache) \subseteq Sids
  /\ sessionListCacheLastLoaded \in Nat

LEMMA AwaitType ==
  ASSUME TypeOK, NEW r \in Reqs, NEW c \in Calls, NEW s \in Sids \cup {None}, Await(r, c, s)
  PROVE  CallTypeOK'
  BY DEF CallTypeOK, TypeOK, Await

LEMMA FinishType ==
  ASSUME TypeOK, NEW r \in Reqs, NEW o \in Outcomes, Finish(r, o)
  PROVE  CallTypeOK'
  BY DEF CallTypeOK, TypeOK, Finish, Calls

LEMMA ContinueTypeOK ==
  ASSUME FInv, LockTypeOK', NEW r \in Reqs, Continue(r)
  PROVE  TypeOK'
<1> USE ForwardingAssumption, NoneAssumption DEF FInv
<1>0. /\ stage[r] # "idle" => key[r] \in Keys
      /\ pc[r] # "none" => stage[r] # "idle"
      /\ {"sendCached", "list", "sendListed", "create", "sendNew",
          "listToClear", "delete"} \subseteq Calls
      /\ Sids \cup {"cleared", "unavailable"} \subseteq Outcomes
  BY DEF LockInv, Begun, Placed, Calls, Outcomes
<1>a. ASSUME CallTypeOK', CacheTypeOK',
             UNCHANGED <<listing, todo, assistantVars, now, lost, evicted>>
      PROVE  TypeOK'
  BY <1>a DEF CallTypeOK, CacheTypeOK, TypeOK, assistantVars
<1>b. ASSUME UNCHANGED cacheVars PROVE CacheTypeOK'
  BY <1>b DEF CacheTypeOK, TypeOK, cacheVars
<1>c. ASSUME ForgetKey(key[r]) PROVE CacheTypeOK'
  BY <1>c DEF CacheTypeOK, ForgetKey, TypeOK, Drop, Restrict, Range
<1>1. CASE AskRun(r)
  <2>1. key[r] \in Keys
    BY <1>0, <1>1 DEF AskRun, Run
  <2>2. PICK c \in Calls, s \in Sids \cup {None} : Await(r, c, s)
    BY <1>0, <1>1, <2>1 DEF AskRun, TypeOK, CacheUsable, TitleUsable, Range
  <2> QED
    BY <1>1, <1>a, <1>b, <2>2, AwaitType DEF AskRun
<1>2. CASE CachedAnswered(r)
  <2>1. key[r] \in Keys /\ target[r] \in Sids
    BY <1>0, <1>2 DEF CachedAnswered, Placed, Sends, TypeOK
  <2>2. CallTypeOK'
    BY <1>0, <1>2, <2>1, FinishType DEF CachedAnswered
  <2>3. CacheTypeOK'
    <3>1. /\ DOMAIN sessionCache' \subseteq Keys
          /\ \A k \in DOMAIN sessionCache' :
               sessionCache'[k] \in [sessionId : Sids, lastUsed : Nat]
      BY <1>2, <2>1 DEF CachedAnswered, TypeOK
    <3> QED
      BY <1>2, <2>1, <3>1, TitlePut DEF CachedAnswered, CacheTypeOK, TypeOK
  <2> QED
    BY <1>2, <1>a, <2>2, <2>3 DEF CachedAnswered
<1>3. CASE SessionAnswered(r)
  <2>1. key[r] \in Keys /\ target[r] \in Sids
    BY <1>0, <1>3 DEF SessionAnswered, Placed, Sends, TypeOK
  <2>2. CallTypeOK'
    BY <1>0, <1>3, <2>1, FinishType DEF SessionAnswered
  <2>3. CacheTypeOK'
    <3>1. /\ DOMAIN sessionCache' \subseteq Keys
          /\ \A k \in DOMAIN sessionCache' :
               sessionCache'[k] \in [sessionId : Sids, lastUsed : Nat]
      BY <1>3, <2>1 DEF SessionAnswered, Remember, TypeOK, Put
    <3> QED
      BY <1>3, <2>1, <3>1, TitlePut DEF SessionAnswered, Remember, CacheTypeOK, TypeOK
  <2> QED
    BY <1>3, <1>a, <2>2, <2>3 DEF SessionAnswered
<1>4. CASE SendFailed(r)
  <2>1. PICK c \in Calls, s \in Sids \cup {None} : Await(r, c, s)
    BY <1>0, <1>4 DEF SendFailed
  <2> QED
    BY <1>4, <1>a, <1>c, <2>1, AwaitType DEF SendFailed
<1>5. CASE Listed(r)
  <2>1. PICK f \in Refills(listing[r]) :
          /\ sessionTitleCache' = f
          /\ IF key[r] \in DOMAIN f THEN Await(r, "sendListed", f[key[r]])
                                    ELSE Await(r, "create", None)
    BY <1>5 DEF Listed
  <2>2. /\ DOMAIN f \subseteq Keys
        /\ \A t \in DOMAIN f : f[t] \in Sids
    BY DEF Refills, TypeOK, Names
  <2>3. PICK c \in Calls, s \in Sids \cup {None} : Await(r, c, s)
    BY <1>0, <2>1, <2>2
  <2>4. CacheTypeOK'
    BY <1>5, <2>1, <2>2 DEF Listed, CacheTypeOK, TypeOK, Range
  <2> QED
    BY <1>5, <1>a, <2>3, <2>4, AwaitType DEF Listed
<1>6. CASE Created(r)
  <2>1. target[r] \in Sids \cup {None}
    BY DEF TypeOK
  <2> QED
    BY <1>0, <1>6, <1>a, <1>b, <2>1, AwaitType DEF Created
<1>7. CASE Unavailable(r)
  BY <1>0, <1>7, <1>a, <1>b, FinishType DEF Unavailable
<1>8. CASE ClearRun(r)
  BY <1>0, <1>8, <1>a, <1>c, AwaitType DEF ClearRun
<1>9. ASSUME NEW S \in SUBSET Sids, DeleteNext(r, S),
             UNCHANGED <<cacheVars, listing, assistantVars, now, lost, evicted>>
      PROVE  TypeOK'
  <2>1. CacheTypeOK'
    BY <1>9, <1>b
  <2>2. CASE Finish(r, "cleared") /\ UNCHANGED todo
    BY <1>0, <1>9, <1>a, <2>1, <2>2, FinishType
  <2>3. ASSUME NEW s \in S, Await(r, "delete", s), todo' = [todo EXCEPT ![r] = S \ {s}]
        PROVE  TypeOK'
    <3>1. CallTypeOK'
      BY <1>0, <1>9, <2>3, AwaitType
    <3>2. todo' \in [Reqs -> SUBSET Sids]
      BY <1>9, <2>3 DEF TypeOK
    <3> QED
      BY <1>9, <2>1, <3>1, <3>2 DEF CallTypeOK, CacheTypeOK, TypeOK, assistantVars
  <2> QED
    BY <1>9, <2>2, <2>3 DEF DeleteNext
<1>10. CASE ClearListed(r)
  <2>1. Matching(r) \in SUBSET Sids
    BY DEF Matching, TypeOK
  <2> QED
    BY <1>9, <1>10, <2>1 DEF ClearListed
<1>11. CASE DeleteOver(r)
  <2>1. todo[r] \in SUBSET Sids
    BY DEF TypeOK
  <2> QED
    BY <1>9, <1>11, <2>1 DEF DeleteOver
<1> QED
  BY <1>1, <1>2, <1>3, <1>4, <1>5, <1>6, <1>7, <1>8, <1>10, <1>11 DEF Continue

LEMMA EnvironmentTypeOK ==
  ASSUME FInv, LockTypeOK',
         \/ \E r \in Reqs : (\E k \in Keys : Arrive(r, k)) \/ Serve(r) \/ Lose(r)
         \/ \E m \in late : ServeLate(m)
         \/ PruneSessions
         \/ Tick
  PROVE  TypeOK'
<1> USE ForwardingAssumption, NoneAssumption DEF FInv
<1>1. ASSUME NEW r \in Reqs, NEW k \in Keys, Arrive(r, k) PROVE TypeOK'
  BY <1>1 DEF Arrive, TypeOK, cacheVars, callVars, assistantVars
<1>2. ASSUME NEW r \in Reqs, NEW s \in Sids, stage[r] # "idle", NewSession(r, s)
      PROVE  title' \in [Sids -> Keys \cup {None}] /\ alive' \subseteq Sids
  BY <1>2 DEF NewSession, TypeOK, LockInv, Begun
<1>3. ASSUME NEW r \in Reqs, NEW s \in Sids, Deliver(r, s)
      PROVE  heard' \in [Sids -> Seq(Reqs)]
  BY <1>3 DEF Deliver, TypeOK
<1>4. ASSUME NEW r \in Reqs, Serve(r) PROVE TypeOK'
  <2>1. /\ stage[r] # "idle"
        /\ call' \in [Reqs -> {"none", "sent", "served", "failed"}]
        /\ listing' \in [Reqs -> SUBSET Sids]
    BY <1>4 DEF Serve, Placed, TypeOK
  <2>2. heard' \in [Sids -> Seq(Reqs)]
    <3>1. CASE UNCHANGED heard
      BY <3>1 DEF TypeOK
    <3>2. CASE pc[r] \in Sends /\ target[r] \in alive /\ Deliver(r, target[r])
      BY <1>3, <3>2 DEF TypeOK
    <3> QED
      BY <1>4, <3>1, <3>2 DEF Serve
  <2>3. /\ title' \in [Sids -> Keys \cup {None}] /\ alive' \subseteq Sids
        /\ target' \in [Reqs -> Sids \cup {None}]
    <3>1. ASSUME NEW s \in Sids, NewSession(r, s), target' = [target EXCEPT ![r] = s]
          PROVE  /\ title' \in [Sids -> Keys \cup {None}] /\ alive' \subseteq Sids
                 /\ target' \in [Reqs -> Sids \cup {None}]
      BY <1>2, <2>1, <3>1 DEF TypeOK
    <3>2. ASSUME UNCHANGED <<title, target>>, alive' \subseteq alive
          PROVE  /\ title' \in [Sids -> Keys \cup {None}] /\ alive' \subseteq Sids
                 /\ target' \in [Reqs -> Sids \cup {None}]
      BY <3>2 DEF TypeOK
    <3> QED
      BY <1>4, <3>1, <3>2 DEF Serve
  <2> QED
    BY <1>4, <2>1, <2>2, <2>3 DEF Serve, TypeOK, cacheVars
<1>5. ASSUME NEW r \in Reqs, Lose(r) PROVE TypeOK'
  <2>1. pc[r] \in Calls /\ target[r] \in Sids \cup {None}
    BY DEF TypeOK
  <2>2. /\ late' \subseteq [op : Calls, req : Reqs, sid : Sids \cup {None}]
        /\ lost' \subseteq Reqs \X Calls
        /\ call' \in [Reqs -> {"none", "sent", "served", "failed"}]
    BY <1>5, <2>1 DEF Lose, TypeOK
  <2> QED
    BY <1>5, <2>2 DEF Lose, TypeOK, cacheVars
<1>6. ASSUME NEW m \in late, ServeLate(m) PROVE TypeOK'
  <2>1. m.req \in Reqs /\ stage[m.req] # "idle"
    BY DEF TypeOK, Placed
  <2>2. heard' \in [Sids -> Seq(Reqs)]
    BY <1>3, <1>6, <2>1 DEF ServeLate, TypeOK
  <2>3. /\ title' \in [Sids -> Keys \cup {None}] /\ alive' \subseteq Sids
    BY <1>2, <1>6, <2>1 DEF ServeLate, TypeOK
  <2> QED
    BY <1>6, <2>2, <2>3 DEF ServeLate, TypeOK, cacheVars, callVars
<1>7. ASSUME PruneSessions PROVE TypeOK'
  <2>1. PICK S \in SUBSET DOMAIN sessionCache : sessionCache' = Restrict(sessionCache, S)
    BY <1>7 DEF PruneSessions, HardCap
  <2>2. evicted' \in BOOLEAN
    BY <1>7 DEF PruneSessions
  <2> QED
    BY <1>7, <2>1, <2>2 DEF PruneSessions, TypeOK, Restrict, callVars, assistantVars
<1>8. ASSUME Tick PROVE TypeOK'
  BY <1>8 DEF Tick, Advance, TypeOK, cacheVars, callVars, assistantVars
<1> QED
  BY <1>1, <1>4, <1>5, <1>6, <1>7, <1>8

(***************************************************************************)
(* What calls and caches name.                                             *)
(***************************************************************************)
CacheNames ==
  /\ \A k \in DOMAIN sessionCache : title[sessionCache[k].sessionId] = k
  /\ \A k \in DOMAIN sessionTitleCache : title[sessionTitleCache[k]] = k

\* A request that has begun keeps its key, and a session its title.
LEMMA Stable ==
  ASSUME FInv, [Next]_vars
  PROVE  /\ \A r \in Reqs : stage[r] # "idle" => key'[r] = key[r] /\ stage'[r] # "idle"
         /\ \A s \in Sids : title[s] # None => title'[s] = title[s]
<1>1. \A r \in Reqs : stage[r] # "idle" => key'[r] = key[r] /\ stage'[r] # "idle"
  BY NextIsLockStep
     DEF FInv, LockInv, LockTypeOK, LockNext, Enter, Run, Release, lockVars
<1>2. UNCHANGED title \/ \E r \in Reqs, s \in Sids : NewSession(r, s)
  BY DEF Next, vars, FInv, TypeOK, Arrive, Continue, AskRun, CachedAnswered,
       SessionAnswered, SendFailed, Listed, Created, Unavailable, ClearRun,
       ClearListed, DeleteOver, Serve, Lose, ServeLate, PruneSessions, Tick, Advance,
       assistantVars
<1> QED
  BY <1>1, <1>2 DEF NewSession, FInv, TypeOK

LEMMA ContinueNames ==
  ASSUME FInv, NEW r \in Reqs, Continue(r), UNCHANGED key
  PROVE  Names'
<1> USE NoneAssumption, ForwardingAssumption DEF FInv
<1>0. UNCHANGED assistantVars /\ UNCHANGED listing
  BY DEF Continue, AskRun, CachedAnswered, SessionAnswered, SendFailed, Listed,
       Created, Unavailable, ClearRun, ClearListed, DeleteOver
<1>1. pc[r] # "none" => stage[r] # "idle" /\ key[r] \in Keys
  BY DEF Placed, LockInv, Begun
<1>2. ASSUME CacheNames', UNCHANGED todo,
             \/ \E c \in Calls, s \in Sids \cup {None} :
                   Await(r, c, s) /\ (s # None => title[s] = key[r])
             \/ \E o \in Outcomes : Finish(r, o)
      PROVE  Names'
  <2>1. \A q \in Reqs : target'[q] # None => title[target'[q]] = key[q]
    <3>1. CASE \E c \in Calls, s \in Sids \cup {None} :
                 Await(r, c, s) /\ (s # None => title[s] = key[r])
      BY <3>1 DEF Await, Names, TypeOK
    <3>2. CASE \E o \in Outcomes : Finish(r, o)
      BY <3>2 DEF Finish, Names, TypeOK
    <3> QED
      BY <1>2, <3>1, <3>2
  <2> QED
    BY <1>0, <1>2, <2>1 DEF Names, CacheNames, assistantVars
<1>3. ASSUME UNCHANGED cacheVars PROVE CacheNames'
  BY <1>0, <1>3 DEF CacheNames, Names, cacheVars, assistantVars
<1>4. ASSUME ForgetKey(key[r]) PROVE CacheNames'
  BY <1>0, <1>4 DEF ForgetKey, CacheNames, Names, assistantVars, Drop, Restrict
<1>c. /\ {"sendCached", "list", "sendListed", "create", "sendNew",
          "listToClear", "delete"} \subseteq Calls
      /\ Sids \cup {"cleared", "unavailable"} \subseteq Outcomes
  BY DEF Calls, Outcomes
<1>5. CASE AskRun(r)
  <2>1. CacheNames' /\ UNCHANGED todo
    BY <1>3, <1>5 DEF AskRun
  <2>2. PICK c \in Calls, s \in Sids \cup {None} :
          Await(r, c, s) /\ (s # None => title[s] = key[r])
    BY <1>5, <1>c DEF AskRun, CacheUsable, TitleUsable, Names, TypeOK, Range
  <2> QED
    BY <1>2, <2>1, <2>2
<1>6. CASE CachedAnswered(r)
  <2>1. /\ key[r] \in Keys /\ target[r] \in Sids /\ title[target[r]] = key[r]
    BY <1>1, <1>6 DEF CachedAnswered, Placed, Sends, TypeOK, Names
  <2>2. CacheNames'
    BY <1>0, <1>6, <2>1 DEF CachedAnswered, CacheNames, Names, TypeOK, Put, assistantVars
  <2> QED
    BY <1>2, <1>6, <1>c, <2>1, <2>2 DEF CachedAnswered
<1>7. CASE SessionAnswered(r)
  <2>1. /\ key[r] \in Keys /\ target[r] \in Sids /\ title[target[r]] = key[r]
    BY <1>1, <1>7 DEF SessionAnswered, Placed, Sends, TypeOK, Names
  <2>2. CacheNames'
    BY <1>0, <1>7, <2>1
       DEF SessionAnswered, Remember, CacheNames, Names, TypeOK, Put, assistantVars
  <2> QED
    BY <1>2, <1>7, <1>c, <2>1, <2>2 DEF SessionAnswered
<1>8. CASE SendFailed(r)
  BY <1>2, <1>4, <1>8, <1>c DEF SendFailed
<1>9. CASE Listed(r)
  <2>1. PICK f \in Refills(listing[r]) :
          /\ sessionTitleCache' = f
          /\ IF key[r] \in DOMAIN f THEN Await(r, "sendListed", f[key[r]])
                                    ELSE Await(r, "create", None)
    BY <1>9 DEF Listed
  <2>2. \A t \in DOMAIN f : f[t] \in Sids /\ title[f[t]] = t
    BY DEF Refills, TypeOK
  <2>3. CacheNames' /\ UNCHANGED todo
    BY <1>0, <1>9, <2>1, <2>2 DEF Listed, CacheNames, Names, assistantVars
  <2>4. PICK c \in Calls, s \in Sids \cup {None} :
          Await(r, c, s) /\ (s # None => title[s] = key[r])
    BY <1>c, <2>1, <2>2
  <2> QED
    BY <1>2, <2>3, <2>4
<1>10. CASE Created(r)
  <2>1. /\ target[r] \in Sids \cup {None}
        /\ target[r] # None => title[target[r]] = key[r]
    BY DEF TypeOK, Names
  <2> QED
    BY <1>2, <1>3, <1>10, <1>c, <2>1 DEF Created
<1>11. CASE Unavailable(r)
  BY <1>2, <1>3, <1>11, <1>c DEF Unavailable
<1>12. CASE ClearRun(r)
  BY <1>2, <1>4, <1>12, <1>c DEF ClearRun
<1>13. ASSUME NEW S \in SUBSET Sids, \A s \in S : title[s] = key[r],
              DeleteNext(r, S), UNCHANGED cacheVars
       PROVE  Names'
  <2>1. CASE Finish(r, "cleared") /\ UNCHANGED todo
    BY <1>2, <1>3, <1>13, <1>c, <2>1
  <2>2. ASSUME NEW s \in S, Await(r, "delete", s), todo' = [todo EXCEPT ![r] = S \ {s}]
        PROVE  Names'
    BY <1>0, <1>3, <1>13, <2>2 DEF Await, Names, CacheNames, TypeOK, assistantVars
  <2> QED
    BY <1>13, <2>1, <2>2 DEF DeleteNext
<1>14. CASE ClearListed(r)
  <2>1. Matching(r) \in SUBSET Sids /\ \A s \in Matching(r) : title[s] = key[r]
    BY DEF Matching, TypeOK
  <2> QED
    BY <1>13, <1>14, <2>1 DEF ClearListed
<1>15. CASE DeleteOver(r)
  <2>1. todo[r] \in SUBSET Sids /\ \A s \in todo[r] : title[s] = key[r]
    BY DEF Names, TypeOK
  <2> QED
    BY <1>13, <1>15, <2>1 DEF DeleteOver
<1> QED
  BY <1>5, <1>6, <1>7, <1>8, <1>9, <1>10, <1>11, <1>12, <1>14, <1>15 DEF Continue

LEMMA AppendFacts ==
  ASSUME NEW S, NEW q \in Seq(S), NEW x \in S, NEW i \in DOMAIN Append(q, x)
  PROVE  Append(q, x)[i] = x \/ (i \in DOMAIN q /\ Append(q, x)[i] = q[i])
  OBVIOUS

\* What is named before a step is named after it.
LEMMA NamesStable ==
  ASSUME FInv, [Next]_vars
  PROVE  /\ \A s \in Sids : \A i \in DOMAIN heard[s] : title'[s] = key'[heard[s][i]]
         /\ \A r \in Reqs : target[r] # None => title'[target[r]] = key'[r]
         /\ \A r \in Reqs : \A s \in todo[r] : title'[s] = key'[r]
         /\ \A r \in Reqs : \A s \in listing[r] : title'[s] # None
         /\ \A m \in late : m.sid # None => title'[m.sid] = key'[m.req]
         /\ \A s \in alive : title'[s] # None
         /\ UNCHANGED cacheVars => CacheNames'
<1> USE NoneAssumption, ForwardingAssumption DEF FInv
<1>1. /\ \A r \in Reqs : stage[r] # "idle" => key'[r] = key[r] /\ key[r] \in Keys
      /\ \A s \in Sids : title[s] # None => title'[s] = title[s]
  BY Stable DEF LockInv, Begun
<1>2. ASSUME NEW s \in Sids, NEW i \in DOMAIN heard[s] PROVE title'[s] = key'[heard[s][i]]
  <2>1. heard[s][i] \in Reqs
    BY DEF TypeOK
  <2> QED
    BY <1>1, <2>1 DEF Names, Placed
<1>3. ASSUME NEW r \in Reqs, target[r] # None PROVE title'[target[r]] = key'[r]
  <2>1. target[r] \in Sids /\ stage[r] # "idle" /\ title[target[r]] = key[r]
    BY <1>3 DEF Names, Placed, TypeOK
  <2> QED
    BY <1>1, <2>1
<1>4. ASSUME NEW r \in Reqs, NEW s \in todo[r] PROVE title'[s] = key'[r]
  <2>1. s \in Sids /\ stage[r] # "idle" /\ title[s] = key[r]
    BY DEF Names, Placed, TypeOK
  <2> QED
    BY <1>1, <2>1
<1>5. ASSUME NEW r \in Reqs, NEW s \in listing[r] PROVE title'[s] # None
  <2>1. s \in Sids /\ title[s] # None
    BY DEF Names, TypeOK
  <2> QED
    BY <1>1, <2>1
<1>6. ASSUME NEW m \in late, m.sid # None PROVE title'[m.sid] = key'[m.req]
  <2>1. m.req \in Reqs /\ m.sid \in Sids
    BY <1>6 DEF TypeOK
  <2>2. stage[m.req] # "idle" /\ title[m.sid] = key[m.req]
    BY <1>6 DEF Names, Placed
  <2> QED
    BY <1>1, <2>1, <2>2
<1>7. ASSUME NEW s \in alive PROVE title'[s] # None
  BY <1>1, <1>7 DEF Names, TypeOK
<1>8. ASSUME UNCHANGED cacheVars PROVE CacheNames'
  <2>1. \A k \in DOMAIN sessionCache :
          k # None /\ sessionCache[k].sessionId \in Sids /\ title[sessionCache[k].sessionId] = k
    BY DEF Names, TypeOK
  <2>2. \A k \in DOMAIN sessionTitleCache :
          k # None /\ sessionTitleCache[k] \in Sids /\ title[sessionTitleCache[k]] = k
    BY DEF Names, TypeOK, Range
  <2> QED
    BY <1>1, <1>8, <2>1, <2>2 DEF CacheNames, cacheVars
<1> QED
  BY <1>2, <1>3, <1>4, <1>5, <1>6, <1>7, <1>8

LEMMA EnvironmentNames ==
  ASSUME FInv, [Next]_vars,
         \/ \E r \in Reqs : (\E k \in Keys : Arrive(r, k)) \/ Serve(r) \/ Lose(r)
         \/ \E m \in late : ServeLate(m)
         \/ PruneSessions
         \/ Tick
  PROVE  Names'
<1> USE NoneAssumption, ForwardingAssumption DEF FInv
<1>1. ASSUME UNCHANGED <<cacheVars, callVars, assistantVars>> PROVE Names'
  BY <1>1, NamesStable DEF Names, CacheNames, callVars, assistantVars
<1>2. ASSUME NEW r \in Reqs, NEW s \in Sids, Deliver(r, s), title'[s] = key'[r]
      PROVE  \A q \in Sids : \A i \in DOMAIN heard'[q] : title'[q] = key'[heard'[q][i]]
  <2> SUFFICES ASSUME NEW q \in Sids, NEW i \in DOMAIN heard'[q]
               PROVE  title'[q] = key'[heard'[q][i]]
    OBVIOUS
  <2>1. CASE q # s
    BY <1>2, <2>1, NamesStable DEF Deliver, TypeOK
  <2>2. CASE q = s
    <3>1. heard'[q] = Append(heard[s], r) /\ heard[s] \in Seq(Reqs)
      BY <1>2, <2>2 DEF Deliver, TypeOK
    <3>2. heard'[q][i] = r \/ (i \in DOMAIN heard[s] /\ heard'[q][i] = heard[s][i])
      BY <3>1, AppendFacts
    <3> QED
      BY <1>2, <2>2, <3>2, NamesStable
  <2> QED
    BY <2>1, <2>2
<1>3. ASSUME NEW r \in Reqs, NEW s \in Sids, stage[r] # "idle", NewSession(r, s), UNCHANGED key
      PROVE  title'[s] = key'[r] /\ title'[s] # None /\ alive' = alive \cup {s}
  BY <1>3 DEF NewSession, TypeOK, LockInv, Begun
<1>4. ASSUME NEW r \in Reqs, Serve(r) PROVE Names'
  <2>1. /\ stage[r] # "idle" /\ UNCHANGED <<key, todo, late>> /\ CacheNames'
    BY <1>4, NamesStable DEF Serve, Placed, lockVars
  <2>2. \A q \in Sids : \A i \in DOMAIN heard'[q] : title'[q] = key'[heard'[q][i]]
    <3>1. CASE UNCHANGED heard
      BY <3>1, NamesStable
    <3>2. CASE Deliver(r, target[r]) /\ target[r] \in alive
      <4>1. target[r] # None /\ target[r] \in Sids
        BY <3>2 DEF TypeOK
      <4> QED
        BY <1>2, <3>2, <4>1, NamesStable
    <3> QED
      BY <1>4, <3>1, <3>2 DEF Serve
  <2>3. \A q \in alive' : title'[q] # None
    <3>1. CASE alive' \subseteq alive
      BY <3>1, NamesStable
    <3>2. CASE \E s \in Sids : NewSession(r, s)
      BY <1>3, <2>1, <3>2, NamesStable
    <3> QED
      BY <1>4, <3>1, <3>2 DEF Serve
  <2>4. \A q \in Reqs : target'[q] # None => title'[target'[q]] = key'[q]
    <3>1. ASSUME NEW s \in Sids, NewSession(r, s), target' = [target EXCEPT ![r] = s]
          PROVE  \A q \in Reqs : target'[q] # None => title'[target'[q]] = key'[q]
      BY <1>3, <2>1, <3>1, NamesStable DEF TypeOK
    <3>2. CASE UNCHANGED target
      BY <3>2, NamesStable
    <3> QED
      BY <1>4, <3>1, <3>2 DEF Serve
  <2>5. \A q \in Reqs : \A s \in listing'[q] : title'[s] # None
    <3>1. CASE UNCHANGED listing
      BY <3>1, NamesStable
    <3>2. CASE listing' = [listing EXCEPT ![r] = alive]
      BY <3>2, NamesStable DEF TypeOK
    <3> QED
      BY <1>4, <3>1, <3>2 DEF Serve
  <2> QED
    BY <2>1, <2>2, <2>3, <2>4, <2>5, NamesStable DEF Names, CacheNames
<1>5. ASSUME NEW r \in Reqs, Lose(r) PROVE Names'
  <2>1. \A m \in late' : m.sid # None => title'[m.sid] = key'[m.req]
    <3>1. \A m \in late' : m \in late \/ (m.sid = target[r] /\ m.req = r)
      BY <1>5 DEF Lose
    <3> QED
      BY <3>1, NamesStable
  <2> QED
    BY <1>5, <2>1, NamesStable DEF Lose, Names, CacheNames
<1>6. ASSUME NEW m \in late, ServeLate(m) PROVE Names'
  <2>1. /\ m.req \in Reqs /\ stage[m.req] # "idle" /\ UNCHANGED <<key, callVars>>
        /\ CacheNames' /\ late' \subseteq late
    BY <1>6, NamesStable DEF ServeLate, Placed, TypeOK, lockVars
  <2>2. \A q \in Sids : \A i \in DOMAIN heard'[q] : title'[q] = key'[heard'[q][i]]
    <3>1. CASE UNCHANGED heard
      BY <3>1, NamesStable
    <3>2. CASE Deliver(m.req, m.sid) /\ m.sid \in alive
      <4>1. m.sid # None /\ m.sid \in Sids
        BY <3>2 DEF TypeOK
      <4> QED
        BY <1>2, <2>1, <3>2, <4>1, NamesStable
    <3> QED
      BY <1>6, <3>1, <3>2 DEF ServeLate
  <2>3. \A q \in alive' : title'[q] # None
    <3>1. CASE alive' \subseteq alive
      BY <3>1, NamesStable
    <3>2. CASE \E s \in Sids : NewSession(m.req, s)
      BY <1>3, <2>1, <3>2, NamesStable
    <3> QED
      BY <1>6, <3>1, <3>2 DEF ServeLate
  <2> QED
    BY <2>1, <2>2, <2>3, NamesStable DEF Names, CacheNames, callVars
<1>7. ASSUME PruneSessions PROVE Names'
  <2>1. CacheNames'
    BY <1>7 DEF PruneSessions, HardCap, Names, CacheNames, Restrict, assistantVars
  <2> QED
    BY <1>7, <2>1, NamesStable DEF PruneSessions, Names, CacheNames, callVars, assistantVars
<1> QED
  BY <1>1, <1>4, <1>5, <1>6, <1>7 DEF Arrive, Tick, Advance

\* The guardian's steps end at the next call or with the request's outcome.
LEMMA ContinueShape ==
  ASSUME FInv, NEW r \in Reqs, Continue(r)
  PROVE  \/ \E o \in Outcomes : Finish(r, o) /\ UNCHANGED todo
         \/ \E c \in Calls, s \in Sids \cup {None} :
              /\ Await(r, c, s)
              /\ c \in Sends \cup {"delete"} => s # None
              /\ \A q \in Reqs \ {r} : todo'[q] = todo[q]
<1> USE NoneAssumption, ForwardingAssumption DEF FInv
<1>0. /\ {"sendCached", "list", "sendListed", "create", "sendNew",
          "listToClear", "delete"} \subseteq Calls
      /\ Sids \cup {"cleared", "unavailable"} \subseteq Outcomes
      /\ target[r] \in Sids \cup {None}
  BY DEF Calls, Outcomes, TypeOK
<1>1. CASE AskRun(r)
  <2>1. /\ CacheUsable(key[r]) => sessionCache[key[r]].sessionId \in Sids
        /\ TitleUsable(key[r]) => sessionTitleCache[key[r]] \in Sids
    BY DEF CacheUsable, TitleUsable, TypeOK, Range
  <2> QED
    BY <1>0, <1>1, <2>1 DEF AskRun, Sends
<1>2. CASE CachedAnswered(r) \/ SessionAnswered(r)
  <2>1. target[r] \in Sids
    BY <1>0, <1>2 DEF CachedAnswered, SessionAnswered, Placed, Sends
  <2> QED
    BY <1>0, <1>2, <2>1 DEF CachedAnswered, SessionAnswered
<1>3. CASE SendFailed(r) \/ ClearRun(r)
  BY <1>0, <1>3 DEF SendFailed, ClearRun, Sends
<1>4. CASE Listed(r)
  <2>1. PICK f \in Refills(listing[r]) :
          IF key[r] \in DOMAIN f THEN Await(r, "sendListed", f[key[r]])
                                ELSE Await(r, "create", None)
    BY <1>4 DEF Listed
  <2>2. \A t \in DOMAIN f : f[t] \in Sids
    BY DEF Refills, TypeOK
  <2> QED
    BY <1>0, <1>4, <2>1, <2>2 DEF Listed, Sends
<1>5. CASE Created(r)
  BY <1>0, <1>5 DEF Created, Placed
<1>6. CASE Unavailable(r)
  BY <1>0, <1>6 DEF Unavailable
<1>7. ASSUME NEW S \in SUBSET Sids, DeleteNext(r, S)
      PROVE  \/ \E o \in Outcomes : Finish(r, o) /\ UNCHANGED todo
             \/ \E c \in Calls, s \in Sids \cup {None} :
                  /\ Await(r, c, s)
                  /\ c \in Sends \cup {"delete"} => s # None
                  /\ \A q \in Reqs \ {r} : todo'[q] = todo[q]
  <2>1. CASE \E s \in S : Await(r, "delete", s) /\ todo' = [todo EXCEPT ![r] = S \ {s}]
    BY <1>0, <2>1 DEF TypeOK
  <2> QED
    BY <1>0, <1>7, <2>1 DEF DeleteNext
<1>8. CASE ClearListed(r) \/ DeleteOver(r)
  <2>1. Matching(r) \in SUBSET Sids /\ todo[r] \in SUBSET Sids
    BY DEF Matching, TypeOK
  <2> QED
    BY <1>7, <1>8, <2>1 DEF ClearListed, DeleteOver
<1> QED
  BY <1>1, <1>2, <1>3, <1>4, <1>5, <1>6, <1>8 DEF Continue

LEMMA StepPlaced ==
  ASSUME FInv, [Next]_vars
  PROVE  Placed'
<1> USE NoneAssumption, ForwardingAssumption DEF FInv
<1>1. \A r \in Reqs : stage'[r] = "idle" => stage[r] = "idle"
  BY Stable
<1>2. \A m \in late : m.req \in Reqs /\ stage'[m.req] # "idle"
  BY <1>1 DEF Placed, TypeOK
<1>3. ASSUME NEW s \in Sids, NEW i \in DOMAIN heard[s] PROVE stage'[heard[s][i]] # "idle"
  <2>1. heard[s][i] \in Reqs
    BY DEF TypeOK
  <2> QED
    BY <1>1, <2>1 DEF Placed
<1>4. ASSUME NEW r \in Reqs, NEW s \in Sids, Deliver(r, s), stage'[r] # "idle"
      PROVE  \A q \in Sids : \A i \in DOMAIN heard'[q] : stage'[heard'[q][i]] # "idle"
  <2> SUFFICES ASSUME NEW q \in Sids, NEW i \in DOMAIN heard'[q]
               PROVE  stage'[heard'[q][i]] # "idle"
    OBVIOUS
  <2>1. CASE q # s
    BY <1>3, <1>4, <2>1 DEF Deliver, TypeOK
  <2>2. CASE q = s
    <3>1. heard'[q] = Append(heard[s], r) /\ heard[s] \in Seq(Reqs)
      BY <1>4, <2>2 DEF Deliver, TypeOK
    <3>2. heard'[q][i] = r \/ (i \in DOMAIN heard[s] /\ heard'[q][i] = heard[s][i])
      BY <3>1, AppendFacts
    <3> QED
      BY <1>3, <1>4, <2>2, <3>2
  <2> QED
    BY <2>1, <2>2
<1>5. ASSUME UNCHANGED <<callVars, late, heard>> PROVE Placed'
  BY <1>1, <1>2, <1>3, <1>5 DEF Placed, callVars
<1>6. ASSUME NEW r \in Reqs, Continue(r) PROVE Placed'
  <2>1. /\ UNCHANGED assistantVars
        /\ stage[r] # "idle"
    BY <1>6 DEF Continue, AskRun, CachedAnswered, SessionAnswered, SendFailed,
         Listed, Created, Unavailable, ClearRun, ClearListed, DeleteOver, Placed, Run
  <2>2. CASE \E o \in Outcomes : Finish(r, o) /\ UNCHANGED todo
    BY <1>1, <1>2, <1>3, <2>1, <2>2 DEF Finish, Placed, TypeOK, assistantVars, Sends
  <2>3. CASE \E c \in Calls, s \in Sids \cup {None} :
               /\ Await(r, c, s)
               /\ c \in Sends \cup {"delete"} => s # None
               /\ \A q \in Reqs \ {r} : todo'[q] = todo[q]
    <3>1. stage'[r] # "idle"
      BY <2>1, Stable
    <3> QED
      BY <1>1, <1>2, <1>3, <2>1, <2>3, <3>1 DEF Await, Placed, TypeOK, assistantVars
  <2> QED
    BY <1>6, <2>2, <2>3, ContinueShape
<1>7. ASSUME NEW r \in Reqs, Serve(r) PROVE Placed'
  <2>1. /\ stage[r] # "idle" /\ stage'[r] # "idle"
        /\ UNCHANGED <<pc, todo, late, stage>>
    BY <1>7, <1>1 DEF Serve, Placed, lockVars
  <2>2. \A q \in Sids : \A i \in DOMAIN heard'[q] : stage'[heard'[q][i]] # "idle"
    <3>1. CASE UNCHANGED heard
      BY <1>3, <3>1
    <3>2. CASE Deliver(r, target[r]) /\ target[r] \in alive
      BY <1>4, <2>1, <3>2 DEF TypeOK
    <3> QED
      BY <1>7, <3>1, <3>2 DEF Serve
  <2>3. /\ \A q \in Reqs \ {r} : call'[q] = call[q] /\ target'[q] = target[q]
        /\ \/ target'[r] = target[r] /\ pc[r] # "create"
           \/ target'[r] # None
    BY <1>7, <2>1 DEF Serve, TypeOK, Sends
  <2> QED
    BY <1>2, <2>1, <2>2, <2>3 DEF Placed
<1>8. ASSUME NEW r \in Reqs, Lose(r) PROVE Placed'
  <2>1. /\ stage[r] # "idle" /\ UNCHANGED <<stage, pc, target, todo, heard>>
        /\ \A q \in Reqs \ {r} : call'[q] = call[q]
        /\ call'[r] = "failed"
    BY <1>8 DEF Lose, Placed, TypeOK, lockVars
  <2>2. \A m \in late' : m \in late \/ (m.op = pc[r] /\ m.req = r /\ m.sid = target[r])
    BY <1>8 DEF Lose
  <2> QED
    BY <1>2, <1>3, <2>1, <2>2 DEF Placed
<1>9. ASSUME NEW m \in late, ServeLate(m) PROVE Placed'
  <2>1. \A q \in Sids : \A i \in DOMAIN heard'[q] : stage'[heard'[q][i]] # "idle"
    <3>1. CASE UNCHANGED heard
      BY <1>3, <3>1
    <3>2. CASE Deliver(m.req, m.sid) /\ m.sid \in alive
      BY <1>2, <1>4, <3>2 DEF TypeOK
    <3> QED
      BY <1>9, <3>1, <3>2 DEF ServeLate
  <2> QED
    BY <1>1, <1>2, <1>9, <2>1 DEF ServeLate, Placed, callVars
<1> QED
  BY <1>5, <1>6, <1>7, <1>8, <1>9 DEF Next, vars, Arrive, PruneSessions, Tick, Advance, assistantVars

(***************************************************************************)
(* The theorems.                                                           *)
(***************************************************************************)
LEMMA InitFInv == Init => FInv
<1> SUFFICES ASSUME Init PROVE FInv
  OBVIOUS
<1>1. LockInv /\ TypeOK
  BY InitLockInv, InitTypeOK DEF Init
<1>2. Names
  BY NoneAssumption, ForwardingAssumption DEF Init, LockInit, Names, EmptyMap
<1>3. Placed
  BY DEF Init, LockInit, Placed, Sends
<1> QED
  BY <1>1, <1>2, <1>3 DEF FInv

LEMMA StepFInv == FInv /\ [Next]_vars => FInv'
<1> SUFFICES ASSUME FInv, [Next]_vars PROVE FInv'
  OBVIOUS
<1>1. LockInv' /\ LockTypeOK'
  BY NextIsLockStep, NextLockInv DEF FInv, LockInv
<1>2. Placed'
  BY StepPlaced
<1>3. CASE UNCHANGED vars
  <2>1. TypeOK'
    BY <1>1, <1>3 DEF vars, FInv, TypeOK, Range, cacheVars, callVars, assistantVars
  <2>2. Names'
    BY <1>3 DEF vars, FInv, Names, cacheVars, callVars, assistantVars, lockVars
  <2> QED
    BY <1>1, <1>2, <2>1, <2>2 DEF FInv
<1>4. CASE \E r \in Reqs : Continue(r)
  <2>1. PICK r \in Reqs : Continue(r)
    BY <1>4
  <2>2. UNCHANGED key
    BY <2>1 DEF Continue, AskRun, CachedAnswered, SessionAnswered, SendFailed, Listed,
         Created, Unavailable, ClearRun, ClearListed, DeleteOver, DeleteNext, Finish,
         Run, Release, lockVars
  <2>3. TypeOK' /\ Names'
    BY <1>1, <2>1, <2>2, ContinueTypeOK, ContinueNames
  <2> QED
    BY <1>1, <1>2, <2>3 DEF FInv
<1>5. CASE \/ \E r \in Reqs : (\E k \in Keys : Arrive(r, k)) \/ Serve(r) \/ Lose(r)
           \/ \E m \in late : ServeLate(m)
           \/ PruneSessions
           \/ Tick
  <2>1. TypeOK' /\ Names'
    BY <1>1, <1>5, EnvironmentTypeOK, EnvironmentNames
  <2> QED
    BY <1>1, <1>2, <2>1 DEF FInv
<1> QED
  BY <1>3, <1>4, <1>5 DEF Next

\* The forwarder's variables keep their types.
THEOREM ForwarderTypeCorrect == Spec => []TypeOK
<1>1. FInv => TypeOK
  BY DEF FInv
<1> QED
  BY <1>1, InitFInv, StepFInv, PTL DEF Spec

\* For any number of requests, conversations, sessions, failed and late calls,
\* no message reaches a session of another conversation and no cache entry
\* names one.
THEOREM ConversationsApart == Spec => []OwnConversation
<1>1. FInv => OwnConversation
  BY DEF FInv, Names, OwnConversation, ToSet
<1> QED
  BY <1>1, InitFInv, StepFInv, PTL DEF Spec

\* The forwarder is sound for any number of requests, conversations and sessions:
\* types, one request of a conversation at a time, an exact map of promises.
THEOREM ForwarderIsSound == Spec => []ForwarderSound
  BY UsesLock, ForwarderTypeCorrect, ForwarderMutualExclusion, MapIsExact, PTL DEF ForwarderSound

(***************************************************************************)
(* The inductive invariant.                                                *)
(***************************************************************************)
Started(r) == stage[r] \in {"running", "released"}

\* No call starts before the earlier ones of its key are over.
InTurn ==
  \A r, s \in Reqs : Active(r) /\ Started(s) /\ key[r] = key[s] => ticket[s] <= ticket[r]

\* A request is on its way to the assistant while it runs, and has a result after that.
Stages ==
  \A r \in Reqs :
    /\ pc[r] # "none" <=> stage[r] = "running"
    /\ call[r] = "none" <=> pc[r] = "none"
    /\ result[r] # "none" <=> stage[r] = "released"
    /\ pc[r] \in {"listToClear", "delete"} \/ result[r] = "cleared" => r \in Clears
    /\ pc[r] \in Calls \ {"none", "listToClear", "delete"} \/ result[r] \in Sids => r \notin Clears

\* A call that failed, or may still take effect, is one of those lost; a message may
\* also fail because its session is gone.
FailedWereLost ==
  /\ \A r \in Reqs : call[r] = "failed" /\ pc[r] \notin {"sendCached", "sendListed"} => <<r, pc[r]>> \in lost
  /\ \A m \in late : <<m.req, m.op>> \in lost

\* That of a session just created is not.
NewAlive ==
  \A r \in Reqs : (pc[r] = "sendNew" /\ call[r] # "failed") \/ (pc[r] = "create" /\ call[r] = "served") =>
    target[r] \in alive /\ \A m \in late : m.op = "delete" => m.sid # target[r]

Failures == FailedWereLost /\ NewAlive /\ UnavailableIsTrue

\* The messages that may have failed before a call is made.
Tried(c) ==
  CASE c = "sendCached" -> {}
    [] c \in {"list", "sendListed"} -> {"sendCached"}
    [] OTHER -> {"sendCached", "sendListed"}

LostSends(r) == {c \in Sends : <<r, c>> \in lost}
LateSends(r) == {m \in late : m.req = r /\ m.op \in Sends}
Answered(r) == result[r] \in Sids \/ (pc[r] \in Sends /\ call[r] = "served")

\* Every delivery is that of a message which was lost, or of the one answered.
Counted(r) ==
  /\ stage[r] \in {"idle", "waiting"} => LostSends(r) = {}
  /\ pc[r] # "none" => LostSends(r) \subseteq Tried(pc[r]) \cup (IF call[r] = "failed" THEN {pc[r]} ELSE {})
  /\ IsFiniteSet(Deliveries(r)) /\ IsFiniteSet(LateSends(r))
  /\ Cardinality(Deliveries(r)) + Cardinality(LateSends(r))
       <= Cardinality(LostSends(r)) + (IF Answered(r) THEN 1 ELSE 0)
AllCounted == \A r \in Reqs : Counted(r)

HeardInTurn ==
  /\ \A s \in Sids : \A i \in DOMAIN heard[s] : Started(heard[s][i])
  /\ \A m \in late : Started(m.req)
  /\ InOrder

\* What a clear has found it still has to delete, is deleting, or is gone.
Found(c) == {s \in listing[c] : title[s] = key[c]}
Forgotten ==
  \A c \in Clears : <<c, "delete">> \notin lost =>
    /\ pc[c] = "delete" => \A s \in Found(c) : s \in todo[c] \/ (s = target[c] /\ call[c] = "sent") \/ s \notin alive
    /\ result[c] = "cleared" => \A s \in Found(c) : s \notin alive

\* What answers a request was not found by a clear before it.
NotFound ==
  \A c \in Clears, r \in Reqs :
    /\ result[c] = "cleared" /\ <<c, "delete">> \notin lost /\ key[c] = key[r] /\ ticket[c] < ticket[r]
    => /\ result[r] \in Sids => result[r] \notin listing[c]
       /\ pc[r] \in Sends /\ call[r] = "served" => target[r] \notin listing[c]

DeliveryInv == InTurn /\ Stages /\ Failures /\ AllCounted /\ HeardInTurn /\ Forgotten /\ NotFound

(***************************************************************************)
(* The guardian's steps, by what they do to the request that takes them.   *)
(***************************************************************************)
Steady == UNCHANGED <<key, ticket, listing, title, alive, heard, late, lost>>
OthersRest(r) ==
  \A q \in Reqs \ {r} :
    /\ stage'[q] = stage[q] /\ pc'[q] = pc[q] /\ call'[q] = call[q]
    /\ target'[q] = target[q] /\ result'[q] = result[q] /\ todo'[q] = todo[q]

Begins(r) ==
  /\ stage[r] = "waiting" /\ Resolved(r) /\ stage'[r] = "running"
  /\ call'[r] = "sent" /\ result'[r] = result[r] /\ todo'[r] = todo[r]
  /\ IF r \in Clears THEN pc'[r] = "listToClear" ELSE pc'[r] \in {"sendCached", "sendListed", "list"}

GoesOn(r) ==
  /\ stage'[r] = stage[r] /\ call'[r] = "sent" /\ result'[r] = result[r] /\ todo'[r] = todo[r]
  /\ \/ call[r] = "failed" /\ pc[r] = "sendCached" /\ pc'[r] = "list"
     \/ call[r] = "failed" /\ pc[r] = "sendListed" /\ pc'[r] = "create"
     \/ call[r] = "served" /\ pc[r] = "list" /\ pc'[r] \in {"sendListed", "create"}
     \/ call[r] = "served" /\ pc[r] = "create" /\ pc'[r] = "sendNew" /\ target'[r] = target[r]

ToDelete(r, S) ==
  \/ pc[r] = "listToClear" /\ call[r] = "served" /\ S = Found(r)
  \/ pc[r] = "delete" /\ call[r] \in {"served", "failed"} /\ S = todo[r]

DeletesOne(r) ==
  /\ stage'[r] = stage[r] /\ call'[r] = "sent" /\ result'[r] = result[r] /\ pc'[r] = "delete"
  /\ \E S \in SUBSET Sids : ToDelete(r, S) /\ target'[r] \in S /\ todo'[r] = S \ {target'[r]}

Ends(r) ==
  /\ stage[r] = "running" /\ stage'[r] = "released" /\ pc'[r] = "none" /\ call'[r] = "none" /\ todo'[r] = todo[r]
  /\ \/ pc[r] \in Sends /\ call[r] = "served" /\ result'[r] = target[r] /\ target[r] \in Sids
     \/ pc[r] \in {"list", "create", "sendNew", "listToClear"} /\ call[r] = "failed" /\ result'[r] = "unavailable"
     \/ ToDelete(r, {}) /\ result'[r] = "cleared"

LEMMA AwaitDoes ==
  ASSUME TypeOK, NEW r \in Reqs, NEW c, NEW s, Await(r, c, s), UNCHANGED stage, UNCHANGED todo
  PROVE  /\ OthersRest(r) /\ stage'[r] = stage[r] /\ result'[r] = result[r] /\ todo'[r] = todo[r]
         /\ pc'[r] = c /\ call'[r] = "sent" /\ target'[r] = s
  BY DEF TypeOK, Await, OthersRest

LEMMA FinishDoes ==
  ASSUME TypeOK, NEW r \in Reqs, NEW o, Finish(r, o), UNCHANGED todo
  PROVE  /\ OthersRest(r) /\ stage[r] = "running" /\ stage'[r] = "released" /\ todo'[r] = todo[r]
         /\ pc'[r] = "none" /\ call'[r] = "none" /\ result'[r] = o /\ UNCHANGED <<key, ticket>>
  BY DEF TypeOK, LockTypeOK, Finish, Release, OthersRest

LEMMA RunDoes ==
  ASSUME TypeOK, NEW r \in Reqs, Run(r), NEW c, NEW s, Await(r, c, s), UNCHANGED todo
  PROVE  /\ OthersRest(r) /\ stage[r] = "waiting" /\ Resolved(r) /\ stage'[r] = "running"
         /\ result'[r] = result[r] /\ todo'[r] = todo[r]
         /\ pc'[r] = c /\ call'[r] = "sent" /\ target'[r] = s /\ UNCHANGED <<key, ticket>>
  BY DEF TypeOK, LockTypeOK, Run, Await, OthersRest

LEMMA ContinueDoes ==
  ASSUME FInv, NEW r \in Reqs, Continue(r)
  PROVE  Steady /\ OthersRest(r) /\ (Begins(r) \/ GoesOn(r) \/ DeletesOne(r) \/ Ends(r))
<1>0. TypeOK
  BY DEF FInv
<1>1. CASE AskRun(r)
  <2>1. PICK c, s : c \in {"sendCached", "sendListed", "list"} /\ Await(r, c, s)
    BY <1>1 DEF AskRun
  <2>2. UNCHANGED todo /\ Run(r) /\ r \notin Clears
    BY <1>1 DEF AskRun
  <2> QED BY <1>0, <1>1, <2>1, <2>2, RunDoes DEF AskRun, Steady, Begins, assistantVars
<1>2. CASE CachedAnswered(r) \/ SessionAnswered(r)
  <2>1. Finish(r, target[r]) /\ UNCHANGED <<todo, listing, assistantVars, lost>> /\ pc[r] \in Sends /\ call[r] = "served"
    BY <1>2 DEF CachedAnswered, SessionAnswered, Sends
  <2>2. target[r] \in Sids
    BY <1>0, <2>1 DEF FInv, Placed, TypeOK
  <2> QED BY <1>0, <2>1, <2>2, FinishDoes DEF Steady, Ends, assistantVars
<1>3. CASE SendFailed(r)
  <2>1. UNCHANGED <<todo, lockVars, listing, assistantVars, lost>> /\ call[r] = "failed"
    BY <1>3 DEF SendFailed
  <2>2. \/ pc[r] = "sendCached" /\ Await(r, "list", None)
        \/ pc[r] = "sendListed" /\ Await(r, "create", None)
    BY <1>3 DEF SendFailed
  <2> QED BY <1>0, <2>1, <2>2, AwaitDoes DEF Steady, GoesOn, assistantVars, lockVars
<1>4. CASE Listed(r)
  <2>1. UNCHANGED <<todo, lockVars, listing, assistantVars, lost>> /\ call[r] = "served" /\ pc[r] = "list"
    BY <1>4 DEF Listed
  <2>2. PICK c, s : c \in {"sendListed", "create"} /\ Await(r, c, s)
    BY <1>4 DEF Listed
  <2> QED BY <1>0, <2>1, <2>2, AwaitDoes DEF Steady, GoesOn, assistantVars, lockVars
<1>5. CASE Created(r)
  <2>1. UNCHANGED <<todo, lockVars, listing, assistantVars, lost>> /\ call[r] = "served" /\ pc[r] = "create"
        /\ Await(r, "sendNew", target[r])
    BY <1>5 DEF Created
  <2> QED BY <1>0, <2>1, AwaitDoes DEF Steady, GoesOn, assistantVars, lockVars
<1>6. CASE Unavailable(r)
  <2>1. /\ UNCHANGED <<todo, listing, assistantVars, lost>> /\ Finish(r, "unavailable")
        /\ pc[r] \in {"list", "create", "sendNew", "listToClear"} /\ call[r] = "failed"
    BY <1>6 DEF Unavailable
  <2> QED BY <1>0, <2>1, FinishDoes DEF Steady, Ends, assistantVars
<1>7. CASE ClearRun(r)
  <2>1. UNCHANGED <<todo, listing, assistantVars, lost>> /\ Run(r) /\ Await(r, "listToClear", None) /\ r \in Clears
    BY <1>7 DEF ClearRun
  <2> QED BY <1>0, <2>1, RunDoes DEF Steady, Begins, assistantVars
<1>8. ASSUME NEW S \in SUBSET Sids, ToDelete(r, S), DeleteNext(r, S), UNCHANGED <<listing, assistantVars, lost>>
      PROVE  Steady /\ OthersRest(r) /\ (DeletesOne(r) \/ Ends(r))
  <2>1. CASE S = {} /\ Finish(r, "cleared") /\ UNCHANGED todo
    BY <1>0, <1>8, <2>1, FinishDoes DEF Steady, Ends, assistantVars
  <2>2. ASSUME NEW s \in S, Await(r, "delete", s), todo' = [todo EXCEPT ![r] = S \ {s}], UNCHANGED lockVars
        PROVE  Steady /\ OthersRest(r) /\ DeletesOne(r)
    <3>1. todo'[r] = S \ {s} /\ \A q \in Reqs \ {r} : todo'[q] = todo[q]
      BY <1>0, <2>2 DEF TypeOK
    <3>2. OthersRest(r) /\ stage'[r] = stage[r] /\ result'[r] = result[r] /\ pc'[r] = "delete" /\ call'[r] = "sent"
          /\ target'[r] = s
      BY <1>0, <2>2, <3>1 DEF TypeOK, Await, OthersRest, lockVars
    <3>3. Steady
      BY <1>8, <2>2 DEF Steady, assistantVars, lockVars
    <3> QED BY <1>8, <3>1, <3>2, <3>3 DEF DeletesOne
  <2> QED BY <1>8, <2>1, <2>2 DEF DeleteNext
<1>9. CASE ClearListed(r)
  <2>1. Found(r) \in SUBSET Sids /\ Found(r) = Matching(r)
    BY <1>0 DEF Found, Matching, TypeOK
  <2>2. ToDelete(r, Found(r)) /\ DeleteNext(r, Found(r)) /\ UNCHANGED <<listing, assistantVars, lost>>
    BY <1>9, <2>1 DEF ClearListed, ToDelete
  <2> QED BY <1>8, <2>1, <2>2
<1>10. CASE DeleteOver(r)
  <2>1. todo[r] \in SUBSET Sids
    BY <1>0 DEF TypeOK
  <2>2. ToDelete(r, todo[r]) /\ DeleteNext(r, todo[r]) /\ UNCHANGED <<listing, assistantVars, lost>>
    BY <1>10 DEF DeleteOver, ToDelete
  <2> QED BY <1>8, <2>1, <2>2
<1> QED BY <1>1, <1>2, <1>3, <1>4, <1>5, <1>6, <1>7, <1>9, <1>10 DEF Continue

(***************************************************************************)
(* The steps of the assistant and of the network.                          *)
(***************************************************************************)
Carried(r) ==
  \/ /\ pc[r] \in Sends /\ target[r] \in alive /\ Deliver(r, target[r]) /\ call'[r] = "served"
     /\ UNCHANGED <<target, listing, title, alive>>
  \/ /\ pc[r] \in Sends /\ target[r] \notin alive /\ call'[r] = "failed"
     /\ UNCHANGED <<target, listing, title, alive, heard>>
  \/ /\ pc[r] \in {"list", "listToClear"} /\ listing'[r] = alive /\ call'[r] = "served"
     /\ UNCHANGED <<target, title, alive, heard>>
  \/ /\ pc[r] = "create" /\ call'[r] = "served" /\ UNCHANGED <<listing, heard>>
     /\ \E s \in Sids : NewSession(r, s) /\ target'[r] = s
  \/ /\ pc[r] = "delete" /\ call'[r] = "served" /\ alive' = alive \ {target[r]}
     /\ UNCHANGED <<target, listing, title, heard>>

LEMMA ServeDoes ==
  ASSUME TypeOK, NEW r \in Reqs, Serve(r)
  PROVE  /\ call[r] = "sent" /\ Carried(r) /\ UNCHANGED <<stage, key, ticket, pc, result, todo, late, lost>>
         /\ \A q \in Reqs \ {r} : call'[q] = call[q] /\ target'[q] = target[q] /\ listing'[q] = listing[q]
<1>1. call[r] = "sent" /\ UNCHANGED <<stage, key, ticket, pc, result, todo, late, lost>>
  BY DEF Serve, lockVars
<1>2. \A q \in Reqs \ {r} : call'[q] = call[q] /\ target'[q] = target[q] /\ listing'[q] = listing[q]
  BY DEF Serve, TypeOK
<1>3. Carried(r)
  BY DEF Serve, TypeOK, Carried
<1> QED BY <1>1, <1>2, <1>3

LEMMA LoseDoes ==
  ASSUME TypeOK, NEW r \in Reqs, Lose(r)
  PROVE  /\ call[r] \in {"sent", "served"} /\ call'[r] = "failed" /\ \A q \in Reqs \ {r} : call'[q] = call[q]
         /\ UNCHANGED <<stage, key, ticket, pc, result, todo, target, listing, title, alive, heard>>
         /\ lost' = lost \cup {<<r, pc[r]>>}
         /\ \/ late' = late
            \/ /\ call[r] = "sent" /\ pc[r] \in Sends \cup {"create", "delete"}
               /\ late' = late \cup {[op |-> pc[r], req |-> r, sid |-> target[r]]}
  BY DEF Lose, TypeOK, lockVars

LateCarried(m) ==
  /\ m \in late /\ late' = late \ {m} /\ UNCHANGED <<stage, key, ticket, pc, call, result, todo, target, listing, lost>>
  /\ \/ m.op \in Sends /\ m.sid \in alive /\ Deliver(m.req, m.sid) /\ UNCHANGED <<title, alive>>
     \/ m.op = "create" /\ (\E s \in Sids : NewSession(m.req, s)) /\ UNCHANGED heard
     \/ m.op = "delete" /\ alive' = alive \ {m.sid} /\ UNCHANGED <<title, heard>>

Quiet == UNCHANGED <<stage, key, ticket, pc, call, result, todo, target, listing, title, alive, heard, late, lost>>

ArrivesOnly(r) ==
  /\ stage[r] = "idle" /\ stage'[r] = "waiting" /\ \A q \in Reqs \ {r} : stage'[q] = stage[q] /\ key'[q] = key[q] /\ ticket'[q] = ticket[q]
  /\ UNCHANGED <<pc, call, result, todo, target, listing, title, alive, heard, late, lost>>

\* Every step, by what it does.
LEMMA StepDoes ==
  ASSUME FInv, [Next]_vars
  PROVE  \/ Quiet
         \/ \E r \in Reqs : ArrivesOnly(r)
         \/ \E r \in Reqs : Steady /\ OthersRest(r) /\ (Begins(r) \/ GoesOn(r) \/ DeletesOne(r) \/ Ends(r))
         \/ \E r \in Reqs : Serve(r) \/ Lose(r)
         \/ \E m \in late : LateCarried(m)
<1>1. CASE UNCHANGED vars
  BY <1>1 DEF vars, lockVars, callVars, assistantVars, Quiet
<1>2. ASSUME NEW r \in Reqs, NEW k \in Keys, Arrive(r, k) PROVE ArrivesOnly(r)
  BY <1>2 DEF Arrive, Enter, ArrivesOnly, callVars, assistantVars, FInv, TypeOK, LockTypeOK
<1>3. ASSUME PruneSessions \/ Tick PROVE Quiet
  BY <1>3 DEF PruneSessions, Tick, lockVars, callVars, assistantVars, Quiet
<1>4. ASSUME NEW m \in late, ServeLate(m) PROVE LateCarried(m)
  BY <1>4 DEF ServeLate, LateCarried, lockVars, callVars
<1> QED BY <1>1, <1>2, <1>3, <1>4, ContinueDoes DEF Next

(***************************************************************************)
(* Each part of the invariant is kept.                                     *)
(***************************************************************************)
LEMMA InTurnStep == ASSUME LockInv, InTurn, [LockNext]_lockVars PROVE InTurn'
<1> USE DEF LockInv
<1>1. ASSUME NEW r \in Reqs, NEW k \in Keys, Enter(r, k) PROVE InTurn'
  BY <1>1 DEF Enter, InTurn, LockTypeOK, Begun, Active, Started
<1>2. ASSUME NEW r \in Reqs, Run(r) PROVE InTurn'
  <2>1. \A q \in Reqs : Active(q) /\ key[q] = key[r] => ticket[r] <= ticket[q]
    <3> SUFFICES ASSUME NEW q \in Reqs, Active(q), key[q] = key[r] PROVE ~(ticket[q] < ticket[r])
      BY DEF LockTypeOK
    <3> QED BY <1>2, ResolvedMeansFirst DEF Run, Active
  <2>2. stage'[r] = "running" /\ (\A q \in Reqs \ {r} : stage'[q] = stage[q]) /\ UNCHANGED <<key, ticket>> /\ stage[r] = "waiting"
    BY <1>2 DEF Run, LockTypeOK
  <2> QED BY <2>1, <2>2 DEF InTurn, Active, Started, LockTypeOK
<1>3. ASSUME NEW r \in Reqs, Release(r) PROVE InTurn'
  BY <1>3 DEF Release, InTurn, LockTypeOK, Active, Started
<1>4. CASE UNCHANGED lockVars
  BY <1>4 DEF lockVars, InTurn, Active, Started
<1> QED BY <1>1, <1>2, <1>3, <1>4 DEF LockNext

LEMMA StagesStep == ASSUME FInv, Stages, [Next]_vars PROVE Stages'
<1>0. TypeOK /\ LockTypeOK
  BY DEF FInv, TypeOK
<1>1. CASE Quiet
  BY <1>1 DEF Quiet, Stages
<1>2. ASSUME NEW r \in Reqs, ArrivesOnly(r) PROVE Stages'
  BY <1>2 DEF ArrivesOnly, Stages
<1>3. ASSUME NEW r \in Reqs, Steady, OthersRest(r), Begins(r) PROVE Stages'
  BY <1>3 DEF Steady, OthersRest, Begins, Stages, Calls
<1>4. ASSUME NEW r \in Reqs, Steady, OthersRest(r), GoesOn(r) PROVE Stages'
  BY <1>4 DEF Steady, OthersRest, GoesOn, Stages, Calls
<1>5. ASSUME NEW r \in Reqs, Steady, OthersRest(r), DeletesOne(r) PROVE Stages'
  BY <1>5 DEF Steady, OthersRest, DeletesOne, ToDelete, Stages, Calls
<1>6. ASSUME NEW r \in Reqs, Steady, OthersRest(r), Ends(r) PROVE Stages'
  <2>1. pc'[r] = "none" /\ call'[r] = "none" /\ stage'[r] = "released" /\ pc[r] # "none"
    BY <1>6 DEF Ends, ToDelete, Sends
  <2>2. /\ result'[r] # "none"
        /\ result'[r] = "cleared" => r \in Clears
        /\ result'[r] \in Sids => r \notin Clears
    BY <1>6, OutcomesAssumption DEF Ends, ToDelete, Stages, Sends, Calls
  <2> QED BY <1>6, <2>1, <2>2 DEF OthersRest, Stages, Calls
<1>7. ASSUME NEW r \in Reqs, Serve(r) \/ Lose(r) PROVE Stages'
  BY <1>0, <1>7, ServeDoes, LoseDoes DEF Carried, Stages
<1>8. ASSUME NEW m \in late, LateCarried(m) PROVE Stages'
  BY <1>8 DEF LateCarried, Stages
<1> QED BY <1>1, <1>2, <1>3, <1>4, <1>5, <1>6, <1>7, <1>8, StepDoes

LEMMA FailuresStep == ASSUME FInv, Stages, Failures, [Next]_vars PROVE Failures'
<1> USE NoneAssumption, ForwardingAssumption
<1>0. TypeOK /\ LockTypeOK /\ Placed /\ Names /\ LockInv
  BY DEF FInv, TypeOK
<1>1. ASSUME Quiet PROVE Failures'
  BY <1>1 DEF Quiet, Failures, FailedWereLost, NewAlive, UnavailableIsTrue
<1>2. ASSUME NEW r \in Reqs, ArrivesOnly(r) PROVE Failures'
  BY <1>2 DEF ArrivesOnly, Failures, FailedWereLost, NewAlive, UnavailableIsTrue
<1>3. ASSUME NEW r \in Reqs, Steady, OthersRest(r), Begins(r) \/ GoesOn(r) \/ DeletesOne(r) \/ Ends(r)
      PROVE  Failures'
  <2>1. FailedWereLost'
    BY <1>3 DEF Steady, OthersRest, Begins, GoesOn, DeletesOne, Ends, Failures, FailedWereLost
  <2>2. NewAlive'
    <3>1. pc'[r] = "sendNew" => pc[r] = "create" /\ call[r] = "served" /\ target'[r] = target[r]
      BY <1>3 DEF Begins, GoesOn, DeletesOne, Ends
    <3>2. ~(pc'[r] = "create" /\ call'[r] = "served")
      BY <1>3 DEF Begins, GoesOn, DeletesOne, Ends
    <3> QED BY <1>3, <3>1, <3>2 DEF Steady, OthersRest, Failures, NewAlive
  <2>3. UnavailableIsTrue'
    <3>1. result'[r] = "unavailable" => result[r] = "unavailable" \/ <<r, pc[r]>> \in lost
      <4>1. CASE Begins(r) \/ GoesOn(r) \/ DeletesOne(r)
        BY <4>1 DEF Begins, GoesOn, DeletesOne
      <4>2. CASE Ends(r)
        BY <4>2, OutcomesAssumption DEF Ends, Failures, FailedWereLost
      <4> QED BY <1>3, <4>1, <4>2
    <3>2. pc[r] \in Calls
      BY <1>0 DEF TypeOK
    <3> QED BY <1>3, <3>1, <3>2 DEF Steady, OthersRest, Failures, UnavailableIsTrue
  <2> QED BY <2>1, <2>2, <2>3 DEF Failures
<1>4. ASSUME NEW r \in Reqs, Serve(r) PROVE Failures'
  <2>0. /\ call[r] = "sent" /\ Carried(r) /\ UNCHANGED <<stage, key, pc, result, late, lost>>
        /\ \A q \in Reqs \ {r} : call'[q] = call[q] /\ target'[q] = target[q]
    BY <1>0, <1>4, ServeDoes
  <2>1. FailedWereLost'
    <3>1. call'[r] = "failed" => pc[r] \in {"sendCached", "sendListed"}
      BY <2>0 DEF Carried, Failures, NewAlive, Sends
    <3> QED BY <2>0, <3>1 DEF Failures, FailedWereLost
  <2>2. NewAlive'
    <3> SUFFICES ASSUME NEW q \in Reqs, (pc[q] = "sendNew" /\ call'[q] # "failed") \/ (pc[q] = "create" /\ call'[q] = "served")
                 PROVE  target'[q] \in alive' /\ \A m \in late : m.op = "delete" => m.sid # target'[q]
      BY <2>0 DEF NewAlive
    <3>1. CASE q = r /\ pc[r] = "create"
      <4>1. PICK s \in Sids : NewSession(r, s) /\ target'[r] = s
        BY <2>0, <3>1 DEF Carried, Sends
      <4>2. \A m \in late : m.sid # s
        <5>1. \A m \in late : m.req \in Reqs /\ stage[m.req] # "idle" /\ (m.sid # None => title[m.sid] = key[m.req])
          BY <1>0 DEF Placed, Names, TypeOK
        <5> QED BY <1>0, <4>1, <5>1 DEF NewSession, LockInv, Begun
      <4> QED BY <3>1, <4>1, <4>2 DEF NewSession
    <3>2. CASE ~(q = r /\ pc[r] = "create")
      <4>1. target'[q] = target[q] /\ target[q] \in alive /\ \A m \in late : m.op = "delete" => m.sid # target[q]
        BY <2>0, <3>2 DEF Carried, Failures, NewAlive
      <4>2. CASE pc[r] = "delete" /\ alive' = alive \ {target[r]}
        <5>1. target[r] # target[q]
          <6>1. pc[q] # pc[r] /\ stage[q] = "running" /\ stage[r] = "running"
            BY <4>2 DEF Stages
          <6>2. key[q] # key[r]
            BY <1>0, <6>1, LockExclusive DEF KeyMutex
          <6>3. target[q] # None /\ title[target[q]] = key[q]
            BY <1>0, <4>1 DEF TypeOK, Names
          <6>4. target[r] # None /\ title[target[r]] = key[r]
            BY <1>0, <4>2 DEF Placed, Names
          <6> QED BY <6>2, <6>3, <6>4
        <5> QED BY <4>1, <4>2, <5>1
      <4>3. CASE alive \subseteq alive'
        BY <4>1, <4>3
      <4> QED BY <2>0, <4>2, <4>3 DEF Carried, NewSession
    <3> QED BY <3>1, <3>2
  <2>3. UnavailableIsTrue'
    BY <2>0 DEF Failures, UnavailableIsTrue
  <2> QED BY <2>1, <2>2, <2>3 DEF Failures
<1>5. ASSUME NEW r \in Reqs, Lose(r) PROVE Failures'
  <2>0. /\ call'[r] = "failed" /\ \A q \in Reqs \ {r} : call'[q] = call[q]
        /\ call[r] # "none"
        /\ UNCHANGED <<stage, key, pc, result, target, title, alive>>
        /\ lost' = lost \cup {<<r, pc[r]>>}
        /\ \A m \in late' : m \in late \/ (m.op = pc[r] /\ m.req = r /\ m.sid = target[r])
    BY <1>0, <1>5, LoseDoes
  <2>1. FailedWereLost'
    BY <2>0 DEF Failures, FailedWereLost
  <2>2. NewAlive'
    <3> SUFFICES ASSUME NEW q \in Reqs, (pc[q] = "sendNew" /\ call'[q] # "failed") \/ (pc[q] = "create" /\ call'[q] = "served")
                 PROVE  target[q] \in alive /\ \A m \in late' : m.op = "delete" => m.sid # target[q]
      BY <2>0 DEF NewAlive
    <3>1. q # r /\ target[q] \in alive /\ \A m \in late : m.op = "delete" => m.sid # target[q]
      BY <2>0 DEF Failures, NewAlive
    <3>2. pc[r] = "delete" => target[r] # target[q]
      <4> SUFFICES ASSUME pc[r] = "delete" PROVE target[r] # target[q]
        OBVIOUS
      <4>1. stage[q] = "running" /\ stage[r] = "running"
        BY DEF Stages
      <4>2. key[q] # key[r]
        BY <1>0, <3>1, <4>1, LockExclusive DEF KeyMutex
      <4>3. target[q] # None /\ title[target[q]] = key[q]
        BY <1>0, <3>1 DEF TypeOK, Names
      <4>4. target[r] # None /\ title[target[r]] = key[r]
        BY <1>0 DEF Placed, Names
      <4> QED BY <4>2, <4>3, <4>4
    <3> QED BY <2>0, <3>1, <3>2
  <2>3. UnavailableIsTrue'
    BY <2>0 DEF Failures, UnavailableIsTrue
  <2> QED BY <2>1, <2>2, <2>3 DEF Failures
<1>6. ASSUME NEW m \in late, LateCarried(m) PROVE Failures'
  <2>1. FailedWereLost' /\ UnavailableIsTrue'
    BY <1>6 DEF LateCarried, Failures, FailedWereLost, UnavailableIsTrue
  <2>2. NewAlive'
    BY <1>6 DEF LateCarried, NewSession, Failures, NewAlive
  <2> QED BY <2>1, <2>2 DEF Failures
<1> QED BY <1>1, <1>2, <1>3, <1>4, <1>5, <1>6, StepDoes

(***************************************************************************)
(* Deliveries, failed messages and late ones are counted.                  *)
(***************************************************************************)
LEMMA DeliveryIs ==
  ASSUME NEW r, NEW p
  PROVE  p \in Deliveries(r) <=> \E s \in Sids : \E i \in DOMAIN heard[s] : p = <<s, i>> /\ heard[s][i] = r
  BY DEF Deliveries

LEMMA DeliverAdds ==
  ASSUME TypeOK, NEW q \in Reqs, NEW r \in Reqs, NEW s \in Sids, Deliver(q, s)
  PROVE  /\ Deliveries(r)' = IF q = r THEN Deliveries(r) \cup {<<s, Len(heard[s]) + 1>>} ELSE Deliveries(r)
         /\ <<s, Len(heard[s]) + 1>> \notin Deliveries(r)
<1> DEFINE new == <<s, Len(heard[s]) + 1>>
<1>1. heard[s] \in Seq(Reqs) /\ heard'[s] = Append(heard[s], q) /\ \A z \in Sids \ {s} : heard'[z] = heard[z]
  BY DEF TypeOK, Deliver
<1>2. /\ DOMAIN heard[s] = 1..Len(heard[s]) /\ DOMAIN heard'[s] = 1..(Len(heard[s]) + 1) /\ Len(heard[s]) \in Nat
      /\ \A i \in DOMAIN heard[s] : heard'[s][i] = heard[s][i]
      /\ heard'[s][Len(heard[s]) + 1] = q
  BY <1>1
<1>3. new \notin Deliveries(r)
  BY <1>2, DeliveryIs
<1>4. ASSUME NEW p PROVE p \in Deliveries(r)' <=> p \in Deliveries(r) \/ (q = r /\ p = new)
  <2>1. p \in Deliveries(r)' <=> \E z \in Sids : \E i \in DOMAIN heard'[z] : p = <<z, i>> /\ heard'[z][i] = r
    BY DEF Deliveries
  <2>2. ASSUME NEW z \in Sids, NEW i \in DOMAIN heard[z], p = <<z, i>>, heard[z][i] = r PROVE p \in Deliveries(r)'
    <3>1. i \in DOMAIN heard'[z] /\ heard'[z][i] = r
      <4>1. CASE z = s
        BY <1>2, <2>2, <4>1
      <4> QED BY <1>1, <2>2, <4>1
    <3> QED BY <2>1, <2>2, <3>1
  <2>3. q = r => new \in Deliveries(r)'
    BY <1>2, <2>1 DEF Deliveries
  <2>4. ASSUME NEW z \in Sids, NEW i \in DOMAIN heard'[z], p = <<z, i>>, heard'[z][i] = r
        PROVE  p \in Deliveries(r) \/ (q = r /\ p = new)
    BY <1>1, <1>2, <2>4, DeliveryIs
  <2> QED BY <2>1, <2>2, <2>3, <2>4, DeliveryIs
<1> QED BY <1>3, <1>4

LEMMA LostSendsFinite == ASSUME NEW r PROVE IsFiniteSet(LostSends(r)) /\ Cardinality(LostSends(r)) \in Nat
<1>1. IsFiniteSet(Sends)
  BY FS_EmptySet, FS_AddElement, IsFiniteSet({"sendCached"}), IsFiniteSet({"sendCached", "sendListed"}) DEF Sends
<1> QED BY <1>1, FS_Subset, FS_CardinalityType DEF LostSends

Settled(q) == UNCHANGED <<LostSends(q), LateSends(q), Deliveries(q)>>
Same(q) == stage'[q] = stage[q] /\ pc'[q] = pc[q] /\ call'[q] = call[q] /\ result'[q] = result[q]

LEMMA CountedSame == ASSUME NEW q \in Reqs, Counted(q), Settled(q), Same(q) PROVE Counted(q)'
  BY DEF Counted, Settled, Same, Answered

LEMMA CountedGoing ==
  ASSUME FInv, Stages, NEW r \in Reqs, Counted(r), Settled(r), Begins(r) \/ GoesOn(r) \/ DeletesOne(r) \/ Ends(r)
  PROVE  Counted(r)'
<1>1. /\ Cardinality(LostSends(r)) \in Nat /\ Cardinality(Deliveries(r)) \in Nat /\ Cardinality(LateSends(r)) \in Nat
      /\ LostSends(r) \subseteq Sends
  BY LostSendsFinite, FS_CardinalityType DEF Counted, LostSends
<1>2. stage'[r] \notin {"idle", "waiting"}
  BY DEF Begins, GoesOn, DeletesOne, Ends, ToDelete, Stages
<1>3. pc'[r] # "none" => LostSends(r) \subseteq Tried(pc'[r])
  <2>1. CASE Begins(r)
    BY <2>1 DEF Begins, Counted
  <2>2. CASE GoesOn(r)
    BY <2>2 DEF GoesOn, Counted, Tried
  <2>3. CASE DeletesOne(r)
    BY <1>1, <2>3 DEF DeletesOne, ToDelete, Counted, Tried, Sends
  <2>4. CASE Ends(r)
    BY <2>4 DEF Ends
  <2> QED BY <2>1, <2>2, <2>3, <2>4
<1>4. Answered(r) => Answered(r)'
  <2>1. result[r] = "none"
    BY DEF Begins, GoesOn, DeletesOne, Ends, ToDelete, Stages
  <2>2. "none" \notin Sids
    BY OutcomesAssumption
  <2>3. CASE Begins(r) \/ GoesOn(r) \/ DeletesOne(r)
    BY <2>1, <2>2, <2>3 DEF Begins, GoesOn, DeletesOne, ToDelete, Stages, Answered, Sends
  <2>4. CASE Ends(r)
    BY <2>1, <2>2, <2>4 DEF Ends, ToDelete, Answered, Sends
  <2> QED BY <2>3, <2>4
<1> QED BY <1>1, <1>2, <1>3, <1>4 DEF Counted, Settled

LEMMA CountedStep == ASSUME FInv, Stages, Failures, AllCounted, [Next]_vars PROVE AllCounted'
<1>0. TypeOK /\ LockTypeOK /\ Placed
  BY DEF FInv, TypeOK
<1>00. \A q \in Reqs : Counted(q)
  BY DEF AllCounted
<1> SUFFICES ASSUME NEW q \in Reqs PROVE Counted(q)'
  BY DEF AllCounted
<1>s. ASSUME UNCHANGED <<heard, late, lost>> PROVE Settled(q)
  BY <1>s DEF Settled, Deliveries, LostSends, LateSends
<1>n. /\ IsFiniteSet(LostSends(q)) /\ Cardinality(LostSends(q)) \in Nat /\ Cardinality(Deliveries(q)) \in Nat
      /\ Cardinality(LateSends(q)) \in Nat
  BY <1>00, LostSendsFinite, FS_CardinalityType DEF Counted
<1>1. CASE Quiet
  <2>1. UNCHANGED <<heard, late, lost>> /\ Same(q)
    BY <1>1 DEF Quiet, Same
  <2> QED BY <1>00, <1>s, <2>1, CountedSame
<1>2. CASE \E r \in Reqs : ArrivesOnly(r)
  <2>1. UNCHANGED <<heard, late, lost, pc, call, result>> /\ (stage'[q] = stage[q] \/ (stage[q] = "idle" /\ stage'[q] = "waiting"))
    BY <1>2 DEF ArrivesOnly
  <2>2. Settled(q)
    BY <1>s, <2>1
  <2> QED BY <1>00, <2>1, <2>2 DEF Counted, Settled, Answered
<1>3. ASSUME NEW r \in Reqs, Steady, OthersRest(r), Begins(r) \/ GoesOn(r) \/ DeletesOne(r) \/ Ends(r)
      PROVE  Counted(q)'
  <2>1. Settled(q)
    BY <1>3, <1>s DEF Steady
  <2>2. q # r => Same(q)
    BY <1>3 DEF OthersRest, Same
  <2> QED BY <1>00, <1>3, <2>1, <2>2, CountedSame, CountedGoing
<1>4. ASSUME NEW r \in Reqs, Serve(r) PROVE Counted(q)'
  <2>0. /\ call[r] = "sent" /\ Carried(r) /\ UNCHANGED <<stage, pc, result, late, lost>>
        /\ \A z \in Reqs \ {r} : call'[z] = call[z]
    BY <1>0, <1>4, ServeDoes
  <2>1. CASE UNCHANGED heard
    <3>1. Settled(q)
      BY <1>s, <2>0, <2>1
    <3>2. q # r => Same(q)
      BY <2>0 DEF Same
    <3>3. ~Answered(r) \/ result[r] \in Sids
      BY <2>0 DEF Answered
    <3>4. call'[r] \in {"served", "failed"}
      BY <2>0 DEF Carried
    <3> QED BY <1>n, <1>00, <2>0, <3>1, <3>2, <3>3, <3>4, CountedSame DEF Counted, Settled, Answered
  <2>2. CASE pc[r] \in Sends /\ target[r] \in alive /\ Deliver(r, target[r]) /\ call'[r] = "served"
    <3>1. target[r] \in Sids
      BY <1>0, <2>2 DEF TypeOK
    <3>2. LostSends(q)' = LostSends(q) /\ LateSends(q)' = LateSends(q)
      BY <2>0 DEF LostSends, LateSends
    <3>3. CASE q # r
      <4>1. Deliveries(q)' = Deliveries(q)
        BY <1>0, <2>2, <3>1, <3>3, DeliverAdds
      <4>2. Settled(q) /\ Same(q)
        BY <2>0, <3>2, <3>3, <4>1 DEF Settled, Same
      <4> QED BY <1>00, <4>2, CountedSame
    <3>4. CASE q = r
      <4>1. PICK x : Deliveries(r)' = Deliveries(r) \cup {x} /\ x \notin Deliveries(r)
        BY <1>0, <2>2, <3>1, DeliverAdds
      <4>2. IsFiniteSet(Deliveries(r)') /\ Cardinality(Deliveries(r)') = Cardinality(Deliveries(r)) + 1
        BY <1>00, <4>1, FS_AddElement DEF Counted
      <4>3. ~Answered(r) /\ Answered(r)'
        <5>1. result[r] \notin Sids
          BY <2>0, <2>2, OutcomesAssumption DEF Stages, Sends
        <5> QED BY <2>0, <2>2, <5>1 DEF Answered
      <4>4. Cardinality(Deliveries(r)) + Cardinality(LateSends(r)) <= Cardinality(LostSends(r))
        BY <1>00, <1>n, <3>4, <4>3 DEF Counted
      <4>5. stage'[r] \notin {"idle", "waiting"} /\ LostSends(r) \subseteq Tried(pc[r])
        BY <1>00, <2>0, <2>2 DEF Counted, Sends, Stages
      <4> QED BY <1>00, <1>n, <2>0, <3>2, <3>4, <4>2, <4>3, <4>4, <4>5 DEF Counted
    <3> QED BY <3>3, <3>4
  <2> QED BY <2>0, <2>1, <2>2 DEF Carried
<1>5. ASSUME NEW r \in Reqs, Lose(r) PROVE Counted(q)'
  <2>0. /\ call[r] \in {"sent", "served"} /\ call'[r] = "failed" /\ \A z \in Reqs \ {r} : call'[z] = call[z]
        /\ UNCHANGED <<stage, pc, result, heard>>
        /\ lost' = lost \cup {<<r, pc[r]>>}
        /\ \/ late' = late
           \/ /\ call[r] = "sent"
              /\ late' = late \cup {[op |-> pc[r], req |-> r, sid |-> target[r]]}
    BY <1>0, <1>5, LoseDoes
  <2>1. Deliveries(q)' = Deliveries(q)
    BY <2>0 DEF Deliveries
  <2>2. CASE q # r
    <3>1. LostSends(q)' = LostSends(q) /\ LateSends(q)' = LateSends(q)
      BY <2>0, <2>2 DEF LostSends, LateSends
    <3>2. Settled(q) /\ Same(q)
      BY <2>0, <2>1, <2>2, <3>1 DEF Settled, Same
    <3> QED BY <1>00, <3>2, CountedSame
  <2>3. CASE q = r
    <3>1. /\ stage[r] = "running" /\ pc[r] # "none" /\ result[r] \notin Sids
      BY <2>0, OutcomesAssumption DEF Stages
    <3>2. ~Answered(r)' /\ LostSends(r) \subseteq Tried(pc[r])
      BY <1>00, <2>0, <3>1 DEF Answered, Counted
    <3>3. CASE pc[r] \notin Sends
      <4>1. LostSends(r)' = LostSends(r) /\ LateSends(r)' = LateSends(r) /\ ~Answered(r)
        BY <2>0, <3>1, <3>3 DEF LostSends, LateSends, Answered
      <4> QED BY <1>00, <1>n, <2>0, <2>1, <2>3, <3>1, <3>2, <4>1 DEF Counted
    <3>4. CASE pc[r] \in Sends
      <4>1. LostSends(r)' = LostSends(r) \cup {pc[r]} /\ pc[r] \notin LostSends(r)
        BY <2>0, <3>2, <3>4 DEF LostSends, Tried, Sends
      <4>2. Cardinality(LostSends(r)') = Cardinality(LostSends(r)) + 1
        BY <1>n, <2>3, <4>1, FS_AddElement
      <4>3. /\ IsFiniteSet(LateSends(r)') /\ Cardinality(LateSends(r)') \in Nat
            /\ Cardinality(LateSends(r)') <= Cardinality(LateSends(r)) + (IF Answered(r) THEN 0 ELSE 1)
        <5>1. CASE late' = late
          BY <1>00, <1>n, <2>3, <5>1 DEF LateSends, Counted
        <5>2. CASE call[r] = "sent" /\ late' = late \cup {[op |-> pc[r], req |-> r, sid |-> target[r]]}
          <6>1. PICK m : m = [op |-> pc[r], req |-> r, sid |-> target[r]]
            OBVIOUS
          <6>2. LateSends(r)' = LateSends(r) \cup {m}
            BY <5>2, <3>4, <6>1 DEF LateSends
          <6>3. ~Answered(r)
            BY <5>2, <3>1 DEF Answered
          <6>4. IsFiniteSet(LateSends(r))
            BY <1>00 DEF Counted
          <6>5. IsFiniteSet(LateSends(r)') /\ Cardinality(LateSends(r)') \in {Cardinality(LateSends(r)), Cardinality(LateSends(r)) + 1}
            BY <6>2, <6>4, FS_AddElement
          <6> QED BY <1>n, <2>3, <6>3, <6>5
        <5> QED BY <2>0, <5>1, <5>2
      <4>4. LostSends(r)' \subseteq Tried(pc[r]) \cup {pc[r]}
        BY <3>2, <4>1
      <4> QED BY <1>00, <1>n, <2>0, <2>1, <2>3, <3>1, <3>2, <4>2, <4>3, <4>4 DEF Counted
    <3> QED BY <3>3, <3>4
  <2> QED BY <2>2, <2>3
<1>6. ASSUME NEW m \in late, LateCarried(m) PROVE Counted(q)'
  <2>0. late' = late \ {m} /\ UNCHANGED <<stage, pc, call, result, lost>> /\ Same(q)
    BY <1>6 DEF LateCarried, Same
  <2>1. LostSends(q)' = LostSends(q) /\ UNCHANGED Answered(q)
    BY <2>0 DEF LostSends, Answered
  <2>2. CASE m.op \in Sends /\ m.sid \in alive /\ Deliver(m.req, m.sid)
    <3>1. m.req \in Reqs /\ m.sid \in Sids
      BY <1>0, <2>2 DEF TypeOK
    <3>2. CASE q # m.req
      <4>1. Deliveries(q)' = Deliveries(q)
        BY <1>0, <2>2, <3>1, <3>2, DeliverAdds
      <4>2. LateSends(q)' = LateSends(q)
        BY <2>0, <3>2 DEF LateSends
      <4> QED BY <1>00, <2>0, <2>1, <4>1, <4>2, CountedSame DEF Settled
    <3>3. CASE q = m.req
      <4>1. PICK x : Deliveries(q)' = Deliveries(q) \cup {x} /\ x \notin Deliveries(q)
        BY <1>0, <2>2, <3>1, <3>3, DeliverAdds
      <4>2. IsFiniteSet(Deliveries(q)') /\ Cardinality(Deliveries(q)') = Cardinality(Deliveries(q)) + 1
        BY <1>00, <4>1, FS_AddElement DEF Counted
      <4>3. LateSends(q)' = LateSends(q) \ {m} /\ m \in LateSends(q)
        BY <2>0, <2>2, <3>3 DEF LateSends
      <4>4. IsFiniteSet(LateSends(q)') /\ Cardinality(LateSends(q)') = Cardinality(LateSends(q)) - 1
        BY <1>00, <4>3, FS_RemoveElement DEF Counted
      <4> QED BY <1>00, <1>n, <2>0, <2>1, <4>2, <4>4 DEF Counted, Same
    <3> QED BY <3>2, <3>3
  <2>3. CASE m.op \notin Sends /\ UNCHANGED heard
    <3>1. LateSends(q)' = LateSends(q) /\ Deliveries(q)' = Deliveries(q)
      BY <2>0, <2>3 DEF LateSends, Deliveries
    <3> QED BY <1>00, <2>0, <2>1, <3>1, CountedSame DEF Settled
  <2> QED BY <1>6, <2>2, <2>3 DEF LateCarried, Sends
<1> QED BY <1>1, <1>2, <1>3, <1>4, <1>5, <1>6, StepDoes

(***************************************************************************)
(* What a session hears is in turn.                                        *)
(***************************************************************************)
LEMMA HeardKept ==
  ASSUME TypeOK, NEW q \in Reqs, NEW s \in Sids, Deliver(q, s), NEW z \in Sids, NEW i \in DOMAIN heard'[z]
  PROVE  \/ i \in DOMAIN heard[z] /\ heard'[z][i] = heard[z][i]
         \/ z = s /\ i = Len(heard[s]) + 1 /\ heard'[z][i] = q /\ \A j \in DOMAIN heard[s] : j < i
<1>1. heard[s] \in Seq(Reqs) /\ heard'[s] = Append(heard[s], q) /\ (z # s => heard'[z] = heard[z])
  BY DEF TypeOK, Deliver
<1>2. CASE z = s
  BY <1>1, <1>2
<1> QED BY <1>1, <1>2

LEMMA Going ==
  ASSUME FInv, [Next]_vars
  PROVE  /\ \A r \in Reqs : stage[r] # "idle" => stage'[r] # "idle" /\ key'[r] = key[r] /\ ticket'[r] = ticket[r]
         /\ \A r \in Reqs : Started(r) => Started(r)'
         /\ lost \subseteq lost'
<1>0. TypeOK
  BY DEF FInv
<1>1. CASE Quiet
  BY <1>1 DEF Quiet, Started
<1>2. ASSUME NEW r \in Reqs, ArrivesOnly(r)
      PROVE  /\ \A q \in Reqs : stage[q] # "idle" => stage'[q] # "idle" /\ key'[q] = key[q] /\ ticket'[q] = ticket[q]
             /\ \A q \in Reqs : Started(q) => Started(q)'
             /\ lost \subseteq lost'
  BY <1>2 DEF ArrivesOnly, Started
<1>3. ASSUME NEW r \in Reqs, Steady, OthersRest(r), Begins(r) \/ GoesOn(r) \/ DeletesOne(r) \/ Ends(r)
      PROVE  /\ \A q \in Reqs : stage[q] # "idle" => stage'[q] # "idle" /\ key'[q] = key[q] /\ ticket'[q] = ticket[q]
             /\ \A q \in Reqs : Started(q) => Started(q)'
             /\ lost \subseteq lost'
  BY <1>3 DEF Steady, OthersRest, Begins, GoesOn, DeletesOne, Ends, Started
<1>4. ASSUME NEW r \in Reqs, Serve(r) \/ Lose(r) PROVE UNCHANGED <<stage, key, ticket>> /\ lost \subseteq lost'
  BY <1>0, <1>4, ServeDoes, LoseDoes
<1>5. ASSUME NEW m \in late, LateCarried(m) PROVE UNCHANGED <<stage, key, ticket>> /\ lost \subseteq lost'
  BY <1>5 DEF LateCarried
<1> QED BY <1>1, <1>2, <1>3, <1>4, <1>5, StepDoes DEF Started

\* Who makes a session hear something: the call carried out, or a late one.
LEMMA Hearing ==
  ASSUME FInv, [Next]_vars
  PROVE  \/ heard' = heard
         \/ \E r \in Reqs : Serve(r) /\ pc[r] \in Sends /\ target[r] \in alive /\ Deliver(r, target[r])
         \/ \E m \in late : m.op \in Sends /\ m.sid \in alive /\ Deliver(m.req, m.sid) /\ UNCHANGED lost
<1>0. TypeOK
  BY DEF FInv
<1>1. ASSUME NEW r \in Reqs, Serve(r)
      PROVE heard' = heard \/ (pc[r] \in Sends /\ target[r] \in alive /\ Deliver(r, target[r]))
  BY <1>0, <1>1, ServeDoes DEF Carried
<1>2. ASSUME NEW r \in Reqs, Lose(r) PROVE heard' = heard
  BY <1>0, <1>2, LoseDoes
<1>3. ASSUME NEW m \in late, LateCarried(m)
      PROVE  heard' = heard \/ (m.op \in Sends /\ m.sid \in alive /\ Deliver(m.req, m.sid) /\ UNCHANGED lost)
  BY <1>3 DEF LateCarried
<1> QED BY <1>1, <1>2, <1>3, StepDoes DEF Quiet, ArrivesOnly, Steady

LEMMA HeardInTurnStep ==
  ASSUME FInv, InTurn, Stages, Failures, HeardInTurn, [Next]_vars
  PROVE  HeardInTurn'
<1>0. TypeOK /\ LockTypeOK /\ Placed /\ Names
  BY DEF FInv, TypeOK
<1>1. ASSUME NEW z \in Sids, NEW i \in DOMAIN heard[z]
      PROVE  heard[z][i] \in Reqs /\ Started(heard[z][i]) /\ stage'[heard[z][i]] \in {"running", "released"} /\ ticket'[heard[z][i]] = ticket[heard[z][i]]
  <2>1. heard[z][i] \in Reqs
    BY <1>0 DEF TypeOK
  <2> QED BY <2>1, Going DEF HeardInTurn, Started
<1>2. \A m \in late' : Started(m.req)'
  <2>1. CASE \E r \in Reqs : Lose(r)
    <3>1. PICK r \in Reqs : Lose(r)
      BY <2>1
    <3>2. call[r] # "none" /\ UNCHANGED stage /\ \A m \in late' : m \in late \/ m.req = r
      BY <1>0, <3>1, LoseDoes
    <3> QED BY <3>2 DEF HeardInTurn, Stages, Started
  <2>2. CASE late' \subseteq late
    <3>1. \A m \in late : m.req \in Reqs
      BY <1>0 DEF TypeOK
    <3> QED BY <2>2, <3>1, Going DEF HeardInTurn
  <2>3. ASSUME NEW r \in Reqs, Serve(r) PROVE late' = late
    BY <1>0, <2>3, ServeDoes
  <2> QED BY <2>1, <2>2, <2>3, StepDoes DEF Quiet, ArrivesOnly, Steady, LateCarried
<1>3. ASSUME NEW q \in Reqs, NEW s \in Sids, Deliver(q, s), Started(q),
             \/ \E c \in Sends : <<q, c>> \in lost
             \/ Active(q) /\ title[s] = key[q]
      PROVE  (\A z \in Sids : \A i \in DOMAIN heard'[z] : stage'[heard'[z][i]] \in {"running", "released"}) /\ InOrder'
  <2>1. \A z \in Sids : \A i \in DOMAIN heard'[z] : stage'[heard'[z][i]] \in {"running", "released"}
    BY <1>0, <1>1, <1>3, HeardKept, Going DEF Started
  <2>2. ASSUME NEW z \in Sids, NEW i \in DOMAIN heard'[z], NEW j \in DOMAIN heard'[z],
               i < j, ticket'[heard'[z][i]] > ticket'[heard'[z][j]]
        PROVE  \E c \in Sends : <<heard'[z][j], c>> \in lost'
    <3>1. CASE i \in DOMAIN heard[z] /\ heard'[z][i] = heard[z][i] /\ j \in DOMAIN heard[z] /\ heard'[z][j] = heard[z][j]
      BY <1>1, <2>2, <3>1, Going DEF HeardInTurn, InOrder
    <3>2. CASE z = s /\ heard'[z][j] = q /\ i \in DOMAIN heard[z] /\ heard'[z][i] = heard[z][i]
      <4>1. CASE \E c \in Sends : <<q, c>> \in lost
        BY <3>2, <4>1, Going
      <4>2. CASE Active(q) /\ title[s] = key[q]
        <5>1. key[heard[z][i]] = key[q]
          BY <1>0, <3>2, <4>2 DEF Names
        <5>2. ticket[heard[z][i]] <= ticket[q]
          BY <1>1, <3>2, <4>2, <5>1 DEF InTurn
        <5>3. ticket'[q] = ticket[q]
          BY <4>2, Going DEF Active
        <5>4. ticket[heard[z][i]] \in Nat /\ ticket[q] \in Nat
          BY <1>0, <1>1, <3>2 DEF LockTypeOK
        <5> QED BY <1>1, <2>2, <3>2, <5>2, <5>3, <5>4
      <4> QED BY <1>3, <4>1, <4>2
    <3>3. /\ \/ i \in DOMAIN heard[z] /\ heard'[z][i] = heard[z][i]
             \/ z = s /\ i = Len(heard[s]) + 1 /\ heard'[z][i] = q /\ \A y \in DOMAIN heard[s] : y < i
          /\ \/ j \in DOMAIN heard[z] /\ heard'[z][j] = heard[z][j]
             \/ z = s /\ j = Len(heard[s]) + 1 /\ heard'[z][j] = q
      BY <1>0, <1>3, HeardKept
    <3>4. i \in Nat /\ j \in Nat
      <4>1. heard'[z] \in Seq(Reqs)
        BY <1>0, <1>3 DEF TypeOK, Deliver
      <4> QED BY <4>1
    <3> QED BY <2>2, <3>1, <3>2, <3>3, <3>4
  <2> QED BY <2>1, <2>2 DEF InOrder
<1>4. CASE heard' = heard
  BY <1>1, <1>2, <1>4, Going DEF HeardInTurn, InOrder, Started
<1>5. ASSUME NEW r \in Reqs, pc[r] \in Sends, target[r] \in alive, Deliver(r, target[r])
      PROVE  HeardInTurn'
  <2>1. Active(r) /\ Started(r)
    BY <1>5 DEF Stages, Sends, Active, Started
  <2>2. target[r] \in Sids /\ title[target[r]] = key[r]
    BY <1>0, <1>5, NoneAssumption, ForwardingAssumption DEF TypeOK, Names
  <2> QED BY <1>2, <1>3, <1>5, <2>1, <2>2 DEF HeardInTurn, Started
<1>6. ASSUME NEW m \in late, m.op \in Sends, m.sid \in alive, Deliver(m.req, m.sid)
      PROVE  HeardInTurn'
  <2>1. m.req \in Reqs /\ m.sid \in Sids
    BY <1>0, <1>6 DEF TypeOK
  <2>2. Started(m.req) /\ <<m.req, m.op>> \in lost
    BY DEF HeardInTurn, Failures, FailedWereLost
  <2> QED BY <1>2, <1>3, <1>6, <2>1, <2>2 DEF HeardInTurn, Started
<1> QED BY <1>4, <1>5, <1>6, Hearing

(***************************************************************************)
(* Clears.                                                                 *)
(***************************************************************************)
\* The sessions a clear found, and whether they are gone, are not touched by the
\* steps of others once the clear goes on to delete.
LEMMA FoundKept ==
  ASSUME FInv, Stages, [Next]_vars, NEW c \in Reqs, stage[c] # "idle", pc[c] \notin {"list", "listToClear"}
  PROVE  /\ UNCHANGED <<listing[c], key[c]>> /\ Found(c)' = Found(c)
         /\ \A s \in Found(c) : s \notin alive => s \notin alive'
<1>0. TypeOK /\ LockTypeOK /\ Names
  BY DEF FInv, TypeOK
<1>1. listing'[c] = listing[c]
  <2>1. ASSUME NEW r \in Reqs, Serve(r) PROVE listing'[c] = listing[c]
    BY <1>0, <2>1, ServeDoes DEF Carried
  <2>2. ASSUME NEW r \in Reqs, Lose(r) PROVE listing'[c] = listing[c]
    BY <1>0, <2>2, LoseDoes
  <2> QED BY <2>1, <2>2, StepDoes DEF Quiet, ArrivesOnly, Steady, LateCarried
<1>2. key'[c] = key[c] /\ \A s \in Sids : title[s] # None => title'[s] = title[s]
  BY Stable
<1>3. \A s \in listing[c] : s \in Sids /\ title[s] # None
  BY <1>0 DEF TypeOK, Names
<1>4. ASSUME NEW s \in Sids, title[s] # None, s \notin alive PROVE s \notin alive'
  <2>1. ASSUME NEW r \in Reqs, Serve(r) PROVE s \notin alive'
    BY <1>0, <1>4, <2>1, ServeDoes DEF Carried, NewSession
  <2>2. ASSUME NEW r \in Reqs, Lose(r) PROVE s \notin alive'
    BY <1>0, <1>4, <2>2, LoseDoes
  <2>3. ASSUME NEW m \in late, LateCarried(m) PROVE s \notin alive'
    BY <1>4, <2>3 DEF LateCarried, NewSession
  <2> QED BY <1>4, <2>1, <2>2, <2>3, StepDoes DEF Quiet, ArrivesOnly, Steady
<1> QED BY <1>1, <1>2, <1>3, <1>4 DEF Found

LEMMA ForgottenStep ==
  ASSUME FInv, Stages, Failures, Forgotten, [Next]_vars
  PROVE  Forgotten'
<1> USE ForwardingAssumption
<1>0. TypeOK /\ Placed
  BY DEF FInv
<1> SUFFICES ASSUME NEW c \in Clears, <<c, "delete">> \notin lost', pc'[c] = "delete" \/ result'[c] = "cleared"
             PROVE  /\ pc'[c] = "delete" =>
                         \A s \in Found(c)' : s \in todo'[c] \/ (s = target'[c] /\ call'[c] = "sent") \/ s \notin alive'
                    /\ result'[c] = "cleared" => \A s \in Found(c)' : s \notin alive'
  BY DEF Forgotten
<1>1. c \in Reqs /\ <<c, "delete">> \notin lost
  BY Going
<1>2. ASSUME UNCHANGED <<pc[c], result[c], todo[c], target[c]>>, call'[c] = call[c]
      PROVE  /\ pc'[c] = "delete" =>
                  \A s \in Found(c)' : s \in todo'[c] \/ (s = target'[c] /\ call'[c] = "sent") \/ s \notin alive'
             /\ result'[c] = "cleared" => \A s \in Found(c)' : s \notin alive'
  <2>1. stage[c] # "idle" /\ pc[c] \notin {"list", "listToClear"}
    BY <1>1, <1>2 DEF Stages
  <2>2. Found(c)' = Found(c) /\ \A s \in Found(c) : s \notin alive => s \notin alive'
    BY <1>1, <2>1, FoundKept
  <2> QED BY <1>1, <1>2, <2>2 DEF Forgotten
<1>3. ASSUME Steady, Begins(c) \/ GoesOn(c) \/ DeletesOne(c) \/ Ends(c)
      PROVE  /\ pc'[c] = "delete" =>
                  \A s \in Found(c)' : s \in todo'[c] \/ (s = target'[c] /\ call'[c] = "sent") \/ s \notin alive'
             /\ result'[c] = "cleared" => \A s \in Found(c)' : s \notin alive'
  <2>1. Found(c)' = Found(c) /\ alive' = alive
    BY <1>3 DEF Steady, Found
  <2>2. call[c] = "failed" => pc[c] # "delete"
    BY <1>1 DEF Failures, FailedWereLost
  <2>3. CASE DeletesOne(c)
    <3>1. result'[c] = "none"
      BY <1>1, <2>3 DEF DeletesOne, ToDelete, Stages
    <3>2. PICK S \in SUBSET Sids : ToDelete(c, S) /\ target'[c] \in S /\ todo'[c] = S \ {target'[c]}
      BY <2>3 DEF DeletesOne
    <3>3. \A s \in Found(c) : s \in S \/ s \notin alive
      BY <1>1, <2>2, <3>2 DEF ToDelete, Forgotten
    <3> QED BY <2>1, <2>3, <3>1, <3>2, <3>3 DEF DeletesOne
  <2>4. CASE Ends(c)
    <3>1. result'[c] = "cleared" => ToDelete(c, {})
      BY <2>4, OutcomesAssumption DEF Ends
    <3>2. ToDelete(c, {}) => \A s \in Found(c) : s \notin alive
      BY <1>1, <2>2 DEF ToDelete, Forgotten
    <3>3. pc'[c] = "none"
      BY <2>4 DEF Ends
    <3> QED BY <2>1, <3>1, <3>2, <3>3
  <2>5. CASE Begins(c) \/ GoesOn(c)
    <3>1. pc'[c] # "delete" /\ result'[c] = "none"
      BY <1>1, <2>5 DEF Begins, GoesOn, Stages
    <3> QED BY <3>1
  <2> QED BY <1>3, <2>3, <2>4, <2>5
<1>4. ASSUME NEW r \in Reqs, Steady, OthersRest(r), r # c PROVE UNCHANGED <<pc[c], result[c], todo[c], target[c]>> /\ call'[c] = call[c]
  BY <1>1, <1>4 DEF OthersRest
<1>5. ASSUME NEW r \in Reqs, Serve(r)
      PROVE  /\ pc'[c] = "delete" =>
                  \A s \in Found(c)' : s \in todo'[c] \/ (s = target'[c] /\ call'[c] = "sent") \/ s \notin alive'
             /\ result'[c] = "cleared" => \A s \in Found(c)' : s \notin alive'
  <2>1. /\ call[r] = "sent" /\ Carried(r) /\ UNCHANGED <<stage, pc, result, todo>>
        /\ \A q \in Reqs \ {r} : call'[q] = call[q] /\ target'[q] = target[q]
    BY <1>0, <1>5, ServeDoes
  <2>2. CASE r # c
    BY <1>1, <1>2, <2>1, <2>2
  <2>3. CASE r = c
    <3>1. pc[c] = "delete" /\ stage[c] = "running" /\ result[c] = "none"
      BY <1>1, <2>1, <2>3 DEF Stages
    <3>2. Found(c)' = Found(c) /\ \A s \in Found(c) : s \notin alive => s \notin alive'
      BY <1>1, <3>1, FoundKept
    <3>3. alive' = alive \ {target[c]}
      BY <2>1, <2>3, <3>1 DEF Carried, Sends
    <3> QED BY <1>1, <2>1, <3>1, <3>2, <3>3 DEF Forgotten
  <2> QED BY <2>2, <2>3
<1>6. ASSUME NEW r \in Reqs, Lose(r)
      PROVE  /\ pc'[c] = "delete" =>
                  \A s \in Found(c)' : s \in todo'[c] \/ (s = target'[c] /\ call'[c] = "sent") \/ s \notin alive'
             /\ result'[c] = "cleared" => \A s \in Found(c)' : s \notin alive'
  <2>1. /\ call[r] # "none" /\ UNCHANGED <<pc, result, todo, target>> /\ \A q \in Reqs \ {r} : call'[q] = call[q]
        /\ <<r, pc[r]>> \in lost'
    BY <1>0, <1>6, LoseDoes
  <2>2. r # c
    <3>1. pc[c] = "delete" \/ call[c] = "none"
      BY <1>1, <2>1 DEF Stages
    <3> QED BY <2>1, <3>1
  <2> QED BY <1>1, <1>2, <2>1, <2>2
<1>7. ASSUME \/ \E m \in late : LateCarried(m)
             \/ Quiet
             \/ \E r \in Reqs : ArrivesOnly(r)
      PROVE UNCHANGED <<pc[c], result[c], todo[c], target[c]>> /\ call'[c] = call[c]
  BY <1>7 DEF LateCarried, Quiet, ArrivesOnly
<1>8. ASSUME NEW r \in Reqs, Steady, OthersRest(r), Begins(r) \/ GoesOn(r) \/ DeletesOne(r) \/ Ends(r)
      PROVE  /\ pc'[c] = "delete" =>
                  \A s \in Found(c)' : s \in todo'[c] \/ (s = target'[c] /\ call'[c] = "sent") \/ s \notin alive'
             /\ result'[c] = "cleared" => \A s \in Found(c)' : s \notin alive'
  BY <1>2, <1>3, <1>4, <1>8
<1> QED BY <1>2, <1>5, <1>6, <1>7, <1>8, StepDoes

LEMMA NotFoundStep ==
  ASSUME FInv, InTurn, Stages, Forgotten, NotFound, [Next]_vars
  PROVE  NotFound'
<1> USE ForwardingAssumption
<1>0. TypeOK /\ LockTypeOK /\ Placed /\ Names
  BY DEF FInv, TypeOK
<1> SUFFICES ASSUME NEW c \in Clears, NEW r \in Reqs, result'[c] = "cleared", <<c, "delete">> \notin lost',
                    key'[c] = key'[r], ticket'[c] < ticket'[r],
                    result'[r] \in Sids \/ (pc'[r] \in Sends /\ call'[r] = "served")
             PROVE  /\ result'[r] \in Sids => result'[r] \notin listing'[c]
                    /\ pc'[r] \in Sends /\ call'[r] = "served" => target'[r] \notin listing'[c]
  BY DEF NotFound
<1>1. c \in Reqs /\ <<c, "delete">> \notin lost
  BY Going
\* A step that leaves r's call and outcome alone.
<1>2. ASSUME result'[r] = result[r], pc'[r] = pc[r], call'[r] = call[r], target'[r] = target[r], result[c] = "cleared"
      PROVE  /\ result'[r] \in Sids => result'[r] \notin listing'[c]
             /\ pc'[r] \in Sends /\ call'[r] = "served" => target'[r] \notin listing'[c]
  <2>1. stage[c] # "idle" /\ stage[r] # "idle" /\ pc[c] \notin {"list", "listToClear"}
    BY <1>1, <1>2, OutcomesAssumption DEF Stages, Sends
  <2>2. key[c] = key[r] /\ ticket[c] < ticket[r]
    BY <1>1, <2>1, Going
  <2>3. listing'[c] = listing[c]
    BY <1>1, <2>1, FoundKept
  <2> QED BY <1>1, <1>2, <2>2, <2>3 DEF NotFound
\* A clear that returns runs before the later requests of its key have started.
<1>3. ASSUME result[c] # "cleared", Ends(c), Steady, result'[r] = result[r], pc'[r] = pc[r]
      PROVE  FALSE
  <2>1. Active(c)
    BY <1>3 DEF Ends, Active
  <2>2. Started(r)
    BY <1>3, OutcomesAssumption DEF Stages, Started, Sends
  <2>3. key[c] = key[r] /\ ticket[c] < ticket[r]
    BY <1>3 DEF Steady
  <2>4. ticket[r] <= ticket[c]
    BY <1>1, <2>1, <2>2, <2>3 DEF InTurn
  <2> QED BY <1>0, <1>1, <2>3, <2>4 DEF LockTypeOK
<1>4. ASSUME NEW q \in Reqs, Steady, OthersRest(q), Begins(q) \/ GoesOn(q) \/ DeletesOne(q) \/ Ends(q)
      PROVE  /\ result'[r] \in Sids => result'[r] \notin listing'[c]
             /\ pc'[r] \in Sends /\ call'[r] = "served" => target'[r] \notin listing'[c]
  <2>1. result[c] # "cleared" => q = c /\ Ends(q)
    <3>1. q # c => result'[c] = result[c]
      BY <1>1, <1>4 DEF OthersRest
    <3>2. Begins(q) \/ GoesOn(q) \/ DeletesOne(q) => result'[q] = result[q]
      BY DEF Begins, GoesOn, DeletesOne, ToDelete, Stages
    <3> QED BY <1>4, <3>1, <3>2
  <2>2. c # r
    BY <1>0, <1>1, <1>4 DEF LockTypeOK, Steady
  <2>3. CASE result[c] # "cleared"
    BY <1>3, <1>4, <2>1, <2>2, <2>3 DEF OthersRest
  <2>4. CASE result[c] = "cleared" /\ q # r
    BY <1>2, <1>4, <2>4 DEF OthersRest
  <2>5. CASE result[c] = "cleared" /\ q = r
    <3>1. Ends(r)
      <4>1. result[r] = "none"
        BY <1>4, <2>5 DEF Begins, GoesOn, DeletesOne, Ends, ToDelete, Stages
      <4>2. CASE Begins(r) \/ GoesOn(r) \/ DeletesOne(r)
        BY <4>1, <4>2, OutcomesAssumption DEF Begins, GoesOn, DeletesOne
      <4> QED BY <1>4, <2>5, <4>2
    <3>2. pc[r] \in Sends /\ call[r] = "served" /\ result'[r] = target[r] /\ pc'[r] = "none"
      BY <3>1, OutcomesAssumption DEF Ends, Sends
    <3>3. listing'[c] = listing[c] /\ key[c] = key[r] /\ ticket[c] < ticket[r]
      BY <1>4 DEF Steady
    <3>4. target[r] \notin listing[c]
      BY <1>1, <2>5, <3>2, <3>3 DEF NotFound
    <3> QED BY <3>2, <3>3, <3>4 DEF Sends
  <2> QED BY <2>3, <2>4, <2>5
<1>5. ASSUME NEW q \in Reqs, Serve(q)
      PROVE  /\ result'[r] \in Sids => result'[r] \notin listing'[c]
             /\ pc'[r] \in Sends /\ call'[r] = "served" => target'[r] \notin listing'[c]
  <2>1. /\ call[q] = "sent" /\ Carried(q) /\ UNCHANGED <<stage, key, ticket, pc, result, todo>>
        /\ \A z \in Reqs \ {q} : call'[z] = call[z] /\ target'[z] = target[z]
    BY <1>0, <1>5, ServeDoes
  <2>2. CASE q # r
    BY <1>2, <2>1, <2>2
  <2>3. CASE q = r
    <3>1. result[r] = "none" /\ pc[r] \in Sends /\ target'[r] = target[r] /\ target[r] \in alive
      BY <2>1, <2>3, OutcomesAssumption DEF Stages, Carried, Sends
    <3>2. stage[c] # "idle" /\ pc[c] \notin {"list", "listToClear"} /\ result[c] = "cleared"
      BY <1>1, <2>1 DEF Stages
    <3>3. listing'[c] = listing[c]
      BY <1>1, <3>2, FoundKept
    <3>4. title[target[r]] = key[c]
      BY <1>0, <2>1, <3>1 DEF Names, Placed
    <3>5. target[r] \notin Found(c)
      BY <1>1, <3>1, <3>2 DEF Forgotten
    <3> QED BY <2>1, <3>1, <3>3, <3>4, <3>5, OutcomesAssumption DEF Found
  <2> QED BY <2>2, <2>3
<1>6. ASSUME NEW q \in Reqs, Lose(q)
      PROVE  /\ result'[r] \in Sids => result'[r] \notin listing'[c]
             /\ pc'[r] \in Sends /\ call'[r] = "served" => target'[r] \notin listing'[c]
  <2>1. call[q] # "none" /\ call'[q] = "failed" /\ UNCHANGED <<pc, result, target>> /\ \A z \in Reqs \ {q} : call'[z] = call[z]
    BY <1>0, <1>6, LoseDoes
  <2>2. q # r
    BY <2>1, OutcomesAssumption DEF Stages
  <2> QED BY <1>2, <2>1, <2>2
<1>7. ASSUME \/ \E m \in late : LateCarried(m)
             \/ Quiet
             \/ \E q \in Reqs : ArrivesOnly(q)
      PROVE  UNCHANGED <<pc, call, result, target>>
  BY <1>7 DEF LateCarried, Quiet, ArrivesOnly
<1> QED BY <1>2, <1>4, <1>5, <1>6, <1>7, StepDoes

(***************************************************************************)
(* The theorems.                                                           *)
(***************************************************************************)
LEMMA InitDelivery == ASSUME Init PROVE DeliveryInv
<1>1. InTurn /\ Stages /\ Failures /\ Forgotten /\ NotFound
  BY OutcomesAssumption, ForwardingAssumption
     DEF Init, LockInit, InTurn, Active, Started, Stages, Failures, FailedWereLost, NewAlive, UnavailableIsTrue,
         Forgotten, NotFound, Sends
<1>2. HeardInTurn
  BY DEF Init, HeardInTurn, InOrder
<1>3. AllCounted
  <2> SUFFICES ASSUME NEW r \in Reqs PROVE Counted(r)
    BY DEF AllCounted
  <2>1. Deliveries(r) = {}
    BY DeliveryIs DEF Init
  <2>2. LateSends(r) = {} /\ LostSends(r) = {} /\ ~Answered(r) /\ pc[r] = "none"
    BY OutcomesAssumption DEF Init, LateSends, LostSends, Answered, Sends
  <2> QED BY <2>1, <2>2, FS_EmptySet DEF Counted
<1> QED BY <1>1, <1>2, <1>3 DEF DeliveryInv

LEMMA StepDelivery == FInv /\ DeliveryInv /\ [Next]_vars => DeliveryInv'
<1> SUFFICES ASSUME FInv, DeliveryInv, [Next]_vars PROVE DeliveryInv'
  OBVIOUS
<1>1. InTurn' /\ Stages'
  BY NextIsLockStep, InTurnStep, StagesStep DEF DeliveryInv, FInv
<1>2. Failures' /\ AllCounted' /\ HeardInTurn'
  BY FailuresStep, CountedStep, HeardInTurnStep DEF DeliveryInv
<1>3. Forgotten' /\ NotFound'
  BY ForgottenStep, NotFoundStep DEF DeliveryInv
<1> QED BY <1>1, <1>2, <1>3 DEF DeliveryInv

\* The inductive invariant of the calls to the assistant.
THEOREM DeliveryInvariant == Spec => [](FInv /\ DeliveryInv)
  BY InitFInv, StepFInv, InitDelivery, StepDelivery, PTL DEF Spec

\* Whatever calls fail or take effect late: no message of a caller is processed more
\* often than its failed attempts and its answer account for, a session hears messages
\* in the order of their arrival except for such late ones, and who is told the
\* assistant is unavailable lost a call (askAssistant).
THEOREM DeliveryIsExact == Spec => []DeliveryExact
<1>1. ASSUME DeliveryInv PROVE DeliveryExact
  <2>1. ASSUME NEW r \in Reqs PROVE Cardinality(Deliveries(r)) <= 1 + Cardinality(LostSends(r))
    <3>1. Counted(r)
      BY <1>1 DEF DeliveryInv, AllCounted
    <3>2. /\ Cardinality(Deliveries(r)) \in Nat /\ Cardinality(LateSends(r)) \in Nat
          /\ Cardinality(LostSends(r)) \in Nat
      BY <3>1, FS_CardinalityType, LostSendsFinite DEF Counted
    <3> QED BY <3>1, <3>2 DEF Counted
  <2>2. DeliveredOnceUnlessLost
    BY <2>1 DEF DeliveredOnceUnlessLost, LostSends
  <2> QED BY <1>1, <2>2 DEF DeliveryInv, HeardInTurn, Failures, DeliveryExact
<1> QED BY <1>1, DeliveryInvariant, PTL

\* After a clear whose deletions all succeeded, no later message of the conversation is
\* answered by a session that clear had found (clearAssistantSessions).
THEOREM ClearIsHeeded == Spec => []ClearForgetsUnlessLost
<1>1. ASSUME DeliveryInv PROVE ClearForgetsUnlessLost
  BY <1>1 DEF DeliveryInv, NotFound, ClearForgetsUnlessLost
<1> QED BY <1>1, DeliveryInvariant, PTL

(**************************************************************************)
(* One session of a conversation.                                         *)
(**************************************************************************)
Of(k) == {s \in alive : title[s] = k}

\* What a request that runs knows of the sessions of its conversation.
Knows(r) ==
  /\ pc[r] = "create" /\ call[r] = "sent" => Of(key[r]) = {}
  /\ pc[r] \in {"list", "listToClear"} /\ call[r] = "served" => Of(key[r]) = Found(r)
  /\ pc[r] = "delete" => Of(key[r]) \subseteq todo[r] \cup (IF call[r] = "sent" THEN {target[r]} ELSE {})
  /\ pc[r] = "sendCached" => target[r] \in alive
  /\ pc[r] = "sendListed" => target[r] \in alive \/ Of(key[r]) = {}
  /\ pc[r] \in Sends /\ call[r] = "served" => target[r] \in alive
  /\ pc[r] \in Sends /\ call[r] = "failed" => target[r] \notin alive

\* The request deletes the sessions of its conversation, or will cache a new one.
Renews(r) == pc[r] \in {"listToClear", "delete", "sendNew"} \/ (pc[r] = "create" /\ call[r] = "served")

\* The session list of time t is not asked about conversation k: the cache knows
\* better, the list is too old, or a request is about to change what is known.
Covered(k, t) ==
  \/ k \in DOMAIN sessionCache /\ sessionCache[k].lastUsed >= t
  \/ now - t >= SESSION_LIST_CACHE_TTL_MS
  \/ \E r \in Reqs : key[r] = k /\ Renews(r)

\* A session that a list of time t names is there, or the list is not used for it.
Safe(s, t) == s \notin alive /\ Of(title[s]) # {} => Covered(title[s], t)

Cached ==
  /\ \A k \in DOMAIN sessionCache : sessionCache[k].sessionId \in alive
  /\ \A r \in Reqs : pc[r] \in {"listToClear", "delete"} => key[r] \notin DOMAIN sessionCache
Titles == \A k \in DOMAIN sessionTitleCache : Safe(sessionTitleCache[k], sessionListCacheLastLoaded)
Lists == \A r \in Reqs : pc[r] = "list" /\ call[r] = "served" => \A s \in listing[r] : Safe(s, asked[r])
Timely ==
  now >= SESSION_LIST_CACHE_TTL_MS /\ sessionListCacheLastLoaded <= now /\ \A r \in Reqs : asked[r] <= now
Most == IF MaxOld > 1 THEN MaxOld ELSE 1
Few == \A k \in Keys : IsFiniteSet(Of(k)) /\ Cardinality(Of(k)) <= Most
Clean == lost = {} /\ ~evicted
SoleInv == Timely /\ (Clean => (\A r \in Reqs : Knows(r)) /\ Cached /\ Titles /\ Lists /\ Few)

LEMMA NowGrows == ASSUME FInv, [Next]_vars PROVE now \in Nat /\ (now' = now \/ now' = now + 1)
  BY DEF FInv, TypeOK, Next, vars, Arrive, Continue, AskRun, CachedAnswered, SessionAnswered, SendFailed, Listed,
         Created, Unavailable, ClearRun, ClearListed, DeleteOver, Serve, Lose, ServeLate, PruneSessions, Tick, Advance

LEMMA TimelyStep == ASSUME FInv, Timely, [Next]_vars PROVE Timely'
<1>0. TypeOK /\ SESSION_LIST_CACHE_TTL_MS \in Nat
  BY ForwardingAssumption DEF FInv
<1>1. asked' \in [Reqs -> Nat] /\ sessionListCacheLastLoaded' \in Nat
  BY StepFInv DEF FInv, TypeOK
<1>2. ASSUME NEW r \in Reqs PROVE asked'[r] \in {asked[r], now, 0}
  <2>1. ASSUME NEW q \in Reqs, NEW c, NEW s, Await(q, c, s) PROVE asked'[r] \in {asked[r], now, 0}
    BY <1>0, <2>1 DEF Await, TypeOK
  <2>2. ASSUME NEW q \in Reqs, NEW o, Finish(q, o) PROVE asked'[r] \in {asked[r], now, 0}
    BY <1>0, <2>2 DEF Finish, TypeOK
  <2>3. ASSUME NEW q \in Reqs, Continue(q) PROVE asked'[r] \in {asked[r], now, 0}
    BY <2>1, <2>2, <2>3 DEF Continue, AskRun, CachedAnswered, SessionAnswered, SendFailed, Listed, Created,
       Unavailable, ClearRun, ClearListed, DeleteOver, DeleteNext
  <2> QED BY <2>3 DEF Next, vars, callVars, Arrive, Serve, Lose, ServeLate, PruneSessions, Tick
<1>3. \/ sessionListCacheLastLoaded' \in {sessionListCacheLastLoaded, 0}
      \/ \E r \in Reqs : sessionListCacheLastLoaded' = asked[r]
  BY DEF Next, vars, cacheVars, Arrive, Continue, AskRun, CachedAnswered, SessionAnswered, SendFailed, ForgetKey,
         Remember, Listed, Created, Unavailable, ClearRun, ClearListed, DeleteOver, Serve, Lose, ServeLate,
         PruneSessions, Tick
<1>4. \A r \in Reqs : asked[r] \in Nat
  BY <1>0 DEF TypeOK
<1>5. sessionListCacheLastLoaded \in Nat
  BY <1>0 DEF TypeOK
<1> QED BY <1>0, <1>1, <1>2, <1>3, <1>4, <1>5, NowGrows DEF Timely

\* A step after which nothing failed and nothing was evicted.
LEMMA CleanStep ==
  ASSUME FInv, Failures, [Next]_vars, Clean'
  PROVE  /\ Clean /\ late = {} /\ \A r \in Reqs : ~Lose(r)
         /\ \A r \in Reqs : call[r] = "failed" => pc[r] \in {"sendCached", "sendListed"}
<1>1. lost = {}
  BY Going DEF Clean
<1>2. evicted => evicted'
  BY DEF Next, vars, Arrive, Continue, AskRun, CachedAnswered, SessionAnswered, SendFailed, Listed, Created,
         Unavailable, ClearRun, ClearListed, DeleteOver, Serve, Lose, ServeLate, PruneSessions, Tick
<1>3. \A r \in Reqs : ~Lose(r)
  BY DEF Clean, Lose
<1> QED BY <1>1, <1>2, <1>3 DEF Clean, Failures, FailedWereLost

\* Of two conversations' sessions, a call concerns its own.
LEMMA ServeOf ==
  ASSUME FInv, NEW r \in Reqs, Serve(r)
  PROVE  /\ \A k \in Keys : k # key[r] => Of(k)' = Of(k)
         /\ \A s \in Sids : title[s] # None => title'[s] = title[s]
         /\ \A s \in Sids : title[s] # None /\ title[s] # key[r] => (s \in alive' <=> s \in alive)
         /\ \A s \in Sids : title[s] # None /\ s \in alive' => s \in alive
<1>0. TypeOK /\ Names /\ Placed
  BY DEF FInv
<1>1. Carried(r)
  BY <1>0, ServeDoes
<1>2. CASE UNCHANGED <<title, alive>>
  BY <1>2 DEF Of
<1>3. CASE \E s \in Sids : NewSession(r, s)
  <2>1. PICK s \in Sids : title[s] = None /\ title' = [title EXCEPT ![s] = key[r]] /\ alive' = alive \cup {s}
    BY <1>3 DEF NewSession
  <2>2. title'[s] = key[r] /\ \A z \in Sids \ {s} : title'[z] = title[z]
    BY <1>0, <2>1 DEF TypeOK
  <2>3. alive \subseteq Sids
    BY <1>0 DEF TypeOK
  <2>4. s \notin alive
    BY <1>0, <2>1 DEF Names
  <2> QED BY <2>1, <2>2, <2>3, <2>4 DEF Of
<1>4. CASE pc[r] = "delete" /\ alive' = alive \ {target[r]} /\ UNCHANGED title
  <2>1. title[target[r]] = key[r]
    BY <1>0, <1>4 DEF Names, Placed
  <2> QED BY <1>4, <2>1 DEF Of
<1> QED BY <1>1, <1>2, <1>3, <1>4 DEF Carried

(***************************************************************************)
(* What a request knows stays so.                                          *)
(***************************************************************************)
LEMMA KnowsSame ==
  ASSUME NEW q \in Reqs, Knows(q),
         pc'[q] = pc[q], call'[q] = call[q], target'[q] = target[q], todo'[q] = todo[q], key'[q] = key[q],
         Of(key[q])' = Of(key[q]), Found(q)' = Found(q),
         pc[q] \in Sends => (target[q] \in alive' <=> target[q] \in alive)
  PROVE  Knows(q)'
<1>1. PICK O : O = Of(key[q]) /\ O = Of(key[q])'
  OBVIOUS
<1>2. PICK F : F = Found(q) /\ F = Found(q)'
  OBVIOUS
<1> QED BY <1>1, <1>2 DEF Knows, Sends

LEMMA AskKnows ==
  ASSUME SESSION_LIST_CACHE_TTL_MS <= SESSION_TTL_MS, FInv, Stages, Cached, Titles, NEW r \in Reqs, AskRun(r)
  PROVE  Knows(r)'
<1> USE ForwardingAssumption
<1>0. TypeOK /\ Names
  BY DEF FInv
<1>1. UNCHANGED <<key, title, alive>> /\ stage[r] = "waiting" /\ key[r] \in Keys /\ Run(r)
  BY DEF AskRun, Run, assistantVars, FInv, LockInv, Begun
<1>2. ASSUME NEW c \in {"sendCached", "sendListed", "list"}, NEW s, Await(r, c, s),
             c = "sendCached" => s \in alive, c = "sendListed" => s \in alive \/ Of(key[r]) = {}
      PROVE  Knows(r)'
  <2>1. pc'[r] = c /\ call'[r] = "sent" /\ target'[r] = s
    BY <1>0, <1>2 DEF Await, TypeOK
  <2>2. Of(key[r])' = Of(key[r]) /\ key'[r] = key[r]
    BY <1>1 DEF Of
  <2> QED BY <1>1, <1>2, <2>1, <2>2 DEF Knows, Of
<1>3. CASE CacheUsable(key[r]) /\ Await(r, "sendCached", sessionCache[key[r]].sessionId)
  <2>1. sessionCache[key[r]].sessionId \in alive
    BY <1>3 DEF CacheUsable, Cached
  <2> QED BY <1>2, <1>3, <2>1
<1>4. CASE ~CacheUsable(key[r]) /\ TitleUsable(key[r]) /\ Await(r, "sendListed", sessionTitleCache[key[r]])
  <2> SUFFICES ASSUME sessionTitleCache[key[r]] \notin alive, Of(key[r]) # {} PROVE  FALSE
    BY <1>2, <1>4
  <2>1. Covered(key[r], sessionListCacheLastLoaded)
    BY <1>0, <1>4 DEF Titles, Safe, TitleUsable, Names
  <2>2. ~\E q \in Reqs : key[q] = key[r] /\ Renews(q)
    <3> SUFFICES ASSUME NEW q \in Reqs, key[q] = key[r], pc[q] # "none" PROVE FALSE
      BY DEF Renews
    <3>1. stage[q] = "running"
      BY DEF Stages
    <3>2. Active(q) /\ Active(r) /\ Resolved(r) /\ Resolved(q)
      BY <1>1, <3>1 DEF Active, Run, FInv, LockInv, Links
    <3>3. ~(ticket[q] < ticket[r]) /\ ~(ticket[r] < ticket[q])
      BY <3>2, ResolvedMeansFirst DEF FInv
    <3>4. ticket[q] = ticket[r]
      BY <1>0, <3>3 DEF TypeOK, LockTypeOK
    <3> QED BY <1>1, <3>1, <3>4 DEF FInv, LockInv, Begun
  <2>3. key[r] \in DOMAIN sessionCache /\ sessionCache[key[r]].lastUsed >= sessionListCacheLastLoaded
    BY <1>0, <1>4, <2>1, <2>2 DEF Covered, TitleUsable, ListFresh, TypeOK
  <2>4. /\ now \in Nat /\ sessionListCacheLastLoaded \in Nat /\ sessionCache[key[r]].lastUsed \in Nat
        /\ SESSION_TTL_MS \in Nat /\ SESSION_LIST_CACHE_TTL_MS \in Nat
    BY <1>0, <2>3 DEF TypeOK
  <2>5. now - sessionCache[key[r]].lastUsed < SESSION_TTL_MS
    BY <1>4, <2>3, <2>4 DEF TitleUsable, ListFresh
  <2> QED BY <1>4, <2>3, <2>5 DEF CacheUsable
<1>5. CASE Await(r, "list", None)
  BY <1>2, <1>5
<1> QED BY <1>3, <1>4, <1>5 DEF AskRun

LEMMA ListedKnows ==
  ASSUME FInv, NEW r \in Reqs, Knows(r), Listed(r)
  PROVE  Knows(r)'
<1>0. TypeOK /\ UNCHANGED <<key, title, alive>> /\ pc[r] = "list" /\ call[r] = "served" /\ key[r] \in Keys
  BY DEF FInv, Listed, assistantVars, lockVars, LockInv, Begun, Placed
<1>1. Of(key[r]) = Found(r) /\ Of(key[r])' = Of(key[r]) /\ key'[r] = key[r]
  BY <1>0 DEF Knows, Of
<1>2. PICK f \in Refills(listing[r]) :
         IF key[r] \in DOMAIN f THEN Await(r, "sendListed", f[key[r]]) ELSE Await(r, "create", None)
  BY DEF Listed
<1>3. DOMAIN f = {title[s] : s \in listing[r]} /\ \A t \in DOMAIN f : title[f[t]] = t /\ f[t] \in listing[r]
  BY <1>2 DEF Refills
<1>4. CASE key[r] \in DOMAIN f
  <2>1. f[key[r]] \in Of(key[r])
    BY <1>1, <1>3, <1>4 DEF Found
  <2>2. pc'[r] = "sendListed" /\ call'[r] = "sent" /\ target'[r] \in alive'
    BY <1>0, <1>2, <1>4, <2>1 DEF Await, TypeOK, Of
  <2> QED BY <2>2 DEF Knows
<1>5. CASE key[r] \notin DOMAIN f
  <2>1. Of(key[r]) = {}
    BY <1>1, <1>3, <1>5 DEF Found
  <2>2. pc'[r] = "create" /\ call'[r] = "sent"
    BY <1>0, <1>2, <1>5 DEF Await, TypeOK
  <2> QED BY <1>1, <2>1, <2>2 DEF Knows, Sends, Of
<1> QED BY <1>4, <1>5

LEMMA GoesKnows ==
  ASSUME FInv, Stages, NEW r \in Reqs, Knows(r), ~AskRun(r), ~Listed(r), Continue(r)
  PROVE  Knows(r)'
<1>0. TypeOK
  BY DEF FInv
<1>1. Steady /\ OthersRest(r) /\ (Begins(r) \/ GoesOn(r) \/ DeletesOne(r) \/ Ends(r))
  BY ContinueDoes
<1>2. Of(key[r])' = Of(key[r]) /\ Found(r)' = Found(r) /\ UNCHANGED <<key, alive>>
  BY <1>1 DEF Of, Found, Steady
<1>3. CASE pc'[r] \in {"none", "list", "sendNew", "listToClear"} /\ call'[r] \in {"none", "sent"}
  BY <1>3 DEF Knows, Sends
<1>4. CASE SendFailed(r) /\ pc[r] = "sendListed"
  <2>1. pc'[r] = "create" /\ call'[r] = "sent" /\ call[r] = "failed"
    BY <1>0, <1>4 DEF SendFailed, Await, TypeOK
  <2>2. Of(key[r]) = {}
    BY <1>4, <2>1 DEF Knows, Sends
  <2> QED BY <1>2, <2>1, <2>2 DEF Knows, Sends, Of
<1>5. CASE DeletesOne(r)
  <2>1. pc'[r] = "delete" /\ call'[r] = "sent"
    BY <1>5 DEF DeletesOne
  <2>2. PICK S \in SUBSET Sids : ToDelete(r, S) /\ target'[r] \in S /\ todo'[r] = S \ {target'[r]}
    BY <1>5 DEF DeletesOne
  <2>3. Of(key[r]) \subseteq S
    BY <2>2 DEF ToDelete, Knows
  <2>4. Of(key[r])' \subseteq todo'[r] \cup {target'[r]}
    BY <1>2, <2>2, <2>3
  <2> QED BY <2>1, <2>4 DEF Knows, Sends
<1>6. SendFailed(r) => pc[r] = "sendListed" \/ (pc'[r] = "list" /\ call'[r] = "sent")
  BY <1>0 DEF SendFailed, Await, TypeOK
<1>7. CachedAnswered(r) \/ SessionAnswered(r) \/ Unavailable(r) => pc'[r] = "none" /\ call'[r] = "none"
  BY <1>0 DEF CachedAnswered, SessionAnswered, Unavailable, Finish, TypeOK
<1>8. Created(r) => pc'[r] = "sendNew" /\ call'[r] = "sent"
  BY <1>0 DEF Created, Await, TypeOK
<1>9. ClearRun(r) => pc'[r] = "listToClear" /\ call'[r] = "sent"
  BY <1>0 DEF ClearRun, Await, TypeOK
<1>10. ClearListed(r) \/ DeleteOver(r) => (pc'[r] = "none" /\ call'[r] = "none") \/ DeletesOne(r)
  <2>1. ClearListed(r) \/ DeleteOver(r) => pc[r] \in {"listToClear", "delete"} /\ (call[r] = "served" \/ pc[r] = "delete")
    BY DEF ClearListed, DeleteOver
  <2>2. ClearListed(r) \/ DeleteOver(r) => DeletesOne(r) \/ Ends(r)
    <3>1. ClearListed(r) \/ DeleteOver(r) => ~Begins(r)
      BY <2>1 DEF Begins, Stages
    <3> QED BY <1>1, <2>1, <3>1 DEF GoesOn
  <2> QED BY <2>2 DEF Ends
<1> QED BY <1>3, <1>4, <1>5, <1>6, <1>7, <1>8, <1>9, <1>10 DEF Continue

LEMMA ServeKnows ==
  ASSUME FInv, Stages, NEW r \in Reqs, Serve(r), NEW q \in Reqs, Knows(q)
  PROVE  Knows(q)'
<1> USE ForwardingAssumption, NoneAssumption
<1>0. TypeOK /\ Names /\ Placed /\ LockInv
  BY DEF FInv
<1>1. /\ call[r] = "sent" /\ Carried(r) /\ UNCHANGED <<stage, key, pc, todo>>
      /\ \A z \in Reqs \ {r} : call'[z] = call[z] /\ target'[z] = target[z] /\ listing'[z] = listing[z]
  BY <1>0, ServeDoes
<1>2. stage[r] = "running" /\ key[r] \in Keys
  BY <1>0, <1>1 DEF Stages, LockInv, Begun
<1>3. CASE q # r /\ pc[q] = "none"
  BY <1>1, <1>3 DEF Knows, Sends
<1>4. CASE q # r /\ pc[q] # "none"
  <2>1. key[q] # key[r] /\ key[q] \in Keys
    BY <1>0, <1>2, <1>4, LockExclusive DEF Stages, KeyMutex, LockInv, Begun
  <2>2. Of(key[q])' = Of(key[q])
    BY <1>1, <2>1, ServeOf DEF Of
  <2>3. Found(q)' = Found(q)
    <3>1. \A s \in listing[q] : s \in Sids /\ title[s] # None
      BY <1>0 DEF TypeOK, Names
    <3> QED BY <1>1, <1>4, <3>1, ServeOf DEF Found
  <2>4. pc[q] \in Sends => (target[q] \in alive' <=> target[q] \in alive)
    <3>1. pc[q] \in Sends => target[q] \in Sids /\ title[target[q]] = key[q]
      BY <1>0 DEF TypeOK, Names, Placed
    <3> QED BY <2>1, <3>1, ServeOf
  <2> QED BY <1>1, <1>4, <2>2, <2>3, <2>4, KnowsSame
<1>5. CASE q = r
  <2>1. CASE pc[r] \in Sends
    <3>1. /\ UNCHANGED <<target, title, alive>>
          /\ \/ call'[r] = "served" /\ target[r] \in alive
             \/ call'[r] = "failed" /\ target[r] \notin alive
      BY <1>1, <2>1 DEF Carried, Sends
    <3>2. Of(key[r])' = Of(key[r])
      BY <1>1, <3>1 DEF Of
    <3>3. PICK O : O = Of(key[r]) /\ O = Of(key[r])'
      BY <3>2
    <3> QED BY <1>1, <1>5, <2>1, <3>1, <3>3 DEF Knows, Sends
  <2>2. CASE pc[r] \in {"list", "listToClear"}
    <3>1. listing'[r] = alive /\ UNCHANGED <<title, alive>>
      BY <1>1, <2>2 DEF Carried, Sends
    <3>2. Of(key[r])' = Found(r)'
      BY <1>1, <3>1 DEF Of, Found
    <3> QED BY <1>1, <1>5, <2>2, <3>2 DEF Knows, Sends
  <2>3. CASE pc[r] = "create"
    <3>1. call'[r] = "served"
      BY <1>1, <2>3 DEF Carried, Sends
    <3> QED BY <1>1, <1>5, <2>3, <3>1 DEF Knows, Sends
  <2>4. CASE pc[r] = "delete"
    <3>1. call'[r] = "served" /\ alive' = alive \ {target[r]} /\ UNCHANGED title
      BY <1>1, <2>4 DEF Carried, Sends
    <3>2. Of(key[r])' \subseteq todo'[r]
      BY <1>1, <1>5, <2>4, <3>1 DEF Of, Knows
    <3> QED BY <1>1, <1>5, <2>4, <3>1, <3>2 DEF Knows, Sends
  <2> QED BY <1>1, <2>1, <2>2, <2>3, <2>4 DEF Carried
<1> QED BY <1>3, <1>4, <1>5

LEMMA KnowsStep ==
  ASSUME SESSION_LIST_CACHE_TTL_MS <= SESSION_TTL_MS, FInv, Stages, Failures, Cached, Titles,
         \A r \in Reqs : Knows(r), [Next]_vars, Clean', NEW q \in Reqs
  PROVE  Knows(q)'
<1>0. TypeOK /\ late = {} /\ \A r \in Reqs : ~Lose(r)
  BY CleanStep DEF FInv
<1>1. ASSUME NEW r \in Reqs, Continue(r) PROVE Knows(q)'
  <2>1. Steady /\ OthersRest(r)
    BY <1>1, ContinueDoes
  <2>2. CASE q # r
    <3>1. Of(key[q])' = Of(key[q]) /\ Found(q)' = Found(q) /\ UNCHANGED <<key, alive>>
      BY <2>1 DEF Of, Found, Steady
    <3> QED BY <2>1, <2>2, <3>1, KnowsSame DEF OthersRest
  <2> QED BY <1>1, <2>2, AskKnows, ListedKnows, GoesKnows
<1>2. ASSUME NEW r \in Reqs, NEW k \in Keys, Arrive(r, k) PROVE Knows(q)'
  <2>1. UNCHANGED <<callVars, assistantVars>> /\ (q # r => key'[q] = key[q]) /\ stage[r] = "idle"
    BY <1>0, <1>2 DEF Arrive, Enter, TypeOK, LockTypeOK
  <2>2. CASE q = r
    <3>1. pc'[q] = "none"
      BY <2>1, <2>2 DEF callVars, Stages
    <3> QED BY <3>1 DEF Knows, Sends
  <2>3. CASE q # r
    <3>1. Of(key[q])' = Of(key[q]) /\ Found(q)' = Found(q) /\ UNCHANGED <<pc, call, target, todo, alive>>
      BY <2>1, <2>3 DEF Of, Found, callVars, assistantVars
    <3> QED BY <2>1, <2>3, <3>1, KnowsSame
  <2> QED BY <2>2, <2>3
<1>3. ASSUME PruneSessions \/ Tick \/ UNCHANGED vars PROVE Knows(q)'
  <2>1. UNCHANGED <<pc, call, target, todo, alive, key, listing, title>>
    BY <1>3 DEF PruneSessions, Tick, vars, lockVars, callVars, assistantVars
  <2>2. Of(key[q])' = Of(key[q]) /\ Found(q)' = Found(q)
    BY <2>1 DEF Of, Found
  <2> QED BY <2>1, <2>2, KnowsSame
<1> QED BY <1>0, <1>1, <1>2, <1>3, ServeKnows DEF Next

(***************************************************************************)
(* What the guardian does to its caches.                                   *)
(***************************************************************************)
Answers(r) ==
  /\ pc[r] \in Sends /\ call[r] = "served"
  /\ sessionTitleCache' = Put(sessionTitleCache, key[r], target[r]) /\ UNCHANGED sessionListCacheLastLoaded
  /\ \A k \in Keys \ {key[r]} :
       /\ k \in DOMAIN sessionCache' <=> k \in DOMAIN sessionCache
       /\ k \in DOMAIN sessionCache => sessionCache'[k] = sessionCache[k]
  /\ key[r] \in DOMAIN sessionCache' =>
       /\ sessionCache'[key[r]].lastUsed = now
       /\ \/ sessionCache'[key[r]].sessionId = target[r]
          \/ key[r] \in DOMAIN sessionCache /\ sessionCache'[key[r]].sessionId = sessionCache[key[r]].sessionId
  /\ pc[r] = "sendNew" \/ key[r] \in DOMAIN sessionCache => key[r] \in DOMAIN sessionCache'

Forgets(r) ==
  /\ DOMAIN sessionCache' = DOMAIN sessionCache \ {key[r]} /\ \A k \in DOMAIN sessionCache' : sessionCache'[k] = sessionCache[k]
  /\ DOMAIN sessionTitleCache' \subseteq DOMAIN sessionTitleCache
  /\ \A k \in DOMAIN sessionTitleCache' : sessionTitleCache'[k] = sessionTitleCache[k]
  /\ sessionListCacheLastLoaded' = 0
  /\ (Begins(r) /\ pc'[r] = "listToClear") \/ (call[r] = "failed" /\ pc[r] \in {"sendCached", "sendListed"})

LEMMA ForgetDoes ==
  ASSUME NEW k, ForgetKey(k)
  PROVE  /\ DOMAIN sessionCache' = DOMAIN sessionCache \ {k} /\ \A x \in DOMAIN sessionCache' : sessionCache'[x] = sessionCache[x]
         /\ DOMAIN sessionTitleCache' \subseteq DOMAIN sessionTitleCache
         /\ \A x \in DOMAIN sessionTitleCache' : sessionTitleCache'[x] = sessionTitleCache[x]
         /\ sessionListCacheLastLoaded' = 0
  BY DEF ForgetKey, Drop, Restrict

LEMMA CachesDo ==
  ASSUME FInv, NEW r \in Reqs, Continue(r)
  PROVE  \/ UNCHANGED cacheVars /\ ~(pc[r] = "sendNew" /\ Ends(r) /\ call[r] = "served")
         \/ Answers(r) \/ Forgets(r) \/ Listed(r)
<1> USE NoneAssumption
<1>0. TypeOK /\ Placed
  BY DEF FInv
<1>1. CASE AskRun(r)
  <2>1. stage[r] = "waiting" /\ UNCHANGED cacheVars
    BY <1>1 DEF AskRun, Run
  <2> QED BY <2>1 DEF Ends
<1>2. CASE CachedAnswered(r)
  <2>1. /\ pc[r] = "sendCached" /\ call[r] = "served"
        /\ sessionTitleCache' = Put(sessionTitleCache, key[r], target[r]) /\ UNCHANGED sessionListCacheLastLoaded
    BY <1>2 DEF CachedAnswered
  <2>2. /\ DOMAIN sessionCache' = DOMAIN sessionCache
        /\ \A k \in Keys \ {key[r]} : k \in DOMAIN sessionCache => sessionCache'[k] = sessionCache[k]
        /\ key[r] \in DOMAIN sessionCache =>
             sessionCache'[key[r]].lastUsed = now /\ sessionCache'[key[r]].sessionId = sessionCache[key[r]].sessionId
    <3>1. CASE key[r] \notin DOMAIN sessionCache
      BY <1>2, <3>1 DEF CachedAnswered
    <3>2. CASE key[r] \in DOMAIN sessionCache
      <4>1. sessionCache' = [sessionCache EXCEPT ![key[r]] = [sessionId |-> @.sessionId, lastUsed |-> now]]
        BY <1>2, <3>2 DEF CachedAnswered
      <4>2. sessionCache'[key[r]] = [sessionId |-> sessionCache[key[r]].sessionId, lastUsed |-> now]
        BY <3>2, <4>1
      <4> QED BY <4>1, <4>2
    <3> QED BY <3>1, <3>2
  <2> QED BY <2>1, <2>2 DEF Answers, Sends
<1>3. CASE SessionAnswered(r)
  <2>1. pc[r] \in Sends /\ call[r] = "served" /\ Remember(key[r], target[r])
    BY <1>3 DEF SessionAnswered, Sends
  <2> QED BY <2>1 DEF Answers, Remember, Put
<1>4. CASE SendFailed(r)
  <2>1. call[r] = "failed" /\ pc[r] \in {"sendCached", "sendListed"} /\ ForgetKey(key[r])
    BY <1>4 DEF SendFailed
  <2> QED BY <2>1, ForgetDoes DEF Forgets
<1>5. CASE ClearRun(r)
  <2>1. Begins(r)
    <3>1. stage[r] = "waiting" /\ pc[r] = pc[r]
      BY <1>5 DEF ClearRun, Run
    <3>2. Begins(r) \/ GoesOn(r) \/ DeletesOne(r) \/ Ends(r)
      BY ContinueDoes
    <3>3. stage'[r] = "running"
      BY <1>0, <1>5 DEF ClearRun, Run, TypeOK, LockTypeOK
    <3> QED BY <3>1, <3>2, <3>3 DEF GoesOn, DeletesOne, Ends
  <2>2. ForgetKey(key[r]) /\ pc'[r] = "listToClear"
    BY <1>0, <1>5 DEF ClearRun, Await, TypeOK
  <2> QED BY <2>1, <2>2, ForgetDoes DEF Forgets
<1>6. CASE Created(r) \/ Unavailable(r) \/ ClearListed(r) \/ DeleteOver(r)
  <2>1. UNCHANGED cacheVars
    BY <1>6 DEF Created, Unavailable, ClearListed, DeleteOver
  <2>2. ~(pc[r] = "sendNew" /\ call[r] = "served")
    BY <1>6 DEF Created, Unavailable, ClearListed, DeleteOver
  <2> QED BY <2>1, <2>2
<1> QED BY <1>1, <1>2, <1>3, <1>4, <1>5, <1>6 DEF Continue

LEMMA PruneDoes ==
  ASSUME FInv, PruneSessions, Clean'
  PROVE  /\ DOMAIN sessionCache' \subseteq DOMAIN sessionCache
         /\ \A k \in DOMAIN sessionCache' : sessionCache'[k] = sessionCache[k]
         /\ \A k \in DOMAIN sessionCache : now - sessionCache[k].lastUsed <= SESSION_TTL_MS => k \in DOMAIN sessionCache'
<1> DEFINE kept == {k \in DOMAIN sessionCache : now - sessionCache[k].lastUsed <= SESSION_TTL_MS}
<1>1. sessionCache' = Restrict(sessionCache, kept)
  BY DEF PruneSessions, Clean
<1> QED BY <1>1 DEF Restrict

(***************************************************************************)
(* A list that is out of date is not used.                                 *)
(***************************************************************************)
LEMMA EndsRenewal ==
  ASSUME FInv, Stages, Failures, NEW q \in Reqs, Knows(q), Renews(q), Continue(q), Clean, Of(key[q])' # {}
  PROVE  Renews(q)' \/ (pc[q] = "sendNew" /\ Ends(q) /\ call[q] = "served")
<1>1. Steady /\ (Begins(q) \/ GoesOn(q) \/ DeletesOne(q) \/ Ends(q)) /\ FInv
  BY ContinueDoes
<1>2. Of(key[q])' = Of(key[q])
  BY <1>1 DEF Steady, Of
<1>3. call[q] = "failed" => pc[q] \in {"sendCached", "sendListed"}
  BY DEF Failures, FailedWereLost, Clean
<1>4. pc[q] \in {"listToClear", "delete", "sendNew", "create"} /\ stage[q] # "waiting"
  BY DEF Renews, Stages
<1>5. CASE GoesOn(q)
  BY <1>4, <1>5 DEF GoesOn, Renews
<1>6. CASE DeletesOne(q)
  BY <1>6 DEF DeletesOne, Renews
<1>7. CASE Ends(q)
  <2>1. ToDelete(q, {}) => Of(key[q]) = {}
    BY <1>3 DEF ToDelete, Knows
  <2>2. ~ToDelete(q, {})
    BY <1>1, <1>2, <2>1 DEF Steady, Of
  <2> QED BY <1>3, <1>4, <1>7, <2>2 DEF Ends, Sends
<1> QED BY <1>1, <1>4, <1>5, <1>6, <1>7 DEF Begins

LEMMA CoveredKept ==
  ASSUME SESSION_LIST_CACHE_TTL_MS <= SESSION_TTL_MS, FInv, Stages, Failures, \A r \in Reqs : Knows(r), [Next]_vars, Clean',
         NEW k \in Keys, NEW t \in Nat, t <= now, Covered(k, t), Of(k)' # {}
  PROVE  Covered(k, t)'
<1>0. TypeOK /\ late = {} /\ Clean /\ \A r \in Reqs : ~Lose(r)
  BY CleanStep DEF FInv
<1>t. now \in Nat /\ now' \in {now, now + 1} /\ SESSION_LIST_CACHE_TTL_MS \in Nat /\ SESSION_TTL_MS \in Nat
  BY NowGrows, ForwardingAssumption
<1>g. \A r \in Reqs : key[r] = k /\ pc[r] # "none" => key'[r] = k
  BY Going DEF Stages
<1>1. CASE now - t >= SESSION_LIST_CACHE_TTL_MS
  <2>1. now' - t >= SESSION_LIST_CACHE_TTL_MS
    <3>1. PICK m : m = now'
      OBVIOUS
    <3>2. PICK n : n = now
      OBVIOUS
    <3>3. n \in Nat /\ m \in {n, n + 1} /\ n - t >= SESSION_LIST_CACHE_TTL_MS
      BY <1>1, <1>t, <3>1, <3>2
    <3>4. m - t >= SESSION_LIST_CACHE_TTL_MS
      BY ONLY <1>t, <3>3, t \in Nat
    <3> QED BY <3>1, <3>4
  <2> QED BY <2>1 DEF Covered
<1>2. CASE k \in DOMAIN sessionCache /\ sessionCache[k].lastUsed >= t
  <2>0. sessionCache[k].lastUsed \in Nat
    BY <1>0, <1>2 DEF TypeOK
  <2>1. CASE UNCHANGED sessionCache
    BY <1>2, <2>1 DEF Covered
  <2>2. ASSUME NEW r \in Reqs, Continue(r) PROVE Covered(k, t)'
    <3>1. CASE Answers(r)
      <4>1. CASE key[r] = k
        BY <1>2, <1>t, <3>1, <4>1 DEF Answers, Covered
      <4> QED BY <1>2, <3>1, <4>1 DEF Answers, Covered
    <3>2. CASE Forgets(r) /\ key[r] # k
      BY <1>2, <3>2 DEF Forgets, Covered
    <3>3. CASE Forgets(r) /\ key[r] = k
      <4>1. Steady
        BY <2>2, ContinueDoes
      <4>2. Of(k)' = Of(k)
        BY <4>1 DEF Steady, Of
      <4>3. ~(call[r] = "failed" /\ pc[r] \in {"sendCached", "sendListed"})
        BY <3>3, <4>2 DEF Knows, Sends
      <4>4. pc'[r] = "listToClear" /\ key'[r] = k
        BY <3>3, <4>1, <4>3 DEF Forgets, Steady
      <4> QED BY <4>4 DEF Covered, Renews
    <3>4. Listed(r) => UNCHANGED sessionCache
      BY DEF Listed
    <3> QED BY <2>1, <2>2, <3>1, <3>2, <3>3, <3>4, CachesDo DEF cacheVars
  <2>3. CASE PruneSessions
    <3>1. CASE k \in DOMAIN sessionCache'
      BY <1>2, <2>3, <3>1, PruneDoes DEF Covered
    <3>2. CASE k \notin DOMAIN sessionCache'
      <4>1. ~(now - sessionCache[k].lastUsed <= SESSION_TTL_MS)
        BY <1>2, <2>3, <3>2, PruneDoes
      <4>2. now - t >= SESSION_LIST_CACHE_TTL_MS
        BY <1>2, <1>t, <2>0, <4>1
      <4> QED BY <1>1, <4>2
    <3> QED BY <3>1, <3>2
  <2>4. ASSUME NEW r \in Reqs, Serve(r) \/ \E x \in Keys : Arrive(r, x) PROVE UNCHANGED sessionCache
    BY <2>4 DEF Serve, Arrive, cacheVars
  <2>5. Tick \/ UNCHANGED vars => UNCHANGED sessionCache
    BY DEF Tick, vars, cacheVars
  <2> QED BY <1>0, <2>1, <2>2, <2>3, <2>4, <2>5 DEF Next
<1>3. CASE \E q \in Reqs : key[q] = k /\ Renews(q)
  <2>1. PICK q \in Reqs : key[q] = k /\ Renews(q)
    BY <1>3
  <2>2. key'[q] = k /\ pc[q] \in {"listToClear", "delete", "sendNew", "create"}
    BY <1>g, <2>1 DEF Renews
  <2>3. CASE pc'[q] = pc[q] /\ call'[q] = call[q]
    <3>1. Renews(q)'
      BY <2>1, <2>3 DEF Renews
    <3> QED BY <2>2, <3>1 DEF Covered
  <2>4. CASE Continue(q)
    <3>1. CASE pc[q] = "sendNew" /\ Ends(q) /\ call[q] = "served"
      <4>1. Answers(q)
        <5>1. ~Forgets(q) /\ ~Listed(q)
          BY <2>2, <3>1 DEF Forgets, Listed, Begins, Ends
        <5> QED BY <2>4, <3>1, <5>1, CachesDo
      <4>2. k \in DOMAIN sessionCache' /\ sessionCache'[k].lastUsed = now
        BY <2>1, <3>1, <4>1 DEF Answers
      <4> QED BY <1>t, <4>2 DEF Covered
    <3>2. CASE Renews(q)'
      BY <2>2, <3>2 DEF Covered
    <3>3. Of(key[q])' # {}
      BY <2>2 DEF Of
    <3> QED BY <1>0, <2>1, <2>4, <3>1, <3>2, <3>3, EndsRenewal
  <2>5. CASE Serve(q)
    <3>1. call[q] = "sent" /\ pc'[q] = pc[q]
      BY <1>0, <2>5, ServeDoes
    <3>2. Renews(q)'
      BY <2>1, <2>2, <3>1 DEF Renews
    <3> QED BY <2>2, <3>2 DEF Covered
  <2>6. ASSUME NEW r \in Reqs, r # q, Continue(r) \/ Serve(r) PROVE pc'[q] = pc[q] /\ call'[q] = call[q]
    <3>1. CASE Continue(r)
      BY <2>6, <3>1, ContinueDoes DEF OthersRest
    <3>2. CASE Serve(r)
      BY <1>0, <2>6, <3>2, ServeDoes
    <3> QED BY <2>6, <3>1, <3>2
  <2>7. ASSUME NEW r \in Reqs, NEW x \in Keys, Arrive(r, x) PROVE pc'[q] = pc[q] /\ call'[q] = call[q]
    BY <2>7 DEF Arrive, callVars
  <2>8. PruneSessions \/ Tick \/ UNCHANGED vars => pc'[q] = pc[q] /\ call'[q] = call[q]
    BY DEF PruneSessions, Tick, vars, callVars
  <2> QED BY <1>0, <2>3, <2>4, <2>5, <2>6, <2>7, <2>8 DEF Next
<1> QED BY <1>1, <1>2, <1>3 DEF Covered

\* Who changes the sessions there are.
LEMMA SessionsChange ==
  ASSUME FInv, Failures, [Next]_vars, Clean'
  PROVE  UNCHANGED <<title, alive>> \/ \E r \in Reqs : Serve(r) /\ pc[r] \in {"create", "delete"}
<1>0. TypeOK /\ late = {} /\ \A r \in Reqs : ~Lose(r)
  BY CleanStep DEF FInv
<1>1. ASSUME NEW r \in Reqs, Continue(r) PROVE UNCHANGED <<title, alive>>
  BY <1>1, ContinueDoes DEF Steady
<1>2. ASSUME NEW r \in Reqs, Serve(r), pc[r] \notin {"create", "delete"} PROVE UNCHANGED <<title, alive>>
  BY <1>0, <1>2, ServeDoes DEF Carried
<1> QED BY <1>0, <1>1, <1>2 DEF Next, Arrive, PruneSessions, Tick, vars, assistantVars

LEMMA SafeKept ==
  ASSUME SESSION_LIST_CACHE_TTL_MS <= SESSION_TTL_MS, FInv, Stages, Failures, \A r \in Reqs : Knows(r), [Next]_vars, Clean',
         NEW s \in Sids, title[s] # None, NEW t \in Nat, t <= now, Safe(s, t)
  PROVE  Safe(s, t)'
<1>0. TypeOK
  BY DEF FInv
<1> SUFFICES ASSUME s \notin alive', Of(title[s])' # {} PROVE Covered(title[s], t)'
  BY DEF Safe
<1>1. title'[s] = title[s] /\ title[s] \in Keys
  BY <1>0, Stable DEF TypeOK
<1>2. CASE s \notin alive /\ Of(title[s]) # {}
  <2>1. Covered(title[s], t)
    BY <1>2 DEF Safe
  <2>2. PICK k \in Keys : k = title[s]
    BY <1>1
  <2>3. Of(k)' # {}
    BY <1>1, <2>2 DEF Of
  <2>4. Covered(k, t)'
    BY <2>1, <2>2, <2>3, CoveredKept
  <2>5. k = title'[s]
    BY <1>1, <2>2
  <2> QED BY <2>4, <2>5
<1>3. CASE s \in alive \/ Of(title[s]) = {}
  <2>1. ~UNCHANGED <<title, alive>>
    BY <1>3 DEF Of
  <2>2. PICK r \in Reqs : Serve(r) /\ pc[r] \in {"create", "delete"}
    BY <2>1, SessionsChange
  <2>3. title[s] = key[r]
    <3> SUFFICES ASSUME title[s] # key[r] PROVE FALSE
      OBVIOUS
    <3>1. PICK k \in Keys : k = title[s]
      BY <1>1
    <3>2. Of(k)' = Of(k) /\ (s \in alive' <=> s \in alive)
      BY <2>2, <3>1, ServeOf
    <3>3. k = title'[s]
      BY <1>1, <3>1
    <3> QED BY <1>3, <3>1, <3>2, <3>3
  <2>4. Renews(r)' /\ key'[r] = key[r]
    BY <1>0, <2>2, ServeDoes DEF Carried, Renews, Sends
  <2> QED BY <1>1, <2>3, <2>4 DEF Covered
<1> QED BY <1>2, <1>3

LEMMA CachedStep ==
  ASSUME FInv, Stages, Failures, \A r \in Reqs : Knows(r), Cached, [Next]_vars, Clean'
  PROVE  Cached'
<1>0. TypeOK /\ Names /\ Placed /\ LockInv /\ late = {} /\ \A r \in Reqs : ~Lose(r)
  BY CleanStep DEF FInv
<1>1. ASSUME NEW r \in Reqs, Continue(r) PROVE Cached'
  <2>0. UNCHANGED <<alive, key>> /\ OthersRest(r) /\ (Begins(r) \/ GoesOn(r) \/ DeletesOne(r) \/ Ends(r))
    BY <1>1, ContinueDoes DEF Steady
  <2>1. DOMAIN sessionCache \subseteq Keys /\ DOMAIN sessionCache' \subseteq Keys
    BY <1>0, StepFInv DEF FInv, TypeOK
  <2>2. \A k \in DOMAIN sessionCache' : sessionCache'[k].sessionId \in alive
    <3>1. CASE Answers(r)
      BY <2>1, <3>1 DEF Answers, Cached, Knows
    <3> QED BY <1>1, <3>1, CachesDo DEF Forgets, Listed, cacheVars, Cached
  <2>3. ASSUME NEW q \in Reqs, pc'[q] \in {"listToClear", "delete"} PROVE key[q] \notin DOMAIN sessionCache'
    <3>1. CASE pc[q] \in {"listToClear", "delete"}
      <4>1. Answers(r) => key[r] # key[q]
        <5> SUFFICES ASSUME Answers(r) PROVE key[r] # key[q]
          OBVIOUS
        <5>1. q # r /\ stage[q] = "running" /\ stage[r] = "running"
          BY <3>1 DEF Answers, Sends, Stages
        <5> QED BY <1>0, <5>1, LockExclusive DEF KeyMutex
      <4>2. key[q] \notin DOMAIN sessionCache
        BY <3>1 DEF Cached
      <4> QED BY <1>1, <2>1, <4>1, <4>2, CachesDo DEF Answers, Forgets, Listed, cacheVars
    <3>2. CASE pc[q] \notin {"listToClear", "delete"}
      <4>1. q = r
        BY <2>0, <2>3, <3>2 DEF OthersRest
      <4>2. pc'[r] = "listToClear" /\ Begins(r)
        BY <2>0, <2>3, <3>2, <4>1 DEF GoesOn, DeletesOne, ToDelete, Ends, Begins
      <4>3. ClearRun(r)
        <5>1. stage[r] = "waiting"
          BY <4>2 DEF Begins
        <5>2. pc[r] = "none" /\ call[r] = "none"
          BY <5>1 DEF Stages
        <5>3. ~AskRun(r)
          BY <1>0, <4>2 DEF AskRun, Await, TypeOK
        <5> QED BY <1>1, <5>2, <5>3 DEF Continue, CachedAnswered, SessionAnswered, SendFailed, Listed, Created,
                   Unavailable, ClearListed, DeleteOver
      <4> QED BY <4>1, <4>3, ForgetDoes DEF ClearRun
    <3> QED BY <3>1, <3>2
  <2> QED BY <2>0, <2>2, <2>3 DEF Cached
<1>2. ASSUME NEW r \in Reqs, Serve(r) PROVE Cached'
  <2>1. UNCHANGED <<sessionCache, pc, key>>
    BY <1>2 DEF Serve, cacheVars, lockVars
  <2>2. ASSUME NEW k \in DOMAIN sessionCache PROVE sessionCache[k].sessionId \in alive'
    <3>1. sessionCache[k].sessionId \in alive /\ title[sessionCache[k].sessionId] = k
      BY <1>0 DEF Cached, Names
    <3>2. pc[r] = "delete" => title[target[r]] # k
      BY <1>0 DEF Cached, Names, Placed
    <3> QED BY <1>0, <1>2, <3>1, <3>2, ServeDoes DEF Carried, NewSession
  <2> QED BY <2>1, <2>2 DEF Cached
<1>3. CASE PruneSessions
  BY <1>3, PruneDoes DEF Cached, PruneSessions, lockVars, callVars, assistantVars
<1>4. ASSUME NEW r \in Reqs, NEW k \in Keys, Arrive(r, k) PROVE Cached'
  <2>1. UNCHANGED <<cacheVars, callVars, assistantVars>> /\ pc[r] = "none" /\ \A q \in Reqs \ {r} : key'[q] = key[q]
    BY <1>0, <1>4 DEF Arrive, Enter, Stages, TypeOK, LockTypeOK
  <2> QED BY <2>1 DEF Cached, cacheVars, callVars, assistantVars
<1>5. CASE Tick \/ UNCHANGED vars
  BY <1>5 DEF Tick, vars, cacheVars, callVars, assistantVars, lockVars, Cached
<1> QED BY <1>0, <1>1, <1>2, <1>3, <1>4, <1>5 DEF Next

LEMMA ListsStep ==
  ASSUME SESSION_LIST_CACHE_TTL_MS <= SESSION_TTL_MS, FInv, Stages, Failures, \A r \in Reqs : Knows(r), Timely, Lists,
         [Next]_vars, Clean'
  PROVE  Lists'
<1>0. TypeOK /\ Names /\ late = {} /\ \A r \in Reqs : ~Lose(r)
  BY CleanStep DEF FInv
<1> SUFFICES ASSUME NEW q \in Reqs, pc'[q] = "list", call'[q] = "served", NEW s \in listing'[q]
             PROVE  Safe(s, asked[q])'
  BY DEF Lists
<1>1. CASE pc[q] = "list" /\ call[q] = "served" /\ listing'[q] = listing[q] /\ asked'[q] = asked[q]
  <2>1. PICK t \in Nat : t = asked[q]
    BY <1>0 DEF TypeOK
  <2>2. Safe(s, t) /\ t <= now /\ s \in Sids /\ title[s] # None
    BY <1>0, <1>1, <2>1 DEF Lists, Timely, TypeOK, Names
  <2>3. Safe(s, t)'
    BY <2>2, SafeKept
  <2> QED BY <1>1, <2>1, <2>3
<1>2. ASSUME NEW r \in Reqs, Continue(r) PROVE Safe(s, asked[q])'
  <2>1. Steady /\ OthersRest(r) /\ (Begins(r) \/ GoesOn(r) \/ DeletesOne(r) \/ Ends(r))
    BY <1>2, ContinueDoes
  <2>2. q # r
    BY <2>1 DEF Begins, GoesOn, DeletesOne, Ends
  <2>3. asked'[q] = asked[q]
    <3>1. ASSUME NEW c, NEW x, Await(r, c, x) PROVE asked'[q] = asked[q]
      BY <1>0, <2>2, <3>1 DEF Await, TypeOK
    <3>2. ASSUME NEW o, Finish(r, o) PROVE asked'[q] = asked[q]
      BY <1>0, <2>2, <3>2 DEF Finish, TypeOK
    <3> QED BY <1>2, <3>1, <3>2 DEF Continue, AskRun, CachedAnswered, SessionAnswered, SendFailed, Listed, Created,
       Unavailable, ClearRun, ClearListed, DeleteOver, DeleteNext
  <2> QED BY <1>1, <2>1, <2>2, <2>3 DEF OthersRest, Steady
<1>3. ASSUME NEW r \in Reqs, Serve(r) PROVE Safe(s, asked[q])'
  <2>1. /\ call[r] = "sent" /\ Carried(r) /\ UNCHANGED <<pc, asked>>
        /\ \A z \in Reqs \ {r} : call'[z] = call[z] /\ target'[z] = target[z] /\ listing'[z] = listing[z]
    BY <1>0, <1>3, ServeDoes DEF Serve
  <2>2. CASE q # r
    BY <1>1, <2>1, <2>2
  <2>3. CASE q = r
    <3>1. listing'[q] = alive /\ alive' = alive
      BY <2>1, <2>3 DEF Carried, Sends
    <3> QED BY <3>1 DEF Safe
  <2> QED BY <2>2, <2>3
<1>4. CASE UNCHANGED callVars
  BY <1>1, <1>4 DEF callVars
<1> QED BY <1>0, <1>2, <1>3, <1>4 DEF Next, Arrive, PruneSessions, Tick, vars

LEMMA TitlesStep ==
  ASSUME SESSION_LIST_CACHE_TTL_MS <= SESSION_TTL_MS, FInv, Stages, Failures, \A r \in Reqs : Knows(r), Timely, Titles, Lists,
         [Next]_vars, Clean'
  PROVE  Titles'
<1>0. TypeOK /\ Names /\ late = {} /\ \A r \in Reqs : ~Lose(r) /\ TypeOK'
  BY CleanStep, StepFInv DEF FInv
<1>1. ASSUME NEW k \in DOMAIN sessionTitleCache, sessionTitleCache'[k] = sessionTitleCache[k],
             UNCHANGED sessionListCacheLastLoaded
      PROVE  Safe(sessionTitleCache[k], sessionListCacheLastLoaded)'
  <2>1. PICK s \in Sids, t \in Nat : s = sessionTitleCache[k] /\ t = sessionListCacheLastLoaded
    BY <1>0 DEF TypeOK, Range
  <2>2. title[s] # None /\ Safe(s, t) /\ t <= now
    BY <1>0, <2>1, NoneAssumption DEF Names, Titles, Timely, TypeOK
  <2>3. Safe(s, t)'
    BY <2>2, SafeKept
  <2>4. s = sessionTitleCache'[k] /\ t = sessionListCacheLastLoaded'
    BY <1>1, <2>1
  <2> QED BY <2>3, <2>4
<1>2. ASSUME NEW k \in DOMAIN sessionTitleCache', sessionTitleCache'[k] \in alive'
      PROVE  Safe(sessionTitleCache[k], sessionListCacheLastLoaded)'
  BY <1>2 DEF Safe
<1>3. CASE UNCHANGED <<sessionTitleCache, sessionListCacheLastLoaded>>
  BY <1>1, <1>3 DEF Titles
<1>4. ASSUME NEW r \in Reqs, Continue(r) PROVE Titles'
  <2>1. CASE Answers(r)
    <3>1. target[r] \in alive'
      BY <1>4, <2>1, ContinueDoes DEF Answers, Knows, Steady
    <3>2. ASSUME NEW k \in DOMAIN sessionTitleCache'
          PROVE  \/ sessionTitleCache'[k] = target[r]
                 \/ k \in DOMAIN sessionTitleCache /\ sessionTitleCache'[k] = sessionTitleCache[k]
      BY <2>1 DEF Answers, Put
    <3> QED BY <1>1, <1>2, <2>1, <3>1, <3>2 DEF Answers, Titles
  <2>2. CASE Forgets(r)
    <3>1. now' - 0 >= SESSION_LIST_CACHE_TTL_MS
      <4>1. now' \in Nat /\ now' >= SESSION_LIST_CACHE_TTL_MS
        BY <1>0, TimelyStep DEF Timely, TypeOK
      <4> QED BY <4>1, ForwardingAssumption
    <3>2. ASSUME NEW s PROVE Safe(s, 0)'
      BY <3>1 DEF Safe, Covered
    <3>3. sessionListCacheLastLoaded' = 0
      BY <2>2 DEF Forgets
    <3> QED BY <3>2, <3>3 DEF Titles
  <2>3. CASE Listed(r)
    <3>1. PICK f \in Refills(listing[r]) : sessionTitleCache' = f
      BY <2>3 DEF Listed
    <3>2. sessionListCacheLastLoaded' = asked[r] /\ pc[r] = "list" /\ call[r] = "served"
      BY <2>3 DEF Listed
    <3>3. PICK t \in Nat : t = asked[r] /\ t = sessionListCacheLastLoaded'
      BY <1>0, <3>2 DEF TypeOK
    <3>4. ASSUME NEW k \in DOMAIN f PROVE Safe(f[k], t)'
      <4>1. f[k] \in Sids /\ f[k] \in listing[r]
        BY <1>0, <3>1 DEF Refills, TypeOK
      <4>2. Safe(f[k], t) /\ t <= now /\ title[f[k]] # None
        BY <1>0, <3>2, <3>3, <4>1 DEF Lists, Timely, Names
      <4> QED BY <4>1, <4>2, SafeKept
    <3> QED BY <3>1, <3>3, <3>4 DEF Titles
  <2> QED BY <1>3, <1>4, <2>1, <2>2, <2>3, CachesDo DEF cacheVars
<1>5. ASSUME NEW r \in Reqs, Serve(r) \/ \E k \in Keys : Arrive(r, k) PROVE UNCHANGED <<sessionTitleCache, sessionListCacheLastLoaded>>
  BY <1>5 DEF Serve, Arrive, cacheVars
<1> QED BY <1>0, <1>3, <1>4, <1>5 DEF Next, PruneSessions, Tick, vars, cacheVars

LEMMA FewStep ==
  ASSUME FInv, Stages, Failures, \A r \in Reqs : Knows(r), Few, [Next]_vars, Clean', NEW k \in Keys
  PROVE  IsFiniteSet(Of(k)') /\ Cardinality(Of(k)') <= Most
<1>0. TypeOK /\ Names
  BY DEF FInv
<1>1. IsFiniteSet(Of(k)) /\ Cardinality(Of(k)) \in Nat /\ Cardinality(Of(k)) <= Most /\ Most \in Nat /\ 1 <= Most
  BY FS_CardinalityType, ForwardingAssumption DEF Few, Most
<1>2. CASE Of(k)' \subseteq Of(k)
  <2>1. IsFiniteSet(Of(k)') /\ Cardinality(Of(k)') <= Cardinality(Of(k)) /\ Cardinality(Of(k)') \in Nat
    BY <1>1, <1>2, FS_Subset, FS_CardinalityType
  <2> QED BY <1>1, <2>1
<1>3. ASSUME NEW r \in Reqs, Serve(r), pc[r] \in {"create", "delete"}, ~(Of(k)' \subseteq Of(k))
      PROVE  \E s : Of(k)' = {s}
  <2>1. k = key[r]
    BY <1>3, ServeOf
  <2>2. pc[r] = "create" /\ call[r] = "sent"
    BY <1>0, <1>3, ServeDoes DEF Carried, Sends, Of
  <2>3. Of(k) = {}
    BY <2>1, <2>2 DEF Knows
  <2>4. PICK s \in Sids : NewSession(r, s)
    BY <1>0, <1>3, <2>2, ServeDoes DEF Carried, Sends
  <2>5. title'[s] = k /\ (\A z \in Sids \ {s} : title'[z] = title[z]) /\ alive' = alive \cup {s} /\ alive \subseteq Sids
    BY <1>0, <2>1, <2>4 DEF NewSession, TypeOK
  <2>6. Of(k)' = {s}
    BY <2>3, <2>5 DEF Of
  <2> QED BY <2>6
<1>4. ASSUME NEW s, Of(k)' = {s} PROVE IsFiniteSet(Of(k)') /\ Cardinality(Of(k)') = 1
  BY <1>4, FS_Singleton
<1>5. UNCHANGED <<title, alive>> => Of(k)' \subseteq Of(k)
  BY DEF Of
<1> QED BY <1>1, <1>2, <1>3, <1>4, <1>5, SessionsChange

(***************************************************************************)
(* The theorem.                                                            *)
(***************************************************************************)
LEMMA InitSole == ASSUME Init PROVE SoleInv
<1> USE ForwardingAssumption
<1>1. Timely
  BY DEF Init, Timely
<1>2. (\A r \in Reqs : Knows(r)) /\ Lists
  BY DEF Init, Knows, Lists, Sends
<1>3. Cached /\ Titles
  BY DEF Init, Cached, Titles, EmptyMap
<1>4. ASSUME NEW k \in Keys PROVE IsFiniteSet(Of(k)) /\ Cardinality(Of(k)) <= Most
  <2>1. IsFiniteSet(alive) /\ Cardinality(alive) <= MaxOld /\ Of(k) \subseteq alive
    BY DEF Init, Of
  <2>2. IsFiniteSet(Of(k)) /\ Cardinality(Of(k)) <= Cardinality(alive)
    BY <2>1, FS_Subset
  <2>3. Cardinality(Of(k)) \in Nat /\ Cardinality(alive) \in Nat /\ MaxOld \in Nat
    BY <2>1, <2>2, FS_CardinalityType
  <2> QED BY <2>1, <2>2, <2>3 DEF Most
<1> QED BY <1>1, <1>2, <1>3, <1>4 DEF SoleInv, Few

LEMMA StepSole ==
  SESSION_LIST_CACHE_TTL_MS <= SESSION_TTL_MS => (FInv /\ DeliveryInv /\ SoleInv /\ [Next]_vars => SoleInv')
<1> SUFFICES ASSUME SESSION_LIST_CACHE_TTL_MS <= SESSION_TTL_MS, FInv, DeliveryInv, SoleInv, [Next]_vars PROVE SoleInv'
  OBVIOUS
<1>1. Timely'
  BY TimelyStep DEF SoleInv
<1>2. ASSUME Clean' PROVE (\A r \in Reqs : Knows(r)') /\ Cached' /\ Titles' /\ Lists' /\ Few'
  <2>1. Clean /\ Stages /\ Failures
    BY <1>2, CleanStep DEF DeliveryInv
  <2>2. Timely /\ (\A r \in Reqs : Knows(r)) /\ Cached /\ Titles /\ Lists /\ Few
    BY <2>1 DEF SoleInv
  <2>3. Few'
    BY <1>2, <2>1, <2>2, FewStep DEF Few
  <2> QED BY <1>2, <2>1, <2>2, <2>3, KnowsStep, CachedStep, TitlesStep, ListsStep
<1> QED BY <1>1, <1>2 DEF SoleInv

\* As long as no call failed and no entry was evicted, a conversation has one session,
\* next to those an earlier run left, whatever requests overlap and whichever lists are
\* in flight, where sessions are not configured to be forgotten before a list is.
THEOREM OneSessionEach ==
  ASSUME SESSION_LIST_CACHE_TTL_MS <= SESSION_TTL_MS
  PROVE  Spec => []NoDuplicateSession
<1>1. FInv /\ DeliveryInv /\ SoleInv /\ [Next]_vars => SoleInv'
  BY StepSole
<1>2. ASSUME SoleInv PROVE NoDuplicateSession
  BY <1>2 DEF SoleInv, Clean, Few, Of, Most, NoDuplicateSession
<1> QED BY <1>1, <1>2, InitSole, DeliveryInvariant, PTL DEF Spec

(***************************************************************************)
(* Finite sets in the order of a key that tells their members apart.       *)
(***************************************************************************)
Below(S, t, x) == {y \in S : t[y] < t[x]}
Distinct(S, t) == IsFiniteSet(S) /\ \A x \in S : t[x] \in Nat /\ \A y \in S : t[x] = t[y] => x = y

LEMMA RankFacts ==
  ASSUME NEW S, NEW t, Distinct(S, t), NEW x \in S
  PROVE  /\ Cardinality(Below(S, t, x)) \in 0..(Cardinality(S) - 1)
         /\ \A y \in S : Cardinality(Below(S, t, y)) = Cardinality(Below(S, t, x)) => y = x
<1>1. IsFiniteSet(S) /\ Cardinality(S) \in Nat
  BY FS_CardinalityType DEF Distinct
<1>2. ASSUME NEW y \in S, NEW T \in SUBSET S, Below(S, t, y) \cup {y} \subseteq T
      PROVE  Cardinality(Below(S, t, y)) \in Nat /\ Cardinality(T) \in Nat /\ Cardinality(Below(S, t, y)) < Cardinality(T)
  <2>1. IsFiniteSet(Below(S, t, y)) /\ y \notin Below(S, t, y)
    BY <1>1, FS_Subset DEF Below, Distinct
  <2>2. IsFiniteSet(Below(S, t, y) \cup {y}) /\ Cardinality(Below(S, t, y) \cup {y}) = Cardinality(Below(S, t, y)) + 1
    BY <2>1, FS_AddElement
  <2>3. IsFiniteSet(T)
    BY <1>1, FS_Subset
  <2>4. Cardinality(Below(S, t, y) \cup {y}) <= Cardinality(T)
    BY <1>2, <2>3, FS_Subset
  <2> QED BY <2>1, <2>2, <2>3, <2>4, FS_CardinalityType
<1>3. ASSUME NEW y \in S, NEW z \in S, t[y] < t[z]
      PROVE  Cardinality(Below(S, t, y)) # Cardinality(Below(S, t, z))
  <2>1. Below(S, t, y) \cup {y} \subseteq Below(S, t, z) /\ Below(S, t, z) \in SUBSET S
    BY <1>3 DEF Below, Distinct
  <2> QED BY <1>2, <2>1
<1>4. Below(S, t, x) \cup {x} \subseteq S
  BY DEF Below
<1>5. ASSUME NEW y \in S, y # x PROVE t[y] < t[x] \/ t[x] < t[y]
  BY <1>5 DEF Distinct
<1> QED BY <1>1, <1>2, <1>3, <1>4, <1>5

LEMMA RankOnto ==
  ASSUME NEW S, NEW t, Distinct(S, t), NEW i \in 1..Cardinality(S)
  PROVE  \E x \in S : Cardinality(Below(S, t, x)) = i - 1
<1> DEFINE n == Cardinality(S)
           T == 0..(n - 1)
           f == [x \in S |-> Cardinality(Below(S, t, x))]
<1>1. IsFiniteSet(S) /\ n \in Nat
  BY FS_CardinalityType DEF Distinct
<1>2. IsFiniteSet(T) /\ Cardinality(T) = n
  <2>1. n - 1 \in Int /\ 0 \in Int
    BY <1>1
  <2>2. IsFiniteSet(0..(n - 1)) /\ Cardinality(0..(n - 1)) = IF 0 > n - 1 THEN 0 ELSE n - 1 - 0 + 1
    BY <2>1, FS_Interval
  <2> QED BY <1>1, <2>2
<1>3. f \in Injection(S, T)
  <2>1. f \in [S -> T]
    BY RankFacts
  <2>2. \A x, y \in S : f[x] = f[y] => x = y
    BY RankFacts
  <2> QED BY <2>1, <2>2 DEF Injection, IsInjective
<1>4. f \in Surjection(S, T)
  BY <1>1, <1>2, <1>3, FS_Injection
<1>5. i - 1 \in T
  BY <1>1
<1> QED BY <1>4, <1>5 DEF Surjection

LEMMA OrderAt ==
  ASSUME NEW S, NEW t, Distinct(S, t), NEW x \in S
  PROVE  InOrderOf(S, t)[Cardinality(Below(S, t, x)) + 1] = x
<1> DEFINE i == Cardinality(Below(S, t, x)) + 1
<1>1. i \in 1..Cardinality(S) /\ i - 1 = Cardinality(Below(S, t, x))
  BY RankFacts, FS_CardinalityType DEF Distinct
<1>2. \A y \in S : Cardinality(Below(S, t, y)) = i - 1 => y = x
  BY <1>1, RankFacts
<1>3. (CHOOSE y \in S : Cardinality(Below(S, t, y)) = i - 1) = x
  BY <1>1, <1>2
<1> QED BY <1>1, <1>3 DEF InOrderOf, Below

LEMMA OrderIsSeq ==
  ASSUME NEW S, NEW t, Distinct(S, t)
  PROVE  /\ InOrderOf(S, t) \in Seq(S) /\ Len(InOrderOf(S, t)) = Cardinality(S)
         /\ \A i \in 1..Cardinality(S) :
              InOrderOf(S, t)[i] \in S /\ Cardinality(Below(S, t, InOrderOf(S, t)[i])) = i - 1
<1>1. Cardinality(S) \in Nat
  BY FS_CardinalityType DEF Distinct
<1>2. ASSUME NEW i \in 1..Cardinality(S)
      PROVE  InOrderOf(S, t)[i] \in S /\ Cardinality(Below(S, t, InOrderOf(S, t)[i])) = i - 1
  <2>1. PICK x \in S : Cardinality(Below(S, t, x)) = i - 1
    BY RankOnto
  <2>2. InOrderOf(S, t)[i] = x
    BY <2>1, OrderAt
  <2> QED BY <2>1, <2>2
<1>3. InOrderOf(S, t) \in [1..Cardinality(S) -> S]
  BY <1>2 DEF InOrderOf
<1> QED BY <1>1, <1>2, <1>3

LEMMA SeqAppend ==
  ASSUME NEW S, NEW a \in Seq(S), NEW x, NEW b \in Seq(S \cup {x}), Len(b) = Len(a) + 1,
         \A i \in 1..Len(a) : b[i] = a[i], b[Len(a) + 1] = x
  PROVE  b = Append(a, x)
<1>1. Append(a, x) \in Seq(S \cup {x}) /\ Len(Append(a, x)) = Len(b)
  <2>1. a \in Seq(S \cup {x})
    OBVIOUS
  <2> QED BY <2>1
<1>2. \A i \in 1..Len(b) : b[i] = Append(a, x)[i]
  OBVIOUS
<1> QED BY <1>1, <1>2, SeqEqual

LEMMA SeqTail ==
  ASSUME NEW S, NEW a \in Seq(S), NEW b \in Seq(S), Len(a) \in Nat \ {0}, Len(b) = Len(a) - 1,
         \A i \in 1..Len(b) : b[i] = a[i + 1]
  PROVE  b = Tail(a) /\ a # <<>> /\ Head(a) = a[1]
<1>1. a # <<>> /\ Head(a) = a[1]
  OBVIOUS
<1>2. Tail(a) \in Seq(S) /\ Len(Tail(a)) = Len(b)
  BY <1>1
<1>3. \A i \in 1..Len(b) : b[i] = Tail(a)[i]
  BY <1>1
<1> QED BY <1>1, <1>2, <1>3, SeqEqual

\* u keeps the keys of S and gives x a greater one.
Extends(S, t, u, x) == u[x] \in Nat /\ \A y \in S : u[y] = t[y] /\ u[y] < u[x]

LEMMA OrderAppend ==
  ASSUME NEW S, NEW t, Distinct(S, t), NEW x, x \notin S, NEW u, Extends(S, t, u, x)
  PROVE  InOrderOf(S \cup {x}, u) = Append(InOrderOf(S, t), x)
<1> DEFINE n == Cardinality(S)
           R == S \cup {x}
<1>1. IsFiniteSet(R) /\ Cardinality(R) = n + 1 /\ n \in Nat
  BY FS_AddElement, FS_CardinalityType DEF Distinct
<1>2. Distinct(R, u)
  BY <1>1 DEF Distinct, Extends
<1>3. \A y \in S : Below(R, u, y) = Below(S, t, y)
  BY DEF Below, Distinct, Extends
<1>4. Below(R, u, x) = S
  BY DEF Below, Extends
<1>5. InOrderOf(S, t) \in Seq(S) /\ Len(InOrderOf(S, t)) = n /\ InOrderOf(R, u) \in Seq(R) /\ Len(InOrderOf(R, u)) = n + 1
  BY <1>1, <1>2, OrderIsSeq
<1>6. ASSUME NEW i \in 1..n PROVE InOrderOf(R, u)[i] = InOrderOf(S, t)[i]
  <2>1. PICK y \in S : y = InOrderOf(S, t)[i] /\ Cardinality(Below(S, t, y)) = i - 1
    BY OrderIsSeq
  <2>2. InOrderOf(R, u)[Cardinality(Below(R, u, y)) + 1] = y
    BY <1>2, OrderAt
  <2>3. Cardinality(Below(R, u, y)) + 1 = i
    BY <1>1, <1>3, <2>1
  <2> QED BY <2>1, <2>2, <2>3
<1>7. InOrderOf(R, u)[n + 1] = x
  BY <1>2, <1>4, OrderAt
<1> QED BY <1>5, <1>6, <1>7, SeqAppend

LEMMA OrderSame ==
  ASSUME NEW S, NEW t, Distinct(S, t), NEW u, \A y \in S : u[y] = t[y]
  PROVE  InOrderOf(S, u) = InOrderOf(S, t)
<1>1. Distinct(S, u) /\ Cardinality(S) \in Nat
  BY FS_CardinalityType DEF Distinct
<1>2. \A y \in S : Below(S, u, y) = Below(S, t, y)
  BY DEF Below
<1>3. ASSUME NEW i \in 1..Cardinality(S) PROVE InOrderOf(S, u)[i] = InOrderOf(S, t)[i]
  <2>1. PICK y \in S : y = InOrderOf(S, t)[i] /\ Cardinality(Below(S, t, y)) = i - 1
    BY OrderIsSeq
  <2>2. InOrderOf(S, u)[Cardinality(Below(S, u, y)) + 1] = y
    BY <1>1, OrderAt
  <2>3. Cardinality(Below(S, u, y)) + 1 = i
    BY <1>1, <1>2, <2>1
  <2> QED BY <2>1, <2>2, <2>3
<1>4. /\ InOrderOf(S, u) \in Seq(S) /\ Len(InOrderOf(S, u)) = Cardinality(S)
      /\ InOrderOf(S, t) \in Seq(S) /\ Len(InOrderOf(S, t)) = Cardinality(S)
  BY <1>1, OrderIsSeq
<1> QED BY <1>3, <1>4, SeqEqual

LEMMA OrderTail ==
  ASSUME NEW S, NEW t, Distinct(S, t), NEW x \in S, \A y \in S \ {x} : t[x] < t[y]
  PROVE  /\ InOrderOf(S, t) # <<>> /\ Head(InOrderOf(S, t)) = x
         /\ InOrderOf(S \ {x}, t) = Tail(InOrderOf(S, t))
<1> DEFINE n == Cardinality(S)
           R == S \ {x}
<1>1. IsFiniteSet(R) /\ Cardinality(R) = n - 1 /\ n \in Nat /\ n - 1 \in Nat
  <2>1. IsFiniteSet(S) /\ n \in Nat /\ n # 0
    BY FS_EmptySet, FS_CardinalityType DEF Distinct
  <2>2. IsFiniteSet(R) /\ Cardinality(R) = n - 1
    BY <2>1, FS_RemoveElement
  <2> QED BY <2>1, <2>2
<1>2. Distinct(R, t)
  BY <1>1 DEF Distinct
<1>3. Below(S, t, x) = {}
  BY DEF Below, Distinct
<1>4. InOrderOf(S, t)[1] = x
  BY <1>3, OrderAt, FS_EmptySet
<1>5. InOrderOf(S, t) \in Seq(S) /\ Len(InOrderOf(S, t)) = n /\ InOrderOf(R, t) \in Seq(R) /\ Len(InOrderOf(R, t)) = n - 1
  BY <1>1, <1>2, OrderIsSeq
<1>6. ASSUME NEW i \in 1..(n - 1) PROVE InOrderOf(R, t)[i] = InOrderOf(S, t)[i + 1]
  <2>1. PICK y \in R : y = InOrderOf(R, t)[i] /\ Cardinality(Below(R, t, y)) = i - 1
    BY <1>1, <1>2, OrderIsSeq
  <2>2. Below(S, t, y) = Below(R, t, y) \cup {x} /\ x \notin Below(R, t, y)
    BY <2>1 DEF Below
  <2>3. IsFiniteSet(Below(R, t, y))
    BY <1>1, FS_Subset DEF Below
  <2>4. Cardinality(Below(S, t, y)) = i
    <3>1. Cardinality(Below(R, t, y) \cup {x}) = Cardinality(Below(R, t, y)) + 1
      BY <2>2, <2>3, FS_AddElement
    <3>2. Cardinality(Below(R, t, y)) + 1 = i
      BY <1>1, <2>1
    <3> QED BY <2>2, <3>1, <3>2
  <2>5. InOrderOf(S, t)[Cardinality(Below(S, t, y)) + 1] = y
    BY OrderAt
  <2> QED BY <2>1, <2>4, <2>5
<1>7. InOrderOf(R, t) \in Seq(S)
  BY <1>5
<1>8. n \in Nat \ {0}
  BY <1>1
<1>9. InOrderOf(R, t) = Tail(InOrderOf(S, t)) /\ InOrderOf(S, t) # <<>> /\ Head(InOrderOf(S, t)) = InOrderOf(S, t)[1]
  BY <1>5, <1>6, <1>7, <1>8, SeqTail
<1> QED BY <1>4, <1>9

(***************************************************************************)
(* The forwarder implements SerialSessions.                                *)
(***************************************************************************)
BusyFinite == \A k \in Keys : IsFiniteSet(Busy(k))

LEMMA BusyFiniteStep == ASSUME FInv, BusyFinite, [Next]_vars PROVE BusyFinite'
<1> SUFFICES ASSUME NEW k \in Keys PROVE IsFiniteSet(Busy(k)')
  BY DEF BusyFinite
<1>0. TypeOK /\ IsFiniteSet(Busy(k))
  BY DEF FInv, BusyFinite
<1>1. CASE \E r \in Reqs : ArrivesOnly(r)
  <2>1. PICK r \in Reqs : ArrivesOnly(r)
    BY <1>1
  <2>2. Busy(k)' \subseteq Busy(k) \cup {r}
    BY <2>1 DEF ArrivesOnly, Busy, Active
  <2>3. IsFiniteSet(Busy(k) \cup {r})
    BY <1>0, FS_AddElement
  <2> QED BY <2>2, <2>3, FS_Subset
<1>2. CASE Busy(k)' \subseteq Busy(k)
  BY <1>0, <1>2, FS_Subset
<1>3. ASSUME Quiet PROVE Busy(k)' \subseteq Busy(k)
  BY <1>3 DEF Quiet, Busy, Active
<1>4. ASSUME NEW r \in Reqs, Steady, OthersRest(r), Begins(r) \/ GoesOn(r) \/ DeletesOne(r) \/ Ends(r)
      PROVE  Busy(k)' \subseteq Busy(k)
  BY <1>4 DEF Steady, OthersRest, Begins, GoesOn, DeletesOne, Ends, Busy, Active
<1>5. ASSUME NEW r \in Reqs, Serve(r) \/ Lose(r) PROVE Busy(k)' \subseteq Busy(k)
  <2>1. UNCHANGED <<stage, key>>
    BY <1>0, <1>5, ServeDoes, LoseDoes
  <2> QED BY <2>1 DEF Busy, Active
<1>6. ASSUME NEW m \in late, LateCarried(m) PROVE Busy(k)' \subseteq Busy(k)
  BY <1>6 DEF LateCarried, Busy, Active
<1> QED BY <1>1, <1>2, <1>3, <1>4, <1>5, <1>6, StepDoes

LEMMA BusyDistinct == ASSUME FInv, BusyFinite, NEW k \in Keys PROVE Distinct(Busy(k), ticket)
  BY DEF FInv, LockInv, LockTypeOK, Begun, BusyFinite, Busy, Active, Distinct

\* A step that leaves who is busy alone leaves the queues alone.
LEMMA QueuesRest ==
  ASSUME UNCHANGED <<key, ticket>>, \A r \in Reqs : Active(r)' <=> Active(r)
  PROVE  UNCHANGED [k \in Keys |-> Pending(k)]
<1>1. ASSUME NEW k \in Keys PROVE Pending(k)' = Pending(k)
  <2>1. Busy(k)' = Busy(k)
    BY DEF Busy
  <2> QED BY <2>1 DEF Pending, InOrderOf
<1> QED BY <1>1

LEMMA ArriveSubmits ==
  ASSUME FInv, Stages, BusyFinite, NEW r \in Reqs, NEW k \in Keys, Arrive(r, k)
  PROVE  Serial!Submit(r, k)
<1>0. TypeOK /\ LockTypeOK /\ Begun
  BY DEF FInv, LockInv
<1>1. /\ stage[r] = "idle" /\ stage' = [stage EXCEPT ![r] = "waiting"] /\ key' = [key EXCEPT ![r] = k]
      /\ ticket' = [ticket EXCEPT ![r] = arrivals + 1] /\ arrivals \in Nat
      /\ UNCHANGED <<result, title>>
  BY <1>0 DEF Arrive, Enter, LockTypeOK, callVars, assistantVars
<1>2. result[r] = "none"
  BY <1>1 DEF Stages
<1>3. ASSUME NEW l \in Keys, NEW i \in DOMAIN Pending(l) PROVE Pending(l)[i] # r
  <2>1. Pending(l)[i] \in Busy(l)
    BY <1>3, BusyDistinct, OrderIsSeq DEF Pending
  <2> QED BY <1>1, <2>1 DEF Busy, Active
<1>4. \A q \in Reqs \ {r} : stage'[q] = stage[q] /\ key'[q] = key[q] /\ ticket'[q] = ticket[q]
  BY <1>0, <1>1 DEF LockTypeOK
<1>5. stage'[r] = "waiting" /\ key'[r] = k /\ ticket'[r] = arrivals + 1
  BY <1>0, <1>1 DEF LockTypeOK
<1>6. Pending(k)' = Append(Pending(k), r)
  <2>1. Busy(k)' = Busy(k) \cup {r} /\ r \notin Busy(k)
    BY <1>1, <1>4, <1>5 DEF Busy, Active
  <2>2. ASSUME NEW y \in Busy(k) PROVE ticket'[y] = ticket[y] /\ ticket'[y] < ticket'[r]
    BY <1>0, <1>1, <1>4, <1>5 DEF Busy, Active, Begun, LockTypeOK
  <2>3. PICK S, t, u : S = Busy(k) /\ t = ticket /\ u = ticket' /\ S \cup {r} = Busy(k)'
    BY <2>1
  <2>4. InOrderOf(S \cup {r}, u) = Append(InOrderOf(S, t), r)
    <3>1. Distinct(S, t)
      BY <2>3, BusyDistinct
    <3>2. ticket'[r] \in Nat /\ r \notin S
      BY <1>1, <1>5, <2>1, <2>3
    <3>3. u[r] \in Nat
      BY <2>3, <3>2
    <3>4. ASSUME NEW y \in S PROVE u[y] = t[y]
      <4>1. y \in Busy(k)
        BY <2>3
      <4>2. ticket'[y] = ticket[y]
        BY <2>2, <4>1
      <4> QED BY <2>3, <4>2
    <3>5. ASSUME NEW y \in S PROVE u[y] < u[r]
      <4>1. y \in Busy(k)
        BY <2>3
      <4>2. ticket'[y] < ticket'[r]
        BY <2>2, <4>1
      <4> QED BY <2>3, <4>2
    <3>6. Extends(S, t, u, r)
      BY <3>3, <3>4, <3>5 DEF Extends
    <3>7. r \notin S
      BY <3>2
    <3>8. InOrderOf(S \cup {r}, u) = Append(InOrderOf(S, t), r)
      <4>1. \A x : x \notin S => \A v : Extends(S, t, v, x) => InOrderOf(S \cup {x}, v) = Append(InOrderOf(S, t), x)
        BY <3>1, OrderAppend
      <4>2. Extends(S, t, u, r) => InOrderOf(S \cup {r}, u) = Append(InOrderOf(S, t), r)
        BY <3>7, <4>1
      <4> QED BY <3>6, <4>2
    <3> QED BY <3>8
  <2>5. Pending(k)' = InOrderOf(S \cup {r}, u)
    <3>1. Pending(k)' = InOrderOf(Busy(k)', ticket')
      BY DEF Pending, InOrderOf
    <3> QED BY <2>3, <3>1
  <2>6. Pending(k) = InOrderOf(S, t)
    BY <2>3 DEF Pending
  <2> QED BY <2>4, <2>5, <2>6
<1>7. ASSUME NEW l \in Keys, l # k PROVE Pending(l)' = Pending(l)
  <2>1. Busy(l)' = Busy(l)
    BY <1>1, <1>4, <1>5, <1>7 DEF Busy, Active
  <2>2. \A y \in Busy(l) : ticket'[y] = ticket[y]
    BY <1>1, <1>4 DEF Busy, Active
  <2>3. PICK S, t, u : S = Busy(l) /\ t = ticket /\ u = ticket' /\ S = Busy(l)'
    BY <2>1
  <2>4. InOrderOf(S, u) = InOrderOf(S, t)
    <3>1. Distinct(S, t)
      BY <2>3, BusyDistinct
    <3>2. ASSUME NEW y \in S PROVE u[y] = t[y]
      <4>1. ticket'[y] = ticket[y]
        BY <2>2, <2>3
      <4> QED BY <2>3, <4>1
    <3> QED BY <3>1, <3>2, OrderSame
  <2>5. Pending(l)' = InOrderOf(Busy(l)', ticket')
    BY DEF Pending, InOrderOf
  <2>6. Pending(l) = InOrderOf(S, t)
    BY <2>3 DEF Pending
  <2> QED BY <2>3, <2>4, <2>5, <2>6
<1>8. [l \in Keys |-> Pending(l)]' = [[l \in Keys |-> Pending(l)] EXCEPT ![k] = Append(@, r)]
  BY <1>6, <1>7
<1> QED BY <1>1, <1>2, <1>3, <1>8 DEF Serial!Submit

LEMMA EndCompletes ==
  ASSUME FInv, FInv', Stages, BusyFinite, NEW r \in Reqs, Steady, OthersRest(r), Ends(r)
  PROVE  Serial!Complete(key[r])
<1>0. TypeOK /\ LockTypeOK /\ Begun /\ Names /\ TypeOK'
  BY DEF FInv, LockInv
<1>1. /\ stage[r] = "running" /\ stage'[r] = "released" /\ key[r] \in Keys /\ Active(r) /\ Resolved(r)
      /\ UNCHANGED <<key, ticket, title>>
  BY DEF Ends, FInv, LockInv, Begun, Links, Active, Steady
<1>2. \A q \in Busy(key[r]) \ {r} : ticket[r] < ticket[q]
  <2> SUFFICES ASSUME NEW q \in Busy(key[r]) \ {r} PROVE ticket[r] < ticket[q]
    OBVIOUS
  <2>1. ~(ticket[q] < ticket[r])
    BY <1>1, ResolvedMeansFirst DEF Busy, FInv
  <2>2. ticket[q] # ticket[r]
    BY <1>0, <1>1 DEF Busy, Active, Begun
  <2> QED BY <1>0, <2>1, <2>2 DEF LockTypeOK, Busy
<1>3. Pending(key[r]) # <<>> /\ Head(Pending(key[r])) = r
      /\ InOrderOf(Busy(key[r]) \ {r}, ticket) = Tail(Pending(key[r]))
  BY <1>1, <1>2, BusyDistinct, OrderTail DEF Pending, Busy
<1>4. \A q \in Reqs \ {r} : stage'[q] = stage[q] /\ result'[q] = result[q]
  BY DEF OthersRest
<1>5. ASSUME NEW k \in Keys PROVE Pending(k)' = IF k = key[r] THEN Tail(Pending(k)) ELSE Pending(k)
  <2>1. Busy(k)' = IF k = key[r] THEN Busy(k) \ {r} ELSE Busy(k)
    BY <1>1, <1>4 DEF Busy, Active
  <2>2. Pending(k)' = InOrderOf(Busy(k)', ticket)
    BY <1>1 DEF Pending, InOrderOf
  <2> QED BY <1>3, <2>1, <2>2 DEF Pending
<1>6. result' = [result EXCEPT ![r] = result'[r]]
  BY <1>0, <1>4 DEF TypeOK
<1>7. result'[r] \in Serial!Outcomes(r, key[r])
  <2>1. CASE pc[r] \in Sends /\ result'[r] = target[r] /\ target[r] \in Sids
    <3>1. r \notin Clears
      BY <2>1 DEF Stages, Sends, Calls
    <3>2. title[target[r]] = key[r]
      BY <1>0, <2>1, ForwardingAssumption DEF Names
    <3> QED BY <2>1, <3>1, <3>2 DEF Serial!Outcomes
  <2>2. CASE result'[r] = "unavailable"
    BY <2>2 DEF Serial!Outcomes
  <2>3. CASE ToDelete(r, {}) /\ result'[r] = "cleared"
    BY <2>3 DEF Serial!Outcomes, ToDelete, Stages
  <2> QED BY <2>1, <2>2, <2>3 DEF Ends
<1>8. [l \in Keys |-> Pending(l)]' = [[l \in Keys |-> Pending(l)] EXCEPT ![key[r]] = Tail(@)]
  BY <1>1, <1>5
<1> QED BY <1>1, <1>3, <1>6, <1>7, <1>8 DEF Serial!Complete

LEMMA SerialStep ==
  ASSUME FInv, FInv', Stages, BusyFinite, [Next]_vars
  PROVE  [Serial!Next]_(Serial!vars)
<1>0. TypeOK /\ Begun /\ Placed /\ TypeOK'
  BY DEF FInv, LockInv
<1>1. ASSUME UNCHANGED <<key, ticket, result, title>>, \A r \in Reqs : Active(r)' <=> Active(r)
      PROVE  UNCHANGED Serial!vars
  BY <1>1, QueuesRest DEF Serial!vars
<1>2. CASE Quiet
  BY <1>1, <1>2 DEF Quiet, Active
<1>3. ASSUME NEW r \in Reqs, NEW k \in Keys, Arrive(r, k) PROVE Serial!Next
  BY <1>3, ArriveSubmits DEF Serial!Next
<1>4. ASSUME NEW r \in Reqs, Continue(r) PROVE [Serial!Next]_(Serial!vars)
  <2>1. Steady /\ OthersRest(r) /\ (Begins(r) \/ GoesOn(r) \/ DeletesOne(r) \/ Ends(r))
    BY <1>4, ContinueDoes
  <2>2. CASE Ends(r)
    <3>1. Serial!Complete(key[r]) /\ key[r] \in Keys
      BY <1>0, <2>1, <2>2, EndCompletes DEF Ends, Begun
    <3> QED BY <3>1 DEF Serial!Next
  <2>3. CASE Begins(r) \/ GoesOn(r) \/ DeletesOne(r)
    <3>1. result' = result
      BY <1>0, <2>1, <2>3 DEF OthersRest, Begins, GoesOn, DeletesOne, TypeOK
    <3>2. UNCHANGED <<key, ticket, title>> /\ \A q \in Reqs : Active(q)' <=> Active(q)
      BY <2>1, <2>3 DEF Steady, OthersRest, Begins, GoesOn, DeletesOne, Active
    <3> QED BY <1>1, <3>1, <3>2
  <2> QED BY <2>1, <2>2, <2>3
<1>5. ASSUME NEW s \in Sids, NEW r \in Reqs, stage[r] # "idle", NewSession(r, s),
             UNCHANGED <<stage, key, ticket, result>>
      PROVE  Serial!Next
  <2>1. key[r] \in Keys /\ UNCHANGED [k \in Keys |-> Pending(k)]
    BY <1>0, <1>5, QueuesRest DEF Begun, Active
  <2> QED BY <1>5, <2>1 DEF Serial!Next, Serial!SessionAppears, NewSession
<1>6. ASSUME UNCHANGED <<stage, key, ticket, result, title>> PROVE UNCHANGED Serial!vars
  BY <1>1, <1>6 DEF Active
<1>7. ASSUME NEW r \in Reqs, Serve(r) \/ Lose(r) PROVE [Serial!Next]_(Serial!vars)
  <2>1. UNCHANGED <<stage, key, ticket, result>> /\ stage[r] # "idle"
    BY <1>0, <1>7, ServeDoes, LoseDoes DEF Placed
  <2>2. UNCHANGED title \/ \E s \in Sids : NewSession(r, s)
    BY <1>0, <1>7, ServeDoes, LoseDoes DEF Carried
  <2> QED BY <1>5, <1>6, <2>1, <2>2
<1>8. ASSUME NEW m \in late, LateCarried(m) PROVE [Serial!Next]_(Serial!vars)
  <2>1. m.req \in Reqs /\ stage[m.req] # "idle" /\ UNCHANGED <<stage, key, ticket, result>>
    BY <1>0, <1>8 DEF LateCarried, TypeOK, Placed
  <2>2. UNCHANGED title \/ \E s \in Sids : NewSession(m.req, s)
    BY <1>8 DEF LateCarried
  <2> QED BY <1>5, <1>6, <2>1, <2>2
<1>9. ASSUME NEW m \in late, ServeLate(m) PROVE LateCarried(m)
  BY <1>9 DEF ServeLate, LateCarried, lockVars, callVars
<1>10. PruneSessions \/ Tick \/ UNCHANGED vars => Quiet
  BY DEF PruneSessions, Tick, vars, lockVars, callVars, assistantVars, Quiet
<1> QED BY <1>2, <1>3, <1>4, <1>7, <1>8, <1>9, <1>10 DEF Next

LEMMA InitSerial == ASSUME Init PROVE Serial!Init /\ BusyFinite
<1>1. ASSUME NEW k \in Keys PROVE Busy(k) = {} /\ Pending(k) = <<>>
  <2>1. Busy(k) = {}
    BY DEF Init, LockInit, Busy, Active
  <2>2. Distinct({}, ticket) /\ Cardinality({}) = 0
    BY FS_EmptySet DEF Distinct
  <2>3. InOrderOf({}, ticket) \in Seq({}) /\ Len(InOrderOf({}, ticket)) = 0
    BY <2>2, OrderIsSeq
  <2>4. InOrderOf({}, ticket) = <<>>
    BY <2>3
  <2> QED BY <2>1, <2>4 DEF Pending
<1>2. BusyFinite
  BY <1>1, FS_EmptySet DEF BusyFinite
<1> QED BY <1>1, <1>2 DEF Init, Serial!Init

\* The forwarder, with its lock, caches, lists and retries, implements SerialSessions,
\* which has none of them, for any number of requests, conversations and failures.
THEOREM ForwarderIsSerial == Spec => ImplementsSerial
<1>1. Init => Serial!Init /\ BusyFinite
  BY InitSerial
<1>2. FInv /\ BusyFinite /\ [Next]_vars => BusyFinite'
  BY BusyFiniteStep
<1>3. FInv /\ FInv' /\ DeliveryInv /\ BusyFinite /\ [Next]_vars => [Serial!Next]_(Serial!vars)
  BY SerialStep DEF DeliveryInv
<1> QED BY <1>1, <1>2, <1>3, DeliveryInvariant, PTL DEF Spec, ImplementsSerial, Serial!Spec
===========================================================================
