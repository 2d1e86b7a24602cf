------------------------- MODULE SessionForwarding -------------------------
(***************************************************************************)
(* Session management and message routing of the guardian: askAssistant    *)
(* and clearAssistantSessions, run by concurrent requests under the lock   *)
(* of SessionLock, against an assistant that may lose a call before or     *)
(* after it took effect, or take the effect after the caller gave up.      *)
(*                                                                         *)
(* A cache key and the title of its sessions determine each other          *)
(* (resolveSessionTarget), so both are named by the member of Keys.        *)
(***************************************************************************)
EXTENDS SessionLock, Clock, SequencesExt

CONSTANTS
  Clears,                  \* the requests that ask for clearSession
  Sids,                    \* session identifiers of the assistant
  SESSION_TTL_MS,          \* 15 minutes
  SESSION_LIST_CACHE_TTL_MS, \* 1 minute
  MAX_SESSIONS,            \* the hard cap of the cache, 10 000
  MaxLost,                 \* bound: the calls to the assistant that may fail
  MaxOld                   \* bound: sessions left from an earlier run

ASSUME ForwardingAssumption ==
  /\ Clears \subseteq Reqs
  /\ None \notin Sids
  /\ {SESSION_TTL_MS, SESSION_LIST_CACHE_TTL_MS} \subseteq Nat \ {0}
  /\ {MAX_SESSIONS, MaxTime, MaxLost, MaxOld} \subseteq Nat

\* What a request ends with is told apart.
ASSUME OutcomesAssumption == Sids \cap {"none", "cleared", "unavailable"} = {}

VARIABLES
  sessionCache,   \* the cached keys |-> [sessionId, lastUsed]
  sessionTitleCache, \* the cached titles |-> session identifier
  sessionListCacheLastLoaded, \* 0 stands for "never"
  pc,             \* per running request, the call it awaits
  call,           \* per request: "none", "sent", "served" or "failed"
  target,         \* per request, the session its call names
  listing,        \* per request, the answer to its session list
  asked,          \* per request, when it asked for the list
  todo,           \* per clear, the sessions still to delete
  result,         \* per request: "none", a session, "cleared", "unavailable"
  title,          \* per session, its title, or None before it exists
  alive,          \* the sessions the assistant has
  heard,          \* per session, the requests whose message it processed
  late,           \* calls the caller gave up on that may still take effect
  lost,           \* the calls that failed, as <<request, call>> (history)
  evicted         \* the hard cap took an entry still in use (history)

cacheVars == <<sessionCache, sessionTitleCache, sessionListCacheLastLoaded>>
callVars == <<pc, call, target, listing, asked, todo, result>>
assistantVars == <<title, alive, heard, late>>
vars == <<lockVars, cacheVars, callVars, assistantVars, now, lost, evicted>>

Outcomes == Sids \cup {"none", "cleared", "unavailable"}
Calls == {"none", "sendCached", "list", "sendListed", "create", "sendNew",
          "listToClear", "delete"}
Sends == {"sendCached", "sendListed", "sendNew"}

TypeOK ==
  /\ LockTypeOK
  /\ now \in Nat
  /\ DOMAIN sessionCache \subseteq Keys
  /\ \A k \in DOMAIN sessionCache :
       sessionCache[k] \in [sessionId : Sids, lastUsed : Nat]
  /\ DOMAIN sessionTitleCache \subseteq Keys
  /\ Range(sessionTitleCache) \subseteq Sids
  /\ sessionListCacheLastLoaded \in Nat
  /\ pc \in [Reqs -> Calls]
  /\ call \in [Reqs -> {"none", "sent", "served", "failed"}]
  /\ target \in [Reqs -> Sids \cup {None}]
  /\ listing \in [Reqs -> SUBSET Sids]
  /\ asked \in [Reqs -> Nat]
  /\ todo \in [Reqs -> SUBSET Sids]
  /\ result \in [Reqs -> Outcomes]
  /\ title \in [Sids -> Keys \cup {None}]
  /\ alive \subseteq Sids
  /\ heard \in [Sids -> Seq(Reqs)]
  /\ late \subseteq [op : Calls, req : Reqs, sid : Sids \cup {None}]
  /\ lost \subseteq Reqs \X Calls
  /\ evicted \in BOOLEAN

(***************************************************************************)
(* A map is a function; these are Map.set and Map.delete.                  *)
(***************************************************************************)
Put(f, k, v) == [x \in DOMAIN f \cup {k} |-> IF x = k THEN v ELSE f[x]]
Drop(f, S) == Restrict(f, DOMAIN f \ S)
EmptyMap == [x \in {} |-> None]

Init ==
  /\ LockInit
  /\ now = SESSION_LIST_CACHE_TTL_MS      \* the epoch is long past
  /\ sessionCache = EmptyMap
  /\ sessionTitleCache = EmptyMap
  /\ sessionListCacheLastLoaded = 0
  /\ pc = [r \in Reqs |-> "none"]
  /\ call = [r \in Reqs |-> "none"]
  /\ target = [r \in Reqs |-> None]
  /\ listing = [r \in Reqs |-> {}]
  /\ asked = [r \in Reqs |-> 0]
  /\ todo = [r \in Reqs |-> {}]
  /\ result = [r \in Reqs |-> "none"]
  \* Sessions of an earlier run of the guardian, whose caches died with it.
  /\ title \in [Sids -> Keys \cup {None}]
  /\ alive = {s \in Sids : title[s] # None}
  /\ IsFiniteSet(alive) /\ Cardinality(alive) <= MaxOld
  /\ heard = [s \in Sids |-> <<>>]
  /\ late = {}
  /\ lost = {}
  /\ evicted = FALSE

(***************************************************************************)
(* The two ways a synchronous stretch of code ends: at the next await, or  *)
(* by returning (or throwing), which runs the finally block of the lock.   *)
(***************************************************************************)
Await(r, c, s) ==
  /\ pc' = [pc EXCEPT ![r] = c]
  /\ target' = [target EXCEPT ![r] = s]
  /\ call' = [call EXCEPT ![r] = "sent"]
  /\ asked' = [asked EXCEPT ![r] = IF c = "list" THEN now ELSE 0]
  /\ UNCHANGED result

Finish(r, outcome) ==
  /\ Release(r)
  /\ result' = [result EXCEPT ![r] = outcome]
  /\ pc' = [pc EXCEPT ![r] = "none"]
  /\ call' = [call EXCEPT ![r] = "none"]
  /\ target' = [target EXCEPT ![r] = None]
  /\ asked' = [asked EXCEPT ![r] = 0]

ListFresh == now - sessionListCacheLastLoaded < SESSION_LIST_CACHE_TTL_MS

CacheUsable(k) ==
  /\ k \in DOMAIN sessionCache
  /\ now - sessionCache[k].lastUsed < SESSION_TTL_MS

TitleUsable(k) == k \in DOMAIN sessionTitleCache /\ ListFresh

\* The catch blocks of askAssistant: what the key mapped to is distrusted.
ForgetKey(k) ==
  /\ sessionCache' = Drop(sessionCache, {k})
  /\ sessionTitleCache' = Drop(sessionTitleCache, {k})
  /\ sessionListCacheLastLoaded' = 0

Remember(k, s) ==
  /\ sessionCache' = Put(sessionCache, k, [sessionId |-> s, lastUsed |-> now])
  /\ sessionTitleCache' = Put(sessionTitleCache, k, s)
  /\ UNCHANGED sessionListCacheLastLoaded

(***************************************************************************)
(* Requests.                                                               *)
(***************************************************************************)
Arrive(r, k) ==
  /\ Enter(r, k)
  /\ UNCHANGED <<cacheVars, callVars, assistantVars, now, lost, evicted>>

\* askAssistant up to its first await.
AskRun(r) ==
  LET k == key[r] IN
  /\ r \notin Clears
  /\ Run(r)
  /\ \/ /\ CacheUsable(k)
        /\ Await(r, "sendCached", sessionCache[k].sessionId)
     \/ /\ ~CacheUsable(k)
        /\ TitleUsable(k)
        /\ Await(r, "sendListed", sessionTitleCache[k])
     \/ /\ ~CacheUsable(k)
        /\ ~TitleUsable(k)
        /\ Await(r, "list", None)
  /\ UNCHANGED <<cacheVars, listing, todo, assistantVars, now, lost, evicted>>

\* The answer to a message sent to the cached session.  The code writes
\* lastUsed into the entry it read before the await, which a prune may have
\* taken out of the map since.
CachedAnswered(r) ==
  LET k == key[r] IN
  /\ pc[r] = "sendCached" /\ call[r] = "served"
  /\ sessionCache' = IF k \in DOMAIN sessionCache
                     THEN [sessionCache EXCEPT ![k] =
                            [sessionId |-> @.sessionId, lastUsed |-> now]]
                     ELSE sessionCache
  /\ sessionTitleCache' = Put(sessionTitleCache, k, target[r])
  /\ Finish(r, target[r])
  /\ UNCHANGED <<sessionListCacheLastLoaded, listing, todo,
                 assistantVars, now, lost, evicted>>

\* The answer to a message sent to a listed or to a new session.
SessionAnswered(r) ==
  /\ pc[r] \in {"sendListed", "sendNew"} /\ call[r] = "served"
  /\ Remember(key[r], target[r])
  /\ Finish(r, target[r])
  /\ UNCHANGED <<listing, todo, assistantVars, now, lost, evicted>>

\* A bug the try block could have: an answer without text counts as a failure.
SendFailed_EmptyAnswer(r) ==
  /\ call[r] \in {"failed", "served"}
  /\ pc[r] = "sendCached"
  /\ Await(r, "list", None)
  /\ ForgetKey(key[r])
  /\ UNCHANGED <<lockVars, listing, todo, assistantVars, now, lost, evicted>>

\* A failed message: look for another session, then create one.  After the
\* cached session failed the title is gone, so the list is asked for again.
SendFailed(r) ==
  /\ call[r] = "failed"
  /\ \/ /\ pc[r] = "sendCached"
        /\ Await(r, "list", None)
     \/ /\ pc[r] = "sendListed"
        /\ Await(r, "create", None)
  /\ ForgetKey(key[r])
  /\ UNCHANGED <<lockVars, listing, todo, assistantVars, now, lost, evicted>>

\* A bug findExistingSessionId could have: any session of the list is taken.
Refills_AnyTitle(S) == [{title[s] : s \in S} -> S]

\* The title cache refilled from a list: the last session of a title wins,
\* and the order of the list is the assistant's.
Refills(S) == {f \in [{title[s] : s \in S} -> S] :
                 \A t \in DOMAIN f : title[f[t]] = t}

\* The session list has arrived, for an ask.  Its freshness counts from before
\* the call.
Listed(r) ==
  /\ pc[r] = "list" /\ call[r] = "served"
  /\ \E f \in Refills(listing[r]) :
       /\ sessionTitleCache' = f
       /\ IF key[r] \in DOMAIN f THEN Await(r, "sendListed", f[key[r]])
                                 ELSE Await(r, "create", None)
  /\ sessionListCacheLastLoaded' = asked[r]
  /\ UNCHANGED <<lockVars, sessionCache, listing, todo,
                 assistantVars, now, lost, evicted>>

Created(r) ==
  /\ pc[r] = "create" /\ call[r] = "served"
  /\ Await(r, "sendNew", target[r])
  /\ UNCHANGED <<lockVars, cacheVars, listing, todo,
                 assistantVars, now, lost, evicted>>

\* A bug the error path could have: the lock is kept when fn throws.
Unavailable_KeepsLock(r) ==
  /\ pc[r] \in {"list", "create", "sendNew", "listToClear"}
  /\ call[r] = "failed"
  /\ result' = [result EXCEPT ![r] = "unavailable"]
  /\ pc' = [pc EXCEPT ![r] = "none"]
  /\ UNCHANGED <<lockVars, cacheVars, call, target, asked, listing, todo,
                 assistantVars, now, lost, evicted>>

\* A failure no catch block covers leaves askAssistant or
\* clearAssistantSessions: the request is answered 502.
Unavailable(r) ==
  /\ pc[r] \in {"list", "create", "sendNew", "listToClear"}
  /\ call[r] = "failed"
  /\ Finish(r, "unavailable")
  /\ UNCHANGED <<cacheVars, listing, todo, assistantVars, now, lost, evicted>>

\* clearAssistantSessions up to its first await.
ClearRun(r) ==
  /\ r \in Clears
  /\ Run(r)
  /\ ForgetKey(key[r])
  /\ Await(r, "listToClear", None)
  /\ UNCHANGED <<listing, todo, assistantVars, now, lost, evicted>>

\* The sessions in S are still to be deleted: one at a time, then return.
DeleteNext(r, S) ==
  \/ /\ S = {}
     /\ Finish(r, "cleared")
     /\ UNCHANGED todo
  \/ \E s \in S :
       /\ Await(r, "delete", s)
       /\ todo' = [todo EXCEPT ![r] = S \ {s}]
       /\ UNCHANGED lockVars

\* A bug the filter could have: the title is compared with the cache key.
Matching_ByCacheKey(r) == {}

Matching(r) == {s \in listing[r] : title[s] = key[r]}

ClearListed(r) ==
  /\ pc[r] = "listToClear" /\ call[r] = "served"
  /\ DeleteNext(r, Matching(r))
  /\ UNCHANGED <<cacheVars, listing, assistantVars, now, lost, evicted>>

\* A failed deletion is swallowed: "best-effort cleanup".
DeleteOver(r) ==
  /\ pc[r] = "delete" /\ call[r] \in {"served", "failed"}
  /\ DeleteNext(r, todo[r])
  /\ UNCHANGED <<cacheVars, listing, assistantVars, now, lost, evicted>>

(***************************************************************************)
(* The assistant and the network: external, as the code meets them.        *)
(***************************************************************************)
Deliver(r, s) == heard' = [heard EXCEPT ![s] = Append(@, r)]

NewSession(r, s) ==
  /\ title[s] = None
  /\ title' = [title EXCEPT ![s] = key[r]]
  /\ alive' = alive \cup {s}

\* The assistant carries out the call r waits for.
Serve(r) ==
  /\ call[r] = "sent"
  /\ \/ /\ pc[r] \in Sends
        /\ \/ /\ target[r] \in alive
              /\ Deliver(r, target[r])
              /\ call' = [call EXCEPT ![r] = "served"]
           \/ /\ target[r] \notin alive
              /\ call' = [call EXCEPT ![r] = "failed"]
              /\ UNCHANGED heard
        /\ UNCHANGED <<target, listing, title, alive>>
     \/ /\ pc[r] \in {"list", "listToClear"}
        /\ listing' = [listing EXCEPT ![r] = alive]
        /\ call' = [call EXCEPT ![r] = "served"]
        /\ UNCHANGED <<target, title, alive, heard>>
     \/ /\ pc[r] = "create"
        /\ \E s \in Sids : NewSession(r, s) /\ target' = [target EXCEPT ![r] = s]
        /\ call' = [call EXCEPT ![r] = "served"]
        /\ UNCHANGED <<listing, heard>>
     \/ /\ pc[r] = "delete"
        /\ alive' = alive \ {target[r]}
        /\ call' = [call EXCEPT ![r] = "served"]
        /\ UNCHANGED <<target, listing, title, heard>>
  /\ UNCHANGED <<lockVars, cacheVars, pc, asked, todo, result, late, now, lost, evicted>>

\* The call fails for its caller: refused, cut off or timed out.  One that
\* was not carried out yet may still be.
Lose(r) ==
  /\ call[r] \in {"sent", "served"}
  /\ Cardinality(lost) < MaxLost
  /\ call' = [call EXCEPT ![r] = "failed"]
  /\ lost' = lost \cup {<<r, pc[r]>>}
  /\ \/ UNCHANGED late
     \/ /\ call[r] = "sent" /\ pc[r] \in Sends \cup {"create", "delete"}
        /\ late' = late \cup {[op |-> pc[r], req |-> r, sid |-> target[r]]}
  /\ UNCHANGED <<lockVars, cacheVars, pc, target, listing, asked, todo, result,
                 title, alive, heard, now, evicted>>

\* The assistant carries out a call nobody waits for any more.
ServeLate(m) ==
  /\ m \in late
  /\ late' = late \ {m}
  /\ \/ /\ m.op \in Sends /\ m.sid \in alive
        /\ Deliver(m.req, m.sid)
        /\ UNCHANGED <<title, alive>>
     \/ /\ m.op = "create"
        /\ \E s \in Sids : NewSession(m.req, s)
        /\ UNCHANGED heard
     \/ /\ m.op = "delete"
        /\ alive' = alive \ {m.sid}
        /\ UNCHANGED <<title, heard>>
  /\ UNCHANGED <<lockVars, cacheVars, callVars, now, lost, evicted>>

(***************************************************************************)
(* Timers.                                                                 *)
(***************************************************************************)
PruneSessions ==
  LET kept == {k \in DOMAIN sessionCache :
                 now - sessionCache[k].lastUsed <= SESSION_TTL_MS}
      stamp == [k \in kept |-> sessionCache[k].lastUsed]
  IN
  /\ \E S \in HardCap(stamp, MAX_SESSIONS) :
       /\ sessionCache' = Restrict(sessionCache, S)
       /\ evicted' = (evicted \/ S # kept)
  /\ sessionCache' # sessionCache
  /\ UNCHANGED <<lockVars, sessionTitleCache, sessionListCacheLastLoaded,
                 callVars, assistantVars, now, lost>>

Tick ==
  /\ Advance
  /\ UNCHANGED <<lockVars, cacheVars, callVars, assistantVars, lost, evicted>>

\* What the guardian does for r once it has the processor.
Continue(r) ==
  \/ AskRun(r) \/ CachedAnswered(r) \/ SessionAnswered(r) \/ SendFailed(r)
  \/ Listed(r) \/ Created(r) \/ Unavailable(r)
  \/ ClearRun(r) \/ ClearListed(r) \/ DeleteOver(r)

Next ==
  \/ \E r \in Reqs : (\E k \in Keys : Arrive(r, k))
                     \/ Continue(r) \/ Serve(r) \/ Lose(r)
  \/ \E m \in late : ServeLate(m)
  \/ PruneSessions
  \/ Tick

Spec == Init /\ [][Next]_vars

(***************************************************************************)
(* Properties.                                                             *)
(***************************************************************************)

\* No message ever reaches a session of another conversation, whatever lists
\* and caches were in flight, and the caches never name one.
OwnConversation ==
  /\ \A s \in Sids : \A r \in ToSet(heard[s]) : title[s] = key[r]
  /\ \A k \in DOMAIN sessionCache : title[sessionCache[k].sessionId] = k
  /\ \A k \in DOMAIN sessionTitleCache : title[sessionTitleCache[k]] = k

\* A caller is told the assistant is unavailable only when a call made for it
\* really failed: a session that was deleted behind a cache is recovered from.
UnavailableIsTrue ==
  \A r \in Reqs : result[r] = "unavailable" => \E c \in Calls : <<r, c>> \in lost

\* "best-effort cleanup; cache removal already ensures a fresh mapping next
\* turn": after a clear that reported success, no later message of the
\* conversation is answered by a session the clear had found.
ClearForgets ==
  \A c \in Clears, r \in Reqs :
    /\ result[c] = "cleared" /\ result[r] \in Sids
    /\ key[c] = key[r] /\ ticket[c] < ticket[r]
    => result[r] \notin listing[c]

\* The same, for clears none of whose deletions failed.
ClearForgetsUnlessLost ==
  \A c \in Clears, r \in Reqs :
    /\ result[c] = "cleared" /\ <<c, "delete">> \notin lost
    /\ result[r] \in Sids /\ key[c] = key[r] /\ ticket[c] < ticket[r]
    => result[r] \notin listing[c]

\* "to avoid duplicate session creation under concurrent requests": while no
\* call failed and the hard cap took no live entry, a conversation has one
\* session, next to those an earlier run left behind.  After an eviction a
\* stale session list may lead to a second one, and so it may where sessions are
\* configured to be forgotten before a list is (GUARDIAN_SESSION_TTL_MS).
NoDuplicateSession ==
  lost = {} /\ ~evicted =>
    \A k \in Keys :
      Cardinality({s \in alive : title[s] = k}) <= IF MaxOld > 1 THEN MaxOld ELSE 1

\* Where the assistant has processed the message of r, and as which of a session.
Deliveries(r) == UNION {{s} \X {i \in DOMAIN heard[s] : heard[s][i] = r} : s \in Sids}

\* A message is processed once, and once more for each attempt that failed.
DeliveredOnceUnlessLost ==
  \A r \in Reqs : Cardinality(Deliveries(r)) <= 1 + Cardinality({c \in Sends : <<r, c>> \in lost})

\* The messages of a conversation reach its session in the order they came in,
\* except one whose attempt failed for the guardian and landed late.
InOrder ==
  \A s \in Sids : \A i, j \in DOMAIN heard[s] :
    i < j /\ ticket[heard[s][i]] > ticket[heard[s][j]]
    => \E c \in Sends : <<heard[s][j], c>> \in lost

\* The forwarder is well typed, its conversations are served one request at a
\* time, and the map of promises holds just the conversations being served: no
\* entry of one that is idle stays, none of a busy one is taken away.
ForwarderSound == TypeOK /\ KeyMutex /\ ChainKept

\* What a caller is told and what the assistant was sent agree, through retries,
\* stale caches and calls that take effect late.
DeliveryExact == DeliveredOnceUnlessLost /\ InOrder /\ UnavailableIsTrue

(***************************************************************************)
(* The forwarder implements SerialSessions.                                *)
(***************************************************************************)
\* The members of S by rising t.
InOrderOf(S, t) ==
  [i \in 1..Cardinality(S) |-> CHOOSE x \in S : Cardinality({y \in S : t[y] < t[x]}) = i - 1]

Busy(k) == {r \in Reqs : Active(r) /\ key[r] = k}
Pending(k) == InOrderOf(Busy(k), ticket)

Serial == INSTANCE SerialSessions WITH
            queue <- [k \in Keys |-> Pending(k)], outcome <- result, owner <- title

\* Every step of the forwarder is a step of SerialSessions or none: requests
\* complete in order, once, and with a session of their own conversation.
ImplementsSerial == Serial!Spec

(***************************************************************************)
(* Liveness.  The event loop runs every continuation that is ready, and the*)
(* assistant answers or refuses every call made for the key k in the end   *)
(* (messages have no timeout by default, so nothing else bounds the wait). *)
(* Calls made for other keys may hang for ever.                            *)
(***************************************************************************)
KeyFairness(k) ==
  \A r \in Reqs : WF_vars(key[r] = k /\ (Continue(r) \/ Serve(r)))

\* A request of k that arrived is completed, even when other conversations
\* hang in the assistant.
KeyCompletes(k) ==
  \A r \in Reqs : (key[r] = k /\ Active(r)) ~> (stage[r] = "released")
=============================================================================
