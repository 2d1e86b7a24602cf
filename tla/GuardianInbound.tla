-------------------------- MODULE GuardianInbound --------------------------
(***************************************************************************)
(* POST /channel/inbound: one message's way through the guardian.  It is   *)
(* checked in order (form, signature, rate limits, replay), each refusal   *)
(* an early return, then cleared or forwarded.  Between the two awaits the *)
(* handler runs without interruption.  The checks are those of the modules *)
(* ChannelSecrets, RateLimiter and ReplayGuard; the work done for a        *)
(* message that passes is that of SessionForwarding and is external here.  *)
(* The guardian may be told to stop, be killed and start again.            *)
(***************************************************************************)
EXTENDS ChannelSecrets, Sequences, SequencesExt

CONSTANTS
  Messages,     \* signed messages: [wellFormed, user, nonce, ts, key, clear]
  Users, Channel, Nonces, NoNonce,
  USER_RATE_LIMIT, USER_RATE_WINDOW_MS, CHANNEL_RATE_LIMIT, CHANNEL_RATE_WINDOW_MS,
  MAX_BUCKETS, CLOCK_SKEW, PruneAt, maxSize,
  MaxKills,     \* bound on the kills
  MaxFailures   \* bound on the writes and flushes of the audit log that fail

ASSUME InboundAssumption ==
  /\ NoNonce \notin Nonces
  /\ \A m \in Messages : m.user \in Users /\ m.nonce \in Nonces \cup {NoNonce} /\ m.ts \in Int
  /\ {CLOCK_SKEW, PruneAt, maxSize, MaxKills, MaxFailures} \subseteq Nat

VARIABLES
  stage,        \* request |-> where its handler is
  msg,          \* request |-> the message it carries
  answer,       \* request |-> the status it was answered with
  buckets, seen,
  total, byStatus,           \* requestCounters
  auditBuffer, auditFile,    \* audit events written, and those on disk
  stopping,     \* the guardian was sent SIGTERM
  lost,         \* the audit events that never got there (history)
  forwarded,    \* the messages that passed every check, in order (history)
  kills,        \* how often the guardian was killed, and
  failures      \* how often its audit log failed it (history)

workVars == <<stage, msg, answer>>
limitVars == <<buckets, seen>>
countVars == <<total, byStatus>>
auditVars == <<auditBuffer, auditFile, lost, failures>>
lifeVars == <<stopping, kills>>
vars == <<secretsVars, workVars, limitVars, countVars, auditVars, lifeVars, forwarded>>

RL == INSTANCE RateLimiter WITH Channels <- {Channel}, admitted <- <<>>, refused <- {}, forgiven <- {}
RG == INSTANCE ReplayGuard WITH accepted <- {}, replayed <- {}

Refusals == {"invalid_payload", "invalid_signature", "rate_limited", "replay_detected"}
Outcomes == {"ok", "cleared", "assistant_unavailable"}
Statuses == Refusals \cup Outcomes
Stages == {"new", "checking", "working", "done", "past"}

TypeOK ==
  /\ SecretsTypeOK
  /\ stage \in [Requests -> Stages]
  /\ msg \in [Requests -> Messages]
  /\ answer \in [Requests -> Statuses \cup {"none"}]
  /\ \A r \in Requests : (stage[r] = "done") => (answer[r] # "none")
  /\ DOMAIN buckets \subseteq Users \cup {Channel}
  /\ DOMAIN seen \subseteq Nonces
  /\ total \in Nat /\ byStatus \in [Statuses -> Nat]
  /\ {auditBuffer, auditFile} \subseteq Seq(Requests \X Statuses)
  /\ lost \subseteq Requests \X Statuses
  /\ forwarded \in Seq(Messages)
  /\ stopping \in BOOLEAN /\ kills \in 0..MaxKills /\ failures \in 0..MaxFailures

NoCounts == [s \in Statuses |-> 0]

Init ==
  /\ SecretsInit
  /\ stage = [r \in Requests |-> "new"]
  /\ msg \in [Requests -> Messages]
  /\ answer = [r \in Requests |-> "none"]
  /\ buckets = [k \in {} |-> [count |-> 0, start |-> 0]]
  /\ seen = [n \in {} |-> 0]
  /\ total = 0 /\ byStatus = NoCounts
  /\ auditBuffer = <<>> /\ auditFile = <<>> /\ lost = {}
  /\ stopping = FALSE /\ kills = 0 /\ failures = 0
  /\ forwarded = <<>>

-----------------------------------------------------------------------------
(* Answering.                                                              *)

Audited == {"ok", "cleared", "assistant_unavailable", "rate_limited"}
CountedStatuses == Statuses \ {"cleared"}

LogFails == failures < MaxFailures /\ failures' = failures + 1

\* audit: an event that cannot be written is gone; the handler does not hear of it.
Audit(event) ==
  /\ \/ auditBuffer' = Append(auditBuffer, event) /\ UNCHANGED <<lost, failures>>
     \/ LogFails /\ lost' = lost \cup {event} /\ UNCHANGED auditBuffer
  /\ UNCHANGED auditFile

\* countRequest, audit and the response, without an await between them.
Answer(r, status) ==
  /\ stage' = [stage EXCEPT ![r] = "done"]
  /\ answer' = [answer EXCEPT ![r] = status]
  /\ IF status \in CountedStatuses
     THEN total' = total + 1 /\ byStatus' = [byStatus EXCEPT ![status] = @ + 1]
     ELSE UNCHANGED countVars
  /\ IF status \in Audited THEN Audit(<<r, status>>) ELSE UNCHANGED auditVars
  /\ UNCHANGED <<msg, lifeVars>>

\* A body too large, not JSON or without the required fields.
Malformed(r) ==
  /\ stage[r] = "new" /\ ~msg[r].wellFormed
  /\ Answer(r, "invalid_payload")
  /\ UNCHANGED <<secretsVars, limitVars, forwarded>>

\* The handler asks for the secrets and waits.
AskSecrets(r) ==
  /\ stage[r] = "new" /\ msg[r].wellFormed
  /\ stage' = [stage EXCEPT ![r] = "checking"]
  /\ Load(r)
  /\ UNCHANGED <<msg, answer, limitVars, countVars, auditVars, lifeVars, forwarded>>

Signed(r) == returned[r] # NoSecret /\ msg[r].key = returned[r]

\* A bug: the nonce is consumed before the rate limits are asked.
Consumed_First(r) == {RG!Remembered(msg[r].nonce, msg[r].ts)}

\* The nonces left when the message is rate limited.
Consumed(r) == {seen}

Unseen(r) == msg[r].nonce # NoNonce /\ RG!Fresh(msg[r].ts) /\ msg[r].nonce \notin DOMAIN seen

\* The checks that follow the first await.
Check(r) ==
  /\ stage[r] = "checking" /\ returned[r] # Pending
  /\ \/ /\ ~Signed(r)
        /\ Answer(r, "invalid_signature")
        /\ UNCHANGED <<limitVars, forwarded>>
     \/ /\ Signed(r)
        /\ \E c \in RL!Charged(buckets, msg[r].user, Channel) :
             /\ buckets' = c.left
             /\ \/ /\ ~c.granted
                   /\ Answer(r, "rate_limited")
                   /\ seen' \in Consumed(r)
                   /\ UNCHANGED forwarded
                \/ /\ c.granted /\ ~Unseen(r)
                   /\ Answer(r, "replay_detected")
                   /\ UNCHANGED <<seen, forwarded>>
                \/ /\ c.granted /\ Unseen(r)
                   /\ seen' \in RG!AfterInsertion(RG!Remembered(msg[r].nonce, msg[r].ts))
                   /\ stage' = [stage EXCEPT ![r] = "working"]
                   /\ forwarded' = Append(forwarded, msg[r])
                   /\ UNCHANGED <<msg, answer, countVars, auditVars, lifeVars>>
  /\ UNCHANGED secretsVars

\* The second await ends: the session was cleared, the assistant answered, or
\* the call failed.
Finish(r) ==
  /\ stage[r] = "working"
  /\ \E status \in {"assistant_unavailable", IF msg[r].clear THEN "cleared" ELSE "ok"} :
       Answer(r, status)
  /\ UNCHANGED <<secretsVars, limitVars, forwarded>>

-----------------------------------------------------------------------------
(* Timers, signals, and the world around.                                  *)

\* A bug the log could have: each flush writes the file anew.
Flushed_Overwrite == auditFile' = auditBuffer /\ auditBuffer' = <<>>

\* The buffer goes to the file: every five seconds, or when it is full.
Flushed == auditFile' = auditFile \o auditBuffer /\ auditBuffer' = <<>>

\* A flush that fails is only logged; what the writer then still holds is the
\* runtime's affair: all of it, for the next flush, or nothing.
FlushFails ==
  /\ LogFails
  /\ \/ UNCHANGED <<auditBuffer, lost>>
     \/ lost' = lost \cup ToSet(auditBuffer) /\ auditBuffer' = <<>>
  /\ UNCHANGED auditFile

flushAuditBuffer == (Flushed /\ UNCHANGED <<lost, failures>>) \/ FlushFails

Flush ==
  /\ auditBuffer # <<>>
  /\ flushAuditBuffer
  /\ UNCHANGED <<secretsVars, workVars, limitVars, countVars, lifeVars, forwarded>>

\* The handler of SIGTERM flushes, and the process goes on.
Sigterm ==
  /\ ~stopping
  /\ stopping' = TRUE
  /\ flushAuditBuffer
  /\ UNCHANGED <<secretsVars, workVars, limitVars, countVars, kills, forwarded>>

\* The process is killed, or crashes, and is started again: what it kept in
\* memory is gone, its requests die unanswered, the disk keeps the log.
AfterKill(r) == IF stage[r] = "new" THEN "new" ELSE "past"

Recounted == NoCounts

Kill ==
  /\ kills < MaxKills
  /\ kills' = kills + 1
  /\ stopping' = FALSE
  /\ stage' = [r \in Requests |-> AfterKill(r)]
  /\ buckets' = [k \in {} |-> [count |-> 0, start |-> 0]]
  /\ seen' = [n \in {} |-> 0]
  /\ secretsCache' = {}
  /\ loading' = [r \in Requests |-> [mtime |-> 0, content |-> Pending]]
  /\ total' = 0 /\ byStatus' = Recounted
  /\ lost' = lost \cup ToSet(auditBuffer)
  /\ auditBuffer' = <<>>
  /\ returned' = [r \in Requests |-> IF Waiting(r) THEN NoSecret ELSE returned[r]]
  /\ UNCHANGED <<now, fileVars, asked, current, msg, answer, auditFile, failures, forwarded>>

Prune ==
  /\ \/ seen' \in RG!Pruned(seen) /\ UNCHANGED buckets
     \/ buckets' \in RL!PrunedBuckets(buckets) /\ UNCHANGED seen
  /\ UNCHANGED <<secretsVars, workVars, countVars, auditVars, lifeVars, forwarded>>

\* The loads, the secrets file and the clock.
Environment ==
  /\ \/ \E r \in Requests : Read(r) \/ Loaded(r) \/ Unreadable(r)
     \/ Truncate \/ Fill \/ Withdraw
     \/ SecretsTick
  /\ UNCHANGED <<workVars, limitVars, countVars, auditVars, lifeVars, forwarded>>

Next ==
  \/ \E r \in Requests : Malformed(r) \/ AskSecrets(r) \/ Check(r) \/ Finish(r)
  \/ Flush \/ Sigterm \/ Kill \/ Prune
  \/ Environment

Spec == Init /\ [][Next]_vars

(***************************************************************************)
(* Properties.                                                             *)
(***************************************************************************)
Passed == ToSet(forwarded)

\* "Rate limit before nonce check to prevent nonce consumption for
\* rate-limited requests": only a message that passed every check has its
\* nonce consumed, so one refused for any other reason may be sent again.
OnlyPassedConsume == \A n \in DOMAIN seen : \E m \in Passed : m.nonce = n

\* No message passes twice between two starts of the guardian.
PassedOnce == kills = 0 => IsInjective(forwarded)

\* A message passes only if it is signed with a secret the file held while it
\* was waiting to be checked.
PassedWithCurrentSecret ==
  \A r \in Requests :
    stage[r] = "working" /\ ambiguous = {} => msg[r].key \in current[r]

\* /stats: the counters of this life say of every answer but the cleared ones
\* exactly once what it was.
Answered(s) == {r \in Requests : stage[r] = "done" /\ answer[r] = s}
StatsAddUp ==
  /\ \A s \in Statuses \ {"cleared"} : byStatus[s] = Cardinality(Answered(s))
  /\ total = Cardinality({r \in Requests : stage[r] = "done"} \ Answered("cleared"))

\* Every answer given for a message whose sender was verified and that was not
\* a replay is in the log, once and as it was given; or it was lost, and then the
\* guardian was killed with it unflushed or a write or a flush has failed.
Log == auditFile \o auditBuffer
AuditComplete ==
  /\ IsInjective(Log)
  /\ \A e \in ToSet(Log) : answer[e[1]] = e[2]
  /\ \A r \in Requests :
       answer[r] \in Outcomes \cup {"rate_limited"}
       => <<r, answer[r]>> \in ToSet(Log) \cup lost
  /\ ToSet(Log) \cap lost = {}
  /\ kills + failures = 0 => lost = {}

\* Secrets rotate under running requests: neither a slow read nor one that ends
\* out of order lets an old secret pass for the present one.
SecretsExact == CacheMatchesStamp /\ PassedWithCurrentSecret

\* A nonce is spent by a message that passes, and once.
NoncesExact == PassedOnce /\ OnlyPassedConsume

\* Whatever way a request ends, the counters and the log say of it what its
\* sender was told, as far as the log can be written.
Accounted == TypeOK /\ StatsAddUp /\ AuditComplete
=============================================================================
