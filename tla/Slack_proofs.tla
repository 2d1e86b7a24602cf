--------------------------- MODULE Slack_proofs ---------------------------
(***************************************************************************)
(* The Slack channel, for any number of events, threads, users and /clears:*)
(* it takes each event once, lets none pass an earlier one without cause,  *)
(* serves the threads it follows, uses the conversation queue as specified *)
(* and asks the guardian in that order.                                    *)
(***************************************************************************)
EXTENDS SlackChannel, Queue_proofs

\* What the handlers have looked at, and what the channel knows of it: who waits has a
\* cause; a message in a thread that was looked at although the post mentions the bot
\* came before the bot knew its id; and a thread something was taken in is followed.
EventsInv ==
  /\ key = KeyOf
  /\ intake \in [Tasks -> {"new", "ignored", "waiting", "in", "rejected"}]
  /\ \A t \in Tasks : intake[t] = "in" <=> phase[t] # "new"
  /\ botUserId \in BOOLEAN /\ usernameCache \subseteq Users
  /\ active \subseteq Threads /\ strangers \subseteq Tasks /\ unnamed \subseteq Tasks
  /\ \A t \in Tasks : intake[t] = "waiting" => t \in strangers \/ Source[t] = "modal"
  /\ \A t \in Tasks : Source[t] = "reply" /\ Mentioned(t) /\ intake[t] \notin {"new", "ignored"} => t \in unnamed
  /\ fresh \subseteq Tasks /\ \A t \in fresh : key[t] \in active

SlackInv == QueueInv /\ LineInv /\ EventsInv

(***************************************************************************)
(* Lemmas.                                                                 *)
(***************************************************************************)
\* Where nothing of the queue and the line moves.
LEMMA Rests ==
  ASSUME QueueInv, LineInv, UNCHANGED <<queueVars, guardianVars, clearVars>>
  PROVE  QueueInv' /\ LineInv'
<1>1. QueueInv'
  BY QueueStep
<1>2. UNCHANGED <<phase, key, ticket, at, line, context, handled, clearing, behind>>
  BY DEF queueVars, guardianVars, clearVars
<1>3. LineInv'
  BY <1>2 DEF LineInv, LineTypeOK, OnTheWay, LineInOrder, AskedInOrder, Lined
<1> QED BY <1>1, <1>3

\* runOrQueue: the task is in, and its thread is followed.
LEMMA Enqueues ==
  ASSUME EventsAssumption, SlackInv, NEW t \in Tasks, phase[t] = "new", Enqueue(t), UNCHANGED <<guardianVars, clearVars>>
  PROVE  /\ QueueInv' /\ LineInv'
         /\ key' = key
         /\ phase'[t] # "new" /\ \A u \in Tasks \ {t} : phase'[u] = phase[u]
         /\ active' \subseteq Threads
         /\ fresh' \subseteq Tasks /\ \A u \in fresh' : key'[u] \in active'
<1>1. Queue(t) \/ Start(t)
  BY DEF Enqueue
<1>2. QueueInv' /\ LineInv'
  BY <1>1, EnqueuedFits, QueueKeeps, StartKeeps DEF SlackInv
<1>3. key' = key
  BY <1>1 DEF Queue, Start, Comes
<1>4. phase'[t] # "new" /\ \A u \in Tasks \ {t} : phase'[u] = phase[u]
  BY <1>1 DEF Queue, Start, SlackInv, QueueInv, QueueTypeOK
<1>5. active' \subseteq Threads
  BY DEF Enqueue, touchThread, SlackInv, EventsInv, EventsAssumption
<1>6. fresh' \subseteq Tasks /\ \A u \in fresh' : key[u] \in active'
  BY DEF Enqueue, touchThread, SlackInv, EventsInv
<1> QED BY <1>2, <1>3, <1>4, <1>5, <1>6

\* The queue goes on, or is cleared: nothing new comes.
LEMMA TakesNone ==
  ASSUME QueueInv, (\E t \in Tasks, failed \in BOOLEAN : End(t, failed)) \/ \E k \in Keys : clear(k)
  PROVE  key' = key /\ \A u \in Tasks : phase'[u] # "new" <=> phase[u] # "new"
<1>1. ASSUME NEW t \in Tasks, NEW failed \in BOOLEAN, End(t, failed)
      PROVE  key' = key /\ \A u \in Tasks : phase'[u] # "new" <=> phase[u] # "new"
  <2>1. PICK k \in Keys : k = key[t]
    BY DEF QueueInv, QueueTypeOK
  <2>2. Waiting(k) = WaitsIn(states, k) /\ Waiting(k) \in Seq(Tasks)
    BY WaitingType DEF Waiting, WaitsIn, QueueInv
  <2>3. Waiting(k) # <<>> => Head(Waiting(k)) \in Tasks /\ phase[Head(Waiting(k))] = "queued"
    <3>1. Waiting(k) # <<>> => 1 \in 1..Len(Waiting(k)) /\ Head(Waiting(k)) = Waiting(k)[1]
      BY <2>2
    <3> QED BY <2>2, <3>1 DEF QueueInv, QueuesInv, Queued
  <2>4. /\ phase[t] = "running" /\ key' = key
        /\ \/ phase' = [phase EXCEPT ![t] = "done", ![Head(Waiting(k))] = "running"] /\ Waiting(k) # <<>>
           \/ phase' = [phase EXCEPT ![t] = "done"]
    BY <1>1, <2>1 DEF End, Drains
  <2> QED BY <2>3, <2>4 DEF QueueInv, QueueTypeOK
<1>2. ASSUME NEW k \in Keys, clear(k)
      PROVE  key' = key /\ \A u \in Tasks : phase'[u] # "new" <=> phase[u] # "new"
  <2>1. Waiting(k) = WaitsIn(states, k) /\ Waiting(k) \in Seq(Tasks)
    BY WaitingType DEF Waiting, WaitsIn, QueueInv
  <2>2. \A i \in DOMAIN Waiting(k) : phase[Waiting(k)[i]] = "queued"
    BY <2>1 DEF QueueInv, QueuesInv, Queued
  <2> QED BY <1>2, <2>2 DEF clear
<1> QED BY <1>1, <1>2

\* What an event that is looked at leaves of the rest.
LEMMA LooksKeeps ==
  ASSUME SlackInv, NEW t \in Tasks, NEW outcome \in {"ignored", "waiting", "in", "rejected"}, Looks(t, outcome),
         outcome = "ignored" \/ Takes(t),
         outcome = "waiting" => UserOf[t] \notin usernameCache \/ Source[t] = "modal"
  PROVE  /\ intake' \in [Tasks -> {"new", "ignored", "waiting", "in", "rejected"}]
         /\ intake'[t] = outcome /\ \A u \in Tasks \ {t} : intake'[u] = intake[u]
         /\ strangers' \subseteq Tasks /\ unnamed' \subseteq Tasks
         /\ \A u \in Tasks : intake'[u] = "waiting" => u \in strangers' \/ Source[u] = "modal"
         /\ \A u \in Tasks : Source[u] = "reply" /\ Mentioned(u) /\ intake'[u] \notin {"new", "ignored"} => u \in unnamed'
<1>1. /\ intake' \in [Tasks -> {"new", "ignored", "waiting", "in", "rejected"}]
      /\ intake'[t] = outcome /\ \A u \in Tasks \ {t} : intake'[u] = intake[u]
  BY DEF Looks, SlackInv, EventsInv
<1>2. strangers' \subseteq Tasks /\ unnamed' \subseteq Tasks /\ strangers \subseteq strangers' /\ unnamed \subseteq unnamed'
  BY DEF Looks, SlackInv, EventsInv
<1>3. outcome = "waiting" => t \in strangers' \/ Source[t] = "modal"
  BY DEF Looks
<1>4. Source[t] = "reply" /\ Mentioned(t) /\ outcome # "ignored" => t \in unnamed'
  BY DEF Looks, Takes, LeavesToMention
<1> HIDE DEF Mentioned
<1> QED BY <1>1, <1>2, <1>3, <1>4 DEF SlackInv, EventsInv

(***************************************************************************)
(* Every step keeps the invariant.                                         *)
(***************************************************************************)
LEMMA SlackInitially == ASSUME SlackInit PROVE SlackInv
BY LineInitially DEF SlackInit, SlackInv, EventsInv, QueueInit

\* An event is ignored, rejected, or waits for what its handler awaits.
LEMMA LooksFits ==
  ASSUME EventsAssumption, SlackInv, NEW t \in Tasks, Ignore(t) \/ Reject(t) \/ Wait(t)
  PROVE  SlackInv'
<1>1. PICK outcome \in {"ignored", "waiting", "rejected"} :
        /\ Looks(t, outcome)
        /\ outcome = "ignored" \/ Takes(t)
        /\ outcome = "waiting" => MustWait(t)
        /\ UNCHANGED <<queueVars, usernameCache, active, fresh>>
  BY DEF Ignore, Reject, Wait
<1>2. outcome = "waiting" => UserOf[t] \notin usernameCache \/ Source[t] = "modal"
  BY <1>1 DEF MustWait
<1>3. /\ intake' \in [Tasks -> {"new", "ignored", "waiting", "in", "rejected"}]
      /\ intake'[t] = outcome /\ \A u \in Tasks \ {t} : intake'[u] = intake[u]
      /\ strangers' \subseteq Tasks /\ unnamed' \subseteq Tasks
      /\ \A u \in Tasks : intake'[u] = "waiting" => u \in strangers' \/ Source[u] = "modal"
      /\ \A u \in Tasks : Source[u] = "reply" /\ Mentioned(u) /\ intake'[u] \notin {"new", "ignored"} => u \in unnamed'
  BY <1>1, <1>2, LooksKeeps
<1>4. intake[t] = "new" /\ UNCHANGED <<botUserId, guardianVars, clearVars>>
  BY <1>1 DEF Looks
<1>5. QueueInv' /\ LineInv'
  BY <1>1, <1>4, Rests DEF SlackInv
<1>6. key' = key /\ phase' = phase
  BY <1>1 DEF queueVars
<1>7. EventsInv'
  BY <1>1, <1>3, <1>4, <1>6 DEF SlackInv, EventsInv, Mentioned
<1> QED BY <1>5, <1>7 DEF SlackInv

LEMMA TakeFits ==
  ASSUME EventsAssumption, SlackInv, NEW t \in Tasks, Take(t)
  PROVE  SlackInv'
<1>1. Looks(t, "in") /\ Takes(t) /\ Enqueue(t) /\ UNCHANGED usernameCache
  BY DEF Take
<1>2. /\ intake' \in [Tasks -> {"new", "ignored", "waiting", "in", "rejected"}]
      /\ intake'[t] = "in" /\ \A u \in Tasks \ {t} : intake'[u] = intake[u]
      /\ strangers' \subseteq Tasks /\ unnamed' \subseteq Tasks
      /\ \A u \in Tasks : intake'[u] = "waiting" => u \in strangers' \/ Source[u] = "modal"
      /\ \A u \in Tasks : Source[u] = "reply" /\ Mentioned(u) /\ intake'[u] \notin {"new", "ignored"} => u \in unnamed'
  BY <1>1, LooksKeeps
<1>3. intake[t] = "new" /\ UNCHANGED <<botUserId, guardianVars, clearVars>>
  BY <1>1 DEF Looks
<1>4. phase[t] = "new"
  BY <1>3 DEF SlackInv, EventsInv
<1>5. /\ QueueInv' /\ LineInv'
      /\ key' = key
      /\ phase'[t] # "new" /\ \A u \in Tasks \ {t} : phase'[u] = phase[u]
      /\ active' \subseteq Threads
      /\ fresh' \subseteq Tasks /\ \A u \in fresh' : key'[u] \in active'
  BY <1>1, <1>3, <1>4, Enqueues
<1>6. EventsInv'
  BY <1>1, <1>2, <1>3, <1>5 DEF SlackInv, EventsInv, Mentioned
<1> QED BY <1>5, <1>6 DEF SlackInv

LEMMA ResumesFits ==
  ASSUME EventsAssumption, SlackInv, NEW t \in Tasks, Resumes(t)
  PROVE  SlackInv'
<1>1. /\ intake[t] = "waiting" /\ UNCHANGED <<botUserId, unnamed, guardianVars, clearVars>>
      /\ strangers' = strangers \ {t}
  BY DEF Resumes
<1>2. usernameCache' \subseteq Users
  BY DEF Resumes, SlackInv, EventsInv, EventsAssumption
<1>3. phase[t] = "new"
  BY <1>1 DEF SlackInv, EventsInv
<1>4. PICK outcome \in {"in", "rejected"} : intake' = [intake EXCEPT ![t] = outcome]
                                            /\ IF outcome = "in" THEN Enqueue(t) ELSE UNCHANGED <<queueVars, active, fresh>>
  BY DEF Resumes
<1>5. /\ intake' \in [Tasks -> {"new", "ignored", "waiting", "in", "rejected"}]
      /\ intake'[t] = outcome /\ \A u \in Tasks \ {t} : intake'[u] = intake[u]
  BY <1>4 DEF SlackInv, EventsInv
<1>6. /\ QueueInv' /\ LineInv' /\ key' = key
      /\ phase'[t] # "new" <=> outcome = "in"
      /\ \A u \in Tasks \ {t} : phase'[u] = phase[u]
      /\ active' \subseteq Threads
      /\ fresh' \subseteq Tasks /\ \A u \in fresh' : key'[u] \in active'
  <2>1. CASE outcome = "in"
    BY <1>1, <1>3, <1>4, <2>1, Enqueues
  <2>2. CASE outcome = "rejected"
    <3>1. UNCHANGED <<queueVars, active, fresh>>
      BY <1>4, <2>2
    <3>2. QueueInv' /\ LineInv'
      BY <1>1, <3>1, Rests DEF SlackInv
    <3>3. key' = key /\ phase' = phase
      BY <3>1 DEF queueVars
    <3> QED BY <1>3, <2>2, <3>1, <3>2, <3>3 DEF SlackInv, EventsInv
  <2> QED BY <2>1, <2>2
<1>7. EventsInv'
  BY <1>1, <1>2, <1>5, <1>6 DEF SlackInv, EventsInv, Mentioned
<1> QED BY <1>6, <1>7 DEF SlackInv

\* What runs, the guardian and the /clears take nothing in.
LEMMA RunsFits ==
  ASSUME ClearsAssumption, SlackInv, (\E t \in Tasks : Runs(t)) \/ Forwarding
  PROVE  SlackInv'
<1>1. UNCHANGED slackVars
  BY DEF Runs, Forwarding, ThinkingFails
<1>2. QueueInv' /\ LineInv'
  <2>1. ASSUME NEW t \in Tasks, ThinkingFails(t) PROVE QueueInv' /\ LineInv'
    <3>1. End(t, TRUE) /\ at[t] \notin {"sent", "line"} /\ UNCHANGED <<guardianVars, clearVars>>
      BY <2>1 DEF ThinkingFails
    <3> QED BY <3>1, AnswerFits, EndKeeps DEF SlackInv
  <2> QED BY <2>1, ProceedsFits, ServesFits, ClearsFit DEF Runs, Forwarding, SlackInv
<1>3. key' = key /\ \A t \in Tasks : phase'[t] # "new" <=> phase[t] # "new"
  <2>1. CASE UNCHANGED queueVars
    BY <2>1 DEF queueVars
  <2>2. CASE (\E t \in Tasks, failed \in BOOLEAN : End(t, failed)) \/ \E k \in Keys : clear(k)
    BY <2>2, TakesNone DEF SlackInv
  <2>3. \/ UNCHANGED queueVars
        \/ (\E t \in Tasks, failed \in BOOLEAN : End(t, failed)) \/ \E k \in Keys : clear(k)
    BY DEF Runs, Forwarding, ThinkingFails, Proceeds, Send, Arrives, Answer, Aborts, Serves, ServesAsk, ServesClear,
           ClearCommand, ClearArrives, ClearAnswered, ClearsQueue, ClearsAssumption
  <2> QED BY <2>1, <2>2, <2>3
<1>4. EventsInv'
  BY <1>1, <1>3 DEF EventsInv, SlackInv, slackVars, Mentioned
<1> QED BY <1>2, <1>4 DEF SlackInv

\* Who is ignored was not to be taken.
LEMMA OnlyIgnored ==
  ASSUME SlackInv, [Next]_vars, NEW t \in Tasks, intake[t] = "new", intake'[t] = "ignored"
  PROVE  ~Takes(t)
<1>1. intake' # intake
  OBVIOUS
<1>2. PICK u \in Tasks : Ignore(u) \/ Reject(u) \/ Take(u) \/ Wait(u) \/ Resumes(u)
  BY <1>1 DEF Next, AuthTested, Expire, Runs, ThinkingFails, Forwarding, vars, slackVars
<1>3. PICK outcome \in {"ignored", "waiting", "in", "rejected"} :
        intake' = [intake EXCEPT ![u] = outcome] /\ (outcome = "ignored" => ~Takes(u))
  BY <1>2 DEF Ignore, Reject, Take, Wait, Resumes, Looks
<1> QED BY <1>3 DEF SlackInv, EventsInv

\* A /clear that is done was confirmed in this step.
LEMMA OnlyConfirmed ==
  ASSUME SlackInv, [Next]_vars, NEW c \in Clears, clearing[c] = "ok", clearing'[c] = "done"
  PROVE  ClearAnswered(c)
<1>1. clearing' # clearing /\ clearing \in [Clears -> {"new", "sent", "line", "ok", "refused", "done"}]
  BY DEF SlackInv, LineInv, LineTypeOK
<1>2. (\E d \in Clears : ClearCommand(d) \/ ClearArrives(d) \/ ClearAnswered(d)) \/ \E k \in Keys : ServesClear(k)
  BY <1>1 DEF Next, AuthTested, Expire, Ignore, Reject, Take, Wait, Looks, Resumes, Runs, ThinkingFails, Proceeds, Send,
              Arrives, Answer, Aborts, Forwarding, Serves, ServesAsk, vars, clearVars
<1>3. ASSUME NEW d \in Clears, ClearAnswered(d) PROVE d = c
  BY <1>1, <1>3 DEF ClearAnswered, ClearGoes
<1> QED BY <1>1, <1>2, <1>3 DEF ClearCommand, ClearArrives, ServesClear, ClearGoes

LEMMA SlackStep ==
  ASSUME EventsAssumption, ClearsAssumption, SlackInv, [Next]_vars PROVE SlackInv'
<1>1. CASE AuthTested \/ (\E k \in Threads : Expire(k)) \/ UNCHANGED vars
  <2>1. UNCHANGED <<queueVars, intake, usernameCache, strangers, unnamed, guardianVars, clearVars>>
    BY <1>1 DEF AuthTested, Expire, vars, slackVars
  <2>2. QueueInv' /\ LineInv'
    BY <2>1, Rests DEF SlackInv
  <2>3. key' = key /\ phase' = phase
    BY <2>1 DEF queueVars
  <2>4. /\ botUserId' \in BOOLEAN /\ active' \subseteq Threads
        /\ fresh' \subseteq Tasks /\ \A t \in fresh' : key[t] \in active'
    BY <1>1 DEF AuthTested, Expire, vars, slackVars, SlackInv, EventsInv
  <2>5. EventsInv'
    BY <2>1, <2>3, <2>4 DEF SlackInv, EventsInv, Mentioned
  <2> QED BY <2>2, <2>5 DEF SlackInv
<1>2. ASSUME NEW t \in Tasks, Ignore(t) \/ Reject(t) \/ Take(t) \/ Wait(t) \/ Resumes(t) \/ Runs(t) PROVE SlackInv'
  BY <1>2, LooksFits, TakeFits, ResumesFits, RunsFits
<1>3. CASE Forwarding
  BY <1>3, RunsFits
<1> QED BY <1>1, <1>2, <1>3 DEF Next

(***************************************************************************)
(* The theorems.                                                           *)
(***************************************************************************)
\* The inductive invariant of the channel: the queue and the line of the guardian are
\* as they should be, and what the handlers took they took for a reason.
THEOREM SlackInvariant == Spec => []SlackInv
<1> QED BY SlackInitially, SlackStep, EventsAssumption, ClearsAssumption, PTL DEF Spec

\* Two tasks of a conversation never run together, and none runs before its turn,
\* whatever events, failures and /clears come.
THEOREM SlackServesInTurn == Spec => []ServedInTurn
<1>1. SlackInv => ServedInTurn
  BY ServesInTurn DEF SlackInv
<1> QED BY <1>1, SlackInvariant, PTL

\* The channel uses the queue as specified: its steps are steps of the queue, or none.
THEOREM SlackUsesQueue == Spec => QueueSpec
<1>1. SlackInit => QueueInit
  BY DEF SlackInit
<1>2. [Next]_vars => [QueueNext]_queueVars
  BY ClearsAssumption
     DEF Next, vars, AuthTested, Expire, Ignore, Reject, Take, Wait, Resumes, Enqueue, Runs, ThinkingFails, Proceeds, Send,
         Arrives, Answer, Aborts, Forwarding, Serves, ServesAsk, ServesClear, ClearCommand, ClearArrives, ClearAnswered,
         ClearsQueue, QueueNext, ClearsAssumption
<1> QED BY <1>1, <1>2, PTL DEF Spec, QueueSpec

\* The guardian is asked in the order the channel took its events in.
THEOREM SlackAsksInOrder == Spec => []AskedInOrder
<1>1. SlackInv => AskedInOrder
  BY DEF SlackInv, LineInv
<1> QED BY <1>1, SlackInvariant, PTL

\* A post is answered once; a message in a thread that is followed is not passed
\* over; and an event overtakes another of its conversation only while the profile
\* of a stranger, or the conversation for a modal, is awaited.
THEOREM SlackTakesEvents == Spec => EventsTaken
<1>1. SlackInv => AnsweredOnce
  <2> SUFFICES ASSUME SlackInv, NEW t \in Tasks, NEW u \in Tasks,
                      t # u, PostOf[t] = PostOf[u], intake[t] = "in", intake[u] = "in"
               PROVE  \E s \in {t, u} : Source[s] = "reply" /\ s \in unnamed
    BY DEF AnsweredOnce
  <2>1. {Source[t], Source[u]} = {"reply", "mention"}
    BY EventsAssumption DEF EventsAssumption
  <2>2. CASE Source[t] = "reply" /\ Source[u] = "mention"
    BY <2>2 DEF Mentioned, SlackInv, EventsInv
  <2>3. CASE Source[t] = "mention" /\ Source[u] = "reply"
    BY <2>3 DEF Mentioned, SlackInv, EventsInv
  <2> QED BY <2>1, <2>2, <2>3
<1>2. SlackInv /\ [Next]_vars =>
        \A t, u \in Tasks :
          intake[t] = "new" /\ intake'[t] = "ignored" /\ key[u] = key[t] /\ u \in fresh => Mentioned(t) /\ botUserId
  <2> SUFFICES ASSUME SlackInv, [Next]_vars, NEW t \in Tasks, NEW u \in Tasks,
                      intake[t] = "new", intake'[t] = "ignored", key[u] = key[t], u \in fresh
               PROVE  Mentioned(t) /\ botUserId
    OBVIOUS
  <2>1. key[t] \in active
    BY DEF SlackInv, EventsInv
  <2>2. ~Takes(t)
    BY OnlyIgnored
  <2> QED BY <2>1, <2>2 DEF Takes, LeavesToMention
<1>3. SlackInv /\ [Next]_vars =>
        \A t, u \in Tasks :
          key[t] = key[u] /\ intake[t] = "waiting" /\ intake[u] = "new" /\ intake'[u] = "in" =>
            t \in strangers \/ Source[t] = "modal"
  BY DEF SlackInv, EventsInv
<1> QED BY <1>1, <1>2, <1>3, SlackInvariant, PTL DEF Spec, EventsTaken, ThreadsServed, OvertakesOnlyStrangers

\* Nobody waits behind a confirmed /clear.
THEOREM SlackClearLeavesOne == Spec => ClearLeavesOne
<1>1. SlackInv /\ [Next]_vars => [\A c \in Clears : clearing[c] = "ok" /\ clearing'[c] = "done" =>
           Cardinality({t \in Tasks : key[t] = ScopeOf[c] /\ phase'[t] \in {"queued", "running"}}) <= 1]_<<queueVars, clearVars>>
  <2> SUFFICES ASSUME SlackInv, [Next]_vars, NEW c \in Clears, clearing[c] = "ok", clearing'[c] = "done"
               PROVE  Cardinality({t \in Tasks : key[t] = ScopeOf[c] /\ phase'[t] \in {"queued", "running"}}) <= 1
    OBVIOUS
  <2>1. ClearAnswered(c)
    BY OnlyConfirmed
  <2>2. PICK k \in Keys : k = ScopeOf[c]
    BY ClearsAssumption DEF ClearsAssumption
  <2> QED BY <2>1, <2>2, ClearingLeavesOne DEF ClearAnswered, SlackInv
<1> QED BY <1>1, SlackInvariant, PTL DEF Spec, ClearLeavesOne
=============================================================================
