---------------------------- MODULE SlackChannel ----------------------------
(***************************************************************************)
(* The Slack channel between Socket Mode and the guardian: what it takes   *)
(* and what it leaves to another event, the user profile it may have to    *)
(* wait for, the threads it follows, and the way to the guardian           *)
(* (GuardianLine). The library runs the handlers of different events side  *)
(* by side: each may be suspended where it awaits.                         *)
(***************************************************************************)
EXTENDS GuardianLine

CONSTANTS
  Threads,      \* the conversations that are a Slack thread, a part of Keys
  Posts,        \* what users write; Tasks are the events Slack makes of it
  Users,
  Source,       \* per event: "dm", "reply" (a message in a thread), "mention" (app_mention),
                \* "ask" (/ask, or the modal of a message shortcut) or "modal" (of the global one)
  PostOf,       \* per event, the post; a mention in a thread is a "reply" as well
  UserOf,       \* per event, who wrote it
  KeyOf,        \* per event, the conversation resolveSessionKey names
  Together      \* bound: the sets of events and /clears that may come in one run

\* /clear always names the conversation of a user in a channel, never a thread's.
ASSUME EventsAssumption ==
  /\ Threads \subseteq Keys
  /\ Source \in [Tasks -> {"dm", "reply", "mention", "ask", "modal"}]
  /\ PostOf \in [Tasks -> Posts] /\ UserOf \in [Tasks -> Users] /\ KeyOf \in [Tasks -> Keys]
  /\ \A t \in Tasks : Source[t] \in {"reply", "mention"} => KeyOf[t] \in Threads
  /\ \A c \in Clears : ScopeOf[c] \notin Threads
  /\ \A t, u \in Tasks : t # u /\ PostOf[t] = PostOf[u] =>
       {Source[t], Source[u]} = {"reply", "mention"} /\ UserOf[t] = UserOf[u] /\ KeyOf[t] = KeyOf[u]

VARIABLES
  intake,        \* per event: "new", "ignored", "waiting", "in" or "rejected"
  botUserId,     \* whether the bot knows its own id
  usernameCache, \* the users whose profile is known
  active,        \* activeThreads, those within their time to live
  strangers,     \* the events that wait and whose user was not known when they came (history)
  unnamed,       \* the messages with a mention that came before the bot knew its id (history)
  fresh          \* the events in a thread taken since it last expired (history)

slackVars == <<intake, botUserId, usernameCache, active, strangers, unnamed, fresh>>
vars == <<queueVars, slackVars, guardianVars, clearVars>>

SlackTypeOK ==
  /\ QueueTypeOK /\ LineTypeOK
  /\ intake \in [Tasks -> {"new", "ignored", "waiting", "in", "rejected"}]
  /\ \A t \in Tasks : intake[t] = "in" <=> phase[t] # "new"
  /\ botUserId \in BOOLEAN
  /\ usernameCache \subseteq Users
  /\ active \subseteq Threads
  /\ strangers \subseteq Tasks /\ unnamed \subseteq Tasks /\ fresh \subseteq Tasks

SlackInit ==
  /\ QueueInit /\ LineInit
  /\ key = KeyOf
  /\ intake = [t \in Tasks |-> "new"]
  /\ botUserId = FALSE
  /\ usernameCache = {}
  /\ active = {}
  /\ strangers = {} /\ unnamed = {} /\ fresh = {}

-----------------------------------------------------------------------------
(* connectSocketMode: events may come before auth.test has answered; if it  *)
(* fails, the bot never knows its id.                                       *)
AuthTested ==
  /\ ~botUserId /\ botUserId' = TRUE
  /\ UNCHANGED <<queueVars, intake, usernameCache, active, strangers, unnamed, fresh, guardianVars, clearVars>>

\* The time to live of a thread passes.
Expire(k) ==
  /\ k \in active /\ active' = active \ {k}
  /\ fresh' = {t \in fresh : key[t] # k}
  /\ UNCHANGED <<queueVars, intake, botUserId, usernameCache, strangers, unnamed, guardianVars, clearVars>>

-----------------------------------------------------------------------------
(* onMessage, onAppMention, onAskCommand, onAskModalSubmission.             *)

Mentioned(t) == \E u \in Tasks : PostOf[u] = PostOf[t] /\ Source[u] = "mention"

\* A bug: who is mentioned is not looked at.
LeavesToMention_Never(t) == FALSE

\* "Processing both causes duplicate responses."
LeavesToMention(t) == Source[t] = "reply" /\ botUserId /\ Mentioned(t)

\* A message in a thread is for the bot if it follows the thread.
Takes(t) == Source[t] = "reply" => key[t] \in active /\ ~LeavesToMention(t)

\* A bug: a message fetches the profile anew, cached or not.
MustWait_Messages(t) ==
  Source[t] \in {"dm", "reply", "modal"} \/ (Source[t] = "mention" /\ UserOf[t] \notin usernameCache)

\* users.info for the profile of a user not known yet; conversations.open for a
\* modal without a channel. A cached profile is awaited too, but no event comes
\* between.
MustWait(t) ==
  \/ Source[t] \in {"dm", "reply", "mention"} /\ UserOf[t] \notin usernameCache
  \/ Source[t] = "modal"

\* The bound on what comes in one run.
MayCome(e) ==
  \E S \in Together : {t \in Tasks : intake[t] # "new"} \cup {c \in Clears : clearing[c] # "new"} \cup {e} \subseteq S

Looks(t, outcome) ==
  /\ MayCome(t)
  /\ intake[t] = "new" /\ intake' = [intake EXCEPT ![t] = outcome]
  /\ strangers' = IF outcome = "waiting" /\ UserOf[t] \notin usernameCache THEN strangers \cup {t} ELSE strangers
  /\ unnamed' = IF Source[t] = "reply" /\ Mentioned(t) /\ ~botUserId THEN unnamed \cup {t} ELSE unnamed
  /\ UNCHANGED <<botUserId, guardianVars, clearVars>>

touchThread(t) == IF Source[t] \in {"reply", "mention"} THEN active \cup {key[t]} ELSE active

\* runOrQueue, once the thread is touched.
Enqueue(t) ==
  /\ active' = touchThread(t)
  /\ fresh' = IF Source[t] \in {"reply", "mention"} THEN fresh \cup {t} ELSE fresh
  /\ Queue(t) \/ Start(t)

Ignore(t) ==
  /\ ~Takes(t)
  /\ Looks(t, "ignored")
  /\ UNCHANGED <<queueVars, usernameCache, active, fresh>>

\* Not permitted, or nothing but the mention in the text.
Reject(t) ==
  /\ Takes(t) /\ ~MustWait(t)
  /\ Looks(t, "rejected")
  /\ UNCHANGED <<queueVars, usernameCache, active, fresh>>

Take(t) ==
  /\ Takes(t) /\ ~MustWait(t)
  /\ Looks(t, "in")
  /\ Enqueue(t)
  /\ UNCHANGED usernameCache

Wait(t) ==
  /\ Takes(t) /\ MustWait(t)
  /\ Looks(t, "waiting")
  /\ UNCHANGED <<queueVars, usernameCache, active, fresh>>

\* resolveUsername caches an answer, not a failure; either way the handler goes on,
\* with what it saw of the thread before.
Resumes(t) ==
  /\ intake[t] = "waiting"
  /\ usernameCache' \in {usernameCache} \cup (IF Source[t] = "modal" THEN {} ELSE {usernameCache \cup {UserOf[t]}})
  /\ \/ intake' = [intake EXCEPT ![t] = "in"] /\ Enqueue(t)
     \/ intake' = [intake EXCEPT ![t] = "rejected"] /\ UNCHANGED <<queueVars, active, fresh>>
  /\ strangers' = strangers \ {t}
  /\ UNCHANGED <<botUserId, unnamed, guardianVars, clearVars>>

\* onAskCommand and the modal post a notice before they ask, and do not catch its
\* failing: the task throws.
ThinkingFails(t) ==
  /\ Source[t] \in {"ask", "modal"}
  /\ at[t] = "none" /\ End(t, TRUE)
  /\ UNCHANGED <<slackVars, guardianVars, clearVars>>

-----------------------------------------------------------------------------
Runs(t) == (Proceeds(t) /\ UNCHANGED slackVars) \/ ThinkingFails(t)

\* A running task, a /clear and the guardian between them.
Forwarding ==
  /\ \/ \E t \in Tasks : Aborts(t)
     \/ \E k \in Keys : Serves(k)
     \/ \E c \in Clears : (MayCome(c) /\ ClearCommand(c)) \/ ClearArrives(c) \/ ClearAnswered(c)
  /\ UNCHANGED slackVars

Next ==
  \/ AuthTested
  \/ \E k \in Threads : Expire(k)
  \/ \E t \in Tasks : Ignore(t) \/ Reject(t) \/ Take(t) \/ Wait(t) \/ Resumes(t) \/ Runs(t)
  \/ Forwarding

Spec == SlackInit /\ [][Next]_vars

\* Calls to Slack and requests to the guardian end one way or the other, and the
\* guardian serves its line; that events come, and that auth.test is answered, is
\* not promised.
Fairness ==
  /\ \A t \in Tasks : WF_vars(Resumes(t) \/ Runs(t))
  /\ \A k \in Keys : WF_vars(Serves(k) /\ UNCHANGED slackVars)

LiveSpec == Spec /\ Fairness

(***************************************************************************)
(* Properties.                                                             *)
(***************************************************************************)
\* A post that mentions the bot in a thread comes as two events; it is answered
\* once, in whichever order they come, unless the message came before the bot
\* knew its own id.
AnsweredOnce ==
  \A t, u \in Tasks :
    t # u /\ PostOf[t] = PostOf[u] /\ intake[t] = "in" /\ intake[u] = "in" =>
      \E s \in {t, u} : Source[s] = "reply" /\ s \in unnamed

\* An event overtakes one of its conversation that came before it and is still on
\* its way to the queue only if the user of that one was not known when it came,
\* or it is a modal.
OvertakesOnlyStrangers ==
  [][\A t, u \in Tasks :
       key[t] = key[u] /\ intake[t] = "waiting" /\ intake[u] = "new" /\ intake'[u] = "in" =>
         t \in strangers \/ Source[t] = "modal"]_vars

\* A thread the bot takes part in is served: each post in it is answered once,
\* and a message is only ignored, but for one the mention answers, while nothing
\* of that thread was taken since it last expired: the thread a mention opened
\* stays followed, and each message in it prolongs that.
ThreadsServed ==
  [][/\ AnsweredOnce'
     /\ \A t, u \in Tasks :
          intake[t] = "new" /\ intake'[t] = "ignored" /\ key[u] = key[t] /\ u \in fresh =>
            Mentioned(t) /\ botUserId]_vars

\* An event is taken once, in its turn, and not passed over.
EventsTaken == ThreadsServed /\ OvertakesOnlyStrangers

\* What a handler has begun to take is at last answered, dropped or rejected,
\* though tasks before it throw, time out or are refused.
TakenIsServed ==
  \A t \in Tasks : intake[t] \in {"waiting", "in"} ~> intake[t] = "rejected" \/ phase[t] \in {"done", "dropped"}
=============================================================================
