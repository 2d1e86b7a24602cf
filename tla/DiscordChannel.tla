--------------------------- MODULE DiscordChannel ---------------------------
(***************************************************************************)
(* The Discord channel between its gateway and the guardian: which messages*)
(* it takes, the threads it follows, the queue it puts before the guardian *)
(* and its way there (GuardianLine), and /clear.                           *)
(***************************************************************************)
EXTENDS GuardianLine

CONSTANTS
  Threads,      \* the conversations that are a Discord thread, a part of Keys
  Messages,     \* what users post or command; Tasks are its deliveries
  Source,       \* per delivery: "channel", "mention" (in a thread), "reply" (idem) or "ask"
  MessageOf,    \* per delivery, the message; the gateway may deliver one twice
  KeyOf,        \* per delivery, the conversation it belongs to
  MaxForgets    \* bound: how often the memory of a message is dropped

\* Posts belong to a thread, their own if they are made outside one; two
\* deliveries of one message are alike; a command comes once.
ASSUME DeliveriesAssumption ==
  /\ Threads \subseteq Keys
  /\ Source \in [Tasks -> {"channel", "mention", "reply", "ask"}]
  /\ MessageOf \in [Tasks -> Messages]
  /\ KeyOf \in [Tasks -> Keys]
  /\ \A t \in Tasks : Source[t] # "ask" => KeyOf[t] \in Threads
  /\ \A t, u \in Tasks : t # u /\ MessageOf[t] = MessageOf[u] =>
       Source[t] # "ask" /\ Source[t] = Source[u] /\ KeyOf[t] = KeyOf[u]
  /\ \A t, u \in Tasks : Source[t] = "channel" /\ Source[u] = "channel" /\ KeyOf[t] = KeyOf[u] =>
       MessageOf[t] = MessageOf[u]

VARIABLES
  intake,     \* per delivery: "new", "starting" (a thread or reply is awaited), "in" or "rejected"
  processed,  \* processedMessages
  forgets,    \* per message, how often it was forgotten (history, bounded)
  active      \* activeThreads, those within their time to live

intakeVars == <<intake, processed, forgets, active>>
channelVars == <<queueVars, intakeVars, guardianVars, clearVars>>

ChannelTypeOK ==
  /\ QueueTypeOK
  /\ intake \in [Tasks -> {"new", "starting", "in", "rejected"}]
  /\ \A t \in Tasks : intake[t] = "in" <=> phase[t] # "new"
  /\ processed \subseteq Messages
  /\ forgets \in [Messages -> 0..MaxForgets]
  /\ active \subseteq Threads
  /\ LineTypeOK

ChannelInit ==
  /\ QueueInit
  /\ key = KeyOf
  /\ intake = [t \in Tasks |-> "new"]
  /\ processed = {}
  /\ forgets = [m \in Messages |-> 0]
  /\ active = {}
  /\ LineInit

-----------------------------------------------------------------------------
(* What comes in.                                                          *)

Enqueue(t) == Queue(t) \/ Start(t)

Intake(t, from, to) == intake[t] = from /\ intake' = [intake EXCEPT ![t] = to]

\* A thread with recent activity, or a mention.
shouldRespond(t) == IF Source[t] = "reply" THEN key[t] \in active ELSE TRUE

\* A bug markProcessed could have: it remembers and does not look.
IsNew_Any(m) == TRUE

IsNew(m) == m \notin processed

\* Commands are not remembered: the gateway delivers them once.
MarkProcessed(t) ==
  /\ shouldRespond(t)
  /\ IF Source[t] = "ask" THEN UNCHANGED processed
     ELSE IsNew(MessageOf[t]) /\ processed' = processed \cup {MessageOf[t]}

\* onMessage or handleAskCommand: no permission or no text.
Reject(t) ==
  /\ MarkProcessed(t)
  /\ Intake(t, "new", "rejected")
  /\ UNCHANGED <<queueVars, forgets, active, guardianVars, clearVars>>

\* onMessage in a thread: into its queue without a pause.
TakeInThread(t) ==
  /\ Source[t] \in {"mention", "reply"}
  /\ MarkProcessed(t)
  /\ Intake(t, "new", "in")
  /\ active' = active \cup {key[t]}
  /\ Enqueue(t)
  /\ UNCHANGED <<forgets, guardianVars, clearVars>>

\* A thread of its own is awaited (onMessage), or the reply or its deferral
\* (handleAskCommand).
TakeElsewhere(t) ==
  /\ Source[t] \in {"channel", "ask"}
  /\ MarkProcessed(t)
  /\ Intake(t, "new", "starting")
  /\ UNCHANGED <<queueVars, forgets, active, guardianVars, clearVars>>

Started(t) ==
  /\ Intake(t, "starting", "in")
  /\ active' = IF Source[t] = "channel" THEN active \cup {key[t]} ELSE active
  /\ Enqueue(t)
  /\ UNCHANGED <<processed, forgets, guardianVars, clearVars>>

StartFails(t) ==
  /\ Intake(t, "starting", "rejected")
  /\ UNCHANGED <<queueVars, processed, forgets, active, guardianVars, clearVars>>

\* The timer of markProcessed.
Forget(m) ==
  /\ m \in processed /\ SumFunction(forgets) < MaxForgets
  /\ processed' = processed \ {m}
  /\ forgets' = [forgets EXCEPT ![m] = @ + 1]
  /\ UNCHANGED <<queueVars, intake, active, guardianVars, clearVars>>

\* The time to live of a thread passes.
Expire(k) ==
  /\ k \in active
  /\ active' = active \ {k}
  /\ UNCHANGED <<queueVars, intake, processed, forgets, guardianVars, clearVars>>

\* handleClearCommand: once the queue is cleared, a thread is no longer followed.
ClearConfirmed(c) ==
  /\ ClearAnswered(c)
  /\ active' = active \ {ScopeOf[c]}
  /\ UNCHANGED <<intake, processed, forgets>>

-----------------------------------------------------------------------------
Incoming ==
  \/ \E t \in Tasks : Reject(t) \/ TakeInThread(t) \/ TakeElsewhere(t)
  \/ \E m \in Messages : Forget(m)
  \/ \E k \in Threads : Expire(k)

Settles(t) == Started(t) \/ StartFails(t)

\* A running task, a /clear and the guardian between them.
Forwarding ==
  /\ \/ \E t \in Tasks : Proceeds(t) \/ Aborts(t)
     \/ \E k \in Keys : Serves(k)
     \/ \E c \in Clears : ClearCommand(c) \/ ClearArrives(c)
  /\ UNCHANGED intakeVars

ChannelNext ==
  \/ Incoming
  \/ Forwarding
  \/ \E t \in Tasks : Settles(t)
  \/ \E c \in Clears : ClearConfirmed(c)

ChannelSpec == ChannelInit /\ [][ChannelNext]_channelVars

\* Promises the event loop and the network keep: requests arrive or fail, their
\* ends are acted on; and the guardian serves whoever holds the lock, which the
\* time limits of its calls to the assistant enforce.
ChannelFairness ==
  /\ \A t \in Tasks : WF_channelVars(Proceeds(t) /\ UNCHANGED intakeVars) /\ WF_channelVars(Settles(t))
  /\ \A k \in Keys : WF_channelVars(Serves(k) /\ UNCHANGED intakeVars)
  /\ \A c \in Clears : WF_channelVars((ClearArrives(c) /\ UNCHANGED intakeVars) \/ ClearConfirmed(c))

LiveChannelSpec == ChannelSpec /\ ChannelFairness

(***************************************************************************)
(* Properties.                                                             *)
(***************************************************************************)
\* A message the gateway delivers again is asked again only if the channel has
\* forgotten it meanwhile.
AskedOnce ==
  \A m \in Messages :
    Cardinality({t \in Tasks : MessageOf[t] = m /\ Source[t] # "ask" /\ intake[t] = "in"}) <= 1 + forgets[m]

\* The README: /clear "clears the active conversation scope and drops queued
\* follow-ups for that scope": what was queued when /clear was given is not in
\* the conversation the confirmation leaves.
ClearDropsQueued ==
  \A c \in Clears : clearing[c] = "done" => context[ScopeOf[c]] \cap behind[c] = {}

\* Each message is asked in the order it was queued in its conversation, and once,
\* although requests given up are still on their way.
AskedOnceInOrder == AskedInOrder /\ AskedOnce
=============================================================================
