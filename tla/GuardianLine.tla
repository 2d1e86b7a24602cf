---------------------------- MODULE GuardianLine ----------------------------
(***************************************************************************)
(* The tasks of a ConversationQueue and the guardian they are sent to,     *)
(* shared by the Discord and the Slack channel: a running task forwards its*)
(* message and waits, and /clear goes to the guardian by itself, past the  *)
(* queue. The guardian is what SerialSessions promises: per conversation,  *)
(* requests are done one at a time in the order they arrived.              *)
(***************************************************************************)
EXTENDS ConversationQueue

CONSTANTS
  Clears,     \* the /clear commands
  ScopeOf     \* per /clear, the conversation it is given in

ASSUME ClearsAssumption == ScopeOf \in [Clears -> Keys] /\ Clears \cap Tasks = {}

VARIABLES
  at,         \* per task, its request: "none", "sent", "line", "replied" or "aborted"
  line,       \* per conversation, what waits for its lock in the guardian
  context,    \* per conversation, the tasks its assistant session has seen
  handled,    \* the asks the guardian took up, in that order (history)
  clearing,   \* per /clear: "new", "sent", "line", "ok", "refused" or "done"
  behind      \* the tasks queued in its scope when it was given (history)

guardianVars == <<at, line, context, handled>>
clearVars == <<clearing, behind>>

Requests == Tasks \cup Clears

LineTypeOK ==
  /\ at \in [Tasks -> {"none", "sent", "line", "replied", "aborted"}]
  /\ line \in [Keys -> Seq(Requests)]
  /\ context \in [Keys -> SUBSET Tasks]
  /\ handled \in Seq(Tasks)
  /\ clearing \in [Clears -> {"new", "sent", "line", "ok", "refused", "done"}]
  /\ behind \in [Clears -> SUBSET Tasks]

LineInit ==
  /\ at = [t \in Tasks |-> "none"]
  /\ line = [k \in Keys |-> <<>>]
  /\ context = [k \in Keys |-> {}]
  /\ handled = <<>>
  /\ clearing = [c \in Clears |-> "new"]
  /\ behind = [c \in Clears |-> {}]

-----------------------------------------------------------------------------
(* A running task and the guardian.                                        *)

At(t, from, to) == at[t] = from /\ at' = [at EXCEPT ![t] = to]

\* runThreadConversation, after the typing indicator; or the ask's run.
Send(t) ==
  /\ phase[t] = "running"
  /\ At(t, "none", "sent")
  /\ UNCHANGED <<queueVars, line, context, handled, clearVars>>

Joins(k, r) == [line EXCEPT ![k] = Append(@, r)]

\* The request waits for the lock of its conversation; or the guardian refuses
\* it before that (rate, signature, ...), or cannot be reached.
Arrives(t) ==
  /\ \/ At(t, "sent", "line") /\ line' = Joins(key[t], t)
     \/ At(t, "sent", "replied") /\ UNCHANGED line
  /\ UNCHANGED <<queueVars, context, handled, clearVars>>

\* The guardian does the first in line: an ask reaches the session, or fails.
ServesAsk(k) ==
  /\ line[k] # <<>> /\ Head(line[k]) \in Tasks
  /\ LET t == Head(line[k]) IN
       /\ at' = [at EXCEPT ![t] = IF @ = "line" THEN "replied" ELSE @]
       /\ \/ context' = [context EXCEPT ![k] = @ \cup {t}]
          \/ UNCHANGED context
       /\ handled' = Append(handled, t)
  /\ line' = [line EXCEPT ![k] = Tail(@)]
  /\ UNCHANGED <<queueVars, clearVars>>

\* The forward timeout, if one is configured: the channel gives up, the
\* guardian does not.
Aborts(t) ==
  /\ At(t, "line", "aborted")
  /\ UNCHANGED <<queueVars, line, context, handled, clearVars>>

\* A bug the run could have: nobody catches the timeout.
Settled_NotAborted(t) == at[t] = "replied"

Settled(t) == at[t] \in {"replied", "aborted"}

\* The answer or the error is posted (or posting fails), and the queue goes on.
Answer(t, failed) ==
  /\ Settled(t)
  /\ End(t, failed)
  /\ UNCHANGED <<guardianVars, clearVars>>

-----------------------------------------------------------------------------
(* handleClearCommand.                                                     *)

ClearGoes(c, from, to) == clearing[c] = from /\ clearing' = [clearing EXCEPT ![c] = to]

ClearCommand(c) ==
  /\ ClearGoes(c, "new", "sent")
  /\ behind' = [behind EXCEPT ![c] = {t \in Tasks : phase[t] = "queued" /\ key[t] = ScopeOf[c]}]
  /\ UNCHANGED <<queueVars, guardianVars>>

\* As for an ask, refused or in line; a request that fails counts as refused.
ClearArrives(c) ==
  /\ \/ ClearGoes(c, "sent", "line") /\ line' = Joins(ScopeOf[c], c)
     \/ ClearGoes(c, "sent", "refused") /\ UNCHANGED line
  /\ UNCHANGED <<queueVars, at, context, handled, behind>>

\* The guardian deletes the sessions of the conversation (that it may fail to
\* is SessionForwarding's subject); or fails, or its answer is lost.
ServesClear(k) ==
  /\ line[k] # <<>> /\ Head(line[k]) \in Clears
  /\ \/ ClearGoes(Head(line[k]), "line", "ok") /\ context' = [context EXCEPT ![k] = {}]
     \/ ClearGoes(Head(line[k]), "line", "refused") /\ context' \in {context, [context EXCEPT ![k] = {}]}
  /\ line' = [line EXCEPT ![k] = Tail(@)]
  /\ UNCHANGED <<queueVars, at, handled, behind>>

\* A bug this handler could have: the answer is given and the queue goes on.
ClearsQueue_Not(k) == UNCHANGED queueVars

ClearsQueue(k) == clear(k) \/ (k \notin DOMAIN states /\ UNCHANGED queueVars)

\* The guardian confirms: the queue is cleared.
ClearAnswered(c) ==
  /\ ClearGoes(c, "ok", "done")
  /\ ClearsQueue(ScopeOf[c])
  /\ UNCHANGED <<guardianVars, behind>>

Proceeds(t) == Send(t) \/ Arrives(t) \/ \E failed \in BOOLEAN : Answer(t, failed)
Serves(k) == ServesAsk(k) \/ ServesClear(k)

(***************************************************************************)
(* Properties of either channel.                                           *)
(***************************************************************************)
\* The assistant is asked in the order the channel took the messages in, per
\* conversation, although requests travel apart from each other and one that
\* was given up is still in the guardian when the next is sent.
AskedInOrder ==
  \A i, j \in DOMAIN handled :
    i < j /\ key[handled[i]] = key[handled[j]] => ticket[handled[i]] < ticket[handled[j]]

\* The step that confirms a /clear leaves at most one task of its conversation
\* unfinished, the one running: nobody waits behind a confirmed /clear.
ClearLeavesOne ==
  [][\A c \in Clears : clearing[c] = "ok" /\ clearing'[c] = "done" =>
       Cardinality({t \in Tasks : key[t] = ScopeOf[c] /\ phase'[t] \in {"queued", "running"}}) <= 1]_<<queueVars, clearVars>>

\* The queue's own specification with its fairness: that every running task
\* ends follows from the guardian's serving its line.
ImplementsQueue == LiveQueueSpec
=============================================================================
