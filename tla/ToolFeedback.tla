---------------------------- MODULE ToolFeedback ----------------------------
(***************************************************************************)
(* The assistant's memory plugin around tool executions: before one, what  *)
(* the memory knows of the tool is injected, after it the memories are     *)
(* told how it went.  Executions that cannot be told apart (a session, a   *)
(* tool, the same arguments) share a queue; the hooks await the memory     *)
(* service, and a hook holds the array it found before.  The executions of *)
(* a session here are such ones.                                           *)
(***************************************************************************)
EXTENDS Naturals, Sequences

CONSTANTS
  ToolSessions,
  MaxExecutions  \* bound: the executions, and the arrays that are ever made

ASSUME ExecutionsAssumption == MaxExecutions \in Nat

VARIABLES
  known,      \* the sessions in the map
  execution,  \* per execution, where it is
  inSession,  \* per execution, its session
  injected,   \* the executions whose memories were queued
  holds,      \* per execution, the array its after hook works on
  pendingToolFeedback,  \* per session, its array in the map, or NoQueue
  queue,      \* per array, the executions in it
  told,       \* per execution, those whose outcome its memories were told (history)
  overlapped, \* the sessions in which two such executions ran at once (history)
  outrun      \* the sessions deleted while a before hook awaited (history)

toolVars == <<known, execution, inSession, injected, holds, pendingToolFeedback, queue, told,
              overlapped, outrun>>

Executions == 1..MaxExecutions
NoQueue == 0

ToolTypeOK ==
  /\ {known, overlapped, outrun} \subseteq SUBSET ToolSessions
  /\ execution \in [Executions -> {"unused", "retrieving", "running", "telling", "over"}]
  /\ inSession \in [Executions -> ToolSessions]
  /\ injected \subseteq Executions
  /\ holds \in [Executions -> 0..MaxExecutions]
  /\ pendingToolFeedback \in [ToolSessions -> 0..MaxExecutions]
  /\ queue \in [Executions -> Seq(Executions)] /\ told \in [Executions -> Seq(Executions)]

ToolInit ==
  /\ known = ToolSessions
  /\ execution = [e \in Executions |-> "unused"] /\ inSession \in [Executions -> ToolSessions]
  /\ injected = {}
  /\ holds = [e \in Executions |-> NoQueue]
  /\ pendingToolFeedback = [s \in ToolSessions |-> NoQueue]
  /\ queue = [e \in Executions |-> <<>>] /\ told = [e \in Executions |-> <<>>]
  /\ overlapped = {} /\ outrun = {}

Underway(s) == {e \in Executions : inSession[e] = s /\ execution[e] \in {"retrieving", "running", "telling"}}

-----------------------------------------------------------------------------
\* tool.execute.before, up to the search; a session that is not known, or a tool
\* memory has nothing to say of, just runs.
Before(e) ==
  /\ execution[e] = "unused" /\ \A d \in 1..(e - 1) : execution[d] # "unused"
  /\ \/ inSession[e] \in known /\ execution' = [execution EXCEPT ![e] = "retrieving"]
     \/ execution' = [execution EXCEPT ![e] = "running"]
  /\ overlapped' = IF Underway(inSession[e]) = {} THEN overlapped ELSE overlapped \cup {inSession[e]}
  /\ UNCHANGED <<known, inSession, injected, holds, pendingToolFeedback, queue, told, outrun>>

\* The search has found memories, or none.  Each execution makes one array at most,
\* and it has the number of the execution.
Inject(e) ==
  /\ execution[e] = "retrieving" /\ execution' = [execution EXCEPT ![e] = "running"]
  /\ \/ LET s == inSession[e]
            q == IF pendingToolFeedback[s] = NoQueue THEN e ELSE pendingToolFeedback[s] IN
        /\ injected' = injected \cup {e}
        /\ queue' = [queue EXCEPT ![q] = Append(@, e)]
        /\ pendingToolFeedback' = [pendingToolFeedback EXCEPT ![s] = q]
     \/ UNCHANGED <<injected, queue, pendingToolFeedback>>
  /\ UNCHANGED <<known, inSession, holds, told, overlapped, outrun>>

\* A bug: the first is read and left in the queue.
Shifted_Peek(q) == queue[q]

Shifted(q) == Tail(queue[q])

\* tool.execute.after: the first of the queue is what the outcome is for; with
\* none, the queue is removed from the map at once.
After(e) ==
  LET s == inSession[e]  q == pendingToolFeedback[s] IN
  /\ execution[e] = "running"
  /\ IF s \in known /\ q # NoQueue /\ queue[q] # <<>>
     THEN /\ execution' = [execution EXCEPT ![e] = "telling"]
          /\ holds' = [holds EXCEPT ![e] = q]
          /\ told' = [told EXCEPT ![Head(queue[q])] = Append(@, e)]
          /\ queue' = [queue EXCEPT ![q] = Shifted(q)]
          /\ UNCHANGED pendingToolFeedback
     ELSE /\ execution' = [execution EXCEPT ![e] = "over"]
          /\ pendingToolFeedback' = IF s \in known THEN [pendingToolFeedback EXCEPT ![s] = NoQueue]
                                    ELSE pendingToolFeedback
          /\ UNCHANGED <<holds, told, queue>>
  /\ UNCHANGED <<known, inSession, injected, overlapped, outrun>>

\* The feedback is sent, or was not accepted: the map gets the array back or loses
\* what it has by now.
Told(e) ==
  /\ execution[e] = "telling" /\ execution' = [execution EXCEPT ![e] = "over"]
  /\ pendingToolFeedback' = [pendingToolFeedback EXCEPT ![inSession[e]] =
       IF queue[holds[e]] = <<>> THEN NoQueue ELSE holds[e]]
  /\ UNCHANGED <<known, inSession, injected, holds, queue, told, overlapped, outrun>>

\* session.deleted, where it ends.
Deleted(s) ==
  /\ s \in known /\ known' = known \ {s}
  /\ pendingToolFeedback' = [pendingToolFeedback EXCEPT ![s] = NoQueue]
  /\ outrun' = IF \E e \in Underway(s) : execution[e] = "retrieving" THEN outrun \cup {s} ELSE outrun
  /\ UNCHANGED <<execution, inSession, injected, holds, queue, told, overlapped>>

ToolNext ==
  \/ \E e \in Executions : Before(e) \/ Inject(e) \/ After(e) \/ Told(e)
  \/ \E s \in ToolSessions : Deleted(s)

ToolSpec == ToolInit /\ [][ToolNext]_toolVars

(***************************************************************************)
(* Properties.                                                             *)
(***************************************************************************)
\* "Tool outcomes automatically reinforce or downrank injected memories": memories
\* are told one outcome at most, and the one of the execution they were injected
\* into, unless executions that cannot be told apart overlapped or the session
\* ended; and no queue outlives its session but for such an overlap, or a hook
\* the end of the session has outrun.
FeedbackFits ==
  /\ \A e \in Executions :
       /\ Len(told[e]) <= 1
       /\ inSession[e] \in known \ overlapped =>
            /\ told[e] \in {<<>>, <<e>>}
            /\ execution[e] = "over" /\ e \in injected => told[e] = <<e>>
  /\ \A s \in ToolSessions \ known : pendingToolFeedback[s] # NoQueue => s \in overlapped \cup outrun
=============================================================================
