----------------------------- MODULE MCSidecars -----------------------------
(* The parts of OpenPalm that run beside the message path and share no       *)
(* state with it nor with each other, checked in one run: `part` says which  *)
(* of them a behaviour is about; the others stay as they begin.              *)
EXTENDS OrchestratorLock, Scheduler, MemoryStore, AuthServer, SetupWizard, VoiceClient, ToolFeedback, TLC

VARIABLE part

SidecarInit ==
  /\ part \in {"lock", "scheduler", "runs", "memory", "auth", "wizard", "voice", "tool"}
  /\ LockInit /\ SchedulerInit /\ RunsInit /\ MemoryInit /\ AuthInit /\ WizardInit /\ VoiceInit /\ ToolInit
  \* a part that stays as it begins need not begin in each of its initial states
  /\ part # "scheduler" => of = [e \in Execs |-> CHOOSE f \in Files : TRUE]
  /\ part # "runs" => file = NoConfig
  /\ part # "memory" => issued = {}
  /\ part # "wizard" => noStart
  /\ part # "voice" => stt = "http" /\ agent = "openai" /\ tts = "http"
  /\ part # "tool" => inSession = [e \in Executions |-> CHOOSE s \in ToolSessions : TRUE]

SidecarNext ==
  \/ /\ part = "lock" /\ LockNext
     /\ UNCHANGED <<part, schedulerVars, runsVars, memoryVars, authVars, wizardVars, voiceVars, toolVars>>
  \/ /\ part = "scheduler" /\ SchedulerNext
     /\ UNCHANGED <<part, lockVars, runsVars, memoryVars, authVars, wizardVars, voiceVars, toolVars>>
  \* bound: the file is changed or the container restarted, not both
  \/ /\ part = "runs" /\ RunsNext /\ rewrites' + restarts' <= 1
     /\ UNCHANGED <<part, lockVars, schedulerVars, memoryVars, authVars, wizardVars, voiceVars, toolVars>>
  \/ /\ part = "memory" /\ MemoryNext
     /\ UNCHANGED <<part, lockVars, schedulerVars, runsVars, authVars, wizardVars, voiceVars, toolVars>>
  \/ /\ part = "auth" /\ AuthNext
     /\ UNCHANGED <<part, lockVars, schedulerVars, runsVars, memoryVars, wizardVars, voiceVars, toolVars>>
  \/ /\ part = "wizard" /\ WizardNext
     /\ UNCHANGED <<part, lockVars, schedulerVars, runsVars, memoryVars, authVars, voiceVars, toolVars>>
  \/ /\ part = "voice" /\ VoiceNext
     /\ UNCHANGED <<part, lockVars, schedulerVars, runsVars, memoryVars, authVars, wizardVars, toolVars>>
  \/ /\ part = "tool" /\ ToolNext
     /\ UNCHANGED <<part, lockVars, schedulerVars, runsVars, memoryVars, authVars, wizardVars, voiceVars>>

allVars == <<part, lockVars, schedulerVars, runsVars, memoryVars, authVars, wizardVars, voiceVars, toolVars>>

\* The fair actions of a part that rests are not enabled, but for the scheduler's.
SidecarSpec ==
  /\ SidecarInit /\ [][SidecarNext]_allVars
  /\ LockFairness /\ MemoryFairness /\ WizardFairness /\ VoiceFairness /\ RunsFairness
  /\ WF_schedulerVars(part = "scheduler" /\ Starts) /\ SchedulerGoesOn

\* The states of every part are well-typed.
SidecarTypeOK ==
  /\ LockTypeOK /\ SchedulerTypeOK /\ RunsTypeOK /\ MemoryTypeOK /\ AuthTypeOK
  /\ WizardTypeOK /\ VoiceTypeOK /\ ToolTypeOK

\* What has begun goes on, for every part: the lock is got past, edits of automations
\* take effect and their runs end, requests for memories end, the wizard ends with what
\* became of the stack, and the microphone is free again.
SidecarsGoOn ==
  /\ LastOneGetsIn /\ WatchedEditsTakeEffect /\ RunsEnd /\ RequestEnds
  /\ WizardEndsRight /\ MicComesBack
=============================================================================
