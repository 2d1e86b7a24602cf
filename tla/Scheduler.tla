----------------------------- MODULE Scheduler -----------------------------
(***************************************************************************)
(* The scheduler: it loads the automations from their directory, runs each *)
(* by its timer or on request, and reloads when the directory changes,     *)
(* which a watcher tells it or, where there is none, a poll.  Others write *)
(* the directory whenever they like.  Only one reload happens at a time,   *)
(* without a pause; executions go on beside everything else.               *)
(***************************************************************************)
EXTENDS Integers, Sequences, FiniteSets

CONSTANTS
  Files,       \* the .yml files of the directory
  Execs,       \* executions of an automation
  LogSize,     \* MAX_LOG_ENTRIES
  MaxEdits,    \* bound: how often the directory is written
  MaxFaults    \* bound: how often a load throws or the process is killed

ASSUME SchedulerAssumption == LogSize \in Nat \ {0} /\ MaxEdits \in Nat /\ MaxFaults \in Nat

VARIABLES
  present,      \* the files there are
  content,      \* per file, the version of its enabled automation; 0: none, disabled or invalid
  edits,        \* how often the directory was written (bounded)
  up,           \* whether the process runs
  watching,     \* "no", "watch" or "poll"
  notified,     \* the watcher has an event the process has not seen yet
  reloadTimer,  \* whether it is set
  lastFileList, \* the names the poll saw last
  activeJobs,   \* per file, the version its job runs; 0: it has none
  loads,        \* how often the jobs were loaded: the jobs of each load are new ones
  run,          \* per execution: "unused", "running", "ended" or "lost"
  of,           \* the file it executes
  born,         \* the load its timer stems from; 0: it was asked for
  executionLogs,\* per file, the executions recorded
  unseen,       \* the directory was written after a load and before the watcher was there (history)
  faults        \* how often a load threw or the process was killed (bounded)

dirVars == <<present, content, edits>>
watchVars == <<watching, notified, reloadTimer, lastFileList, unseen>>
execVars == <<run, of, born, executionLogs>>
schedulerVars == <<dirVars, up, watchVars, activeJobs, loads, execVars, faults>>

SchedulerTypeOK ==
  /\ present \subseteq Files /\ content \in [Files -> 0..MaxEdits] /\ edits \in 0..MaxEdits
  /\ up \in BOOLEAN /\ watching \in {"no", "watch", "poll"}
  /\ notified \in BOOLEAN /\ reloadTimer \in BOOLEAN /\ unseen \in BOOLEAN
  /\ lastFileList \subseteq Files
  /\ activeJobs \in [Files -> 0..MaxEdits] /\ loads \in Nat
  /\ run \in [Execs -> {"unused", "running", "ended", "lost"}]
  /\ of \in [Execs -> Files] /\ born \in [Execs -> Nat]
  /\ executionLogs \in [Files -> Seq(Execs)]
  /\ faults \in 0..MaxFaults

NoJobs == [f \in Files |-> 0]

SchedulerInit ==
  /\ present = {} /\ content = NoJobs /\ edits = 0
  /\ up = FALSE /\ watching = "no" /\ notified = FALSE /\ reloadTimer = FALSE /\ unseen = FALSE
  /\ lastFileList = {}
  /\ activeJobs = NoJobs /\ loads = 0
  /\ run = [e \in Execs |-> "unused"]
  /\ of \in [Execs -> Files] /\ born = [e \in Execs |-> 0]
  /\ executionLogs = [f \in Files |-> <<>>]
  /\ faults = 0

-----------------------------------------------------------------------------
(* The directory, written by the admin server, the CLI or a user: a file is *)
(* there with some content, or removed.                                     *)

Changed ==
  /\ edits < MaxEdits /\ edits' = edits + 1
  /\ notified' = (notified \/ watching = "watch")
  /\ unseen' = (unseen \/ (up /\ watching = "no"))
  /\ UNCHANGED <<up, watching, reloadTimer, lastFileList, activeJobs, loads, execVars, faults>>

WriteFile(f) ==
  /\ Changed
  /\ present' = present \cup {f}
  /\ \E v \in {0, edits + 1} : content' = [content EXCEPT ![f] = v]

RemoveFile(f) ==
  /\ Changed
  /\ f \in present
  /\ present' = present \ {f}
  /\ content' = [content EXCEPT ![f] = 0]

-----------------------------------------------------------------------------
(* startScheduler, stopScheduler, reloadScheduler.                          *)

Load ==
  /\ activeJobs' = content
  /\ loads' = loads + 1

Fault == faults < MaxFaults /\ faults' = faults + 1

\* What dies with the process: executions, their record, timers.
Dies ==
  /\ up' = FALSE /\ watching' = "no" /\ notified' = FALSE /\ reloadTimer' = FALSE
  /\ lastFileList' = {}
  /\ activeJobs' = NoJobs
  /\ run' = [e \in Execs |-> IF run[e] = "running" THEN "lost" ELSE run[e]]
  /\ executionLogs' = [f \in Files |-> <<>>]
  /\ UNCHANGED <<dirVars, loads, of, born>>

\* The container is started, at first and whenever the process has ended; a load
\* that throws ends it at once, and it is started again.
Starts ==
  /\ ~up /\ up' = TRUE
  /\ Load
  /\ unseen' = FALSE
  /\ UNCHANGED <<dirVars, watching, notified, reloadTimer, lastFileList, execVars, faults>>

\* startWatching follows the load: it watches, or polls if it cannot.
StartsWatching ==
  /\ up /\ watching = "no"
  /\ watching' \in {"watch", "poll"}
  /\ UNCHANGED <<dirVars, up, notified, reloadTimer, lastFileList, unseen, activeJobs, loads, execVars, faults>>

SchedulerKilled ==
  /\ up /\ Fault
  /\ Dies
  /\ UNCHANGED unseen

\* A bug: events are ignored while reloadTimer is set and nobody resets it, so
\* that there is only one reload.
Rearms_Once == loads = 1

Rearms == TRUE

\* The watcher's callback: the timer is set anew.
Notice ==
  /\ up /\ notified /\ notified' = FALSE
  /\ reloadTimer' = (reloadTimer \/ Rearms)
  /\ UNCHANGED <<dirVars, up, watching, lastFileList, unseen, activeJobs, loads, execVars, faults>>

\* The timer: the jobs are stopped, those on disk started.  If the load throws
\* (a file was removed under it), nobody catches it and the process ends.
TimerReloads ==
  /\ reloadTimer
  /\ \/ /\ reloadTimer' = FALSE
        /\ Load
        /\ UNCHANGED <<dirVars, up, watching, notified, lastFileList, unseen, execVars, faults>>
     \/ Fault /\ Dies /\ UNCHANGED unseen

\* The poll compares the names, and forgets that a reload failed.
Poll ==
  /\ watching = "poll"
  /\ present # lastFileList /\ lastFileList' = present
  /\ \/ Load /\ UNCHANGED faults
     \/ Fault /\ activeJobs' = NoJobs /\ UNCHANGED loads
  /\ UNCHANGED <<dirVars, up, watching, notified, reloadTimer, unseen, execVars>>

-----------------------------------------------------------------------------
(* Executions.                                                              *)

Begins(e, f, l) ==
  /\ up /\ run[e] = "unused" /\ of[e] = f
  /\ activeJobs[f] # 0
  /\ run' = [run EXCEPT ![e] = "running"]
  /\ born' = [born EXCEPT ![e] = l]
  /\ UNCHANGED <<dirVars, up, watchVars, activeJobs, loads, of, executionLogs, faults>>

\* A bug: a job made without protect.
Protected_Never(f) == TRUE

\* protect: a job whose last run is not over is skipped.
Protected(f) == ~ \E e \in Execs : run[e] = "running" /\ of[e] = f /\ born[e] = loads

\* The timer of a job; each load makes new jobs, stopping one stops its timer only.
Fires(e, f) == Protected(f) /\ Begins(e, f, loads)

\* triggerAutomation, beside whatever runs.
Trigger(e, f) == Begins(e, f, 0)

Trimmed(s) == IF Len(s) > LogSize THEN SubSeq(s, Len(s) - LogSize + 1, Len(s)) ELSE s

\* recordExecution, of success or failure, whatever has become of the job.
Ends(e) ==
  /\ run[e] = "running" /\ run' = [run EXCEPT ![e] = "ended"]
  /\ executionLogs' = [executionLogs EXCEPT ![of[e]] = Trimmed(Append(@, e))]
  /\ UNCHANGED <<dirVars, up, watchVars, activeJobs, loads, of, born, faults>>

-----------------------------------------------------------------------------
SchedulerNext ==
  \/ \E f \in Files : WriteFile(f) \/ RemoveFile(f)
  \/ Starts \/ StartsWatching \/ SchedulerKilled
  \/ Notice \/ TimerReloads \/ Poll
  \/ \E e \in Execs, f \in Files : Fires(e, f) \/ Trigger(e, f)
  \/ \E e \in Execs : Ends(e)

SchedulerSpec == SchedulerInit /\ [][SchedulerNext]_schedulerVars

\* Events and timers come, and what is loaded is watched; an automation need not run.
SchedulerGoesOn ==
  /\ WF_schedulerVars(StartsWatching)
  /\ WF_schedulerVars(Notice) /\ WF_schedulerVars(TimerReloads) /\ WF_schedulerVars(Poll)

\* The container is restarted.
SchedulerFairness == WF_schedulerVars(Starts) /\ SchedulerGoesOn

LiveSchedulerSpec == SchedulerSpec /\ SchedulerFairness

(***************************************************************************)
(* Properties.                                                             *)
(***************************************************************************)
\* What the timers run of one automation only overlaps across a reload: two
\* executions that run together stem from different loads.
OverlapNeedsReload ==
  \A d, e \in Execs :
    d # e /\ run[d] = "running" /\ run[e] = "running" /\ of[d] = of[e] /\ born[d] # 0
      => born[d] # born[e]

\* A watching scheduler ends up with the jobs of the directory, through failing
\* loads and restarts, unless a file was written between its load and its watch:
\* no later event tells it.
WatchedEditsTakeEffect ==
  <>[](watching = "watch" /\ ~unseen => activeJobs = content)

-----------------------------------------------------------------------------
(* What the runs of one automation do.  When they begin is above; here is    *)
(* how an action is carried out by others (the admin server or another HTTP  *)
(* server, a child process, the assistant), how it ends for the scheduler,   *)
(* and what the record says of it.  The two ends are not the same: a request *)
(* that timed out may go on being served.  No variable is shared.            *)

CONSTANTS
  RunIds,
  NoConfig,   \* the automation is not there, disabled or not well-formed
  MaxRewrites, MaxRestarts

ASSUME RunsAssumption == MaxRewrites \in Nat /\ MaxRestarts \in Nat

ActionKinds == {"request", "shell", "assistant"}  \* a request: an api or an http action

\* An action, whether it may be sent (the path of an api action need not be one that api
\* actions may have), and whether its command ends when it is asked to.
Configs == {c \in [kind : ActionKinds, safe : BOOLEAN, yields : BOOLEAN] :
              (c.safe \/ c.kind = "request") /\ (c.yields \/ c.kind = "shell")}

VARIABLES
  file,    \* what parseAutomationYaml makes of the file
  job,     \* what the newest load made of it
  reloads,   \* how many loads there were
  place,     \* where a run is: "unused", "session", "waiting", "ended" or, with the process, "lost"
  does,    \* the action it carries out
  since,    \* the load whose timer started it; 0: it was asked for
  work,    \* what others make of it: "none", "going", "good", "bad" or "killed"
  late,    \* the runs whose time ran out
  record,  \* "none", "ok" or "failed"
  rewrites, restarts

runsVars == <<file, job, reloads, place, does, since, work, late, record, rewrites, restarts>>

RunsTypeOK ==
  /\ file \in Configs \cup {NoConfig} /\ job \in Configs \cup {NoConfig} /\ reloads \in Nat
  /\ place \in [RunIds -> {"unused", "session", "waiting", "ended", "lost"}]
  /\ does \in [RunIds -> Configs \cup {NoConfig}] /\ since \in [RunIds -> Nat]
  /\ work \in [RunIds -> {"none", "going", "good", "bad", "killed"}] /\ late \subseteq RunIds
  /\ record \in [RunIds -> {"none", "ok", "failed"}]
  /\ rewrites \in 0..MaxRewrites /\ restarts \in 0..MaxRestarts

RunsInit ==
  /\ file \in Configs \cup {NoConfig} /\ job = file /\ reloads = 1
  /\ place = [e \in RunIds |-> "unused"] /\ does = [e \in RunIds |-> NoConfig]
  /\ since = [e \in RunIds |-> 0] /\ work = [e \in RunIds |-> "none"]
  /\ late = {} /\ record = [e \in RunIds |-> "none"] /\ rewrites = 0 /\ restarts = 0

Others == <<file, job, reloads, rewrites, restarts>>

-----------------------------------------------------------------------------
(* The file and the process.                                                *)

Edited ==
  /\ rewrites < MaxRewrites /\ rewrites' = rewrites + 1
  /\ \E c \in Configs \cup {NoConfig} : file' = c /\ c # file
  /\ UNCHANGED <<job, reloads, place, does, since, work, late, record, restarts>>

\* reloadScheduler: what runs goes on with the action it began with.
Reloaded ==
  /\ job # file /\ job' = file /\ reloads' = reloads + 1
  /\ UNCHANGED <<file, place, does, since, work, late, record, rewrites, restarts>>

\* The container is restarted: its runs and records are lost and its child processes
\* die, what others do for it goes on.
Restarted ==
  /\ restarts < MaxRestarts /\ restarts' = restarts + 1 /\ job' = file /\ reloads' = reloads + 1
  /\ place' = [e \in RunIds |-> IF place[e] \in {"session", "waiting"} THEN "lost" ELSE place[e]]
  /\ work' = [e \in RunIds |-> IF work[e] = "going" /\ does[e].kind = "shell" THEN "killed" ELSE work[e]]
  /\ record' = [e \in RunIds |-> "none"]
  /\ UNCHANGED <<file, does, since, late, rewrites>>

-----------------------------------------------------------------------------
(* A run.                                                                   *)

InFlight(e) == place[e] \in {"session", "waiting"}

Concludes(e, r) == place' = [place EXCEPT ![e] = "ended"] /\ record' = [record EXCEPT ![e] = r]

\* executeAction.  A path an api action may not have is only logged: the action
\* returns, and that is a success.
Executes(e, l) ==
  /\ place[e] = "unused" /\ job # NoConfig
  /\ does' = [does EXCEPT ![e] = job] /\ since' = [since EXCEPT ![e] = l]
  /\ \/ ~job.safe /\ Concludes(e, "ok") /\ UNCHANGED work
     \/ /\ job.kind = "assistant" /\ place' = [place EXCEPT ![e] = "session"]
        /\ UNCHANGED <<work, record>>
     \/ /\ job.kind # "assistant" /\ job.safe /\ place' = [place EXCEPT ![e] = "waiting"]
        /\ work' = [work EXCEPT ![e] = "going"] /\ UNCHANGED record
  /\ UNCHANGED <<Others, late>>

\* The timer of the newest load's job; protect skips it while its last run is not over.
TimerFires(e) == (\A d \in RunIds : InFlight(d) => since[d] # reloads) /\ Executes(e, reloads)

\* POST /automations/:name/run.
Triggered(e) == Executes(e, 0)

\* The assistant opened a session, which nobody closes, and gets the message; or that
\* fails or takes too long, in ten seconds.
SessionAnswered(e) ==
  /\ place[e] = "session"
  /\ \/ place' = [place EXCEPT ![e] = "waiting"] /\ work' = [work EXCEPT ![e] = "going"] /\ UNCHANGED record
     \/ Concludes(e, "failed") /\ UNCHANGED work
  /\ UNCHANGED <<Others, does, since, late>>

\* What others do comes to its end, whether it is still waited for or not.
WorkDone(e) ==
  /\ work[e] = "going" /\ \E w \in {"good", "bad"} : work' = [work EXCEPT ![e] = w]
  /\ UNCHANGED <<Others, place, does, since, late, record>>

\* A bug: an answer is an answer, whatever its status.
Accepted_Any(w) == "ok"

\* resp.ok, and the exit status of a command.
Accepted(w) == IF w = "good" THEN "ok" ELSE "failed"

\* The response, or the end of the command; of a request that went nowhere, an error.
Answered(e) ==
  /\ place[e] = "waiting"
  /\ \/ work[e] \in {"good", "bad", "killed"} /\ Concludes(e, Accepted(work[e])) /\ UNCHANGED work
     \/ does[e].kind # "shell" /\ work[e] # "killed" /\ Concludes(e, "failed") /\ UNCHANGED work
  /\ UNCHANGED <<Others, does, since, late>>

\* The action's timeout.  A request is given up; a command is asked to end, and until it
\* does it is waited for.
ActionTimesOut(e) ==
  /\ place[e] = "waiting" /\ e \notin late /\ late' = late \cup {e}
  /\ IF does[e].kind = "shell"
     THEN /\ work' = [work EXCEPT ![e] = IF @ = "going" /\ does[e].yields THEN "killed" ELSE @]
          /\ UNCHANGED <<place, record>>
     ELSE Concludes(e, "failed") /\ UNCHANGED work
  /\ UNCHANGED <<Others, does, since>>

-----------------------------------------------------------------------------
RunsNext ==
  \/ Edited \/ Reloaded \/ Restarted
  \/ \E e \in RunIds : TimerFires(e) \/ Triggered(e) \/ SessionAnswered(e) \/ WorkDone(e) \/ Answered(e) \/ ActionTimesOut(e)

RunsSpec == RunsInit /\ [][RunsNext]_runsVars

\* Timers ring, and what has ended is noticed.
RunsFairness ==
  \A e \in RunIds : WF_runsVars(ActionTimesOut(e)) /\ WF_runsVars(SessionAnswered(e)) /\ WF_runsVars(Answered(e))

LiveRunsSpec == RunsSpec /\ RunsFairness

(***************************************************************************)
(* Properties.                                                             *)
(***************************************************************************)
\* A run recorded as a success was one, but for an api action whose path it may
\* not have.
OkMeansDone ==
  \A e \in RunIds : record[e] = "ok" => work[e] = "good" \/ (~does[e].safe)

\* Two runs of the automation are only carried out at the same time if one was
\* asked for, timed out or failed on the way, or a load came between them.
TogetherForCause ==
  \A d, e \in RunIds : d # e /\ work[d] = "going" /\ work[e] = "going" =>
    \/ 0 \in {since[d], since[e]} \/ since[d] # since[e]
    \/ \E x \in {d, e} : place[x] = "ended" /\ record[x] # "ok"

\* A run comes to its end and is recorded, unless the process is restarted before,
\* or its command does not end when it is asked to.
RunsEnd ==
  \A e \in RunIds : [](InFlight(e) => <>(place[e] \in {"ended", "lost"} \/ (e \in late /\ ~does[e].yields)))

\* Of a run that shows it is not so: no action that was not carried out is
\* recorded as a success.
OkIsTrue == \A e \in RunIds : record[e] = "ok" => work[e] = "good"

\* Executions of an automation are together, and recorded as a success, for cause only.
RunsHold == OverlapNeedsReload /\ TogetherForCause /\ OkMeansDone
=============================================================================
