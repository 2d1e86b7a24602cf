------------------------- MODULE Sidecars_proofs --------------------------
(***************************************************************************)
(* The parts beside the message path, each for every value of its          *)
(* constants: the lock file excludes and releases as it should as long as  *)
(* nobody removes a lock that is not abandoned; an automation overlaps     *)
(* itself for cause only, and what is recorded of its runs is so; one      *)
(* authorization server at a time serves the sign-ins of the CLI; the      *)
(* memory service keeps its tables whole; the voice widget has one turn at *)
(* a time; memories are told of the tool executions they were injected     *)
(* into; a tab of the setup wizard says "Setup Complete" for cause only;   *)
(* and all of that at once.                                                *)
(***************************************************************************)
EXTENDS MCSidecars, SequenceTheorems, FiniteSetTheorems, TLAPS

(***************************************************************************)
(* The lock file.                                                          *)
(***************************************************************************)
\* Whoever created the file and goes on still owns it; the one process about
\* to remove a lock finds that of a dead process there.
FileInv ==
  /\ \A p \in Procs : pc[p] \in {"write", "hold", "remove"} => owner = p
  /\ \A p \in Procs : pc[p] = "unlink" => owner \in Procs /\ pc[owner] = "dead"
  /\ \A p, q \in Procs : pc[p] = "unlink" /\ pc[q] = "unlink" => p = q

LockInv == LockTypeOK /\ (~raced => FileInv)

\* Going from one place to another, for the process that does and the others.
LEMMA GoesStep ==
  ASSUME LockTypeOK, NEW p \in Procs, NEW from, NEW to \in PCs, Goes(p, from, to)
  PROVE  /\ pc' \in [Procs -> PCs] /\ pc[p] = from /\ pc'[p] = to
         /\ \A q \in Procs : q # p => pc'[q] = pc[q]
  BY DEF LockTypeOK, Goes

LEMMA TypeStep == ASSUME LockTypeOK, [LockNext]_lockVars PROVE LockTypeOK'
<1> USE NoneAssumption
<1>1. ASSUME NEW p \in Procs, Acquire(p) PROVE LockTypeOK'
  <2>1. pc' \in [Procs -> PCs]
    BY <1>1, GoesStep DEF Acquire, PCs
  <2>2. attempts' \in [Procs -> Nat]
    BY <1>1 DEF Acquire, LockTypeOK
  <2> QED BY <1>1, <2>1, <2>2 DEF Acquire, LockTypeOK
<1>2. ASSUME NEW p \in Procs, Create(p) PROVE LockTypeOK'
  <2>1. pc' \in [Procs -> PCs]
    BY <1>2, GoesStep DEF Create, PCs
  <2> QED BY <1>2, <2>1 DEF Create, LockTypeOK
<1>3. ASSUME NEW p \in Procs, Exists(p) PROVE LockTypeOK'
  <2>1. pc' \in [Procs -> PCs]
    BY <1>3, GoesStep DEF Exists, PCs
  <2> QED BY <1>3, <2>1 DEF Exists, LockTypeOK
<1>4. ASSUME NEW p \in Procs, Write(p) PROVE LockTypeOK'
  <2>1. pc' \in [Procs -> PCs]
    BY <1>4, GoesStep DEF Write, PCs
  <2>2. owner' = owner /\ (UNCHANGED written \/ (written' = TRUE /\ owner = p))
    BY <1>4 DEF Write
  <2>3. CASE UNCHANGED written
    BY <1>4, <2>1, <2>2, <2>3 DEF Write, LockTypeOK
  <2>4. CASE written' = TRUE /\ owner = p
    BY <1>4, <2>1, <2>2, <2>4 DEF Write, LockTypeOK
  <2> QED BY <2>2, <2>3, <2>4
<1>5. ASSUME NEW p \in Procs, Read(p) PROVE LockTypeOK'
  <2>1. pc' \in [Procs -> PCs]
    BY <1>5, GoesStep DEF Read, PCs
  <2>2. raced' \in BOOLEAN
    BY <1>5 DEF Read, LockTypeOK
  <2> QED BY <1>5, <2>1, <2>2 DEF Read, LockTypeOK
<1>6. ASSUME NEW p \in Procs, Unlink(p) PROVE LockTypeOK'
  <2>1. pc' \in [Procs -> PCs]
    BY <1>6, GoesStep DEF Unlink, PCs
  <2> QED BY <1>6, <2>1 DEF Unlink, Unlinked, LockTypeOK
<1>7. ASSUME NEW p \in Procs, Return(p) PROVE LockTypeOK'
  <2>1. pc' \in [Procs -> PCs]
    BY <1>7, GoesStep DEF Return, PCs
  <2> QED BY <1>7, <2>1 DEF Return, LockTypeOK
<1>8. ASSUME NEW p \in Procs, ReadOwn(p) PROVE LockTypeOK'
  <2>1. pc' \in [Procs -> PCs]
    BY <1>8, GoesStep DEF ReadOwn, PCs
  <2> QED BY <1>8, <2>1 DEF ReadOwn, LockTypeOK
<1>9. ASSUME NEW p \in Procs, Remove(p) PROVE LockTypeOK'
  <2>1. pc' \in [Procs -> PCs]
    BY <1>9, GoesStep DEF Remove, PCs
  <2> QED BY <1>9, <2>1 DEF Remove, Unlinked, LockTypeOK
<1>10. ASSUME NEW p \in Procs, Crash(p) PROVE LockTypeOK'
  BY <1>10 DEF Crash, LockTypeOK, PCs
<1>11. CASE UNCHANGED lockVars
  BY <1>11 DEF lockVars, LockTypeOK
<1> QED BY <1>1, <1>2, <1>3, <1>4, <1>5, <1>6, <1>7, <1>8, <1>9, <1>10, <1>11 DEF LockNext, Call

\* Once raced, always raced.
LEMMA RacedStays == ASSUME [LockNext]_lockVars, raced PROVE raced'
  BY DEF LockNext, Call, Acquire, Create, Exists, Write, Read, Unlink, Return, ReadOwn, Remove, Crash, lockVars

LEMMA FileStep ==
  ASSUME LockTypeOK, FileInv, ~raced', [LockNext]_lockVars PROVE FileInv'
<1> USE NoneAssumption
<1>1. ASSUME NEW p \in Procs, Acquire(p) PROVE FileInv'
  <2>1. UNCHANGED owner /\ pc'[p] = "open" /\ pc[p] = "idle" /\ \A q \in Procs : q # p => pc'[q] = pc[q]
    BY <1>1, GoesStep DEF Acquire, PCs
  <2> QED BY <2>1 DEF FileInv
<1>2. ASSUME NEW p \in Procs, Create(p) PROVE FileInv'
  <2>1. owner' = p /\ pc'[p] = "write" /\ \A q \in Procs : q # p => pc'[q] = pc[q]
    BY <1>2, GoesStep DEF Create, PCs
  <2>2. \A q \in Procs : pc[q] \notin {"write", "hold", "remove", "unlink"}
    BY <1>2 DEF Create, Exclusively, FileInv
  <2> QED BY <2>1, <2>2 DEF FileInv
<1>3. ASSUME NEW p \in Procs, Exists(p) PROVE FileInv'
  <2>1. /\ UNCHANGED owner /\ pc'[p] \in {"read", "refused"} /\ pc[p] \in {"open", "retry"}
        /\ \A q \in Procs : q # p => pc'[q] = pc[q]
    BY <1>3, GoesStep DEF Exists, PCs
  <2> QED BY <2>1 DEF FileInv
<1>4. ASSUME NEW p \in Procs, Write(p) PROVE FileInv'
  <2>1. /\ UNCHANGED owner /\ pc'[p] \in {"hold", "failed"} /\ pc[p] = "write"
        /\ \A q \in Procs : q # p => pc'[q] = pc[q]
    BY <1>4, GoesStep DEF Write, PCs
  <2> QED BY <2>1 DEF FileInv
<1>5. ASSUME NEW p \in Procs, Read(p) PROVE FileInv'
  <2>1. UNCHANGED owner /\ pc[p] = "read" /\ \A q \in Procs : q # p => pc'[q] = pc[q]
    BY <1>5, GoesStep DEF Read, PCs
  <2>2. CASE pc'[p] = "refused"
    BY <2>1, <2>2 DEF FileInv
  <2>3. CASE pc'[p] = "unlink"
    <3>1. owner # None /\ ~isProcessAlive(owner) /\ Removing = {}
      BY <1>5, <2>3, GoesStep DEF Read, PCs
    <3>2. owner \in Procs /\ pc[owner] = "dead"
      BY <3>1 DEF isProcessAlive, LockTypeOK
    <3>3. \A q \in Procs : pc[q] # "unlink"
      BY <3>1 DEF Removing
    <3> QED BY <2>1, <2>3, <3>2, <3>3 DEF FileInv
  <2> QED BY <1>5, <2>2, <2>3, GoesStep DEF Read, PCs
<1>6. ASSUME NEW p \in Procs, Unlink(p) PROVE FileInv'
  <2>1. pc[p] = "unlink" /\ pc'[p] = "retry" /\ \A q \in Procs : q # p => pc'[q] = pc[q]
    BY <1>6, GoesStep DEF Unlink, PCs
  <2>2. \A q \in Procs : q # p => pc[q] \notin {"write", "hold", "remove", "unlink"}
    BY <2>1 DEF FileInv
  <2> QED BY <2>1, <2>2 DEF FileInv
<1>7. ASSUME NEW p \in Procs, Return(p) PROVE FileInv'
  <2>1. /\ UNCHANGED owner /\ pc'[p] = "idle" /\ pc[p] \in {"refused", "failed"}
        /\ \A q \in Procs : q # p => pc'[q] = pc[q]
    BY <1>7, GoesStep DEF Return, PCs
  <2> QED BY <2>1 DEF FileInv
<1>8. ASSUME NEW p \in Procs, ReadOwn(p) PROVE FileInv'
  <2>1. /\ UNCHANGED owner /\ pc'[p] \in {"remove", "idle"} /\ pc[p] = "hold"
        /\ \A q \in Procs : q # p => pc'[q] = pc[q]
    BY <1>8, GoesStep DEF ReadOwn, PCs
  <2> QED BY <2>1 DEF FileInv
<1>9. ASSUME NEW p \in Procs, Remove(p) PROVE FileInv'
  <2>1. pc[p] = "remove" /\ pc'[p] = "idle" /\ \A q \in Procs : q # p => pc'[q] = pc[q]
    BY <1>9, GoesStep DEF Remove, PCs
  <2>2. \A q \in Procs : q # p => pc[q] \notin {"write", "hold", "remove", "unlink"}
    BY <2>1 DEF FileInv
  <2> QED BY <2>1, <2>2 DEF FileInv
<1>10. ASSUME NEW p \in Procs, Crash(p) PROVE FileInv'
  <2>1. UNCHANGED owner /\ pc'[p] = "dead" /\ \A q \in Procs : q # p => pc'[q] = pc[q]
    BY <1>10 DEF Crash, LockTypeOK
  <2> QED BY <2>1 DEF FileInv
<1>11. CASE UNCHANGED lockVars
  BY <1>11 DEF lockVars, FileInv
<1> QED BY <1>1, <1>2, <1>3, <1>4, <1>5, <1>6, <1>7, <1>8, <1>9, <1>10, <1>11 DEF LockNext, Call

LEMMA LockBegins == ASSUME LockInit PROVE LockInv
<1>1. \A p \in Procs : pc[p] = "idle"
  BY DEF LockInit
<1>2. LockTypeOK
  BY DEF LockInit, LockTypeOK, PCs
<1> QED BY <1>1, <1>2 DEF LockInv, FileInv

LEMMA LockStep == ASSUME LockInv, [LockNext]_lockVars PROVE LockInv'
  BY TypeStep, RacedStays, FileStep DEF LockInv

\* The inductive invariant: unless a race happened, the file belongs to the
\* process that created it for as long as that one uses it.
THEOREM LockInvariant == LockSpec => []LockInv
  BY LockBegins, LockStep, PTL DEF LockSpec

\* The lock's states are well-typed, and a file has content only if it exists.
THEOREM LockTypeCorrect == LockSpec => []LockTypeOK
<1>1. LockInv => LockTypeOK
  BY DEF LockInv
<1> QED BY <1>1, LockInvariant, PTL

\* Operations exclude each other for any number of processes and crashes,
\* as long as nobody removes a lock that is still in use.
THEOREM LockExcludes == LockSpec => []ExclusiveUnlessRaced
<1>1. LockInv => ExclusiveUnlessRaced
  BY DEF LockInv, FileInv, ExclusiveUnlessRaced, AtMostOneHolder
<1> QED BY <1>1, LockInvariant, PTL

\* And then a release removes the lock of the process that releases.
THEOREM LockRemovesOwn == LockSpec => RemovesOwn
<1>1. LockInv => (\A p \in Procs : pc[p] = "remove" /\ pc'[p] = "idle" /\ ~raced => owner = p)
  BY DEF LockInv, FileInv
<1> QED BY <1>1, LockInvariant, PTL DEF RemovesOwn

(***************************************************************************)
(* The scheduler: the timers of an automation.                             *)
(***************************************************************************)
LEMMA SchedulerTypeStep ==
  ASSUME SchedulerTypeOK, [SchedulerNext]_schedulerVars PROVE SchedulerTypeOK'
<1> USE SchedulerAssumption
<1>0. ASSUME Load PROVE activeJobs' \in [Files -> 0..MaxEdits] /\ loads' \in Nat
  BY <1>0 DEF Load, SchedulerTypeOK
<1>1. ASSUME NEW f \in Files, WriteFile(f) PROVE SchedulerTypeOK'
  BY <1>1 DEF WriteFile, Changed, SchedulerTypeOK, execVars
<1>2. ASSUME NEW f \in Files, RemoveFile(f) PROVE SchedulerTypeOK'
  BY <1>2 DEF RemoveFile, Changed, SchedulerTypeOK, execVars
<1>3. CASE Starts
  BY <1>0, <1>3 DEF Starts, SchedulerTypeOK, dirVars, execVars
<1>4. CASE StartsWatching
  BY <1>4 DEF StartsWatching, SchedulerTypeOK, dirVars, execVars
<1>5. ASSUME Dies, faults' \in 0..MaxFaults, unseen' = unseen PROVE SchedulerTypeOK'
  <2>1. run' \in [Execs -> {"unused", "running", "ended", "lost"}]
    BY <1>5 DEF Dies, SchedulerTypeOK
  <2>2. executionLogs' \in [Files -> Seq(Execs)]
    BY <1>5 DEF Dies
  <2>3. activeJobs' \in [Files -> 0..MaxEdits]
    BY <1>5 DEF Dies, NoJobs
  <2> QED BY <1>5, <2>1, <2>2, <2>3 DEF Dies, SchedulerTypeOK, dirVars
<1>6. ASSUME Fault PROVE faults' \in 0..MaxFaults
  BY <1>6 DEF Fault, SchedulerTypeOK
<1>7. CASE SchedulerKilled
  BY <1>5, <1>6, <1>7 DEF SchedulerKilled
<1>8. CASE Notice
  BY <1>8 DEF Notice, Rearms, SchedulerTypeOK, dirVars, execVars
<1>9. CASE TimerReloads
  <2>1. CASE Fault /\ Dies /\ UNCHANGED unseen
    BY <1>5, <1>6, <2>1
  <2>2. CASE ~(Fault /\ Dies /\ UNCHANGED unseen)
    BY <1>0, <1>9, <2>2 DEF TimerReloads, SchedulerTypeOK, dirVars, execVars
  <2> QED BY <2>1, <2>2
<1>10. CASE Poll
  BY <1>6, <1>10 DEF Poll, Load, NoJobs, SchedulerTypeOK, dirVars, execVars
<1>11. ASSUME NEW e \in Execs, NEW f \in Files, Fires(e, f) \/ Trigger(e, f) PROVE SchedulerTypeOK'
  <2>1. PICK l \in Nat : Begins(e, f, l)
    BY <1>11 DEF Fires, Trigger, SchedulerTypeOK
  <2>2. run' \in [Execs -> {"unused", "running", "ended", "lost"}] /\ born' \in [Execs -> Nat]
    BY <2>1 DEF Begins, SchedulerTypeOK
  <2> QED BY <2>1, <2>2 DEF Begins, SchedulerTypeOK, dirVars, watchVars
<1>12. ASSUME NEW e \in Execs, Ends(e) PROVE SchedulerTypeOK'
  <2>1. of[e] \in Files /\ executionLogs[of[e]] \in Seq(Execs)
    BY DEF SchedulerTypeOK
  <2>2. Append(executionLogs[of[e]], e) \in Seq(Execs)
    BY <2>1
  <2>3. \A s \in Seq(Execs) : Trimmed(s) \in Seq(Execs)
    BY SubSeqProperties DEF Trimmed
  <2>4. executionLogs' \in [Files -> Seq(Execs)]
    BY <1>12, <2>1, <2>2, <2>3 DEF Ends, SchedulerTypeOK
  <2>5. run' \in [Execs -> {"unused", "running", "ended", "lost"}]
    BY <1>12 DEF Ends, SchedulerTypeOK
  <2> QED BY <1>12, <2>4, <2>5 DEF Ends, SchedulerTypeOK, dirVars, watchVars
<1>13. CASE UNCHANGED schedulerVars
  BY <1>13 DEF schedulerVars, dirVars, watchVars, execVars, SchedulerTypeOK
<1> QED BY <1>1, <1>2, <1>3, <1>4, <1>7, <1>8, <1>9, <1>10, <1>11, <1>12, <1>13 DEF SchedulerNext

\* A step begins at most one execution, and an execution keeps its load.
LEMMA OverlapStep ==
  ASSUME SchedulerTypeOK, OverlapNeedsReload, [SchedulerNext]_schedulerVars
  PROVE  OverlapNeedsReload'
<1>1. ASSUME UNCHANGED <<of, born>>, \A e \in Execs : run'[e] = "running" => run[e] = "running"
      PROVE  OverlapNeedsReload'
  BY <1>1 DEF OverlapNeedsReload
<1>2. ASSUME UNCHANGED execVars PROVE OverlapNeedsReload'
  BY <1>1, <1>2 DEF execVars
<1>3. ASSUME Dies PROVE OverlapNeedsReload'
  BY <1>1, <1>3 DEF Dies, SchedulerTypeOK
<1>4. ASSUME NEW e \in Execs, NEW f \in Files, NEW l \in Nat, Begins(e, f, l), l # 0 => Protected(f) /\ l = loads
      PROVE  OverlapNeedsReload'
  <2>1. /\ UNCHANGED of /\ of[e] = f /\ run[e] = "unused" /\ born'[e] = l
        /\ \A d \in Execs \ {e} : run'[d] = run[d] /\ born'[d] = born[d]
    BY <1>4 DEF Begins, SchedulerTypeOK
  <2>2. l # 0 => \A d \in Execs : run[d] = "running" /\ of[d] = f => born[d] # l
    BY <1>4 DEF Protected
  <2> QED BY <2>1, <2>2 DEF OverlapNeedsReload
<1>5. ASSUME NEW e \in Execs, NEW f \in Files, Fires(e, f) \/ Trigger(e, f) PROVE OverlapNeedsReload'
  BY <1>4, <1>5 DEF Fires, Trigger, SchedulerTypeOK
<1>6. ASSUME NEW e \in Execs, Ends(e) PROVE OverlapNeedsReload'
  BY <1>1, <1>6 DEF Ends, SchedulerTypeOK
<1> QED
  BY <1>2, <1>3, <1>5, <1>6 DEF SchedulerNext, schedulerVars, WriteFile, RemoveFile, Changed,
     Starts, StartsWatching, SchedulerKilled, Notice, TimerReloads, Poll

LEMMA SchedulerBegins == ASSUME SchedulerInit PROVE SchedulerTypeOK
<1>1. content \in [Files -> 0..MaxEdits] /\ activeJobs \in [Files -> 0..MaxEdits]
  BY SchedulerAssumption DEF SchedulerInit, NoJobs
<1>2. executionLogs \in [Files -> Seq(Execs)]
  BY DEF SchedulerInit
<1>3. edits \in 0..MaxEdits /\ faults \in 0..MaxFaults
  BY SchedulerAssumption DEF SchedulerInit
<1>4. born \in [Execs -> Nat] /\ run \in [Execs -> {"unused", "running", "ended", "lost"}]
  BY DEF SchedulerInit
<1> QED BY <1>1, <1>2, <1>3, <1>4 DEF SchedulerInit, SchedulerTypeOK

\* Type correctness of the scheduler, for any number of files, executions and edits.
THEOREM SchedulerTypeCorrect == SchedulerSpec => []SchedulerTypeOK
  BY SchedulerBegins, SchedulerTypeStep, PTL DEF SchedulerSpec

\* The timers of one load never run an automation twice at a time.
THEOREM TimersTakeTurns == SchedulerSpec => []OverlapNeedsReload
<1>1. SchedulerInit => OverlapNeedsReload
  BY DEF SchedulerInit, OverlapNeedsReload
<1> QED BY <1>1, SchedulerTypeCorrect, OverlapStep, PTL DEF SchedulerSpec

(***************************************************************************)
(* The scheduler: what a run does, and what is recorded of it.             *)
(***************************************************************************)
\* A run that the scheduler has in its hands, or that others still carry out.
Busy(e) == InFlight(e) \/ work[e] = "going"

FailedOnTheWay(e) == place[e] = "ended" /\ record[e] # "ok"

\* Where a run is tells what may have become of it: what is recorded, whose timer
\* it can be, and whether others have begun with it.
RunsFit ==
  \A e \in RunIds :
    /\ since[e] <= reloads
    /\ place[e] = "lost" => since[e] < reloads
    /\ place[e] = "unused" => work[e] = "none"
    /\ place[e] # "ended" => record[e] = "none"
    /\ place[e] # "unused" => does[e] \in Configs
    /\ place[e] = "session" => work[e] = "none"
    /\ place[e] = "session" \/ work[e] = "going" => does[e].safe

\* Two runs are busy together for cause only.
TogetherInv ==
  \A d, e \in RunIds : d # e /\ Busy(d) /\ Busy(e) =>
    \/ 0 \in {since[d], since[e]} \/ since[d] # since[e]
    \/ FailedOnTheWay(d) \/ FailedOnTheWay(e)

RunsInv == RunsTypeOK /\ OkMeansDone /\ RunsFit /\ TogetherInv

RunPlaces == {"unused", "session", "waiting", "ended", "lost"}
RunWorks == {"none", "going", "good", "bad", "killed"}
RunRecords == {"none", "ok", "failed"}

\* What an action does to the run it is about, the others being left alone.
OnlyOf(e) ==
  /\ UNCHANGED <<file, job, reloads, rewrites, restarts>>
  /\ place' \in [RunIds -> RunPlaces] /\ work' \in [RunIds -> RunWorks] /\ record' \in [RunIds -> RunRecords]
  /\ does' \in [RunIds -> Configs \cup {NoConfig}] /\ since' \in [RunIds -> Nat] /\ late' \subseteq RunIds
  /\ \A d \in RunIds \ {e} :
       /\ place'[d] = place[d] /\ work'[d] = work[d] /\ record'[d] = record[d]
       /\ does'[d] = does[d] /\ since'[d] = since[d]

LEMMA ExecutesStep ==
  ASSUME RunsTypeOK, NEW e \in RunIds, NEW l \in Nat, Executes(e, l)
  PROVE  /\ OnlyOf(e) /\ place[e] = "unused" /\ does'[e] = job /\ job \in Configs /\ since'[e] = l
         /\ \/ ~job.safe /\ place'[e] = "ended" /\ record'[e] = "ok" /\ work'[e] = work[e]
            \/ job.safe /\ place'[e] = "session" /\ record'[e] = record[e] /\ work'[e] = work[e]
            \/ job.safe /\ place'[e] = "waiting" /\ record'[e] = record[e] /\ work'[e] = "going"
<1>1. job \in Configs
  BY DEF Executes, RunsTypeOK
<1>2. does' = [does EXCEPT ![e] = job] /\ since' = [since EXCEPT ![e] = l] /\ place[e] = "unused"
      /\ UNCHANGED <<Others, late>>
  BY DEF Executes
<1>3. \/ ~job.safe /\ Concludes(e, "ok") /\ UNCHANGED work
      \/ job.safe /\ place' = [place EXCEPT ![e] = "session"] /\ UNCHANGED <<work, record>>
      \/ job.safe /\ place' = [place EXCEPT ![e] = "waiting"] /\ work' = [work EXCEPT ![e] = "going"] /\ UNCHANGED record
  BY <1>1 DEF Executes, Configs
<1>4. OnlyOf(e)
  BY <1>1, <1>2, <1>3 DEF OnlyOf, Others, Concludes, RunsTypeOK, RunPlaces, RunWorks, RunRecords
<1> QED BY <1>1, <1>2, <1>3, <1>4 DEF Concludes, RunsTypeOK

LEMMA GoesOnStep ==
  ASSUME RunsTypeOK, NEW e \in RunIds, SessionAnswered(e) \/ WorkDone(e) \/ Answered(e) \/ ActionTimesOut(e)
  PROVE  /\ OnlyOf(e) /\ UNCHANGED <<does, since>>
         /\ \/ /\ place[e] = "session" /\ record'[e] = record[e]
               /\ place'[e] = "waiting" /\ work'[e] = "going"
            \/ /\ place[e] \in {"session", "waiting"} /\ place'[e] = "ended"
               /\ record'[e] = "failed" /\ work'[e] = work[e]
            \/ /\ work[e] = "going" /\ work'[e] \in {"good", "bad", "killed"}
               /\ place'[e] = place[e] /\ record'[e] = record[e]
            \/ /\ place[e] = "waiting" /\ place'[e] = "ended" /\ work'[e] = work[e]
               /\ record'[e] = "ok" /\ work[e] = "good"
            \/ place'[e] = place[e] /\ record'[e] = record[e] /\ work'[e] = work[e]
<1>1. CASE SessionAnswered(e)
  BY <1>1 DEF SessionAnswered, OnlyOf, Others, Concludes, RunsTypeOK, RunPlaces, RunWorks, RunRecords
<1>2. CASE WorkDone(e)
  BY <1>2 DEF WorkDone, OnlyOf, Others, RunsTypeOK, RunPlaces, RunWorks, RunRecords
<1>3. CASE Answered(e)
  BY <1>3 DEF Answered, Accepted, OnlyOf, Others, Concludes, RunsTypeOK, RunPlaces, RunWorks, RunRecords
<1>4. CASE ActionTimesOut(e)
  BY <1>4 DEF ActionTimesOut, OnlyOf, Others, Concludes, RunsTypeOK, RunPlaces, RunWorks, RunRecords
<1> QED BY <1>1, <1>2, <1>3, <1>4

\* Whatever only ends what is busy keeps the runs apart.
LEMMA StayApart ==
  ASSUME TogetherInv, UNCHANGED since,
         \A e \in RunIds : (Busy(e)' => Busy(e)) /\ (FailedOnTheWay(e) => FailedOnTheWay(e)')
  PROVE  TogetherInv'
  BY DEF TogetherInv

LEMMA BeginsStep ==
  ASSUME RunsInv, NEW e \in RunIds, TimerFires(e) \/ Triggered(e) PROVE RunsInv'
<1>1. PICK l \in Nat : Executes(e, l) /\ l <= reloads /\ (l # 0 => TimerFires(e) /\ l = reloads)
  BY DEF TimerFires, Triggered, RunsInv, RunsTypeOK
<1>2. /\ OnlyOf(e) /\ place[e] = "unused" /\ does'[e] = job /\ job \in Configs /\ since'[e] = l
      /\ \/ ~job.safe /\ place'[e] = "ended" /\ record'[e] = "ok" /\ work'[e] = work[e]
         \/ job.safe /\ place'[e] = "session" /\ record'[e] = record[e] /\ work'[e] = work[e]
         \/ job.safe /\ place'[e] = "waiting" /\ record'[e] = record[e] /\ work'[e] = "going"
  BY <1>1, ExecutesStep DEF RunsInv
<1>3. RunsTypeOK'
  BY <1>2 DEF RunsInv, RunsTypeOK, OnlyOf, RunPlaces, RunWorks, RunRecords
<1>4. work[e] = "none" /\ record[e] = "none"
  BY <1>2 DEF RunsInv, RunsFit
<1>5. RunsFit'
  BY <1>1, <1>2, <1>4 DEF RunsInv, RunsFit, OnlyOf
<1>6. OkMeansDone'
  BY <1>2, <1>4 DEF RunsInv, OkMeansDone, OnlyOf
<1>7. \A d \in RunIds \ {e} : Busy(d)' = Busy(d) /\ FailedOnTheWay(d)' = FailedOnTheWay(d)
  BY <1>2 DEF OnlyOf, Busy, InFlight, FailedOnTheWay
<1>8. ASSUME NEW d \in RunIds \ {e}, Busy(d), l # 0, since[d] = l PROVE FailedOnTheWay(d)
  <2>1. ~InFlight(d) /\ work[d] = "going"
    BY <1>1, <1>8 DEF TimerFires, Busy
  <2>2. place[d] = "ended"
    BY <1>1, <1>8, <2>1 DEF RunsInv, RunsTypeOK, RunsFit, InFlight
  <2>3. record[d] # "ok"
    BY <2>1 DEF RunsInv, OkMeansDone, RunsFit
  <2> QED BY <2>2, <2>3 DEF FailedOnTheWay
<1>9. TogetherInv'
  <2> SUFFICES ASSUME NEW c \in RunIds, NEW d \in RunIds, c # d, Busy(c)', Busy(d)'
               PROVE  \/ 0 \in {since'[c], since'[d]} \/ since'[c] # since'[d]
                      \/ FailedOnTheWay(c)' \/ FailedOnTheWay(d)'
    BY DEF TogetherInv
  <2>1. CASE c # e /\ d # e
    BY <1>2, <1>7, <2>1 DEF RunsInv, TogetherInv, OnlyOf
  <2>2. CASE c = e
    BY <1>2, <1>7, <1>8, <2>2 DEF OnlyOf
  <2>3. CASE d = e
    BY <1>2, <1>7, <1>8, <2>3 DEF OnlyOf
  <2> QED BY <2>1, <2>2, <2>3
<1> QED BY <1>3, <1>5, <1>6, <1>9 DEF RunsInv

LEMMA EndsStep ==
  ASSUME RunsInv, NEW e \in RunIds, SessionAnswered(e) \/ WorkDone(e) \/ Answered(e) \/ ActionTimesOut(e)
  PROVE  RunsInv'
<1>1. /\ OnlyOf(e) /\ UNCHANGED <<does, since>>
      /\ \/ /\ place[e] = "session" /\ record'[e] = record[e]
            /\ place'[e] = "waiting" /\ work'[e] = "going"
         \/ /\ place[e] \in {"session", "waiting"} /\ place'[e] = "ended"
            /\ record'[e] = "failed" /\ work'[e] = work[e]
         \/ /\ work[e] = "going" /\ work'[e] \in {"good", "bad", "killed"}
            /\ place'[e] = place[e] /\ record'[e] = record[e]
         \/ /\ place[e] = "waiting" /\ place'[e] = "ended" /\ work'[e] = work[e]
            /\ record'[e] = "ok" /\ work[e] = "good"
         \/ place'[e] = place[e] /\ record'[e] = record[e] /\ work'[e] = work[e]
  BY GoesOnStep DEF RunsInv
<1>2. RunsTypeOK'
  BY <1>1 DEF RunsInv, RunsTypeOK, OnlyOf, RunPlaces, RunWorks, RunRecords
<1>3. place[e] = "session" => does[e].safe
  BY DEF RunsInv, RunsFit
<1>4. RunsFit'
  BY <1>1, <1>3 DEF RunsInv, RunsFit, OnlyOf
<1>5. OkMeansDone'
  BY <1>1 DEF RunsInv, OkMeansDone, RunsFit, OnlyOf
<1>6. TogetherInv'
  <2>1. \A d \in RunIds : (Busy(d)' => Busy(d)) /\ (FailedOnTheWay(d) => FailedOnTheWay(d)')
    BY <1>1 DEF OnlyOf, Busy, InFlight, FailedOnTheWay, RunsInv, RunsFit
  <2> QED BY <1>1, <2>1, StayApart DEF RunsInv
<1> QED BY <1>2, <1>4, <1>5, <1>6 DEF RunsInv

LEMMA OutsideStep ==
  ASSUME RunsInv, Edited \/ Reloaded \/ Restarted PROVE RunsInv'
<1>1. CASE Edited
  <2>1. RunsTypeOK'
    BY <1>1, RunsAssumption DEF Edited, RunsInv, RunsTypeOK
  <2> QED BY <1>1, <2>1 DEF Edited, RunsInv, OkMeansDone, RunsFit, TogetherInv, Busy, InFlight, FailedOnTheWay
<1>2. CASE Reloaded
  <2>1. RunsTypeOK'
    BY <1>2 DEF Reloaded, RunsInv, RunsTypeOK
  <2>2. RunsFit'
    BY <1>2 DEF Reloaded, RunsInv, RunsTypeOK, RunsFit
  <2> QED BY <1>2, <2>1, <2>2 DEF Reloaded, RunsInv, OkMeansDone, TogetherInv, Busy, InFlight, FailedOnTheWay
<1>3. CASE Restarted
  <2>1. /\ UNCHANGED <<does, since, late, rewrites>> /\ reloads' = reloads + 1
        /\ \A e \in RunIds :
             /\ place'[e] = IF place[e] \in {"session", "waiting"} THEN "lost" ELSE place[e]
             /\ work'[e] = work[e] \/ (work[e] = "going" /\ work'[e] = "killed")
             /\ record'[e] = "none"
    <3>1. work' = [e \in RunIds |-> IF work[e] = "going" /\ does[e].kind = "shell" THEN "killed" ELSE work[e]]
      BY <1>3 DEF Restarted
    <3>2. \A e \in RunIds : work'[e] = work[e] \/ (work[e] = "going" /\ work'[e] = "killed")
      BY <3>1
    <3>3. /\ place' = [e \in RunIds |-> IF place[e] \in {"session", "waiting"} THEN "lost" ELSE place[e]]
          /\ record' = [e \in RunIds |-> "none"] /\ reloads' = reloads + 1
      BY <1>3 DEF Restarted
    <3>4. UNCHANGED <<does, since, late, rewrites>>
      BY <1>3 DEF Restarted
    <3> QED BY <3>2, <3>3, <3>4
  <2>2. RunsTypeOK'
    <3>1. place' \in [RunIds -> RunPlaces] /\ work' \in [RunIds -> RunWorks] /\ record' \in [RunIds -> RunRecords]
      BY <1>3 DEF Restarted, RunsInv, RunsTypeOK, RunPlaces, RunWorks, RunRecords
    <3>2. restarts' \in 0..MaxRestarts /\ file' = file /\ job' = file
      BY <1>3, RunsAssumption DEF Restarted, RunsInv, RunsTypeOK
    <3> QED BY <2>1, <3>1, <3>2 DEF RunsInv, RunsTypeOK, RunPlaces, RunWorks, RunRecords
  <2>3. RunsFit'
    BY <2>1 DEF RunsInv, RunsTypeOK, RunsFit
  <2>4. OkMeansDone'
    BY <2>1 DEF OkMeansDone
  <2>5. TogetherInv'
    <3>1. \A e \in RunIds : (Busy(e)' => Busy(e)) /\ (FailedOnTheWay(e) => FailedOnTheWay(e)')
      BY <2>1 DEF Busy, InFlight, FailedOnTheWay
    <3> QED BY <2>1, <3>1, StayApart DEF RunsInv
  <2> QED BY <2>2, <2>3, <2>4, <2>5 DEF RunsInv
<1> QED BY <1>1, <1>2, <1>3

LEMMA RunsBegin == ASSUME RunsInit PROVE RunsInv
<1>1. RunsTypeOK
  BY RunsAssumption DEF RunsInit, RunsTypeOK
<1> QED BY <1>1 DEF RunsInit, RunsInv, OkMeansDone, RunsFit, TogetherInv, Busy, InFlight

LEMMA RunsStep == ASSUME RunsInv, [RunsNext]_runsVars PROVE RunsInv'
<1>1. CASE UNCHANGED runsVars
  BY <1>1 DEF runsVars, RunsInv, RunsTypeOK, OkMeansDone, RunsFit, TogetherInv, Busy, InFlight, FailedOnTheWay
<1> QED BY <1>1, BeginsStep, EndsStep, OutsideStep DEF RunsNext

\* The inductive invariant of what the runs do.
THEOREM RunsInvariant == RunsSpec => []RunsInv
  BY RunsBegin, RunsStep, PTL DEF RunsSpec

\* Executions of an automation are together, and a run is recorded as a success,
\* for cause only: for any number of files, executions, runs, edits, reloads and restarts.
THEOREM RunsHoldAlways == SchedulerSpec /\ RunsSpec => []RunsHold
<1>1. RunsInv => TogetherForCause /\ OkMeansDone
  BY DEF RunsInv, TogetherInv, TogetherForCause, Busy, FailedOnTheWay
<1>2. OverlapNeedsReload /\ TogetherForCause /\ OkMeansDone => RunsHold
  BY DEF RunsHold
<1> QED BY <1>1, <1>2, RunsInvariant, TimersTakeTurns, PTL

(***************************************************************************)
(* The authorization server of the CLI.                                    *)
(***************************************************************************)
\* The state names one attempt, whose process lives; an attempt has a process, and a
\* home directory, only once it has its port.
StateFits ==
  /\ auth.baseUrl = auth.process /\ auth.homeDir = auth.process
  /\ auth.process # NoAttempt => Alive(auth.process)
  /\ \A a \in Attempts : attempt[a] \in {"unused", "port"} => proc[a] = "none"

\* While nothing was usurped, an attempt that waits for its port is the one others are
\* told of, and there is no other process to tell them of.
PortIsAlone ==
  ~usurped => \A a \in Attempts : attempt[a] = "port" => auth.ready = a /\ auth.process = NoAttempt

AuthInv == AuthTypeOK /\ StateFits /\ PortIsAlone /\ OneServerUnlessUsurped

LEMMA SomeAttempt == Attempts \subseteq MaybeAttempt /\ NoAttempt \in MaybeAttempt
  BY AttemptsAssumption DEF Attempts, MaybeAttempt, NoAttempt

LEMMA AuthTypeStep == ASSUME AuthTypeOK, [AuthNext]_authVars PROVE AuthTypeOK'
<1> USE SomeAttempt
<1> DEFINE Where == {"unused", "port", "polling", "fetching", "answered", "ready", "failed"}
<1>1. ASSUME NEW c \in Callers, Ensure(c) PROVE AuthTypeOK'
  <2>1. auth.ready \in MaybeAttempt /\ caller' \in [Callers -> {"new", "waiting", "served", "refused"}]
    BY <1>1 DEF Ensure, AuthTypeOK
  <2>2. CASE UNCHANGED <<attempt, auth, awaits>>
    BY <1>1, <2>1, <2>2 DEF Ensure, AuthTypeOK
  <2>3. CASE awaits' = [awaits EXCEPT ![c] = Shared] /\ UNCHANGED <<attempt, auth>>
    BY <1>1, <2>1, <2>3 DEF Ensure, Shared, AuthTypeOK
  <2>4. ASSUME NEW a \in Attempts, attempt' = [attempt EXCEPT ![a] = "port"], auth' = [auth EXCEPT !.ready = a],
               awaits' = [awaits EXCEPT ![c] = a]
        PROVE  AuthTypeOK'
    BY <1>1, <2>1, <2>4 DEF Ensure, AuthTypeOK
  <2>5. CASE ~UNCHANGED <<attempt, auth, awaits>> /\ Shared = NoAttempt
    <3>1. PICK a \in Attempts : /\ To(a, "unused", "port") /\ auth' = [auth EXCEPT !.ready = a]
                               /\ awaits' = [awaits EXCEPT ![c] = a]
      BY <1>1, <2>5 DEF Ensure
    <3> QED BY <2>4, <3>1 DEF To
  <2>6. CASE ~UNCHANGED <<attempt, auth, awaits>> /\ Shared # NoAttempt
    <3>1. awaits' = [awaits EXCEPT ![c] = Shared] /\ UNCHANGED <<attempt, auth>>
      BY <1>1, <2>6 DEF Ensure
    <3> QED BY <2>3, <3>1
  <2> QED BY <2>2, <2>5, <2>6
<1>2. ASSUME NEW c \in Callers, Settle(c) PROVE AuthTypeOK'
  BY <1>2 DEF Settle, AuthTypeOK
<1>3. ASSUME NEW a \in Attempts, NEW from, NEW to \in Where, To(a, from, to) PROVE attempt' \in [Attempts -> Where]
  BY <1>3 DEF To, AuthTypeOK
<1>4. ASSUME NEW a \in Attempts, Spawn(a) \/ NoSpawn(a) PROVE AuthTypeOK'
  <2>1. attempt' \in [Attempts -> Where] /\ UNCHANGED <<polled, killed, caller, awaits, usurped>>
    BY <1>3, <1>4 DEF Spawn, NoSpawn
  <2>2. proc' \in [Attempts -> {"none", "booting", "serving", "exited"}]
    BY <1>4 DEF Spawn, NoSpawn, AuthTypeOK
  <2>3. homes' \subseteq Attempts
    <3>1. homes' \in {homes, homes \cup {a}}
      BY <1>4 DEF Spawn, NoSpawn
    <3> QED BY <3>1 DEF AuthTypeOK
  <2>4. auth' \in [baseUrl : MaybeAttempt, process : MaybeAttempt, homeDir : MaybeAttempt, ready : MaybeAttempt]
    <3>1. auth' = auth \/ auth' = [auth EXCEPT !.process = a, !.baseUrl = a, !.homeDir = a]
      BY <1>4 DEF Spawn, NoSpawn
    <3> QED BY <3>1 DEF AuthTypeOK
  <2> QED BY <2>1, <2>2, <2>3, <2>4 DEF AuthTypeOK
<1>5. ASSUME NEW a \in Attempts, Fetch(a) \/ Answers(a) \/ NoAnswer(a) PROVE AuthTypeOK'
  <2>1. attempt' \in [Attempts -> Where] /\ UNCHANGED <<proc, killed, homes, auth, caller, awaits, usurped>>
    BY <1>3, <1>5 DEF Fetch, Answers, NoAnswer
  <2>2. polled' \in [Attempts -> MaybeAttempt]
    BY <1>5 DEF Fetch, Answers, NoAnswer, AuthTypeOK
  <2> QED BY <2>1, <2>2 DEF AuthTypeOK
<1>6. Cleared \in [baseUrl : MaybeAttempt, process : MaybeAttempt, homeDir : MaybeAttempt, ready : MaybeAttempt]
  BY DEF Cleared
<1>7. ASSUME NEW a \in Attempts, Ready(a) \/ TimesOut(a) PROVE AuthTypeOK'
  <2>1. attempt' \in [Attempts -> Where] /\ UNCHANGED <<polled, proc, caller, awaits>>
    BY <1>3, <1>7 DEF Ready, TimesOut
  <2>2. killed' \subseteq Attempts /\ homes' \subseteq Attempts
    BY <1>7 DEF Ready, TimesOut, AuthTypeOK
  <2>3. auth' \in [baseUrl : MaybeAttempt, process : MaybeAttempt, homeDir : MaybeAttempt, ready : MaybeAttempt]
    BY <1>6, <1>7 DEF Ready, TimesOut, AuthTypeOK
  <2>4. usurped' \in BOOLEAN
    BY <1>7 DEF Ready, TimesOut, AuthTypeOK
  <2> QED BY <2>1, <2>2, <2>3, <2>4 DEF AuthTypeOK
<1>8. ASSUME NEW a \in Attempts, Boots(a) \/ Exits(a) PROVE AuthTypeOK'
  <2>1. proc' \in [Attempts -> {"none", "booting", "serving", "exited"}]
    BY <1>8 DEF Boots, Exits, AuthTypeOK
  <2>2. homes' \subseteq Attempts
        /\ auth' \in [baseUrl : MaybeAttempt, process : MaybeAttempt, homeDir : MaybeAttempt, ready : MaybeAttempt]
    BY <1>6, <1>8 DEF Boots, Exits, AuthTypeOK
  <2> QED BY <1>8, <2>1, <2>2 DEF Boots, Exits, AuthTypeOK
<1>9. CASE UNCHANGED authVars
  BY <1>9 DEF authVars, AuthTypeOK
<1> QED BY <1>1, <1>2, <1>4, <1>5, <1>7, <1>8, <1>9 DEF AuthNext, Runs

LEMMA AuthStep == ASSUME AuthInv, [AuthNext]_authVars PROVE AuthInv'
<1> USE AttemptsAssumption DEF NoAttempt, Attempts, MaybeAttempt
<1> DEFINE Rest == StateFits /\ PortIsAlone /\ OneServerUnlessUsurped
<1>0. AuthTypeOK /\ StateFits /\ PortIsAlone /\ OneServerUnlessUsurped
  BY DEF AuthInv
<1>1. ASSUME NEW c \in Callers, Ensure(c) PROVE Rest'
  <2>1. CASE UNCHANGED <<attempt, auth>>
    BY <1>0, <1>1, <2>1 DEF Ensure, StateFits, PortIsAlone, OneServerUnlessUsurped, Alive
  <2>2. CASE ~UNCHANGED <<attempt, auth>>
    <3>1. PICK a \in Attempts :
            /\ attempt[a] = "unused" /\ attempt' = [attempt EXCEPT ![a] = "port"]
            /\ auth' = [auth EXCEPT !.ready = a]
      BY <1>1, <2>2 DEF Ensure, To
    <3>2. auth.process = 0 /\ auth.ready = 0 /\ UNCHANGED <<proc, killed, homes, usurped>>
      BY <1>0, <1>1, <2>2 DEF Ensure, Shared, StateFits
    <3>3. auth'.ready = a /\ auth'.process = auth.process /\ auth'.baseUrl = auth.baseUrl /\ auth'.homeDir = auth.homeDir
      BY <1>0, <3>1 DEF AuthTypeOK
    <3>4. attempt'[a] = "port" /\ \A b \in Attempts \ {a} : attempt'[b] = attempt[b]
      BY <1>0, <3>1 DEF AuthTypeOK
    <3>5. usurped \/ \A b \in Attempts : attempt[b] # "port"
      BY <1>0, <3>2 DEF PortIsAlone
    <3> QED BY <1>0, <3>1, <3>2, <3>3, <3>4, <3>5 DEF StateFits, PortIsAlone, OneServerUnlessUsurped, Alive
  <2> QED BY <2>1, <2>2
<1>2. ASSUME NEW c \in Callers, Settle(c) PROVE Rest'
  BY <1>0, <1>2 DEF Settle, StateFits, PortIsAlone, OneServerUnlessUsurped, Alive
<1>3. ASSUME NEW a \in Attempts, Spawn(a) PROVE Rest'
  <2>1. /\ attempt[a] = "port" /\ attempt'[a] = "polling" /\ proc'[a] = "booting"
        /\ \A b \in Attempts \ {a} : attempt'[b] = attempt[b] /\ proc'[b] = proc[b]
        /\ UNCHANGED <<killed, usurped>> /\ homes' = homes \cup {a}
    BY <1>0, <1>3 DEF Spawn, To, AuthTypeOK
  <2>2. auth'.process = a /\ auth'.baseUrl = a /\ auth'.homeDir = a /\ auth'.ready = auth.ready
    BY <1>0, <1>3 DEF Spawn, AuthTypeOK
  <2>3. StateFits'
    BY <1>0, <2>1, <2>2 DEF StateFits, Alive
  <2>4. ~usurped => auth.ready = a /\ auth.process = 0
    BY <1>0, <2>1 DEF PortIsAlone
  <2>5. PortIsAlone'
    BY <1>0, <2>1, <2>2, <2>4 DEF PortIsAlone
  <2>6. OneServerUnlessUsurped'
    BY <1>0, <2>1, <2>2, <2>4 DEF OneServerUnlessUsurped, StateFits, Alive
  <2> QED BY <2>3, <2>5, <2>6
<1>4. ASSUME NEW a \in Attempts, NoSpawn(a) PROVE Rest'
  <2>1. /\ attempt[a] = "port" /\ attempt'[a] = "failed" /\ UNCHANGED <<proc, auth, killed, usurped>>
        /\ \A b \in Attempts \ {a} : attempt'[b] = attempt[b]
        /\ homes' \subseteq homes \cup {a} /\ proc[a] = "none"
    BY <1>0, <1>4 DEF NoSpawn, To, AuthTypeOK, StateFits
  <2> QED BY <1>0, <2>1 DEF StateFits, PortIsAlone, OneServerUnlessUsurped, Alive
<1>5. ASSUME NEW a \in Attempts, Fetch(a) \/ Answers(a) \/ NoAnswer(a) PROVE Rest'
  <2>1. /\ attempt[a] \notin {"unused", "port"} /\ attempt'[a] \notin {"unused", "port"}
        /\ \A b \in Attempts \ {a} : attempt'[b] = attempt[b]
        /\ UNCHANGED <<proc, auth, homes, killed, usurped>>
    BY <1>0, <1>5 DEF Fetch, Answers, NoAnswer, To, AuthTypeOK
  <2> QED BY <1>0, <2>1 DEF StateFits, PortIsAlone, OneServerUnlessUsurped, Alive
<1>6. ASSUME NEW a \in Attempts, Ready(a) PROVE Rest'
  <2>1. /\ attempt[a] = "answered" /\ attempt'[a] = "ready" /\ UNCHANGED <<proc, homes, killed>>
        /\ \A b \in Attempts \ {a} : attempt'[b] = attempt[b]
        /\ ~usurped' => ~usurped /\ auth.ready \in {a, 0}
    BY <1>0, <1>6 DEF Ready, To, AuthTypeOK
  <2>2. auth'.process = auth.process /\ auth'.baseUrl = auth.baseUrl /\ auth'.homeDir = auth.homeDir
    BY <1>0, <1>6 DEF Ready, AuthTypeOK
  <2> QED BY <1>0, <2>1, <2>2 DEF StateFits, PortIsAlone, OneServerUnlessUsurped, Alive
<1>7. ASSUME NEW a \in Attempts, TimesOut(a) PROVE Rest'
  <2>1. /\ attempt[a] = "polling" /\ attempt'[a] = "failed" /\ UNCHANGED proc
        /\ \A b \in Attempts \ {a} : attempt'[b] = attempt[b]
        /\ ~usurped' => ~usurped /\ auth.ready \in {a, 0} /\ auth.process \in {a, 0}
        /\ killed \subseteq killed' /\ (Alive(a) => a \in killed')
        /\ homes' = homes \ {auth.homeDir}
    BY <1>0, <1>7 DEF TimesOut, To, AuthTypeOK
  <2>2. auth'.process = 0 /\ auth'.baseUrl = 0 /\ auth'.homeDir = 0 /\ auth'.ready = 0
    BY <1>7 DEF TimesOut, Cleared
  <2>3. StateFits'
    BY <1>0, <2>1, <2>2 DEF StateFits
  <2>4. PortIsAlone'
    BY <1>0, <2>1, <2>2 DEF PortIsAlone
  <2>5. OneServerUnlessUsurped'
    <3> SUFFICES ASSUME ~usurped', NEW b \in Attempts
                 PROVE  /\ ~(Alive(b)' /\ b \notin killed')
                        /\ ~(b \in homes' /\ proc'[b] # "none")
      BY DEF OneServerUnlessUsurped
    <3>1. Alive(b)' <=> Alive(b)
      BY <2>1 DEF Alive
    <3>2. Alive(b) /\ b \notin killed => b = a
      BY <1>0, <2>1 DEF OneServerUnlessUsurped
    <3>3. b \in homes /\ proc[b] # "none" => auth.homeDir = b
      BY <1>0, <2>1 DEF OneServerUnlessUsurped
    <3> QED BY <2>1, <3>1, <3>2, <3>3
  <2> QED BY <2>3, <2>4, <2>5
<1>8. ASSUME NEW a \in Attempts, Boots(a) PROVE Rest'
  <2>1. /\ proc[a] = "booting" /\ proc'[a] = "serving" /\ \A b \in Attempts \ {a} : proc'[b] = proc[b]
        /\ UNCHANGED <<attempt, auth, homes, killed, usurped>>
    BY <1>0, <1>8 DEF Boots, AuthTypeOK
  <2> QED BY <1>0, <2>1 DEF StateFits, PortIsAlone, OneServerUnlessUsurped, Alive
<1>9. ASSUME NEW a \in Attempts, Exits(a) PROVE Rest'
  <2>1. /\ Alive(a) /\ proc'[a] = "exited" /\ \A b \in Attempts \ {a} : proc'[b] = proc[b]
        /\ UNCHANGED <<attempt, killed, usurped>>
    BY <1>0, <1>9 DEF Exits, AuthTypeOK
  <2>2. CASE auth.process = a
    <3>1. auth'.process = 0 /\ auth'.baseUrl = 0 /\ auth'.homeDir = 0 /\ auth'.ready = 0 /\ homes' = homes \ {auth.homeDir}
      BY <1>9, <2>2 DEF Exits, Owned, Cleared
    <3> QED BY <1>0, <2>1, <2>2, <3>1 DEF StateFits, PortIsAlone, OneServerUnlessUsurped, Alive
  <2>3. CASE auth.process # a
    <3>1. UNCHANGED <<homes, auth>>
      BY <1>9, <2>3 DEF Exits, Owned
    <3> QED BY <1>0, <2>1, <2>3, <3>1 DEF StateFits, PortIsAlone, OneServerUnlessUsurped, Alive
  <2> QED BY <2>2, <2>3
<1>10. ASSUME UNCHANGED authVars PROVE Rest'
  BY <1>0, <1>10 DEF authVars, StateFits, PortIsAlone, OneServerUnlessUsurped, Alive
<1>11. Rest'
  BY <1>1, <1>2, <1>3, <1>4, <1>5, <1>6, <1>7, <1>8, <1>9, <1>10 DEF AuthNext, Runs
<1> QED BY <1>0, <1>11, AuthTypeStep DEF AuthInv

LEMMA AuthBegins == ASSUME AuthInit PROVE AuthInv
<1>1. AuthTypeOK
  BY SomeAttempt DEF AuthInit, AuthTypeOK, Cleared
<1>2. \A a \in Attempts : attempt[a] = "unused" /\ proc[a] = "none" /\ a \notin homes
  BY DEF AuthInit
<1>3. auth.baseUrl = NoAttempt /\ auth.process = NoAttempt /\ auth.homeDir = NoAttempt
  BY DEF AuthInit, Cleared
<1> QED BY <1>1, <1>2, <1>3 DEF AuthInv, StateFits, PortIsAlone, OneServerUnlessUsurped, Alive

\* The inductive invariant of the OAuth server.
THEOREM AuthInvariant == AuthSpec => []AuthInv
  BY AuthBegins, AuthStep, PTL DEF AuthSpec

\* Unless an attempt clears what a later one set, there is one server, the one the
\* state names: for any number of requests and attempts.
THEOREM OneServer == AuthSpec => []OneServerUnlessUsurped
<1>1. AuthInv => OneServerUnlessUsurped
  BY DEF AuthInv
<1> QED BY <1>1, AuthInvariant, PTL

(***************************************************************************)
(* The memory service.                                                     *)
(***************************************************************************)
\* What waits for the embedder or the model has its turn, so nothing else is at work;
\* and what a request read of its memory before it waits is still so.
TurnInv ==
  \A r \in Reqs :
    /\ req[r].at \in {"embedding", "asking", "deciding", "deleting"} => HasTurn(r)
    /\ req[r].at = "embedding" => req[r].kind \in {"add", "put", "feedback"}
    /\ req[r].at = "embedding" /\ req[r].kind # "add" =>
         req[r].target \in DOMAIN rows /\ req[r].seen = rows[req[r].target]

MemoryInv == MemoryTypeOK /\ MemoriesWhole /\ TurnInv

MemReq == [kind : Kinds, target : Ids, at : Places, seen : Nat, found : SUBSET Ids, ops : 0..MaxOps]

\* The two tables, and the feedback acknowledged since.
TablesInv ==
  /\ rows \in [DOMAIN rows -> Nat] /\ DOMAIN rows \subseteq Ids
  /\ vectors \subseteq Ids /\ issued \subseteq Ids /\ strays \subseteq Ids /\ given \in [Ids -> Nat]
  /\ MemoriesWhole

LEMMA InsertKeeps ==
  ASSUME TablesInv, NEW i \in Ids, Insert(i, 0), issued' = issued \cup {i},
         given' = [given EXCEPT ![i] = 0], UNCHANGED strays
  PROVE  TablesInv'
  BY DEF TablesInv, Insert, MemoriesWhole, TablesAgree, FeedbackCounted

LEMMA UpdateKeeps ==
  ASSUME TablesInv, NEW i \in Ids, NEW n \in Nat, Update(i, n), UNCHANGED issued,
         given' \in [Ids -> Nat], \A j \in Ids \ {i} : given'[j] = given[j], given'[i] = n \/ i \notin DOMAIN rows,
         strays' = strays \cup ({i} \ DOMAIN rows)
  PROVE  TablesInv'
  BY DEF TablesInv, Update, MemoriesWhole, TablesAgree, FeedbackCounted

LEMMA DeleteKeeps ==
  ASSUME TablesInv, NEW S, Delete(S), UNCHANGED <<issued, given, strays>>
  PROVE  TablesInv'
  BY DEF TablesInv, Delete, Restrict, MemoriesWhole, TablesAgree, FeedbackCounted

LEMMA RestKeeps ==
  ASSUME TablesInv, UNCHANGED <<tableVars, given, strays>> PROVE TablesInv'
  BY DEF TablesInv, tableVars, MemoriesWhole, TablesAgree, FeedbackCounted

QueueInv == chain \in Seq(Reqs) /\ req \in [Reqs -> MemReq] /\ kills \in 0..MaxKills

LEMMA MemoryParts == MemoryInv <=> TablesInv /\ QueueInv /\ TurnInv
  BY DEF MemoryInv, MemoryTypeOK, TablesInv, QueueInv, MemReq

LEMMA MemoryPartsNext == ASSUME TablesInv', QueueInv', TurnInv' PROVE MemoryInv'
  BY DEF MemoryInv, MemoryTypeOK, TablesInv, QueueInv, MemReq

\* Nothing else is at work when a request has its turn.
LEMMA AloneAtWork ==
  ASSUME QueueInv, TurnInv, NEW r \in Reqs, HasTurn(r), NEW q \in Reqs, q # r
  PROVE  req[q].at \notin {"embedding", "asking", "deciding", "deleting"}
  BY DEF TurnInv, HasTurn

\* A request that has its turn ends: the rest is as it was, and nothing is at work.
LEMMA FinishesKeeps ==
  ASSUME QueueInv, TurnInv, NEW r \in Reqs, HasTurn(r), NEW how \in {"done", "failed"}, Finishes(r, how),
         UNCHANGED kills
  PROVE  QueueInv' /\ TurnInv'
<1>1. chain' \in Seq(Reqs)
  BY HeadTailProperties DEF Finishes, Released, HasTurn, QueueInv
<1>2. req' \in [Reqs -> MemReq]
  BY DEF Finishes, MovesTo, QueueInv, MemReq, Places
<1>3. \A q \in Reqs : req'[q].at \notin {"embedding", "asking", "deciding", "deleting"}
  BY AloneAtWork DEF Finishes, MovesTo, QueueInv, MemReq
<1> QED BY <1>1, <1>2, <1>3 DEF QueueInv, TurnInv

\* A request that has its turn goes to work, or on with it.
LEMMA WorksKeeps ==
  ASSUME QueueInv, TurnInv, NEW r \in Reqs, HasTurn(r), NEW m \in MemReq, req' = [req EXCEPT ![r] = m],
         UNCHANGED <<chain, kills>>,
         m.at = "embedding" => m.kind \in {"add", "put", "feedback"},
         m.at = "embedding" /\ m.kind # "add" => m.target \in DOMAIN rows' /\ m.seen = rows'[m.target]
  PROVE  QueueInv' /\ TurnInv'
<1>1. \A q \in Reqs \ {r} : req'[q].at \notin {"embedding", "asking", "deciding", "deleting"}
  BY AloneAtWork DEF QueueInv
<1>2. req'[r] = m /\ HasTurn(r)'
  BY DEF QueueInv, HasTurn
<1>3. QueueInv'
  BY DEF QueueInv
<1> QED BY <1>1, <1>2, <1>3 DEF TurnInv

LEMMA MemoryStep == ASSUME MemoryInv, [MemoryNext]_memoryVars PROVE MemoryInv'
<1> USE MemoryAssumption
<1>0. TablesInv /\ QueueInv /\ TurnInv
  BY MemoryParts
<1>1. ASSUME NEW r \in Reqs, Arrive(r) PROVE MemoryInv'
  <2>1. TablesInv'
    BY <1>0, <1>1, RestKeeps DEF Arrive
  <2>2. PICK k \in Kinds, i \in Ids : req' = [req EXCEPT ![r] = [@ EXCEPT !.kind = k, !.target = i, !.at = "queued"]]
    BY <1>1 DEF Arrive
  <2>3. /\ req'[r].at = "queued" /\ req'[r] \in MemReq
        /\ \A q \in Reqs \ {r} : req'[q] = req[q]
    BY <1>0, <2>2 DEF QueueInv, MemReq, Places
  <2>4. chain' \in Seq(Reqs) /\ \A q \in Reqs : HasTurn(q) => HasTurn(q)'
    BY <1>0, <1>1 DEF Arrive, QueueInv, HasTurn
  <2>5. QueueInv'
    BY <1>0, <1>1, <2>2, <2>3, <2>4 DEF Arrive, QueueInv
  <2>6. TurnInv'
    BY <1>0, <1>1, <2>3, <2>4 DEF Arrive, TurnInv, tableVars
  <2> QED BY <2>1, <2>5, <2>6, MemoryPartsNext
<1>2. ASSUME NEW r \in Reqs, Begin(r) PROVE MemoryInv'
  <2>1. HasTurn(r) /\ UNCHANGED <<kills, given, strays>> /\ req[r] \in MemReq
    BY <1>0, <1>2 DEF Begin, QueueInv
  <2>2. CASE req[r].kind = "add" /\ MovesTo(r, "embedding") /\ UNCHANGED <<tableVars, chain>>
    <3>1. [req[r] EXCEPT !.at = "embedding"] \in MemReq
      BY <2>1 DEF MemReq, Places
    <3>2. req' = [req EXCEPT ![r] = [req[r] EXCEPT !.at = "embedding"]]
      BY <2>2 DEF MovesTo
    <3>3. [req[r] EXCEPT !.at = "embedding"].kind = "add"
      BY <2>1, <2>2 DEF MemReq
    <3> QED BY <1>0, <2>1, <2>2, <3>1, <3>2, <3>3, WorksKeeps, RestKeeps, MemoryPartsNext
  <2>3. CASE req[r].kind = "infer" /\ MovesTo(r, "asking") /\ UNCHANGED <<tableVars, chain>>
    <3>1. [req[r] EXCEPT !.at = "asking"] \in MemReq /\ [req[r] EXCEPT !.at = "asking"].at # "embedding"
      BY <2>1 DEF MemReq, Places
    <3>2. req' = [req EXCEPT ![r] = [req[r] EXCEPT !.at = "asking"]]
      BY <2>3 DEF MovesTo
    <3> QED BY <1>0, <2>1, <2>3, <3>1, <3>2, WorksKeeps, RestKeeps, MemoryPartsNext
  <2>4. CASE /\ req[r].kind \in {"put", "feedback"} /\ req[r].target \in DOMAIN rows
             /\ req' = [req EXCEPT ![r] = [@ EXCEPT !.at = "embedding", !.seen = rows[req[r].target]]]
             /\ UNCHANGED <<chain, tableVars>>
    <3> DEFINE m == [req[r] EXCEPT !.at = "embedding", !.seen = rows[req[r].target]]
    <3>1. m \in MemReq /\ m.kind \in {"put", "feedback"} /\ m.target = req[r].target /\ m.seen = rows[req[r].target]
      BY <1>0, <2>1, <2>4 DEF MemReq, Places, TablesInv
    <3>2. req' = [req EXCEPT ![r] = m] /\ rows' = rows
      BY <2>4 DEF tableVars
    <3> HIDE DEF m
    <3> QED BY <1>0, <2>1, <2>4, <3>1, <3>2, WorksKeeps, RestKeeps, MemoryPartsNext
  <2>5. CASE Finishes(r, "failed") /\ UNCHANGED tableVars
    BY <1>0, <2>1, <2>5, FinishesKeeps, RestKeeps, MemoryPartsNext
  <2>6. CASE Delete({req[r].target}) /\ Finishes(r, "done") /\ UNCHANGED issued
    BY <1>0, <2>1, <2>6, FinishesKeeps, DeleteKeeps, MemoryPartsNext
  <2>7. CASE req[r].kind = "deleteAll" /\ MovesTo(r, "deleting") /\ UNCHANGED <<tableVars, chain>>
    <3>1. [req[r] EXCEPT !.at = "deleting"] \in MemReq /\ [req[r] EXCEPT !.at = "deleting"].at # "embedding"
      BY <2>1 DEF MemReq, Places
    <3>2. req' = [req EXCEPT ![r] = [req[r] EXCEPT !.at = "deleting"]]
      BY <2>7 DEF MovesTo
    <3> QED BY <1>0, <2>1, <2>7, <3>1, <3>2, WorksKeeps, RestKeeps, MemoryPartsNext
  <2> QED BY <1>2, <2>2, <2>3, <2>4, <2>5, <2>6, <2>7 DEF Begin
<1>3. ASSUME NEW r \in Reqs, Embedded(r) PROVE MemoryInv'
  <2>1. HasTurn(r) /\ Finishes(r, "done") /\ UNCHANGED <<kills, strays>>
    BY <1>0, <1>3 DEF Embedded, TurnInv
  <2>2. QueueInv' /\ TurnInv'
    BY <1>0, <2>1, FinishesKeeps
  <2>3. ASSUME req[r].kind = "add" PROVE TablesInv'
    BY <1>0, <1>3, <2>1, <2>3, InsertKeeps DEF Embedded, Fresh, TablesInv
  <2>4. req[r].kind # "add" =>
          /\ req[r].target \in DOMAIN rows /\ req[r].seen = rows[req[r].target]
          /\ req[r].target \in Ids /\ req[r].seen \in Nat /\ given[req[r].target] = req[r].seen
    BY <1>0, <1>3 DEF Embedded, TurnInv, TablesInv, MemoriesWhole, FeedbackCounted
  <2>5. ASSUME req[r].kind = "put" PROVE TablesInv'
    <3>1. Update(req[r].target, req[r].seen) /\ UNCHANGED <<issued, given>>
      BY <1>3, <2>5 DEF Embedded
    <3> QED BY <1>0, <2>1, <2>4, <2>5, <3>1, UpdateKeeps DEF TablesInv
  <2>6. ASSUME req[r].kind = "feedback" PROVE TablesInv'
    <3>1. Update(req[r].target, req[r].seen + 1) /\ UNCHANGED issued
          /\ given' = [given EXCEPT ![req[r].target] = @ + 1]
      BY <1>3, <2>6 DEF Embedded
    <3>2. given' \in [Ids -> Nat] /\ given'[req[r].target] = req[r].seen + 1
          /\ \A j \in Ids \ {req[r].target} : given'[j] = given[j]
      BY <1>0, <2>4, <2>6, <3>1 DEF TablesInv
    <3> QED BY <1>0, <2>1, <2>4, <2>6, <3>1, <3>2, UpdateKeeps
  <2> QED BY <1>3, <2>2, <2>3, <2>5, <2>6, MemoryPartsNext DEF Embedded
<1>4. ASSUME NEW r \in Reqs, Related(r) PROVE MemoryInv'
  <2>1. HasTurn(r) /\ UNCHANGED <<tableVars, chain, kills, given, strays>> /\ req[r] \in MemReq
    BY <1>0, <1>4 DEF Related, TurnInv, QueueInv
  <2>2. PICK S \in SUBSET DOMAIN rows : req' = [req EXCEPT ![r] = [@ EXCEPT !.at = "deciding", !.found = S]]
    BY <1>4 DEF Related
  <2> DEFINE m == [req[r] EXCEPT !.at = "deciding", !.found = S]
  <2>3. m \in MemReq /\ m.at = "deciding"
    BY <1>0, <2>1 DEF MemReq, Places, TablesInv
  <2>4. req' = [req EXCEPT ![r] = m]
    BY <2>2
  <2> HIDE DEF m
  <2> QED BY <1>0, <2>1, <2>3, <2>4, WorksKeeps, RestKeeps, MemoryPartsNext
<1>5. ASSUME NEW r \in Reqs, Decided(r) PROVE MemoryInv'
  <2>1. HasTurn(r) /\ UNCHANGED <<chain, kills>> /\ req[r] \in MemReq /\ req[r].ops < MaxOps
        /\ req' = [req EXCEPT ![r] = [req[r] EXCEPT !.ops = @ + 1]] /\ req[r].at = "deciding"
    BY <1>0, <1>5 DEF Decided, TurnInv, QueueInv
  <2>2. [req[r] EXCEPT !.ops = @ + 1] \in MemReq /\ [req[r] EXCEPT !.ops = @ + 1].at = "deciding"
    BY <2>1 DEF MemReq
  <2>3. QueueInv' /\ TurnInv'
    BY <1>0, <2>1, <2>2, WorksKeeps
  <2>4. req[r].found \subseteq Ids /\ Fresh \subseteq Ids
    BY <2>1 DEF MemReq, Fresh
  <2>5. ASSUME NEW i \in Fresh, Insert(i, 0), issued' = issued \cup {i}, given' = [given EXCEPT ![i] = 0], UNCHANGED strays
        PROVE  TablesInv'
    BY <1>0, <2>4, <2>5, InsertKeeps
  <2>6. ASSUME NEW i \in req[r].found \cup Fresh, Update(i, 0), UNCHANGED issued, given' = [given EXCEPT ![i] = 0],
               strays' = IF i \in DOMAIN rows THEN strays ELSE strays \cup {i}
        PROVE  TablesInv'
    <3>1. given' \in [Ids -> Nat] /\ given'[i] = 0 /\ \A j \in Ids \ {i} : given'[j] = given[j]
      BY <1>0, <2>4, <2>6 DEF TablesInv
    <3>2. strays' = strays \cup ({i} \ DOMAIN rows)
      BY <2>6
    <3> QED BY <1>0, <2>4, <2>6, <3>1, <3>2, UpdateKeeps
  <2>7. ASSUME NEW i \in req[r].found \cup Fresh, Delete({i}), UNCHANGED <<issued, given, strays>> PROVE TablesInv'
    BY <1>0, <2>7, DeleteKeeps
  <2>8. TablesInv'
    BY <1>5, <2>5, <2>6, <2>7 DEF Decided
  <2> QED BY <2>3, <2>8, MemoryPartsNext
<1>6. ASSUME NEW r \in Reqs, Inferred(r) \/ RequestFails(r) PROVE MemoryInv'
  <2>1. PICK how \in {"done", "failed"} : Finishes(r, how)
    BY <1>6 DEF Inferred, RequestFails
  <2>2. HasTurn(r) /\ UNCHANGED <<tableVars, kills, given, strays>>
    BY <1>0, <1>6 DEF Inferred, RequestFails, TurnInv
  <2> QED BY <1>0, <2>1, <2>2, FinishesKeeps, RestKeeps, MemoryPartsNext
<1>7. CASE MemoryKilled
  <2>1. \A q \in Reqs : req'[q] = IF req[q].at \in {"new", "done"} THEN req[q] ELSE [req[q] EXCEPT !.at = "failed"]
    BY <1>7 DEF MemoryKilled
  <2>2. \A q \in Reqs : req'[q] \in MemReq /\ req'[q].at \in {"new", "done", "failed"}
    BY <1>0, <2>1 DEF QueueInv, MemReq, Places
  <2>3. req' \in [Reqs -> MemReq]
    BY <1>7, <2>2 DEF MemoryKilled
  <2>4. chain' \in Seq(Reqs) /\ kills' \in 0..MaxKills
    BY <1>0, <1>7 DEF MemoryKilled, QueueInv
  <2>5. QueueInv' /\ TurnInv'
    BY <2>2, <2>3, <2>4 DEF QueueInv, TurnInv
  <2> QED BY <1>0, <1>7, <2>5, RestKeeps, MemoryPartsNext DEF MemoryKilled
<1>8. CASE UNCHANGED memoryVars
  BY <1>0, <1>8, RestKeeps, MemoryPartsNext DEF memoryVars, tableVars, QueueInv, TurnInv, HasTurn
<1>9. ASSUME NEW r \in Reqs, DeleteNext(r) PROVE MemoryInv'
  <2>1. HasTurn(r) /\ UNCHANGED <<kills, given, strays>>
    BY <1>0, <1>9 DEF DeleteNext, TurnInv
  <2>2. CASE Finishes(r, "done") /\ UNCHANGED tableVars
    BY <1>0, <2>1, <2>2, FinishesKeeps, RestKeeps, MemoryPartsNext
  <2>3. ASSUME NEW i \in DOMAIN rows, Delete({i}), UNCHANGED <<req, chain, issued>> PROVE MemoryInv'
    <3>1. \A q \in Reqs : req[q].at # "embedding"
      BY <1>0, <1>9, <2>1, AloneAtWork DEF DeleteNext
    <3>2. QueueInv' /\ TurnInv'
      BY <1>0, <2>1, <2>3, <3>1 DEF QueueInv, TurnInv, HasTurn
    <3>3. TablesInv'
      BY <1>0, <2>1, <2>3, DeleteKeeps
    <3> QED BY <3>2, <3>3, MemoryPartsNext
  <2> QED BY <1>9, <2>2, <2>3 DEF DeleteNext
<1> QED BY <1>1, <1>2, <1>3, <1>4, <1>5, <1>6, <1>7, <1>8, <1>9 DEF MemoryNext, Serves

LEMMA MemoryBegins == ASSUME MemoryInit PROVE MemoryInv
<1>1. TablesInv
  BY DEF MemoryInit, TablesInv, MemoriesWhole, TablesAgree, FeedbackCounted
<1>2. \A r \in Reqs : req[r].at = "new"
  BY DEF MemoryInit
<1>3. req \in [Reqs -> MemReq]
  BY MemoryAssumption DEF MemoryInit, MemReq, Kinds, Places
<1>4. QueueInv /\ TurnInv
  BY <1>2, <1>3, MemoryAssumption DEF MemoryInit, QueueInv, TurnInv
<1> QED BY <1>1, <1>4, MemoryParts

\* The inductive invariant: the requests take turns, what one read before it waited is
\* still so after, and the tables agree.
THEOREM MemoryInvariant == MemorySpec => []MemoryInv
  BY MemoryBegins, MemoryStep, PTL DEF MemorySpec

\* Nothing that was deleted comes back by half, and no feedback is lost or counted
\* twice: for any number of requests, memories, operations of a model and kills.
THEOREM MemoriesStayWhole == MemorySpec => []MemoriesWhole
<1>1. MemoryInv => MemoriesWhole
  BY DEF MemoryInv
<1> QED BY <1>1, MemoryInvariant, PTL

(***************************************************************************)
(* The voice widget.                                                       *)
(***************************************************************************)
TurnPlaces == Resting \cup {"permission", "capturing", "captured", "uploading",
                            "creating", "asking", "fetching", "playing", "cut"}

TurnsInv ==
  /\ turn \in [VoiceTurns -> TurnPlaces]
  /\ activeSTT \in 0..MaxTurns /\ activeTTS \in 0..MaxTurns /\ aborter \in 0..MaxTurns

Live(t) == turn[t] \notin Resting

\* One turn is live at a time, the page shows that it is, and while it waits for the
\* microphone or records the button would stop it.
OneIsLive ==
  /\ \A t, u \in VoiceTurns : Live(t) /\ Live(u) => t = u
  /\ \A t \in VoiceTurns : Live(t) => status \notin {"idle", "error"}
  /\ \A t \in VoiceTurns : turn[t] \in {"permission", "capturing"} =>
       /\ status = "listening"
       /\ ~hasty => isListening /\ ~processing /\ (turn[t] = "capturing" => activeSTT = t)

VoiceInv == TurnsInv /\ (~left => OneIsLive)

LEMMA ATurn == VoiceTurns \subseteq 0..MaxTurns /\ NoTurn \in 0..MaxTurns /\ NoTurn \notin VoiceTurns
               /\ \A n \in 0..MaxTurns : n # NoTurn => n \in VoiceTurns
  BY TurnsAssumption DEF VoiceTurns, NoTurn

\* What cancelling does to the turns: none begins, and those that rest go on resting.
LEMMA SilenceKeeps ==
  ASSUME TurnsInv, NEW f \in [VoiceTurns -> TurnPlaces], Silence(f)
  PROVE  /\ turn' \in [VoiceTurns -> TurnPlaces] /\ activeSTT' \in 0..MaxTurns /\ activeTTS' \in 0..MaxTurns
         /\ \A t \in VoiceTurns : f[t] \in Resting => turn'[t] = f[t]
<1> DEFINE g == TtsCancelled(f)
<1>1. g \in [VoiceTurns -> TurnPlaces] /\ \A t \in VoiceTurns : f[t] \in Resting => g[t] = f[t]
  <2>1. CASE activeTTS = NoTurn
    BY <2>1 DEF TtsCancelled
  <2>2. CASE activeTTS # NoTurn /\ tts = "browser"
    <3>1. g = [t \in VoiceTurns |-> IF f[t] = "playing" THEN "cut" ELSE f[t]]
      BY <2>2 DEF TtsCancelled
    <3> QED BY <3>1 DEF TurnPlaces, Resting
  <2>3. CASE activeTTS # NoTurn /\ tts # "browser"
    <3>1. g = IF f[activeTTS] = "playing" THEN [f EXCEPT ![activeTTS] = "hung"] ELSE f
      BY <2>3 DEF TtsCancelled
    <3> QED BY <3>1 DEF TurnPlaces, Resting
  <2> QED BY <2>1, <2>2, <2>3
<1> HIDE DEF g
<1>2. turn' = g \/ \E how \in {"cut", "captured"} : g[activeSTT] = "capturing" /\ turn' = [g EXCEPT ![activeSTT] = how]
  BY DEF Silence, SttCancelled, Silenced, g
<1>3. activeSTT' = NoTurn /\ activeTTS' = NoTurn
  BY DEF Silence
<1>4. turn' \in [VoiceTurns -> TurnPlaces]
  BY <1>1, <1>2 DEF TurnPlaces
<1>5. \A t \in VoiceTurns : f[t] \in Resting => turn'[t] = f[t]
  BY <1>1, <1>2 DEF Resting
<1> QED BY <1>3, <1>4, <1>5, ATurn

\* A turn that is live goes to another place, or rests.
LEMMA MovesOn ==
  ASSUME TurnsInv, ~left => OneIsLive, NEW t \in VoiceTurns, Live(t), NEW p \in TurnPlaces \ {"permission", "capturing"},
         turn' = [turn EXCEPT ![t] = p], UNCHANGED left, p \notin Resting => status' \notin {"idle", "error"}
  PROVE  ~left' => OneIsLive'
<1>1. turn'[t] = p /\ \A u \in VoiceTurns \ {t} : turn'[u] = turn[u]
  BY DEF TurnsInv
<1> SUFFICES ASSUME ~left PROVE OneIsLive'
  OBVIOUS
<1>2. \A u \in VoiceTurns \ {t} : turn'[u] \in Resting
  BY <1>1 DEF OneIsLive, Live
<1> QED BY <1>1, <1>2 DEF OneIsLive, Live, Resting

\* A turn is started when none is live.
LEMMA StartsKeeps ==
  ASSUME TurnsInv, ~left => OneIsLive, NEW f \in [VoiceTurns -> TurnPlaces], Startable, StartsTurn(f),
         \A u \in VoiceTurns : turn[u] \in Resting => f[u] \in Resting, UNCHANGED <<left, activeTTS, aborter>>
  PROVE  TurnsInv' /\ (~left' => OneIsLive')
<1>a. PICK t \in VoiceTurns :
        \/ Says("error") /\ turn' = [f EXCEPT ![t] = "refused"] /\ UNCHANGED <<isListening, activeSTT>>
        \/ /\ Shows("listening") /\ isListening' = TRUE
           /\ \/ turn' = [f EXCEPT ![t] = "capturing"] /\ activeSTT' = t
              \/ turn' = [f EXCEPT ![t] = "permission"] /\ UNCHANGED activeSTT
  BY DEF StartsTurn
<1>2. TurnsInv'
  BY <1>a, ATurn DEF TurnsInv, TurnPlaces, Resting
<1>b. CASE Says("error") /\ turn' = [f EXCEPT ![t] = "refused"] /\ UNCHANGED <<isListening, activeSTT>>
  <2>1. ~left' => \A u \in VoiceTurns : turn'[u] \in Resting
    BY <1>b DEF OneIsLive, Live, Startable, Resting
  <2> QED BY <1>2, <2>1 DEF OneIsLive, Live, Resting
<1>c. CASE /\ Shows("listening") /\ isListening' = TRUE
           /\ \/ turn' = [f EXCEPT ![t] = "capturing"] /\ activeSTT' = t
              \/ turn' = [f EXCEPT ![t] = "permission"] /\ UNCHANGED activeSTT
  <2>3. /\ \A u \in VoiceTurns \ {t} : turn'[u] = f[u]
        /\ turn'[t] \in {"permission", "capturing"} /\ (turn'[t] = "capturing" => activeSTT' = t)
    BY <1>c
  <2>4. status' = "listening" /\ ~processing' /\ isListening'
    BY <1>c DEF Shows
  <2>5. ~left' => \A u \in VoiceTurns \ {t} : turn'[u] \in Resting
    BY <2>3 DEF OneIsLive, Live, Startable
  <2> QED BY <1>2, <2>3, <2>4, <2>5 DEF OneIsLive, Live, Resting
<1> QED BY <1>a, <1>b, <1>c

LEMMA VoiceStep == ASSUME VoiceInv, [VoiceNext]_voiceVars PROVE VoiceInv'
<1> USE ATurn
<1>0. TurnsInv /\ (~left => OneIsLive)
  BY DEF VoiceInv
<1>1. ASSUME NEW t \in VoiceTurns, Granted(t) PROVE VoiceInv'
  <2>1. /\ turn[t] = "permission" /\ turn' = [turn EXCEPT ![t] = "capturing"] /\ activeSTT' = t
        /\ UNCHANGED <<status, isListening, processing, left, hasty, activeTTS, aborter>>
    BY <1>1 DEF Granted
  <2>2. TurnsInv'
    BY <1>0, <2>1 DEF TurnsInv, TurnPlaces
  <2>3. turn'[t] = "capturing" /\ \A u \in VoiceTurns \ {t} : turn'[u] = turn[u]
    BY <1>0, <2>1 DEF TurnsInv
  <2>4. ~left => \A u \in VoiceTurns \ {t} : turn[u] \in Resting
    BY <1>0, <2>1 DEF OneIsLive, Live, Resting
  <2>5. ~left' => OneIsLive'
    BY <1>0, <2>1, <2>3, <2>4 DEF OneIsLive, Live, Resting
  <2> QED BY <2>2, <2>5 DEF VoiceInv
<1>2. ASSUME NEW t \in VoiceTurns, CaptureEnds(t) \/ Upload(t) \/ Transcribed(t) \/ Created(t) \/ Replied(t)
                                   \/ Plays(t) \/ Spoken(t)
      PROVE VoiceInv'
  <2>1. Live(t) /\ UNCHANGED left
    BY <1>2 DEF CaptureEnds, Upload, Transcribed, Created, Replied, Plays, Spoken, Live, Resting
  <2>2. left \/ status \notin {"idle", "error"}
    BY <1>0, <2>1 DEF OneIsLive
  <2>3. activeSTT' \in 0..MaxTurns /\ activeTTS' \in 0..MaxTurns /\ aborter' \in 0..MaxTurns
    <3>1. activeSTT' = activeSTT /\ activeTTS' \in {activeTTS, t} /\ aborter' \in {aborter, t, NoTurn}
      BY <1>2 DEF CaptureEnds, Upload, Transcribed, Created, Replied, Plays, Spoken, globalVars
    <3> QED BY <1>0, <3>1 DEF TurnsInv
  <2>4. \E p \in TurnPlaces \ {"permission", "capturing"} :
          turn' = [turn EXCEPT ![t] = p] /\ (p \notin Resting => status' \in {status, "transcribing", "thinking", "speaking"})
    <3>1. CASE CaptureEnds(t) \/ Upload(t) \/ Created(t) \/ Plays(t)
      BY <3>1 DEF CaptureEnds, Upload, Created, Plays, Says, TurnPlaces
    <3>2. CASE Transcribed(t)
      BY <3>2 DEF Transcribed, Shows, TurnPlaces, Resting
    <3>3. CASE Replied(t)
      BY <3>3 DEF Replied, Finish, Shows, TurnPlaces, Resting
    <3>4. CASE Spoken(t)
      BY <3>4 DEF Spoken, Finish, TurnPlaces, Resting
    <3> QED BY <1>2, <3>1, <3>2, <3>3, <3>4
  <2>5. PICK p \in TurnPlaces \ {"permission", "capturing"} :
          turn' = [turn EXCEPT ![t] = p] /\ (p \notin Resting => status' \in {status, "transcribing", "thinking", "speaking"})
    BY <2>4
  <2>6. TurnsInv'
    BY <1>0, <2>3, <2>5 DEF TurnsInv
  <2>7. ~left' => OneIsLive'
    <3> SUFFICES ASSUME ~left PROVE OneIsLive'
      BY <2>1
    <3>1. p \notin Resting => status' \notin {"idle", "error"}
      BY <2>2, <2>5
    <3> QED BY <1>0, <2>1, <2>5, <3>1, MovesOn
  <2> QED BY <2>6, <2>7 DEF VoiceInv
<1>3. ASSUME NEW t \in VoiceTurns, Continue(t) PROVE VoiceInv'
  <2> DEFINE f == [turn EXCEPT ![t] = "over"]
  <2>1. f \in [VoiceTurns -> TurnPlaces] /\ f[t] = "over" /\ \A u \in VoiceTurns \ {t} : f[u] = turn[u]
    BY <1>0 DEF TurnsInv, TurnPlaces, Resting
  <2>2. /\ turn[t] = "pausing" /\ UNCHANGED <<left, hasty, activeTTS, aborter>>
        /\ \/ Startable /\ StartsTurn(f)
           \/ turn' = f /\ UNCHANGED <<status, processing, isListening, activeSTT>>
    BY <1>3 DEF Continue
  <2> HIDE DEF f
  <2>3. CASE Startable /\ StartsTurn(f)
    BY <1>0, <2>1, <2>2, <2>3, StartsKeeps DEF VoiceInv, Resting
  <2>4. CASE turn' = f /\ UNCHANGED <<status, processing, isListening, activeSTT>>
    <3>1. TurnsInv'
      BY <1>0, <2>1, <2>2, <2>4 DEF TurnsInv
    <3>2. OneIsLive => OneIsLive'
      BY <2>1, <2>2, <2>4 DEF OneIsLive, Live, Resting
    <3> QED BY <1>0, <2>2, <3>1, <3>2 DEF VoiceInv
  <2> QED BY <2>2, <2>3, <2>4
<1>4. ASSUME NEW t \in VoiceTurns, TurnFails(t) PROVE VoiceInv'
  <2> DEFINE f == [turn EXCEPT ![t] = "over"]
  <2>1. f \in [VoiceTurns -> TurnPlaces] /\ f[t] = "over" /\ \A u \in VoiceTurns \ {t} : f[u] = turn[u]
    BY <1>0 DEF TurnsInv, TurnPlaces, Resting
  <2>2. Silence(f) /\ Live(t) /\ UNCHANGED left /\ aborter' \in {aborter, NoTurn}
    BY <1>4 DEF TurnFails, Live
  <2> HIDE DEF f
  <2>3. /\ turn' \in [VoiceTurns -> TurnPlaces] /\ activeSTT' \in 0..MaxTurns /\ activeTTS' \in 0..MaxTurns
        /\ \A u \in VoiceTurns : f[u] \in Resting => turn'[u] = f[u]
    BY <1>0, <2>1, <2>2, SilenceKeeps
  <2>4. TurnsInv'
    BY <1>0, <2>2, <2>3 DEF TurnsInv
  <2>5. ~left => \A u \in VoiceTurns : f[u] \in Resting
    BY <1>0, <2>1, <2>2 DEF OneIsLive, Live, Resting
  <2>6. ~left' => OneIsLive'
    BY <2>2, <2>3, <2>5 DEF OneIsLive, Live, Resting
  <2> QED BY <2>4, <2>6 DEF VoiceInv
<1>5. CASE Recover
  <2>1. /\ UNCHANGED <<isListening, processing, turn, activeSTT, activeTTS, aborter, left, hasty>>
        /\ (status = "error" /\ status' = "idle") \/ status' = status
    BY <1>5 DEF Recover, Says, globalVars
  <2>2. OneIsLive => OneIsLive'
    BY <2>1 DEF OneIsLive, Live, Resting
  <2> QED BY <1>0, <2>1, <2>2 DEF VoiceInv, TurnsInv
<1>6. CASE Mic
  <2>1. ~processing /\ UNCHANGED <<activeTTS, aborter, left>>
    BY <1>6 DEF Mic
  <2>2. CASE ~isListening
    <3>1. Startable /\ StartsTurn(turn)
      BY <1>6, <2>2 DEF Mic
    <3> QED BY <1>0, <2>1, <3>1, StartsKeeps DEF VoiceInv, TurnsInv
  <2>3. CASE isListening
    <3>1. turn' = Stopped(turn) /\ activeSTT' = NoTurn /\ UNCHANGED status
          /\ (hasty' <=> (hasty \/ \E t \in VoiceTurns : turn[t] = "permission"))
      BY <1>6, <2>3 DEF Mic
    <3>2. turn' = turn \/ (activeSTT \in VoiceTurns /\ turn[activeSTT] = "capturing" /\ turn' = [turn EXCEPT ![activeSTT] = "captured"])
      BY <1>0, <3>1 DEF Stopped, Silenced, TurnsInv
    <3>3. activeSTT \in VoiceTurns /\ turn[activeSTT] = "capturing" => turn' = [turn EXCEPT ![activeSTT] = "captured"]
      BY <3>1 DEF Stopped, Silenced
    <3>4. TurnsInv'
      BY <1>0, <2>1, <3>1, <3>2 DEF TurnsInv, TurnPlaces
    <3>5. /\ \A t \in VoiceTurns : turn'[t] \in {turn[t], "captured"}
          /\ \A t \in VoiceTurns : turn'[t] # turn[t] => turn[t] = "capturing"
          /\ \A t \in VoiceTurns : turn[t] = "capturing" /\ activeSTT = t => turn'[t] = "captured"
      BY <1>0, <3>2, <3>3 DEF TurnsInv
    <3>6. OneIsLive => OneIsLive'
      <4> SUFFICES ASSUME OneIsLive PROVE OneIsLive'
        OBVIOUS
      <4>1. \A t \in VoiceTurns : turn'[t] \notin Resting => turn[t] \notin Resting
        BY <3>5 DEF Resting
      <4>2. ASSUME NEW t \in VoiceTurns, turn'[t] \in {"permission", "capturing"} PROVE turn[t] = turn'[t]
        BY <3>5, <4>2
      <4>3. ~hasty' => ~hasty /\ \A t \in VoiceTurns : turn[t] # "permission"
        BY <3>1
      <4>4. ~hasty' => \A t \in VoiceTurns : turn'[t] \notin {"permission", "capturing"}
        BY <3>5, <4>2, <4>3 DEF OneIsLive
      <4> QED BY <3>1, <4>1, <4>2, <4>4 DEF OneIsLive, Live
    <3> QED BY <1>0, <2>1, <3>4, <3>6 DEF VoiceInv
  <2> QED BY <2>2, <2>3
<1>7. CASE Cancel
  <2>1. Aborted \in [VoiceTurns -> TurnPlaces]
    BY <1>0 DEF Aborted, TurnsInv, TurnPlaces, Resting
  <2>2. Silence(Aborted) /\ aborter' = NoTurn /\ (left' <=> (left \/ \E t \in VoiceTurns : turn'[t] \notin Resting))
    BY <1>7 DEF Cancel, Leaves
  <2>3. TurnsInv'
    BY <1>0, <2>1, <2>2, SilenceKeeps DEF TurnsInv
  <2>4. ~left' => OneIsLive'
    BY <2>2 DEF OneIsLive, Live, Resting
  <2> QED BY <2>3, <2>4 DEF VoiceInv
<1>8. CASE Continuous
  <2>1. /\ UNCHANGED <<status, isListening, turn, activeSTT, activeTTS, aborter, left, hasty>>
        /\ (processing' <=> status \in {"transcribing", "thinking", "speaking"})
    BY <1>8 DEF Continuous, globalVars
  <2>2. OneIsLive => OneIsLive'
    BY <2>1 DEF OneIsLive, Live
  <2> QED BY <1>0, <2>1, <2>2 DEF VoiceInv, TurnsInv
<1>9. CASE NewConversation \/ UNCHANGED voiceVars
  <2>1. UNCHANGED <<status, isListening, processing, turn, activeSTT, activeTTS, aborter, left, hasty>>
    BY <1>9 DEF NewConversation, voiceVars, globalVars
  <2> QED BY <1>0, <2>1 DEF VoiceInv, TurnsInv, OneIsLive, Live
<1>10. ASSUME NEW t \in VoiceTurns, Excused(t) PROVE VoiceInv'
  <2>1. /\ turn' = [turn EXCEPT ![t] = "over"] /\ UNCHANGED <<activeSTT, activeTTS, aborter>>
        /\ left' <=> (left \/ \E u \in VoiceTurns : turn'[u] \notin Resting)
    BY <1>10 DEF Excused, Leaves, globalVars
  <2>2. TurnsInv'
    BY <1>0, <2>1 DEF TurnsInv, TurnPlaces, Resting
  <2>3. ~left' => OneIsLive'
    BY <2>1 DEF OneIsLive, Live, Resting
  <2> QED BY <2>2, <2>3 DEF VoiceInv
<1> QED BY <1>1, <1>2, <1>3, <1>4, <1>5, <1>6, <1>7, <1>8, <1>9, <1>10 DEF VoiceNext, Awaited

LEMMA VoiceBegins == ASSUME VoiceInit PROVE VoiceInv
<1>1. \A t \in VoiceTurns : turn[t] = "unused"
  BY DEF VoiceInit
<1>2. TurnsInv
  BY ATurn DEF VoiceInit, TurnsInv, TurnPlaces, Resting
<1> QED BY <1>1, <1>2 DEF VoiceInv, OneIsLive, Live, Resting

\* The inductive invariant of the voice page.
THEOREM VoiceInvariant == VoiceSpec => []VoiceInv
  BY VoiceBegins, VoiceStep, PTL DEF VoiceSpec

LEMMA TurnsAreOne == ASSUME VoiceInv PROVE OneTurnUnlessLeft
<1> SUFFICES ASSUME TurnsInv, OneIsLive PROVE OneTurnUnlessLeft
  BY DEF VoiceInv, OneTurnUnlessLeft
<1> DEFINE S == {v \in VoiceTurns : turn[v] \notin Resting}
<1>1. \A t, u \in S : t = u
  BY DEF OneIsLive, Live
<1>2. Cardinality(S) <= 1
  <2> HIDE DEF S
  <2>1. CASE S = {}
    BY <2>1, FS_EmptySet
  <2>2. ASSUME NEW t \in S PROVE Cardinality(S) <= 1
    <3>1. S = {t}
      BY <1>1, <2>2
    <3>2. Cardinality({t}) = 1
      BY FS_Singleton
    <3> QED BY <3>1, <3>2
  <2> QED BY <2>1, <2>2
<1> QED BY <1>2 DEF OneTurnUnlessLeft, OneIsLive

\* One turn at a time unless the page was made idle over one that goes on, and the
\* button stops what records:
\* for any number of turns and any providers.
THEOREM OneTurn == VoiceSpec => []OneTurnUnlessLeft
<1>1. VoiceInv => OneTurnUnlessLeft
  BY TurnsAreOne
<1> QED BY <1>1, VoiceInvariant, PTL

(***************************************************************************)
(* The queues of the memory plugin.                                        *)
(***************************************************************************)
\* An execution is in a queue once, and until its memories are told; arrays, and who
\* holds them, are of one session.
QueuesFit ==
  /\ \A e \in Executions : execution[e] \in {"unused", "retrieving"} => e \notin injected
  /\ \A e \in Executions : e \notin injected => queue[e] = <<>> /\ told[e] = <<>>
  /\ \A e \in Executions : Len(told[e]) <= 1
  /\ \A q \in Executions : \A i \in 1..Len(queue[q]) :
       LET e == queue[q][i] IN e \in injected /\ told[e] = <<>> /\ inSession[e] = inSession[q]
  /\ \A p, q \in Executions : \A i \in 1..Len(queue[p]), j \in 1..Len(queue[q]) :
       queue[p][i] = queue[q][j] => p = q /\ i = j
  /\ \A s \in ToolSessions :
       pendingToolFeedback[s] # NoQueue => pendingToolFeedback[s] \in injected /\ inSession[pendingToolFeedback[s]] = s
  /\ \A e \in Executions : execution[e] = "telling" => holds[e] \in injected /\ inSession[holds[e]] = inSession[e]

Active(e) == execution[e] \in {"retrieving", "running", "telling"}

\* The executions of s take turns.
TakeTurns(s) == \A d, e \in Executions : inSession[d] = s /\ inSession[e] = s /\ Active(d) /\ Active(e) => d = e

\* Then an execution that was injected has the only array, until it is told.
Exact(s) ==
  /\ (\A e \in Executions : inSession[e] = s => ~Active(e)) => pendingToolFeedback[s] = NoQueue
  /\ \A e \in Executions : inSession[e] = s =>
       /\ told[e] \in {<<>>, <<e>>}
       /\ execution[e] = "over" /\ e \in injected => told[e] = <<e>>
       /\ execution[e] = "retrieving" => pendingToolFeedback[s] = NoQueue
       /\ execution[e] = "running" /\ e \notin injected => pendingToolFeedback[s] = NoQueue
       /\ execution[e] = "running" /\ e \in injected => pendingToolFeedback[s] = e /\ queue[e] = <<e>>
       /\ execution[e] = "telling" => holds[e] = e /\ queue[e] = <<>> /\ told[e] = <<e>>

\* And after the session nothing is left, unless a before hook was outrun.
Gone(s) ==
  /\ pendingToolFeedback[s] = NoQueue
  /\ \A e \in Executions : inSession[e] = s =>
       execution[e] # "retrieving" /\ (execution[e] = "telling" => queue[holds[e]] = <<>>)

SessionsFit ==
  \A s \in ToolSessions \ overlapped :
    TakeTurns(s) /\ (s \in known => Exact(s)) /\ (s \notin known \cup outrun => Gone(s))

ToolInv == ToolTypeOK /\ QueuesFit /\ SessionsFit

LEMMA SomeExecution == Executions \subseteq 0..MaxExecutions /\ NoQueue \in 0..MaxExecutions /\ NoQueue \notin Executions
                       /\ \A n \in 0..MaxExecutions : n # NoQueue => n \in Executions
  BY ExecutionsAssumption DEF Executions, NoQueue

LEMMA ToolTypeStep == ASSUME ToolInv, [ToolNext]_toolVars PROVE ToolTypeOK'
<1> USE SomeExecution
<1>0. ToolTypeOK /\ QueuesFit
  BY DEF ToolInv
<1>1. ASSUME NEW e \in Executions, Before(e) PROVE ToolTypeOK'
  <2>1. execution' \in [Executions -> {"unused", "retrieving", "running", "telling", "over"}]
    BY <1>0, <1>1 DEF Before, ToolTypeOK
  <2>2. overlapped' \subseteq ToolSessions
    <3>1. inSession[e] \in ToolSessions /\ overlapped \subseteq ToolSessions
      BY <1>0 DEF ToolTypeOK
    <3>2. overlapped' = overlapped \/ overlapped' = overlapped \cup {inSession[e]}
      BY <1>1 DEF Before
    <3> QED BY <3>1, <3>2
  <2>3. UNCHANGED <<known, inSession, injected, holds, pendingToolFeedback, queue, told, outrun>>
    BY <1>1 DEF Before
  <2> QED BY <1>0, <2>1, <2>2, <2>3 DEF ToolTypeOK
<1>2. ASSUME NEW e \in Executions, Inject(e) PROVE ToolTypeOK'
  <2>1. execution' \in [Executions -> {"unused", "retrieving", "running", "telling", "over"}]
        /\ UNCHANGED <<known, inSession, holds, told, overlapped, outrun>>
    BY <1>0, <1>2 DEF Inject, ToolTypeOK
  <2>2. CASE UNCHANGED <<injected, queue, pendingToolFeedback>>
    BY <1>0, <2>1, <2>2 DEF ToolTypeOK
  <2>3. CASE ~UNCHANGED <<injected, queue, pendingToolFeedback>>
    <3>1. PICK q \in Executions :
            /\ injected' = injected \cup {e} /\ queue' = [queue EXCEPT ![q] = Append(@, e)]
            /\ pendingToolFeedback' = [pendingToolFeedback EXCEPT ![inSession[e]] = q]
      BY <1>0, <1>2, <2>3 DEF Inject, ToolTypeOK
    <3>2. queue' \in [Executions -> Seq(Executions)]
      BY <1>0, <3>1 DEF ToolTypeOK
    <3>3. pendingToolFeedback' \in [ToolSessions -> 0..MaxExecutions] /\ injected' \subseteq Executions
      BY <1>0, <3>1 DEF ToolTypeOK
    <3> QED BY <1>0, <2>1, <3>2, <3>3 DEF ToolTypeOK
  <2> QED BY <2>2, <2>3
<1>3. ASSUME NEW e \in Executions, After(e) PROVE ToolTypeOK'
  <2>1. execution' \in [Executions -> {"unused", "retrieving", "running", "telling", "over"}]
        /\ UNCHANGED <<known, inSession, injected, overlapped, outrun>>
    BY <1>0, <1>3 DEF After, ToolTypeOK
  <2>2. CASE UNCHANGED <<holds, told, queue>>
    <3>1. pendingToolFeedback' = pendingToolFeedback
          \/ pendingToolFeedback' = [pendingToolFeedback EXCEPT ![inSession[e]] = NoQueue]
      BY <1>3 DEF After
    <3>2. pendingToolFeedback' \in [ToolSessions -> 0..MaxExecutions]
      BY <1>0, <3>1 DEF ToolTypeOK
    <3> QED BY <1>0, <2>1, <2>2, <3>2 DEF ToolTypeOK
  <2>3. CASE ~UNCHANGED <<holds, told, queue>>
    <3> DEFINE q == pendingToolFeedback[inSession[e]]
    <3>1. /\ q # NoQueue /\ queue[q] # <<>> /\ holds' = [holds EXCEPT ![e] = q]
          /\ told' = [told EXCEPT ![Head(queue[q])] = Append(@, e)]
          /\ queue' = [queue EXCEPT ![q] = Tail(queue[q])] /\ UNCHANGED pendingToolFeedback
      BY <1>3, <2>3 DEF After, Shifted
    <3>2. q \in Executions
      BY <1>0, <3>1 DEF ToolTypeOK
    <3>3. queue[q] \in Seq(Executions) /\ Head(queue[q]) \in Executions /\ Tail(queue[q]) \in Seq(Executions)
      BY <1>0, <3>1, <3>2, HeadTailProperties DEF ToolTypeOK
    <3> HIDE DEF q
    <3>4. told' \in [Executions -> Seq(Executions)]
      <4>1. Append(told[Head(queue[q])], e) \in Seq(Executions)
        BY <1>0, <3>3, AppendProperties DEF ToolTypeOK
      <4> QED BY <1>0, <3>1, <4>1 DEF ToolTypeOK
    <3>6. queue' \in [Executions -> Seq(Executions)]
      BY <1>0, <3>1, <3>3 DEF ToolTypeOK
    <3>5. holds' \in [Executions -> 0..MaxExecutions]
      BY <1>0, <3>1, <3>2 DEF ToolTypeOK
    <3> QED BY <1>0, <2>1, <3>1, <3>4, <3>5, <3>6 DEF ToolTypeOK
  <2> QED BY <2>2, <2>3
<1>4. ASSUME NEW e \in Executions, Told(e) PROVE ToolTypeOK'
  <2>1. execution' \in [Executions -> {"unused", "retrieving", "running", "telling", "over"}]
        /\ UNCHANGED <<known, inSession, injected, holds, queue, told, overlapped, outrun>>
    BY <1>0, <1>4 DEF Told, ToolTypeOK
  <2>2. pendingToolFeedback' \in [ToolSessions -> 0..MaxExecutions]
    <3>1. \E n \in {NoQueue, holds[e]} : pendingToolFeedback' = [pendingToolFeedback EXCEPT ![inSession[e]] = n]
      BY <1>4 DEF Told
    <3> QED BY <1>0, <3>1 DEF ToolTypeOK
  <2> QED BY <1>0, <2>1, <2>2 DEF ToolTypeOK
<1>5. ASSUME NEW s \in ToolSessions, Deleted(s) PROVE ToolTypeOK'
  <2>1. known' \subseteq ToolSessions /\ outrun' \subseteq ToolSessions
        /\ pendingToolFeedback' \in [ToolSessions -> 0..MaxExecutions]
    BY <1>0, <1>5 DEF Deleted, ToolTypeOK
  <2>2. UNCHANGED <<execution, inSession, injected, holds, queue, told, overlapped>>
    BY <1>5 DEF Deleted
  <2> QED BY <1>0, <2>1, <2>2 DEF ToolTypeOK
<1>6. CASE UNCHANGED toolVars
  BY <1>0, <1>6 DEF toolVars, ToolTypeOK
<1> QED BY <1>1, <1>2, <1>3, <1>4, <1>5, <1>6 DEF ToolNext

\* A step that leaves the executions and the array of a session alone.
LEMMA OtherSession ==
  ASSUME ToolTypeOK, QueuesFit, NEW s \in ToolSessions, UNCHANGED inSession,
         pendingToolFeedback'[s] = pendingToolFeedback[s],
         \A e \in Executions : inSession[e] = s =>
           /\ execution'[e] = execution[e] /\ told'[e] = told[e] /\ holds'[e] = holds[e] /\ queue'[e] = queue[e]
           /\ (e \in injected' <=> e \in injected)
  PROVE  (TakeTurns(s) => TakeTurns(s)') /\ (Exact(s) => Exact(s)') /\ (Gone(s) => Gone(s)')
<1>1. TakeTurns(s) => TakeTurns(s)'
  BY DEF TakeTurns, Active
<1>2. Exact(s) => Exact(s)'
  BY DEF Exact, Active
<1>3. Gone(s) => Gone(s)'
  <2>1. \A e \in Executions : inSession[e] = s /\ execution[e] = "telling" => queue'[holds[e]] = queue[holds[e]]
    BY DEF QueuesFit, ToolTypeOK
  <2> QED BY <2>1 DEF Gone
<1> QED BY <1>1, <1>2, <1>3

\* The action is about session s: the others stay as they fit.
LEMMA OneSession ==
  ASSUME ToolTypeOK, QueuesFit, SessionsFit, NEW s \in ToolSessions, UNCHANGED inSession,
         overlapped \subseteq overlapped', known' \subseteq known, known \subseteq known' \cup {s}, outrun \subseteq outrun',
         \A r \in ToolSessions \ {s} : pendingToolFeedback'[r] = pendingToolFeedback[r],
         \A e \in Executions : inSession[e] # s =>
           /\ execution'[e] = execution[e] /\ told'[e] = told[e] /\ holds'[e] = holds[e] /\ queue'[e] = queue[e]
           /\ (e \in injected' <=> e \in injected),
         s \notin overlapped' =>
           TakeTurns(s)' /\ (s \in known' => Exact(s)') /\ (s \notin known' \cup outrun' => Gone(s)')
  PROVE  SessionsFit'
<1> SUFFICES ASSUME NEW r \in ToolSessions \ overlapped', r # s
             PROVE  TakeTurns(r)' /\ (r \in known' => Exact(r)') /\ (r \notin known' \cup outrun' => Gone(r)')
  BY DEF SessionsFit
<1>1. TakeTurns(r) /\ (r \in known => Exact(r)) /\ (r \notin known \cup outrun => Gone(r))
  BY DEF SessionsFit
<1>2. (TakeTurns(r) => TakeTurns(r)') /\ (Exact(r) => Exact(r)') /\ (Gone(r) => Gone(r)')
  BY OtherSession
<1> QED BY <1>1, <1>2

LEMMA BeforeKeeps == ASSUME ToolInv, NEW e \in Executions, Before(e) PROVE QueuesFit' /\ SessionsFit'
<1>0. ToolTypeOK /\ QueuesFit /\ SessionsFit
  BY DEF ToolInv
<1>s. PICK s \in ToolSessions : s = inSession[e]
  BY <1>0 DEF ToolTypeOK
<1>1. /\ execution[e] = "unused" /\ execution'[e] \in {"retrieving", "running"}
      /\ execution'[e] = "retrieving" => inSession[e] \in known
      /\ \A d \in Executions \ {e} : execution'[d] = execution[d]
      /\ UNCHANGED <<known, inSession, injected, holds, pendingToolFeedback, queue, told, outrun>>
  BY <1>s, <1>0 DEF Before, ToolTypeOK
<1>2. QueuesFit'
  BY <1>s, <1>0, <1>1 DEF QueuesFit
<1>3. s \in ToolSessions
  BY <1>0 DEF ToolTypeOK
<1>4. overlapped \subseteq overlapped'
  BY <1>s DEF Before
<1>5. s \notin overlapped' => s \notin overlapped /\ \A d \in Executions : inSession[d] = s => ~Active(d)
  BY <1>s DEF Before, Underway, Active
<1>6. e \notin injected /\ told[e] = <<>>
  BY <1>s, <1>0, <1>1 DEF QueuesFit
<1>7. ASSUME s \notin overlapped' PROVE TakeTurns(s)' /\ (s \in known' => Exact(s)') /\ (s \notin known' \cup outrun' => Gone(s)')
  <2>1. (s \in known => Exact(s)) /\ (s \notin known \cup outrun => Gone(s))
    BY <1>s, <1>0, <1>3, <1>5, <1>7 DEF SessionsFit
  <2>2. TakeTurns(s)'
    BY <1>s, <1>1, <1>5, <1>7 DEF TakeTurns, Active
  <2>3. s \in known' => Exact(s)'
    BY <1>s, <1>1, <1>5, <1>6, <1>7, <2>1 DEF Exact, Active
  <2>4. s \notin known' \cup outrun' => Gone(s)'
    BY <1>s, <1>1, <1>5, <1>7, <2>1 DEF Gone, Active
  <2> QED BY <2>2, <2>3, <2>4
<1>8. \A d \in Executions : inSession[d] # s =>
        /\ execution'[d] = execution[d] /\ told'[d] = told[d] /\ holds'[d] = holds[d] /\ queue'[d] = queue[d]
        /\ (d \in injected' <=> d \in injected)
  BY <1>s, <1>1
<1>9. SessionsFit'
  BY <1>s, <1>0, <1>1, <1>3, <1>4, <1>7, <1>8, OneSession
<1> QED BY <1>s, <1>2, <1>9

LEMMA InjectKeeps == ASSUME ToolInv, NEW e \in Executions, Inject(e) PROVE QueuesFit' /\ SessionsFit'
<1>0. ToolTypeOK /\ QueuesFit /\ SessionsFit
  BY DEF ToolInv
<1>s. PICK s \in ToolSessions : s = inSession[e]
  BY <1>0 DEF ToolTypeOK
<1>1. /\ execution[e] = "retrieving" /\ execution'[e] = "running"
      /\ \A d \in Executions \ {e} : execution'[d] = execution[d]
      /\ UNCHANGED <<known, inSession, holds, told, overlapped, outrun>>
  BY <1>s, <1>0 DEF Inject, ToolTypeOK
<1>2. s \in ToolSessions /\ e \notin injected /\ told[e] = <<>> /\ queue[e] = <<>>
  BY <1>s, <1>0, <1>1 DEF QueuesFit, ToolTypeOK
<1>3. ASSUME s \notin overlapped
      PROVE  /\ \A d \in Executions \ {e} : inSession[d] = s => ~Active(d)
             /\ s \in known => Exact(s)
             /\ s \in known \cup outrun
  BY <1>s, <1>0, <1>1, <1>2, <1>3 DEF SessionsFit, TakeTurns, Gone, Active
<1>4. CASE UNCHANGED <<injected, queue, pendingToolFeedback>>
  <2>1. QueuesFit'
    BY <1>s, <1>0, <1>1, <1>4 DEF QueuesFit
  <2>2. s \notin overlapped => TakeTurns(s)' /\ (s \in known' => Exact(s)') /\ s \in known' \cup outrun'
    BY <1>s, <1>1, <1>2, <1>3, <1>4 DEF TakeTurns, Exact, Active
  <2>3. SessionsFit'
    BY <1>s, <1>0, <1>1, <1>2, <1>4, <2>2, OneSession
  <2> QED BY <2>1, <2>3
<1>5. CASE ~UNCHANGED <<injected, queue, pendingToolFeedback>>
  <2> DEFINE q == IF pendingToolFeedback[s] = NoQueue THEN e ELSE pendingToolFeedback[s]
  <2>1. /\ injected' = injected \cup {e} /\ queue' = [queue EXCEPT ![q] = Append(@, e)]
        /\ pendingToolFeedback' = [pendingToolFeedback EXCEPT ![s] = q]
    BY <1>s, <1>5 DEF Inject
  <2>2. q \in Executions /\ inSession[q] = s /\ q \in injected'
    BY <1>s, <1>0, <1>2, <2>1, SomeExecution DEF QueuesFit, ToolTypeOK
  <2>3. s \notin overlapped /\ s \in known => q = e
    BY <1>s, <1>1, <1>3 DEF Exact
  <2> HIDE DEF q
  <2>4. /\ queue'[q] = Append(queue[q], e) /\ \A p \in Executions \ {q} : queue'[p] = queue[p]
        /\ pendingToolFeedback'[s] = q /\ \A r \in ToolSessions \ {s} : pendingToolFeedback'[r] = pendingToolFeedback[r]
    BY <1>s, <1>0, <1>2, <2>1, <2>2 DEF ToolTypeOK
  <2>5. queue[q] \in Seq(Executions)
    BY <1>s, <1>0, <2>2 DEF ToolTypeOK
  <2>6. /\ Len(queue'[q]) = Len(queue[q]) + 1 /\ queue'[q][Len(queue[q]) + 1] = e
        /\ \A i \in 1..Len(queue[q]) : queue'[q][i] = queue[q][i]
    BY <2>4, <2>5, AppendProperties
  <2>7. \A p \in Executions : \A i \in 1..Len(queue[p]) : queue[p][i] # e
    BY <1>s, <1>0, <1>2 DEF QueuesFit
  <2>8. QueuesFit'
    <3>1. \A d \in Executions : execution'[d] \in {"unused", "retrieving"} => d \notin injected'
      BY <1>s, <1>0, <1>1, <2>1 DEF QueuesFit
    <3>2. \A d \in Executions : d \notin injected' => queue'[d] = <<>> /\ told'[d] = <<>>
      BY <1>s, <1>0, <1>1, <2>1, <2>2, <2>4 DEF QueuesFit
    <3>3. \A p \in Executions : \A i \in 1..Len(queue'[p]) :
            \/ i \in 1..Len(queue[p]) /\ queue'[p][i] = queue[p][i]
            \/ p = q /\ i = Len(queue[q]) + 1 /\ queue'[p][i] = e
      BY <2>4, <2>5, <2>6
    <3>4. \A p \in Executions : \A i \in 1..Len(queue'[p]) :
            queue'[p][i] \in injected' /\ told'[queue'[p][i]] = <<>> /\ inSession'[queue'[p][i]] = inSession'[p]
      BY <1>s, <1>0, <1>1, <1>2, <2>1, <2>2, <3>3 DEF QueuesFit
    <3>5. \A p, r \in Executions : \A i \in 1..Len(queue'[p]), j \in 1..Len(queue'[r]) :
            queue'[p][i] = queue'[r][j] => p = r /\ i = j
      <4> SUFFICES ASSUME NEW p \in Executions, NEW r \in Executions, NEW i \in 1..Len(queue'[p]), NEW j \in 1..Len(queue'[r]),
                          queue'[p][i] = queue'[r][j]
                   PROVE  p = r /\ i = j
        OBVIOUS
      <4>1. CASE i \in 1..Len(queue[p]) /\ queue'[p][i] = queue[p][i] /\ j \in 1..Len(queue[r]) /\ queue'[r][j] = queue[r][j]
        <5>1. queue[p][i] = queue[r][j]
          BY <4>1
        <5> QED BY <1>0, <4>1, <5>1 DEF QueuesFit
      <4>2. CASE i \in 1..Len(queue[p]) /\ queue'[p][i] = queue[p][i] /\ queue'[r][j] = e
        BY <2>7, <4>2
      <4>3. CASE j \in 1..Len(queue[r]) /\ queue'[r][j] = queue[r][j] /\ queue'[p][i] = e
        BY <2>7, <4>3
      <4>4. CASE p = q /\ i = Len(queue[q]) + 1 /\ r = q /\ j = Len(queue[q]) + 1
        BY <4>4
      <4> QED BY <3>3, <4>1, <4>2, <4>3, <4>4
    <3>6. \A r \in ToolSessions : pendingToolFeedback'[r] # NoQueue =>
            pendingToolFeedback'[r] \in injected' /\ inSession'[pendingToolFeedback'[r]] = r
      BY <1>s, <1>0, <1>1, <2>1, <2>2, <2>4 DEF QueuesFit
    <3>7. \A d \in Executions : execution'[d] = "telling" => holds'[d] \in injected' /\ inSession'[holds'[d]] = inSession'[d]
      BY <1>s, <1>0, <1>1, <2>1 DEF QueuesFit
    <3>8. \A d \in Executions : Len(told'[d]) <= 1
      BY <1>s, <1>0, <1>1 DEF QueuesFit
    <3> QED BY <3>1, <3>2, <3>4, <3>5, <3>6, <3>7, <3>8 DEF QueuesFit
  <2>9. ASSUME s \notin overlapped PROVE TakeTurns(s)' /\ (s \in known' => Exact(s)') /\ s \in known' \cup outrun'
    <3>1. TakeTurns(s)'
      BY <1>s, <1>1, <1>3, <2>9 DEF TakeTurns, Active
    <3>2. ASSUME s \in known PROVE Exact(s)'
      <4>1. q = e /\ queue'[e] = <<e>> /\ pendingToolFeedback'[s] = e
        BY <1>s, <1>2, <2>3, <2>4, <2>9, <3>2
      <4>2. \A d \in Executions \ {e} : inSession[d] = s => /\ ~Active(d)' /\ told'[d] = told[d] /\ (d \in injected' <=> d \in injected)
        BY <1>s, <1>1, <1>3, <2>1, <2>9 DEF Active
      <4>3. inSession' = inSession /\ told'[e] = <<>> /\ inSession[e] = s
        BY <1>s, <1>1, <1>2
      <4>4. \A d \in Executions \ {e} : inSession[d] = s => ~Active(d) /\ execution'[d] = execution[d]
        BY <1>1, <1>3, <2>9
      <4>5. execution'[e] = "running" /\ e \in injected' /\ e \in Executions
        BY <1>1, <2>1
      <4>6. \A d \in Executions \ {e} : inSession'[d] = s =>
              told'[d] \in {<<>>, <<d>>} /\ (execution'[d] = "over" /\ d \in injected' => told'[d] = <<d>>)
        BY <1>3, <2>9, <3>2, <4>2, <4>3, <4>4 DEF Exact
      <4> QED BY <4>1, <4>2, <4>3, <4>5, <4>6 DEF Exact, Active
    <3> QED BY <1>s, <1>1, <1>3, <2>9, <3>1, <3>2
  <2>10. \A d \in Executions : inSession[d] # s =>
          /\ execution'[d] = execution[d] /\ told'[d] = told[d] /\ holds'[d] = holds[d] /\ queue'[d] = queue[d]
          /\ (d \in injected' <=> d \in injected)
    BY <1>s, <1>1, <2>1, <2>2, <2>4
  <2>11. SessionsFit'
    BY <1>s, <1>0, <1>1, <1>2, <2>4, <2>9, <2>10, OneSession
  <2> QED BY <2>8, <2>11
<1> QED BY <1>4, <1>5

LEMMA AfterKeeps == ASSUME ToolInv, NEW e \in Executions, After(e) PROVE QueuesFit' /\ SessionsFit'
<1>0. ToolTypeOK /\ QueuesFit /\ SessionsFit
  BY DEF ToolInv
<1>s. PICK s \in ToolSessions : s = inSession[e]
  BY <1>0 DEF ToolTypeOK
<1> DEFINE q == pendingToolFeedback[s]
<1>1. s \in ToolSessions /\ q \in 0..MaxExecutions
  BY <1>0 DEF ToolTypeOK
<1>2. execution[e] = "running" /\ UNCHANGED <<known, inSession, injected, overlapped, outrun>>
      /\ \A d \in Executions \ {e} : execution'[d] = execution[d]
  BY <1>s, <1>0 DEF After, ToolTypeOK
<1>3. ASSUME s \notin overlapped
      PROVE  /\ \A d \in Executions \ {e} : inSession[d] = s => ~Active(d)
             /\ s \in known => Exact(s)
             /\ s \notin known \cup outrun => Gone(s)
  BY <1>s, <1>0, <1>1, <1>2, <1>3 DEF SessionsFit, TakeTurns, Active
<1>4. CASE s \in known /\ q # NoQueue /\ queue[q] # <<>>
  <2> DEFINE h == Head(queue[q])
  <2>1. q \in Executions /\ inSession[q] = s /\ q \in injected /\ queue[q] \in Seq(Executions)
    BY <1>s, <1>0, <1>1, <1>4, SomeExecution DEF QueuesFit, ToolTypeOK
  <2>2. /\ h \in Executions /\ 1 \in 1..Len(queue[q]) /\ h = queue[q][1]
        /\ Tail(queue[q]) \in Seq(Executions) /\ Len(Tail(queue[q])) = Len(queue[q]) - 1
        /\ \A i \in 1..Len(Tail(queue[q])) : Tail(queue[q])[i] = queue[q][i + 1] /\ i + 1 \in 1..Len(queue[q])
    BY <1>4, <2>1, HeadTailProperties
  <2>3. h \in injected /\ told[h] = <<>> /\ inSession[h] = s
    BY <1>s, <1>0, <2>1, <2>2 DEF QueuesFit
  <2>4. /\ execution' = [execution EXCEPT ![e] = "telling"] /\ holds' = [holds EXCEPT ![e] = q]
        /\ told' = [told EXCEPT ![h] = Append(@, e)] /\ queue' = [queue EXCEPT ![q] = Tail(queue[q])]
        /\ UNCHANGED pendingToolFeedback
    BY <1>s, <1>4 DEF After, Shifted
  <2> HIDE DEF q, h
  <2>5. /\ execution'[e] = "telling" /\ holds'[e] = q /\ \A d \in Executions \ {e} : holds'[d] = holds[d]
        /\ told'[h] = <<e>> /\ \A d \in Executions \ {h} : told'[d] = told[d]
        /\ queue'[q] = Tail(queue[q]) /\ \A p \in Executions \ {q} : queue'[p] = queue[p]
    BY <1>s, <1>0, <2>1, <2>2, <2>3, <2>4 DEF ToolTypeOK
  <2>6. \A p \in Executions : \A i \in 1..Len(queue'[p]) : \E j \in 1..Len(queue[p]) :
          /\ queue'[p][i] = queue[p][j] /\ j = (IF p = q THEN i + 1 ELSE i) /\ queue[p][j] # h
    <3> SUFFICES ASSUME NEW p \in Executions, NEW i \in 1..Len(queue'[p])
                 PROVE  \E j \in 1..Len(queue[p]) :
                          /\ queue'[p][i] = queue[p][j] /\ j = (IF p = q THEN i + 1 ELSE i) /\ queue[p][j] # h
      OBVIOUS
    <3>1. CASE p = q
      <4>0. queue'[p] = Tail(queue[q]) /\ Len(Tail(queue[q])) \in Nat
        BY <2>2, <2>5, <3>1, LenProperties
      <4>1. i + 1 \in 1..Len(queue[q]) /\ queue'[q][i] = queue[q][i + 1] /\ i + 1 # 1
        BY <2>2, <3>1, <4>0
      <4>2. queue[q][i + 1] # queue[q][1]
        BY <1>s, <1>0, <2>1, <2>2, <4>1 DEF QueuesFit
      <4> QED BY <2>2, <3>1, <4>1, <4>2
    <3>2. CASE p # q
      <4>1. queue'[p] = queue[p]
        BY <2>5, <3>2
      <4>2. queue[p][i] # queue[q][1]
        BY <1>s, <1>0, <2>1, <2>2, <3>2, <4>1 DEF QueuesFit
      <4> QED BY <2>2, <3>2, <4>1, <4>2
    <3> QED BY <3>1, <3>2
  <2>7. QueuesFit'
    <3>1. \A d \in Executions : execution'[d] \in {"unused", "retrieving"} => d \notin injected'
      BY <1>s, <1>0, <1>2, <2>5 DEF QueuesFit
    <3>2. \A d \in Executions : d \notin injected' => queue'[d] = <<>> /\ told'[d] = <<>>
      BY <1>s, <1>0, <1>2, <2>1, <2>3, <2>5 DEF QueuesFit
    <3>3. \A d \in Executions : Len(told'[d]) <= 1
      <4>1. Len(<<e>>) = 1
        OBVIOUS
      <4>2. \A d \in Executions : told'[d] = told[d] \/ told'[d] = <<e>>
        BY <2>5
      <4> SUFFICES ASSUME NEW d \in Executions PROVE Len(told'[d]) <= 1
        OBVIOUS
      <4>3. CASE told'[d] = told[d]
        BY <1>0, <4>3 DEF QueuesFit
      <4>4. CASE told'[d] = <<e>>
        BY <4>1, <4>4
      <4> QED BY <4>2, <4>3, <4>4
    <3>4. \A p \in Executions : \A i \in 1..Len(queue'[p]) :
            queue'[p][i] \in injected' /\ told'[queue'[p][i]] = <<>> /\ inSession'[queue'[p][i]] = inSession'[p]
      <4> SUFFICES ASSUME NEW p \in Executions, NEW i \in 1..Len(queue'[p])
                   PROVE  queue'[p][i] \in injected' /\ told'[queue'[p][i]] = <<>> /\ inSession'[queue'[p][i]] = inSession'[p]
        OBVIOUS
      <4>1. PICK j \in 1..Len(queue[p]) : queue'[p][i] = queue[p][j] /\ queue[p][j] # h
        BY <2>6
      <4>2. queue[p][j] \in injected /\ told[queue[p][j]] = <<>> /\ inSession[queue[p][j]] = inSession[p]
        BY <1>0 DEF QueuesFit
      <4>3. queue[p][j] \in Executions
        BY <1>s, <1>0, <4>2 DEF ToolTypeOK
      <4> QED BY <1>s, <1>2, <2>5, <4>1, <4>2, <4>3
    <3>5. \A p, r \in Executions : \A i \in 1..Len(queue'[p]), j \in 1..Len(queue'[r]) :
            queue'[p][i] = queue'[r][j] => p = r /\ i = j
      <4> SUFFICES ASSUME NEW p \in Executions, NEW r \in Executions, NEW i \in 1..Len(queue'[p]), NEW j \in 1..Len(queue'[r]),
                          queue'[p][i] = queue'[r][j]
                   PROVE  p = r /\ i = j
        OBVIOUS
      <4>1. PICK k \in 1..Len(queue[p]) : queue'[p][i] = queue[p][k] /\ k = (IF p = q THEN i + 1 ELSE i)
        BY <2>6
      <4>2. PICK l \in 1..Len(queue[r]) : queue'[r][j] = queue[r][l] /\ l = (IF r = q THEN j + 1 ELSE j)
        BY <2>6
      <4>3. p = r /\ k = l
        <5>1. queue[p][k] = queue[r][l]
          BY <4>1, <4>2
        <5> QED BY <1>0, <5>1 DEF QueuesFit
      <4>4. Len(queue'[p]) \in Nat /\ Len(queue'[r]) \in Nat
        <5>1. \A t \in Executions : queue'[t] \in Seq(Executions)
          BY <1>0, <2>2, <2>5 DEF ToolTypeOK
        <5> QED BY <5>1, LenProperties
      <4>5. i \in Nat /\ j \in Nat
        BY <4>4
      <4> QED BY <4>1, <4>2, <4>3, <4>5
    <3>6. \A r \in ToolSessions : pendingToolFeedback'[r] # NoQueue =>
            pendingToolFeedback'[r] \in injected' /\ inSession'[pendingToolFeedback'[r]] = r
      BY <1>s, <1>0, <1>2, <2>4 DEF QueuesFit
    <3>7. \A d \in Executions : execution'[d] = "telling" => holds'[d] \in injected' /\ inSession'[holds'[d]] = inSession'[d]
      BY <1>s, <1>0, <1>2, <2>1, <2>5 DEF QueuesFit
    <3> QED BY <3>1, <3>2, <3>3, <3>4, <3>5, <3>6, <3>7 DEF QueuesFit
  <2>8. ASSUME s \notin overlapped PROVE TakeTurns(s)' /\ Exact(s)' /\ s \in known'
    <3>1. TakeTurns(s)'
      BY <1>s, <1>2, <1>3, <2>5, <2>8 DEF TakeTurns, Active
    <3>2. Exact(s) /\ inSession[e] = s
      BY <1>s, <1>3, <1>4, <2>8
    <3>3. q = e /\ queue[e] = <<e>>
      BY <1>s, <1>2, <1>4, <3>2 DEF Exact, q
    <3>4. h = e /\ Tail(queue[q]) = <<>>
      BY <3>3 DEF h
    <3>5. \A d \in Executions \ {e} : inSession[d] = s => ~Active(d)' /\ told'[d] = told[d]
      BY <1>s, <1>2, <1>3, <2>5, <2>8, <3>4 DEF Active
    <3>6. Exact(s)'
      BY <1>s, <1>2, <2>5, <3>2, <3>3, <3>4, <3>5 DEF Exact, Active
    <3> QED BY <1>s, <1>2, <1>4, <3>1, <3>6
  <2>9. \A d \in Executions : inSession[d] # s =>
          /\ execution'[d] = execution[d] /\ told'[d] = told[d] /\ holds'[d] = holds[d] /\ queue'[d] = queue[d]
          /\ (d \in injected' <=> d \in injected)
    BY <1>s, <1>2, <2>1, <2>3, <2>5
  <2>10. SessionsFit'
    BY <1>s, <1>0, <1>1, <1>2, <2>4, <2>8, <2>9, OneSession
  <2> QED BY <2>7, <2>10
<1>5. CASE ~(s \in known /\ q # NoQueue /\ queue[q] # <<>>)
  <2>1. /\ execution' = [execution EXCEPT ![e] = "over"] /\ UNCHANGED <<holds, told, queue>>
        /\ pendingToolFeedback' = IF s \in known THEN [pendingToolFeedback EXCEPT ![s] = NoQueue] ELSE pendingToolFeedback
    BY <1>s, <1>5 DEF After
  <2>2. /\ execution'[e] = "over" /\ \A r \in ToolSessions \ {s} : pendingToolFeedback'[r] = pendingToolFeedback[r]
        /\ pendingToolFeedback'[s] = IF s \in known THEN NoQueue ELSE q
    BY <1>s, <1>0, <1>1, <2>1 DEF ToolTypeOK
  <2>3. QueuesFit'
    BY <1>s, <1>0, <1>1, <1>2, <2>1, <2>2 DEF QueuesFit
  <2>4. ASSUME s \notin overlapped
        PROVE TakeTurns(s)' /\ (s \in known' => Exact(s)') /\ (s \notin known' \cup outrun' => Gone(s)')
    <3>1. \A d \in Executions : inSession[d] = s => ~Active(d)'
      BY <1>s, <1>2, <1>3, <2>2, <2>4 DEF Active
    <3>2. TakeTurns(s)'
      BY <1>s, <1>2, <3>1 DEF TakeTurns
    <3>3. s \in known => e \notin injected
      <4> SUFFICES ASSUME s \in known, e \in injected PROVE FALSE
        OBVIOUS
      <4>1. q = e /\ queue[e] = <<e>>
        BY <1>s, <1>2, <1>3, <2>4 DEF Exact
      <4>2. <<e>> # <<>> /\ e # NoQueue
        BY SomeExecution
      <4> QED BY <1>5, <4>1, <4>2
    <3>4. s \in known' => Exact(s)'
      BY <1>s, <1>2, <1>3, <2>1, <2>2, <2>4, <3>1, <3>3 DEF Exact, Active
    <3>5. s \notin known' \cup outrun' => Gone(s)'
      BY <1>s, <1>2, <1>3, <2>1, <2>2, <2>4 DEF Gone
    <3> QED BY <3>2, <3>4, <3>5
  <2>5. \A d \in Executions : inSession[d] # s =>
          /\ execution'[d] = execution[d] /\ told'[d] = told[d] /\ holds'[d] = holds[d] /\ queue'[d] = queue[d]
          /\ (d \in injected' <=> d \in injected)
    BY <1>s, <1>2, <2>1
  <2> HIDE DEF q
  <2>6. SessionsFit'
    BY <1>s, <1>0, <1>1, <1>2, <2>2, <2>4, <2>5, OneSession
  <2> QED BY <2>3, <2>6
<1> QED BY <1>4, <1>5

LEMMA ToldKeeps == ASSUME ToolInv, NEW e \in Executions, Told(e) PROVE QueuesFit' /\ SessionsFit'
<1>0. ToolTypeOK /\ QueuesFit /\ SessionsFit
  BY DEF ToolInv
<1>s. PICK s \in ToolSessions : s = inSession[e]
  BY <1>0 DEF ToolTypeOK
<1>1. s \in ToolSessions
  BY <1>0 DEF ToolTypeOK
<1>2. /\ execution[e] = "telling" /\ execution'[e] = "over" /\ \A d \in Executions \ {e} : execution'[d] = execution[d]
      /\ UNCHANGED <<known, inSession, injected, holds, queue, told, overlapped, outrun>>
      /\ pendingToolFeedback'[s] = (IF queue[holds[e]] = <<>> THEN NoQueue ELSE holds[e])
      /\ \A r \in ToolSessions \ {s} : pendingToolFeedback'[r] = pendingToolFeedback[r]
  BY <1>s, <1>0, <1>1 DEF Told, ToolTypeOK
<1>3. holds[e] \in injected /\ inSession[holds[e]] = s
  BY <1>s, <1>0, <1>2 DEF QueuesFit
<1>4. QueuesFit'
  BY <1>s, <1>0, <1>2, <1>3 DEF QueuesFit
<1>5. ASSUME s \notin overlapped
      PROVE  TakeTurns(s)' /\ (s \in known' => Exact(s)') /\ (s \notin known' \cup outrun' => Gone(s)')
  <2>1. TakeTurns(s) /\ (s \in known => Exact(s)) /\ (s \notin known \cup outrun => Gone(s))
    BY <1>s, <1>0, <1>1, <1>5 DEF SessionsFit
  <2>2. \A d \in Executions : inSession[d] = s => ~Active(d)'
    BY <1>s, <1>2, <2>1 DEF TakeTurns, Active
  <2>3. TakeTurns(s)'
    BY <1>s, <1>2, <2>2 DEF TakeTurns
  <2>4. s \in known' => Exact(s)'
    BY <1>s, <1>2, <2>1, <2>2 DEF Exact, Active
  <2>5. s \notin known' \cup outrun' => Gone(s)'
    BY <1>s, <1>2, <2>1 DEF Gone
  <2> QED BY <2>3, <2>4, <2>5
<1>6. \A d \in Executions : inSession[d] # s =>
        /\ execution'[d] = execution[d] /\ told'[d] = told[d] /\ holds'[d] = holds[d] /\ queue'[d] = queue[d]
        /\ (d \in injected' <=> d \in injected)
  BY <1>s, <1>2
<1>7. SessionsFit'
  BY <1>s, <1>0, <1>1, <1>2, <1>5, <1>6, OneSession
<1> QED BY <1>4, <1>7

LEMMA DeletedKeeps == ASSUME ToolInv, NEW s \in ToolSessions, Deleted(s) PROVE QueuesFit' /\ SessionsFit'
<1>0. ToolTypeOK /\ QueuesFit /\ SessionsFit
  BY DEF ToolInv
<1>1. /\ s \in known /\ known' = known \ {s} /\ outrun \subseteq outrun'
      /\ UNCHANGED <<execution, inSession, injected, holds, queue, told, overlapped>>
      /\ pendingToolFeedback'[s] = NoQueue
      /\ \A r \in ToolSessions \ {s} : pendingToolFeedback'[r] = pendingToolFeedback[r]
  BY <1>0 DEF Deleted, ToolTypeOK
<1>2. QueuesFit'
  BY <1>0, <1>1 DEF QueuesFit
<1>3. s \notin outrun' => \A e \in Executions : inSession[e] = s => execution[e] # "retrieving"
  BY DEF Deleted, Underway
<1>4. ASSUME s \notin overlapped PROVE TakeTurns(s)' /\ (s \notin outrun' => Gone(s)')
  <2>1. TakeTurns(s) /\ Exact(s)
    BY <1>0, <1>1, <1>4 DEF SessionsFit
  <2> QED BY <1>1, <1>3, <2>1 DEF TakeTurns, Active, Exact, Gone
<1>5. SessionsFit'
  BY <1>0, <1>1, <1>4, OneSession
<1> QED BY <1>2, <1>5

LEMMA ToolBegins == ASSUME ToolInit PROVE ToolInv
<1>1. ToolTypeOK
  BY SomeExecution DEF ToolInit, ToolTypeOK
<1>2. \A e \in Executions : execution[e] = "unused" /\ queue[e] = <<>> /\ told[e] = <<>>
  BY DEF ToolInit
<1>3. injected = {} /\ known = ToolSessions /\ \A s \in ToolSessions : pendingToolFeedback[s] = NoQueue
  BY DEF ToolInit
<1>4. QueuesFit
  BY <1>2, <1>3 DEF QueuesFit
<1>5. SessionsFit
  BY <1>2, <1>3 DEF SessionsFit, TakeTurns, Exact, Active
<1> QED BY <1>1, <1>4, <1>5 DEF ToolInv

LEMMA ToolStep == ASSUME ToolInv, [ToolNext]_toolVars PROVE ToolInv'
<1>1. CASE UNCHANGED toolVars
  <2>1. QueuesFit'
    BY <1>1 DEF toolVars, ToolInv, QueuesFit
  <2>2. SessionsFit'
    BY <1>1 DEF toolVars, ToolInv, SessionsFit, TakeTurns, Exact, Gone, Active
  <2> QED BY <2>1, <2>2, ToolTypeStep DEF ToolInv
<1>2. CASE ToolNext
  <2>1. QueuesFit' /\ SessionsFit'
    BY <1>2, BeforeKeeps, InjectKeeps, AfterKeeps, ToldKeeps, DeletedKeeps DEF ToolNext
  <2> QED BY <2>1, ToolTypeStep DEF ToolInv
<1> QED BY <1>1, <1>2

\* The inductive invariant of the memory plugin's queues.
THEOREM ToolInvariant == ToolSpec => []ToolInv
  BY ToolBegins, ToolStep, PTL DEF ToolSpec

\* Memories are told one outcome at most, and unless executions that cannot be told
\* apart overlapped the one of the execution they were injected into; nothing is left
\* of an ended session but for an overlap or a hook that was outrun: for any number of
\* sessions and executions.
THEOREM FeedbackAlwaysFits == ToolSpec => []FeedbackFits
<1>1. ToolInv => FeedbackFits
  BY DEF ToolInv, ToolTypeOK, QueuesFit, SessionsFit, Exact, Gone, FeedbackFits
<1> QED BY <1>1, ToolInvariant, PTL

(***************************************************************************)
(* The setup wizard: what its tabs say at the end.                         *)
(***************************************************************************)
\* The setup is complete once the process went on, and then something is deployed
\* unless nothing was to be started; what is shown as running was up or waited for.
ServerFits ==
  /\ cli = "waiting" <=> ~setupComplete
  /\ setupComplete /\ ~deploying => noStart
  /\ deployStatus = "running" => deployed

\* So does an answer that is on its way, however old.
PollsFit ==
  \A t \in Tabs : \A s \in Snapshots : poll[t] = <<s>> =>
    /\ s.complete /\ ~s.deploying => noStart
    /\ s.status = "running" => deployed

WizardInv == WizardTypeOK /\ ServerFits /\ PollsFit

LEMMA WizardBegins == ASSUME WizardInit PROVE WizardInv
<1>1. pollErrors \in [Tabs -> 0..MaxPollErrors]
  BY PollErrorsAssumption DEF WizardInit
<1>2. poll \in [Tabs -> {<<>>} \cup {<<s>> : s \in Snapshots}] /\ \A t \in Tabs : poll[t] = <<>>
  BY DEF WizardInit
<1>3. \A s \in Snapshots : <<s>> # <<>>
  OBVIOUS
<1>4. WizardTypeOK /\ ServerFits
  BY <1>1, <1>2 DEF WizardInit, WizardTypeOK, ServerFits
<1> QED BY <1>2, <1>3, <1>4 DEF WizardInv, PollsFit

\* Steps of the tabs that neither poll nor change the server.
LEMMA TabMoves ==
  ASSUME WizardInv, UNCHANGED <<noStart, cli, serverVars, deployed, broken>>,
         NEW t \in Tabs, NEW from, NEW to \in {"review", "posting", "parsing", "accepted", "rejected", "polling", "error", "stuck", "back", "done"},
         Turns(t, from, to), UNCHANGED <<poll, pollErrors, due>>, retried' \in {retried, retried \cup {t}}
  PROVE  WizardInv'
<1>1. WizardTypeOK'
  BY DEF WizardInv, WizardTypeOK, serverVars, Turns
<1>2. ServerFits' /\ PollsFit'
  BY DEF WizardInv, ServerFits, PollsFit, serverVars
<1> QED BY <1>1, <1>2 DEF WizardInv

LEMMA PerformKeeps == ASSUME WizardInv, NEW t \in Tabs, Perform(t) PROVE WizardInv'
<1>1. /\ setupComplete' = TRUE /\ deployStatus' = "none" /\ deployError' = FALSE
      /\ tab' = [tab EXCEPT ![t] = "accepted"]
      /\ UNCHANGED <<noStart, poll, pollErrors, retried, due, deployed, broken>>
  BY DEF Perform, Turns
<1>2. \/ cli = "waiting" /\ cli' \in {"stopping", "preparing"} /\ deploying' = ~noStart
      \/ cli # "waiting" /\ UNCHANGED <<cli, deploying>>
  BY DEF Perform
<1>3. WizardTypeOK'
  <2>1. deploying' \in BOOLEAN
    BY <1>2 DEF WizardInv, WizardTypeOK
  <2> QED BY <1>1, <1>2, <2>1 DEF WizardInv, WizardTypeOK
<1>4. ServerFits'
  BY <1>1, <1>2 DEF WizardInv, WizardTypeOK, ServerFits
<1>5. PollsFit'
  BY <1>1 DEF WizardInv, PollsFit
<1> QED BY <1>3, <1>4, <1>5 DEF WizardInv

LEMMA PollKeeps == ASSUME WizardInv, NEW t \in Tabs, DeployStatus(t) PROVE WizardInv'
<1> DEFINE s == [complete |-> setupComplete, status |-> deployStatus, error |-> deployError, deploying |-> deploying]
<1>1. /\ poll' = [poll EXCEPT ![t] = <<s>>] /\ due' = due \ {t}
      /\ UNCHANGED <<noStart, cli, setupComplete, deployStatus, deployError, deploying, tab, pollErrors, retried, deployed, broken>>
  BY DEF DeployStatus, serverVars
<1>2. s \in Snapshots
  BY DEF WizardInv, WizardTypeOK, Snapshots
<1>3. s.complete = setupComplete /\ s.deploying = deploying /\ s.status = deployStatus
  OBVIOUS
<1> HIDE DEF s
<1>4. poll' \in [Tabs -> {<<>>} \cup {<<u>> : u \in Snapshots}]
  BY <1>1, <1>2 DEF WizardInv, WizardTypeOK
<1>5. WizardTypeOK'
  BY <1>1, <1>4 DEF WizardInv, WizardTypeOK
<1>6. ServerFits'
  BY <1>1 DEF WizardInv, ServerFits
<1>7. ASSUME NEW u \in Tabs, NEW r \in Snapshots, poll'[u] = <<r>>
      PROVE (r.complete /\ ~r.deploying => noStart) /\ (r.status = "running" => deployed)
  <2>1. CASE u = t
    <3>1. <<r>> = <<s>>
      BY <1>1, <1>7, <2>1 DEF WizardInv, WizardTypeOK
    <3>2. r = s
      BY <3>1
    <3> QED BY <1>3, <3>2 DEF WizardInv, ServerFits
  <2>2. CASE u # t
    BY <1>1, <1>7, <2>2 DEF WizardInv, WizardTypeOK, PollsFit
  <2> QED BY <2>1, <2>2
<1>8. PollsFit'
  BY <1>1, <1>7 DEF PollsFit
<1> QED BY <1>5, <1>6, <1>8 DEF WizardInv

LEMMA PollAnsweredKeeps == ASSUME WizardInv, NEW t \in Tabs, PollAnswered(t) PROVE WizardInv'
<1>1. /\ poll' = [poll EXCEPT ![t] = <<>>] /\ pollErrors' = [pollErrors EXCEPT ![t] = 0]
      /\ \E to \in {"error", "done", "polling"} : tab' = [tab EXCEPT ![t] = to]
      /\ UNCHANGED <<noStart, cli, setupComplete, deployStatus, deployError, deploying, retried, due, deployed, broken>>
  BY DEF PollAnswered, serverVars
<1>2. pollErrors' \in [Tabs -> 0..MaxPollErrors]
  BY <1>1, PollErrorsAssumption DEF WizardInv, WizardTypeOK
<1>3. WizardTypeOK'
  BY <1>1, <1>2 DEF WizardInv, WizardTypeOK
<1>4. ServerFits'
  BY <1>1 DEF WizardInv, ServerFits
<1>5. ASSUME NEW u \in Tabs, NEW r \in Snapshots, poll'[u] = <<r>> PROVE poll[u] = <<r>>
  BY <1>1, <1>5 DEF WizardInv, WizardTypeOK
<1>6. PollsFit'
  BY <1>1, <1>5 DEF WizardInv, PollsFit
<1> QED BY <1>3, <1>4, <1>6 DEF WizardInv

LEMMA PollFailsKeeps == ASSUME WizardInv, NEW t \in Tabs, PollFails(t) PROVE WizardInv'
<1>1. /\ pollErrors[t] < MaxPollErrors /\ pollErrors' = [pollErrors EXCEPT ![t] = @ + 1]
      /\ \E to \in {"done", "polling"} : tab' = [tab EXCEPT ![t] = to]
      /\ UNCHANGED <<noStart, cli, setupComplete, deployStatus, deployError, deploying, poll, retried, due, deployed, broken>>
  BY DEF PollFails, serverVars
<1>2. pollErrors[t] + 1 \in 0..MaxPollErrors
  BY <1>1, PollErrorsAssumption DEF WizardInv, WizardTypeOK
<1>3. pollErrors' \in [Tabs -> 0..MaxPollErrors]
  BY <1>1, <1>2 DEF WizardInv, WizardTypeOK
<1>4. WizardTypeOK'
  BY <1>1, <1>3 DEF WizardInv, WizardTypeOK
<1>5. ServerFits' /\ PollsFit'
  BY <1>1 DEF WizardInv, ServerFits, PollsFit
<1> QED BY <1>4, <1>5 DEF WizardInv

\* Steps of the process.
LEMMA DeploysKeep == ASSUME WizardInv, Deploys \/ MoreRunning PROVE WizardInv'
<1>1. /\ UNCHANGED <<noStart, setupComplete, deploying, tab, poll, pollErrors, retried>>
      /\ due' \in SUBSET Tabs
      /\ deployed' \in {deployed, TRUE} /\ broken' \in {broken, TRUE} /\ deployError' \in {deployError, TRUE}
      /\ deployStatus' \in {deployStatus, "pending", "some", "error", "running", "none"}
      /\ deployStatus' = "running" => deployStatus = "running" \/ deployed'
  <2>1. CASE Stop \/ Prepare \/ Pull \/ Linger
    BY <2>1 DEF Stop, Prepare, Pull, Linger, serverVars, tabVars, WizardInv, WizardTypeOK
  <2>2. CASE Up \/ MoreRunning \/ MarkAllRunning
    BY <2>2 DEF Up, MoreRunning, MarkAllRunning, Lingers, tabVars, WizardInv, WizardTypeOK
  <2> QED BY <2>1, <2>2 DEF Deploys
<1>2. /\ cli # "waiting"
      /\ cli' \in {"pulling", "starting", "health", "lingering", "failing", "gone"}
  <2>1. CASE Stop \/ Prepare \/ Pull \/ Linger
    BY <2>1 DEF Stop, Prepare, Pull, Linger, Moves
  <2>2. CASE Up \/ MarkAllRunning
    BY <2>2 DEF Up, MarkAllRunning, Moves
  <2>3. CASE MoreRunning
    BY <2>3 DEF MoreRunning, Moves, tabVars
  <2> QED BY <2>1, <2>2, <2>3 DEF Deploys
<1>3. WizardTypeOK'
  <2>1. deployed' \in BOOLEAN /\ broken' \in BOOLEAN /\ deployError' \in BOOLEAN
    BY <1>1 DEF WizardInv, WizardTypeOK
  <2>2. deployStatus' \in {"none", "pending", "some", "running", "error"}
    BY <1>1 DEF WizardInv, WizardTypeOK
  <2>3. noStart' \in BOOLEAN /\ setupComplete' \in BOOLEAN /\ deploying' \in BOOLEAN
    BY <1>1 DEF WizardInv, WizardTypeOK
  <2>4. /\ tab' \in [Tabs -> {"review", "posting", "parsing", "accepted", "rejected", "polling", "error", "stuck", "back", "done"}]
        /\ poll' \in [Tabs -> {<<>>} \cup {<<s>> : s \in Snapshots}]
        /\ pollErrors' \in [Tabs -> 0..MaxPollErrors]
        /\ retried' \subseteq Tabs /\ due' \subseteq Tabs
    BY <1>1 DEF WizardInv, WizardTypeOK
  <2> QED BY <1>2, <2>1, <2>2, <2>3, <2>4 DEF WizardTypeOK
<1>4. deployed => deployed'
  BY <1>1
<1>5. ServerFits'
  <2>1. (cli' = "waiting" <=> ~setupComplete') /\ (setupComplete' /\ ~deploying' => noStart')
    BY <1>1, <1>2 DEF WizardInv, ServerFits
  <2>2. deployStatus' = "running" => deployed'
    BY <1>1, <1>4 DEF WizardInv, ServerFits
  <2> QED BY <2>1, <2>2 DEF ServerFits
<1>6. PollsFit'
  BY <1>1, <1>4 DEF WizardInv, PollsFit
<1> QED BY <1>3, <1>5, <1>6 DEF WizardInv

LEMMA WizardStep == ASSUME WizardInv, [WizardNext]_wizardVars PROVE WizardInv'
<1>1. ASSUME NEW t \in Tabs, Install(t) \/ Check(t) \/ PerformFails(t) \/ Respond(t) PROVE WizardInv'
  <2>1. /\ UNCHANGED <<noStart, cli, serverVars, poll, pollErrors, due, deployed, broken>>
        /\ retried' \in {retried, retried \cup {t}}
    BY <1>1 DEF Install, Check, PerformFails, Respond
  <2>2. \E from, to \in {"review", "posting", "parsing", "accepted", "rejected", "polling", "error", "stuck", "back", "done"} :
          Turns(t, from, to)
    <3>1. CASE Install(t)
      BY <3>1 DEF Install
    <3>2. CASE Check(t) \/ PerformFails(t)
      BY <3>2 DEF Check, PerformFails
    <3>3. CASE Respond(t)
      BY <3>3 DEF Respond, ShowError
    <3> QED BY <1>1, <3>1, <3>2, <3>3
  <2> QED BY <2>1, <2>2, TabMoves
<1>2. CASE UNCHANGED wizardVars
  <2>1. WizardTypeOK'
    BY <1>2 DEF wizardVars, serverVars, tabVars, WizardInv, WizardTypeOK
  <2>2. ServerFits' /\ PollsFit'
    BY <1>2 DEF wizardVars, serverVars, tabVars, WizardInv, ServerFits, PollsFit
  <2> QED BY <2>1, <2>2 DEF WizardInv
<1> QED BY <1>1, <1>2, PerformKeeps, PollKeeps, PollAnsweredKeeps, PollFailsKeeps, DeploysKeep DEF WizardNext, Browses

\* The inductive invariant of the wizard's server and tabs.
THEOREM WizardInvariant == WizardSpec => []WizardInv
  BY WizardBegins, WizardStep, PTL DEF WizardSpec

\* A tab says "Setup Complete" for cause only, for any number of tabs that post, retry
\* and poll, whatever becomes of the deployment.
THEOREM WizardDoneIsEarned == WizardSpec => DoneIsEarned
<1>1. ASSUME WizardInv, WizardNext, NEW t \in Tabs, tab[t] # "done", tab'[t] = "done"
      PROVE  deployed \/ noStart \/ ~ServerUp
  <2>1. PICK u \in Tabs : PollAnswered(u) \/ PollFails(u)
    <3>1. ASSUME NEW u \in Tabs, Install(u) \/ Check(u) \/ Perform(u) \/ PerformFails(u) \/ Respond(u) PROVE FALSE
      <4>1. \E to \in {"review", "posting", "parsing", "accepted", "rejected", "polling", "error", "stuck", "back"} :
              tab' = [tab EXCEPT ![u] = to]
        <5>1. CASE Install(u)
          BY <5>1 DEF Install, Turns
        <5>2. CASE Check(u) \/ Perform(u) \/ PerformFails(u)
          BY <5>2 DEF Check, Perform, PerformFails, Turns
        <5>3. CASE Respond(u)
          BY <5>3 DEF Respond, ShowError, Turns
        <5> QED BY <3>1, <5>1, <5>2, <5>3
      <4> QED BY <1>1, <4>1 DEF WizardInv, WizardTypeOK
    <3>2. ASSUME Deploys \/ MoreRunning \/ \E u \in Tabs : DeployStatus(u) PROVE FALSE
      <4>1. tab' = tab
        BY <3>2 DEF Deploys, Stop, Prepare, Pull, Up, MoreRunning, MarkAllRunning, Linger, Lingers, tabVars, DeployStatus
      <4> QED BY <1>1, <4>1
    <3> QED BY <1>1, <3>1, <3>2 DEF WizardNext, Browses
  <2>2. CASE PollFails(u)
    BY <2>2 DEF PollFails
  <2>3. CASE PollAnswered(u)
    <3>1. tab[u] = "polling" /\ u = t /\ poll[u] # <<>>
      BY <1>1, <2>3 DEF PollAnswered, WizardInv, WizardTypeOK
    <3>2. PICK s \in Snapshots : poll[u] = <<s>>
      <4>1. poll[u] \in {<<>>} \cup {<<s>> : s \in Snapshots}
        BY <1>1 DEF WizardInv, WizardTypeOK
      <4> QED BY <3>1, <4>1
    <3>3. Head(poll[u]) = s
      BY <3>2
    <3>4. SaysNoStart(s) \/ (s.complete /\ s.status = "running")
      BY <1>1, <2>3, <3>1, <3>3 DEF PollAnswered, WizardInv, WizardTypeOK
    <3> QED BY <1>1, <3>2, <3>4 DEF SaysNoStart, WizardInv, PollsFit
  <2> QED BY <2>1, <2>2, <2>3
<1>2. WizardInv /\ [WizardNext]_wizardVars =>
        [\A t \in Tabs : tab[t] # "done" /\ tab'[t] = "done" => deployed \/ noStart \/ ~ServerUp]_wizardVars
  BY <1>1
<1> QED BY <1>2, WizardInvariant, PTL DEF WizardSpec, DoneIsEarned

(***************************************************************************)
(* The types of the voice page.                                            *)
(***************************************************************************)
Statuses == {"idle", "listening", "transcribing", "thinking", "speaking", "error"}

\* What has a type but for the turns and the globals that name one.
WidgetTypeOK ==
  /\ stt \in {"browser", "http"} /\ agent \in {"opencode", "openai"} /\ tts \in {"browser", "http"}
  /\ status \in Statuses
  /\ isListening \in BOOLEAN /\ processing \in BOOLEAN /\ continuous \in BOOLEAN /\ session \in BOOLEAN
  /\ recovers \in BOOLEAN /\ left \in BOOLEAN /\ hasty \in BOOLEAN

LEMMA VoiceTypeParts == VoiceTypeOK <=> WidgetTypeOK /\ TurnsInv
  BY DEF VoiceTypeOK, WidgetTypeOK, TurnsInv, TurnPlaces, Statuses

LEMMA ShowsTyped == ASSUME NEW s \in Statuses, Shows(s) PROVE status' \in Statuses /\ processing' \in BOOLEAN
  BY DEF Shows

LEMMA StartsTyped ==
  ASSUME NEW f, StartsTurn(f), processing \in BOOLEAN, isListening \in BOOLEAN
  PROVE  status' \in Statuses /\ processing' \in BOOLEAN /\ isListening' \in BOOLEAN
<1>1. \/ Says("error") /\ UNCHANGED isListening
      \/ Shows("listening") /\ isListening' = TRUE
  BY DEF StartsTurn
<1> QED BY <1>1, ShowsTyped DEF Says, Statuses

LEMMA WidgetStep == ASSUME WidgetTypeOK, [VoiceNext]_voiceVars PROVE WidgetTypeOK'
<1>0. /\ status \in Statuses /\ isListening \in BOOLEAN /\ processing \in BOOLEAN /\ continuous \in BOOLEAN
      /\ session \in BOOLEAN /\ recovers \in BOOLEAN /\ left \in BOOLEAN /\ hasty \in BOOLEAN
  BY DEF WidgetTypeOK
<1>a. {"idle", "listening", "transcribing", "thinking", "speaking", "error"} \subseteq Statuses
  BY DEF Statuses
<1>1. UNCHANGED choiceVars
  BY DEF VoiceNext, Awaited, Excused, Granted, CaptureEnds, Upload, Transcribed, Created, Replied, Plays, Spoken,
         Continue, TurnFails, Recover, Mic, Cancel, Continuous, NewConversation, voiceVars
<1>2. status' \in Statuses /\ processing' \in BOOLEAN /\ isListening' \in BOOLEAN
  <2>1. ASSUME NEW t \in VoiceTurns, Awaited(t) \/ CaptureEnds(t) \/ TurnFails(t) PROVE status' \in Statuses /\ processing' \in BOOLEAN /\ isListening' \in BOOLEAN
    <3>1. CASE Granted(t) \/ CaptureEnds(t) \/ Created(t) \/ Plays(t)
      BY <1>0, <3>1 DEF Granted, CaptureEnds, Created, Plays
    <3>2. CASE Upload(t)
      BY <1>0, <1>a, <3>2 DEF Upload, Says
    <3>3. CASE Transcribed(t)
      <4>1. isListening' = FALSE /\ (Shows("idle") \/ Shows("thinking"))
        BY <3>3 DEF Transcribed
      <4> QED BY <1>a, <4>1, ShowsTyped
    <3>4. CASE Replied(t)
      <4>1. isListening' = isListening /\ (Shows("idle") \/ Shows("speaking"))
        BY <3>4 DEF Replied, Finish
      <4> QED BY <1>0, <1>a, <4>1, ShowsTyped
    <3>5. CASE Spoken(t)
      <4>1. isListening' = isListening /\ Shows("idle")
        BY <3>5 DEF Spoken, Finish
      <4> QED BY <1>0, <1>a, <4>1, ShowsTyped
    <3>6. CASE Continue(t)
      <4>1. StartsTurn([turn EXCEPT ![t] = "over"]) \/ UNCHANGED <<status, processing, isListening>>
        BY <3>6 DEF Continue
      <4> QED BY <1>0, <4>1, StartsTyped
    <3>7. CASE TurnFails(t)
      <4>1. isListening' = FALSE /\ Shows("error")
        BY <3>7 DEF TurnFails
      <4> QED BY <1>a, <4>1, ShowsTyped
    <3>8. CASE Excused(t)
      BY <1>0, <1>a, <3>8 DEF Excused, Says
    <3> QED BY <2>1, <3>1, <3>2, <3>3, <3>4, <3>5, <3>6, <3>7, <3>8 DEF Awaited
  <2>2. CASE Recover
    BY <1>0, <1>a, <2>2 DEF Recover, Says
  <2>3. CASE Mic
    <3>1. CASE isListening
      BY <1>0, <2>3, <3>1 DEF Mic
    <3>2. CASE ~isListening
      <4>1. StartsTurn(turn)
        BY <2>3, <3>2 DEF Mic
      <4> QED BY <1>0, <4>1, StartsTyped
    <3> QED BY <3>1, <3>2
  <2>4. CASE Cancel
    <3>1. isListening' = FALSE /\ Shows("idle")
      BY <2>4 DEF Cancel
    <3> QED BY <1>a, <3>1, ShowsTyped
  <2>5. CASE Continuous
    <3>1. status' = status /\ isListening' = isListening
      BY <2>5 DEF Continuous
    <3>2. processing' \in BOOLEAN
      BY <2>5 DEF Continuous
    <3> QED BY <1>0, <3>1, <3>2
  <2>6. CASE NewConversation \/ UNCHANGED voiceVars
    BY <1>0, <2>6 DEF NewConversation, voiceVars
  <2> QED BY <2>1, <2>2, <2>3, <2>4, <2>5, <2>6 DEF VoiceNext
<1>3. continuous' \in BOOLEAN /\ session' \in BOOLEAN /\ recovers' \in BOOLEAN
  <2>1. ASSUME NEW t \in VoiceTurns, Awaited(t) \/ CaptureEnds(t) \/ TurnFails(t) PROVE UNCHANGED continuous /\ session' \in {session, TRUE} /\ recovers' \in {recovers, TRUE}
    BY <2>1 DEF Awaited, Excused, Granted, CaptureEnds, Upload, Transcribed, Created, Replied, Plays, Spoken,
         Continue, TurnFails, Recovering, globalVars
  <2>2. ASSUME Recover \/ Mic \/ Cancel \/ Continuous \/ NewConversation \/ UNCHANGED voiceVars
        PROVE  continuous' \in BOOLEAN /\ session' \in {session, FALSE} /\ recovers' \in {recovers, FALSE}
    <3>1. CASE Continuous
      BY <3>1 DEF Continuous, globalVars
    <3>2. CASE ~Continuous
      BY <1>0, <2>2, <3>2 DEF Recover, Mic, Cancel, NewConversation, globalVars, voiceVars
    <3> QED BY <3>1, <3>2
  <2>3. CASE \E t \in VoiceTurns : Awaited(t) \/ CaptureEnds(t) \/ TurnFails(t)
    <3>1. UNCHANGED continuous /\ session' \in {session, TRUE} /\ recovers' \in {recovers, TRUE}
      BY <2>1, <2>3
    <3> QED BY <1>0, <3>1
  <2>4. CASE Recover \/ Mic \/ Cancel \/ Continuous \/ NewConversation \/ UNCHANGED voiceVars
    <3>1. continuous' \in BOOLEAN /\ session' \in {session, FALSE} /\ recovers' \in {recovers, FALSE}
      BY <2>2, <2>4
    <3> QED BY <1>0, <3>1
  <2> QED BY <2>3, <2>4 DEF VoiceNext
<1>4. left' \in BOOLEAN
  <2>1. CASE Leaves
    BY <2>1 DEF Leaves
  <2>2. UNCHANGED left \/ Leaves
    BY DEF VoiceNext, Awaited, Excused, Granted, CaptureEnds, Upload, Transcribed, Created, Replied, Plays, Spoken,
           Continue, TurnFails, Recover, Mic, Cancel, Continuous, NewConversation, voiceVars
  <2> QED BY <1>0, <2>1, <2>2
<1>5. hasty' \in BOOLEAN
  <2>1. CASE Mic
    <3>1. CASE isListening
      BY <2>1, <3>1 DEF Mic
    <3>2. CASE ~isListening
      BY <1>0, <2>1, <3>2 DEF Mic
    <3> QED BY <3>1, <3>2
  <2>2. UNCHANGED hasty \/ Mic
    BY DEF VoiceNext, Awaited, Excused, Granted, CaptureEnds, Upload, Transcribed, Created, Replied, Plays, Spoken,
           Continue, TurnFails, Recover, Cancel, Continuous, NewConversation, voiceVars
  <2> QED BY <1>0, <2>1, <2>2
<1> QED BY <1>1, <1>2, <1>3, <1>4, <1>5 DEF WidgetTypeOK, choiceVars

(***************************************************************************)
(* All of them in one behaviour.                                           *)
(***************************************************************************)
SidecarInv ==
  /\ LockInv /\ SchedulerTypeOK /\ OverlapNeedsReload /\ RunsInv /\ MemoryInv /\ AuthInv
  /\ WizardInv /\ WidgetTypeOK /\ VoiceInv /\ ToolInv

LEMMA SidecarsBegin == ASSUME SidecarInit PROVE SidecarInv
<1>1. LockInit /\ SchedulerInit /\ RunsInit /\ MemoryInit /\ AuthInit /\ WizardInit /\ VoiceInit /\ ToolInit
  BY DEF SidecarInit
<1>2. OverlapNeedsReload
  BY <1>1 DEF SchedulerInit, OverlapNeedsReload
<1>3. WidgetTypeOK
  BY <1>1 DEF VoiceInit, WidgetTypeOK, Statuses
<1> QED BY <1>1, <1>2, <1>3, LockBegins, SchedulerBegins, RunsBegin, MemoryBegins, AuthBegins, WizardBegins,
           VoiceBegins, ToolBegins DEF SidecarInv

\* A step of the whole is one of each part, or leaves it as it is.
LEMMA PartsStep ==
  ASSUME [SidecarNext]_allVars
  PROVE  /\ [LockNext]_lockVars /\ [SchedulerNext]_schedulerVars /\ [RunsNext]_runsVars /\ [MemoryNext]_memoryVars
         /\ [AuthNext]_authVars /\ [WizardNext]_wizardVars /\ [VoiceNext]_voiceVars /\ [ToolNext]_toolVars
  BY DEF SidecarNext, allVars

LEMMA SidecarStep == ASSUME SidecarInv, [SidecarNext]_allVars PROVE SidecarInv'
<1>1. LockInv' /\ RunsInv' /\ MemoryInv' /\ AuthInv' /\ WizardInv' /\ VoiceInv' /\ ToolInv'
  BY PartsStep, LockStep, RunsStep, MemoryStep, AuthStep, WizardStep, VoiceStep, ToolStep DEF SidecarInv
<1>2. SchedulerTypeOK' /\ OverlapNeedsReload'
  BY PartsStep, SchedulerTypeStep, OverlapStep DEF SidecarInv
<1>3. WidgetTypeOK'
  BY PartsStep, WidgetStep DEF SidecarInv
<1> QED BY <1>1, <1>2, <1>3 DEF SidecarInv

LEMMA SidecarInvariant == SidecarSpec => []SidecarInv
<1>1. SidecarInv /\ [SidecarNext]_allVars => SidecarInv'
  BY SidecarStep
<1> QED BY <1>1, SidecarsBegin, PTL DEF SidecarSpec

\* The states of every part are well-typed, for any number of processes, files, runs,
\* requests, attempts, tabs, turns and executions.
THEOREM SidecarsTypeCorrect == SidecarSpec => []SidecarTypeOK
<1>1. SidecarInv => SidecarTypeOK
  <2> SUFFICES ASSUME SidecarInv PROVE SidecarTypeOK
    OBVIOUS
  <2>1. VoiceTypeOK
    BY VoiceTypeParts DEF SidecarInv, VoiceInv
  <2> QED BY <2>1 DEF SidecarInv, LockInv, RunsInv, MemoryInv, AuthInv, WizardInv, ToolInv, SidecarTypeOK
<1> QED BY <1>1, SidecarInvariant, PTL

\* What each part promises holds whatever the others do.
THEOREM SidecarsKeepWhatTheyPromise ==
  SidecarSpec => [](/\ ExclusiveUnlessRaced /\ RunsHold /\ MemoriesWhole /\ OneServerUnlessUsurped
                    /\ OneTurnUnlessLeft /\ FeedbackFits)
<1>1. SidecarInv => ExclusiveUnlessRaced
  BY DEF SidecarInv, LockInv, FileInv, ExclusiveUnlessRaced, AtMostOneHolder
<1>2. SidecarInv => RunsHold
  BY DEF SidecarInv, RunsInv, TogetherInv, TogetherForCause, Busy, FailedOnTheWay, RunsHold
<1>3. SidecarInv => MemoriesWhole /\ OneServerUnlessUsurped
  BY DEF SidecarInv, MemoryInv, AuthInv
<1>4. SidecarInv => OneTurnUnlessLeft
  BY TurnsAreOne DEF SidecarInv
<1>5. SidecarInv => FeedbackFits
  BY DEF SidecarInv, ToolInv, ToolTypeOK, QueuesFit, SessionsFit, Exact, Gone, FeedbackFits
<1> QED BY <1>1, <1>2, <1>3, <1>4, <1>5, SidecarInvariant, PTL
===========================================================================
