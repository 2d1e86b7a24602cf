------------------------ MODULE ControlPlane_proofs -----------------------
(***************************************************************************)
(* The operations of the control plane, the files that configure it and   *)
(* the curation of the memories, for any number of operations, addons,    *)
(* writers, providers, adders and memories, of processes killed and of    *)
(* waits and writes that fail: proofs of the type invariants, that the    *)
(* lock is given back on every path, that an enabled channel has its      *)
(* secret, that settings are kept, that image tag and assets were fetched *)
(* by one upgrade, that what runs is what is configured, that the files   *)
(* of the configuration agree, and that curation deletes no memory but    *)
(* the copies of one it keeps.                                            *)
(***************************************************************************)
EXTENDS Lifecycle, StackConfig, MemoryCuration, FiniteSetTheorems, SequenceTheorems,
        WellFoundedInduction, TLAPS

\* Where an operation is.
Places == Waits \cup {"new", "ok", "warned", "failed", "killed"}

(***************************************************************************)
(* Types.                                                                  *)
(***************************************************************************)
\* An operation that goes on leaves the others where they are.
LEMMA GoesAlone ==
  ASSUME LifecycleTypeOK, NEW o \in Ops, NEW from, NEW to \in Places, Goes(o, from, to)
  PROVE  /\ pc[o] = from /\ pc'[o] = to
         /\ \A p \in Ops \ {o} : pc'[p] = pc[p]
         /\ pc' \in [Ops -> Places]
         /\ kind' = kind /\ addon' = addon
BY DEF Goes, LifecycleTypeOK, Places

\* Who met whom: an operation that begins and those in flight, and nobody else.
LEMMA GoesMeets ==
  ASSUME LifecycleTypeOK, NEW o \in Ops, NEW from, NEW to, Goes(o, from, to)
  PROVE  /\ met' \in [Ops -> SUBSET Ops]
         /\ from # "new" => met' = met
         /\ from = "new" => met'[o] = InFlight
         /\ from = "new" => \A p \in InFlight \ {o} : met'[p] = met[p] \cup {o}
         /\ \A p \in Ops \ (InFlight \cup {o}) : met'[p] = met[p]
         /\ \A p \in Ops \ {o} : met[p] \subseteq met'[p]
<1>1. met \in [Ops -> SUBSET Ops]
  BY DEF LifecycleTypeOK
<1>2. InFlight \subseteq Ops
  BY DEF InFlight
<1>3. CASE from = "new"
  <2>1. met' = [p \in Ops |-> IF p = o THEN InFlight ELSE IF p \in InFlight THEN met[p] \cup {o} ELSE met[p]]
    BY <1>3 DEF Goes
  <2> QED BY <1>1, <1>2, <1>3, <2>1
<1>4. CASE from # "new"
  BY <1>1, <1>4 DEF Goes
<1> QED BY <1>3, <1>4

\* A service is created from what the files say.
LEMMA CreatedTyped ==
  ASSUME LifecycleTypeOK, NEW s \in Services
  PROVE  Created(s) \in Containers
<1>1. stackEnv.tag \in Versions
  BY DEF LifecycleTypeOK, StackEnv
<1>2. (IF s = Core THEN coreCompose ELSE guardianEnv[s]) \in Ops \cup {Initial, None}
  BY DEF LifecycleTypeOK, Services, Versions, Secrets
<1> QED BY <1>1, <1>2 DEF Created, Containers

\* What a docker command can be told to do.
LEMMA JobsAre ==
  ASSUME NEW S \in SUBSET Services, NEW what \in [S -> {None} \cup Containers]
  PROVE  what \in Jobs
BY DEF Jobs

LEMMA ToldTyped ==
  ASSUME LifecycleTypeOK, NEW o \in Ops, NEW what \in Jobs, Told(o, what)
  PROVE  jobs' \in [Ops -> Jobs] /\ jobs'[o] = what /\ \A p \in Ops \ {o} : jobs'[p] = jobs[p]
BY DEF LifecycleTypeOK, Told

LEMMA NothingTyped == NothingToDo \in Jobs /\ DOMAIN NothingToDo = {}
<1>1. NothingToDo \in [{} -> {None} \cup Containers]
  BY DEF NothingToDo
<1> QED BY <1>1, JobsAre

LEMMA StopTyped == ASSUME NEW S \in SUBSET Services PROVE [s \in S |-> None] \in Jobs
<1>1. [s \in S |-> None] \in [S -> {None} \cup Containers]
  OBVIOUS
<1> QED BY <1>1, JobsAre

LEMMA OrderTyped ==
  ASSUME LifecycleTypeOK, NEW o \in Ops, NEW S \in SUBSET Addons
  PROVE  /\ Order(o, S) \in Jobs /\ DOMAIN Order(o, S) = Wanted(o, S) \cup Orphans(o)
         /\ Wanted(o, S) \cup Orphans(o) \subseteq Services
<1>1. Wanted(o, S) \cup Orphans(o) \in SUBSET Services
  BY DEF Wanted, Orphans, Services
<1>2. \A s \in Wanted(o, S) \cup Orphans(o) : Created(s) \in Containers
  BY <1>1, CreatedTyped
<1>3. Order(o, S) \in [Wanted(o, S) \cup Orphans(o) -> {None} \cup Containers]
  BY <1>2 DEF Order
<1> QED BY <1>1, <1>3, JobsAre

\* The lock names an operation or none.
LEMMA LockTyped ==
  ASSUME LifecycleTypeOK, NEW o \in Ops, Released(o) \/ lock' = o \/ lock' = lock
  PROVE  lock' \in Ops \cup {None}
BY DEF LifecycleTypeOK, Released

\* What reconcileCore writes.
LEMMA ReconcilesTyped ==
  ASSUME LifecycleTypeOK, NEW o \in Ops, NEW to \in Places, Reconciles(o, to),
         files' \in [Ops -> SUBSET Addons], named' \in [Ops -> SUBSET Addons]
  PROVE  LifecycleTypeOK'
<1>1. Goes(o, "reconcile", to) /\ Released(o)
  BY DEF Reconciles
<1>2. pc' \in [Ops -> Places] /\ met' \in [Ops -> SUBSET Ops] /\ kind' = kind /\ addon' = addon
  BY <1>1, GoesAlone, GoesMeets
<1>3. lock' \in Ops \cup {None}
  BY <1>1, LockTyped
<1>4. guardianEnv' \in Secrets
  BY DEF Reconciles, SecretsWritten, LifecycleTypeOK, Secrets
<1>5. snapshot' \in [by : Ops \cup {Initial, None}, stackEnv : StackEnv, coreCompose : Versions, enabled : SUBSET Addons,
                     guardianEnv : Secrets]
  BY DEF Reconciles, snapshotCurrentState, LifecycleTypeOK
<1> QED BY <1>2, <1>3, <1>4, <1>5 DEF Reconciles, docker, LifecycleTypeOK, Places

\* An operation that begins keeps the types.
LEMMA BeginsTyped ==
  ASSUME LifecycleTypeOK, NEW o \in Ops, Begins(o)
  PROVE  LifecycleTypeOK'
<1> USE DEF config, docker
<1>1. CASE Apply(o)
  <2>1. \/ Goes(o, "new", "reconcile") /\ lock' = o
        \/ Goes(o, "new", "failed") /\ Released(o)
    BY <1>1 DEF Apply, Fails
  <2>2. /\ pc' \in [Ops -> Places] /\ met' \in [Ops -> SUBSET Ops] /\ kind' = kind /\ addon' = addon
        /\ lock' \in Ops \cup {None}
    BY <2>1, GoesAlone, GoesMeets, LockTyped DEF Places, Waits
  <2> QED BY <1>1, <2>2 DEF Apply, LifecycleTypeOK, Places
<1>2. CASE Uninstall(o)
  <2>1. pc' \in [Ops -> Places] /\ met' \in [Ops -> SUBSET Ops] /\ kind' = kind /\ addon' = addon
    BY <1>2, GoesAlone, GoesMeets DEF Uninstall, Places, Waits
  <2>2. jobs' \in [Ops -> Jobs]
    BY <1>2, StopTyped, ToldTyped DEF Uninstall
  <2> QED BY <1>2, <2>1, <2>2 DEF Uninstall, LifecycleTypeOK, Places
<1>3. CASE Upgrade(o)
  <2>1. pc' \in [Ops -> Places] /\ met' \in [Ops -> SUBSET Ops] /\ kind' = kind /\ addon' = addon
    BY <1>3, GoesAlone, GoesMeets DEF Upgrade, Places, Waits
  <2> QED BY <1>3, <2>1 DEF Upgrade, LifecycleTypeOK, Places
<1>4. CASE Rollback(o)
  <2>1. \/ Goes(o, "new", "config") \/ Goes(o, "new", "failed")
    BY <1>4 DEF Rollback
  <2>2. pc' \in [Ops -> Places] /\ met' \in [Ops -> SUBSET Ops] /\ kind' = kind /\ addon' = addon
    BY <2>1, GoesAlone, GoesMeets DEF Places, Waits
  <2>3. /\ stackEnv' \in StackEnv /\ coreCompose' \in Versions /\ enabled' \subseteq Addons
        /\ guardianEnv' \in Secrets
    BY <1>4 DEF Rollback, LifecycleTypeOK
  <2>4. named' \in [Ops -> SUBSET Addons]
    BY <1>4, <2>3 DEF Rollback, Asks, LifecycleTypeOK
  <2> QED BY <1>4, <2>2, <2>3, <2>4 DEF Rollback, LifecycleTypeOK, Places
<1>5. CASE EnableAddon(o)
  <2>1. \/ Goes(o, "new", "config") \/ Goes(o, "new", "ok")
    BY <1>5 DEF EnableAddon
  <2>2. pc' \in [Ops -> Places] /\ met' \in [Ops -> SUBSET Ops] /\ kind' = kind /\ addon' = addon
    BY <2>1, GoesAlone, GoesMeets DEF Places, Waits
  <2>3. enabled' \subseteq Addons /\ guardianEnv' \in Secrets
    BY <1>5 DEF EnableAddon, NewSecret, LifecycleTypeOK, Secrets
  <2>4. named' \in [Ops -> SUBSET Addons]
    BY <1>5 DEF EnableAddon, Asks, LifecycleTypeOK
  <2> QED BY <1>5, <2>2, <2>3, <2>4 DEF EnableAddon, LifecycleTypeOK, Places
<1>6. CASE DisableAddon(o)
  <2>1. \/ Goes(o, "new", "stop") \/ Goes(o, "new", "ok")
    BY <1>6 DEF DisableAddon
  <2>2. pc' \in [Ops -> Places] /\ met' \in [Ops -> SUBSET Ops] /\ kind' = kind /\ addon' = addon
    BY <2>1, GoesAlone, GoesMeets DEF Places, Waits
  <2>3. jobs' \in [Ops -> Jobs]
    <3>1. {addon[o]} \in SUBSET Services
      BY DEF LifecycleTypeOK, Services
    <3>2. [s \in {addon[o]} |-> None] \in Jobs
      BY <3>1, StopTyped
    <3> QED BY <1>6, <3>2, ToldTyped DEF DisableAddon, LifecycleTypeOK
  <2> QED BY <1>6, <2>2, <2>3 DEF DisableAddon, LifecycleTypeOK, Places
<1>7. CASE SaveSetting(o)
  <2>1. pc' \in [Ops -> Places] /\ met' \in [Ops -> SUBSET Ops] /\ kind' = kind /\ addon' = addon
    BY <1>7, GoesAlone, GoesMeets DEF SaveSetting, Places
  <2>2. stackEnv' \in StackEnv
    BY <1>7 DEF SaveSetting, LifecycleTypeOK, StackEnv
  <2> QED BY <1>7, <2>1, <2>2 DEF SaveSetting, LifecycleTypeOK, Places
<1> QED BY <1>1, <1>2, <1>3, <1>4, <1>5, <1>6, <1>7 DEF Begins

\* So does one that goes on.
LEMMA GoesOnTyped ==
  ASSUME LifecycleTypeOK, NEW o \in Ops, GoesOn(o)
  PROVE  LifecycleTypeOK'
<1> USE DEF config, docker
<1>1. CASE Applied(o)
  <2>1. files' \in [Ops -> SUBSET Addons] /\ named' \in [Ops -> SUBSET Addons]
    BY <1>1 DEF Applied, Asks, LifecycleTypeOK
  <2>2. Reconciles(o, "config")
    BY <1>1 DEF Applied
  <2> QED BY <2>1, <2>2, ReconcilesTyped DEF Places, Waits
<1>2. CASE WentDown(o)
  <2>1. \/ Goes(o, "down", "reconcile") /\ lock' = o
        \/ Goes(o, "down", "failed") /\ Released(o)
    BY <1>2 DEF WentDown, Fails
  <2>2. /\ pc' \in [Ops -> Places] /\ met' \in [Ops -> SUBSET Ops] /\ kind' = kind /\ addon' = addon
        /\ lock' \in Ops \cup {None}
    BY <2>1, GoesAlone, GoesMeets, LockTyped DEF Places, Waits
  <2>3. jobs' \in [Ops -> Jobs]
    BY <1>2, NothingTyped, ToldTyped DEF WentDown
  <2> QED BY <1>2, <2>2, <2>3 DEF WentDown, LifecycleTypeOK, Places
<1>3. CASE Uninstalled(o)
  BY <1>3, ReconcilesTyped DEF Uninstalled, Places, LifecycleTypeOK
<1>4. CASE Preflighted(o)
  <2>1. pc' \in [Ops -> Places] /\ met' \in [Ops -> SUBSET Ops] /\ kind' = kind /\ addon' = addon
    BY <1>4, GoesAlone, GoesMeets DEF Preflighted, Places, Waits
  <2>2. found' \in [Ops -> StackEnv]
    BY <1>4 DEF Preflighted, LifecycleTypeOK
  <2> QED BY <1>4, <2>1, <2>2 DEF Preflighted, LifecycleTypeOK, Places
<1>5. CASE LookedUp(o)
  <2>1. \/ Goes(o, "lookup", "assets") /\ lock' = o
        \/ Goes(o, "lookup", "failed") /\ Released(o)
    BY <1>5 DEF LookedUp, Fails
  <2>2. /\ pc' \in [Ops -> Places] /\ met' \in [Ops -> SUBSET Ops] /\ kind' = kind /\ addon' = addon
        /\ lock' \in Ops \cup {None}
    BY <2>1, GoesAlone, GoesMeets, LockTyped DEF Places, Waits
  <2>3. stackEnv' \in StackEnv
    BY <1>5 DEF LookedUp, Tagged, LifecycleTypeOK, StackEnv, Versions
  <2> QED BY <1>5, <2>2, <2>3 DEF LookedUp, LifecycleTypeOK, Places
<1>6. CASE Downloaded(o)
  <2>1. pc' \in [Ops -> Places] /\ met' \in [Ops -> SUBSET Ops] /\ kind' = kind /\ addon' = addon
    BY <1>6, GoesAlone, GoesMeets DEF Downloaded, Places, Waits
  <2> QED BY <1>6, <2>1 DEF Downloaded, LifecycleTypeOK, Places, Versions
<1>7. CASE Upgraded(o)
  BY <1>7, ReconcilesTyped DEF Upgraded, Places, Waits, LifecycleTypeOK
<1>8. CASE Pulled(o)
  <2>1. pc' \in [Ops -> Places] /\ met' \in [Ops -> SUBSET Ops] /\ kind' = kind /\ addon' = addon
    BY <1>8, GoesAlone, GoesMeets DEF Pulled, Places, Waits
  <2>2. named' \in [Ops -> SUBSET Addons]
    BY <1>8 DEF Pulled, Asks, LifecycleTypeOK
  <2> QED BY <1>8, <2>1, <2>2 DEF Pulled, LifecycleTypeOK, Places
<1>9. CASE Up(o)
  <2>1. pc' \in [Ops -> Places] /\ met' \in [Ops -> SUBSET Ops] /\ kind' = kind /\ addon' = addon
    BY <1>9, GoesAlone, GoesMeets DEF Up, Places
  <2> QED BY <1>9, <2>1 DEF Up, LifecycleTypeOK, Places
<1>10. CASE StopsAddon(o)
  <2>1. pc' \in [Ops -> Places] /\ met' \in [Ops -> SUBSET Ops] /\ kind' = kind /\ addon' = addon
    BY <1>10, GoesAlone, GoesMeets DEF StopsAddon, Places, Waits
  <2> QED BY <1>10, <2>1 DEF StopsAddon, LifecycleTypeOK, Places
<1>11. CASE RemovesAddon(o)
  <2>1. Goes(o, "stopped", "ok") \/ Goes(o, "stop", "warned")
    BY <1>11 DEF RemovesAddon
  <2>2. pc' \in [Ops -> Places] /\ met' \in [Ops -> SUBSET Ops] /\ kind' = kind /\ addon' = addon
    BY <2>1, GoesAlone, GoesMeets DEF Places
  <2>3. enabled' \subseteq Addons
    BY <1>11 DEF RemovesAddon, LifecycleTypeOK
  <2>4. jobs' \in [Ops -> Jobs]
    BY <1>11, NothingTyped, ToldTyped DEF RemovesAddon
  <2> QED BY <1>11, <2>2, <2>3, <2>4 DEF RemovesAddon, LifecycleTypeOK, Places
<1>12. CASE Spawns(o)
  <2>1. PICK S : /\ S \in {named[o], enabled}
                 /\ \/ /\ Goes(o, "config", "up") /\ Told(o, Order(o, S))
                       /\ contested' = (contested \ DOMAIN Order(o, S)) \cup Contested(o, S)
                    \/ Goes(o, "config", Ended(o)) /\ UNCHANGED <<jobs, contested>>
    BY <1>12 DEF Spawns
  <2>2. S \in SUBSET Addons
    BY <2>1 DEF LifecycleTypeOK
  <2>3. Ended(o) \in Places
    BY DEF Ended, Places
  <2>4. pc' \in [Ops -> Places] /\ met' \in [Ops -> SUBSET Ops] /\ kind' = kind /\ addon' = addon
    BY <2>1, <2>3, GoesAlone, GoesMeets DEF Places, Waits
  <2>5. Order(o, S) \in Jobs /\ DOMAIN Order(o, S) \subseteq Services
    BY <2>2, OrderTyped
  <2>6. jobs' \in [Ops -> Jobs] /\ contested' \subseteq Services
    BY <2>1, <2>5, ToldTyped DEF LifecycleTypeOK, Contested
  <2> QED BY <1>12, <2>4, <2>6 DEF Spawns, LifecycleTypeOK, Places
<1> QED BY <1>1, <1>2, <1>3, <1>4, <1>5, <1>6, <1>7, <1>8, <1>9, <1>10, <1>11, <1>12 DEF GoesOn

\* So does one that fails or is killed.
LEMMA EndsTyped ==
  ASSUME LifecycleTypeOK, NEW o \in Ops, UpgradeThrows(o) \/ DockerFails(o) \/ Kill(o)
  PROVE  LifecycleTypeOK'
<1> USE DEF config, docker
<1>1. CASE UpgradeThrows(o)
  <2>1. PICK from \in {"lookup", "assets", "reconcile"} : Fails(o, from)
    BY <1>1 DEF UpgradeThrows
  <2>2. Goes(o, from, "failed") /\ Released(o)
    BY <2>1 DEF Fails
  <2>3. /\ pc' \in [Ops -> Places] /\ met' \in [Ops -> SUBSET Ops] /\ kind' = kind /\ addon' = addon
        /\ lock' \in Ops \cup {None}
    BY <2>2, GoesAlone, GoesMeets, LockTyped DEF Places
  <2>4. stackEnv' \in StackEnv
    BY <1>1 DEF UpgradeThrows, PutBack, LifecycleTypeOK
  <2> QED BY <1>1, <2>3, <2>4 DEF UpgradeThrows, LifecycleTypeOK, Places
<1>2. CASE DockerFails(o)
  <2>1. \E from \in Waits, to \in {"failed", "warned"} :
          Goes(o, from, to) /\ (Released(o) \/ lock' = lock)
    BY <1>2 DEF DockerFails, Ended, Fails, Waits
  <2>2. /\ pc' \in [Ops -> Places] /\ met' \in [Ops -> SUBSET Ops] /\ kind' = kind /\ addon' = addon
        /\ lock' \in Ops \cup {None}
    BY <2>1, GoesAlone, GoesMeets, LockTyped DEF Places
  <2>3. jobs' \in [Ops -> Jobs]
    BY <1>2, NothingTyped, ToldTyped DEF DockerFails
  <2> QED BY <1>2, <2>2, <2>3 DEF DockerFails, LifecycleTypeOK, Places
<1>3. CASE Kill(o)
  <2>1. PICK from \in Waits : Goes(o, from, "killed")
    BY <1>3 DEF Kill
  <2>2. pc' \in [Ops -> Places] /\ met' \in [Ops -> SUBSET Ops] /\ kind' = kind /\ addon' = addon
    BY <2>1, GoesAlone, GoesMeets DEF Places
  <2>3. jobs' \in [Ops -> Jobs]
    BY <1>3, NothingTyped, ToldTyped DEF Kill, LifecycleTypeOK
  <2> QED BY <1>3, <2>2, <2>3 DEF Kill, LifecycleTypeOK, Places
<1> QED BY <1>1, <1>2, <1>3

\* A docker command that goes on with its work.
LEMMA WorksTyped ==
  ASSUME LifecycleTypeOK, NEW o \in Ops, Works(o)
  PROVE  LifecycleTypeOK'
<1>1. PICK s \in DOMAIN jobs[o] :
        /\ containers' = [containers EXCEPT ![s] = jobs[o][s]]
        /\ Told(o, Restrict(jobs[o], DOMAIN jobs[o] \ {s}))
  BY DEF Works
<1>2. PICK S \in SUBSET Services : jobs[o] \in [S -> {None} \cup Containers]
  BY DEF LifecycleTypeOK, Jobs
<1>3. containers' \in [Services -> {None} \cup Containers]
  BY <1>1, <1>2 DEF LifecycleTypeOK
<1>4. Restrict(jobs[o], DOMAIN jobs[o] \ {s}) \in [S \ {s} -> {None} \cup Containers]
  BY <1>2 DEF Restrict
<1>5. Restrict(jobs[o], DOMAIN jobs[o] \ {s}) \in Jobs
  BY <1>4, JobsAre
<1>6. jobs' \in [Ops -> Jobs]
  BY <1>1, <1>5, ToldTyped
<1> QED BY <1>3, <1>6 DEF Works, config, LifecycleTypeOK

(***************************************************************************)
(* The steps.                                                              *)
(***************************************************************************)
\* A step of an operation; and a docker command at work, or nobody, which leaves the
\* files and the operations as they are.
Step(o) == Begins(o) \/ GoesOn(o) \/ UpgradeThrows(o) \/ DockerFails(o) \/ Kill(o)
Still == UNCHANGED <<kind, addon, pc, found, files, named, stackEnv, coreCompose, enabled, guardianEnv, snapshot,
                     contested, lock, met>>

LEMMA StepOrStill ==
  ASSUME [LifecycleNext]_lifecycleVars
  PROVE  \/ \E o \in Ops : Step(o)
         \/ Still /\ ((\E o \in Ops : Works(o)) \/ UNCHANGED <<containers, jobs>>)
<1>1. ASSUME NEW o \in Ops, Works(o) PROVE Still
  BY <1>1 DEF Works, Still, config
<1>2. CASE UNCHANGED lifecycleVars
  BY <1>2 DEF lifecycleVars, config, docker, Still
<1> QED BY <1>1, <1>2 DEF LifecycleNext, Step

LEMMA StepTyped ==
  ASSUME LifecycleTypeOK, [LifecycleNext]_lifecycleVars
  PROVE  LifecycleTypeOK'
<1>1. CASE LifecycleNext
  BY <1>1, BeginsTyped, GoesOnTyped, EndsTyped, WorksTyped DEF LifecycleNext
<1>2. CASE UNCHANGED lifecycleVars
  BY <1>2 DEF lifecycleVars, config, docker, LifecycleTypeOK
<1> QED BY <1>1, <1>2

LEMMA InitTyped ==
  ASSUME LifecycleInit
  PROVE  LifecycleTypeOK
<1>1. stackEnv \in StackEnv /\ coreCompose \in Versions /\ found \in [Ops -> StackEnv]
  BY DEF LifecycleInit, StackEnv, Versions
<1>2. enabled \subseteq Addons /\ guardianEnv \in Secrets
  BY DEF LifecycleInit, Secrets
<1>3. \A s \in Services : Created(s) \in Containers
  BY <1>1, <1>2 DEF Created, Containers, Services, StackEnv, Versions, Secrets
<1>4. containers \in [Services -> {None} \cup Containers]
  BY <1>3 DEF LifecycleInit
<1>5. snapshot \in [by : Ops \cup {Initial, None}, stackEnv : StackEnv, coreCompose : Versions, enabled : SUBSET Addons,
                     guardianEnv : Secrets]
  BY <1>1, <1>2 DEF LifecycleInit
<1>6. [s \in {} |-> None] \in Jobs
  BY StopTyped
<1>7. jobs \in [Ops -> Jobs]
  BY <1>6 DEF LifecycleInit
<1> QED BY <1>1, <1>2, <1>4, <1>5, <1>7 DEF LifecycleInit, LifecycleTypeOK

\* Types.
THEOREM LifecycleTypeCorrect == LifecycleSpec => []LifecycleTypeOK
BY InitTyped, StepTyped, PTL DEF LifecycleSpec

(***************************************************************************)
(* The shape of a step.                                                    *)
(***************************************************************************)
\* A step that leaves stack.env, core.compose.yml, the snapshot and what
\* performUpgrade has found as they are, and starts no part of an upgrade but
\* its first.
Quiet(o) ==
  /\ \E from \in Waits \cup {"new"}, to \in Places \ {"new", "lookup", "assets", "pull"} :
       /\ Goes(o, from, to)
       /\ to = "preflight" => kind[o] = "upgrade"
       /\ to = "reconcile" => kind[o] # "upgrade"
       /\ from = "assets" => to = "killed"
  /\ UNCHANGED <<stackEnv, coreCompose, snapshot, found>>

\* The steps there are.
LEMMA StepShape ==
  ASSUME NEW o \in Ops, Step(o)
  PROVE  \/ Quiet(o) \/ Preflighted(o) \/ LookedUp(o) \/ Downloaded(o) \/ UpgradeThrows(o)
         \/ Rollback(o) \/ SaveSetting(o)
         \/ \E to \in {"config", "ok", "pull"} : Reconciles(o, to)
<1> USE DEF config, IsA
<1>1. CASE Apply(o)
  BY <1>1 DEF Apply, Fails, Quiet, Waits, Places
<1>2. CASE Uninstall(o)
  BY <1>2 DEF Uninstall, Quiet, Waits, Places
<1>3. CASE Upgrade(o)
  BY <1>3 DEF Upgrade, Quiet, Waits, Places
<1>4. CASE EnableAddon(o)
  BY <1>4 DEF EnableAddon, Quiet, Waits, Places
<1>5. CASE DisableAddon(o)
  BY <1>5 DEF DisableAddon, Quiet, Waits, Places
<1>6. CASE WentDown(o)
  BY <1>6 DEF WentDown, Fails, Quiet, Waits, Places
<1>7. CASE Pulled(o)
  BY <1>7 DEF Pulled, Quiet, Waits, Places
<1>8. CASE Up(o)
  BY <1>8 DEF Up, Quiet, Waits, Places
<1>9. CASE StopsAddon(o)
  BY <1>9 DEF StopsAddon, Quiet, Waits, Places
<1>10. CASE RemovesAddon(o)
  BY <1>10 DEF RemovesAddon, Quiet, Waits, Places
<1>11. CASE DockerFails(o)
  BY <1>11 DEF DockerFails, Ended, Fails, Quiet, Waits, Places
<1>12. CASE Kill(o)
  BY <1>12 DEF Kill, Quiet, Waits, Places
<1>13. CASE Applied(o) \/ Uninstalled(o) \/ Upgraded(o)
  BY <1>13 DEF Applied, Uninstalled, Upgraded
<1>14. CASE Spawns(o)
  BY <1>14 DEF Spawns, Ended, Quiet, Waits, Places
<1> QED BY <1>1, <1>2, <1>3, <1>4, <1>5, <1>6, <1>7, <1>8, <1>9, <1>10, <1>11, <1>12, <1>13, <1>14
        DEF Step, Begins, GoesOn

\* Every step moves one operation, out of a wait or its beginning.
LEMMA StepGoes ==
  ASSUME NEW o \in Ops, Step(o)
  PROVE  \E from \in Waits \cup {"new"}, to \in Places \ {"new"} : Goes(o, from, to)
<1>1. CASE Quiet(o)
  BY <1>1 DEF Quiet
<1>2. CASE Preflighted(o) \/ Downloaded(o)
  BY <1>2 DEF Preflighted, Downloaded, Places, Waits
<1>3. CASE LookedUp(o)
  BY <1>3 DEF LookedUp, Fails, Places, Waits
<1>4. CASE UpgradeThrows(o)
  BY <1>4 DEF UpgradeThrows, Fails, Places, Waits
<1>5. CASE Rollback(o)
  BY <1>5 DEF Rollback, Places, Waits
<1>6. CASE SaveSetting(o)
  BY <1>6 DEF SaveSetting, Places
<1>7. CASE \E to \in {"config", "ok", "pull"} : Reconciles(o, to)
  BY <1>7 DEF Reconciles, Places, Waits
<1> QED BY <1>1, <1>2, <1>3, <1>4, <1>5, <1>6, <1>7, StepShape

\* Nobody begins twice, and whom an operation has met it has met for good.
LEMMA StepKeeps ==
  ASSUME LifecycleTypeOK, NEW o \in Ops, Step(o)
  PROVE  /\ kind' = kind /\ addon' = addon
         /\ \A p \in Ops : pc[p] # "new" => pc'[p] # "new"
         /\ \A p \in Ops \ {o} : pc'[p] = pc[p]
         /\ \A p \in Ops : pc[p] \in {"ok", "warned", "failed", "killed"} => pc'[p] = pc[p]
         /\ \A p \in Ops : pc[p] # "new" => met[p] \subseteq met'[p]
<1>1. PICK from \in Waits \cup {"new"}, to \in Places \ {"new"} : Goes(o, from, to)
  BY StepGoes
<1>2. /\ pc[o] = from /\ pc'[o] = to /\ kind' = kind /\ addon' = addon
      /\ \A p \in Ops \ {o} : pc'[p] = pc[p]
  BY <1>1, GoesAlone
<1>3. \A p \in Ops : pc[p] # "new" => met[p] \subseteq met'[p]
  BY <1>1, <1>2, GoesMeets
<1> QED BY <1>1, <1>2, <1>3 DEF Waits

(***************************************************************************)
(* The lock.                                                               *)
(***************************************************************************)
\* A step takes the lock when it is free, gives it back, or leaves it alone.
LEMMA LockKept ==
  ASSUME LockExact, NEW o \in Ops, NEW from \in Places, NEW to \in Places, Goes(o, from, to),
         \/ to \notin {"assets", "reconcile"} /\ Released(o)
         \/ to \in {"assets", "reconcile"} /\ LockFree /\ lock' = o
         \/ from \notin {"assets", "reconcile"} /\ to \notin {"assets", "reconcile"} /\ from # "killed" /\ lock' = lock
         \/ to = "killed" /\ lock' = lock
         \/ from = "assets" /\ to = "reconcile" /\ lock' = lock
  PROVE  /\ \A p \in Ops : pc'[p] \in {"assets", "reconcile"} => lock' = p
         /\ \A p \in Ops : lock' = p => pc'[p] \in {"assets", "reconcile", "killed"}
<1>1. /\ pc[o] = from /\ pc'[o] = to
      /\ \A p \in Ops \ {o} : pc'[p] = pc[p]
  BY GoesAlone DEF LockExact
<1>2. /\ \A p \in Ops : pc[p] \in {"assets", "reconcile"} => lock = p
      /\ \A p \in Ops : lock = p => pc[p] \in {"assets", "reconcile", "killed"}
  BY DEF LockExact
<1>3. None \notin Ops
  BY LifecycleAssumption
<1>4. CASE to \notin {"assets", "reconcile"} /\ Released(o)
  BY <1>1, <1>2, <1>3, <1>4 DEF Released
<1>5. CASE to \in {"assets", "reconcile"} /\ LockFree /\ lock' = o
  BY <1>1, <1>2, <1>5 DEF LockFree
<1>6. CASE from \notin {"assets", "reconcile"} /\ to \notin {"assets", "reconcile"} /\ from # "killed" /\ lock' = lock
  BY <1>1, <1>2, <1>6
<1>7. CASE to = "killed" /\ lock' = lock
  BY <1>1, <1>2, <1>7
<1>8. CASE from = "assets" /\ to = "reconcile" /\ lock' = lock
  BY <1>1, <1>2, <1>8
<1> QED BY <1>4, <1>5, <1>6, <1>7, <1>8

\* Every step does one of these.
LEMMA StepLocks ==
  ASSUME NEW o \in Ops, Step(o)
  PROVE  \E from \in Places, to \in Places :
           /\ Goes(o, from, to)
           /\ \/ to \notin {"assets", "reconcile"} /\ Released(o)
              \/ to \in {"assets", "reconcile"} /\ LockFree /\ lock' = o
              \/ from \notin {"assets", "reconcile"} /\ to \notin {"assets", "reconcile"} /\ from # "killed" /\ lock' = lock
              \/ to = "killed" /\ lock' = lock
              \/ from = "assets" /\ to = "reconcile" /\ lock' = lock
<1> USE DEF Places, Waits
<1>1. CASE Apply(o)
  BY <1>1 DEF Apply, Fails
<1>2. CASE Uninstall(o) \/ Upgrade(o)
  BY <1>2 DEF Uninstall, Upgrade
<1>3. CASE Rollback(o)
  BY <1>3 DEF Rollback
<1>4. CASE EnableAddon(o)
  BY <1>4 DEF EnableAddon
<1>5. CASE DisableAddon(o)
  BY <1>5 DEF DisableAddon
<1>6. CASE SaveSetting(o)
  BY <1>6 DEF SaveSetting
<1>7. CASE Applied(o) \/ Uninstalled(o) \/ Upgraded(o)
  BY <1>7 DEF Applied, Uninstalled, Upgraded, Reconciles
<1>8. CASE WentDown(o)
  BY <1>8 DEF WentDown, Fails
<1>9. CASE Preflighted(o) \/ Downloaded(o)
  BY <1>9 DEF Preflighted, Downloaded
<1>10. CASE LookedUp(o)
  BY <1>10 DEF LookedUp, Fails
<1>11. CASE Pulled(o) \/ Up(o)
  BY <1>11 DEF Pulled, Up
<1>12. CASE StopsAddon(o) \/ RemovesAddon(o)
  BY <1>12 DEF StopsAddon, RemovesAddon
<1>13. CASE UpgradeThrows(o)
  BY <1>13 DEF UpgradeThrows, Fails
<1>14. CASE DockerFails(o)
  BY <1>14 DEF DockerFails, Ended, Fails
<1>15. CASE Kill(o)
  BY <1>15 DEF Kill
<1>16. CASE Spawns(o)
  BY <1>16 DEF Spawns, Ended
<1> QED BY <1>1, <1>2, <1>3, <1>4, <1>5, <1>6, <1>7, <1>8, <1>9, <1>10, <1>11, <1>12, <1>13, <1>14, <1>15, <1>16
        DEF Step, Begins, GoesOn

LEMMA LockStep ==
  ASSUME LockExact, [LifecycleNext]_lifecycleVars
  PROVE  LockExact'
<1>1. LifecycleTypeOK'
  BY StepTyped DEF LockExact
<1>2. ASSUME NEW o \in Ops, Step(o) PROVE LockExact'
  BY <1>1, <1>2, StepLocks, LockKept DEF LockExact
<1>3. CASE Still
  BY <1>1, <1>3 DEF Still, LockExact
<1> QED BY <1>2, <1>3, StepOrStill

\* Whatever path an operation takes out of its locked part, it gives the lock
\* back: the `finally` blocks of applyInstall, applyUpdate, applyUninstall and
\* performUpgrade, for any number of operations and of processes killed.
THEOREM LockIsExact == LifecycleSpec => []LockExact
<1>1. LifecycleInit => LockExact
  BY InitTyped, LifecycleAssumption DEF LifecycleInit, LockExact
<1> QED BY <1>1, LockStep, PTL DEF LifecycleSpec

(***************************************************************************)
(* The secrets.                                                            *)
(***************************************************************************)
\* The steps that touch the overlays or the guardian's file.
LEMMA StepSecrets ==
  ASSUME NEW o \in Ops, Step(o)
  PROVE  \/ UNCHANGED <<enabled, guardianEnv>>
         \/ EnableAddon(o) \/ RemovesAddon(o) \/ Rollback(o)
         \/ \E to \in {"config", "ok", "pull"} : Reconciles(o, to)
<1> USE DEF config
<1>1. CASE Apply(o) \/ Uninstall(o) \/ Upgrade(o) \/ DisableAddon(o) \/ SaveSetting(o)
  BY <1>1 DEF Apply, Uninstall, Upgrade, DisableAddon, SaveSetting
<1>2. CASE Applied(o) \/ Uninstalled(o) \/ Upgraded(o)
  BY <1>2 DEF Applied, Uninstalled, Upgraded
<1>3. CASE WentDown(o) \/ Preflighted(o) \/ LookedUp(o) \/ Downloaded(o) \/ Pulled(o) \/ Spawns(o) \/ Up(o) \/ StopsAddon(o)
  BY <1>3 DEF WentDown, Preflighted, LookedUp, Downloaded, Pulled, Spawns, Up, StopsAddon
<1>4. CASE UpgradeThrows(o) \/ DockerFails(o) \/ Kill(o)
  BY <1>4 DEF UpgradeThrows, DockerFails, Kill
<1> QED BY <1>1, <1>2, <1>3, <1>4 DEF Step, Begins, GoesOn

LEMMA SecretsStep ==
  ASSUME LifecycleTypeOK, EnabledHasSecret, [LifecycleNext]_lifecycleVars
  PROVE  EnabledHasSecret'
<1>1. ASSUME NEW o \in Ops, Step(o) PROVE EnabledHasSecret'
  <2>1. Step(o)
    BY <1>1
  <2>2. kind' = kind /\ addon' = addon /\ \A p \in Ops : pc[p] # "new" => pc'[p] # "new"
    BY <2>1, StepKeeps
  <2>3. o # None
    BY LifecycleAssumption
  <2>4. CASE UNCHANGED <<enabled, guardianEnv>>
    BY <2>2, <2>4 DEF EnabledHasSecret
  <2>5. CASE EnableAddon(o)
    <3>1. \A a \in enabled' : guardianEnv'[a] = None => a \in enabled /\ guardianEnv[a] = None
      BY <2>3, <2>5 DEF EnableAddon, NewSecret, LifecycleTypeOK, Secrets
    <3> QED BY <2>2, <3>1 DEF EnabledHasSecret
  <2>6. CASE RemovesAddon(o)
    BY <2>2, <2>6 DEF RemovesAddon, EnabledHasSecret
  <2>7. CASE Rollback(o)
    <3>1. CASE Goes(o, "new", "failed") /\ UNCHANGED <<config, named>>
      BY <2>2, <3>1 DEF config, EnabledHasSecret
    <3>2. CASE Goes(o, "new", "config")
      <4>1. kind'[o] = "rollback" /\ pc'[o] # "new"
        BY <2>2, <2>7, <3>2, GoesAlone DEF Rollback, IsA, Places, Waits
      <4> QED BY <4>1 DEF EnabledHasSecret
    <3> QED BY <2>7, <3>1, <3>2 DEF Rollback
  <2>8. ASSUME NEW to \in {"config", "ok", "pull"}, Reconciles(o, to) PROVE EnabledHasSecret'
    <3>1. \A a \in enabled' : guardianEnv'[a] # None
      BY <2>3, <2>8 DEF Reconciles, SecretsWritten, LifecycleTypeOK, Secrets
    <3> QED BY <3>1 DEF EnabledHasSecret
  <2> QED BY <2>1, <2>4, <2>5, <2>6, <2>7, <2>8, StepSecrets
<1>2. CASE Still
  BY <1>2 DEF Still, EnabledHasSecret
<1> QED BY <1>1, <1>2, StepOrStill

\* A channel that is enabled has a secret in guardian.env, whatever the order of
\* enabling, reconcileCore and removal, unless a rollback has put an older file
\* back.
THEOREM EnabledHaveSecrets == LifecycleSpec => []EnabledHasSecret
<1>1. LifecycleInit => EnabledHasSecret
  BY LifecycleAssumption DEF LifecycleInit, EnabledHasSecret
<1> QED BY <1>1, LifecycleTypeCorrect, SecretsStep, PTL DEF LifecycleSpec

(***************************************************************************)
(* Operations that run together.                                           *)
(***************************************************************************)
\* Any two operations in flight have met, one that has not begun has met nobody,
\* and the first parts of performUpgrade are an upgrade's.
Together ==
  /\ \A p, q \in InFlight : p # q => q \in met[p]
  /\ \A p \in Ops : pc[p] = "new" => met[p] = {}
  /\ \A u \in Ops : pc[u] \in {"preflight", "lookup", "assets", "pull"} => kind[u] = "upgrade"

\* Where a step that is not quiet leads to.
LEMMA StepPlaces ==
  ASSUME LifecycleTypeOK, NEW o \in Ops, Step(o)
  PROVE  /\ pc'[o] = "preflight" => kind[o] = "upgrade"
         /\ pc'[o] = "lookup" => Preflighted(o)
         /\ pc'[o] = "assets" => LookedUp(o)
         /\ pc'[o] = "pull" => \E to \in {"config", "ok", "pull"} : Reconciles(o, to)
         /\ pc'[o] = "reconcile" => kind[o] # "upgrade" \/ Downloaded(o)
         /\ pc[o] = "assets" => pc'[o] = "killed" \/ UpgradeThrows(o) \/ Downloaded(o)
<1>1. CASE Quiet(o)
  BY <1>1, GoesAlone DEF Quiet
<1>2. CASE Preflighted(o) \/ Downloaded(o)
  BY <1>2, GoesAlone DEF Preflighted, Downloaded, Places, Waits
<1>3. CASE LookedUp(o)
  BY <1>3, GoesAlone DEF LookedUp, Fails, Places, Waits
<1>4. CASE UpgradeThrows(o)
  BY <1>4, GoesAlone DEF UpgradeThrows, Fails, Places, Waits
<1>5. CASE Rollback(o)
  BY <1>5, GoesAlone DEF Rollback, Places, Waits
<1>6. CASE SaveSetting(o)
  BY <1>6, GoesAlone DEF SaveSetting, Places, Waits
<1>7. CASE \E to \in {"config", "ok", "pull"} : Reconciles(o, to)
  BY <1>7, GoesAlone DEF Reconciles, Places, Waits
<1> QED BY <1>1, <1>2, <1>3, <1>4, <1>5, <1>6, <1>7, StepShape

\* Only upgrades go on to pull.
LEMMA StepPulls ==
  ASSUME LifecycleTypeOK, NEW o \in Ops, Step(o), pc'[o] = "pull"
  PROVE  kind[o] = "upgrade"
<1>1. PICK to \in {"config", "ok", "pull"} : Reconciles(o, to)
  BY StepPlaces
<1>2. pc[o] = "reconcile"
  BY <1>1 DEF Reconciles, Goes
<1>3. CASE Applied(o) \/ Uninstalled(o)
  BY <1>3, GoesAlone DEF Applied, Uninstalled, Reconciles, Places, Waits
<1>4. CASE DockerFails(o) \/ Kill(o)
  BY <1>4, GoesAlone DEF DockerFails, Ended, Fails, Kill, Places, Waits
<1>5. CASE Upgraded(o) \/ UpgradeThrows(o)
  BY <1>5 DEF Upgraded, UpgradeThrows, IsA
<1>6. CASE Begins(o)
  BY <1>2, <1>6 DEF Begins, Apply, Uninstall, Upgrade, Rollback, EnableAddon, DisableAddon, SaveSetting, Fails, Goes
<1>7. CASE WentDown(o) \/ Preflighted(o) \/ LookedUp(o) \/ Downloaded(o) \/ Pulled(o)
           \/ Spawns(o) \/ Up(o) \/ StopsAddon(o) \/ RemovesAddon(o)
  BY <1>2, <1>7 DEF WentDown, Preflighted, LookedUp, Downloaded, Pulled, Spawns, Up, StopsAddon, RemovesAddon, Fails, Goes
<1> QED BY <1>3, <1>4, <1>5, <1>6, <1>7 DEF Step, GoesOn

LEMMA TogetherStep ==
  ASSUME LifecycleTypeOK, Together, NEW o \in Ops, Step(o)
  PROVE  Together'
<1>1. PICK from \in Waits \cup {"new"}, to \in Places \ {"new"} : Goes(o, from, to)
  BY StepGoes
<1>2. /\ pc[o] = from /\ pc'[o] = to /\ kind' = kind
      /\ \A p \in Ops \ {o} : pc'[p] = pc[p]
  BY <1>1, GoesAlone
<1>3. /\ from # "new" => met' = met
      /\ from = "new" => met'[o] = InFlight
      /\ from = "new" => \A p \in InFlight \ {o} : met'[p] = met[p] \cup {o}
  BY <1>1, GoesMeets
<1>4. ASSUME NEW p \in InFlight', NEW q \in InFlight', p # q PROVE q \in met'[p]
  <2>1. p \in Ops /\ q \in Ops /\ (p # o => p \in InFlight) /\ (q # o => q \in InFlight)
    BY <1>2 DEF InFlight
  <2>2. CASE from # "new"
    <3>1. p \in InFlight /\ q \in InFlight
      BY <1>2, <2>1, <2>2 DEF InFlight
    <3> QED BY <1>3, <1>4, <2>2, <3>1 DEF Together
  <2>3. CASE from = "new" /\ p = o
    BY <1>3, <1>4, <2>1, <2>3
  <2>4. CASE from = "new" /\ q = o
    BY <1>3, <1>4, <2>1, <2>4
  <2>5. CASE from = "new" /\ p # o /\ q # o
    BY <1>3, <1>4, <2>1, <2>5 DEF Together
  <2> QED BY <2>2, <2>3, <2>4, <2>5
<1>5. ASSUME NEW u \in Ops, pc'[u] \in {"preflight", "lookup", "assets", "pull"} PROVE kind'[u] = "upgrade"
  <2>1. CASE u # o
    BY <1>2, <1>5, <2>1 DEF Together
  <2>2. CASE u = o
    <3>1. CASE pc'[u] = "lookup"
      BY <1>2, <2>2, <3>1, StepPlaces DEF Together, Preflighted, Goes
    <3>2. CASE pc'[u] = "assets"
      BY <1>2, <2>2, <3>2, StepPlaces DEF Together, LookedUp, Goes, Fails
    <3> QED BY <1>2, <1>5, <2>2, <3>1, <3>2, StepPlaces, StepPulls
  <2> QED BY <2>1, <2>2
<1>6. ASSUME NEW p \in Ops, pc'[p] = "new" PROVE met'[p] = {}
  <2>1. p # o /\ pc[p] = "new" /\ p \notin InFlight
    BY <1>2, <1>6 DEF InFlight, Waits
  <2>2. met'[p] = met[p]
    BY <1>1, <2>1, GoesMeets
  <2> QED BY <2>1, <2>2 DEF Together
<1> QED BY <1>4, <1>5, <1>6 DEF Together

LEMMA TogetherInvariant == LifecycleSpec => []Together
<1>1. LifecycleInit => Together
  BY DEF LifecycleInit, Together, InFlight, Waits
<1>2. LifecycleTypeOK /\ Together /\ [LifecycleNext]_lifecycleVars => Together'
  <2>1. ASSUME Together, Still PROVE Together'
    BY <2>1 DEF Still, Together, InFlight
  <2> QED BY <2>1, TogetherStep, StepOrStill
<1> QED BY <1>1, <1>2, LifecycleTypeCorrect, PTL DEF LifecycleSpec

\* An upgrade in flight that sees another one, or a rollback, take a step has a rival.
LEMMA RivalsMet ==
  ASSUME LifecycleTypeOK, Together, NEW o \in Ops, Step(o), kind[o] \in {"upgrade", "rollback"},
         NEW u \in InFlight, u # o
  PROVE  Rivals(u)' # {}
<1>1. u \in Ops
  BY DEF InFlight
<1>2. kind' = kind /\ met[u] \subseteq met'[u]
  BY <1>1, StepKeeps DEF InFlight, Waits
<1>3. PICK from \in Waits \cup {"new"}, to \in Places \ {"new"} : Goes(o, from, to)
  BY StepGoes
<1>4. o \in met'[u]
  <2>1. CASE from = "new"
    BY <1>3, <2>1, GoesMeets
  <2>2. CASE from # "new"
    BY <1>2, <1>3, <2>2 DEF Together, InFlight, Goes
  <2> QED BY <2>1, <2>2
<1> QED BY <1>2, <1>4 DEF Rivals

(***************************************************************************)
(* The settings.                                                           *)
(***************************************************************************)
\* Past its first read of stack.env, until its lock is given back.
Upgrading == {u \in Ops : kind[u] = "upgrade" /\ pc[u] \in {"lookup", "assets", "reconcile"}}

\* What an upgrade did not find and is there now came while it went on.
SettingsCame ==
  \A u \in Upgrading : \A s \in stackEnv.settings \ found[u].settings : s \in met[u] \/ Rivals(u) # {}

\* Where the operations upgrading come from, and that their find stays.
LEMMA StepUpgrading ==
  ASSUME LifecycleTypeOK, Together, NEW o \in Ops, Step(o), NEW u \in Upgrading'
  PROVE  /\ u \in Ops /\ kind[u] = "upgrade"
         /\ \/ u = o /\ Preflighted(o)
            \/ u \in Upgrading /\ u \in InFlight /\ found'[u] = found[u] /\ met[u] \subseteq met'[u]
               /\ (u = o => LookedUp(o) \/ Downloaded(o))
<1>1. u \in Ops /\ kind[u] = "upgrade" /\ pc'[u] \in {"lookup", "assets", "reconcile"}
  BY StepKeeps DEF Upgrading
<1>2. found' = found \/ Preflighted(o)
  BY StepShape DEF Quiet, LookedUp, Downloaded, UpgradeThrows, Rollback, SaveSetting, Reconciles
<1>3. Preflighted(o) => \A p \in Ops \ {o} : found'[p] = found[p]
  BY DEF Preflighted, LifecycleTypeOK
<1>4. CASE u # o
  <2>1. pc[u] = pc'[u]
    BY <1>1, <1>4, StepKeeps
  <2>2. met[u] \subseteq met'[u]
    BY <1>1, <2>1, StepKeeps
  <2> QED BY <1>1, <1>2, <1>3, <1>4, <2>1, <2>2 DEF Upgrading, InFlight, Waits
<1>5. CASE u = o
  <2>1. Preflighted(o) \/ LookedUp(o) \/ Downloaded(o)
    BY <1>1, <1>5, StepPlaces
  <2>2. ASSUME ~Preflighted(o) PROVE pc[o] \in {"lookup", "assets"}
    BY <2>1, <2>2 DEF LookedUp, Downloaded, Goes, Fails
  <2>3. ASSUME ~Preflighted(o) PROVE met[o] \subseteq met'[o]
    BY <2>2, <2>3, StepKeeps
  <2> QED BY <1>1, <1>2, <1>5, <2>1, <2>2, <2>3 DEF Upgrading, InFlight, Waits
<1> QED BY <1>1, <1>4, <1>5

\* What a step does to the settings.
LEMMA StepSettings ==
  ASSUME LifecycleTypeOK, Together, NEW o \in Ops, Step(o)
  PROVE  \/ stackEnv'.settings = stackEnv.settings
         \/ SaveSetting(o) /\ stackEnv'.settings = stackEnv.settings \cup {o}
         \/ Rollback(o) /\ kind[o] = "rollback" /\ pc[o] = "new"
         \/ o \in Upgrading /\ pc'[o] = "failed" /\ kind'[o] = "upgrade" /\ stackEnv' = found[o]
<1>1. stackEnv \in StackEnv
  BY DEF LifecycleTypeOK
<1>2. CASE LookedUp(o)
  <2>1. CASE stackEnv' = Tagged(o)
    BY <1>1, <2>1 DEF Tagged, StackEnv
  <2>2. CASE Fails(o, "lookup") /\ stackEnv' = found[o]
    BY <2>2, StepKeeps, GoesAlone DEF Together, Upgrading, Fails, Goes, Places
  <2> QED BY <1>2, <2>1, <2>2 DEF LookedUp
<1>3. CASE UpgradeThrows(o)
  <2>1. PICK from \in {"lookup", "assets", "reconcile"} : Fails(o, from)
    BY <1>3 DEF UpgradeThrows
  <2>2. pc[o] = from /\ pc'[o] = "failed"
    BY <2>1, GoesAlone DEF Fails, Places
  <2> QED BY <1>3, <2>1, <2>2, StepKeeps DEF UpgradeThrows, PutBack, IsA, Upgrading
<1>4. CASE Rollback(o)
  BY <1>4 DEF Rollback, IsA, Goes
<1>5. CASE SaveSetting(o)
  BY <1>1, <1>5 DEF SaveSetting, StackEnv
<1>6. CASE Quiet(o) \/ Preflighted(o) \/ Downloaded(o) \/ \E to \in {"config", "ok", "pull"} : Reconciles(o, to)
  BY <1>6 DEF Quiet, Preflighted, Downloaded, Reconciles, config
<1> QED BY <1>2, <1>3, <1>4, <1>5, <1>6, StepShape

LEMMA SettingsStep ==
  ASSUME LifecycleTypeOK, Together, SettingsCame, NEW o \in Ops, Step(o)
  PROVE  SettingsCame'
<1> SUFFICES ASSUME NEW u \in Upgrading', NEW s \in stackEnv'.settings \ found'[u].settings
             PROVE  s \in met'[u] \/ Rivals(u)' # {}
  BY DEF SettingsCame
<1>1. u \in Ops
  BY StepUpgrading
<1>2. CASE u = o /\ Preflighted(o)
  BY <1>2 DEF Preflighted, LifecycleTypeOK, config
<1>3. CASE /\ u \in Upgrading /\ u \in InFlight /\ found'[u] = found[u] /\ met[u] \subseteq met'[u]
           /\ (u = o => LookedUp(o) \/ Downloaded(o))
  <2>1. CASE s \in stackEnv.settings
    BY <1>1, <1>3, <2>1, StepKeeps DEF SettingsCame, Rivals
  <2>2. CASE SaveSetting(o) /\ s = o
    <3>1. Goes(o, "new", "ok")
      BY <2>2 DEF SaveSetting
    <3>2. u # o
      BY <1>3, <3>1 DEF InFlight, Goes, Waits
    <3> QED BY <1>3, <2>2, <3>1, <3>2, GoesMeets
  <2>3. CASE Rollback(o) /\ kind[o] = "rollback" /\ pc[o] = "new"
    BY <1>3, <2>3, RivalsMet DEF InFlight, Waits
  <2>4. CASE o \in Upgrading /\ pc'[o] = "failed"
    BY <1>3, <2>4, RivalsMet DEF Upgrading
  <2> QED BY <2>1, <2>2, <2>3, <2>4, StepSettings
<1> QED BY <1>2, <1>3, StepUpgrading

LEMMA SettingsInvariant == LifecycleSpec => []SettingsCame
<1>1. LifecycleInit => SettingsCame
  BY DEF LifecycleInit, SettingsCame, Upgrading
<1>2. LifecycleTypeOK /\ Together /\ SettingsCame /\ [LifecycleNext]_lifecycleVars => SettingsCame'
  <2>1. ASSUME SettingsCame, Still PROVE SettingsCame'
    BY <2>1 DEF Still, SettingsCame, Upgrading, Rivals
  <2> QED BY <2>1, SettingsStep, StepOrStill
<1> QED BY <1>1, <1>2, LifecycleTypeCorrect, TogetherInvariant, PTL DEF LifecycleSpec

\* A setting saved leaves stack.env only by a rollback, or by an upgrade that
\* fails and puts back a file older than the setting: what is saved before an
\* upgrade has read the file outlives it, whoever else runs.
THEOREM SettingsAreKept == LifecycleSpec => SettingsKept
<1> DEFINE Lost(s) == \E o \in Ops : \/ kind[o] = "rollback" /\ pc[o] = "new"
                                     \/ kind[o] = "upgrade" /\ pc'[o] = "failed" /\ (s \in met[o] \/ Rivals(o) # {})
<1>1. ASSUME LifecycleTypeOK, Together, SettingsCame, [LifecycleNext]_lifecycleVars,
             NEW s \in stackEnv.settings \ stackEnv'.settings
      PROVE  Lost(s)
  <2>1. PICK o \in Ops : Step(o)
    BY <1>1, StepOrStill DEF Still
  <2>2. CASE Rollback(o) /\ kind[o] = "rollback" /\ pc[o] = "new"
    BY <2>2
  <2>3. CASE o \in Upgrading /\ pc'[o] = "failed" /\ kind'[o] = "upgrade" /\ stackEnv' = found[o]
    BY <1>1, <2>3 DEF SettingsCame, Upgrading
  <2> QED BY <1>1, <2>1, <2>2, <2>3, StepSettings
<1>2. LifecycleTypeOK /\ Together /\ SettingsCame /\ [LifecycleNext]_lifecycleVars
      => [\A s \in stackEnv.settings \ stackEnv'.settings : Lost(s)]_lifecycleVars
  BY <1>1
<1> QED BY <1>2, LifecycleTypeCorrect, TogetherInvariant, SettingsInvariant, PTL DEF LifecycleSpec, SettingsKept

(***************************************************************************)
(* Tag and assets.                                                         *)
(***************************************************************************)
\* An upgrade was killed, or met another one or a rollback: for good.
Disturbed == \E u \in Ops : kind[u] = "upgrade" /\ (pc[u] = "killed" \/ Rivals(u) # {})

\* The assets are those of an upgrade that has failed: for good too.
LeftBehind(v) == \E u \in Ops : kind[u] = "upgrade" /\ pc[u] = "failed" /\ v = u

\* Undisturbed, an upgrade whose assets are to come has set the tag; the file it
\* would put back names the tag that was fetched with the assets in place, unless
\* these are its own; and so does the snapshot, but for assets an upgrade that failed
\* has left behind.
FetchKept ==
  /\ FetchedTogether
  /\ \A u \in Ops : pc[u] = "assets" => stackEnv.tag = u \/ Disturbed
  /\ \A u \in Upgrading : \/ coreCompose = found[u].tag \/ Disturbed \/ LeftBehind(coreCompose)
                          \/ coreCompose = u /\ pc[u] = "reconcile"
  /\ snapshot.stackEnv.tag # snapshot.coreCompose => Disturbed \/ LeftBehind(snapshot.coreCompose)

LEMMA StepDisturbs ==
  ASSUME LifecycleTypeOK, Together, NEW o \in Ops, Step(o)
  PROVE  /\ Disturbed => Disturbed'
         /\ \A v : LeftBehind(v) => \E u \in Ops : kind'[u] = "upgrade" /\ pc'[u] = "failed" /\ v = u
         /\ pc[o] = "assets" /\ pc'[o] = "killed" => Disturbed'
         /\ \A u \in Upgrading \ {o} : kind[o] \in {"upgrade", "rollback"} => Disturbed'
<1>1. kind' = kind /\ \A p \in Ops : pc[p] # "new" => met[p] \subseteq met'[p]
  BY StepKeeps
<1>2. ASSUME NEW u \in Ops, kind[u] = "upgrade", Rivals(u) # {} PROVE Rivals(u)' # {}
  <2>1. CASE pc[u] # "new"
    BY <1>1, <1>2, <2>1 DEF Rivals
  <2>2. CASE pc[u] = "new"
    BY <1>2, <2>2 DEF Rivals, Together
  <2> QED BY <2>1, <2>2
<1>3. Disturbed => Disturbed'
  BY <1>1, <1>2, StepKeeps DEF Disturbed
<1>4. \A v : LeftBehind(v) => \E u \in Ops : kind'[u] = "upgrade" /\ pc'[u] = "failed" /\ v = u
  BY <1>1, StepKeeps DEF LeftBehind
<1>5. pc[o] = "assets" /\ pc'[o] = "killed" => Disturbed'
  BY <1>1 DEF Disturbed, Together
<1>6. ASSUME NEW u \in Upgrading \ {o}, kind[o] \in {"upgrade", "rollback"} PROVE Disturbed'
  <2>1. u \in InFlight /\ kind[u] = "upgrade" /\ u \in Ops
    BY <1>6 DEF Upgrading, InFlight, Waits
  <2>2. Rivals(u)' # {}
    BY <1>6, <2>1, RivalsMet
  <2> QED BY <1>1, <2>1, <2>2 DEF Disturbed
<1> QED BY <1>3, <1>4, <1>5, <1>6

\* What FetchedTogether says, by the names above.
LEMMA FetchNamed ==
  FetchedTogether <=> \/ stackEnv.tag = coreCompose
                      \/ Disturbed \/ LeftBehind(coreCompose)
                      \/ \E u \in Ops : kind[u] = "upgrade" /\ pc[u] = "assets" /\ stackEnv.tag = u
BY DEF FetchedTogether, Disturbed, LeftBehind

\* What a step does to the tag and to the assets.
LEMMA StepFetches ==
  ASSUME LifecycleTypeOK, Together, NEW o \in Ops, Step(o)
  PROVE  /\ \/ /\ stackEnv'.tag = stackEnv.tag /\ coreCompose' = coreCompose
               /\ pc[o] = "assets" => pc'[o] = "killed"
            \/ /\ LookedUp(o) /\ kind[o] = "upgrade" /\ pc'[o] = "assets"
               /\ stackEnv'.tag = o /\ coreCompose' = coreCompose
            \/ /\ Downloaded(o) /\ kind[o] = "upgrade" /\ pc[o] = "assets" /\ pc'[o] = "reconcile"
               /\ stackEnv' = stackEnv /\ coreCompose' = o
            \/ /\ o \in Upgrading /\ pc'[o] = "failed"
               /\ stackEnv' = found[o] /\ coreCompose' = coreCompose
            \/ /\ kind[o] = "rollback" /\ stackEnv' = snapshot.stackEnv
               /\ coreCompose' = snapshot.coreCompose
         /\ snapshot' = snapshot \/ (\E to \in {"config", "ok", "pull"} : Reconciles(o, to))
<1>1. stackEnv \in StackEnv
  BY DEF LifecycleTypeOK
<1>2. CASE LookedUp(o)
  <2>1. pc[o] = "lookup" /\ kind[o] = "upgrade"
    BY <1>2 DEF LookedUp, Goes, Fails, Together
  <2>2. CASE Goes(o, "lookup", "assets") /\ stackEnv' = Tagged(o)
    <3>1. stackEnv'.tag = o /\ pc'[o] = "assets"
      BY <1>1, <2>2, GoesAlone DEF Tagged, StackEnv, Places, Waits
    <3> QED BY <1>2, <2>1, <3>1 DEF LookedUp
  <2>3. CASE Fails(o, "lookup") /\ stackEnv' = found[o]
    <3>1. pc'[o] = "failed"
      BY <2>3, GoesAlone DEF Fails, Places
    <3> QED BY <1>2, <2>1, <2>3, <3>1 DEF LookedUp, Upgrading
  <2> QED BY <1>2, <2>2, <2>3 DEF LookedUp
<1>3. CASE UpgradeThrows(o)
  <2>1. PICK from \in {"lookup", "assets", "reconcile"} : Fails(o, from)
    BY <1>3 DEF UpgradeThrows
  <2>2. pc[o] = from /\ pc'[o] = "failed"
    BY <2>1, GoesAlone DEF Fails, Places
  <2> QED BY <1>3, <2>1, <2>2 DEF UpgradeThrows, PutBack, IsA, Upgrading
<1>4. CASE Rollback(o)
  BY <1>4, GoesAlone DEF Rollback, IsA, Goes, config
<1>5. CASE SaveSetting(o)
  <2>1. pc[o] = "new" /\ stackEnv'.tag = stackEnv.tag
    BY <1>1, <1>5 DEF SaveSetting, StackEnv, Goes
  <2> QED BY <1>5, <2>1 DEF SaveSetting
<1>6. CASE Quiet(o)
  BY <1>6, GoesAlone DEF Quiet
<1>7. CASE Preflighted(o)
  BY <1>7 DEF Preflighted, Goes, config
<1>8. CASE Downloaded(o)
  <2>1. pc[o] = "assets" /\ pc'[o] = "reconcile"
    BY <1>8, GoesAlone DEF Downloaded, Places, Waits
  <2> QED BY <1>8, <2>1 DEF Downloaded, Together
<1>9. CASE \E to \in {"config", "ok", "pull"} : Reconciles(o, to)
  BY <1>9 DEF Reconciles, Goes
<1> QED BY <1>2, <1>3, <1>4, <1>5, <1>6, <1>7, <1>8, <1>9, StepShape

LEMMA FetchStep ==
  ASSUME LockExact, Together, FetchKept, NEW o \in Ops, Step(o)
  PROVE  FetchKept'
<1>1. LifecycleTypeOK
  BY DEF LockExact
<1>2. kind' = kind /\ \A p \in Ops \ {o} : pc'[p] = pc[p]
  BY <1>1, StepKeeps
<1>3. Disturbed => Disturbed'
  BY <1>1, StepDisturbs
<1>4. /\ LeftBehind(coreCompose) /\ coreCompose' = coreCompose => LeftBehind(coreCompose)'
      /\ LeftBehind(snapshot.coreCompose) /\ snapshot' = snapshot => LeftBehind(snapshot.coreCompose)'
      /\ LeftBehind(snapshot.coreCompose) /\ coreCompose' = snapshot.coreCompose => LeftBehind(coreCompose)'
      /\ LeftBehind(coreCompose) /\ snapshot'.coreCompose = coreCompose => LeftBehind(snapshot.coreCompose)'
  BY <1>1, StepDisturbs DEF LeftBehind
<1>5. FetchedTogether'
  <2> SUFFICES ASSUME ~Disturbed' PROVE FetchedTogether'
    BY DEF FetchedTogether, Disturbed
  <2>1. CASE /\ stackEnv'.tag = stackEnv.tag /\ coreCompose' = coreCompose
             /\ pc[o] = "assets" => pc'[o] = "killed"
    <3>1. CASE stackEnv.tag = coreCompose
      BY <2>1, <3>1 DEF FetchedTogether
    <3>2. CASE LeftBehind(coreCompose)
      BY <1>4, <2>1, <3>2 DEF FetchedTogether, LeftBehind
    <3>3. ASSUME NEW u \in Ops, kind[u] = "upgrade", pc[u] = "assets", stackEnv.tag = u PROVE FetchedTogether'
      <4>1. u # o
        BY <1>1, <2>1, <3>3, StepDisturbs
      <4> QED BY <1>2, <2>1, <3>3, <4>1 DEF FetchedTogether
    <3> QED BY <1>3, <3>1, <3>2, <3>3, FetchNamed DEF FetchKept
  <2>2. CASE LookedUp(o) /\ kind[o] = "upgrade" /\ pc'[o] = "assets" /\ stackEnv'.tag = o
    BY <1>2, <2>2 DEF FetchedTogether
  <2>3. CASE Downloaded(o) /\ pc[o] = "assets" /\ stackEnv' = stackEnv /\ coreCompose' = o
    BY <1>3, <2>3 DEF FetchKept, FetchedTogether
  <2>4. CASE o \in Upgrading /\ pc'[o] = "failed" /\ stackEnv' = found[o] /\ coreCompose' = coreCompose
    <3>1. CASE coreCompose = found[o].tag
      BY <2>4, <3>1 DEF FetchedTogether
    <3>2. CASE LeftBehind(coreCompose)
      BY <1>4, <2>4, <3>2 DEF FetchedTogether, LeftBehind
    <3>3. CASE coreCompose = o
      BY <1>2, <2>4, <3>3 DEF FetchedTogether, Upgrading
    <3> QED BY <1>3, <2>4, <3>1, <3>2, <3>3 DEF FetchKept
  <2>5. CASE kind[o] = "rollback" /\ stackEnv' = snapshot.stackEnv /\ coreCompose' = snapshot.coreCompose
    BY <1>3, <1>4, <2>5 DEF FetchKept, FetchedTogether, LeftBehind
  <2> QED BY <1>1, <2>1, <2>2, <2>3, <2>4, <2>5, StepFetches
<1>6. ASSUME NEW u \in Ops, pc'[u] = "assets", ~Disturbed' PROVE stackEnv'.tag = u
  <2>1. CASE u = o
    <3>1. LookedUp(o) /\ pc'[o] = "assets"
      BY <1>1, <1>6, <2>1, StepPlaces
    <3>2. ~Fails(o, "lookup")
      BY <1>1, <3>1, GoesAlone DEF Fails, Places
    <3> QED BY <1>1, <2>1, <3>1, <3>2 DEF LookedUp, Tagged, StackEnv, LifecycleTypeOK
  <2>2. CASE u # o
    <3>1. pc[u] = "assets" /\ u \in Upgrading
      BY <1>2, <1>6, <2>2 DEF Together, Upgrading
    <3>2. stackEnv.tag = u
      BY <1>3, <1>6, <3>1 DEF FetchKept
    <3>3. stackEnv'.tag = stackEnv.tag \/ kind[o] \in {"upgrade", "rollback"}
      BY <1>1, StepFetches DEF Upgrading
    <3> QED BY <1>1, <1>6, <2>2, <3>1, <3>2, <3>3, StepDisturbs
  <2> QED BY <2>1, <2>2
<1>7. ASSUME NEW u \in Upgrading', ~Disturbed'
      PROVE  \/ coreCompose' = found'[u].tag \/ LeftBehind(coreCompose)'
             \/ coreCompose' = u /\ pc'[u] = "reconcile"
  <2>1. CASE u = o /\ Preflighted(o)
    <3>1. found'[u] = stackEnv /\ coreCompose' = coreCompose /\ pc[o] = "preflight" /\ kind[o] = "upgrade"
      BY <1>1, <2>1 DEF Preflighted, LifecycleTypeOK, config, Goes, Together
    <3>2. ASSUME NEW v \in Ops, kind[v] = "upgrade", pc[v] = "assets" PROVE FALSE
      BY <1>1, <1>7, <3>1, <3>2, StepDisturbs DEF Upgrading
    <3> QED BY <1>3, <1>4, <1>7, <3>1, <3>2, FetchNamed DEF FetchKept
  <2>2. CASE u \in Upgrading /\ found'[u] = found[u] /\ u # o
    <3>1. kind[o] \notin {"upgrade", "rollback"}
      BY <1>1, <1>7, <2>2, StepDisturbs
    <3>2. coreCompose' = coreCompose
      BY <1>1, <3>1, StepFetches DEF Upgrading
    <3> QED BY <1>2, <1>3, <1>4, <1>7, <2>2, <3>2 DEF FetchKept, Upgrading
  <2>3. CASE u \in Upgrading /\ found'[u] = found[u] /\ u = o /\ LookedUp(o)
    <3>1. coreCompose' = coreCompose /\ pc[o] = "lookup"
      BY <2>3 DEF LookedUp, Goes, Fails
    <3> QED BY <1>3, <1>4, <1>7, <2>3, <3>1 DEF FetchKept
  <2>4. CASE u = o /\ Downloaded(o)
    <3>1. coreCompose' = o /\ pc'[o] = "reconcile"
      BY <1>1, <2>4, GoesAlone DEF Downloaded, Places, Waits
    <3> QED BY <2>4, <3>1
  <2> QED BY <1>1, <2>1, <2>2, <2>3, <2>4, StepUpgrading
<1>8. snapshot'.stackEnv.tag # snapshot'.coreCompose => Disturbed' \/ LeftBehind(snapshot.coreCompose)'
  <2>1. CASE snapshot' = snapshot
    BY <1>3, <1>4, <2>1 DEF FetchKept
  <2>2. ASSUME NEW to \in {"config", "ok", "pull"}, Reconciles(o, to)
        PROVE  snapshot'.stackEnv.tag # snapshot'.coreCompose => Disturbed' \/ LeftBehind(snapshot.coreCompose)'
    <3>1. snapshot'.stackEnv = stackEnv /\ snapshot'.coreCompose = coreCompose /\ pc[o] = "reconcile"
      BY <2>2 DEF Reconciles, snapshotCurrentState, Goes
    <3>2. ~\E u \in Ops : pc[u] = "assets"
      BY <3>1 DEF LockExact
    <3> QED BY <1>3, <1>4, <3>1, <3>2, FetchNamed DEF FetchKept
  <2> QED BY <1>1, <2>1, <2>2, StepFetches
<1> QED BY <1>5, <1>6, <1>7, <1>8 DEF FetchKept

LEMMA FetchInvariant == LifecycleSpec => []FetchKept
<1>1. LifecycleInit => FetchKept
  BY DEF LifecycleInit, FetchKept, FetchedTogether, Upgrading
<1>2. LockExact /\ Together /\ FetchKept /\ [LifecycleNext]_lifecycleVars => FetchKept'
  <2>1. ASSUME FetchKept, Still PROVE FetchKept'
    BY <2>1 DEF Still, FetchKept, FetchedTogether, Upgrading, Disturbed, LeftBehind, Rivals
  <2> QED BY <2>1, FetchStep, StepOrStill
<1> QED BY <1>1, <1>2, LockIsExact, TogetherInvariant, PTL DEF LifecycleSpec

\* The image tag and the core.compose.yml in place were fetched by one and the same
\* upgrade, but for one on its way to its assets, one that failed with them, and one
\* that was killed or met a rival: putting back stack.env in performUpgrade, taking
\* snapshots in reconcileCore and restoring them in a rollback never pair the tag of
\* one upgrade with the assets of another otherwise, in any order and any number.
THEOREM FetchedTogetherAlways == LifecycleSpec => []FetchedTogether
BY FetchInvariant, PTL DEF FetchKept

(***************************************************************************)
(* What runs.                                                              *)
(***************************************************************************)
\* Which kinds of operation wait where.
KindOfPlace ==
  \A o \in Ops :
    /\ pc[o] \in {"preflight", "lookup", "assets", "pull"} => kind[o] = "upgrade"
    /\ pc[o] = "reconcile" => kind[o] \in {"install", "update", "uninstall", "upgrade"}
    /\ pc[o] \in {"config", "up"} => kind[o] \in {"install", "update", "upgrade", "rollback", "enable"}
    /\ pc[o] = "down" => kind[o] = "uninstall"
    /\ pc[o] \in {"stop", "stopped"} => kind[o] = "disable"

LEMMA KindStep ==
  ASSUME LifecycleTypeOK, KindOfPlace, NEW o \in Ops, Step(o)
  PROVE  KindOfPlace'
<1>0. /\ kind' = kind /\ \A p \in Ops \ {o} : pc'[p] = pc[p]
      /\ pc \in [Ops -> Places] /\ kind[o] \in AllKinds
  BY StepKeeps, LifecycleAssumption DEF LifecycleTypeOK, Places
<1>1. SUFFICES ASSUME pc'[o] \in {"preflight", "lookup", "assets", "pull", "reconcile", "config", "up", "down", "stop", "stopped"}
               PROVE  /\ pc'[o] \in {"preflight", "lookup", "assets", "pull"} => kind[o] = "upgrade"
                      /\ pc'[o] = "reconcile" => kind[o] \in {"install", "update", "uninstall", "upgrade"}
                      /\ pc'[o] \in {"config", "up"} => kind[o] \in {"install", "update", "upgrade", "rollback", "enable"}
                      /\ pc'[o] = "down" => kind[o] = "uninstall"
                      /\ pc'[o] \in {"stop", "stopped"} => kind[o] = "disable"
  BY <1>0 DEF KindOfPlace
<1> USE DEF IsA
<1>2. CASE Begins(o)
  BY <1>0, <1>1, <1>2 DEF Begins, Apply, Uninstall, Upgrade, Rollback, EnableAddon, DisableAddon, SaveSetting, Fails, Goes
<1>3. CASE Applied(o) \/ WentDown(o) \/ Uninstalled(o) \/ Upgraded(o) \/ StopsAddon(o)
  BY <1>0, <1>1, <1>3 DEF Applied, WentDown, Uninstalled, Upgraded, StopsAddon, Reconciles, Fails, Goes
<1>4. CASE Preflighted(o) \/ LookedUp(o) \/ Downloaded(o) \/ Pulled(o)
  BY <1>0, <1>1, <1>4 DEF Preflighted, LookedUp, Downloaded, Pulled, Fails, Goes, KindOfPlace
<1>5. CASE Spawns(o)
  <2>1. pc[o] = "config" /\ pc'[o] \in {"up", "failed", "warned"}
    BY <1>0, <1>5 DEF Spawns, Ended, Goes
  <2> QED BY <1>1, <2>1 DEF KindOfPlace
<1>6. CASE Up(o) \/ RemovesAddon(o) \/ UpgradeThrows(o) \/ DockerFails(o) \/ Kill(o)
  BY <1>0, <1>1, <1>6 DEF Up, RemovesAddon, UpgradeThrows, DockerFails, Ended, Kill, Fails, Goes
<1> QED BY <1>2, <1>3, <1>4, <1>5, <1>6 DEF Step, GoesOn

\* An operation ended badly, an addon was disabled while others were at work, or the
\* stack was uninstalled: then nothing is promised of what runs, ever again.
Spoiled ==
  \/ \E o \in Ops : pc[o] \in {"warned", "failed", "killed"}
  \/ \E o \in Ops : kind[o] = "disable" /\ met[o] # {}
  \/ \E o \in Ops : kind[o] = "uninstall" /\ pc[o] # "new"

LEMMA SpoiledStays ==
  ASSUME LifecycleTypeOK, Together, NEW o \in Ops, Step(o), Spoiled
  PROVE  Spoiled'
<1>1. /\ kind' = kind
      /\ \A p \in Ops : pc[p] # "new" => pc'[p] # "new"
      /\ \A p \in Ops : pc[p] \in {"ok", "warned", "failed", "killed"} => pc'[p] = pc[p]
      /\ \A p \in Ops : pc[p] # "new" => met[p] \subseteq met'[p]
  BY StepKeeps
<1>2. \A p \in Ops : met[p] # {} => met'[p] # {}
  BY <1>1 DEF Together
<1> QED BY <1>1, <1>2 DEF Spoiled

\* An operation that moves disturbs a removal under way.
LEMMA RemovalsDisturbed ==
  ASSUME LifecycleTypeOK, Together, NEW o \in Ops, Step(o), NEW d \in InFlight, d # o, kind[d] = "disable"
  PROVE  Spoiled'
<1>1. PICK from \in Waits \cup {"new"}, to \in Places \ {"new"} : Goes(o, from, to)
  BY StepGoes
<1>2. pc[o] = from /\ kind' = kind /\ d \in Ops
  BY <1>1, GoesAlone DEF InFlight
<1>3. CASE from = "new"
  <2>1. o \in met'[d]
    BY <1>1, <1>3, GoesMeets
  <2> QED BY <1>2, <2>1 DEF Spoiled
<1>4. CASE from \in Waits
  <2>1. o \in met[d]
    BY <1>2, <1>4 DEF Together, InFlight
  <2>2. met[d] \subseteq met'[d]
    BY <1>1, <1>2, GoesMeets
  <2> QED BY <1>2, <2>1, <2>2 DEF Spoiled
<1> QED BY <1>3, <1>4

\* An operation that will have docker create a service anew, or take it out of what is
\* enabled.
Restarts == {"install", "update", "upgrade", "rollback"}
Pending(o, s) ==
  \/ kind[o] \in Restarts /\ pc[o] \in {"preflight", "lookup", "assets", "reconcile", "pull"}
  \/ pc[o] = "config" /\ s \in Wanted(o, named[o])
  \/ pc[o] \in {"stop", "stopped"} /\ addon[o] = s

\* What a service should be created from, if at all.
Right(s) == IF s \in enabled \cup {Core} THEN Created(s) ELSE None

\* The operations whose docker commands have a service in hand.
InHand(s) == {o \in Ops : s \in DOMAIN jobs[o]}

\* A service runs as configured, or a docker command is about to see to it, or an
\* operation is going to start one that will.
Handled(s) ==
  \/ s \in enabled \cup {Core} /\ \E o \in Ops : Pending(o, s)
  \/ \E o \in InHand(s) : jobs[o][s] = Right(s)
  \/ InHand(s) = {} /\ containers[s] = Right(s)

\* Only docker's up, and the stopping of an addon, have services in hand; who has one
\* that is not contested has it alone, and it is handled; what an addon that is
\* disabled runs is stopped first.
RunsUpToPending ==
  /\ \A o \in Ops : DOMAIN jobs[o] # {} => pc[o] \in {"up", "stop"}
  /\ \A s \in Services \ contested : \A o, p \in InHand(s) : o = p
  /\ \A s \in Services \ contested : Handled(s)
  /\ \A o \in Ops : pc[o] = "stop" =>
       /\ \A s \in DOMAIN jobs[o] : s = addon[o] /\ jobs[o][s] = None
       /\ addon[o] \in DOMAIN jobs[o] \/ containers[addon[o]] = None
  /\ \A o \in Ops : pc[o] = "stopped" => containers[addon[o]] = None

ConfiguredInv == KindOfPlace /\ (Spoiled \/ RunsUpToPending)

\* An addon that is disabled undisturbed is disabled alone: nobody else is at work.
LEMMA RemovesAlone ==
  ASSUME Together, KindOfPlace, ~Spoiled, NEW d \in Ops, pc[d] \in {"stop", "stopped"}, NEW o \in Ops \ {d}
  PROVE  o \notin InFlight
BY DEF Together, KindOfPlace, Spoiled, InFlight, Waits

\* The operation that moves has no service in hand, before or after, and no addon is
\* being removed: what remains to be shown is that the services are handled.
LEMMA NoneInHand ==
  ASSUME LifecycleTypeOK, Together, KindOfPlace, RunsUpToPending, ~Spoiled', NEW o \in Ops, Step(o),
         pc[o] \notin {"stop", "stopped"}, pc'[o] \notin {"stop", "stopped"},
         UNCHANGED docker, \A s \in Services \ contested : Handled(s)',
         DOMAIN jobs[o] = {}
  PROVE  RunsUpToPending'
<1>1. kind' = kind /\ addon' = addon /\ \A p \in Ops \ {o} : pc'[p] = pc[p]
  BY StepKeeps
<1>2. containers' = containers /\ jobs' = jobs /\ contested' = contested
  BY DEF docker
<1>3. \A p \in Ops : DOMAIN jobs'[p] # {} => pc'[p] \in {"up", "stop"}
  BY <1>1, <1>2 DEF RunsUpToPending
<1>4. \A s \in Services \ contested' : \A p, q \in InHand(s)' : p = q
  BY <1>2 DEF RunsUpToPending, InHand
<1>5. \A p \in Ops : pc'[p] \in {"stop", "stopped"} => pc'[p] = pc[p]
  BY <1>1
<1> QED BY <1>1, <1>2, <1>3, <1>4, <1>5 DEF RunsUpToPending

\* The operation that moves is going to have everything created anew.
LEMMA RestartPending ==
  ASSUME LifecycleTypeOK, Together, KindOfPlace, RunsUpToPending, ~Spoiled', NEW o \in Ops, Step(o),
         DOMAIN jobs[o] = {}, pc[o] \notin {"stop", "stopped"}, pc'[o] \notin {"stop", "stopped"},
         UNCHANGED docker, enabled \subseteq enabled',
         \A s \in enabled' \cup {Core} : Pending(o, s)'
  PROVE  RunsUpToPending'
<1>1. containers' = containers /\ jobs' = jobs /\ contested' = contested
  BY DEF docker
<1>2. ASSUME NEW s \in Services \ contested PROVE Handled(s)'
  <2>1. CASE s \in enabled' \cup {Core}
    BY <2>1 DEF Handled
  <2>2. CASE s \notin enabled' \cup {Core}
    <3>1. Handled(s) /\ s \notin enabled \cup {Core}
      BY <2>2 DEF RunsUpToPending
    <3> QED BY <1>1, <2>2, <3>1 DEF Handled, InHand, Right
  <2> QED BY <2>1, <2>2
<1> QED BY <1>2, NoneInHand

\* The operation that moves changes nothing that matters to containers.
LEMMA NothingPending ==
  ASSUME LifecycleTypeOK, Together, KindOfPlace, RunsUpToPending, ~Spoiled', NEW o \in Ops, Step(o),
         DOMAIN jobs[o] = {}, pc[o] \in {"new", "up"}, pc'[o] \notin {"stop", "stopped"},
         UNCHANGED docker, enabled' = enabled, named' = named,
         \A s \in Services : Created(s)' = Created(s)
  PROVE  RunsUpToPending'
<1>1. kind' = kind /\ addon' = addon /\ \A p \in Ops \ {o} : pc'[p] = pc[p]
  BY StepKeeps
<1>2. \A q \in Ops : \A s : Pending(q, s) => Pending(q, s)'
  BY <1>1 DEF Pending, Wanted, IsA
<1>3. containers' = containers /\ jobs' = jobs /\ contested' = contested
  BY DEF docker
<1>4. ASSUME NEW s \in Services \ contested PROVE Handled(s)'
  <2>1. Right(s)' = Right(s)
    BY DEF Right
  <2>2. Handled(s)
    BY DEF RunsUpToPending
  <2> QED BY <1>2, <1>3, <2>1, <2>2 DEF Handled, InHand
<1> QED BY <1>4, NoneInHand

\* docker compose up is started: it has in hand what it wants, and what it removes.
LEMMA SpawnRuns ==
  ASSUME LifecycleTypeOK, Together, KindOfPlace, RunsUpToPending, NEW o \in Ops, Spawns(o), ~Spoiled'
  PROVE  RunsUpToPending'
<1>0. Step(o)
  BY DEF Step, GoesOn
<1>1. kind' = kind /\ addon' = addon /\ \A p \in Ops \ {o} : pc'[p] = pc[p]
  BY <1>0, StepKeeps
<1>2. PICK S : /\ S \in {named[o]} \cup (IF IsA(o, {"enable"}) THEN {} ELSE {enabled})
               /\ \/ /\ Composes(o, S) /\ Goes(o, "config", "up") /\ Told(o, Order(o, S))
                     /\ contested' = (contested \ DOMAIN Order(o, S)) \cup Contested(o, S)
                  \/ Goes(o, "config", Ended(o))
  BY DEF Spawns
<1>3. ~Goes(o, "config", Ended(o))
  <2>1. Ended(o) \in {"failed", "warned"} /\ Ended(o) \in Places
    BY DEF Ended, Places
  <2> QED BY <2>1, GoesAlone DEF Spoiled
<1>4. pc[o] = "config" /\ pc'[o] = "up"
  BY <1>2, <1>3, GoesAlone DEF Places, Waits
<1>5. S \in SUBSET Addons /\ S \subseteq enabled
  BY <1>2, <1>3 DEF LifecycleTypeOK, Composes
<1>6. PICK D : D = DOMAIN Order(o, S)
  OBVIOUS
<1>7. Order(o, S) \in Jobs /\ D = Wanted(o, S) \cup Orphans(o) /\ D \subseteq Services
  BY <1>5, <1>6, OrderTyped
<1>8. jobs'[o] = Order(o, S) /\ \A p \in Ops \ {o} : jobs'[p] = jobs[p]
  BY <1>2, <1>3, <1>7, ToldTyped
<1>9. DOMAIN jobs[o] = {} /\ containers' = containers /\ enabled' = enabled /\ named' = named
      /\ \A s : Created(s)' = Created(s)
  BY <1>4 DEF RunsUpToPending, Spawns, config, Created
<1>10. Core \in Services /\ Core \notin Addons /\ Orphans(o) \subseteq Addons /\ enabled \subseteq Addons
  BY LifecycleAssumption DEF Services, Orphans, LifecycleTypeOK
<1>11. contested' = (contested \ D) \cup {s \in D : (\E p \in Ops \ {o} : s \in DOMAIN jobs[p]) \/ s \in enabled \ Wanted(o, S)}
  BY <1>2, <1>3, <1>6 DEF Contested
<1>12. \A s \in D : Order(o, S)[s] = IF s \in Wanted(o, S) THEN Created(s) ELSE None
  BY <1>7 DEF Order
<1>13. ASSUME NEW s \in D, s \notin contested'
       PROVE  InHand(s)' = {o} /\ Handled(s)'
  <2>1. (\A p \in Ops \ {o} : s \notin DOMAIN jobs[p]) /\ s \notin enabled \ Wanted(o, S)
    BY <1>11, <1>13
  <2>2. InHand(s)' = {o}
    BY <1>6, <1>8, <2>1 DEF InHand
  <2>3. s \in enabled \cup {Core} <=> s \in Wanted(o, S)
    <3>1. s \in enabled => s \in Wanted(o, S)
      BY <2>1
    <3>2. s = Core => s \in Wanted(o, S)
      BY <1>7, <1>10
    <3>3. s \in Wanted(o, S) => s \in enabled \cup {Core}
      BY <1>5 DEF Wanted
    <3> QED BY <3>1, <3>2, <3>3
  <2>4. jobs'[o][s] = Right(s)'
    BY <1>8, <1>9, <1>12, <2>3 DEF Right
  <2> QED BY <2>2, <2>4 DEF Handled
<1>14. ASSUME NEW s \in Services \ D, s \notin contested'
       PROVE  InHand(s)' = InHand(s) /\ Handled(s)' /\ s \notin contested
  <2>1. s \notin contested
    BY <1>11, <1>14
  <2>2. InHand(s)' = InHand(s) /\ o \notin InHand(s)
    BY <1>6, <1>8, <1>9 DEF InHand
  <2>3. \A p \in InHand(s) : jobs'[p] = jobs[p]
    BY <1>8, <2>2 DEF InHand
  <2>4. Right(s)' = Right(s)
    BY <1>9 DEF Right
  <2>5. ASSUME s \in enabled \cup {Core}, NEW p \in Ops, Pending(p, s) PROVE Pending(p, s)' /\ p # o
    <3>1. p # o
      <4> SUFFICES ASSUME p = o PROVE FALSE
        OBVIOUS
      <4>1. s \in Wanted(o, named[o])
        BY <1>4, <2>5 DEF Pending
      <4>2. S = named[o] \/ (S = enabled /\ ~IsA(o, {"enable"}))
        BY <1>2
      <4>3. s \in Wanted(o, S)
        BY <2>5, <4>1, <4>2 DEF Wanted
      <4> QED BY <1>7, <1>14, <4>3
    <3> QED BY <1>1, <1>9, <2>5, <3>1 DEF Pending, Wanted, IsA
  <2>6. Handled(s)
    BY <1>14, <2>1 DEF RunsUpToPending
  <2>7. Handled(s)'
    BY <1>9, <2>2, <2>3, <2>4, <2>5, <2>6 DEF Handled
  <2> QED BY <2>1, <2>2, <2>7
<1>15. \A p \in Ops : DOMAIN jobs'[p] # {} => pc'[p] \in {"up", "stop"}
  BY <1>1, <1>4, <1>8 DEF RunsUpToPending
<1>16. \A s \in Services \ contested' : \A p, q \in InHand(s)' : p = q
  BY <1>13, <1>14 DEF RunsUpToPending
<1>17. \A s \in Services \ contested' : Handled(s)'
  BY <1>13, <1>14
<1>18. ASSUME NEW p \in Ops, pc'[p] \in {"stop", "stopped"} PROVE FALSE
  <2>1. p # o /\ pc[p] = pc'[p] /\ p \in InFlight /\ kind[p] = "disable"
    BY <1>1, <1>4, <1>18 DEF InFlight, Waits, KindOfPlace
  <2> QED BY <1>0, <2>1, RemovalsDisturbed
<1> QED BY <1>15, <1>16, <1>17, <1>18 DEF RunsUpToPending

\* A docker command does one of its services.
LEMMA WorkRuns ==
  ASSUME LifecycleTypeOK, Together, KindOfPlace, RunsUpToPending, NEW o \in Ops, Works(o), Still, ~Spoiled
  PROVE  RunsUpToPending'
<1>1. PICK s \in DOMAIN jobs[o] :
        /\ containers' = [containers EXCEPT ![s] = jobs[o][s]]
        /\ Told(o, Restrict(jobs[o], DOMAIN jobs[o] \ {s}))
  BY DEF Works
<1>2. PICK S \in SUBSET Services : jobs[o] \in [S -> {None} \cup Containers]
  BY DEF LifecycleTypeOK, Jobs
<1>3. /\ DOMAIN jobs'[o] = DOMAIN jobs[o] \ {s}
      /\ \A x \in DOMAIN jobs[o] \ {s} : jobs'[o][x] = jobs[o][x]
      /\ \A p \in Ops \ {o} : jobs'[p] = jobs[p]
  BY <1>1 DEF Told, Restrict, LifecycleTypeOK
<1>4. containers'[s] = jobs[o][s] /\ \A x \in Services \ {s} : containers'[x] = containers[x]
  BY <1>1, <1>2 DEF LifecycleTypeOK
<1>5. /\ kind' = kind /\ addon' = addon /\ pc' = pc /\ named' = named /\ enabled' = enabled /\ contested' = contested
      /\ \A x : Right(x)' = Right(x)
      /\ \A p \in Ops : \A x : Pending(p, x)' <=> Pending(p, x)
  BY DEF Still, Right, Created, Pending, Wanted, IsA
<1>6. s \in Services /\ pc[o] \in {"up", "stop"} /\ o \in InHand(s)
  BY <1>1, <1>2 DEF RunsUpToPending, InHand
<1>7. ASSUME NEW x \in Services \ contested', x # s
      PROVE  InHand(x)' = InHand(x) /\ Handled(x)'
  <2>1. InHand(x)' = InHand(x)
    BY <1>3, <1>7 DEF InHand
  <2>2. \A p \in InHand(x) : jobs'[p][x] = jobs[p][x]
    BY <1>3, <1>7 DEF InHand
  <2>3. Handled(x)
    BY <1>5 DEF RunsUpToPending
  <2> QED BY <1>4, <1>5, <1>7, <2>1, <2>2, <2>3 DEF Handled
<1>8. ASSUME s \notin contested'
      PROVE  InHand(s)' = {} /\ Handled(s)'
  <2>1. InHand(s) = {o}
    BY <1>5, <1>6, <1>8 DEF RunsUpToPending
  <2>2. InHand(s)' = {}
    BY <1>3, <2>1 DEF InHand
  <2>3. Handled(s)
    BY <1>5, <1>6, <1>8 DEF RunsUpToPending
  <2>4. CASE s \in enabled \cup {Core} /\ \E p \in Ops : Pending(p, s)
    BY <1>5, <2>2, <2>4 DEF Handled
  <2>5. CASE jobs[o][s] = Right(s)
    BY <1>4, <1>5, <2>2, <2>5 DEF Handled
  <2> QED BY <2>1, <2>2, <2>3, <2>4, <2>5 DEF Handled
<1>9. \A p \in Ops : DOMAIN jobs'[p] # {} => pc'[p] \in {"up", "stop"}
  BY <1>3, <1>5, <1>6 DEF RunsUpToPending
<1>10. \A x \in Services \ contested' : \A p, q \in InHand(x)' : p = q
  BY <1>5, <1>7, <1>8 DEF RunsUpToPending
<1>11. \A x \in Services \ contested' : Handled(x)'
  BY <1>7, <1>8
<1>12. ASSUME NEW p \in Ops, pc'[p] \in {"stop", "stopped"} PROVE p = o /\ pc[o] = "stop"
  <2>1. p = o
    BY <1>5, <1>6, <1>12, RemovesAlone DEF InFlight, Waits
  <2> QED BY <1>5, <1>6, <1>12, <2>1
<1>13. pc[o] = "stop" => /\ \A x \in DOMAIN jobs'[o] : x = addon'[o] /\ jobs'[o][x] = None
                         /\ containers'[addon'[o]] = None
  BY <1>1, <1>3, <1>4, <1>5 DEF RunsUpToPending
<1> QED BY <1>5, <1>9, <1>10, <1>11, <1>12, <1>13 DEF RunsUpToPending

\* An addon is enabled: it is going to be started.
LEMMA EnableRuns ==
  ASSUME LifecycleTypeOK, Together, KindOfPlace, RunsUpToPending, NEW o \in Ops, EnableAddon(o), ~Spoiled'
  PROVE  RunsUpToPending'
<1>0. Step(o) /\ kind[o] = "enable"
  BY DEF Step, Begins, EnableAddon, IsA
<1>1. kind' = kind /\ addon' = addon /\ \A p \in Ops \ {o} : pc'[p] = pc[p]
  BY <1>0, StepKeeps
<1>2. pc[o] = "new" /\ DOMAIN jobs[o] = {} /\ UNCHANGED docker
  BY DEF EnableAddon, Goes, RunsUpToPending
<1>3. CASE addon[o] \in enabled
  <2>1. pc'[o] = "ok" /\ enabled' = enabled /\ guardianEnv' = guardianEnv /\ named' = named
    BY <1>3, GoesAlone DEF EnableAddon, Places
  <2>2. \A s \in Services : Created(s)' = Created(s)
    BY <2>1 DEF EnableAddon, Created
  <2> QED BY <1>0, <1>2, <2>1, <2>2, NothingPending
<1>4. CASE addon[o] \notin enabled
  <2>1. /\ pc'[o] = "config" /\ enabled' = enabled \cup {addon[o]} /\ guardianEnv' = NewSecret(o)
        /\ Asks(o, {addon[o]})
    BY <1>4, GoesAlone DEF EnableAddon, Places, Waits
  <2>2. /\ addon[o] \in Addons /\ guardianEnv \in [Addons -> Ops \cup {Initial, None}]
        /\ Core \notin Addons /\ enabled \subseteq Addons /\ named \in [Ops -> SUBSET Addons]
    BY LifecycleAssumption DEF LifecycleTypeOK, Secrets
  <2>3. ASSUME NEW s \in Services \ {addon[o]} PROVE Right(s)' = Right(s)
    BY <2>1, <2>2 DEF EnableAddon, NewSecret, Created, Right, Services
  <2>4. \A p \in Ops \ {o} : named'[p] = named[p]
    BY <2>1, <2>2 DEF Asks
  <2>5. \A q \in Ops : \A s : Pending(q, s) => Pending(q, s)'
    BY <1>1, <1>2, <2>4 DEF Pending, Wanted, IsA
  <2>6. ASSUME NEW s \in Services, s = addon[o] PROVE Pending(o, s)' /\ s \in enabled'
    <3>1. named'[o] = {s}
      BY <2>1, <2>2, <2>6 DEF Asks
    <3> QED BY <1>0, <1>1, <2>1, <2>6, <3>1 DEF Pending, Wanted, IsA
  <2>7. containers' = containers /\ jobs' = jobs /\ contested' = contested
    BY <1>2 DEF docker
  <2>8. ASSUME NEW s \in Services \ contested PROVE Handled(s)'
    <3>1. CASE s = addon[o]
      BY <2>1, <2>6, <3>1 DEF Handled
    <3>2. CASE s # addon[o]
      <4>1. Handled(s) /\ (s \in enabled \cup {Core} => s \in enabled' \cup {Core})
        BY <2>1 DEF RunsUpToPending
      <4> QED BY <2>3, <2>5, <2>7, <3>2, <4>1 DEF Handled, InHand
    <3> QED BY <3>1, <3>2
  <2> QED BY <1>0, <1>2, <2>1, <2>8, NoneInHand
<1> QED BY <1>3, <1>4

\* An addon's services are stopped, and its overlay is removed.
LEMMA DisableRuns ==
  ASSUME LifecycleTypeOK, Together, KindOfPlace, RunsUpToPending, NEW o \in Ops,
         DisableAddon(o) \/ StopsAddon(o) \/ RemovesAddon(o), ~Spoiled, ~Spoiled'
  PROVE  RunsUpToPending'
<1>0. Step(o) /\ KindOfPlace'
  BY KindStep DEF Step, Begins, GoesOn
<1>1. kind' = kind /\ addon' = addon /\ \A p \in Ops \ {o} : pc'[p] = pc[p]
  BY <1>0, StepKeeps
<1>2. addon \in [Ops -> Addons] /\ Addons \subseteq Services /\ enabled \subseteq Addons /\ Core \notin Addons
  BY LifecycleAssumption DEF LifecycleTypeOK, Services
<1>3. containers' = containers /\ contested' = contested /\ \A s : Created(s)' = Created(s)
  BY DEF DisableAddon, StopsAddon, RemovesAddon, config, docker, Created
<1>4. CASE DisableAddon(o)
  <2>0. pc[o] = "new" /\ DOMAIN jobs[o] = {} /\ enabled' = enabled /\ named' = named
    BY <1>4 DEF DisableAddon, Goes, RunsUpToPending, config
  <2>1. CASE addon[o] \notin enabled
    <3>1. pc'[o] = "ok" /\ UNCHANGED docker
      BY <1>4, <2>1, GoesAlone DEF DisableAddon, docker, Places
    <3> QED BY <1>0, <1>3, <2>0, <3>1, NothingPending
  <2>2. CASE addon[o] \in enabled
    <3>1. pc'[o] = "stop" /\ Told(o, [s \in {addon[o]} |-> None])
      BY <1>4, <2>2, GoesAlone DEF DisableAddon, Places, Waits
    <3>2. \A p \in Ops \ {o} : p \notin InFlight' /\ DOMAIN jobs[p] = {}
      <4>1. Together'
        BY <1>0, TogetherStep
      <4>2. ASSUME NEW p \in Ops \ {o} PROVE p \notin InFlight'
        BY <1>0, <3>1, <4>1, <4>2 DEF Together, Spoiled, KindOfPlace, InFlight, Waits
      <4>3. ASSUME NEW p \in Ops \ {o} PROVE DOMAIN jobs[p] = {}
        BY <1>1, <4>2 DEF RunsUpToPending, InFlight, Waits
      <4> QED BY <4>2, <4>3
    <3>3. DOMAIN jobs'[o] = {addon[o]} /\ jobs'[o][addon[o]] = None /\ \A p \in Ops \ {o} : jobs'[p] = jobs[p]
      BY <3>1 DEF Told, LifecycleTypeOK
    <3>4. ASSUME NEW s \in Services, s # addon[o] PROVE InHand(s)' = {} /\ InHand(s) = {}
      BY <2>0, <3>2, <3>3, <3>4 DEF InHand
    <3>5. ASSUME NEW s \in Services, s = addon[o] PROVE Pending(o, s)' /\ InHand(s)' = {o}
      BY <1>1, <3>1, <3>2, <3>3, <3>5 DEF Pending, InHand
    <3>6. ASSUME NEW s \in Services \ contested, s # addon[o] PROVE Handled(s)'
      <4>1. Handled(s) /\ Right(s)' = Right(s)
        BY <1>3, <2>0 DEF RunsUpToPending, Right
      <4>2. \A q \in Ops : Pending(q, s) => Pending(q, s)'
        BY <1>1, <2>0 DEF Pending, Wanted, IsA
      <4> QED BY <1>3, <2>0, <3>4, <3>6, <4>1, <4>2 DEF Handled
    <3>7. ASSUME NEW s \in Services, s = addon[o] PROVE Handled(s)'
      BY <2>0, <2>2, <3>5, <3>7 DEF Handled
    <3>8. \A p \in Ops : DOMAIN jobs'[p] # {} => pc'[p] \in {"up", "stop"}
      BY <3>1, <3>2, <3>3
    <3>9. \A s \in Services \ contested' : \A p, q \in InHand(s)' : p = q
      BY <1>3, <3>4, <3>5
    <3>10. \A p \in Ops \ {o} : pc'[p] \notin {"stop", "stopped"}
      BY <3>2 DEF InFlight, Waits
    <3> QED BY <1>1, <1>3, <3>1, <3>3, <3>6, <3>7, <3>8, <3>9, <3>10 DEF RunsUpToPending
  <2> QED BY <2>1, <2>2
<1>5. CASE StopsAddon(o)
  <2>1. pc[o] = "stop" /\ pc'[o] = "stopped" /\ enabled' = enabled /\ named' = named /\ DOMAIN jobs[o] = {} /\ jobs' = jobs
    BY <1>5, GoesAlone DEF StopsAddon, config, docker, Places, Waits
  <2>2. \A q \in Ops : \A s : Pending(q, s) => Pending(q, s)'
    <3>1. kind[o] = "disable"
      BY <2>1 DEF KindOfPlace
    <3> QED BY <1>1, <2>1, <3>1 DEF Pending, Wanted, IsA, Restarts
  <2>3. \A s : Right(s)' = Right(s) /\ InHand(s)' = InHand(s)
    BY <1>3, <2>1 DEF Right, InHand
  <2>4. \A s \in Services \ contested' : Handled(s)'
    BY <1>3, <2>1, <2>2, <2>3 DEF RunsUpToPending, Handled
  <2>5. containers'[addon'[o]] = None
    BY <1>1, <1>3, <2>1 DEF RunsUpToPending
  <2>6. \A p \in Ops : DOMAIN jobs'[p] # {} => pc'[p] \in {"up", "stop"}
    BY <1>1, <2>1 DEF RunsUpToPending
  <2>7. \A s \in Services \ contested' : \A p, q \in InHand(s)' : p = q
    BY <1>3, <2>3 DEF RunsUpToPending
  <2>8. \A p \in Ops \ {o} : pc'[p] \notin {"stop", "stopped"}
    BY <1>1, <2>1, RemovesAlone DEF InFlight, Waits
  <2> QED BY <2>1, <2>4, <2>5, <2>6, <2>7, <2>8 DEF RunsUpToPending
<1>6. CASE RemovesAddon(o)
  <2>1. pc[o] = "stopped" /\ pc'[o] = "ok" /\ enabled' = enabled \ {addon[o]} /\ Told(o, NothingToDo) /\ named' = named
    <3>1. pc'[o] # "warned"
      BY DEF Spoiled
    <3> QED BY <1>6, <3>1, GoesAlone DEF RemovesAddon, Places
  <2>2. \A p \in Ops : DOMAIN jobs[p] = {}
    BY <2>1, RemovesAlone DEF RunsUpToPending, InFlight, Waits
  <2>3. \A p \in Ops : DOMAIN jobs'[p] = {}
    BY <2>1, <2>2, NothingTyped DEF Told, LifecycleTypeOK
  <2>4. containers[addon[o]] = None
    BY <2>1 DEF RunsUpToPending
  <2>5. \A q \in Ops : \A s : ~Pending(q, s) \/ s = addon[o]
    <3>1. \A q \in Ops \ {o} : \A s : ~Pending(q, s)
      BY <2>1, RemovesAlone DEF Pending, InFlight, Waits
    <3>2. \A s : ~Pending(o, s) \/ s = addon[o]
      BY <2>1 DEF Pending
    <3> QED BY <3>1, <3>2
  <2>6. ASSUME NEW s \in Services \ contested PROVE Handled(s)'
    <3>1. CASE s = addon[o]
      <4>1. Right(s)' = None
        BY <1>2, <2>1, <3>1 DEF Right
      <4> QED BY <1>3, <2>3, <2>4, <3>1, <4>1 DEF Handled, InHand
    <3>2. CASE s # addon[o]
      <4>1. Right(s)' = Right(s)
        BY <1>3, <2>1, <3>2 DEF Right
      <4>2. Handled(s) /\ \A q \in Ops : ~Pending(q, s)
        BY <2>5, <3>2 DEF RunsUpToPending
      <4>3. containers[s] = Right(s)
        BY <2>2, <4>2 DEF Handled, InHand
      <4> QED BY <1>3, <2>3, <4>1, <4>3 DEF Handled, InHand
    <3> QED BY <3>1, <3>2
  <2>7. \A p \in Ops : pc'[p] \notin {"stop", "stopped"}
    BY <1>1, <2>1, RemovesAlone DEF InFlight, Waits
  <2> QED BY <1>3, <2>3, <2>6, <2>7 DEF RunsUpToPending, InHand
<1> QED BY <1>4, <1>5, <1>6

\* Every step keeps what runs.
LEMMA ConfiguredStep ==
  ASSUME LifecycleTypeOK, Together, ConfiguredInv, NEW o \in Ops, Step(o)
  PROVE  ConfiguredInv'
<1>1. KindOfPlace'
  BY KindStep DEF ConfiguredInv
<1> SUFFICES ASSUME ~Spoiled' PROVE RunsUpToPending'
  BY <1>1 DEF ConfiguredInv
<1>2. RunsUpToPending /\ KindOfPlace /\ ~Spoiled
  BY SpoiledStays DEF ConfiguredInv
<1>3. /\ pc'[o] \notin {"warned", "failed", "killed"}
      /\ kind[o] = "uninstall" => pc'[o] = "new"
      /\ kind' = kind
  BY StepKeeps DEF Spoiled
<1>4. pc'[o] # "new" /\ kind[o] # "uninstall"
  BY <1>3, StepGoes, GoesAlone
<1> USE DEF config, IsA
<1>5. CASE Apply(o) \/ Upgrade(o) \/ Upgraded(o)
  <2>1. kind[o] \in Restarts /\ UNCHANGED docker /\ enabled' = enabled
    BY <1>5 DEF Apply, Upgrade, Upgraded, Reconciles, Restarts
  <2>2. pc'[o] \in {"reconcile", "preflight", "pull"} /\ pc[o] \in {"new", "reconcile"}
    BY <1>3, <1>5, GoesAlone DEF Apply, Upgrade, Upgraded, Reconciles, Fails, Places, Waits
  <2>3. DOMAIN jobs[o] = {} /\ \A s : Pending(o, s)'
    BY <1>2, <1>3, <2>1, <2>2 DEF RunsUpToPending, Pending
  <2> QED BY <1>2, <2>1, <2>2, <2>3, RestartPending
<1>6. CASE Preflighted(o) \/ LookedUp(o) \/ Downloaded(o)
  <2>1. UNCHANGED docker /\ enabled' = enabled
    BY <1>6 DEF Preflighted, LookedUp, Downloaded
  <2>2. pc'[o] \in {"lookup", "assets", "reconcile"} /\ pc[o] \in {"preflight", "lookup", "assets"}
    BY <1>3, <1>6, GoesAlone DEF Preflighted, LookedUp, Downloaded, Fails, Places, Waits
  <2>3. kind[o] \in Restarts
    BY <1>2, <2>2 DEF KindOfPlace, Restarts
  <2>4. DOMAIN jobs[o] = {} /\ \A s : Pending(o, s)'
    BY <1>2, <1>3, <2>2, <2>3 DEF RunsUpToPending, Pending
  <2> QED BY <1>2, <2>1, <2>2, <2>4, RestartPending
<1>7. CASE Applied(o) \/ Pulled(o) \/ Rollback(o)
  <2>1. pc'[o] = "config" /\ pc[o] \in {"new", "reconcile", "pull"}
    BY <1>3, <1>7, GoesAlone DEF Applied, Pulled, Rollback, Reconciles, Places, Waits
  <2>2. UNCHANGED docker /\ enabled \subseteq enabled'
    BY <1>7 DEF Applied, Pulled, Rollback, Reconciles
  <2>3. kind[o] \in Restarts
    BY <1>2, <1>7 DEF Applied, Pulled, Rollback, Restarts, KindOfPlace, Goes
  <2>4. named'[o] = enabled'
    <3>1. named' = [named EXCEPT ![o] = enabled']
      BY <1>3, <1>7, <2>1, GoesAlone DEF Applied, Pulled, Rollback, Reconciles, Asks, Places
    <3> QED BY <3>1 DEF LifecycleTypeOK
  <2>5. DOMAIN jobs[o] = {}
    BY <1>2, <2>1 DEF RunsUpToPending
  <2>6. \A s \in enabled' \cup {Core} : Pending(o, s)'
    BY <1>3, <2>1, <2>3, <2>4 DEF Pending, Wanted, Restarts
  <2> QED BY <1>2, <2>1, <2>2, <2>5, <2>6, RestartPending
<1>8. CASE SaveSetting(o)
  <2>1. UNCHANGED docker /\ enabled' = enabled /\ named' = named /\ pc[o] = "new" /\ pc'[o] = "ok"
    BY <1>8, GoesAlone DEF SaveSetting, Places
  <2>2. stackEnv'.tag = stackEnv.tag /\ coreCompose' = coreCompose /\ guardianEnv' = guardianEnv
    BY <1>8 DEF SaveSetting, LifecycleTypeOK, StackEnv
  <2>3. \A s \in Services : Created(s)' = Created(s)
    BY <2>2 DEF Created
  <2>4. DOMAIN jobs[o] = {}
    BY <1>2, <2>1 DEF RunsUpToPending
  <2> QED BY <1>2, <2>1, <2>3, <2>4, NothingPending
<1>9. CASE EnableAddon(o)
  BY <1>2, <1>9, EnableRuns
<1>10. CASE Spawns(o)
  BY <1>2, <1>10, SpawnRuns
<1>11. CASE Up(o)
  <2>1. UNCHANGED docker /\ enabled' = enabled /\ named' = named /\ pc[o] = "up" /\ pc'[o] = "ok" /\ DOMAIN jobs[o] = {}
    BY <1>11, GoesAlone DEF Up, Places
  <2>2. \A s \in Services : Created(s)' = Created(s)
    BY <1>11 DEF Up, Created
  <2> QED BY <1>2, <2>1, <2>2, NothingPending
<1>12. CASE DisableAddon(o) \/ StopsAddon(o) \/ RemovesAddon(o)
  BY <1>2, <1>12, DisableRuns
<1>13. CASE Uninstall(o) \/ WentDown(o) \/ Uninstalled(o)
  BY <1>4, <1>13 DEF Uninstall, WentDown, Uninstalled
<1>14. CASE UpgradeThrows(o) \/ DockerFails(o) \/ Kill(o)
  BY <1>3, <1>14, GoesAlone DEF UpgradeThrows, DockerFails, Ended, Kill, Fails, Places
<1> QED BY <1>5, <1>6, <1>7, <1>8, <1>9, <1>10, <1>11, <1>12, <1>13, <1>14 DEF Step, Begins, GoesOn

\* So does a docker command at work.
LEMMA ConfiguredStill ==
  ASSUME LifecycleTypeOK, Together, ConfiguredInv, Still,
         (\E o \in Ops : Works(o)) \/ UNCHANGED <<containers, jobs>>
  PROVE  ConfiguredInv'
<1>1. KindOfPlace' /\ (Spoiled' <=> Spoiled)
  BY DEF ConfiguredInv, Still, KindOfPlace, Spoiled
<1>2. CASE ~Spoiled /\ \E o \in Ops : Works(o)
  BY <1>1, <1>2, WorkRuns DEF ConfiguredInv
<1>3. CASE UNCHANGED <<containers, jobs>>
  <2>1. \A s : /\ InHand(s)' = InHand(s) /\ Right(s)' = Right(s)
               /\ \A o \in Ops : Pending(o, s)' <=> Pending(o, s)
    BY <1>3 DEF Still, InHand, Right, Created, Pending, Wanted, IsA
  <2>2. \A s : Handled(s) => Handled(s)'
    BY <1>3, <2>1 DEF Still, Handled
  <2> QED BY <1>1, <1>3, <2>1, <2>2 DEF ConfiguredInv, Still, RunsUpToPending
<1> QED BY <1>1, <1>2, <1>3 DEF ConfiguredInv

\* When every operation begun has ended well, what runs is what is configured, in
\* whatever order they wrote their files, and docker commands worked beside each
\* other: but for the services two of these had in hand at the same time, or one did
\* not know to be enabled.
THEOREM ConfiguredRuns == LifecycleSpec => []RunsWhatIsConfigured
<1>1. LifecycleInit => ConfiguredInv
  <2> SUFFICES ASSUME LifecycleInit PROVE ConfiguredInv
    OBVIOUS
  <2>1. /\ pc = [o \in Ops |-> "new"] /\ jobs = [o \in Ops |-> [s \in {} |-> None]]
        /\ containers = [s \in Services |-> IF s \in enabled \cup {Core} THEN Created(s) ELSE None]
    BY DEF LifecycleInit
  <2>2. \A s \in Services : InHand(s) = {} /\ containers[s] = Right(s)
    BY <2>1 DEF InHand, Right
  <2> QED BY <2>1, <2>2 DEF ConfiguredInv, KindOfPlace, RunsUpToPending, Handled
<1>2. LifecycleTypeOK /\ Together /\ ConfiguredInv /\ [LifecycleNext]_lifecycleVars => ConfiguredInv'
  BY ConfiguredStep, ConfiguredStill, StepOrStill
<1>3. ConfiguredInv => RunsWhatIsConfigured
  <2> SUFFICES ASSUME ConfiguredInv,
                      \A o \in Ops : pc[o] \in {"new", "ok"},
                      \A o \in Ops : kind[o] = "disable" => met[o] = {},
                      \A o \in Ops : kind[o] = "uninstall" => pc[o] = "new",
                      NEW s \in Services \ contested
               PROVE  containers[s] = IF s \in enabled \cup {Core} THEN Created(s) ELSE None
    BY DEF RunsWhatIsConfigured
  <2>1. ~Spoiled
    BY DEF Spoiled
  <2>2. InHand(s) = {} /\ \A o \in Ops : ~Pending(o, s)
    BY <2>1 DEF ConfiguredInv, RunsUpToPending, InHand, Pending
  <2> QED BY <2>1, <2>2 DEF ConfiguredInv, RunsUpToPending, Handled, Right
<1> QED BY <1>1, <1>2, <1>3, LifecycleTypeCorrect, TogetherInvariant, PTL DEF LifecycleSpec

(***************************************************************************)
(* The configuration.                                                      *)
(***************************************************************************)
\* What an operation has still to write.
Setup1 == <<"keys", "tokens", "yml", "caps", "mark">>
Setup2 == <<"tokens", "yml", "caps", "mark">>
Setup3 == <<"yml", "caps", "mark">>
Setup4 == <<"caps", "mark">>
Setup5 == <<"mark">>
Caps == <<"caps">>
Custom == <<"custom">>
Remove1 == <<"blank", "unindex">>
Remove2 == <<"unindex">>
Keys1 == <<"keys">>
Patch1 == <<"patch">>

BeforeYml == {performSetup, Setup1, Setup2, Setup3}
Resolving == BeforeYml \cup {Setup4, SaveCapabilities, AssignCapabilities, Caps, writeRuntimeFiles}
Naming == BeforeYml \cup {Setup4, Setup5, SaveCapabilities, AssignCapabilities, Keys1, Patch1}
Plans ==
  {<<>>} \cup BeforeYml \cup Resolving \cup Naming \cup {WriteSecret, Custom, RemoveSecret, Remove1, Remove2, WriteToken}

Line == [live : BOOLEAN, key : Numbers]

\* A process works at one plan; those that work at a time know it; a plan that needs a
\* provider has one; and a key that is saved alone is known to be so.
PlansInv ==
  /\ todo \in [Writers -> Plans]
  /\ \A v, w \in Writers : v # w /\ todo[v] # <<>> /\ todo[w] # <<>> => v \in overlapped
  /\ \A w \in Writers : /\ todo[w] \in Naming => job[w].provider \in Providers
                        /\ todo[w] = writeRuntimeFiles => job[w].provider = Unset
  /\ \A w \in Writers : todo[w] \in KeyAlone => astray # {}

\* What is resolved is what is configured, or will be resolved; and who resolves without
\* overlapping another resolves what stack.yml says.
ResolvedInv ==
  /\ astray = {} => resolved = Resolve(stackYml) \/ \E w \in Writers : todo[w] \in Resolving
  /\ stackYml = Unset /\ astray = {} => resolved = Resolve(Unset)
  /\ \A w \in Writers : todo[w] \in {Setup4, Caps} /\ w \notin overlapped /\ job[w].provider # Unset =>
       stackYml = job[w].provider

\* A setup is marked once it has written its specification.
Specified == stackYml # Unset \/ "yml" \in torn
SetupInv ==
  /\ setupMark = "true" => Specified
  /\ \A w \in Writers : todo[w] \in {Setup4, Setup5} => Specified
  /\ setupMark = "absent" /\ tokens.admin # 0 =>
       Specified \/ mishaps > 0 \/ \E w \in Writers : todo[w] \in BeforeYml

\* A secret is in the index before it is stored, and until it is blank.
Excused == torn \cap {"index", "entry"} # {}
SecretInv ==
  /\ StoredIsIndexed
  /\ \A w \in Writers : todo[w] = Custom => indexed \/ Excused
  /\ \A w \in Writers : todo[w] = Remove2 /\ w \notin overlapped => ~stored

\* There is one line for a key, but for those the user has commented out.
KeysInv ==
  \A p \in Keyed \ noted :
    \/ "env" \in torn
    \/ keyLines[p] = <<>> /\ saved[p] = 0
    \/ keyLines[p] = <<[live |-> TRUE, key |-> saved[p]]>>

\* A setup that overlaps nothing writes the token there is.
TokenInv ==
  \A w \in Writers \ overlapped : todo[w] \in {Setup1, Setup2} => job[w].assistant = tokens.assistant

ConfigInv == ConfigTypeOK /\ PlansInv /\ ResolvedInv /\ SetupInv /\ SecretInv /\ KeysInv /\ TokenInv

(***************************************************************************)
(* The lines of a file, and the plans.                                     *)
(***************************************************************************)
\* A set of numbers has a least one.
LEMMA LeastOf == ASSUME NEW T, T \subseteq Nat, T # {} PROVE \E x \in T : \A y \in T : x <= y
<1> DEFINE R == {p \in Nat \X Nat : p[1] < p[2]}
<1>1. IsWellFoundedOn(R, Nat)
  BY NatLessThanWellFounded DEF OpToRel
<1> HIDE DEF R
<1>2. \E x \in T : \A y \in T : ~(<<y, x>> \in R)
  BY <1>1, WFMin
<1>3. \A x, y \in Nat : <<y, x>> \in R <=> y < x
  BY DEF R
<1>4. PICK x \in T : \A y \in T : ~(<<y, x>> \in R)
  BY <1>2
<1>5. ASSUME NEW y \in T PROVE x <= y
  <2>1. x \in Nat /\ y \in Nat /\ ~(<<y, x>> \in R)
    BY <1>4
  <2>2. ~(y < x)
    BY <1>3, <2>1
  <2> QED BY <2>1, <2>2
<1> QED BY <1>5

\* A set of numbers with a bound has a greatest one.
LEMMA GreatestOf == ASSUME NEW n \in Nat, NEW T, T \subseteq 1..n, T # {} PROVE \E x \in T : \A y \in T : y <= x
<1> DEFINE U == {n - y : y \in T}
<1>1. U \subseteq Nat /\ U # {}
  <2>1. \A y \in T : n - y \in Nat
    OBVIOUS
  <2> QED BY <2>1
<1> HIDE DEF U
<1>2. PICK u \in U : \A v \in U : u <= v
  BY <1>1, LeastOf
<1>3. PICK x \in T : u = n - x
  BY DEF U
<1>4. ASSUME NEW y \in T PROVE y <= x
  <2>1. n - y \in U /\ x \in Nat /\ y \in Nat
    BY DEF U
  <2>2. n - x <= n - y
    BY <1>2, <1>3, <2>1
  <2> QED BY <2>1, <2>2
<1> QED BY <1>4

\* The key that counts is that of a line, or none.
LEMMA KeyInType == ASSUME NEW lines \in Seq(Line) PROVE KeyIn(lines) \in Numbers
<1> DEFINE live == {i \in DOMAIN lines : lines[i].live}
           i == CHOOSE x \in live : \A j \in live : j <= x
<1>1. CASE live = {}
  BY <1>1, StackConfigAssumption DEF KeyIn, Numbers, Old, StackConfigAssumption
<1>2. CASE live # {}
  <2>1. Len(lines) \in Nat /\ DOMAIN lines = 1..Len(lines) /\ live \subseteq 1..Len(lines)
    OBVIOUS
  <2>2. \E x \in live : \A j \in live : j <= x
    BY <1>2, <2>1, GreatestOf
  <2>3. i \in live
    BY <2>2
  <2>4. i \in 1..Len(lines)
    BY <2>1, <2>3
  <2>5. KeyIn(lines) = lines[i].key
    BY <1>2 DEF KeyIn
  <2> HIDE DEF i
  <2>6. lines[i] \in Line
    BY <2>4
  <2> QED BY <2>5, <2>6 DEF Line
<1> QED BY <1>1, <1>2

\* What counts of no line, and of one.
LEMMA KeyInOne ==
  /\ KeyIn(<<>>) = 0
  /\ \A k : KeyIn(<<[live |-> TRUE, key |-> k]>>) = k
<1>1. KeyIn(<<>>) = 0
  BY DEF KeyIn
<1>2. ASSUME NEW k PROVE KeyIn(<<[live |-> TRUE, key |-> k]>>) = k
  <2> DEFINE lines == <<[live |-> TRUE, key |-> k]>>
  <2>1. DOMAIN lines = {1} /\ lines[1].live /\ lines[1].key = k
    OBVIOUS
  <2> HIDE DEF lines
  <2>2. {i \in DOMAIN lines : lines[i].live} = {1}
    BY <2>1
  <2>3. \A i \in {1} : (\A j \in {1} : j <= i) <=> i = 1
    OBVIOUS
  <2>4. (CHOOSE i \in {1} : \A j \in {1} : j <= i) = 1
    BY <2>3
  <2>5. KeyIn(lines) = k
    BY <2>1, <2>2, <2>4 DEF KeyIn
  <2> QED BY <2>5 DEF lines
<1> QED BY <1>1, <1>2

\* A line that is written leaves lines.
LEMMA MergedType ==
  ASSUME NEW lines \in Seq(Line), NEW k \in Numbers, NEW u \in BOOLEAN
  PROVE  Merged(lines, k, u) \in Seq(Line)
<1> DEFINE hits == {i \in DOMAIN lines : lines[i].live \/ u}
           first == CHOOSE i \in hits : \A j \in hits : i <= j
           line == [live |-> TRUE, key |-> k]
<1>1. line \in Line
  BY DEF Line
<1>2. Append(lines, line) \in Seq(Line)
  BY <1>1
<1>3. [lines EXCEPT ![first] = line] \in Seq(Line)
  <2> HIDE DEF first, line
  <2> DEFINE new == [lines EXCEPT ![first] = line]
  <2>1. Len(lines) \in Nat /\ new = [i \in 1..Len(lines) |-> new[i]]
    OBVIOUS
  <2>2. \A i \in 1..Len(lines) : new[i] \in Line
    BY <1>1
  <2> HIDE DEF new
  <2>3. new \in [1..Len(lines) -> Line]
    BY <2>1, <2>2
  <2>4. new \in Seq(Line)
    BY <2>1, <2>3, SeqDef
  <2> QED BY <2>4 DEF new
<1>4. Merged(lines, k, u) \in {Append(lines, line), [lines EXCEPT ![first] = line]}
  BY DEF Merged
<1> QED BY <1>2, <1>3, <1>4

\* Where there is at most one line, there is one afterwards, with what was written.
LEMMA MergedOne ==
  ASSUME NEW k, NEW old, NEW u \in BOOLEAN
  PROVE  /\ Merged(<<>>, k, u) = <<[live |-> TRUE, key |-> k]>>
         /\ Merged(<<[live |-> TRUE, key |-> old]>>, k, u) = <<[live |-> TRUE, key |-> k]>>
<1>1. Merged(<<>>, k, u) = <<[live |-> TRUE, key |-> k]>>
  <2>1. {i \in DOMAIN <<>> : <<>>[i].live \/ u} = {}
    OBVIOUS
  <2>2. Merged(<<>>, k, u) = Append(<<>>, [live |-> TRUE, key |-> k])
    BY <2>1 DEF Merged
  <2> QED BY <2>2
<1> DEFINE lines == <<[live |-> TRUE, key |-> old]>>
           hits == {i \in DOMAIN lines : lines[i].live \/ u}
<1>2. hits = {1}
  OBVIOUS
<1>3. (CHOOSE i \in {1} : \A j \in {1} : i <= j) = 1
  <2>1. \A i \in {1} : (\A j \in {1} : i <= j) <=> i = 1
    OBVIOUS
  <2> QED BY <2>1
<1>4. Merged(lines, k, u) = [lines EXCEPT ![1] = [live |-> TRUE, key |-> k]]
  BY <1>2, <1>3 DEF Merged
<1>5. [lines EXCEPT ![1] = [live |-> TRUE, key |-> k]] = <<[live |-> TRUE, key |-> k]>>
  <2> DEFINE line == [live |-> TRUE, key |-> k]
             was == [live |-> TRUE, key |-> old]
  <2> HIDE DEF line, was
  <2>1. [<<was>> EXCEPT ![1] = line] = <<line>>
    OBVIOUS
  <2> QED BY <2>1 DEF line, was
<1> QED BY <1>1, <1>4, <1>5

\* What a specification resolves to has the type of what is stored.
LEMMA ResolveType ==
  ASSUME ConfigTypeOK, NEW p \in Providers \cup {Unset}
  PROVE  Resolve(p) \in [provider : Providers \cup {Unset}, key : Numbers]
<1>1. p \in Keyed => keyLines[p] \in Seq(Line)
  BY DEF ConfigTypeOK, Line
<1>2. p \in Keyed => KeyIn(keyLines[p]) \in Numbers
  BY <1>1, KeyInType
<1>3. 0 \in Numbers
  BY StackConfigAssumption DEF Numbers, Old, StackConfigAssumption
<1> QED BY <1>2, <1>3 DEF Resolve

\* A key is saved in one variable, or in none.
LEMMA SavesInOne ==
  ASSUME ConfigTypeOK, NEW w \in Writers, NEW step \in {"keys", "patch"}, SaveKey(w, step)
  PROVE  \/ keyLines' = keyLines /\ saved' = saved
         \/ \E p \in Keyed : \E k \in Numbers : \E u \in BOOLEAN :
              keyLines' = [keyLines EXCEPT ![p] = Merged(@, k, u)] /\ saved' = [saved EXCEPT ![p] = k]
<1>1. job[w].number \in Numbers /\ (step = "keys") \in BOOLEAN
  BY DEF ConfigTypeOK
<1>2. Variable(job[w].provider) \in Keyed
  BY StackConfigAssumption DEF Variable, StackConfigAssumption
<1>3. PICK p \in Keyed, k \in Numbers, u \in BOOLEAN :
        p = Variable(job[w].provider) /\ k = job[w].number /\ u = (step = "keys")
  BY <1>1, <1>2
<1>4. \/ keyLines' = keyLines /\ saved' = saved
      \/ keyLines' = [keyLines EXCEPT ![p] = Merged(@, k, u)] /\ saved' = [saved EXCEPT ![p] = k]
  BY <1>3 DEF SaveKey
<1> QED BY <1>4

\* The plans differ, and go on as they should.
LEMMA PlansGo ==
  ASSUME NEW p \in Plans, p # <<>>
  PROVE  \/ p = performSetup /\ Head(p) = "ensure" /\ Tail(p) = Setup1
         \/ p = Setup1 /\ Head(p) = "keys" /\ Tail(p) = Setup2
         \/ p = Setup2 /\ Head(p) = "tokens" /\ Tail(p) = Setup3
         \/ p = Setup3 /\ Head(p) = "yml" /\ Tail(p) = Setup4
         \/ p = Setup4 /\ Head(p) = "caps" /\ Tail(p) = Setup5
         \/ p = Setup5 /\ Head(p) = "mark" /\ Tail(p) = <<>>
         \/ p = SaveCapabilities /\ Head(p) = "patch" /\ Tail(p) = AssignCapabilities
         \/ p = AssignCapabilities /\ Head(p) = "yml" /\ Tail(p) = Caps
         \/ p = Caps /\ Head(p) = "caps" /\ Tail(p) = <<>>
         \/ p = writeRuntimeFiles /\ Head(p) = "systemEnv" /\ Tail(p) = Caps
         \/ p = WriteSecret /\ Head(p) = "index" /\ Tail(p) = Custom
         \/ p = Custom /\ Head(p) = "custom" /\ Tail(p) = <<>>
         \/ p = RemoveSecret /\ Head(p) = "index" /\ Tail(p) = Remove1
         \/ p = Remove1 /\ Head(p) = "blank" /\ Tail(p) = Remove2
         \/ p = Remove2 /\ Head(p) = "unindex" /\ Tail(p) = <<>>
         \/ p = WriteToken /\ Head(p) = "token" /\ Tail(p) = <<>>
         \/ p = Keys1 /\ Head(p) = "keys" /\ Tail(p) = <<>>
         \/ p = Patch1 /\ Head(p) = "patch" /\ Tail(p) = <<>>
<1>1. CASE p = performSetup
  <2>1. Head(performSetup) = "ensure" /\ Tail(performSetup) = Setup1
    BY DEF performSetup, Setup1
  <2> QED BY <1>1, <2>1
<1>2. CASE p = Setup1
  <2>1. Head(Setup1) = "keys" /\ Tail(Setup1) = Setup2
    BY DEF Setup1, Setup2
  <2> QED BY <1>2, <2>1
<1>3. CASE p = Setup2
  <2>1. Head(Setup2) = "tokens" /\ Tail(Setup2) = Setup3
    BY DEF Setup2, Setup3
  <2> QED BY <1>3, <2>1
<1>4. CASE p = Setup3
  <2>1. Head(Setup3) = "yml" /\ Tail(Setup3) = Setup4
    BY DEF Setup3, Setup4
  <2> QED BY <1>4, <2>1
<1>5. CASE p = Setup4
  <2>1. Head(Setup4) = "caps" /\ Tail(Setup4) = Setup5
    BY DEF Setup4, Setup5
  <2> QED BY <1>5, <2>1
<1>6. CASE p = Setup5
  <2>1. Head(Setup5) = "mark" /\ Tail(Setup5) = <<>>
    BY DEF Setup5
  <2> QED BY <1>6, <2>1
<1>7. CASE p = SaveCapabilities
  <2>1. Head(SaveCapabilities) = "patch" /\ Tail(SaveCapabilities) = AssignCapabilities
    BY DEF SaveCapabilities, AssignCapabilities
  <2> QED BY <1>7, <2>1
<1>8. CASE p = AssignCapabilities
  <2>1. Head(AssignCapabilities) = "yml" /\ Tail(AssignCapabilities) = Caps
    BY DEF AssignCapabilities, Caps
  <2> QED BY <1>8, <2>1
<1>9. CASE p = Caps
  <2>1. Head(Caps) = "caps" /\ Tail(Caps) = <<>>
    BY DEF Caps
  <2> QED BY <1>9, <2>1
<1>10. CASE p = writeRuntimeFiles
  <2>1. Head(writeRuntimeFiles) = "systemEnv" /\ Tail(writeRuntimeFiles) = Caps
    BY DEF writeRuntimeFiles, Caps
  <2> QED BY <1>10, <2>1
<1>11. CASE p = WriteSecret
  <2>1. Head(WriteSecret) = "index" /\ Tail(WriteSecret) = Custom
    BY DEF WriteSecret, Custom
  <2> QED BY <1>11, <2>1
<1>12. CASE p = Custom
  <2>1. Head(Custom) = "custom" /\ Tail(Custom) = <<>>
    BY DEF Custom
  <2> QED BY <1>12, <2>1
<1>13. CASE p = RemoveSecret
  <2>1. Head(RemoveSecret) = "index" /\ Tail(RemoveSecret) = Remove1
    BY DEF RemoveSecret, Remove1
  <2> QED BY <1>13, <2>1
<1>14. CASE p = Remove1
  <2>1. Head(Remove1) = "blank" /\ Tail(Remove1) = Remove2
    BY DEF Remove1, Remove2
  <2> QED BY <1>14, <2>1
<1>15. CASE p = Remove2
  <2>1. Head(Remove2) = "unindex" /\ Tail(Remove2) = <<>>
    BY DEF Remove2
  <2> QED BY <1>15, <2>1
<1>16. CASE p = WriteToken
  <2>1. Head(WriteToken) = "token" /\ Tail(WriteToken) = <<>>
    BY DEF WriteToken
  <2> QED BY <1>16, <2>1
<1>17. CASE p = Keys1
  <2>1. Head(Keys1) = "keys" /\ Tail(Keys1) = <<>>
    BY DEF Keys1
  <2> QED BY <1>17, <2>1
<1>18. CASE p = Patch1
  <2>1. Head(Patch1) = "patch" /\ Tail(Patch1) = <<>>
    BY DEF Patch1
  <2> QED BY <1>18, <2>1
<1>19. p \in {performSetup, Setup1, Setup2, Setup3, Setup4, Setup5, SaveCapabilities, AssignCapabilities, Caps, writeRuntimeFiles, WriteSecret, Custom, RemoveSecret, Remove1, Remove2, WriteToken, Keys1, Patch1}
  BY DEF Plans, BeforeYml, Resolving, Naming
<1> QED BY <1>1, <1>2, <1>3, <1>4, <1>5, <1>6, <1>7, <1>8, <1>9, <1>10, <1>11, <1>12, <1>13, <1>14, <1>15, <1>16, <1>17, <1>18, <1>19

\* The place of a plan in that list tells it from the others.
Place(n) ==
  /\ n[<<>>] = 0 /\ n[performSetup] = 1 /\ n[Setup1] = 2 /\ n[Setup2] = 3 /\ n[Setup3] = 4 /\ n[Setup4] = 5
  /\ n[Setup5] = 6 /\ n[SaveCapabilities] = 7 /\ n[AssignCapabilities] = 8 /\ n[Caps] = 9 /\ n[writeRuntimeFiles] = 10
  /\ n[WriteSecret] = 11 /\ n[Custom] = 12 /\ n[RemoveSecret] = 13 /\ n[Remove1] = 14 /\ n[Remove2] = 15
  /\ n[WriteToken] = 16 /\ n[Keys1] = 17 /\ n[Patch1] = 18

\* There is such a list.
LEMMA PlansDiffer == \E n : Place(n)
<1> DEFINE n == [p \in Plans |->
       CASE p = <<>> -> 0 [] p = performSetup -> 1 [] p = Setup1 -> 2 [] p = Setup2 -> 3 [] p = Setup3 -> 4
         [] p = Setup4 -> 5 [] p = Setup5 -> 6 [] p = SaveCapabilities -> 7 [] p = AssignCapabilities -> 8
         [] p = Caps -> 9 [] p = writeRuntimeFiles -> 10 [] p = WriteSecret -> 11 [] p = Custom -> 12
         [] p = RemoveSecret -> 13 [] p = Remove1 -> 14 [] p = Remove2 -> 15 [] p = WriteToken -> 16
         [] p = Keys1 -> 17 [] OTHER -> 18]
<1>1. Place(n)
  BY DEF Place, Plans, BeforeYml, Resolving, Naming, performSetup, Setup1, Setup2, Setup3, Setup4, Setup5, SaveCapabilities,
       AssignCapabilities, Caps, writeRuntimeFiles, WriteSecret, Custom, RemoveSecret, Remove1, Remove2, WriteToken, Keys1, Patch1
<1> QED BY <1>1

\* The plans are sequences of steps.
LEMMA PlansType == Plans \subseteq Seq(Steps)
BY DEF Plans, BeforeYml, Resolving, Naming, performSetup, Setup1, Setup2, Setup3, Setup4, Setup5, SaveCapabilities,
       AssignCapabilities, Caps, writeRuntimeFiles, WriteSecret, Custom, RemoveSecret, Remove1, Remove2, WriteToken, Keys1,
       Patch1, Steps

\* What a process does when it goes on.
LEMMA GoesOnWith ==
  ASSUME PlansInv, NEW w \in Writers, NEW step, Done(w, step)
  PROVE  /\ todo' \in [Writers -> Plans] /\ todo[w] # <<>>
         /\ \A v \in Writers \ {w} : todo'[v] = todo[v]
         /\ step = "ensure" => todo[w] = performSetup /\ todo'[w] = Setup1
         /\ step = "keys" => (todo[w] = Setup1 /\ todo'[w] = Setup2) \/ (todo[w] = Keys1 /\ todo'[w] = <<>>)
         /\ step = "tokens" => todo[w] = Setup2 /\ todo'[w] = Setup3
         /\ step = "yml" => (todo[w] = Setup3 /\ todo'[w] = Setup4) \/ (todo[w] = AssignCapabilities /\ todo'[w] = Caps)
         /\ step = "caps" => (todo[w] = Setup4 /\ todo'[w] = Setup5) \/ (todo[w] = Caps /\ todo'[w] = <<>>)
         /\ step = "mark" => todo[w] = Setup5 /\ todo'[w] = <<>>
         /\ step = "patch" => (todo[w] = SaveCapabilities /\ todo'[w] = AssignCapabilities) \/ (todo[w] = Patch1 /\ todo'[w] = <<>>)
         /\ step = "systemEnv" => todo[w] = writeRuntimeFiles /\ todo'[w] = Caps
         /\ step = "index" => (todo[w] = WriteSecret /\ todo'[w] = Custom) \/ (todo[w] = RemoveSecret /\ todo'[w] = Remove1)
         /\ step = "custom" => todo[w] = Custom /\ todo'[w] = <<>>
         /\ step = "blank" => todo[w] = Remove1 /\ todo'[w] = Remove2
         /\ step = "unindex" => todo[w] = Remove2 /\ todo'[w] = <<>>
         /\ step = "token" => todo[w] = WriteToken /\ todo'[w] = <<>>
<1>1. todo \in [Writers -> Plans] /\ todo[w] # <<>> /\ Head(todo[w]) = step /\ todo' = [todo EXCEPT ![w] = Tail(@)]
  BY DEF Done, PlansInv
<1>2. PICK p \in Plans : p = todo[w]
  BY <1>1
<1>3. PICK h, t : h = Head(p) /\ t = Tail(p)
  OBVIOUS
<1>4. \/ p = performSetup /\ h = "ensure" /\ t = Setup1
      \/ p = Setup1 /\ h = "keys" /\ t = Setup2
      \/ p = Setup2 /\ h = "tokens" /\ t = Setup3
      \/ p = Setup3 /\ h = "yml" /\ t = Setup4
      \/ p = Setup4 /\ h = "caps" /\ t = Setup5
      \/ p = Setup5 /\ h = "mark" /\ t = <<>>
      \/ p = SaveCapabilities /\ h = "patch" /\ t = AssignCapabilities
      \/ p = AssignCapabilities /\ h = "yml" /\ t = Caps
      \/ p = Caps /\ h = "caps" /\ t = <<>>
      \/ p = writeRuntimeFiles /\ h = "systemEnv" /\ t = Caps
      \/ p = WriteSecret /\ h = "index" /\ t = Custom
      \/ p = Custom /\ h = "custom" /\ t = <<>>
      \/ p = RemoveSecret /\ h = "index" /\ t = Remove1
      \/ p = Remove1 /\ h = "blank" /\ t = Remove2
      \/ p = Remove2 /\ h = "unindex" /\ t = <<>>
      \/ p = WriteToken /\ h = "token" /\ t = <<>>
      \/ p = Keys1 /\ h = "keys" /\ t = <<>>
      \/ p = Patch1 /\ h = "patch" /\ t = <<>>
  BY <1>1, <1>2, <1>3, PlansGo
<1>5. t \in Plans
  BY <1>4 DEF Plans, BeforeYml, Resolving, Naming
<1>6. h = step /\ todo' = [todo EXCEPT ![w] = t]
  BY <1>1, <1>2, <1>3
<1>7. todo' \in [Writers -> Plans] /\ todo'[w] = t /\ \A v \in Writers \ {w} : todo'[v] = todo[v]
  BY <1>1, <1>5, <1>6
<1> QED BY <1>1, <1>2, <1>4, <1>6, <1>7

\* Only who overlaps another may find that it works too.
LEMMA WorksAlone ==
  ASSUME PlansInv, NEW w \in Writers, todo[w] # <<>>, NEW v \in Writers, v # w, v \notin overlapped
  PROVE  todo[v] = <<>>
BY DEF PlansInv

\* A write keeps what is known of the plans, if it does not forget that a key was saved alone.
LEMMA PlansKept ==
  ASSUME PlansInv, NEW w \in Writers, NEW step \in Steps, Done(w, step),
         overlapped' = overlapped, \A v \in Writers : job'[v].provider = job[v].provider,
         astray # {} /\ (step = "caps" => w \in overlapped) => astray' # {}
  PROVE  PlansInv'
<1>1. PICK n : Place(n)
  BY PlansDiffer
<1>2. /\ todo' \in [Writers -> Plans] /\ todo[w] # <<>>
      /\ \A v \in Writers \ {w} : todo'[v] = todo[v]
  BY GoesOnWith
<1>m. \/ todo'[w] = <<>> \/ todo'[w] = Caps \/ todo'[w] = Custom \/ todo'[w] = Remove1 \/ todo'[w] = Remove2
      \/ todo'[w] = Setup1 /\ todo[w] = performSetup
      \/ todo'[w] = Setup2 /\ todo[w] = Setup1
      \/ todo'[w] = Setup3 /\ todo[w] = Setup2
      \/ todo'[w] = Setup4 /\ todo[w] = Setup3
      \/ todo'[w] = Setup5 /\ todo[w] = Setup4
      \/ todo'[w] = AssignCapabilities /\ todo[w] = SaveCapabilities
  BY GoesOnWith DEF Steps
<1>3. todo'[w] \in Naming => todo[w] \in Naming
  <2>1. PICK q, p : q = todo'[w] /\ p = todo[w]
    OBVIOUS
  <2>2. CASE q = <<>> \/ q = Caps \/ q = Custom \/ q = Remove1 \/ q = Remove2
    <3>1. n[q] \in {0, 9, 12, 14, 15}
      BY <1>1, <2>2 DEF Place
    <3>2. ASSUME q \in Naming PROVE n[q] \in (1..8) \cup {17, 18}
      <4>1. \/ q = performSetup \/ q = Setup1 \/ q = Setup2 \/ q = Setup3 \/ q = Setup4 \/ q = Setup5
            \/ q = SaveCapabilities \/ q = AssignCapabilities \/ q = Keys1 \/ q = Patch1
        BY <3>2 DEF Naming, BeforeYml
      <4> HIDE DEF performSetup, Setup1, Setup2, Setup3, Setup4, Setup5, SaveCapabilities, AssignCapabilities, Keys1, Patch1
      <4> QED BY <1>1, <4>1 DEF Place
    <3>3. q \notin Naming
      BY <3>1, <3>2
    <3> QED BY <2>1, <3>3
  <2>3. CASE p = performSetup \/ p = Setup1 \/ p = Setup2 \/ p = Setup3 \/ p = Setup4 \/ p = SaveCapabilities
    <3>1. p \in Naming
      BY <2>3 DEF Naming, BeforeYml
    <3> QED BY <2>1, <3>1
  <2> QED BY <1>m, <2>1, <2>2, <2>3
<1>k. KeyAlone = {Keys1, Patch1}
  BY DEF KeyAlone, Keys1, Patch1
<1>4. todo'[w] # writeRuntimeFiles /\ todo'[w] \notin KeyAlone
  <2>1. PICK q : q = todo'[w]
    OBVIOUS
  <2>2. n[q] \notin {10, 17, 18}
    BY <1>1, <1>m, <2>1 DEF Place
  <2>3. q # writeRuntimeFiles /\ q # Keys1 /\ q # Patch1
    BY <1>1, <2>2 DEF Place
  <2> QED BY <1>k, <2>1, <2>3
<1>5. \A u, v \in Writers : u # v /\ todo'[u] # <<>> /\ todo'[v] # <<>> => u \in overlapped'
  BY <1>2 DEF PlansInv
<1>6. \A v \in Writers : /\ todo'[v] \in Naming => job'[v].provider \in Providers
                         /\ todo'[v] = writeRuntimeFiles => job'[v].provider = Unset
  BY <1>2, <1>3, <1>4 DEF PlansInv
<1>7. ASSUME NEW v \in Writers, todo'[v] \in KeyAlone PROVE astray' # {}
  <2>1. v # w /\ todo[v] \in KeyAlone /\ todo[v] # <<>>
    BY <1>2, <1>4, <1>7 DEF KeyAlone
  <2>2. w \in overlapped /\ astray # {}
    BY <1>2, <2>1 DEF PlansInv
  <2> QED BY <2>2
<1> QED BY <1>2, <1>5, <1>6, <1>7 DEF PlansInv

(***************************************************************************)
(* What a step keeps of the configuration.                                 *)
(***************************************************************************)
\* A process that goes on.
Going(w) ==
  \/ EnsureSecrets(w) \/ SaveKey(w, "keys") \/ SaveKey(w, "patch") \/ UpdateTokens(w) \/ TokenWritten(w)
  \/ (WriteStackSpec(w) /\ Done(w, "yml")) \/ WriteCapabilityVars(w) \/ MarkSetup(w) \/ CustomSecret(w)

\* A process that gives up.
GivingUp(w) == Mishap(w) \/ (WriteStackSpec(w) /\ ~Done(w, "yml"))

\* An operation that begins.
Starts(w, steps, p, n) ==
  /\ Calls(w, steps, p, n) /\ n \in {0, calls + 1}
  /\ \/ p \in Providers /\ (steps \in {performSetup, SaveCapabilities, AssignCapabilities} \/ steps \in KeyAlone)
     \/ p = Unset /\ steps \in {writeRuntimeFiles, WriteSecret, RemoveSecret, WriteToken}
  /\ steps = AssignCapabilities => stackYml # Unset

\* Every step begins an operation, goes on with one, gives it up or is the user's.
LEMMA ConfigCases ==
  ASSUME ConfigNext
  PROVE  \/ \E w \in Writers : Going(w) \/ GivingUp(w) \/ \E steps, p, n : Starts(w, steps, p, n)
         \/ \E p \in Keyed : Note(p)
<1>1. ASSUME NEW w \in Writers, Call(w) PROVE \E steps, p, n : Starts(w, steps, p, n)
  <2>1. ASSUME NEW p \in Providers, NEW steps \in {performSetup, SaveCapabilities}, Calls(w, steps, p, calls + 1)
        PROVE  Starts(w, steps, p, calls + 1) \/ steps = AssignCapabilities
    BY <2>1 DEF Starts
  <2>2. performSetup # AssignCapabilities /\ SaveCapabilities # AssignCapabilities
    BY DEF performSetup, SaveCapabilities, AssignCapabilities
  <2>3. ASSUME NEW p \in Providers, stackYml # Unset, Calls(w, AssignCapabilities, p, 0)
        PROVE  Starts(w, AssignCapabilities, p, 0)
    BY <2>3 DEF Starts
  <2>4. ASSUME NEW p \in Keyed, NEW steps \in KeyAlone, NEW n \in {0, calls + 1}, Calls(w, steps, p, n)
        PROVE  Starts(w, steps, p, n)
    <3>1. steps # AssignCapabilities /\ p \in Providers
      BY StackConfigAssumption DEF KeyAlone, AssignCapabilities, StackConfigAssumption
    <3> QED BY <2>4, <3>1 DEF Starts
  <2>5. ASSUME NEW steps \in {writeRuntimeFiles, WriteSecret, RemoveSecret}, Calls(w, steps, Unset, 0)
        PROVE  Starts(w, steps, Unset, 0)
    <3>1. steps # AssignCapabilities
      BY DEF writeRuntimeFiles, WriteSecret, RemoveSecret, AssignCapabilities
    <3> QED BY <2>5, <3>1 DEF Starts
  <2>6. ASSUME NEW n \in {0, calls + 1}, Calls(w, WriteToken, Unset, n)
        PROVE  Starts(w, WriteToken, Unset, n)
    <3>1. WriteToken # AssignCapabilities
      BY DEF WriteToken, AssignCapabilities
    <3> QED BY <2>6, <3>1 DEF Starts
  <2> QED BY <1>1, <2>1, <2>2, <2>3, <2>4, <2>5, <2>6 DEF Call
<1>2. ASSUME NEW w \in Writers, WriteStackSpec(w) PROVE Going(w) \/ GivingUp(w)
  BY <1>2 DEF Going, GivingUp
<1> QED BY <1>1, <1>2 DEF ConfigNext, Going, GivingUp

\* What every write leaves alone.
LEMMA GoingIs ==
  ASSUME ConfigTypeOK, NEW w \in Writers, Going(w)
  PROVE  /\ \E step \in Steps : Done(w, step) /\ (step \notin {"caps", "yml"} => UNCHANGED <<stackYml, astray>>)
         /\ UNCHANGED <<calls, mishaps, notes, noted, overlapped>>
         /\ \A v \in Writers : job'[v].provider = job[v].provider /\ (v # w => job'[v] = job[v])
<1>j. job \in [Writers -> [provider : Providers \cup {Unset}, number : Numbers, assistant : Numbers]]
  BY DEF ConfigTypeOK
<1>1. CASE EnsureSecrets(w)
  BY <1>1, <1>j DEF EnsureSecrets, Steps, configHistory
<1>2. CASE SaveKey(w, "keys") \/ SaveKey(w, "patch")
  BY <1>2 DEF SaveKey, Steps
<1>3. CASE UpdateTokens(w) \/ TokenWritten(w)
  BY <1>3 DEF UpdateTokens, TokenWritten, Steps, configHistory
<1>4. CASE WriteStackSpec(w) /\ Done(w, "yml")
  BY <1>4 DEF WriteStackSpec, Steps
<1>5. CASE WriteCapabilityVars(w)
  BY <1>5 DEF WriteCapabilityVars, Steps
<1>6. CASE MarkSetup(w)
  BY <1>6 DEF MarkSetup, Steps, configHistory
<1>7. CASE CustomSecret(w)
  BY <1>7 DEF CustomSecret, Steps
<1> QED BY <1>1, <1>2, <1>3, <1>4, <1>5, <1>6, <1>7 DEF Going

\* The plans, when an operation begins.
LEMMA PlansBegin ==
  ASSUME ConfigTypeOK, PlansInv, NEW w \in Writers, NEW steps, NEW p, NEW n, Starts(w, steps, p, n)
  PROVE  /\ PlansInv' /\ todo[w] = <<>> /\ todo'[w] = steps /\ job'[w] = [provider |-> p, number |-> n, assistant |-> 0]
         /\ steps \in {performSetup, SaveCapabilities, AssignCapabilities, Keys1, Patch1, writeRuntimeFiles, WriteSecret, RemoveSecret, WriteToken}
         /\ \A v \in Writers \ {w} : todo'[v] = todo[v] /\ job'[v] = job[v]
         /\ \A v \in Writers \ overlapped' : v # w => todo'[v] = <<>> \/ v \notin overlapped
<1>1. PICK m : Place(m)
  BY PlansDiffer
<1>k. KeyAlone = {Keys1, Patch1}
  BY DEF KeyAlone, Keys1, Patch1
<1>2. steps \in {performSetup, SaveCapabilities, AssignCapabilities, Keys1, Patch1, writeRuntimeFiles, WriteSecret, RemoveSecret, WriteToken}
  BY <1>k DEF Starts
<1>3. /\ todo[w] = <<>> /\ todo'[w] = steps /\ todo' \in [Writers -> Plans]
      /\ job'[w] = [provider |-> p, number |-> n, assistant |-> 0]
      /\ \A v \in Writers \ {w} : todo'[v] = todo[v] /\ job'[v] = job[v]
  <2>1. steps \in Plans
    BY <1>2 DEF Plans, BeforeYml, Resolving, Naming
  <2>2. /\ todo[w] = <<>> /\ todo' = [todo EXCEPT ![w] = steps]
        /\ job' = [job EXCEPT ![w] = [provider |-> p, number |-> n, assistant |-> 0]]
    BY DEF Starts, Calls
  <2>3. todo \in [Writers -> Plans] /\ w \in DOMAIN job
    BY DEF PlansInv, ConfigTypeOK
  <2> QED BY <2>1, <2>2, <2>3
<1>4. PICK others : others = {v \in Writers \ {w} : todo[v] # <<>>}
  OBVIOUS
<1>5. overlapped' = IF others = {} THEN overlapped \ {w} ELSE overlapped \cup others \cup {w}
  BY <1>4 DEF Starts, Calls
<1>6. \A u, v \in Writers : u # v /\ todo'[u] # <<>> /\ todo'[v] # <<>> => u \in overlapped'
  BY <1>3, <1>4, <1>5 DEF PlansInv
<1>7. steps \in Naming => p \in Providers
  <2>1. CASE p = Unset
    <3>1. steps \in {writeRuntimeFiles, WriteSecret, RemoveSecret, WriteToken}
      BY <2>1, StackConfigAssumption DEF Starts, Unset, StackConfigAssumption
    <3>2. m[steps] \in {10, 11, 13, 16}
      BY <1>1, <3>1 DEF Place
    <3> QED BY <1>1, <3>2 DEF Place, Naming, BeforeYml
  <2> QED BY <2>1 DEF Starts
<1>8. steps = writeRuntimeFiles => p = Unset
  <2>1. p # Unset => steps \in {performSetup, SaveCapabilities, AssignCapabilities, Keys1, Patch1}
    BY <1>k DEF Starts
  <2>2. p # Unset => m[steps] \in {1, 7, 8, 17, 18}
    BY <1>1, <2>1 DEF Place
  <2> QED BY <1>1, <2>2 DEF Place
<1>9. steps \in KeyAlone => astray' # {}
  BY DEF Starts, Calls
<1>10. astray # {} => astray' # {}
  BY DEF Starts, Calls
<1>11. PlansInv'
  BY <1>3, <1>6, <1>7, <1>8, <1>9, <1>10 DEF PlansInv
<1>12. \A v \in Writers \ overlapped' : v # w => todo'[v] = <<>> \/ v \notin overlapped
  BY <1>3, <1>4, <1>5
<1> QED BY <1>2, <1>3, <1>11, <1>12

\* Every step keeps what is known of the plans.
LEMMA PlansInvariant == ASSUME ConfigTypeOK, PlansInv, ConfigNext PROVE PlansInv'
<1>1. ASSUME NEW w \in Writers, Going(w) PROVE PlansInv'
  <2>1. PICK step \in Steps : Done(w, step) /\ (step \notin {"caps", "yml"} => UNCHANGED <<stackYml, astray>>)
    BY <1>1, GoingIs
  <2>2. overlapped' = overlapped /\ \A v \in Writers : job'[v].provider = job[v].provider
    BY <1>1, GoingIs
  <2>3. CASE step \in {"caps", "yml"}
    <3>1. WriteCapabilityVars(w) \/ WriteStackSpec(w)
      BY <1>1, <2>1, <2>3 DEF Going, Done, EnsureSecrets, SaveKey, UpdateTokens, TokenWritten, MarkSetup, CustomSecret
    <3>2. astray # {} /\ (step = "caps" => w \in overlapped) => astray' # {}
      BY <2>1, <2>3, <3>1 DEF WriteCapabilityVars, WriteStackSpec, Done
    <3> QED BY <2>1, <2>2, <3>2, PlansKept
  <2>4. CASE step \notin {"caps", "yml"}
    BY <2>1, <2>2, <2>4, PlansKept
  <2> QED BY <2>3, <2>4
<1>2. ASSUME NEW w \in Writers, GivingUp(w) PROVE PlansInv'
  <2>1. todo' = [todo EXCEPT ![w] = <<>>] /\ astray' # {} /\ overlapped' = overlapped /\ job' = job
    BY <1>2 DEF GivingUp, Mishap, WriteStackSpec
  <2>2. /\ todo' \in [Writers -> Plans] /\ todo'[w] = <<>>
        /\ \A v \in Writers \ {w} : todo'[v] = todo[v]
    BY <2>1 DEF PlansInv, Plans
  <2>3. <<>> \notin Naming /\ <<>> # writeRuntimeFiles
    BY PlansDiffer DEF Place, Naming, BeforeYml
  <2> QED BY <2>1, <2>2, <2>3 DEF PlansInv
<1>3. ASSUME NEW p \in Keyed, Note(p) PROVE PlansInv'
  BY <1>3 DEF Note, PlansInv
<1>4. ASSUME NEW w \in Writers, NEW steps, NEW p, NEW n, Starts(w, steps, p, n) PROVE PlansInv'
  BY <1>4, PlansBegin
<1> QED BY <1>1, <1>2, <1>3, <1>4, ConfigCases

\* The numbers of keys and tokens, and the bounds.
LEMMA NumbersAre == 0 \in Numbers /\ Old \in Numbers /\ (\A n \in Numbers : n < MaxCalls => n + 1 \in Numbers) /\ Numbers \subseteq Nat /\ MaxCalls \in Nat /\ MaxMishaps \in Nat /\ MaxNotes \in Nat
BY StackConfigAssumption DEF Numbers, Old, StackConfigAssumption

\* A step of a process keeps the types.
LEMMA TypesKept ==
  ASSUME ConfigTypeOK, PlansInv, ConfigNext
  PROVE  ConfigTypeOK'
<1>p. PlansInv' /\ todo' \in [Writers -> Seq(Steps)]
  BY PlansInvariant, PlansType DEF PlansInv
<1> DEFINE Job == [provider : Providers \cup {Unset}, number : Numbers, assistant : Numbers]
<1>t. /\ stackYml \in Providers \cup {Unset}
      /\ keyLines \in [Keyed -> Seq(Line)]
      /\ tokens \in [admin : Numbers, assistant : Numbers]
      /\ resolved \in [provider : Providers \cup {Unset}, key : Numbers]
      /\ setupMark \in {"absent", "false", "true"} /\ indexed \in BOOLEAN /\ stored \in BOOLEAN
      /\ job \in [Writers -> Job]
      /\ calls \in Numbers /\ mishaps \in 0..MaxMishaps /\ notes \in 0..MaxNotes
      /\ saved \in [Keyed -> Numbers] /\ noted \subseteq Keyed /\ overlapped \subseteq Writers
      /\ astray \subseteq {"failed", "overlapped", "key saved alone"} /\ torn \subseteq {"yml", "env", "index", "entry"}
  BY DEF ConfigTypeOK, Line
<1> SUFFICES
      /\ stackYml' \in Providers \cup {Unset}
      /\ keyLines' \in [Keyed -> Seq(Line)]
      /\ tokens' \in [admin : Numbers, assistant : Numbers]
      /\ resolved' \in [provider : Providers \cup {Unset}, key : Numbers]
      /\ setupMark' \in {"absent", "false", "true"} /\ indexed' \in BOOLEAN /\ stored' \in BOOLEAN
      /\ job' \in [Writers -> Job]
      /\ calls' \in Numbers /\ mishaps' \in 0..MaxMishaps /\ notes' \in 0..MaxNotes
      /\ saved' \in [Keyed -> Numbers] /\ noted' \subseteq Keyed /\ overlapped' \subseteq Writers
      /\ astray' \subseteq {"failed", "overlapped", "key saved alone"} /\ torn' \subseteq {"yml", "env", "index", "entry"}
  BY <1>p DEF ConfigTypeOK, Line
<1>1. ASSUME NEW w \in Writers, EnsureSecrets(w) PROVE tokens' \in [admin : Numbers, assistant : Numbers] /\ job' \in [Writers -> Job]
  <2>1. job[w] \in Job
    BY <1>t
  <2>2. tokens' \in [admin : Numbers, assistant : Numbers]
    BY <1>1, <1>t, <2>1 DEF EnsureSecrets
  <2>3. PICK a \in Numbers : a = tokens'.assistant
    BY <2>2
  <2>4. job' = [job EXCEPT ![w].assistant = a]
    BY <1>1, <2>3 DEF EnsureSecrets
  <2> QED BY <1>t, <2>1, <2>2, <2>4
<1>2. ASSUME NEW w \in Writers, NEW step \in {"keys", "patch"}, SaveKey(w, step)
      PROVE  keyLines' \in [Keyed -> Seq(Line)] /\ saved' \in [Keyed -> Numbers]
  <2>1. CASE keyLines' = keyLines /\ saved' = saved
    BY <1>t, <2>1
  <2>2. ASSUME NEW p \in Keyed, NEW k \in Numbers, NEW u \in BOOLEAN,
               keyLines' = [keyLines EXCEPT ![p] = Merged(@, k, u)], saved' = [saved EXCEPT ![p] = k]
        PROVE  keyLines' \in [Keyed -> Seq(Line)] /\ saved' \in [Keyed -> Numbers]
    <3>1. keyLines[p] \in Seq(Line)
      BY <1>t
    <3>2. Merged(keyLines[p], k, u) \in Seq(Line)
      BY <3>1, MergedType
    <3> QED BY <1>t, <2>2, <3>2
  <2> QED BY <1>2, <2>1, <2>2, SavesInOne
<1>3. ASSUME NEW w \in Writers, Going(w) PROVE todo[w] # <<>> /\ (todo[w] \in Naming => job[w].provider \in Providers)
  BY <1>3, GoingIs DEF PlansInv, Done
<1>5. ASSUME NEW w \in Writers, Done(w, "yml") PROVE job[w].provider \in Providers
  <2>1. todo[w] \in {Setup3, AssignCapabilities}
    BY <1>5, GoesOnWith
  <2> QED BY <2>1 DEF PlansInv, Naming, BeforeYml
<1>6. ASSUME NEW w \in Writers, Going(w)
      PROVE  /\ stackYml' \in Providers \cup {Unset}
             /\ keyLines' \in [Keyed -> Seq(Line)]
             /\ tokens' \in [admin : Numbers, assistant : Numbers]
             /\ resolved' \in [provider : Providers \cup {Unset}, key : Numbers]
             /\ setupMark' \in {"absent", "false", "true"} /\ indexed' \in BOOLEAN /\ stored' \in BOOLEAN
             /\ job' \in [Writers -> Job]
             /\ saved' \in [Keyed -> Numbers]
             /\ astray' \subseteq {"failed", "overlapped", "key saved alone"} /\ torn' \subseteq {"yml", "env", "index", "entry"}
  <2>j. job[w] \in Job
    BY <1>t
  <2>1. CASE EnsureSecrets(w)
    BY <1>1, <1>t, <2>1 DEF EnsureSecrets, configHistory
  <2>2. CASE SaveKey(w, "keys") \/ SaveKey(w, "patch")
    <3>1. PICK step \in {"keys", "patch"} : SaveKey(w, step)
      BY <2>2
    <3>3. keyLines' \in [Keyed -> Seq(Line)] /\ saved' \in [Keyed -> Numbers]
      BY <1>2, <3>1
    <3>4. UNCHANGED <<stackYml, tokens, resolved, setupMark, indexed, stored, job, astray, torn>>
      BY <3>1 DEF SaveKey
    <3> QED BY <1>t, <3>3, <3>4
  <2>3. CASE UpdateTokens(w) \/ TokenWritten(w)
    <3>1. PICK k \in Numbers, a \in Numbers : k = job[w].number /\ a = job[w].assistant
      BY <2>j
    <3>2. tokens' = [admin |-> k, assistant |-> a] \/ tokens' = [tokens EXCEPT !.assistant = k]
      BY <2>3, <3>1 DEF UpdateTokens, TokenWritten, AssistantToken
    <3>3. tokens' \in [admin : Numbers, assistant : Numbers]
      <4>1. PICK x \in Numbers, y \in Numbers : tokens = [admin |-> x, assistant |-> y]
        BY <1>t
      <4>2. [tokens EXCEPT !.assistant = k] = [admin |-> x, assistant |-> k]
        BY <4>1
      <4> QED BY <3>1, <3>2, <4>2
    <3>4. UNCHANGED <<stackYml, keyLines, resolved, setupMark, indexed, stored, job, saved, astray, torn>>
      BY <2>3 DEF UpdateTokens, TokenWritten, configHistory
    <3> QED BY <1>t, <3>3, <3>4
  <2>4. CASE WriteStackSpec(w) /\ Done(w, "yml")
    BY <1>t, <1>5, <2>4 DEF WriteStackSpec, envFile
  <2>5. CASE WriteCapabilityVars(w)
    <3>1. PICK p \in Providers \cup {Unset} : p = IF job[w].provider = Unset THEN stackYml ELSE job[w].provider
      BY <1>t, <2>j
    <3>2. Resolve(p) \in [provider : Providers \cup {Unset}, key : Numbers]
      BY ResolveType
    <3>3. (resolved' = resolved /\ astray' = astray) \/ (resolved' = Resolve(p) /\ astray' \subseteq {"overlapped"})
      BY <2>5, <3>1 DEF WriteCapabilityVars
    <3>4. UNCHANGED <<stackYml, keyLines, tokens, setupMark, indexed, stored, job, saved, torn>>
      BY <2>5 DEF WriteCapabilityVars
    <3> QED BY <1>t, <3>2, <3>3, <3>4
  <2>6. CASE MarkSetup(w)
    BY <1>t, <2>6 DEF MarkSetup, configHistory
  <2>7. CASE CustomSecret(w)
    BY <1>t, <2>7 DEF CustomSecret
  <2> QED BY <1>6, <2>1, <2>2, <2>3, <2>4, <2>5, <2>6, <2>7 DEF Going
<1>7. ASSUME NEW w \in Writers, GivingUp(w)
      PROVE  /\ stackYml' \in Providers \cup {Unset}
             /\ keyLines' \in [Keyed -> Seq(Line)]
             /\ tokens' \in [admin : Numbers, assistant : Numbers]
             /\ resolved' \in [provider : Providers \cup {Unset}, key : Numbers]
             /\ setupMark' \in {"absent", "false", "true"} /\ indexed' \in BOOLEAN /\ stored' \in BOOLEAN
             /\ mishaps' \in 0..MaxMishaps
             /\ astray' \subseteq {"failed", "overlapped", "key saved alone"} /\ torn' \subseteq {"yml", "env", "index", "entry"}
             /\ UNCHANGED <<calls, notes, job, saved, noted, overlapped>>
  <2>1. CASE Mishap(w)
    <3>1. mishaps' \in 0..MaxMishaps
      <4>1. mishaps < MaxMishaps /\ mishaps' = mishaps + 1
        BY <2>1 DEF Mishap
      <4>2. MaxMishaps \in Nat /\ mishaps \in 0..MaxMishaps
        BY <1>t, NumbersAre
      <4> QED BY <4>1, <4>2
    <3>2. PICK f : f = FileOf(Head(todo[w])) /\ f \in {"yml", "index", "env"}
      BY DEF FileOf
    <3>3. astray' = astray \cup {"failed"} /\ UNCHANGED <<calls, notes, job, saved, noted, overlapped>>
      BY <2>1 DEF Mishap
    <3>4. CASE UNCHANGED <<stackYml, envFile, indexed, torn>>
      BY <1>t, <3>1, <3>3, <3>4 DEF envFile
    <3>5. CASE torn' = torn \cup {f} /\ (f = "yml" => stackYml' = Unset /\ UNCHANGED <<envFile, indexed>>)
               /\ (f = "index" => indexed' = FALSE /\ UNCHANGED <<stackYml, envFile>>)
               /\ (f = "env" => /\ keyLines' = [p \in Keyed |-> <<>>]
                                /\ tokens' = NoTokens /\ resolved' = [provider |-> Unset, key |-> 0]
                                /\ setupMark' = "absent" /\ stored' = FALSE
                                /\ UNCHANGED <<stackYml, indexed>>)
      <4>1. torn' \subseteq {"yml", "env", "index", "entry"} /\ astray' \subseteq {"failed", "overlapped", "key saved alone"}
        BY <1>t, <3>2, <3>3, <3>5
      <4>2. f = "yml" \/ f = "index" => keyLines' = keyLines /\ tokens' = tokens /\ resolved' = resolved /\ setupMark' = setupMark /\ stored' = stored
        BY <3>5 DEF envFile
      <4>3. f = "env" => keyLines' \in [Keyed -> Seq(Line)] /\ tokens' \in [admin : Numbers, assistant : Numbers] /\ resolved' \in [provider : Providers \cup {Unset}, key : Numbers]
        <5>1. CASE f = "env"
          <6>1. /\ keyLines' = [p \in Keyed |-> <<>>] /\ tokens' = [admin |-> 0, assistant |-> 0]
                /\ resolved' = [provider |-> Unset, key |-> 0] /\ 0 \in Numbers
            BY <3>5, <5>1, NumbersAre DEF NoTokens
          <6>2. \A T : <<>> \in Seq(T)
            OBVIOUS
          <6>3. keyLines' \in [Keyed -> Seq(Line)]
            BY <6>1, <6>2
          <6> QED BY <6>1, <6>3
        <5> QED BY <5>1
      <4>4. stackYml' \in Providers \cup {Unset} /\ indexed' \in BOOLEAN /\ stored' \in BOOLEAN /\ setupMark' \in {"absent", "false", "true"}
        BY <1>t, <3>2, <3>5, <4>2
      <4>5. keyLines' \in [Keyed -> Seq(Line)] /\ tokens' \in [admin : Numbers, assistant : Numbers] /\ resolved' \in [provider : Providers \cup {Unset}, key : Numbers]
        BY <1>t, <3>2, <4>2, <4>3
      <4> QED BY <3>1, <3>3, <4>1, <4>4, <4>5
    <3>6. \/ UNCHANGED <<stackYml, envFile, indexed, torn>>
          \/ /\ torn' = torn \cup {f} /\ (f = "yml" => stackYml' = Unset /\ UNCHANGED <<envFile, indexed>>)
             /\ (f = "index" => indexed' = FALSE /\ UNCHANGED <<stackYml, envFile>>)
             /\ (f = "env" => /\ keyLines' = [p \in Keyed |-> <<>>]
                                /\ tokens' = NoTokens /\ resolved' = [provider |-> Unset, key |-> 0]
                                /\ setupMark' = "absent" /\ stored' = FALSE
                                /\ UNCHANGED <<stackYml, indexed>>)
      BY <2>1, <3>2 DEF Mishap
    <3> QED BY <3>4, <3>5, <3>6
  <2>2. CASE WriteStackSpec(w) /\ ~Done(w, "yml")
    BY <1>t, <2>2 DEF WriteStackSpec, envFile
  <2> QED BY <1>7, <2>1, <2>2 DEF GivingUp
<1>8. ASSUME NEW p \in Keyed, Note(p)
      PROVE  /\ keyLines' \in [Keyed -> Seq(Line)] /\ notes' \in 0..MaxNotes /\ calls' \in Numbers
             /\ saved' \in [Keyed -> Numbers] /\ noted' \subseteq Keyed /\ astray' \subseteq {"failed", "overlapped", "key saved alone"}
             /\ UNCHANGED <<stackYml, tokens, resolved, setupMark, indexed, stored, job, mishaps, overlapped, torn>>
  <2>1. notes' \in 0..MaxNotes /\ calls' \in Numbers /\ calls + 1 \in Numbers
    <3>1. notes < MaxNotes /\ calls < MaxCalls /\ notes' = notes + 1 /\ calls' = calls + 1
      BY <1>8 DEF Note
    <3>2. MaxNotes \in Nat /\ notes \in 0..MaxNotes
      BY <1>t, NumbersAre
    <3>3. notes' \in 0..MaxNotes
      BY <3>1, <3>2
    <3> QED BY <1>t, <3>1, <3>3, NumbersAre
  <2>2. PICK lines \in Seq(Line) : lines = keyLines[p]
    BY <1>t
  <2>3. PICK k \in Numbers : k = calls + 1
    BY <2>1
  <2> DEFINE old == [i \in DOMAIN lines |-> [lines[i] EXCEPT !.live = FALSE]]
             line == [live |-> TRUE, key |-> k]
  <2>4. keyLines' = [keyLines EXCEPT ![p] = Append(old, line)] /\ saved' = [saved EXCEPT ![p] = k]
    BY <1>8, <2>2, <2>3 DEF Note
  <2>5. old \in Seq(Line)
    <3>1. Len(lines) \in Nat /\ DOMAIN lines = 1..Len(lines) /\ \A i \in 1..Len(lines) : lines[i] \in Line
      OBVIOUS
    <3>2. \A i \in 1..Len(lines) : [lines[i] EXCEPT !.live = FALSE] \in Line
      BY <3>1 DEF Line
    <3>3. old \in [1..Len(lines) -> Line]
      BY <3>1, <3>2
    <3> QED BY <3>1, <3>3, SeqDef
  <2>6. Append(old, line) \in Seq(Line)
    <3>1. line \in Line
      BY DEF Line
    <3> HIDE DEF old, line
    <3> QED BY <2>5, <3>1
  <2> HIDE DEF old, line
  <2>7. keyLines' \in [Keyed -> Seq(Line)] /\ saved' \in [Keyed -> Numbers]
    BY <1>t, <2>4, <2>6
  <2> QED BY <1>t, <1>8, <2>1, <2>7 DEF Note
<1>9. ASSUME NEW w \in Writers, NEW steps, NEW p, NEW n, Starts(w, steps, p, n)
      PROVE  /\ calls' \in Numbers /\ overlapped' \subseteq Writers /\ job' \in [Writers -> Job]
             /\ astray' \subseteq {"failed", "overlapped", "key saved alone"}
             /\ UNCHANGED <<stackYml, envFile, indexed, mishaps, notes, saved, noted, torn>>
  <2>1. calls' \in Numbers /\ n \in Numbers
    <3>1. calls < MaxCalls /\ calls' = calls + 1 /\ n \in {0, calls + 1}
      BY <1>9 DEF Starts, Calls
    <3> QED BY <1>t, <3>1, NumbersAre
  <2>2. [provider |-> p, number |-> n, assistant |-> 0] \in Job
    BY <1>9, <2>1, NumbersAre DEF Starts
  <2>3. job' \in [Writers -> Job] /\ overlapped' \subseteq Writers
    BY <1>t, <1>9, <2>2 DEF Starts, Calls
  <2> QED BY <1>t, <1>9, <2>1, <2>3 DEF Starts, Calls
<1>10. CASE \E w \in Writers : Going(w)
  BY <1>10, <1>6, <1>t, GoingIs
<1>11. CASE \E w \in Writers : GivingUp(w)
  <2>1. PICK w \in Writers : GivingUp(w)
    BY <1>11
  <2> QED BY <2>1, <1>7, <1>t
<1>12. CASE \E p \in Keyed : Note(p)
  <2>1. PICK p \in Keyed : Note(p)
    BY <1>12
  <2> QED BY <2>1, <1>8, <1>t
<1>13. CASE \E w \in Writers : \E steps, p, n : Starts(w, steps, p, n)
  <2>1. PICK w \in Writers : \E steps, p, n : Starts(w, steps, p, n)
    BY <1>13
  <2> QED BY <2>1, <1>9, <1>t DEF envFile
<1> QED BY <1>10, <1>11, <1>12, <1>13, ConfigCases

\* Which writes a plan belongs to.
LEMMA PlansAre ==
  /\ Setup1 \in Resolving /\ Setup2 \in Resolving /\ Setup3 \in Resolving /\ Setup4 \in Resolving /\ Caps \in Resolving
  /\ AssignCapabilities \in Resolving /\ <<>> \notin Resolving /\ <<>> \notin BeforeYml /\ Setup1 \in BeforeYml
  /\ Setup2 \in BeforeYml /\ Setup3 \in BeforeYml
  /\ \A p \in {Setup5, Keys1, Patch1, WriteSecret, Custom, RemoveSecret, Remove1, Remove2, WriteToken} : p \notin Resolving
  /\ \A p \in {Setup4, Setup5, Caps, SaveCapabilities, AssignCapabilities, writeRuntimeFiles, Keys1, Patch1, WriteSecret,
               Custom, RemoveSecret, Remove1, Remove2, WriteToken} : p \notin BeforeYml
<1>1. PICK n : Place(n)
  BY PlansDiffer
<1>2. \A p \in Resolving : n[p] \in {1, 2, 3, 4, 5, 7, 8, 9, 10}
  BY <1>1 DEF Place, Resolving, BeforeYml
<1>3. \A p \in BeforeYml : n[p] \in {1, 2, 3, 4}
  BY <1>1 DEF Place, BeforeYml
<1>4. \A p \in {Setup5, Keys1, Patch1, WriteSecret, Custom, RemoveSecret, Remove1, Remove2, WriteToken} : n[p] \in {6, 17, 18, 11, 12, 13, 14, 15, 16}
  BY <1>1 DEF Place
<1>5. \A p \in {Setup4, Setup5, Caps, SaveCapabilities, AssignCapabilities, writeRuntimeFiles, Keys1, Patch1, WriteSecret,
               Custom, RemoveSecret, Remove1, Remove2, WriteToken} : n[p] \in 5..18
  BY <1>1 DEF Place
<1>6. n[<<>>] = 0
  BY <1>1 DEF Place
<1>7. <<>> \notin Resolving /\ <<>> \notin BeforeYml
  BY <1>2, <1>3, <1>6
<1>8. \A p \in {Setup5, Keys1, Patch1, WriteSecret, Custom, RemoveSecret, Remove1, Remove2, WriteToken} : p \notin Resolving
  BY <1>2, <1>4
<1>9. \A p \in {Setup4, Setup5, Caps, SaveCapabilities, AssignCapabilities, writeRuntimeFiles, Keys1, Patch1, WriteSecret,
               Custom, RemoveSecret, Remove1, Remove2, WriteToken} : p \notin BeforeYml
  BY <1>3, <1>5
<1> QED BY <1>7, <1>8, <1>9 DEF Resolving, BeforeYml

\* What matters of an operation that gives up.
LEMMA GivesUp ==
  ASSUME PlansInv, NEW w \in Writers, GivingUp(w)
  PROVE  /\ todo[w] # <<>> /\ todo'[w] = <<>> /\ \A v \in Writers \ {w} : todo'[v] = todo[v]
         /\ "failed" \in astray' /\ torn \subseteq torn' /\ UNCHANGED <<calls, notes, job, saved, noted, overlapped>>
         /\ \/ UNCHANGED <<stackYml, envFile, indexed>>
            \/ stackYml' = Unset /\ "yml" \in torn' /\ UNCHANGED <<envFile, indexed>>
            \/ indexed' = FALSE /\ "index" \in torn' /\ UNCHANGED <<stackYml, envFile>>
            \/ /\ keyLines' = [p \in Keyed |-> <<>>] /\ tokens' = NoTokens /\ setupMark' = "absent" /\ stored' = FALSE
               /\ "env" \in torn' /\ UNCHANGED <<stackYml, indexed>>
         /\ mishaps' > 0 \/ mishaps \notin Nat \/ (UNCHANGED <<mishaps, stackYml, envFile, indexed>> /\ todo[w] = AssignCapabilities)
<1>1. todo \in [Writers -> Plans] /\ AssignCapabilities # <<>>
  BY DEF PlansInv, AssignCapabilities
<1>2. CASE Mishap(w)
  <2>1. PICK f : f = FileOf(Head(todo[w])) /\ f \in {"yml", "index", "env"}
    BY DEF FileOf
  <2>2. /\ todo[w] # <<>> /\ todo' = [todo EXCEPT ![w] = <<>>] /\ astray' = astray \cup {"failed"} /\ mishaps' = mishaps + 1
        /\ UNCHANGED <<calls, notes, job, saved, noted, overlapped>>
    BY <1>2 DEF Mishap
  <2>3. \/ UNCHANGED <<stackYml, envFile, indexed, torn>>
        \/ torn' = torn \cup {f} /\ f = "yml" /\ stackYml' = Unset /\ UNCHANGED <<envFile, indexed>>
        \/ torn' = torn \cup {f} /\ f = "index" /\ indexed' = FALSE /\ UNCHANGED <<stackYml, envFile>>
        \/ /\ torn' = torn \cup {f} /\ f = "env" /\ keyLines' = [p \in Keyed |-> <<>>] /\ tokens' = NoTokens
           /\ setupMark' = "absent" /\ stored' = FALSE /\ UNCHANGED <<stackYml, indexed>>
    BY <1>2, <2>1 DEF Mishap
  <2>4. mishaps \in Nat => mishaps' > 0
    BY <2>2
  <2> QED BY <1>1, <2>2, <2>3, <2>4
<1>3. CASE WriteStackSpec(w) /\ ~Done(w, "yml")
  BY <1>1, <1>3 DEF WriteStackSpec
<1> QED BY <1>2, <1>3 DEF GivingUp

\* Every step keeps what is known of what is resolved.
LEMMA ResolvedKept ==
  ASSUME ConfigInv, ConfigNext
  PROVE  ResolvedInv'
<1>t. ConfigTypeOK /\ PlansInv /\ ResolvedInv /\ ConfigTypeOK' /\ PlansInv'
  BY PlansInvariant, TypesKept DEF ConfigInv
<1>s. Unset \notin Providers
  BY StackConfigAssumption DEF StackConfigAssumption, Unset
<1>1. ASSUME NEW w \in Writers, GivingUp(w) PROVE ResolvedInv'
  <2>1. /\ todo[w] # <<>> /\ todo'[w] = <<>> /\ \A v \in Writers \ {w} : todo'[v] = todo[v]
        /\ astray' # {} /\ UNCHANGED <<job, overlapped>>
    BY <1>1, <1>t, GivesUp
  <2>2. <<>> \notin {Setup4, Caps}
    BY PlansAre
  <2>3. ASSUME NEW v \in Writers, todo'[v] \in {Setup4, Caps}, v \notin overlapped' PROVE FALSE
    <3>1. v # w /\ todo[v] # <<>>
      BY <2>1, <2>2, <2>3
    <3> QED BY <1>t, <2>1, <2>3, <3>1, WorksAlone
  <2> QED BY <2>1, <2>3 DEF ResolvedInv
<1>2. ASSUME NEW p \in Keyed, Note(p) PROVE ResolvedInv'
  BY <1>2, <1>t DEF Note, ResolvedInv
<1>3. ASSUME NEW w \in Writers, NEW steps, NEW p, NEW n, Starts(w, steps, p, n) PROVE ResolvedInv'
  <2>1. /\ todo[w] = <<>> /\ todo'[w] = steps
        /\ steps \in {performSetup, SaveCapabilities, AssignCapabilities, Keys1, Patch1, writeRuntimeFiles, WriteSecret, RemoveSecret, WriteToken}
        /\ \A v \in Writers \ {w} : todo'[v] = todo[v] /\ job'[v] = job[v]
        /\ \A v \in Writers \ overlapped' : v # w => todo'[v] = <<>> \/ v \notin overlapped
    BY <1>3, <1>t, PlansBegin
  <2>2. UNCHANGED <<stackYml, keyLines, resolved>> /\ (astray' = {} => astray = {})
    BY <1>3 DEF Starts, Calls, envFile
  <2>3. \A q : Resolve(q)' = Resolve(q)
    BY <2>2 DEF Resolve
  <2>4. steps \notin {Setup4, Caps}
    <3>1. PICK m : Place(m)
      BY PlansDiffer
    <3>2. m[steps] \in {1, 7, 8, 17, 18, 10, 11, 13, 16}
      BY <2>1, <3>1 DEF Place
    <3> QED BY <3>1, <3>2 DEF Place
  <2>5. <<>> \notin {Setup4, Caps}
    BY PlansAre
  <2>6. astray' = {} => resolved' = Resolve(stackYml)' \/ \E v \in Writers : todo'[v] \in Resolving
    <3>1. \A v \in Writers : todo[v] \in Resolving => todo'[v] \in Resolving
      BY <2>1, PlansAre
    <3> QED BY <1>t, <2>2, <2>3, <3>1 DEF ResolvedInv
  <2>7. stackYml' = Unset /\ astray' = {} => resolved' = Resolve(Unset)'
    BY <1>t, <2>2, <2>3 DEF ResolvedInv
  <2>8. \A v \in Writers : todo'[v] \in {Setup4, Caps} /\ v \notin overlapped' /\ job'[v].provider # Unset => stackYml' = job'[v].provider
    BY <1>t, <2>1, <2>2, <2>4, <2>5 DEF ResolvedInv
  <2> QED BY <2>6, <2>7, <2>8 DEF ResolvedInv
<1>4. ASSUME NEW w \in Writers, NEW step, Done(w, step)
      PROVE  /\ todo[w] # <<>> /\ \A v \in Writers \ {w} : todo'[v] = todo[v] /\ (v \notin overlapped => todo[v] = <<>>)
             /\ <<>> \notin {Setup4, Caps}
    BY <1>4, <1>t, GoesOnWith, WorksAlone, PlansAre
<1>5. ASSUME NEW w \in Writers, NEW step \in {"ensure", "tokens", "token", "mark", "systemEnv", "keys", "patch", "index", "unindex", "custom", "blank"},
             Done(w, step), UNCHANGED <<stackYml, resolved, astray, overlapped>>,
             \A v \in Writers : job'[v].provider = job[v].provider,
             step \in {"keys", "patch"} \/ keyLines' = keyLines
      PROVE  ResolvedInv'
  <2>1. todo[w] \in Resolving /\ todo[w] \notin KeyAlone => todo'[w] \in Resolving
    BY <1>t, <1>5, GoesOnWith, PlansAre
  <2>2. CASE step \in {"keys", "patch"}
    <3>1. astray = {} => todo'[w] \in Resolving
      <4>1. todo[w] \in {Keys1, Patch1} \/ todo'[w] \in {Setup2, AssignCapabilities}
        BY <1>t, <1>5, <2>2, GoesOnWith
      <4>2. {Keys1, Patch1} = KeyAlone
        BY DEF Keys1, Patch1, KeyAlone
      <4> QED BY <1>t, <4>1, <4>2, PlansAre DEF PlansInv
    <3>2. Resolve(Unset)' = Resolve(Unset)
      BY <1>s, StackConfigAssumption DEF Resolve, StackConfigAssumption
    <3>3. todo'[w] \notin {Setup4, Caps}
      <4>1. todo'[w] \in {Setup2, <<>>, AssignCapabilities}
        BY <1>t, <1>5, <2>2, GoesOnWith
      <4>2. Setup2 \notin {Setup4, Caps} /\ <<>> \notin {Setup4, Caps} /\ AssignCapabilities \notin {Setup4, Caps}
        BY PlansDiffer DEF Place
      <4> QED BY <4>1, <4>2
    <3>4. \A v \in Writers : todo'[v] \in {Setup4, Caps} => v # w /\ todo'[v] = todo[v]
      BY <1>4, <1>5, <3>3
    <3> QED BY <1>t, <1>4, <1>5, <3>1, <3>2, <3>4 DEF ResolvedInv
  <2>3. CASE step \notin {"keys", "patch"}
    <3>1. \A q : Resolve(q)' = Resolve(q)
      BY <1>5, <2>3 DEF Resolve
    <3>2. \A v \in Writers : todo[v] \in Resolving => todo'[v] \in Resolving
      <4>1. todo[w] \in Resolving => todo'[w] \in Resolving
        BY <1>t, <1>5, <2>3, GoesOnWith, PlansAre
      <4> QED BY <1>4, <1>5, <4>1
    <3>3. todo'[w] \in {Setup4, Caps} => job'[w].provider = Unset
      <4>1. todo'[w] \in {Setup1, Setup3, <<>>, Custom, Remove1, Remove2} \/ (todo[w] = writeRuntimeFiles /\ todo'[w] = Caps)
        BY <1>t, <1>5, <2>3, GoesOnWith
      <4>2. \A q \in {Setup1, Setup3, <<>>, Custom, Remove1, Remove2} : q \notin {Setup4, Caps}
        <5>1. PICK m : Place(m)
          BY PlansDiffer
        <5>2. \A q \in {Setup1, Setup3, <<>>, Custom, Remove1, Remove2} : m[q] \in {2, 4, 0, 12, 14, 15}
          BY <5>1 DEF Place
        <5> QED BY <5>1, <5>2 DEF Place
      <4> QED BY <1>t, <1>5, <4>1, <4>2 DEF PlansInv
    <3>4. \A v \in Writers : todo'[v] \in {Setup4, Caps} /\ v \notin overlapped' /\ job'[v].provider # Unset => stackYml' = job'[v].provider
      BY <1>4, <1>5, <3>3
    <3>5. resolved' = resolved /\ stackYml' = stackYml /\ astray' = astray
      BY <1>5
    <3>6. astray' = {} => resolved' = Resolve(stackYml)' \/ \E v \in Writers : todo'[v] \in Resolving
      BY <1>t, <3>1, <3>2, <3>5 DEF ResolvedInv
    <3>7. stackYml' = Unset /\ astray' = {} => resolved' = Resolve(Unset)'
      BY <1>t, <3>1, <3>5 DEF ResolvedInv
    <3> QED BY <3>4, <3>6, <3>7 DEF ResolvedInv
  <2> QED BY <2>2, <2>3
<1>6. ASSUME NEW w \in Writers, WriteStackSpec(w), Done(w, "yml") PROVE ResolvedInv'
  <2>1. (todo[w] = Setup3 /\ todo'[w] = Setup4) \/ (todo[w] = AssignCapabilities /\ todo'[w] = Caps)
    BY <1>t, <1>6, GoesOnWith
  <2>2. job[w].provider \in Providers /\ todo'[w] \in Resolving
    BY <1>t, <2>1, PlansAre DEF PlansInv, Naming, BeforeYml
  <2>3. stackYml' = job[w].provider /\ UNCHANGED <<job, overlapped>>
    <3>1. todo' # [todo EXCEPT ![w] = <<>>]
      BY <1>t, <2>1, PlansAre DEF PlansInv
    <3> QED BY <1>6, <3>1 DEF WriteStackSpec
  <2>4. \A v \in Writers : todo'[v] \in {Setup4, Caps} /\ v \notin overlapped' /\ job'[v].provider # Unset => stackYml' = job'[v].provider
    BY <1>4, <1>6, <2>3
  <2> QED BY <1>s, <2>2, <2>3, <2>4 DEF ResolvedInv
<1>7. ASSUME NEW w \in Writers, WriteCapabilityVars(w) PROVE ResolvedInv'
  <2>1. todo[w] \in {Setup4, Caps} /\ todo'[w] \in {Setup5, <<>>} /\ Done(w, "caps")
    BY <1>t, <1>7, GoesOnWith DEF WriteCapabilityVars
  <2>2. PICK p : p = IF job[w].provider = Unset THEN stackYml ELSE job[w].provider
    OBVIOUS
  <2>3. UNCHANGED <<stackYml, keyLines, job, overlapped>>
    BY <1>7 DEF WriteCapabilityVars
  <2>4. \A q : Resolve(q)' = Resolve(q)
    BY <2>3 DEF Resolve
  <2>5. \A v \in Writers : todo'[v] \in {Setup4, Caps} => v # w /\ todo'[v] = todo[v]
    <3>1. Setup5 \notin {Setup4, Caps} /\ <<>> \notin {Setup4, Caps}
      BY PlansDiffer DEF Place
    <3> QED BY <1>4, <2>1, <3>1
  <2>6. \A v \in Writers : todo'[v] \in {Setup4, Caps} /\ v \notin overlapped' /\ job'[v].provider # Unset => stackYml' = job'[v].provider
    BY <1>t, <2>3, <2>5 DEF ResolvedInv
  <2>7. CASE p = Unset
    <3>1. resolved' = resolved /\ astray' = astray
      BY <1>7, <2>2, <2>7 DEF WriteCapabilityVars
    <3>2. stackYml = Unset
      BY <2>2, <2>7
    <3>3. astray' = {} => resolved' = Resolve(Unset)'
      BY <1>t, <2>4, <3>1, <3>2 DEF ResolvedInv
    <3> QED BY <2>3, <2>6, <3>2, <3>3 DEF ResolvedInv
  <2>8. CASE p # Unset
    <3>1. resolved' = Resolve(p) /\ (astray' = {} => w \notin overlapped)
      BY <1>7, <2>2, <2>8 DEF WriteCapabilityVars
    <3>2. w \notin overlapped => p = stackYml
      BY <1>t, <2>1, <2>2 DEF ResolvedInv
    <3>3. astray' = {} => resolved' = Resolve(stackYml)' /\ stackYml' # Unset
      BY <2>3, <2>4, <2>8, <3>1, <3>2
    <3> QED BY <2>6, <3>3 DEF ResolvedInv
  <2> QED BY <2>7, <2>8
<1>8. ASSUME NEW w \in Writers, Going(w) PROVE ResolvedInv'
  <2>1. overlapped' = overlapped /\ \A v \in Writers : job'[v].provider = job[v].provider
    BY <1>8, <1>t, GoingIs
  <2>2. CASE EnsureSecrets(w)
    BY <1>5, <2>1, <2>2 DEF EnsureSecrets, configHistory
  <2>3. CASE SaveKey(w, "keys") \/ SaveKey(w, "patch")
    BY <1>5, <2>1, <2>3 DEF SaveKey
  <2>4. CASE UpdateTokens(w) \/ TokenWritten(w)
    BY <1>5, <2>1, <2>4 DEF UpdateTokens, TokenWritten, configHistory
  <2>5. CASE MarkSetup(w)
    BY <1>5, <2>1, <2>5 DEF MarkSetup, configHistory
  <2>6. CASE CustomSecret(w)
    BY <1>5, <2>1, <2>6 DEF CustomSecret
  <2> QED BY <1>6, <1>7, <1>8, <2>2, <2>3, <2>4, <2>5, <2>6 DEF Going
<1> QED BY <1>1, <1>2, <1>3, <1>8, ConfigCases

\* A process that goes on leaves the plans of the others, and knows them if it has not overlapped.
LEMMA Alone ==
  ASSUME PlansInv, NEW w \in Writers, NEW step, Done(w, step)
  PROVE  /\ todo[w] # <<>> /\ \A v \in Writers \ {w} : todo'[v] = todo[v] /\ (v \notin overlapped => todo[v] = <<>>)
BY GoesOnWith, WorksAlone

\* A plan's first step is one of the steps.
LEMMA FirstIsStep == ASSUME PlansInv, NEW w \in Writers, NEW step, Done(w, step) PROVE step \in Steps
<1>1. PICK p \in Plans : p = todo[w] /\ p # <<>>
  BY DEF PlansInv, Done
<1>2. Head(p) \in Steps
  BY <1>1, PlansType
<1> QED BY <1>1, <1>2 DEF Done

\* Until it writes stack.yml, a setup goes on before that.
LEMMA BeforeGoesOn ==
  ASSUME PlansInv, NEW w \in Writers, NEW step, Done(w, step), step # "yml", todo[w] \in BeforeYml
  PROVE  todo'[w] \in BeforeYml
<1>1. \A p \in {Setup4, Setup5, Caps, SaveCapabilities, AssignCapabilities, writeRuntimeFiles, Keys1, Patch1, WriteSecret,
                Custom, RemoveSecret, Remove1, Remove2, WriteToken} : p \notin BeforeYml
  BY PlansAre
<1>2. step \in Steps
  BY FirstIsStep
<1>3. step \notin {"ensure", "keys", "tokens", "yml"} =>
        todo[w] \in {Setup4, Setup5, Caps, SaveCapabilities, AssignCapabilities, writeRuntimeFiles, Keys1, Patch1, WriteSecret,
                     Custom, RemoveSecret, Remove1, Remove2, WriteToken}
  BY <1>2, GoesOnWith DEF Steps
<1>4. step = "keys" => todo[w] = Keys1 \/ todo'[w] = Setup2
  BY GoesOnWith
<1>5. step \in {"ensure", "tokens"} => todo'[w] \in {Setup1, Setup3}
  BY GoesOnWith
<1> QED BY <1>1, <1>2, <1>3, <1>4, <1>5, PlansAre

\* Every step keeps what is known of the setup.
LEMMA SetupKept ==
  ASSUME ConfigInv, ConfigNext
  PROVE  SetupInv'
<1>t. ConfigTypeOK /\ PlansInv /\ SetupInv
  BY DEF ConfigInv
<1>s. Unset \notin Providers
  BY StackConfigAssumption DEF StackConfigAssumption, Unset
<1>p. \A q \in {<<>>, Setup1, Setup2, Setup3, Caps, AssignCapabilities, Custom, Remove1, Remove2,
                performSetup, SaveCapabilities, Keys1, Patch1, writeRuntimeFiles, WriteSecret, RemoveSecret, WriteToken} : q \notin {Setup4, Setup5}
  <2>1. PICK m : Place(m)
    BY PlansDiffer
  <2> SUFFICES ASSUME NEW q \in {<<>>, Setup1, Setup2, Setup3, Caps, AssignCapabilities, Custom, Remove1, Remove2,
                performSetup, SaveCapabilities, Keys1, Patch1, writeRuntimeFiles, WriteSecret, RemoveSecret, WriteToken}
               PROVE  q \notin {Setup4, Setup5}
    OBVIOUS
  <2>2. m[q] \in {0, 2, 3, 4, 9, 8, 12, 14, 15, 1, 7, 17, 18, 10, 11, 13, 16}
    BY <2>1 DEF Place
  <2>3. m[Setup4] = 5 /\ m[Setup5] = 6
    BY <2>1 DEF Place
  <2> QED BY <2>2, <2>3
<1>m. mishaps \in Nat
  <2>1. mishaps \in 0..MaxMishaps
    BY <1>t DEF ConfigTypeOK
  <2> QED BY <2>1, NumbersAre
<1>1. ASSUME NEW w \in Writers, GivingUp(w) PROVE SetupInv'
  <2>1. /\ todo[w] # <<>> /\ todo'[w] = <<>> /\ \A v \in Writers \ {w} : todo'[v] = todo[v]
        /\ torn \subseteq torn'
        /\ \/ UNCHANGED <<stackYml, envFile, indexed>>
           \/ stackYml' = Unset /\ "yml" \in torn' /\ UNCHANGED <<envFile, indexed>>
           \/ indexed' = FALSE /\ "index" \in torn' /\ UNCHANGED <<stackYml, envFile>>
           \/ /\ keyLines' = [p \in Keyed |-> <<>>] /\ tokens' = NoTokens /\ setupMark' = "absent" /\ stored' = FALSE
              /\ "env" \in torn' /\ UNCHANGED <<stackYml, indexed>>
        /\ mishaps' > 0 \/ mishaps \notin Nat \/ (UNCHANGED <<mishaps, stackYml, envFile, indexed>> /\ todo[w] = AssignCapabilities)
    BY <1>1, <1>t, GivesUp
  <2>2. Specified => Specified'
    BY <2>1 DEF Specified
  <2>3. setupMark' = "true" => setupMark = "true"
    BY <2>1 DEF envFile
  <2>4. \A v \in Writers : todo'[v] \in {Setup4, Setup5} => todo[v] = todo'[v]
    BY <1>p, <2>1
  <2>5. setupMark' = "absent" /\ tokens'.admin # 0 => Specified' \/ mishaps' > 0 \/ \E v \in Writers : todo'[v] \in BeforeYml
    <3>1. CASE mishaps' > 0
      BY <3>1
    <3>2. CASE UNCHANGED <<mishaps, stackYml, envFile, indexed>> /\ todo[w] = AssignCapabilities
      <4>1. \A v \in Writers : todo[v] \in BeforeYml => todo'[v] \in BeforeYml
        BY <2>1, <3>2, PlansAre
      <4>2. UNCHANGED <<mishaps, stackYml, tokens, setupMark>>
        BY <3>2 DEF envFile
      <4> QED BY <1>t, <2>2, <4>1, <4>2 DEF SetupInv
    <3> QED BY <1>m, <2>1, <3>1, <3>2
  <2> QED BY <1>t, <2>2, <2>3, <2>4, <2>5 DEF SetupInv
<1>2. ASSUME NEW p \in Keyed, Note(p) PROVE SetupInv'
  BY <1>2, <1>t DEF Note, SetupInv, Specified
<1>3. ASSUME NEW w \in Writers, NEW steps, NEW p, NEW n, Starts(w, steps, p, n) PROVE SetupInv'
  <2>1. /\ todo[w] = <<>> /\ todo'[w] = steps
        /\ steps \in {performSetup, SaveCapabilities, AssignCapabilities, Keys1, Patch1, writeRuntimeFiles, WriteSecret, RemoveSecret, WriteToken}
        /\ \A v \in Writers \ {w} : todo'[v] = todo[v]
    BY <1>3, <1>t, PlansBegin
  <2>2. UNCHANGED <<stackYml, tokens, setupMark, mishaps, torn>>
    BY <1>3 DEF Starts, Calls, envFile
  <2>3. steps \notin {Setup4, Setup5}
    BY <1>p, <2>1
  <2>4. \A v \in Writers : todo'[v] \in {Setup4, Setup5} => todo[v] = todo'[v]
    BY <2>1, <2>3
  <2>5. \A v \in Writers : todo[v] \in BeforeYml => todo'[v] \in BeforeYml
    BY <2>1, PlansAre
  <2> QED BY <1>t, <2>2, <2>4, <2>5 DEF SetupInv, Specified
<1>4. ASSUME NEW w \in Writers, NEW step, Done(w, step), step \notin {"yml", "mark"},
             UNCHANGED <<stackYml, mishaps>>, torn \ {"entry"} \subseteq torn',
             step \notin {"ensure", "tokens"} => tokens'.admin = tokens.admin,
             setupMark' = setupMark \/ (step = "systemEnv" /\ setupMark' # "absent" /\ (setupMark' = "true" => setupMark = "true"))
      PROVE  SetupInv'
  <2>1. Specified => Specified'
    BY <1>4 DEF Specified
  <2>2. todo'[w] \in {Setup4, Setup5} => todo[w] \in {Setup4, Setup5}
    <3>1. step \notin {"yml", "caps"} => todo'[w] \in {<<>>, Setup1, Setup2, Setup3, Caps, AssignCapabilities, Custom, Remove1, Remove2}
      <4>1. PICK s \in Steps : s = step
        BY <1>4, <1>t, FirstIsStep
      <4> QED BY <1>t, <1>4, <4>1, GoesOnWith DEF Steps
    <3>2. step = "caps" => todo[w] = Setup4 \/ todo'[w] = <<>>
      BY <1>t, <1>4, GoesOnWith
    <3> QED BY <1>4, <1>p, <3>1, <3>2
  <2>3. \A v \in Writers : todo'[v] \in {Setup4, Setup5} => todo[v] \in {Setup4, Setup5}
    BY <1>t, <1>4, <2>2, Alone
  <2>4. todo[w] \in BeforeYml => todo'[w] \in BeforeYml
    BY <1>t, <1>4, BeforeGoesOn
  <2>5. \A v \in Writers : todo[v] \in BeforeYml => todo'[v] \in BeforeYml
    BY <1>t, <1>4, <2>4, Alone
  <2>6. step \in {"ensure", "tokens"} => todo'[w] \in BeforeYml
    BY <1>t, <1>4, GoesOnWith, PlansAre
  <2>7. setupMark' = "absent" /\ tokens'.admin # 0 => Specified' \/ mishaps' > 0 \/ \E v \in Writers : todo'[v] \in BeforeYml
    BY <1>t, <1>4, <2>1, <2>5, <2>6 DEF SetupInv
  <2>8. setupMark' = "true" => Specified'
    BY <1>t, <1>4, <2>1 DEF SetupInv
  <2> QED BY <1>t, <2>1, <2>3, <2>7, <2>8 DEF SetupInv
<1>5. ASSUME NEW w \in Writers, WriteStackSpec(w), Done(w, "yml") PROVE SetupInv'
  <2>1. (todo[w] = Setup3 /\ todo'[w] = Setup4) \/ (todo[w] = AssignCapabilities /\ todo'[w] = Caps)
    BY <1>t, <1>5, GoesOnWith
  <2>2. job[w].provider \in Providers
    BY <1>t, <2>1 DEF PlansInv, Naming, BeforeYml
  <2>3. stackYml' = job[w].provider
    <3>1. todo' # [todo EXCEPT ![w] = <<>>]
      BY <1>t, <2>1, PlansAre DEF PlansInv
    <3> QED BY <1>5, <3>1 DEF WriteStackSpec
  <2>4. Specified'
    BY <1>s, <2>2, <2>3 DEF Specified
  <2> QED BY <2>4 DEF SetupInv
<1>6. ASSUME NEW w \in Writers, Done(w, "mark"), UNCHANGED <<stackYml, torn>> PROVE SetupInv'
  <2>1. Specified'
    BY <1>t, <1>6, GoesOnWith DEF SetupInv, Specified
  <2> QED BY <2>1 DEF SetupInv
<1>7. ASSUME NEW w \in Writers, Going(w) PROVE SetupInv'
  <2>1. mishaps' = mishaps
    BY <1>7, <1>t, GoingIs
  <2>2. CASE EnsureSecrets(w)
    BY <1>4, <2>1, <2>2 DEF EnsureSecrets, configHistory
  <2>3. CASE SaveKey(w, "keys") \/ SaveKey(w, "patch")
    BY <1>4, <2>1, <2>3 DEF SaveKey
  <2>4. CASE UpdateTokens(w)
    BY <1>4, <2>1, <2>4 DEF UpdateTokens, configHistory
  <2>5. CASE TokenWritten(w)
    <3>1. tokens'.admin = tokens.admin
      BY <1>t, <2>5 DEF TokenWritten, ConfigTypeOK
    <3> QED BY <1>4, <2>1, <2>5, <3>1 DEF TokenWritten, configHistory
  <2>6. CASE WriteCapabilityVars(w)
    BY <1>4, <2>1, <2>6 DEF WriteCapabilityVars
  <2>7. CASE MarkSetup(w)
    <3>1. CASE Done(w, "mark")
      BY <1>6, <2>7, <3>1 DEF MarkSetup, configHistory
    <3>2. CASE Done(w, "systemEnv") /\ setupMark' = IF setupMark = "true" THEN "true" ELSE "false"
      BY <1>4, <2>1, <2>7, <3>2 DEF MarkSetup, configHistory
    <3> QED BY <2>7, <3>1, <3>2 DEF MarkSetup
  <2>8. CASE CustomSecret(w)
    <3>1. torn \ {"entry"} \subseteq torn'
      BY <2>8 DEF CustomSecret
    <3> QED BY <1>4, <2>1, <2>8, <3>1 DEF CustomSecret
  <2> QED BY <1>5, <1>7, <2>2, <2>3, <2>4, <2>5, <2>6, <2>7, <2>8 DEF Going
<1> QED BY <1>1, <1>2, <1>3, <1>7, ConfigCases

\* Every step keeps what is known of the custom secret.
LEMMA SecretKept ==
  ASSUME ConfigInv, ConfigNext
  PROVE  SecretInv'
<1>t. ConfigTypeOK /\ PlansInv /\ SecretInv
  BY DEF ConfigInv
<1>p. \A q \in {<<>>, performSetup, SaveCapabilities, AssignCapabilities, Keys1, Patch1, writeRuntimeFiles, WriteSecret, RemoveSecret, WriteToken,
                Setup1, Setup2, Setup3, Setup4, Setup5, Caps, Remove1} : q # Custom /\ q # Remove2
  <2>1. PICK m : Place(m)
    BY PlansDiffer
  <2> SUFFICES ASSUME NEW q \in {<<>>, performSetup, SaveCapabilities, AssignCapabilities, Keys1, Patch1, writeRuntimeFiles, WriteSecret, RemoveSecret, WriteToken,
                Setup1, Setup2, Setup3, Setup4, Setup5, Caps, Remove1}
               PROVE  q # Custom /\ q # Remove2
    OBVIOUS
  <2>2. m[q] \in {0, 1, 7, 8, 17, 18, 10, 11, 13, 16, 2, 3, 4, 5, 6, 9, 14}
    BY <2>1 DEF Place
  <2>3. m[Custom] = 12 /\ m[Remove2] = 15
    BY <2>1 DEF Place
  <2> QED BY <2>2, <2>3
<1>d. Custom # Remove2
  BY DEF Custom, Remove2
<1>1. ASSUME NEW w \in Writers, GivingUp(w) PROVE SecretInv'
  <2>1. /\ todo[w] # <<>> /\ todo'[w] = <<>> /\ \A v \in Writers \ {w} : todo'[v] = todo[v]
        /\ torn \subseteq torn' /\ overlapped' = overlapped
        /\ \/ UNCHANGED <<stackYml, envFile, indexed>>
           \/ stackYml' = Unset /\ "yml" \in torn' /\ UNCHANGED <<envFile, indexed>>
           \/ indexed' = FALSE /\ "index" \in torn' /\ UNCHANGED <<stackYml, envFile>>
           \/ /\ keyLines' = [p \in Keyed |-> <<>>] /\ tokens' = NoTokens /\ setupMark' = "absent" /\ stored' = FALSE
              /\ "env" \in torn' /\ UNCHANGED <<stackYml, indexed>>
    BY <1>1, <1>t, GivesUp
  <2>2. Excused => Excused'
    BY <2>1 DEF Excused
  <2>3. \A v \in Writers : todo'[v] \in {Custom, Remove2} => todo[v] = todo'[v]
    BY <1>p, <2>1
  <2>4. (indexed => indexed' \/ Excused') /\ (stored' => stored)
    BY <2>1 DEF envFile, Excused
  <2>5. StoredIsIndexed'
    BY <1>t, <2>2, <2>4 DEF SecretInv, StoredIsIndexed, Excused
  <2>6. \A v \in Writers : todo'[v] = Custom => indexed' \/ Excused'
    BY <1>t, <2>2, <2>3, <2>4 DEF SecretInv
  <2>7. \A v \in Writers : todo'[v] = Remove2 /\ v \notin overlapped' => ~stored'
    BY <1>t, <2>1, <2>3, <2>4 DEF SecretInv
  <2> QED BY <2>5, <2>6, <2>7 DEF SecretInv
<1>2. ASSUME NEW p \in Keyed, Note(p) PROVE SecretInv'
  BY <1>2, <1>t DEF Note, SecretInv, StoredIsIndexed, Excused
<1>3. ASSUME NEW w \in Writers, NEW steps, NEW p, NEW n, Starts(w, steps, p, n) PROVE SecretInv'
  <2>1. /\ todo[w] = <<>> /\ todo'[w] = steps
        /\ steps \in {performSetup, SaveCapabilities, AssignCapabilities, Keys1, Patch1, writeRuntimeFiles, WriteSecret, RemoveSecret, WriteToken}
        /\ \A v \in Writers \ {w} : todo'[v] = todo[v]
        /\ \A v \in Writers \ overlapped' : v # w => todo'[v] = <<>> \/ v \notin overlapped
    BY <1>3, <1>t, PlansBegin
  <2>2. UNCHANGED <<stored, indexed, torn>>
    BY <1>3 DEF Starts, Calls, envFile
  <2>3. steps # Custom /\ steps # Remove2 /\ <<>> # Remove2
    BY <1>p, <2>1
  <2>4. \A v \in Writers : todo'[v] = Custom \/ todo'[v] = Remove2 => v # w /\ todo'[v] = todo[v]
    BY <2>1, <2>3
  <2>5. \A v \in Writers \ overlapped' : todo'[v] = Remove2 => v \notin overlapped
    BY <2>1, <2>3
  <2> QED BY <1>t, <2>2, <2>4, <2>5 DEF SecretInv, StoredIsIndexed, Excused
<1>4. ASSUME NEW w \in Writers, NEW step, Done(w, step), step \notin {"index", "unindex", "custom", "blank"},
             UNCHANGED <<indexed, stored, torn, overlapped>>
      PROVE  SecretInv'
  <2>1. todo'[w] # Custom /\ todo'[w] # Remove2
    <3>1. step \in Steps
      BY <1>t, <1>4, FirstIsStep
    <3>2. todo'[w] \in {<<>>, Setup1, Setup2, Setup3, Setup4, Setup5, Caps, AssignCapabilities}
      BY <1>t, <1>4, <3>1, GoesOnWith DEF Steps
    <3> QED BY <1>p, <3>2
  <2>2. \A v \in Writers : todo'[v] = Custom \/ todo'[v] = Remove2 => v # w /\ todo'[v] = todo[v]
    BY <1>t, <1>4, <2>1, Alone
  <2> QED BY <1>t, <1>4, <2>2 DEF SecretInv, StoredIsIndexed, Excused
<1>5. ASSUME NEW w \in Writers, CustomSecret(w) PROVE SecretInv'
  <2>o. overlapped' = overlapped
    BY <1>5 DEF CustomSecret
  <2>1. CASE Done(w, "index") /\ indexed' = TRUE /\ stored' = stored
    <3>1. todo'[w] # Remove2 /\ \A v \in Writers : todo'[v] = Remove2 => v # w /\ todo'[v] = todo[v]
      BY <1>t, <1>p, <1>d, <2>1, GoesOnWith, Alone
    <3> QED BY <1>t, <2>o, <2>1, <3>1 DEF SecretInv, StoredIsIndexed
  <2>2. CASE Done(w, "unindex") /\ indexed' = FALSE /\ stored' = stored /\ torn' = IF w \in overlapped THEN torn \cup {"entry"} ELSE torn
    <3>1. todo[w] = Remove2 /\ todo'[w] = <<>> /\ <<>> # Remove2 /\ <<>> # Custom
      BY <1>t, <1>p, <2>2, GoesOnWith
    <3>2. \A v \in Writers : todo'[v] \in {Custom, Remove2} => v # w /\ todo'[v] = todo[v]
      BY <1>t, <2>2, <3>1, Alone
    <3>3. Excused' \/ w \notin overlapped
      BY <2>2 DEF Excused
    <3>4. w \notin overlapped => ~stored
      BY <1>t, <3>1 DEF SecretInv
    <3>5. Custom # <<>> /\ ((w \notin overlapped) => \A v \in Writers : v # w /\ v \notin overlapped => todo[v] = <<>>)
      BY <1>t, <1>p, <2>2, Alone
    <3>6. \A v \in Writers : todo'[v] = Custom => indexed' \/ Excused'
      <4> SUFFICES ASSUME NEW v \in Writers, todo'[v] = Custom PROVE Excused'
        OBVIOUS
      <4>1. v # w /\ todo[v] # <<>> /\ todo[w] # <<>>
        BY <1>t, <2>2, <3>2, <3>5, Alone
      <4>2. w \in overlapped
        BY <1>t, <4>1, WorksAlone
      <4> QED BY <3>3, <4>2
    <3> QED BY <1>t, <2>o, <2>2, <3>2, <3>3, <3>4, <3>6 DEF SecretInv, StoredIsIndexed, Excused
  <2>3. CASE Done(w, "custom") /\ stored' = TRUE /\ UNCHANGED <<indexed, torn>>
    <3>1. todo[w] = Custom /\ todo'[w] = <<>> /\ <<>> # Remove2 /\ <<>> # Custom
      BY <1>t, <1>p, <2>3, GoesOnWith
    <3>2. \A v \in Writers : todo'[v] \in {Custom, Remove2} => v # w /\ todo'[v] = todo[v] /\ v \in overlapped
      BY <1>t, <1>p, <2>3, <3>1, Alone
    <3>3. indexed \/ Excused
      BY <1>t, <3>1 DEF SecretInv
    <3> QED BY <1>t, <2>o, <2>3, <3>2, <3>3 DEF SecretInv, StoredIsIndexed, Excused
  <2>4. CASE Done(w, "blank") /\ stored' = FALSE /\ UNCHANGED <<indexed, torn>>
    <3>1. todo'[w] # Custom /\ \A v \in Writers : todo'[v] = Custom => v # w /\ todo'[v] = todo[v]
      BY <1>t, <1>d, <2>4, GoesOnWith, Alone
    <3> QED BY <1>t, <2>4, <3>1 DEF SecretInv, StoredIsIndexed, Excused
  <2> QED BY <1>5, <2>1, <2>2, <2>3, <2>4 DEF CustomSecret
<1>6. ASSUME NEW w \in Writers, Going(w) PROVE SecretInv'
  <2>1. overlapped' = overlapped
    BY <1>6, <1>t, GoingIs
  <2>2. CASE EnsureSecrets(w)
    BY <1>4, <2>1, <2>2 DEF EnsureSecrets, configHistory
  <2>3. CASE SaveKey(w, "keys") \/ SaveKey(w, "patch")
    BY <1>4, <2>1, <2>3 DEF SaveKey
  <2>4. CASE UpdateTokens(w) \/ TokenWritten(w)
    BY <1>4, <2>1, <2>4 DEF UpdateTokens, TokenWritten, configHistory
  <2>5. CASE WriteStackSpec(w) /\ Done(w, "yml")
    BY <1>4, <2>1, <2>5 DEF WriteStackSpec, envFile
  <2>6. CASE WriteCapabilityVars(w)
    BY <1>4, <2>1, <2>6 DEF WriteCapabilityVars
  <2>7. CASE MarkSetup(w)
    BY <1>4, <2>1, <2>7 DEF MarkSetup, configHistory
  <2> QED BY <1>5, <1>6, <2>2, <2>3, <2>4, <2>5, <2>6, <2>7 DEF Going
<1> QED BY <1>1, <1>2, <1>3, <1>6, ConfigCases

\* Every step keeps what is known of the keys.
LEMMA KeysKept ==
  ASSUME ConfigInv, ConfigNext
  PROVE  KeysInv'
<1>t. ConfigTypeOK /\ PlansInv /\ KeysInv
  BY DEF ConfigInv
<1>1. ASSUME NEW w \in Writers, GivingUp(w) PROVE KeysInv'
  <2>1. (keyLines' = keyLines \/ "env" \in torn') /\ torn \subseteq torn' /\ UNCHANGED <<saved, noted>>
    BY <1>1, <1>t, GivesUp DEF envFile
  <2> QED BY <1>t, <2>1 DEF KeysInv
<1>2. ASSUME NEW p \in Keyed, Note(p) PROVE KeysInv'
  <2>1. /\ keyLines' = [keyLines EXCEPT ![p] = Append([i \in DOMAIN @ |-> [@[i] EXCEPT !.live = FALSE]], [live |-> TRUE, key |-> calls + 1])]
        /\ saved' = [saved EXCEPT ![p] = calls + 1] /\ noted' = noted \cup {p} /\ torn' = torn
    BY <1>2 DEF Note
  <2>2. \A q \in Keyed \ noted' : q # p /\ q \notin noted /\ keyLines'[q] = keyLines[q] /\ saved'[q] = saved[q]
    BY <1>t, <2>1 DEF ConfigTypeOK
  <2> QED BY <1>t, <2>1, <2>2 DEF KeysInv
<1>3. ASSUME NEW w \in Writers, NEW steps, NEW p, NEW n, Starts(w, steps, p, n) PROVE KeysInv'
  BY <1>3, <1>t DEF Starts, Calls, envFile, KeysInv
<1>4. ASSUME NEW w \in Writers, NEW step \in {"keys", "patch"}, SaveKey(w, step) PROVE KeysInv'
  <2>1. noted' = noted /\ torn' = torn
    BY <1>4 DEF SaveKey
  <2>2. CASE keyLines' = keyLines /\ saved' = saved
    BY <1>t, <2>1, <2>2 DEF KeysInv
  <2>3. ASSUME NEW p \in Keyed, NEW k \in Numbers, NEW u \in BOOLEAN,
               keyLines' = [keyLines EXCEPT ![p] = Merged(@, k, u)], saved' = [saved EXCEPT ![p] = k]
        PROVE  KeysInv'
    <3>1. \A q \in Keyed : q # p => keyLines'[q] = keyLines[q] /\ saved'[q] = saved[q]
      BY <1>t, <2>3 DEF ConfigTypeOK
    <3>2. ASSUME p \notin noted PROVE "env" \in torn \/ (keyLines'[p] = <<[live |-> TRUE, key |-> k]>> /\ saved'[p] = k)
      <4>1. keyLines'[p] = Merged(keyLines[p], k, u) /\ saved'[p] = k
        BY <1>t, <2>3 DEF ConfigTypeOK
      <4>2. "env" \in torn \/ keyLines[p] = <<>> \/ keyLines[p] = <<[live |-> TRUE, key |-> saved[p]]>>
        BY <1>t, <3>2 DEF KeysInv
      <4>3. Merged(<<>>, k, u) = <<[live |-> TRUE, key |-> k]>>
        BY MergedOne
      <4>4. Merged(<<[live |-> TRUE, key |-> saved[p]]>>, k, u) = <<[live |-> TRUE, key |-> k]>>
        BY MergedOne
      <4> QED BY <4>1, <4>2, <4>3, <4>4
    <3> QED BY <1>t, <2>1, <3>1, <3>2 DEF KeysInv
  <2>4. \/ keyLines' = keyLines /\ saved' = saved
        \/ \E p \in Keyed : \E k \in Numbers : \E u \in BOOLEAN :
             keyLines' = [keyLines EXCEPT ![p] = Merged(@, k, u)] /\ saved' = [saved EXCEPT ![p] = k]
    BY <1>4, <1>t, SavesInOne
  <2> QED BY <2>2, <2>3, <2>4
<1>5. ASSUME NEW w \in Writers, Going(w) PROVE KeysInv'
  <2>1. noted' = noted
    BY <1>5, <1>t, GoingIs
  <2>2. CASE EnsureSecrets(w)
    BY <1>t, <2>2 DEF EnsureSecrets, configHistory, KeysInv
  <2>3. CASE SaveKey(w, "keys") \/ SaveKey(w, "patch")
    BY <1>4, <2>3
  <2>4. CASE UpdateTokens(w) \/ TokenWritten(w)
    BY <1>t, <2>4 DEF UpdateTokens, TokenWritten, configHistory, KeysInv
  <2>5. CASE WriteStackSpec(w)
    BY <1>t, <2>5 DEF WriteStackSpec, envFile, KeysInv
  <2>6. CASE WriteCapabilityVars(w)
    BY <1>t, <2>6 DEF WriteCapabilityVars, KeysInv
  <2>7. CASE MarkSetup(w)
    BY <1>t, <2>7 DEF MarkSetup, configHistory, KeysInv
  <2>8. CASE CustomSecret(w)
    <3>1. "env" \in torn => "env" \in torn'
      BY <2>8 DEF CustomSecret
    <3>2. UNCHANGED <<keyLines, saved, noted>>
      BY <2>8 DEF CustomSecret
    <3> QED BY <1>t, <3>1, <3>2 DEF KeysInv
  <2> QED BY <1>5, <2>2, <2>3, <2>4, <2>5, <2>6, <2>7, <2>8 DEF Going
<1> QED BY <1>1, <1>2, <1>3, <1>5, ConfigCases

\* Every step keeps what is known of the tokens.
LEMMA TokenKept ==
  ASSUME ConfigInv, ConfigNext
  PROVE  TokenInv'
<1>t. ConfigTypeOK /\ PlansInv /\ TokenInv
  BY DEF ConfigInv
<1>p. \A q \in {<<>>, performSetup, SaveCapabilities, AssignCapabilities, Keys1, Patch1, writeRuntimeFiles, WriteSecret, RemoveSecret, WriteToken,
                Setup3, Setup4, Setup5, Caps, Custom, Remove1, Remove2} : q \notin {Setup1, Setup2}
  <2>1. PICK m : Place(m)
    BY PlansDiffer
  <2> SUFFICES ASSUME NEW q \in {<<>>, performSetup, SaveCapabilities, AssignCapabilities, Keys1, Patch1, writeRuntimeFiles, WriteSecret, RemoveSecret, WriteToken,
                Setup3, Setup4, Setup5, Caps, Custom, Remove1, Remove2}
               PROVE  q \notin {Setup1, Setup2}
    OBVIOUS
  <2>2. m[q] \in {0, 1, 7, 8, 17, 18, 10, 11, 13, 16, 4, 5, 6, 9, 12, 14, 15}
    BY <2>1 DEF Place
  <2>3. m[Setup1] = 2 /\ m[Setup2] = 3
    BY <2>1 DEF Place
  <2> QED BY <2>2, <2>3
<1>1. ASSUME NEW w \in Writers, GivingUp(w) PROVE TokenInv'
  <2>1. /\ todo[w] # <<>> /\ todo'[w] = <<>> /\ \A v \in Writers \ {w} : todo'[v] = todo[v]
        /\ overlapped' = overlapped
    BY <1>1, <1>t, GivesUp
  <2>2. \A v \in Writers \ overlapped : todo'[v] = <<>>
    BY <1>t, <2>1, WorksAlone
  <2> QED BY <1>p, <2>1, <2>2 DEF TokenInv
<1>2. ASSUME NEW p \in Keyed, Note(p) PROVE TokenInv'
  BY <1>2, <1>t DEF Note, TokenInv
<1>3. ASSUME NEW w \in Writers, NEW steps, NEW p, NEW n, Starts(w, steps, p, n) PROVE TokenInv'
  <2>1. /\ todo[w] = <<>> /\ todo'[w] = steps
        /\ steps \in {performSetup, SaveCapabilities, AssignCapabilities, Keys1, Patch1, writeRuntimeFiles, WriteSecret, RemoveSecret, WriteToken}
        /\ \A v \in Writers \ {w} : todo'[v] = todo[v] /\ job'[v] = job[v]
        /\ \A v \in Writers \ overlapped' : v # w => todo'[v] = <<>> \/ v \notin overlapped
    BY <1>3, <1>t, PlansBegin
  <2>2. tokens' = tokens
    BY <1>3 DEF Starts, Calls, envFile
  <2>3. steps \notin {Setup1, Setup2} /\ <<>> \notin {Setup1, Setup2}
    BY <1>p, <2>1
  <2>4. \A v \in Writers \ overlapped' : todo'[v] \in {Setup1, Setup2} => v # w /\ v \notin overlapped
    BY <2>1, <2>3
  <2> QED BY <1>t, <2>1, <2>2, <2>4 DEF TokenInv
<1>4. ASSUME NEW w \in Writers, NEW step, Done(w, step), overlapped' = overlapped,
             todo'[w] \in {Setup1, Setup2} /\ w \notin overlapped => job'[w].assistant = tokens'.assistant
      PROVE  TokenInv'
  <2>1. \A v \in Writers \ overlapped : v # w => todo'[v] = <<>>
    BY <1>t, <1>4, Alone
  <2> QED BY <1>4, <1>p, <2>1 DEF TokenInv
<1>5. ASSUME NEW w \in Writers, NEW step, Done(w, step), overlapped' = overlapped, step # "ensure",
             UNCHANGED <<job, tokens>> \/ step \in {"tokens", "token"}
      PROVE  TokenInv'
  <2>1. step \in Steps
    BY <1>t, <1>5, FirstIsStep
  <2>2. todo'[w] \in {<<>>, Setup3, Setup4, Setup5, Caps, AssignCapabilities, Custom, Remove1, Remove2} \/ (todo[w] = Setup1 /\ step = "keys")
    BY <1>t, <1>5, <2>1, GoesOnWith DEF Steps
  <2> QED BY <1>4, <1>5, <1>p, <1>t, <2>2 DEF TokenInv
<1>6. ASSUME NEW w \in Writers, Going(w) PROVE TokenInv'
  <2>1. overlapped' = overlapped
    BY <1>6, <1>t, GoingIs
  <2>2. CASE EnsureSecrets(w)
    <3>1. job' = [job EXCEPT ![w].assistant = tokens'.assistant]
      BY <2>2 DEF EnsureSecrets
    <3>2. job'[w].assistant = tokens'.assistant
      <4>1. PICK a : a = tokens'.assistant
        OBVIOUS
      <4>2. job' = [job EXCEPT ![w].assistant = a] /\ job[w] \in [provider : Providers \cup {Unset}, number : Numbers, assistant : Numbers] /\ w \in DOMAIN job
        BY <1>t, <3>1, <4>1 DEF ConfigTypeOK
      <4> QED BY <4>1, <4>2
    <3> QED BY <1>4, <2>1, <2>2, <3>2 DEF EnsureSecrets
  <2>3. CASE SaveKey(w, "keys") \/ SaveKey(w, "patch")
    BY <1>5, <2>1, <2>3 DEF SaveKey
  <2>4. CASE UpdateTokens(w) \/ TokenWritten(w)
    BY <1>5, <2>1, <2>4 DEF UpdateTokens, TokenWritten
  <2>5. CASE WriteStackSpec(w) /\ Done(w, "yml")
    BY <1>5, <2>1, <2>5 DEF WriteStackSpec, envFile
  <2>6. CASE WriteCapabilityVars(w)
    BY <1>5, <2>1, <2>6 DEF WriteCapabilityVars
  <2>7. CASE MarkSetup(w)
    BY <1>5, <2>1, <2>7 DEF MarkSetup
  <2>8. CASE CustomSecret(w)
    BY <1>5, <2>1, <2>8 DEF CustomSecret
  <2> QED BY <1>6, <2>2, <2>3, <2>4, <2>5, <2>6, <2>7, <2>8 DEF Going
<1> QED BY <1>1, <1>2, <1>3, <1>6, ConfigCases

\* It all holds at the start.
LEMMA ConfigStarts == ASSUME ConfigInit PROVE ConfigInv
<1>s. Unset \notin Providers
  BY StackConfigAssumption DEF StackConfigAssumption, Unset
<1>n. 0 \in Numbers /\ Old \in Numbers /\ 0 \in 0..MaxMishaps /\ 0 \in 0..MaxNotes
  BY NumbersAre
<1>1. /\ stackYml \in Providers \cup {Unset} /\ todo = [w \in Writers |-> <<>>] /\ job = [w \in Writers |-> NoJob]
      /\ keyLines = [p \in Keyed |-> IF p = stackYml THEN <<[live |-> TRUE, key |-> Old]>> ELSE <<>>]
      /\ saved = [p \in Keyed |-> IF p = stackYml THEN Old ELSE 0]
      /\ indexed = FALSE /\ stored = FALSE /\ calls = 0 /\ mishaps = 0 /\ notes = 0
      /\ noted = {} /\ overlapped = {} /\ astray = {} /\ torn = {} /\ resolved = Resolve(stackYml)
  BY DEF ConfigInit
<1>2. tokens \in [admin : Numbers, assistant : Numbers] /\ setupMark \in {"absent", "true"} /\ (stackYml = Unset => setupMark = "absent" /\ tokens.admin = 0)
  BY <1>n DEF ConfigInit, NoTokens
<1>3. keyLines \in [Keyed -> Seq(Line)] /\ saved \in [Keyed -> Numbers]
  <2>1. [live |-> TRUE, key |-> Old] \in Line
    BY <1>n DEF Line
  <2> DEFINE line == [live |-> TRUE, key |-> Old]
  <2> HIDE DEF line
  <2>2. <<line>> \in Seq(Line) /\ <<>> \in Seq(Line)
    BY <2>1 DEF line
  <2>3. <<[live |-> TRUE, key |-> Old]>> \in Seq(Line)
    BY <2>2 DEF line
  <2> QED BY <1>1, <1>n, <2>2, <2>3
<1>4. resolved \in [provider : Providers \cup {Unset}, key : Numbers]
  <2>1. stackYml \in Keyed => KeyIn(keyLines[stackYml]) \in Numbers
    BY <1>1, <1>3, KeyInType
  <2> QED BY <1>1, <1>n, <2>1 DEF Resolve
<1>5. todo \in [Writers -> Seq(Steps)] /\ todo \in [Writers -> Plans]
  BY <1>1, PlansType DEF Plans
<1>6. job \in [Writers -> [provider : Providers \cup {Unset}, number : Numbers, assistant : Numbers]]
  BY <1>1, <1>n DEF NoJob
<1>7. ConfigTypeOK
  BY <1>1, <1>2, <1>3, <1>4, <1>5, <1>6, <1>n DEF ConfigTypeOK, Line
<1>8. PICK m : Place(m)
  BY PlansDiffer
<1>9. <<>> \notin Naming /\ <<>> # writeRuntimeFiles /\ <<>> \notin KeyAlone /\ <<>> \notin {Setup4, Setup5, Caps, Custom, Remove2, Setup1, Setup2}
  <2>1. KeyAlone = {Keys1, Patch1}
    BY DEF KeyAlone, Keys1, Patch1
  <2> QED BY <1>8, <2>1 DEF Place, Naming, BeforeYml
<1>10. PlansInv
  BY <1>1, <1>5, <1>9 DEF PlansInv
<1>11. ResolvedInv
  BY <1>1, <1>9 DEF ResolvedInv
<1>12. SetupInv
  BY <1>1, <1>2, <1>9 DEF SetupInv, Specified
<1>13. SecretInv
  BY <1>1, <1>9 DEF SecretInv, StoredIsIndexed
<1>14. KeysInv
  BY <1>1, <1>s DEF KeysInv
<1>15. TokenInv
  BY <1>1, <1>9 DEF TokenInv
<1> QED BY <1>7, <1>10, <1>11, <1>12, <1>13, <1>14, <1>15 DEF ConfigInv

\* Whatever is written, by however many processes, with however many writes that fail: the
\* files are well typed, and what is known of them holds.
THEOREM ConfigInvariant == ConfigSpec => []ConfigInv
<1>1. ConfigInit => ConfigInv
  BY ConfigStarts
<1>2. ConfigInv /\ [ConfigNext]_configVars => ConfigInv'
  <2>1. ASSUME ConfigInv, ConfigNext PROVE ConfigInv'
    BY <2>1, PlansInvariant, TypesKept, ResolvedKept, SetupKept, SecretKept, KeysKept, TokenKept DEF ConfigInv
  <2>2. ASSUME ConfigInv, UNCHANGED configVars PROVE ConfigInv'
    <3>1. /\ UNCHANGED <<stackYml, keyLines, tokens, resolved, setupMark, stored>>
          /\ UNCHANGED <<indexed, todo, job, calls, mishaps, notes>>
          /\ UNCHANGED <<saved, noted, overlapped, astray, torn>>
      BY <2>2 DEF configVars, envFile, configHistory
    <3>2. ConfigTypeOK' /\ PlansInv'
      BY <2>2, <3>1 DEF ConfigInv, ConfigTypeOK, PlansInv
    <3>3. ResolvedInv'
      BY <2>2, <3>1 DEF ConfigInv, ResolvedInv, Resolve
    <3>4. SetupInv' /\ SecretInv' /\ KeysInv' /\ TokenInv'
      BY <2>2, <3>1 DEF ConfigInv, SetupInv, Specified, SecretInv, StoredIsIndexed, Excused, KeysInv, TokenInv
    <3> QED BY <3>2, <3>3, <3>4 DEF ConfigInv
  <2> QED BY <2>1, <2>2
<1> QED BY <1>1, <1>2, PTL DEF ConfigSpec

\* What is written belongs together: in every step of it.
THEOREM ConfigurationIsKept == ConfigSpec => ConfigurationHolds
<1>1. ASSUME ConfigInv, ConfigNext
      PROVE  /\ ConfigTypeOK' /\ CapabilitiesAgree' /\ CompleteIsConfigured' /\ StoredIsIndexed'
             /\ SavedKeyCounts' /\ TokenStays /\ MarkStays
  <2>i. ConfigInv'
    BY <1>1, PlansInvariant, TypesKept, ResolvedKept, SetupKept, SecretKept, KeysKept, TokenKept DEF ConfigInv
  <2>1. ConfigTypeOK' /\ StoredIsIndexed'
    BY <2>i DEF ConfigInv, SecretInv
  <2>2. CapabilitiesAgree'
    <3>1. ASSUME AtRest' PROVE \A w \in Writers : todo'[w] \notin Resolving
      BY <3>1, PlansAre DEF AtRest
    <3> QED BY <2>i, <3>1 DEF ConfigInv, ResolvedInv, CapabilitiesAgree
  <2>3. CompleteIsConfigured'
    <3>1. ASSUME AtRest' PROVE \A w \in Writers : todo'[w] \notin BeforeYml
      BY <3>1, PlansAre DEF AtRest
    <3>2. SetupInv' /\ setupMark' \in {"absent", "false", "true"}
      BY <2>i DEF ConfigInv, ConfigTypeOK
    <3> QED BY <3>1, <3>2 DEF SetupInv, Specified, CompleteIsConfigured, isSetupComplete
  <2>4. SavedKeyCounts'
    <3>1. ASSUME NEW p \in Keyed, p \notin noted', "env" \notin torn' PROVE KeyIn(keyLines'[p]) = saved'[p]
      <4>1. (keyLines'[p] = <<>> /\ saved'[p] = 0) \/ keyLines'[p] = <<[live |-> TRUE, key |-> saved'[p]]>>
        BY <2>i, <3>1 DEF ConfigInv, KeysInv
      <4> QED BY <4>1, KeyInOne
    <3> QED BY <3>1 DEF SavedKeyCounts
  <2>5. TokenStays
    <3>1. ASSUME NEW w \in Writers, EnsureSecrets(w) PROVE tokens.assistant = 0 \/ tokens'.assistant = tokens.assistant
      BY <3>1 DEF EnsureSecrets
    <3>2. ASSUME NEW w \in Writers, UpdateTokens(w), w \notin overlapped PROVE tokens'.assistant = tokens.assistant
      <4>1. todo[w] = Setup2
        BY <1>1, <3>2, GoesOnWith DEF UpdateTokens, ConfigInv
      <4>2. job[w].assistant = tokens.assistant
        BY <1>1, <3>2, <4>1 DEF ConfigInv, TokenInv
      <4> QED BY <3>2, <4>2 DEF UpdateTokens, AssistantToken
    <3>3. ASSUME NEW w \in Writers, Going(w), ~EnsureSecrets(w), ~UpdateTokens(w), ~TokenWritten(w) PROVE tokens' = tokens
      BY <3>3 DEF Going, SaveKey, WriteStackSpec, WriteCapabilityVars, MarkSetup, CustomSecret, envFile
    <3>4. ASSUME NEW w \in Writers, GivingUp(w) PROVE tokens' = tokens \/ tokens'.assistant = 0
      <4>1. tokens' = tokens \/ tokens' = NoTokens
        BY <1>1, <3>4, GivesUp DEF ConfigInv, envFile
      <4> QED BY <4>1 DEF NoTokens
    <3>5. ASSUME NEW p \in Keyed, Note(p) PROVE tokens' = tokens
      BY <3>5 DEF Note
    <3>6. ASSUME NEW w \in Writers, NEW steps, NEW p, NEW n, Starts(w, steps, p, n) PROVE tokens' = tokens
      BY <3>6 DEF Starts, Calls, envFile
    <3>7. CASE \E w \in Writers : Going(w)
      <4>1. PICK w \in Writers : Going(w)
        BY <3>7
      <4> QED BY <4>1, <3>1, <3>2, <3>3 DEF TokenStays
    <3>8. CASE ~\E w \in Writers : Going(w)
      <4>1. tokens' = tokens \/ tokens'.assistant = 0
        BY <1>1, <3>4, <3>5, <3>6, <3>8, ConfigCases
      <4> QED BY <4>1 DEF TokenStays
    <3> QED BY <3>7, <3>8
  <2>6. MarkStays
    <3>1. ASSUME NEW w \in Writers, Going(w), ~MarkSetup(w) PROVE setupMark' = setupMark
      BY <3>1 DEF Going, EnsureSecrets, UpdateTokens, TokenWritten, SaveKey, WriteStackSpec, WriteCapabilityVars, CustomSecret, envFile
    <3>2. ASSUME NEW w \in Writers, MarkSetup(w), setupMark = "true" PROVE setupMark' = "true"
      BY <3>2 DEF MarkSetup
    <3>3. ASSUME NEW w \in Writers, GivingUp(w) PROVE setupMark' = setupMark \/ "env" \in torn'
      BY <1>1, <3>3, GivesUp DEF ConfigInv, envFile
    <3>4. ASSUME NEW p \in Keyed, Note(p) PROVE setupMark' = setupMark
      BY <3>4 DEF Note
    <3>5. ASSUME NEW w \in Writers, NEW steps, NEW p, NEW n, Starts(w, steps, p, n) PROVE setupMark' = setupMark
      BY <3>5 DEF Starts, Calls, envFile
    <3>6. setupMark' = setupMark \/ "env" \in torn' \/ \E w \in Writers : MarkSetup(w)
      BY <1>1, <3>1, <3>3, <3>4, <3>5, ConfigCases
    <3> QED BY <3>2, <3>6 DEF MarkStays
  <2> QED BY <2>1, <2>2, <2>3, <2>4, <2>5, <2>6
<1>2. ConfigInv /\ [ConfigNext]_configVars =>
        [/\ ConfigTypeOK' /\ CapabilitiesAgree' /\ CompleteIsConfigured' /\ StoredIsIndexed'
         /\ SavedKeyCounts' /\ TokenStays /\ MarkStays]_configVars
  BY <1>1
<1> QED BY <1>2, ConfigInvariant, PTL DEF ConfigSpec, ConfigurationHolds

(***************************************************************************)
(* The memories and their curation.                                        *)
(***************************************************************************)

\* There is one copy of a content without an excuse, or one on its way.
SoleCopy(c) ==
  /\ \A i, j \in Copies(c) : i = j
  /\ Copies(c) # {} => ~Racing(c)
  /\ \A a, b \in Adders :
       /\ call[a].at = "adding" /\ call[a].content = c
       /\ call[b].at = "adding" /\ call[b].content = c
       => a = b
  /\ (\E q \in late : q.ids = {} /\ q.content = c) =>
       \A a \in Adders : call[a].at = "adding" => call[a].content # c

\* What hygiene is about to delete is something, and not what it decided to keep.
NothingSparedGoes ==
  /\ spared \cap (hygiene.duplicates \cup hygiene.stale) = {}
  /\ hygiene.at = "deduplicating" => hygiene.duplicates # {}
  /\ hygiene.at = "pruning" => hygiene.stale # {}

CurationInv ==
  /\ CurationTypeOK
  /\ \A c \in Contents : c \in doubled \/ SoleCopy(c)
  /\ SparedStays /\ NothingSparedGoes

\* What the service makes of a text leaves the memories well-typed, and adds one
\* copy of the text at most and none of another.
LEMMA InferredFits ==
  ASSUME CurationTypeOK, SparedStays, NEW c \in Contents, NEW k \in {"weak", "usual", "pinned"}, Inferred(c, k)
  PROVE  /\ memories' \in [DOMAIN memories' -> Memories] /\ DOMAIN memories' \subseteq 1..issued'
         /\ issued' \in 0..MaxMemories
         /\ spared' \subseteq spared /\ spared' \subseteq DOMAIN memories'
         /\ \E n \in Nat : \A d \in Contents :
              {i \in DOMAIN memories' : memories'[i].content = d} \subseteq Copies(d) \cup (IF c = d THEN {n} ELSE {})
<1> USE CurationAssumption DEF CurationTypeOK, SparedStays, Memories, Copies
<1>1. CASE Stored(c, k) /\ UNCHANGED spared
  <2>1. /\ DOMAIN memories' = DOMAIN memories \cup {issued + 1}
        /\ \A i \in DOMAIN memories : memories'[i] = memories[i]
        /\ memories'[issued + 1] = Fresh(c, k)
        /\ memories' = [i \in DOMAIN memories \cup {issued + 1} |-> memories'[i]]
        /\ issued' = issued + 1 /\ issued < MaxMemories
    BY <1>1 DEF Stored
  <2>2. Fresh(c, k) \in Memories
    BY DEF Fresh
  <2>3. memories' \in [DOMAIN memories' -> Memories]
    BY <2>1, <2>2
  <2>4. DOMAIN memories' \subseteq 1..issued' /\ issued' \in 0..MaxMemories
    BY <2>1
  <2>5. \A d \in Contents : {i \in DOMAIN memories' : memories'[i].content = d}
                              \subseteq Copies(d) \cup (IF c = d THEN {issued + 1} ELSE {})
    BY <2>1 DEF Fresh
  <2>6. issued + 1 \in Nat
    OBVIOUS
  <2> QED BY <1>1, <2>1, <2>3, <2>4, <2>5, <2>6
<1>2. CASE UNCHANGED <<memories, issued, spared>>
  <2>1. 0 \in Nat OBVIOUS
  <2> QED BY <1>2, <2>1
<1>3. ASSUME NEW i \in DOMAIN memories, memories' = [memories EXCEPT ![i] = Fresh(c, k)],
             UNCHANGED issued, spared' = spared \ {i}
      PROVE  /\ memories' \in [DOMAIN memories' -> Memories] /\ DOMAIN memories' \subseteq 1..issued'
             /\ issued' \in 0..MaxMemories
             /\ spared' \subseteq spared /\ spared' \subseteq DOMAIN memories'
             /\ i \in Nat
             /\ \A d \in Contents :
                  {j \in DOMAIN memories' : memories'[j].content = d} \subseteq Copies(d) \cup (IF c = d THEN {i} ELSE {})
  BY <1>3 DEF Fresh
<1> QED BY <1>1, <1>2, <1>3 DEF Inferred

\* Fewer memories keep the types, and no copy comes.
LEMMA RemovedFits ==
  ASSUME CurationTypeOK, NEW ids, Removed(ids)
  PROVE  /\ DOMAIN memories' = DOMAIN memories \ ids
         /\ memories' \in [DOMAIN memories' -> Memories] /\ DOMAIN memories' \subseteq 1..issued
         /\ \A d \in Contents : {i \in DOMAIN memories' : memories'[i].content = d} \subseteq Copies(d)
BY DEF Removed, Restrict, CurationTypeOK, Copies

\* The requests that are left to carry out, and the calls they come from.
LEMMA UnusedFits == Unused.content \in Contents /\ Unused.at = "unused"
<1>1. \E c \in Contents : TRUE
  BY CurationAssumption
<1> QED BY <1>1 DEF Unused

LEMMA MovesFits ==
  ASSUME CurationTypeOK, NEW a \in Adders, NEW place \in {"searching", "adding", "over"}, MovesTo(a, place)
  PROVE  /\ call' \in [Adders -> [at : {"unused", "searching", "adding", "over"}, content : Contents]]
         /\ call'[a] = [at |-> place, content |-> call[a].content]
         /\ \A b \in Adders \ {a} : call'[b] = call[b]
BY DEF MovesTo, CurationTypeOK

LEMMA DeletesFits ==
  ASSUME NEW D \in SUBSET Ids, NEW S \in SUBSET Ids, D \cap S = {}, Deletes(D, S)
  PROVE  /\ hygiene' \in [at : {"none", "listing", "deduplicating", "pruning"}, duplicates : SUBSET Ids, stale : SUBSET Ids]
         /\ hygiene'.duplicates \subseteq D /\ hygiene'.stale \subseteq S
         /\ hygiene'.duplicates \cap hygiene'.stale = {}
         /\ hygiene'.at = "deduplicating" => hygiene'.duplicates # {}
         /\ hygiene'.at = "pruning" => hygiene'.stale # {}
<1>1. CASE D # {}
  BY <1>1 DEF Deletes
<1>2. CASE D = {} /\ S # {}
  BY <1>2 DEF Deletes
<1>3. CASE D = {} /\ S = {}
  BY <1>3 DEF Deletes, NoHygiene
<1> QED BY <1>1, <1>2, <1>3

LEMMA CarriesOnFits ==
  ASSUME CurationTypeOK, CarriesOn
  PROVE  /\ hygiene' \in [at : {"none", "listing", "deduplicating", "pruning"}, duplicates : SUBSET Ids, stale : SUBSET Ids]
         /\ hygiene'.duplicates \subseteq hygiene.duplicates /\ hygiene'.stale \subseteq hygiene.stale
         /\ hygiene'.duplicates \cap hygiene'.stale = {}
         /\ hygiene'.at = "deduplicating" => hygiene'.duplicates # {}
         /\ hygiene'.at = "pruning" => hygiene'.stale # {}
<1>1. hygiene.duplicates \in SUBSET Ids /\ hygiene.stale \in SUBSET Ids /\ {} \in SUBSET Ids
  BY DEF CurationTypeOK
<1>2. CASE hygiene.at = "deduplicating"
  <2>1. Deletes({}, hygiene.stale)
    BY <1>2 DEF CarriesOn
  <2>2. {} \cap hygiene.stale = {}
    OBVIOUS
  <2> QED BY <1>1, <2>1, <2>2, DeletesFits
<1>3. CASE hygiene.at # "deduplicating"
  <2>1. Deletes({}, {})
    BY <1>3 DEF CarriesOn
  <2> QED BY <1>1, <2>1, DeletesFits
<1> QED BY <1>2, <1>3

\* What hygiene selects is none of what it keeps.
LEMMA SelectionsSpare ==
  ASSUME CurationTypeOK, NEW D \in Batches(DuplicateCandidates), NEW P \in Batches(StaleCandidates)
  PROVE  /\ D \subseteq DuplicateCandidates /\ P \subseteq StaleCandidates
         /\ D \in SUBSET Ids /\ P \in SUBSET Ids /\ D \cap P = {}
         /\ \A i \in D \cup P :
              /\ memories[i].kind # "pinned"
              /\ Stale(i) \/ \E j \in Scanned \cap Copies(memories[i].content) : Better(j, i)
<1>1. D \subseteq DuplicateCandidates /\ P \subseteq StaleCandidates
  BY DEF Batches
<1>2. Scanned \subseteq Ids
  BY CurationAssumption DEF Scanned, CurationTypeOK, Ids
<1> QED BY <1>1, <1>2 DEF DuplicateCandidates, StaleCandidates, Protected

(***************************************************************************)
(* Every action keeps the invariant.                                       *)
(***************************************************************************)
\* What is stored for the text of a call that ends, or of a late request, is the
\* copy that was on its way.
LEMMA SoleCopyKept ==
  ASSUME CurationTypeOK, NEW c \in Contents, SoleCopy(c),
         NEW n, {i \in DOMAIN memories' : memories'[i].content = c} \subseteq Copies(c) \cup {n},
         Racing(c),
         \A a \in Adders : call'[a].at = "adding" => call'[a].content # c,
         \A q \in late' : q.ids = {} => q.content # c
  PROVE  SoleCopy(c)'
BY DEF SoleCopy, Racing, Copies

\* Where no copy comes and no request, nothing changes for the better copy.
LEMMA SoleCopyUntouched ==
  ASSUME CurationTypeOK, NEW c \in Contents, SoleCopy(c),
         {i \in DOMAIN memories' : memories'[i].content = c} \subseteq Copies(c),
         \A a \in Adders : call'[a].at = "adding" /\ call'[a].content = c =>
                             call[a].at = "adding" /\ call[a].content = c,
         \A q \in late' : q.ids = {} /\ q.content = c => \E r \in late : r.ids = {} /\ r.content = c
  PROVE  SoleCopy(c)'
BY DEF SoleCopy, Racing, Copies

LEMMA CurationTypeStep ==
  ASSUME CurationTypeOK, SparedStays, [CurationNext]_curationVars
  PROVE  CurationTypeOK'
<1> USE CurationAssumption
<1> DEFINE AdderCalls == [Adders -> [at : {"unused", "searching", "adding", "over"}, content : Contents]]
           Hygienes == [at : {"none", "listing", "deduplicating", "pruning"}, duplicates : SUBSET Ids, stale : SUBSET Ids]
           Requests == [ids : SUBSET Ids, content : Contents]
           MemoriesFit == /\ memories' \in [DOMAIN memories' -> Memories] /\ DOMAIN memories' \subseteq 1..issued'
                          /\ issued' \in 0..MaxMemories
<1> HIDE DEF AdderCalls, Hygienes, Requests
<1>0. /\ call \in AdderCalls /\ hygiene \in Hygienes /\ late \subseteq Requests /\ spared \subseteq Ids
      /\ hygiene.duplicates \cap hygiene.stale = {}
  BY DEF CurationTypeOK, AdderCalls, Hygienes, Requests
\* the memories
<1>1. MemoriesFit
  <2>1. ASSUME NEW c \in Contents, NEW k \in {"weak", "usual", "pinned"}, Inferred(c, k)
        PROVE  MemoriesFit
    BY <2>1, InferredFits
  <2>2. ASSUME NEW ids, Removed(ids), issued' = issued
        PROVE  MemoriesFit
    BY <2>2, RemovedFits DEF CurationTypeOK
  <2>3. ASSUME UNCHANGED <<memories, issued>>
        PROVE  MemoriesFit
    BY <2>3 DEF CurationTypeOK
  <2>4. ASSUME NEW a \in Adders, Learns(a) \/ Searched(a) \/ SearchFails(a) \/ AddTimesOut(a)
        PROVE  UNCHANGED <<memories, issued>>
    BY <2>4 DEF Learns, Searched, SearchFails, AddTimesOut
  <2>5. ASSUME NEW a \in Adders, Added(a) PROVE MemoriesFit
    BY <2>1, <2>5 DEF Added, CurationTypeOK
  <2>6. CASE SessionCreated \/ Listed \/ ListFails \/ WeedTimesOut \/ Restarted
    BY <2>3, <2>6 DEF SessionCreated, Listed, ListFails, WeedTimesOut, Restarted
  <2>7. CASE Weeded
    BY <2>2, <2>7 DEF Weeded
  <2>8. CASE ServedLate
    BY <2>1, <2>2, <2>3, <2>8 DEF ServedLate, CurationTypeOK
  <2>9. CASE ToolAdds
    BY <2>1, <2>9 DEF ToolAdds
  <2>10. CASE ToolDeletes
    BY <2>2, <2>10 DEF ToolDeletes
  <2>11. CASE Rated
    <3>1. PICK i \in DOMAIN memories, v \in {-1, 1} :
            memories[i].score + v \in -1..1 /\ memories' = [memories EXCEPT ![i].score = @ + v]
      BY <2>11 DEF Rated
    <3>2. memories[i] \in Memories /\ [memories[i] EXCEPT !.score = @ + v] \in Memories
      BY <3>1 DEF CurationTypeOK, Memories
    <3>3. memories' \in [DOMAIN memories -> Memories] /\ DOMAIN memories' = DOMAIN memories
      BY <3>1, <3>2 DEF CurationTypeOK
    <3> QED BY <2>11, <3>3 DEF Rated, CurationTypeOK
  <2>12. CASE TimePasses
    <3>1. CASE memories' = [i \in DOMAIN memories |-> [memories[i] EXCEPT !.age = IF @ < 2 THEN @ + 1 ELSE 2]]
      <4>1. \A i \in DOMAIN memories : [memories[i] EXCEPT !.age = IF @ < 2 THEN @ + 1 ELSE 2] \in Memories
        BY DEF CurationTypeOK, Memories
      <4>2. memories' \in [DOMAIN memories -> Memories] /\ DOMAIN memories' = DOMAIN memories
        BY <3>1, <4>1
      <4> QED BY <2>12, <4>2 DEF TimePasses, CurationTypeOK
    <3> QED BY <2>3, <2>12, <3>1 DEF TimePasses
  <2> QED BY <2>3, <2>4, <2>5, <2>6, <2>7, <2>8, <2>9, <2>10, <2>11, <2>12 DEF CurationNext, curationVars
\* the calls, and what is late
<1>2. call' \in AdderCalls
  <2>1. ASSUME NEW a \in Adders, NEW place \in {"searching", "adding", "over"}, MovesTo(a, place)
        PROVE  call' \in AdderCalls
    BY <2>1, MovesFits DEF AdderCalls
  <2>2. ASSUME NEW a \in Adders, Learns(a) \/ Searched(a) \/ SearchFails(a) \/ Added(a) \/ AddTimesOut(a)
        PROVE  call' \in AdderCalls
    BY <1>0, <2>1, <2>2 DEF Learns, Searched, SearchFails, Added, AddTimesOut, AdderCalls
  <2>3. CASE Restarted
    BY <1>0, <2>3, UnusedFits DEF Restarted, AdderCalls, Unused
  <2> QED BY <1>0, <2>2, <2>3 DEF CurationNext, curationVars, stepVars, SessionCreated, Listed, ListFails, Weeded,
                                  WeedTimesOut, ServedLate, ToolAdds, ToolDeletes, Rated, TimePasses
<1>3. late' \subseteq Requests
  <2>1. \A a \in Adders : [ids |-> {}, content |-> call[a].content] \in Requests
    BY <1>0 DEF AdderCalls, Requests
  <2>2. [ids |-> Batch, content |-> Unused.content] \in Requests
    BY <1>0, UnusedFits DEF Hygienes, Requests, Batch
  <2> QED BY <1>0, <2>1, <2>2 DEF CurationNext, curationVars, stepVars, Learns, Searched, SearchFails, Added, AddTimesOut,
               SessionCreated, Listed, ListFails, Weeded,
               WeedTimesOut, ServedLate, ToolAdds, ToolDeletes, Rated, TimePasses, Restarted
\* hygiene
<1>4. hygiene' \in Hygienes /\ hygiene'.duplicates \cap hygiene'.stale = {}
  <2>1. NoHygiene \in Hygienes /\ [NoHygiene EXCEPT !.at = "listing"] \in Hygienes
        /\ NoHygiene.duplicates = {} /\ [NoHygiene EXCEPT !.at = "listing"].duplicates = {}
    BY DEF NoHygiene, Hygienes
  <2>2. CASE Listed
    <3>1. PICK D \in Batches(DuplicateCandidates), P \in Batches(StaleCandidates) : Deletes(D, P)
      BY <2>2 DEF Listed
    <3>2. D \in SUBSET Ids /\ P \in SUBSET Ids /\ D \cap P = {}
      BY SelectionsSpare
    <3> QED BY <3>1, <3>2, DeletesFits DEF Hygienes
  <2>3. CASE CarriesOn
    BY <2>3, CarriesOnFits DEF Hygienes
  <2> QED BY <1>0, <2>1, <2>2, <2>3 DEF CurationNext, curationVars, stepVars, Learns, Searched, SearchFails, Added, AddTimesOut,
               SessionCreated, ListFails, Weeded, WeedTimesOut, ServedLate, ToolAdds, ToolDeletes, Rated, TimePasses, Restarted
<1>5. due' \in BOOLEAN
  BY DEF CurationTypeOK, CurationNext, curationVars, stepVars, Learns, Searched, SearchFails, Added, AddTimesOut,
       SessionCreated, Listed, ListFails, Weeded, WeedTimesOut, ServedLate, ToolAdds, ToolDeletes, Rated, TimePasses, Restarted
<1>6. uses' \in 0..MaxUses /\ restarts' \in 0..MaxRestarts
  BY DEF CurationTypeOK, CurationNext, curationVars, stepVars, Learns, Searched, SearchFails, Added, AddTimesOut, Uses,
       SessionCreated, Listed, ListFails, Weeded, WeedTimesOut, ServedLate, ToolAdds, ToolDeletes, Rated, TimePasses, Restarted
<1>7. doubled' \subseteq Contents
  BY <1>0 DEF CurationTypeOK, CurationNext, curationVars, stepVars, Learns, Searched, SearchFails, Added, AddTimesOut, AdderCalls,
       SessionCreated, Listed, ListFails, Weeded, WeedTimesOut, ServedLate, ToolAdds, ToolDeletes, Rated, TimePasses, Restarted
<1>8. spared' \subseteq Ids
  <2>1. Scanned \subseteq Ids
    BY DEF Scanned, CurationTypeOK, Ids
  <2> QED
  BY <1>0, <2>1 DEF CurationNext, curationVars, stepVars, Learns, Searched, SearchFails, Added, AddTimesOut, Inferred,
       SessionCreated, Listed, ListFails, Weeded, WeedTimesOut, ServedLate, ToolAdds, ToolDeletes, Rated, TimePasses, Restarted
<1> QED BY <1>1, <1>2, <1>3, <1>4, <1>5, <1>6, <1>7, <1>8 DEF CurationTypeOK, AdderCalls, Hygienes, Requests

\* A second copy has an excuse.
LEMMA CopiesStep ==
  ASSUME CurationTypeOK, SparedStays, NothingSparedGoes, [CurationNext]_curationVars, NEW c \in Contents,
         c \in doubled \/ SoleCopy(c)
  PROVE  c \in doubled' \/ SoleCopy(c)'
<1>0. doubled \subseteq doubled'
  BY DEF CurationNext, curationVars, stepVars, Learns, Searched, SearchFails, Added, AddTimesOut,
       SessionCreated, Listed, ListFails, Weeded, WeedTimesOut, ServedLate, ToolAdds, ToolDeletes, Rated, TimePasses, Restarted
<1>1. SUFFICES ASSUME SoleCopy(c), c \notin doubled' PROVE SoleCopy(c)'
  BY <1>0
<1>2. ASSUME NEW a \in Adders, NEW place \in {"searching", "over"}, MovesTo(a, place)
      PROVE  \A b \in Adders : call'[b].at = "adding" /\ call'[b].content = c =>
                                 b # a /\ call[b].at = "adding" /\ call[b].content = c
  <2>1. place \in {"searching", "adding", "over"} /\ place # "adding"
    OBVIOUS
  <2>2. call'[a] = [at |-> place, content |-> call[a].content] /\ \A b \in Adders \ {a} : call'[b] = call[b]
    BY <1>2, <2>1, MovesFits
  <2> QED BY <2>1, <2>2
<1>3. ASSUME UNCHANGED call
      PROVE  \A a \in Adders : call'[a].at = "adding" /\ call'[a].content = c =>
                             call[a].at = "adding" /\ call[a].content = c
  BY <1>3
<1>4. ASSUME NEW ids, Removed(ids)
      PROVE  {i \in DOMAIN memories' : memories'[i].content = c} \subseteq Copies(c)
  BY <1>4, RemovedFits
<1>5. ASSUME UNCHANGED memories
      PROVE  {i \in DOMAIN memories' : memories'[i].content = c} \subseteq Copies(c)
  BY <1>5 DEF Copies
<1>6. CASE UNCHANGED curationVars
  BY <1>1, <1>3, <1>5, <1>6, SoleCopyUntouched DEF curationVars, stepVars
<1>7. ASSUME NEW a \in Adders, Learns(a) PROVE SoleCopy(c)'
  <2>1. \A b \in Adders : call'[b].at = "adding" => call[b].at = "adding" /\ call'[b] = call[b]
    BY <1>7 DEF Learns, CurationTypeOK
  <2> QED BY <1>1, <1>5, <1>7, <2>1, SoleCopyUntouched DEF Learns
<1>8. ASSUME NEW a \in Adders, Searched(a) PROVE SoleCopy(c)'
  <2>1. CASE Novel(call[a].content)
    <3>1. /\ call'[a] = [at |-> "adding", content |-> call[a].content]
          /\ \A b \in Adders \ {a} : call'[b] = call[b]
          /\ memories' = memories /\ late' = late
      BY <1>8, <2>1, MovesFits DEF Searched
    <3>2. CASE call[a].content = c
      <4>1. Copies(c) = {} /\ ~Racing(c)
        BY <1>1, <1>8, <2>1, <3>2 DEF Searched, Novel
      <4>2. Copies(c)' = {}
        BY <3>1, <4>1 DEF Copies
      <4> QED BY <3>1, <4>1, <4>2 DEF SoleCopy, Racing
    <3>3. CASE call[a].content # c
      BY <1>1, <1>5, <3>1, <3>3, SoleCopyUntouched
    <3> QED BY <3>2, <3>3
  <2>2. CASE ~Novel(call[a].content)
    <3>1. MovesTo(a, "over")
      BY <1>8, <2>2 DEF Searched
    <3> QED BY <1>1, <1>2, <1>5, <1>8, <3>1, SoleCopyUntouched DEF Searched
  <2> QED BY <2>1, <2>2
<1>9. ASSUME NEW a \in Adders, SearchFails(a) PROVE SoleCopy(c)'
  <2>1. /\ call'[a].content # c
        /\ \A b \in Adders \ {a} : call'[b] = call[b]
        /\ memories' = memories /\ late' = late
    <3>1. MovesTo(a, "adding") /\ call[a].content \in doubled' /\ memories' = memories /\ late' = late
      BY <1>9 DEF SearchFails
    <3>2. call'[a] = [at |-> "adding", content |-> call[a].content] /\ \A b \in Adders \ {a} : call'[b] = call[b]
      BY <3>1, MovesFits
    <3> QED BY <1>1, <3>1, <3>2
  <2>2. \A b \in Adders : call'[b].content = c => call'[b] = call[b]
    BY <2>1
  <2> QED BY <1>1, <1>5, <2>1, <2>2, SoleCopyUntouched
<1>10. ASSUME NEW a \in Adders, Added(a) PROVE SoleCopy(c)'
  <2>1. /\ MovesTo(a, "over") /\ Inferred(call[a].content, "usual") /\ late' = late /\ call[a].at = "adding"
        /\ call[a].content \in Contents
    BY <1>10 DEF Added, CurationTypeOK
  <2>2. PICK n \in Nat : \A d \in Contents :
              {i \in DOMAIN memories' : memories'[i].content = d}
                \subseteq Copies(d) \cup (IF call[a].content = d THEN {n} ELSE {})
    BY <2>1, InferredFits
  <2>3. CASE call[a].content = c
    <3>1. Racing(c) /\ \A q \in late' : q.ids = {} => q.content # c
      BY <1>1, <2>1, <2>3 DEF Racing, SoleCopy
    <3>2. \A b \in Adders : call'[b].at = "adding" => call'[b].content # c
      BY <1>1, <1>2, <2>1, <2>3 DEF SoleCopy
    <3>3. {i \in DOMAIN memories' : memories'[i].content = c} \subseteq Copies(c) \cup {n}
      BY <2>2
    <3> QED BY <1>1, <3>1, <3>2, <3>3, SoleCopyKept
  <2>4. CASE call[a].content # c
    <3>1. {i \in DOMAIN memories' : memories'[i].content = c} \subseteq Copies(c)
      BY <2>2, <2>4
    <3> QED BY <1>1, <1>2, <2>1, <3>1, SoleCopyUntouched
  <2> QED BY <2>3, <2>4
<1>11. ASSUME NEW a \in Adders, AddTimesOut(a) PROVE SoleCopy(c)'
  <2>1. /\ MovesTo(a, "over") /\ call[a].at = "adding" /\ memories' = memories
        /\ late' = late \cup {[ids |-> {}, content |-> call[a].content]}
    BY <1>11 DEF AddTimesOut
  <2>2. CASE call[a].content = c
    <3>1. Racing(c) /\ \A b \in Adders : call'[b].at = "adding" => call'[b].content # c
      BY <1>1, <1>2, <2>1, <2>2 DEF SoleCopy, Racing
    <3>2. Copies(c)' = Copies(c)
      BY <2>1 DEF Copies
    <3> QED BY <1>1, <3>1, <3>2 DEF SoleCopy, Racing
  <2>3. CASE call[a].content # c
    BY <1>1, <1>2, <1>5, <2>1, <2>3, SoleCopyUntouched
  <2> QED BY <2>2, <2>3
<1>12. CASE SessionCreated \/ Listed \/ ListFails
  BY <1>1, <1>3, <1>5, <1>12, SoleCopyUntouched DEF SessionCreated, Listed, ListFails
<1>13. CASE Weeded
  BY <1>1, <1>3, <1>4, <1>13, SoleCopyUntouched DEF Weeded
<1>14. CASE WeedTimesOut
  <2>1. Batch # {}
    BY <1>14 DEF WeedTimesOut, Batch, NothingSparedGoes
  <2> QED BY <1>1, <1>3, <1>5, <1>14, <2>1, SoleCopyUntouched DEF WeedTimesOut
<1>15. ASSUME NEW q \in late, late' = late \ {q}, UNCHANGED call, q.ids = {}, Inferred(q.content, "usual")
       PROVE SoleCopy(c)'
  <2>1. q.content \in Contents
    BY DEF CurationTypeOK
  <2>2. PICK n \in Nat : \A d \in Contents :
              {i \in DOMAIN memories' : memories'[i].content = d}
                \subseteq Copies(d) \cup (IF q.content = d THEN {n} ELSE {})
    BY <1>15, <2>1, InferredFits
  <2>3. CASE q.content = c
    <3>1. \A r \in late' : r.ids = {} => r.content # c
      <4>1. \A r \in late : r.ids = q.ids /\ r.content = q.content => r = q
        BY DEF CurationTypeOK
      <4> QED BY <1>15, <2>3, <4>1
    <3>2. Racing(c) /\ \A b \in Adders : call'[b].at = "adding" => call'[b].content # c
      BY <1>1, <1>15, <2>3 DEF SoleCopy, Racing
    <3>3. {i \in DOMAIN memories' : memories'[i].content = c} \subseteq Copies(c) \cup {n}
      BY <2>2
    <3> QED BY <1>1, <3>1, <3>2, <3>3, SoleCopyKept
  <2>4. CASE q.content # c
    <3>1. {i \in DOMAIN memories' : memories'[i].content = c} \subseteq Copies(c)
      BY <2>2, <2>4
    <3> QED BY <1>1, <1>3, <1>15, <3>1, SoleCopyUntouched
  <2> QED BY <2>3, <2>4
<1>16. CASE ServedLate
  <2>1. PICK q \in late :
    /\ late' = late \ {q}
    /\ \/ q.ids # {} /\ Removed(q.ids)
       \/ q.ids = {} /\ Inferred(q.content, "usual")
       \/ UNCHANGED memories
    /\ UNCHANGED call
    BY <1>16 DEF ServedLate
  <2> QED BY <1>1, <1>3, <1>4, <1>5, <1>15, <2>1, SoleCopyUntouched
<1>17. CASE ToolAdds
  <2>1. PICK d \in Contents, k \in {"weak", "usual", "pinned"} : Inferred(d, k) /\ doubled' = doubled \cup {d}
    BY <1>17 DEF ToolAdds
  <2>2. d # c
    BY <1>1, <2>1
  <2>3. {i \in DOMAIN memories' : memories'[i].content = c} \subseteq Copies(c)
    BY <2>1, <2>2, InferredFits
  <2> QED BY <1>1, <1>3, <1>17, <2>3, SoleCopyUntouched DEF ToolAdds, stepVars
<1>18. CASE ToolDeletes
  BY <1>1, <1>3, <1>4, <1>18, SoleCopyUntouched DEF ToolDeletes, stepVars
<1>19. CASE Rated \/ TimePasses
  <2>1. DOMAIN memories' = DOMAIN memories /\ \A i \in DOMAIN memories : memories'[i].content = memories[i].content
    BY <1>19 DEF Rated, TimePasses, CurationTypeOK, Memories
  <2>2. {i \in DOMAIN memories' : memories'[i].content = c} \subseteq Copies(c)
    BY <2>1 DEF Copies
  <2> QED BY <1>1, <1>3, <1>19, <2>2, SoleCopyUntouched DEF Rated, TimePasses, stepVars
<1>20. CASE Restarted
  <2>1. \A a \in Adders : call'[a].at # "adding"
    BY <1>20 DEF Restarted, Unused, CurationTypeOK
  <2>2. memories' = memories
    BY <1>20 DEF Restarted
  <2>3. \A q \in late' : q.ids = {} /\ q.content = c => Racing(c)
    BY <1>20 DEF Restarted, Racing
  <2>4. Copies(c)' = Copies(c)
    BY <2>2 DEF Copies
  <2>5. Racing(c)' => Racing(c)
    BY <2>1, <2>3 DEF Racing
  <2> QED BY <1>1, <2>1, <2>4, <2>5 DEF SoleCopy
<1> QED BY <1>6, <1>7, <1>8, <1>9, <1>10, <1>11, <1>12, <1>13, <1>14, <1>16, <1>17, <1>18, <1>19, <1>20 DEF CurationNext

\* What hygiene decided to keep is neither deleted by it nor in its plans.
LEMMA SparedStep ==
  ASSUME CurationTypeOK, SparedStays, NothingSparedGoes, [CurationNext]_curationVars
  PROVE  SparedStays' /\ NothingSparedGoes'
<1>1. ASSUME NEW c \in Contents, NEW k \in {"weak", "usual", "pinned"}, Inferred(c, k)
      PROVE  spared' \subseteq spared /\ spared' \subseteq DOMAIN memories'
  BY <1>1, InferredFits
<1>2. ASSUME NEW ids, Removed(ids) PROVE DOMAIN memories' = DOMAIN memories \ ids
  BY <1>2, RemovedFits
<1>3. CASE UNCHANGED curationVars
  BY <1>3 DEF curationVars, stepVars, SparedStays, NothingSparedGoes
<1>4. ASSUME NEW a \in Adders, Learns(a) \/ Searched(a) \/ SearchFails(a) \/ AddTimesOut(a)
      PROVE  SparedStays' /\ NothingSparedGoes'
  BY <1>4 DEF Learns, Searched, SearchFails, AddTimesOut, SparedStays, NothingSparedGoes
<1>5. ASSUME NEW a \in Adders, Added(a) PROVE SparedStays' /\ NothingSparedGoes'
  <2>1. call[a].content \in Contents /\ "usual" \in {"weak", "usual", "pinned"}
    BY DEF CurationTypeOK
  <2> QED BY <1>1, <1>5, <2>1 DEF Added, SparedStays, NothingSparedGoes
<1>6. CASE SessionCreated \/ ListFails
  BY <1>6 DEF SessionCreated, ListFails, NoHygiene, SparedStays, NothingSparedGoes
<1>7. CASE Listed
  <2>1. PICK D \in Batches(DuplicateCandidates), P \in Batches(StaleCandidates) : Deletes(D, P)
    BY <1>7 DEF Listed
  <2>2. /\ hygiene'.duplicates \subseteq D /\ hygiene'.stale \subseteq P
        /\ hygiene'.at = "deduplicating" => hygiene'.duplicates # {}
        /\ hygiene'.at = "pruning" => hygiene'.stale # {}
    BY <2>1, SelectionsSpare, DeletesFits
  <2>3. \A i \in spared' : i \in Scanned /\ i \notin D \cup P
    BY <1>7, SelectionsSpare DEF Listed
  <2>4. Scanned \subseteq DOMAIN memories
    BY DEF Scanned
  <2> QED BY <1>7, <2>2, <2>3, <2>4 DEF Listed, SparedStays, NothingSparedGoes
<1>8. CASE Weeded
  <2>1. Batch \cap spared = {}
    BY DEF Batch, NothingSparedGoes
  <2>2. /\ hygiene'.duplicates \subseteq hygiene.duplicates /\ hygiene'.stale \subseteq hygiene.stale
        /\ hygiene'.at = "deduplicating" => hygiene'.duplicates # {}
        /\ hygiene'.at = "pruning" => hygiene'.stale # {}
    BY <1>8, CarriesOnFits DEF Weeded
  <2> QED BY <1>2, <1>8, <2>1, <2>2 DEF Weeded, SparedStays, NothingSparedGoes
<1>9. CASE WeedTimesOut
  <2>1. /\ hygiene'.duplicates \subseteq hygiene.duplicates /\ hygiene'.stale \subseteq hygiene.stale
        /\ hygiene'.at = "deduplicating" => hygiene'.duplicates # {}
        /\ hygiene'.at = "pruning" => hygiene'.stale # {}
    BY <1>9, CarriesOnFits DEF WeedTimesOut
  <2> QED BY <1>9, <2>1 DEF WeedTimesOut, SparedStays, NothingSparedGoes
<1>10. CASE ServedLate
  <2>1. PICK q \in late :
    /\ \/ Removed(q.ids) /\ spared' = spared \ q.ids
       \/ Inferred(q.content, "usual")
       \/ UNCHANGED <<memories, spared>>
    /\ hygiene' = hygiene
    BY <1>10 DEF ServedLate
  <2>2. q.content \in Contents /\ "usual" \in {"weak", "usual", "pinned"}
    BY DEF CurationTypeOK
  <2> QED BY <1>1, <1>2, <2>1, <2>2 DEF SparedStays, NothingSparedGoes
<1>11. CASE ToolAdds
  BY <1>1, <1>11 DEF ToolAdds, stepVars, SparedStays, NothingSparedGoes
<1>12. CASE ToolDeletes
  BY <1>2, <1>12 DEF ToolDeletes, stepVars, SparedStays, NothingSparedGoes
<1>13. CASE Rated \/ TimePasses \/ Restarted
  BY <1>13 DEF Rated, TimePasses, Restarted, NoHygiene, stepVars, SparedStays, NothingSparedGoes
<1> QED BY <1>3, <1>4, <1>5, <1>6, <1>7, <1>8, <1>9, <1>10, <1>11, <1>12, <1>13 DEF CurationNext

\* Whatever hooks, tools and requests that come late do to the memories: a second copy
\* of a memory has an excuse, and what hygiene has to keep is not deleted by it.
THEOREM CurationIsConservative == CurationSpec => []CurationHolds
<1>1. CurationInit => CurationInv
  <2> SUFFICES ASSUME CurationInit PROVE CurationInv
    OBVIOUS
  <2>1. memories \in [1..issued -> Memories] /\ issued \in Nat /\ DOMAIN memories = 1..issued /\ issued <= MaxMemories
    BY CurationAssumption DEF CurationInit
  <2>2. \A c \in Contents : Copies(c) \subseteq 1..issued
    BY <2>1 DEF Copies
  <2>3. ASSUME NEW c \in Contents, c \notin doubled PROVE SoleCopy(c)
    <3>1. IsFiniteSet(Copies(c))
      BY <2>1, <2>2, FS_Interval, FS_Subset
    <3>2. Cardinality(Copies(c)) <= 1
      BY <2>3, <3>1, FS_CardinalityType DEF CurationInit
    <3>3. \A i, j \in Copies(c) : i = j
      <4>1. SUFFICES ASSUME NEW i \in Copies(c), NEW j \in Copies(c), i # j PROVE FALSE
        OBVIOUS
      <4>2. IsFiniteSet({i}) /\ Cardinality({i}) = 1
        BY FS_Singleton
      <4>3. IsFiniteSet({i} \cup {j}) /\ Cardinality({i} \cup {j}) = 2
        <5>1. j \notin {i}
          BY <4>1
        <5>2. Cardinality({i} \cup {j}) = Cardinality({i}) + 1 /\ IsFiniteSet({i} \cup {j})
          BY <4>2, <5>1, FS_AddElement
        <5> QED BY <4>2, <5>2
      <4>4. {i} \cup {j} \subseteq Copies(c)
        OBVIOUS
      <4>5. Cardinality({i} \cup {j}) <= Cardinality(Copies(c))
        BY <3>1, <4>4, FS_Subset
      <4> QED BY <3>1, <3>2, <4>3, <4>5, FS_CardinalityType
    <3> QED BY <3>3 DEF SoleCopy, Racing, CurationInit, Unused
  <2>4. CurationTypeOK
    BY <2>1, CurationAssumption, UnusedFits DEF CurationInit, CurationTypeOK, NoHygiene, Unused
  <2> QED BY <2>3, <2>4 DEF CurationInv, SparedStays, NothingSparedGoes, CurationInit, NoHygiene
<1>2. CurationInv /\ [CurationNext]_curationVars => CurationInv'
  <2> SUFFICES ASSUME CurationInv, [CurationNext]_curationVars PROVE CurationInv'
    OBVIOUS
  <2>1. CurationTypeOK' /\ SparedStays' /\ NothingSparedGoes'
    BY CurationTypeStep, SparedStep DEF CurationInv
  <2>2. ASSUME NEW c \in Contents PROVE c \in doubled' \/ SoleCopy(c)'
    BY <2>2, CopiesStep DEF CurationInv
  <2> QED BY <2>1, <2>2 DEF CurationInv
<1>3. CurationInv => CurationHolds
  <2> SUFFICES ASSUME CurationInv, NEW c \in Contents, Cardinality(Copies(c)) > 1, c \notin doubled PROVE FALSE
    BY DEF CurationInv, CurationHolds, CopiesHaveExcuse
  <2>1. \A i, j \in Copies(c) : i = j
    BY DEF CurationInv, SoleCopy
  <2>2. CASE Copies(c) = {}
    BY <2>2, FS_EmptySet
  <2>3. ASSUME NEW i \in Copies(c) PROVE FALSE
    <3>1. Copies(c) = {i}
      BY <2>1
    <3>2. Cardinality({i}) = 1
      BY FS_Singleton
    <3> QED BY <3>1, <3>2
  <2> QED BY <2>2, <2>3
<1> QED BY <1>1, <1>2, <1>3, PTL DEF CurationSpec
===========================================================================
