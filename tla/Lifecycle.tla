----------------------------- MODULE Lifecycle -----------------------------
(***************************************************************************)
(* The operations of the control plane on the files of the stack and on    *)
(* its containers: install, update, upgrade and uninstall (admin routes and*)
(* CLI), rollback, enabling and disabling of an addon, and the saving of a *)
(* setting.  Every operation runs in a process of its own; an action is one*)
(* stretch of an operation from a wait (registry, download, docker) to the *)
(* next.  Any wait may end in failure, and a process may be killed in it.  *)
(* A docker command is a process too: it is given what it is to do when it *)
(* is started, and does it service by service, also beside another one.    *)
(* The lock is what OrchestratorLock promises when nobody races: one       *)
(* holder, and a holder that is dead holds nothing.                        *)
(***************************************************************************)
EXTENDS Naturals, FiniteSets, Functions

CONSTANTS
  Ops,        \* the operations
  Kinds,      \* the kinds of operation that occur
  Addons,     \* the addons of the registry; each is a channel with a secret
  Core,       \* the services of core.compose.yml, as one
  Initial,    \* who made what there is at the start
  None,       \* no secret, no container, no holder of the lock
  MaxKills    \* bound: how many processes are killed

AllKinds == {"install", "update", "upgrade", "uninstall", "rollback", "enable", "disable", "save"}

ASSUME LifecycleAssumption ==
  /\ Kinds \subseteq AllKinds /\ MaxKills \in Nat
  /\ Core \notin Addons /\ None \notin Ops \cup {Initial}

VARIABLES
  kind,         \* what each operation is, and
  addon,        \* the addon it is about, if any
  pc,           \* the wait it is in, or "new", "ok", "warned", "failed", "killed"
  found,        \* originalStackEnv of performUpgrade
  files,        \* the overlays listed before services were asked for
  named,        \* the addons it will have docker start
  jobs,         \* what its docker command still has to do: service |-> None or
                \* what it is created from
  stackEnv,     \* stack.env: the image tag, named by who looked it up, and the
                \* settings saved in it
  coreCompose,  \* core.compose.yml, named by who downloaded it
  enabled,      \* stack/addons
  guardianEnv,  \* guardian.env: per addon its secret, named by who made it
  snapshot,     \* the rollback directory, with who filled it
  containers,   \* per service None, or what it was created from
  lock,         \* the process named in the lock file
  met,          \* per operation, those that ran while it did (history)
  contested     \* the services two docker commands had in hand at the same time,
                \* or one not knowing them to be enabled (history)

config == <<stackEnv, coreCompose, enabled, guardianEnv>>
docker == <<containers, jobs, contested>>
lifecycleVars == <<kind, addon, pc, found, files, named, config, snapshot, docker, lock, met>>

Versions == Ops \cup {Initial}
StackEnv == [tag : Versions, settings : SUBSET Ops]
Secrets == [Addons -> Ops \cup {Initial, None}]
Waits == {"preflight", "lookup", "assets", "reconcile", "pull", "config", "up", "down", "stop", "stopped"}
Services == Addons \cup {Core}
Containers == [tag : Versions, of : Ops \cup {Initial, None}]
Jobs == UNION {[S -> {None} \cup Containers] : S \in SUBSET Services}

LifecycleTypeOK ==
  /\ kind \in [Ops -> Kinds] /\ addon \in [Ops -> Addons]
  /\ pc \in [Ops -> Waits \cup {"new", "ok", "warned", "failed", "killed"}]
  /\ found \in [Ops -> StackEnv] /\ stackEnv \in StackEnv
  /\ files \in [Ops -> SUBSET Addons] /\ named \in [Ops -> SUBSET Addons] /\ enabled \subseteq Addons
  /\ jobs \in [Ops -> Jobs]
  /\ coreCompose \in Versions /\ guardianEnv \in Secrets
  /\ snapshot \in [by : Ops \cup {Initial, None}, stackEnv : StackEnv, coreCompose : Versions, enabled : SUBSET Addons,
                   guardianEnv : Secrets]
  /\ containers \in [Services -> {None} \cup Containers] /\ contested \subseteq Services
  /\ lock \in Ops \cup {None}
  /\ met \in [Ops -> SUBSET Ops]

\* What a service is created from, by the files as they are.
Created(s) == [tag |-> stackEnv.tag, of |-> IF s = Core THEN coreCompose ELSE guardianEnv[s]]

LifecycleInit ==
  /\ kind \in [Ops -> Kinds] /\ addon \in [Ops -> Addons]
  /\ pc = [o \in Ops |-> "new"]
  /\ stackEnv = [tag |-> Initial, settings |-> {}] /\ found = [o \in Ops |-> stackEnv]
  /\ enabled \in SUBSET Addons /\ files = [o \in Ops |-> {}] /\ named = [o \in Ops |-> {}]
  /\ coreCompose = Initial
  /\ guardianEnv = [a \in Addons |-> IF a \in enabled THEN Initial ELSE None]
  /\ snapshot \in [by : {Initial, None}, stackEnv : {stackEnv}, coreCompose : {coreCompose},
                   enabled : {enabled}, guardianEnv : {guardianEnv}]
  /\ containers = [s \in Services |-> IF s \in enabled \cup {Core} THEN Created(s) ELSE None]
  /\ jobs = [o \in Ops |-> [s \in {} |-> None]] /\ contested = {}
  /\ lock = None
  /\ met = [o \in Ops |-> {}]

-----------------------------------------------------------------------------
InFlight == {o \in Ops : pc[o] \in Waits}

\* An operation begins, goes on or ends; an operation of one stretch is "ok" at
\* once, and has met those in flight too.
Goes(o, from, to) ==
  /\ pc[o] = from
  /\ pc' = [pc EXCEPT ![o] = to]
  /\ met' = IF from = "new"
            THEN [p \in Ops |-> IF p = o THEN InFlight ELSE IF p \in InFlight THEN met[p] \cup {o} ELSE met[p]]
            ELSE met
  /\ UNCHANGED <<kind, addon>>

IsA(o, kinds) == kind[o] \in kinds

\* A holder that was killed left a stale lock, which the next one removes.
LockFree == \A o \in Ops : lock = o => pc[o] = "killed"

\* A bug the `finally` blocks could have: the path that throws has none.
Released_Not(o) == UNCHANGED lock

Released(o) == lock' = IF lock = o THEN None ELSE lock

Fails(o, from) == Goes(o, from, "failed") /\ Released(o)

\* Its docker command is told what to do to which services, or is over.
Told(o, job) == jobs' = [jobs EXCEPT ![o] = job]
NothingToDo == [s \in {} |-> None]

-----------------------------------------------------------------------------
(* reconcileCore: docker is asked first; then, in one stretch, the snapshot*)
(* and the files.  The snapshot directory is never emptied.                *)

snapshotCurrentState(o) ==
  [by |-> o, stackEnv |-> stackEnv, coreCompose |-> coreCompose,
   enabled |-> snapshot.enabled \cup enabled, guardianEnv |-> guardianEnv]

\* Secrets for the enabled channels that have none; the tag and the settings
\* of stack.env, and core.compose.yml, are written back as they were read.
SecretsWritten(o) == [a \in Addons |-> IF a \in enabled /\ guardianEnv[a] = None THEN o ELSE guardianEnv[a]]

Reconciles(o, to) ==
  /\ Goes(o, "reconcile", to)
  /\ snapshot' = snapshotCurrentState(o)
  /\ guardianEnv' = SecretsWritten(o)
  /\ Released(o)
  /\ UNCHANGED <<stackEnv, coreCompose, enabled, found, docker>>

\* docker compose config is asked for the services of the overlays S.
Asks(o, S) == named' = [named EXCEPT ![o] = S]

\* applyInstall, applyUpdate; the routes go on to docker compose.
Apply(o) ==
  /\ IsA(o, {"install", "update"})
  /\ IF LockFree THEN Goes(o, "new", "reconcile") /\ lock' = o ELSE Fails(o, "new")
  /\ UNCHANGED <<config, snapshot, docker, found, files, named>>

Applied(o) ==
  /\ IsA(o, {"install", "update"})
  /\ Reconciles(o, "config")
  /\ Asks(o, enabled)
  /\ files' = [files EXCEPT ![o] = enabled]

\* The uninstall route: containers down, whether docker agrees or not, then files.
Uninstall(o) ==
  /\ IsA(o, {"uninstall"})
  /\ Goes(o, "new", "down")
  /\ Told(o, [s \in Services |-> None])
  /\ UNCHANGED <<config, snapshot, containers, contested, lock, found, files, named>>

WentDown(o) ==
  /\ IsA(o, {"uninstall"})
  /\ Told(o, NothingToDo)
  /\ IF LockFree THEN Goes(o, "down", "reconcile") /\ lock' = o ELSE Fails(o, "down")
  /\ UNCHANGED <<config, snapshot, containers, contested, found, files, named>>

Uninstalled(o) ==
  /\ IsA(o, {"uninstall"})
  /\ Reconciles(o, "ok")
  /\ UNCHANGED <<files, named>>

-----------------------------------------------------------------------------
(* performUpgrade.                                                         *)

Upgrade(o) ==
  /\ IsA(o, {"upgrade"})
  /\ Goes(o, "new", "preflight")
  /\ files' = [files EXCEPT ![o] = enabled]
  /\ UNCHANGED <<config, snapshot, docker, lock, found, named>>

Preflighted(o) ==
  /\ Goes(o, "preflight", "lookup")
  /\ found' = [found EXCEPT ![o] = stackEnv]
  /\ UNCHANGED <<config, snapshot, docker, lock, files, named>>

\* A bug of the merge: into what was read before the registry was asked.
Tagged_Stale(o) == [found[o] EXCEPT !.tag = o]

Tagged(o) == [stackEnv EXCEPT !.tag = o]

\* The registry has answered: the tag is merged into stack.env and the lock
\* taken; if it is not to be had, stack.env is put back as it was found.
LookedUp(o) ==
  /\ \/ /\ LockFree
        /\ Goes(o, "lookup", "assets")
        /\ stackEnv' = Tagged(o) /\ lock' = o
     \/ /\ ~LockFree
        /\ Fails(o, "lookup")
        /\ stackEnv' = found[o]
  /\ UNCHANGED <<coreCompose, enabled, guardianEnv, snapshot, docker, found, files, named>>

\* refreshCoreAssets: core.compose.yml comes first, other files after it.  It is
\* of OP_ASSET_VERSION, or of the branch main, whatever the tag looked up.
Downloaded(o) ==
  /\ Goes(o, "assets", "reconcile")
  /\ coreCompose' = o
  /\ UNCHANGED <<stackEnv, enabled, guardianEnv, snapshot, docker, lock, found, files, named>>

\* A bug of the catch block: it does not know what it found.
PutBack_Not(o) == UNCHANGED stackEnv

PutBack(o) == stackEnv' = found[o]

\* Up to the end of applyUpgrade, whatever throws has stack.env put back.
UpgradeThrows(o) ==
  /\ IsA(o, {"upgrade"})
  /\ \E from \in {"lookup", "assets", "reconcile"} : Fails(o, from)
  /\ PutBack(o)
  /\ UNCHANGED <<coreCompose, enabled, guardianEnv, snapshot, docker, found, files, named>>

Upgraded(o) ==
  /\ IsA(o, {"upgrade"})
  /\ Reconciles(o, "pull")
  /\ UNCHANGED <<files, named>>

\* compose pull, with the overlays listed at the start: one removed since fails it.
Pulled(o) ==
  /\ Goes(o, "pull", "config")
  /\ files[o] \subseteq enabled
  /\ Asks(o, enabled)
  /\ UNCHANGED <<config, snapshot, docker, lock, found, files>>

-----------------------------------------------------------------------------
(* docker compose up.                                                      *)

\* The overlays it is given: an upgrade's and an update's were listed earlier.
Given(o) == IF IsA(o, {"upgrade", "update"}) THEN files[o] ELSE enabled

\* The services to start, given the addons S among them: enabling starts only these.
Wanted(o, S) == IF IsA(o, {"enable"}) THEN S ELSE S \cup {Core}

\* What --remove-orphans removes: the containers the overlays given do not know.
Orphans(o) == IF IsA(o, {"upgrade", "rollback"}) THEN Addons \ Given(o) ELSE {}

\* The overlays are there, and the services are in them.
Composes(o, S) == S \subseteq Given(o) /\ Given(o) \subseteq enabled

\* A bug of compose up, if it were told not to recreate what runs.
Order_NoRecreate(o, S) ==
  [s \in {x \in Wanted(o, S) : containers[x] = None} \cup Orphans(o) |-> IF s \in Wanted(o, S) THEN Created(s) ELSE None]

\* What docker compose up is to do: it reads the files when it is started.
Order(o, S) == [s \in Wanted(o, S) \cup Orphans(o) |-> IF s \in Wanted(o, S) THEN Created(s) ELSE None]

\* Another command has the service in hand, or this one removes an enabled one;
\* else this one has the last word on it.
Contested(o, S) ==
  {s \in DOMAIN Order(o, S) : (\E p \in Ops \ {o} : s \in DOMAIN jobs[p]) \/ s \in enabled \ Wanted(o, S)}

Ended(o) == IF IsA(o, {"upgrade", "rollback"}) THEN "failed" ELSE "warned"

\* docker compose config has answered with the services of the addons S (or has
\* not, and the overlays are listed again): docker compose up is started.
Spawns(o) ==
  /\ \E S \in {named[o]} \cup (IF IsA(o, {"enable"}) THEN {} ELSE {enabled}) :
       \/ /\ Composes(o, S)
          /\ Goes(o, "config", "up")
          /\ Told(o, Order(o, S))
          /\ contested' = (contested \ DOMAIN Order(o, S)) \cup Contested(o, S)
       \/ /\ ~Composes(o, S)
          /\ Goes(o, "config", Ended(o))
          /\ UNCHANGED <<jobs, contested>>
  /\ UNCHANGED <<config, snapshot, containers, lock, found, files, named>>

\* The docker command of an operation does one of its services, also when the
\* operation itself was killed.
Works(o) ==
  /\ \E s \in DOMAIN jobs[o] :
       /\ containers' = [containers EXCEPT ![s] = jobs[o][s]]
       /\ Told(o, Restrict(jobs[o], DOMAIN jobs[o] \ {s}))
  /\ UNCHANGED <<kind, addon, pc, met, config, snapshot, contested, lock, found, files, named>>

Up(o) ==
  /\ Goes(o, "up", "ok")
  /\ DOMAIN jobs[o] = {}
  /\ UNCHANGED <<config, snapshot, docker, lock, found, files, named>>

\* A docker command fails, with its work done or not; enabling only warns, and
\* the routes of install and update answer that compose failed.
DockerFails(o) ==
  /\ \/ Fails(o, "preflight") \/ Fails(o, "pull")
     \/ Fails(o, "reconcile") /\ ~IsA(o, {"upgrade"})
     \/ Goes(o, "config", Ended(o)) /\ ~IsA(o, {"upgrade"}) /\ UNCHANGED lock
     \/ Goes(o, "up", Ended(o)) /\ UNCHANGED lock
  /\ Told(o, NothingToDo)
  /\ UNCHANGED <<config, snapshot, containers, contested, found, files, named>>

-----------------------------------------------------------------------------
(* The commands rollback and addon, which take no lock; a setting saved.   *)

hasSnapshot == snapshot.by # None

\* restoreSnapshot copies back what the directory holds and removes nothing.
Rollback(o) ==
  /\ IsA(o, {"rollback"})
  /\ \/ /\ hasSnapshot
        /\ Goes(o, "new", "config")
        /\ stackEnv' = snapshot.stackEnv
        /\ coreCompose' = snapshot.coreCompose
        /\ enabled' = enabled \cup snapshot.enabled
        /\ guardianEnv' = snapshot.guardianEnv
        /\ Asks(o, enabled')
     \/ /\ ~hasSnapshot
        /\ Goes(o, "new", "failed")
        /\ UNCHANGED <<config, named>>
  /\ UNCHANGED <<snapshot, docker, lock, found, files>>

\* A bug of setAddonEnabled: the secret is left to the next reconcileCore.
NewSecret_Later(o) == guardianEnv

NewSecret(o) == [guardianEnv EXCEPT ![addon[o]] = o]

\* The overlay is copied from the registry and a new secret is written.
EnableAddon(o) ==
  /\ IsA(o, {"enable"})
  /\ \/ /\ addon[o] \notin enabled
        /\ Goes(o, "new", "config")
        /\ enabled' = enabled \cup {addon[o]}
        /\ guardianEnv' = NewSecret(o)
        /\ Asks(o, {addon[o]})
     \/ /\ addon[o] \in enabled
        /\ Goes(o, "new", "ok")
        /\ UNCHANGED <<enabled, guardianEnv, named>>
  /\ UNCHANGED <<stackEnv, coreCompose, snapshot, docker, lock, found, files>>

\* Its services are stopped first, if they are known to run ...
DisableAddon(o) ==
  /\ IsA(o, {"disable"})
  /\ \/ addon[o] \in enabled /\ Goes(o, "new", "stop") /\ Told(o, [s \in {addon[o]} |-> None])
     \/ addon[o] \notin enabled /\ Goes(o, "new", "ok") /\ UNCHANGED jobs
  /\ UNCHANGED <<config, snapshot, containers, contested, lock, found, files, named>>

StopsAddon(o) ==
  /\ IsA(o, {"disable"})
  /\ Goes(o, "stop", "stopped")
  /\ DOMAIN jobs[o] = {}
  /\ UNCHANGED <<config, snapshot, docker, lock, found, files, named>>

\* ... and then its overlay is removed, whether docker obeyed or not.
RemovesAddon(o) ==
  /\ Goes(o, "stopped", "ok") \/ Goes(o, "stop", "warned")
  /\ enabled' = enabled \ {addon[o]}
  /\ Told(o, NothingToDo)
  /\ UNCHANGED <<stackEnv, coreCompose, guardianEnv, snapshot, containers, contested, lock, found, files, named>>

\* patchSecretsEnvFile and its like: a key is merged into stack.env.
SaveSetting(o) ==
  /\ IsA(o, {"save"})
  /\ Goes(o, "new", "ok")
  /\ stackEnv' = [stackEnv EXCEPT !.settings = @ \cup {o}]
  /\ UNCHANGED <<coreCompose, enabled, guardianEnv, snapshot, docker, lock, found, files, named>>

\* The process dies in a wait; its docker command dies with it or goes on.
Kill(o) ==
  /\ Cardinality({p \in Ops : pc[p] = "killed"}) < MaxKills
  /\ \E from \in Waits : Goes(o, from, "killed")
  /\ Told(o, NothingToDo) \/ UNCHANGED jobs
  /\ UNCHANGED <<config, snapshot, containers, contested, lock, found, files, named>>

Begins(o) == Apply(o) \/ Uninstall(o) \/ Upgrade(o) \/ Rollback(o) \/ EnableAddon(o) \/ DisableAddon(o) \/ SaveSetting(o)
GoesOn(o) == Applied(o) \/ WentDown(o) \/ Uninstalled(o) \/ Preflighted(o) \/ LookedUp(o) \/ Downloaded(o)
             \/ Upgraded(o) \/ Pulled(o) \/ Spawns(o) \/ Up(o) \/ StopsAddon(o) \/ RemovesAddon(o)

LifecycleNext == \E o \in Ops : Begins(o) \/ GoesOn(o) \/ Works(o) \/ UpgradeThrows(o) \/ DockerFails(o) \/ Kill(o)

LifecycleSpec == LifecycleInit /\ [][LifecycleNext]_lifecycleVars

(***************************************************************************)
(* Properties.                                                             *)
(***************************************************************************)
\* Whatever path an operation takes out of its locked part, it gives the lock
\* back; and only the one named in the lock is in such a part.
LockExact ==
  /\ LifecycleTypeOK
  /\ \A o \in Ops : pc[o] \in {"assets", "reconcile"} => lock = o
  /\ \A o \in Ops : lock = o => pc[o] \in {"assets", "reconcile", "killed"}

Rivals(u) == {o \in met[u] : kind[o] \in {"upgrade", "rollback"}}

\* A setting saved in stack.env leaves it again only by a rollback, or by an
\* upgrade that fails and puts back the file it found before the setting came:
\* it was saved, or brought back by a rival, while the upgrade went on.
SettingsKept ==
  [][\A s \in stackEnv.settings \ stackEnv'.settings :
       \E o \in Ops : \/ kind[o] = "rollback" /\ pc[o] = "new"
                      \/ kind[o] = "upgrade" /\ pc'[o] = "failed" /\ (s \in met[o] \/ Rivals(o) # {})]_lifecycleVars

\* The image tag and the core.compose.yml in place were fetched by one and the
\* same upgrade, but for an upgrade on its way, one that was killed or that failed
\* once its assets were there, or one that met another upgrade or a rollback.
\* (That they are of one release the code does not ensure: the tag is the newest
\* on Docker Hub, the file is of OP_ASSET_VERSION or main.)
FetchedTogether ==
  stackEnv.tag # coreCompose =>
    \E u \in Ops : kind[u] = "upgrade" /\ (
      \/ pc[u] = "killed" \/ Rivals(u) # {}
      \/ pc[u] = "assets" /\ stackEnv.tag = u
      \/ pc[u] = "failed" /\ coreCompose = u)

\* When every operation begun has ended well, what runs is what is configured,
\* in whatever order they wrote their files: but for services that two docker
\* commands had in hand at the same time and may have left as the older of them
\* read them, or that an upgrade removed because they were enabled after it listed
\* the overlays; and unless an addon was being disabled at the time.  (After an
\* uninstall nothing runs.)
RunsWhatIsConfigured ==
  /\ \A o \in Ops : pc[o] \in {"new", "ok"}
  /\ \A o \in Ops : kind[o] = "disable" => met[o] = {}
  /\ \A o \in Ops : kind[o] = "uninstall" => pc[o] = "new"
  => \A s \in Services \ contested : containers[s] = IF s \in enabled \cup {Core} THEN Created(s) ELSE None

\* A channel that is enabled has a secret in the guardian's file, unless a
\* rollback has put back a file older than the channel.
EnabledHasSecret ==
  \A a \in enabled : guardianEnv[a] = None => \E o \in Ops : kind[o] = "rollback" /\ pc[o] # "new"

\* docs/technical/core-principles.md: "A snapshot of the current state is saved
\* to ~/.cache/openpalm/rollback/ before any write": the snapshot of an upgrade
\* holds the image tag the upgrade found.
SnapshotBeforeWrites ==
  \A u \in Ops : snapshot.by = u /\ kind[u] = "upgrade" => snapshot.stackEnv.tag = found[u].tag
=============================================================================
