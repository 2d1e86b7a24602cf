---------------------------- MODULE Installation ----------------------------
(***************************************************************************)
(* What openpalm install, an upgrade, a refresh of the catalogue and an    *)
(* uninstall with --purge do to the files under OP_HOME, of which the user *)
(* may edit each: files are seeded from the program itself, overwritten    *)
(* by those of a release, backed up, or kept.  A file stands for all of    *)
(* its kind.  Downloads fail, writes fail half way, processes are killed.  *)
(* One of these commands runs at a time.                                   *)
(***************************************************************************)
EXTENDS Naturals, Sequences, Functions

CONSTANTS
  Releases,   \* the releases there are
  Bundled,    \* the release whose files the program carries in itself
  Main,       \* the branch, which is installed if no release is found
  Absent,     \* no file, no image tag
  Torn,       \* a file whose writing was broken off
  Edited,     \* a file with changes of the user
  MaxRuns,    \* bound: how many commands are begun
  MaxChanges    \* bound: how often the user changes a file

ASSUME InstallationAssumption ==
  /\ Bundled \in Releases /\ Main \notin Releases /\ {MaxRuns, MaxChanges} \subseteq Nat
  /\ {Absent, Torn, Edited} \cap (Releases \cup {Main}) = {}
  /\ Absent # Torn /\ Absent # Edited /\ Torn # Edited /\ Absent # "latest"

Versions == Releases \cup {Main}

Files == {"compose", "registry", "schemas", "assistant", "memoryConf", "userEnv"}

\* What a download overwrites, in its order; what the program carries; what an
\* upgrade brings up to date, in its order; and what --purge leaves.
Downloaded == <<"compose", "registry", "schemas", "assistant">>
EMBEDDED_ASSETS == <<"compose", "registry", "memoryConf", "schemas">>
MANAGED_ASSETS == <<"compose", "assistant", "schemas">>
Unpurged == {"compose", "registry"}

VARIABLES
  home,     \* per file Absent, Torn, Edited or the version it is of
  tag,      \* OP_IMAGE_TAG of stack.env
  pc,       \* the step the command is at
  version,  \* what it installs
  fetched,  \* whether its download went through
  fresh,    \* whether it found no installation
  saved,    \* the files whose changes are also in a backup (history)
  meanwhile,     \* the files changed since it was begun (history)
  runs, changes

installationVars == <<home, tag, pc, version, fetched, fresh, saved, meanwhile, runs, changes>>
runVars == <<version, fetched, fresh>>

\* All is well-typed; of a branch there is no image tag.
InstallationTypeOK ==
  /\ home \in [Files -> Versions \cup {Absent, Torn, Edited}]
  /\ tag \in Releases \cup {Absent, "latest"}
  /\ pc \in {"idle", "seed", "download", "secrets", "ready", "upgrade", "refresh"}
  /\ version \in Versions /\ {fetched, fresh} \subseteq BOOLEAN
  /\ saved \subseteq Files /\ meanwhile \subseteq Files /\ runs \in 0..MaxRuns /\ changes \in 0..MaxChanges

\* An empty home, or one with what some release left there.
InstallationInit ==
  /\ \/ home = [f \in Files |-> Absent] /\ tag = Absent
     \/ \E r \in Releases : home = [f \in Files |-> r] /\ tag = r
  /\ pc = "idle" /\ version = Main /\ fetched = FALSE /\ fresh = FALSE
  /\ saved = {} /\ meanwhile = {} /\ runs = 0 /\ changes = 0

-----------------------------------------------------------------------------
(* Files are written one after the other: a command that goes wrong half way *)
(* has written some, has broken off one, and has left the rest.              *)

\* The first n files of a list.
UpTo(order, n) == {order[i] : i \in 1..n}

\* Of the files `order` those in S, written up to the n-th, of `of`; the next one is torn
\* if it was begun.
Written(order, S, n, of, begun) ==
  [f \in Files |->
     IF f \in S \cap UpTo(order, n) THEN of
     ELSE IF begun /\ n < Len(order) /\ f \in S /\ f = order[n + 1] THEN Torn ELSE home[f]]

\* Only what is not there is seeded, and what is there is not looked at.
Missing == {f \in Range(EMBEDDED_ASSETS) : home[f] = Absent}

\* Of the assets of an upgrade those that differ, which are backed up.
Outdated(v) == {f \in Range(MANAGED_ASSETS) : home[f] # v}

EditedOf(S) == {f \in S : home[f] = Edited}

Begins(step) ==
  /\ pc = "idle" /\ runs < MaxRuns
  /\ runs' = runs + 1 /\ pc' = step /\ meanwhile' = {} /\ UNCHANGED changes

Goes(from, to) == pc = from /\ pc' = to /\ UNCHANGED <<version, fresh, meanwhile, runs, changes>>

-----------------------------------------------------------------------------
(* openpalm install. *)

alreadyInstalled == home["userEnv"] # Absent

\* An existing installation is refused without --force; with it all is backed up.
BackedUp_Never == saved
BackedUp == IF alreadyInstalled THEN saved \cup EditedOf(Files) ELSE saved

Install(force, v) ==
  /\ alreadyInstalled => force
  /\ Begins("seed")
  /\ version' = v /\ fetched' = FALSE /\ fresh' = ~alreadyInstalled
  /\ saved' = BackedUp
  /\ UNCHANGED <<home, tag>>

seedEmbeddedAssets ==
  /\ Goes("seed", "download")
  /\ home' = Written(EMBEDDED_ASSETS, Missing, Len(EMBEDDED_ASSETS), Bundled, FALSE)
  /\ UNCHANGED <<tag, fetched, saved>>

\* seedOpenPalmDir.  Whatever it throws is caught: nothing came, or a write failed.
seedOpenPalmDir ==
  /\ Goes("download", "secrets")
  /\ \/ home' = Written(Downloaded, Files, Len(Downloaded), version, FALSE) /\ fetched' = TRUE
     \/ \E n \in 0..Len(Downloaded) - 1, begun \in BOOLEAN :
          home' = Written(Downloaded, Files, n, version, begun) /\ UNCHANGED fetched
  /\ UNCHANGED <<tag, saved>>

\* ensureSecrets, ensureStackEnv: a branch has no image of its own.
TagOf_Kept(v) == IF tag = Absent THEN (IF v \in Releases THEN v ELSE "latest") ELSE tag
TagOf_Branch(v) == v
TagOf(v) == IF v \in Releases THEN v ELSE IF tag = Absent THEN "latest" ELSE tag

ensureSecrets ==
  /\ Goes("secrets", "ready")
  /\ home' = [home EXCEPT !["userEnv"] = IF @ = Absent THEN Bundled ELSE @]
  /\ tag' = TagOf(version)
  /\ UNCHANGED <<fetched, saved>>

\* The wizard, and the deployment, which SetupWizard models.
SetUp == Goes("ready", "idle") /\ UNCHANGED <<home, tag, fetched, saved>>

-----------------------------------------------------------------------------
(* The other commands. *)

\* performUpgrade.
Upgrade(v) ==
  /\ alreadyInstalled /\ Begins("upgrade")
  /\ version' = v /\ UNCHANGED <<home, tag, fetched, fresh, saved>>

\* Each asset is downloaded, compared, backed up and written before the next: the last
\* one that got a backup may not have been written.
refreshCoreAssets ==
  /\ Goes("upgrade", "idle")
  /\ \E n, b \in 0..Len(MANAGED_ASSETS), begun \in BOOLEAN :
       /\ b \in n..n + 1 /\ (begun => b = n + 1)
       /\ home' = Written(MANAGED_ASSETS, Outdated(version), n, version, begun)
       /\ saved' = saved \cup EditedOf(Outdated(version) \cap UpTo(MANAGED_ASSETS, b))
  /\ UNCHANGED <<tag, fetched>>

\* refreshRegistryCatalog: the catalogue is removed and then copied.
RefreshCatalog(v) ==
  /\ alreadyInstalled /\ Begins("refresh")
  /\ version' = v /\ UNCHANGED <<home, tag, fetched, fresh, saved>>

materializeRegistryCatalog ==
  /\ Goes("refresh", "idle")
  /\ home' \in {home} \cup {[home EXCEPT !["registry"] = c] : c \in {version, Absent, Torn}}
  /\ UNCHANGED <<tag, fetched, saved>>

\* openpalm uninstall --purge.
Purge ==
  /\ pc = "idle" /\ runs < MaxRuns /\ runs' = runs + 1
  /\ alreadyInstalled
  /\ home' = [f \in Files |-> IF f \in Unpurged THEN home[f] ELSE Absent]
  /\ tag' = Absent
  /\ UNCHANGED <<pc, runVars, saved, meanwhile, changes>>

-----------------------------------------------------------------------------
\* The process is killed; in the steps that write, half way.
Kill ==
  /\ pc \notin {"idle", "upgrade", "refresh"}
  /\ pc' = "idle" /\ UNCHANGED <<runVars, saved, meanwhile, runs, changes>>
  /\ \/ UNCHANGED <<home, tag>>
     \/ /\ pc = "seed" /\ UNCHANGED tag
        /\ \E n \in 0..Len(EMBEDDED_ASSETS) : home' = Written(EMBEDDED_ASSETS, Missing, n, Bundled, TRUE)
     \/ /\ pc = "download" /\ UNCHANGED tag
        /\ \E n \in 0..Len(Downloaded), begun \in BOOLEAN : home' = Written(Downloaded, Files, n, version, begun)
     \/ /\ pc = "secrets" /\ UNCHANGED tag
        /\ home' = [home EXCEPT !["userEnv"] = IF @ = Absent THEN Bundled ELSE @]

\* The user changes a file; a backup there is of it is of an older state.
ChangeFile(f) ==
  /\ home[f] \notin {Absent, Torn} /\ changes < MaxChanges /\ changes' = changes + 1
  /\ home' = [home EXCEPT ![f] = Edited]
  /\ saved' = saved \ {f} /\ meanwhile' = IF pc = "idle" THEN meanwhile ELSE meanwhile \cup {f}
  /\ UNCHANGED <<tag, pc, runVars, runs>>

InstallationNext ==
  \/ \E force \in BOOLEAN, v \in Versions : Install(force, v)
  \/ \E v \in Versions : Upgrade(v) \/ RefreshCatalog(v)
  \/ seedEmbeddedAssets \/ seedOpenPalmDir \/ ensureSecrets \/ SetUp
  \/ refreshCoreAssets \/ materializeRegistryCatalog \/ Purge \/ Kill
  \/ \E f \in Files : ChangeFile(f)

InstallationSpec == InstallationInit /\ [][InstallationNext]_installationVars

-----------------------------------------------------------------------------
\* What the user changed is overwritten only with a copy in a backup.  Not so what
\* he changes while a command is at work, what a first installation finds in a home
\* without user.env, as --purge leaves it, and the catalogue when it is refreshed; and
\* what --purge removes.  His own settings, user.env and the configuration of the
\* memory, only --purge ever changes.
EditsSurvive ==
  [][\A f \in EditedOf(Files) : home'[f] # Edited =>
       \/ home'["userEnv"] = Absent /\ f \notin Unpurged
       \/ f \in Range(Downloaded) /\ (f \in saved' \/ f \in meanwhile \/ (fresh /\ pc # "upgrade"))
       \/ f = "registry" /\ pc = "refresh"]_installationVars

\* An installation that gets to its setup leaves nothing missing that the program
\* carries, not even offline.  If its download went through, every file of the release
\* is whole and of the one release the images are of, whatever was there before, be
\* it torn; only what the user changes meanwhile is his.
InstallIsWhole ==
  pc = "ready" =>
    /\ \A f \in Range(EMBEDDED_ASSETS) \cup {"userEnv"} : home[f] # Absent
    /\ fetched => \A f \in Range(Downloaded) : home[f] = version \/ f \in meanwhile
    /\ tag # Absent /\ (version \in Releases => tag = version)

\* The states are well-typed, an installation comes out whole, and what the user
\* changed survives.
InstallHolds == [](InstallationTypeOK /\ InstallIsWhole) /\ EditsSurvive
=============================================================================
